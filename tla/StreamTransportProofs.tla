------------------------ MODULE StreamTransportProofs ------------------------
(***************************************************************************)
(* A client connection over a stream matches answers with requests, for    *)
(* any number of requests, IDs, places in the channels and any timeouts.   *)
(*                                                                         *)
(* The argument: a query the server may still answer, and every answer on  *)
(* its way, has its ID in the table (or in demux_reply, which has taken it *)
(* out and not put it back), with the request it is about.  An ID is given *)
(* up with the last answer only, and nothing with that ID is left then.    *)
(* The table is proved first, for any order of its operations.             *)
(***************************************************************************)
EXTENDS StreamTransport, QueryTable, FiniteSetTheorems, WellFoundedInduction, TLAPS

\* Leaves with arithmetic name SMT.
USE Zenon

------------------------------------------------------------------------------
(* The table of outstanding queries by itself. *)

\* A non-empty set of natural numbers has a least element.
LEMMA LeastNat ==
    ASSUME NEW S \in SUBSET Nat, S # {}
    PROVE  \E i \in S : \A j \in S : i <= j
<1> DEFINE R == {ss \in Nat \X Nat : ss[1] < ss[2]}
<1>0. R = OpToRel(<, Nat)
  BY DEF OpToRel
<1>1. IsWellFoundedOn(R, Nat)
  BY <1>0, NatLessThanWellFounded
<1> HIDE DEF R
<1>2. \E i \in S : \A j \in S : <<j, i>> \notin R
  BY <1>1, WFMin
<1>3. PICK i \in S : \A j \in S : <<j, i>> \notin R
  BY <1>2
<1>4. ASSUME NEW j \in S PROVE i <= j
  <2>1. <<j, i>> \notin R
     BY <1>3
  <2>2. ~ (j < i)
     BY <2>1 DEF R
  <2> QED BY <2>2, SMT
<1> QED
  BY <1>4

\* Well-formedness of a table, the inductive invariant: neither the exactness of
\* `count' nor the ID bound is preserved without the other conjuncts.
TableOK(q, E) ==
    /\ IsTable(q, E)
    /\ CountIsExact(q)
    /\ FullBelowCurr(q)
    /\ IdxFits(q)

\* The slots that hold a query are finitely many.
LEMMA OccupiedFinite ==
    ASSUME NEW q, NEW E, IsTable(q, E)
    PROVE  IsFiniteSet(Occupied(q)) /\ Cardinality(Occupied(q)) \in Nat
<1>1. q.len - 1 \in Int /\ 0 \in Int
  BY SMT DEF IsTable
<1>2. IsFiniteSet(0 .. (q.len - 1))
  BY <1>1, FS_Interval
<1>3. Occupied(q) \in SUBSET (0 .. (q.len - 1))
  BY DEF Occupied, Slots
<1> QED
  BY <1>2, <1>3, FS_Subset, FS_CardinalityType

\* Where insert puts a query: an empty slot, or the one after the last.
LEMMA InsertIdxType ==
    ASSUME NEW q, NEW E, IsTable(q, E)
    PROVE  /\ InsertIdx(q) \in 0 .. q.len
           /\ InsertIdx(q) < q.len => q.vec[InsertIdx(q)] = None
<1>1. CASE q.len >= 2 * q.count /\ FreeFromCurr(q) # {}
  <2>1. FreeFromCurr(q) \in SUBSET Nat
    BY SMT DEF FreeFromCurr, IsTable
  <2>2. \E i \in FreeFromCurr(q) : \A j \in FreeFromCurr(q) : i <= j
    BY <1>1, <2>1, LeastNat
  <2>3. InsertIdx(q) \in FreeFromCurr(q)
    BY <1>1, <2>2 DEF InsertIdx
  <2> QED
    BY <2>3, SMT DEF FreeFromCurr, IsTable
<1>2. CASE ~ (q.len >= 2 * q.count /\ FreeFromCurr(q) # {})
  BY <1>2, SMT DEF InsertIdx, IsTable
<1> QED
  BY <1>1, <1>2

\* insert never appends beyond the last message ID: when the vector is more than
\* half full its length is below 2*count, and when it is not, a scan that finds
\* nothing means the vector is full, hence empty.
LEMMA InsertIdxFits ==
    ASSUME NEW q, NEW E, TableOK(q, E), ~ InsertFails(q), InsertIdx(q) = q.len
    PROVE  q.len <= MaxId
<1> USE MaxIdAssumption
<1>1. CASE q.len < 2 * q.count
  BY <1>1, SMT DEF TableOK, IsTable, InsertFails
<1>2. CASE q.len >= 2 * q.count
  <2>1. FreeFromCurr(q) = {}
    <3> SUFFICES ASSUME FreeFromCurr(q) # {} PROVE FALSE
      OBVIOUS
    <3>1. FreeFromCurr(q) \in SUBSET Nat
      BY SMT DEF FreeFromCurr, TableOK, IsTable
    <3>2. \E i \in FreeFromCurr(q) : \A j \in FreeFromCurr(q) : i <= j
      BY <3>1, LeastNat
    <3>3. InsertIdx(q) \in FreeFromCurr(q)
      BY <1>2, <3>2 DEF InsertIdx
    <3> QED
      BY <3>3, SMT DEF FreeFromCurr, TableOK, IsTable
  <2>2. Occupied(q) = 0 .. (q.len - 1)
    BY <2>1, SMT DEF FreeFromCurr, Occupied, Slots, TableOK, IsTable, FullBelowCurr
  <2>3. q.len - 1 \in Int /\ 0 \in Int
    BY SMT DEF TableOK, IsTable
  <2>4. Cardinality(0 .. (q.len - 1)) = IF 0 > q.len - 1 THEN 0 ELSE (q.len - 1) - 0 + 1
    BY <2>3, FS_Interval
  <2>5. q.count = q.len
    BY <2>2, <2>4, SMT DEF TableOK, IsTable, CountIsExact
  <2> QED
    BY <1>2, <2>5, SMT DEF TableOK, IsTable
<1> QED
  BY <1>1, <1>2, SMT DEF TableOK, IsTable

\* insert keeps the table well formed.
LEMMA InsertOK ==
    ASSUME NEW q, NEW E, NEW r \in E, None \notin E,
           TableOK(q, E), ~ InsertFails(q)
    PROVE  TableOK(Insert(q, r), E)
<1> DEFINE idx == InsertIdx(q)
           n   == Insert(q, r)
<1> USE MaxIdAssumption
<1>0. IsTable(q, E)
  BY DEF TableOK
<1>1. idx \in 0 .. q.len /\ (idx < q.len => q.vec[idx] = None)
  BY <1>0, InsertIdxType
<1> HIDE DEF idx
<1>2. n = [count |-> q.count + 1,
           curr  |-> StepCurr(q, idx),
           len   |-> IF idx = q.len THEN q.len + 1 ELSE q.len,
           vec   |-> [i \in 0 .. ((IF idx = q.len THEN q.len + 1 ELSE q.len) - 1)
                        |-> IF i = idx THEN r ELSE q.vec[i]]]
  BY DEF Insert, idx
<1> HIDE DEF n
<1>3. IsTable(n, E)
  BY <1>0, <1>1, <1>2, SMTT(30) DEF IsTable, Slots, StepCurr
<1>4. CountIsExact(n)
  <2>1. Occupied(n) = Occupied(q) \cup {idx}
    BY <1>0, <1>1, <1>2, SMT DEF IsTable, Slots, Occupied
  <2>2. idx \notin Occupied(q)
    BY <1>0, <1>1, SMT DEF IsTable, Slots, Occupied
  <2>3. Cardinality(Occupied(q) \cup {idx}) = Cardinality(Occupied(q)) + 1
    BY <1>0, <2>2, OccupiedFinite, FS_AddElement
  <2> QED
    BY <2>1, <2>3, <1>2 DEF CountIsExact, TableOK
<1>5. FullBelowCurr(n)
  BY <1>0, <1>1, <1>2, SMT DEF TableOK, IsTable, FullBelowCurr, StepCurr
<1>6. IdxFits(n)
  <2>1. CASE idx = q.len
    BY <2>1, <1>0, <1>2, InsertIdxFits, SMT DEF idx, IdxFits, IsTable
  <2>2. CASE idx # q.len
    BY <2>2, <1>2 DEF TableOK, IdxFits
  <2> QED
    BY <2>1, <2>2
<1> QED
  BY <1>3, <1>4, <1>5, <1>6 DEF TableOK, n

\* try_remove of a taken slot keeps the table well formed.
LEMMA TryRemoveOK ==
    ASSUME NEW q, NEW E, TableOK(q, E), NEW id \in Occupied(q)
    PROVE  TableOK(TryRemove(q, id), E)
<1> DEFINE n == TryRemove(q, id)
<1>0. IsTable(q, E) /\ id \in Slots(q) /\ q.vec[id] # None
  BY DEF TableOK, Occupied
<1>1. q.count # 0 /\ Cardinality(Occupied(q) \ {id}) = q.count - 1
  BY <1>0, OccupiedFinite, FS_RemoveElement, FS_EmptySet DEF TableOK, CountIsExact
<1>2. n = [count |-> q.count - 1,
           curr  |-> IF id < q.curr THEN id ELSE q.curr,
           len   |-> q.len,
           vec   |-> [q.vec EXCEPT ![id] = None]]
  BY <1>1 DEF TryRemove
<1> HIDE DEF n
<1>3. q.count - 1 \in Nat
  BY <1>0, <1>1, SMT DEF IsTable
<1>4. IsTable(n, E)
  BY <1>0, <1>2, <1>3, SMT DEF IsTable, Slots
<1>5. Occupied(n) = Occupied(q) \ {id}
  BY <1>0, <1>2 DEF IsTable, Slots, Occupied
<1>6. CountIsExact(n)
  BY <1>1, <1>2, <1>5 DEF CountIsExact
<1>7. FullBelowCurr(n)
  BY <1>0, <1>2, SMT DEF TableOK, IsTable, Slots, FullBelowCurr
<1>8. IdxFits(n)
  BY <1>2 DEF TableOK, IdxFits
<1> QED
  BY <1>4, <1>6, <1>7, <1>8 DEF TableOK, n

\* insert_at of an empty slot of the vector keeps the table well formed.
LEMMA InsertAtOK ==
    ASSUME NEW q, NEW E, NEW r \in E, None \notin E, TableOK(q, E),
           NEW id \in Slots(q), q.vec[id] = None
    PROVE  TableOK(InsertAt(q, id, r), E)
<1> DEFINE n == InsertAt(q, id, r)
<1>0. IsTable(q, E)
  BY DEF TableOK
<1>1. n = [count |-> q.count + 1,
           curr  |-> StepCurr(q, id),
           len   |-> q.len,
           vec   |-> [q.vec EXCEPT ![id] = r]]
  BY DEF InsertAt
<1> HIDE DEF n
<1>2. IsTable(n, E)
  BY <1>0, <1>1, SMT DEF IsTable, Slots, StepCurr
<1>3. Occupied(n) = Occupied(q) \cup {id} /\ id \notin Occupied(q)
  BY <1>0, <1>1 DEF IsTable, Slots, Occupied
<1>4. CountIsExact(n)
  BY <1>0, <1>1, <1>3, OccupiedFinite, FS_AddElement, SMT DEF TableOK, CountIsExact
<1>5. FullBelowCurr(n)
  BY <1>0, <1>1, SMT DEF TableOK, IsTable, Slots, FullBelowCurr, StepCurr
<1>6. IdxFits(n)
  BY <1>1 DEF TableOK, IdxFits
<1> QED
  BY <1>2, <1>4, <1>5, <1>6 DEF TableOK, n

\* The empty table is well formed.
LEMMA EmptyOK ==
    ASSUME NEW E
    PROVE  TableOK(Empty, E)
<1> USE MaxIdAssumption
<1>1. IsTable(Empty, E)
  BY SMT DEF IsTable, Empty, Slots
<1>2. Occupied(Empty) = {}
  BY SMT DEF Occupied, Empty, Slots
<1> QED
  BY <1>1, <1>2, FS_EmptySet, SMT
  DEF TableOK, CountIsExact, FullBelowCurr, IdxFits, Empty

\* A query that is waiting for more answers is put back where it was: try_remove
\* followed by insert_at is an identity on the entries.
LEMMA PutBackOK ==
    ASSUME NEW q, NEW E, NEW r \in E, None \notin E, TableOK(q, E),
           NEW id \in Occupied(q)
    PROVE  TableOK(InsertAt(TryRemove(q, id), id, r), E)
<1> DEFINE n == TryRemove(q, id)
<1>1. TableOK(n, E)
  BY TryRemoveOK
<1>2. id \in Slots(n) /\ n.vec[id] = None
  BY DEF TryRemove, Slots, Occupied, TableOK, IsTable
<1> HIDE DEF n
<1>3. TableOK(InsertAt(n, id, r), E)
  BY <1>1, <1>2, InsertAtOK
<1> QED
  BY <1>3 DEF n

\* insert then try_remove of the same slot, the path of a query whose message
\* cannot be built.
LEMMA UnsendableOK ==
    ASSUME NEW q, NEW E, NEW r \in E, None \notin E,
           TableOK(q, E), ~ InsertFails(q)
    PROVE  /\ InsertIdx(q) \in Occupied(Insert(q, r))
           /\ TableOK(TryRemove(Insert(q, r), InsertIdx(q)), E)
<1>1. InsertIdx(q) \in 0 .. q.len
  BY InsertIdxType DEF TableOK
<1>2. InsertIdx(q) \in Occupied(Insert(q, r))
  BY <1>1, SMT DEF TableOK, IsTable, Occupied, Insert, Slots
<1> QED
  BY <1>2, InsertOK, TryRemoveOK

QInv == TableOK(query_vec, Queued)

\* Every step of the transport keeps the table well formed.
LEMMA QStepOK == QInv /\ [QNext]_query_vec => QInv'
<1> SUFFICES ASSUME TableOK(query_vec, Queued), [QNext]_query_vec
             PROVE  TableOK(query_vec', Queued)
  BY DEF QInv
<1> USE QueuedAssumption
<1>1. ASSUME NEW req \in Queued, InsertQuery(req) PROVE TableOK(query_vec', Queued)
  BY <1>1, InsertOK DEF InsertQuery
<1>2. ASSUME NEW req \in Queued, InsertUnsendable(req) PROVE TableOK(query_vec', Queued)
  BY <1>2, UnsendableOK DEF InsertUnsendable
<1>3. ASSUME NEW id \in 0 .. MaxId, Answer(id) PROVE TableOK(query_vec', Queued)
  BY <1>3, TryRemoveOK DEF Answer
<1>4. ASSUME NEW id \in 0 .. MaxId, AnswerMore(id) PROVE TableOK(query_vec', Queued)
  <2>1. id \in Occupied(query_vec) /\ query_vec.vec[id] \in Queued
    BY <1>4 DEF AnswerMore, Occupied, TableOK, IsTable
  <2> QED
    BY <1>4, <2>1, PutBackOK DEF AnswerMore
<1>5. CASE Fail
  BY <1>5, EmptyOK DEF Fail, Drain
<1>6. CASE UNCHANGED query_vec
  BY <1>6
<1> QED
  BY <1>1, <1>2, <1>3, <1>4, <1>5, <1>6 DEF QNext

\* The table of outstanding queries is well formed in every reachable state.
THEOREM TableInvariant == QSpec => []QInv
<1>1. QInit => QInv
  BY EmptyOK DEF QInit, QInv
<1> QED
  BY <1>1, QStepOK, PTL DEF QSpec

\* Type correctness of the table.
THEOREM TypeCorrect == QSpec => []QTypeOK
<1>1. QInv => QTypeOK
  BY DEF QInv, TableOK, QTypeOK
<1> QED
  BY <1>1, TableInvariant, PTL

\* The count of outstanding queries is exact in every reachable state.
THEOREM CountCorrect == QSpec => []CountExact
<1>1. QInv => CountExact
  BY DEF QInv, TableOK, CountExact
<1> QED
  BY <1>1, TableInvariant, PTL

\* A scan from `curr' misses no empty slot.
THEOREM CurrCorrect == QSpec => []CurrExact
<1>1. QInv => CurrExact
  BY DEF QInv, TableOK, CurrExact
<1> QED
  BY <1>1, TableInvariant, PTL

\* A slot index always fits the message ID field, for every width of it: the
\* `expect("query vec too large")' of insert() cannot panic.
THEOREM IdsAlwaysFit == QSpec => []IdsFit
<1>1. QInv => IdsFit
  BY DEF QInv, TableOK, IdsFit
<1> QED
  BY <1>1, TableInvariant, PTL

------------------------------------------------------------------------------

\* The pool of IDs a table stands for.
PoolOf(q) == [i \in Occupied(q) |-> q.vec[i]]

\* insert gives the query an ID of the range that nobody has.
LEMMA InsertAllocates ==
    ASSUME NEW q, NEW E, NEW r \in E, None \notin E,
           TableOK(q, E), ~ InsertFails(q)
    PROVE  /\ InsertIdx(q) \in (0 .. MaxId) \ Occupied(q)
           /\ PoolOf(Insert(q, r)) =
                [i \in Occupied(q) \cup {InsertIdx(q)} |->
                    IF i = InsertIdx(q) THEN r ELSE PoolOf(q)[i]]
<1> DEFINE idx == InsertIdx(q)
           n   == Insert(q, r)
<1> USE MaxIdAssumption
<1>1. /\ idx \in 0 .. q.len /\ (idx < q.len => q.vec[idx] = None)
      /\ idx = q.len => q.len <= MaxId
  BY InsertIdxType, InsertIdxFits DEF TableOK
<1>2. n.len = (IF idx = q.len THEN q.len + 1 ELSE q.len)
      /\ n.vec = [i \in 0 .. (n.len - 1) |-> IF i = idx THEN r ELSE q.vec[i]]
  BY DEF Insert
<1> HIDE DEF idx, n
<1>3. idx \in (0 .. MaxId) \ Occupied(q)
  BY <1>1, SMT DEF TableOK, IsTable, IdxFits, Occupied, Slots
<1>4. Occupied(n) = Occupied(q) \cup {idx}
  BY <1>1, <1>2, SMT DEF TableOK, IsTable, Occupied, Slots
<1>5. \A i \in Occupied(n) : n.vec[i] = IF i = idx THEN r ELSE PoolOf(q)[i]
  BY <1>2, <1>4 DEF Occupied, Slots, PoolOf
<1>6. PoolOf(n) = [i \in Occupied(q) \cup {idx} |-> IF i = idx THEN r ELSE PoolOf(q)[i]]
  BY <1>4, <1>5 DEF PoolOf
<1> QED
  BY <1>3, <1>6 DEF idx, n

\* try_remove releases one ID and leaves the others with their queries.
LEMMA TryRemoveReleases ==
    ASSUME NEW q, NEW E, TableOK(q, E), NEW id \in Occupied(q)
    PROVE  PoolOf(TryRemove(q, id)) = [i \in Occupied(q) \ {id} |-> PoolOf(q)[i]]
<1> DEFINE n == TryRemove(q, id)
<1>1. n.len = q.len /\ n.vec = [q.vec EXCEPT ![id] = None]
  BY DEF TryRemove
<1> HIDE DEF n
<1>2. Occupied(n) = Occupied(q) \ {id}
  BY <1>1 DEF TableOK, IsTable, Occupied, Slots
<1>3. \A i \in Occupied(n) : n.vec[i] = PoolOf(q)[i]
  BY <1>1, <1>2 DEF TableOK, IsTable, Occupied, Slots, PoolOf
<1> QED
  BY <1>2, <1>3 DEF PoolOf, n

\* The table implements the pool of IDs.
THEOREM TableIsPool == QSpec => IsPool
<1> USE QueuedAssumption
<1>1. QInit => Pool!Init
  BY SMT DEF QInit, Pool!Init, Empty, Occupied, Slots
<1>2. QInv /\ [QNext]_query_vec => [Pool!Next]_(PoolOf(query_vec))
  <2> SUFFICES ASSUME QInv, [QNext]_query_vec
               PROVE  Pool!Next \/ PoolOf(query_vec') = PoolOf(query_vec)
    BY DEF PoolOf, Occupied, Slots
  <2>0. TableOK(query_vec, Queued)
    BY DEF QInv
  <2>1. ASSUME NEW req \in Queued, InsertQuery(req) PROVE Pool!Next
    <3>1. Pool!Alloc(InsertIdx(query_vec), req) /\ InsertIdx(query_vec) \in 0 .. MaxId
      BY <2>0, <2>1, InsertAllocates, SMT DEF InsertQuery, Pool!Alloc, PoolOf
    <3> QED
      BY <3>1 DEF Pool!Next
  <2>2. ASSUME NEW req \in Queued, InsertUnsendable(req)
        PROVE  PoolOf(query_vec') = PoolOf(query_vec)
    <3> DEFINE n == Insert(query_vec, req)
               x == InsertIdx(query_vec)
    <3>1. /\ x \notin Occupied(query_vec)
          /\ PoolOf(n) = [i \in Occupied(query_vec) \cup {x} |->
                              IF i = x THEN req ELSE PoolOf(query_vec)[i]]
      <4>1. ~ InsertFails(query_vec)
        BY <2>2 DEF InsertUnsendable
      <4>2. None \notin Queued
        BY QueuedAssumption
      <4>3. InsertIdx(query_vec) \in (0 .. MaxId) \ Occupied(query_vec)
        BY ONLY <2>0, <4>1, <4>2, InsertAllocates, Zenon
      <4>4. PoolOf(Insert(query_vec, req)) =
              [i \in Occupied(query_vec) \cup {InsertIdx(query_vec)} |->
                  IF i = InsertIdx(query_vec) THEN req ELSE PoolOf(query_vec)[i]]
        BY ONLY <2>0, <4>1, <4>2, InsertAllocates, ZenonT(60)
      <4> QED
        BY ONLY <4>3, <4>4
    <3>2. TableOK(n, Queued) /\ x \in Occupied(n)
      BY <2>0, <2>2, InsertOK, UnsendableOK DEF InsertUnsendable
    <3>3. query_vec' = TryRemove(n, x)
      BY <2>2 DEF InsertUnsendable
    <3> HIDE DEF n, x
    <3>4. PoolOf(query_vec') = [i \in Occupied(n) \ {x} |-> PoolOf(n)[i]]
      BY <3>2, <3>3, TryRemoveReleases
    <3>5. Occupied(n) = Occupied(query_vec) \cup {x}
      BY <3>1 DEF PoolOf
    <3> QED
      BY <3>1, <3>4, <3>5, ZenonT(30) DEF PoolOf
  <2>3. ASSUME NEW id \in 0 .. MaxId, Answer(id) PROVE Pool!Next
    <3>1. Pool!Release(id)
      BY <2>0, <2>3, TryRemoveReleases, SMT DEF Answer, Pool!Release, PoolOf
    <3> QED
      BY <3>1 DEF Pool!Next
  <2>4. ASSUME NEW id \in 0 .. MaxId, AnswerMore(id)
        PROVE  PoolOf(query_vec') = PoolOf(query_vec)
    <3>1. /\ id \in Slots(query_vec) /\ query_vec.vec[id] # None
          /\ query_vec.vec \in [Slots(query_vec) -> Queued \cup {None}]
      BY <2>0, <2>4 DEF AnswerMore, Occupied, TableOK, IsTable
    <3>2. /\ query_vec'.len = query_vec.len
          /\ query_vec'.vec = [[query_vec.vec EXCEPT ![id] = None]
                                EXCEPT ![id] = query_vec.vec[id]]
      BY <2>4 DEF AnswerMore, InsertAt, TryRemove
    <3>3. query_vec'.vec = query_vec.vec
      BY <3>1, <3>2
    <3> QED
      BY <3>2, <3>3 DEF PoolOf, Occupied, Slots
  <2>5. CASE Fail
    BY <2>5, SMT DEF Fail, Drain, Pool!Next, Pool!Clear, Empty, Occupied, Slots
  <2>6. CASE UNCHANGED query_vec
    BY <2>6
  <2> QED
    BY <2>1, <2>2, <2>3, <2>4, <2>5, <2>6 DEF QNext
<1> QED
  BY <1>1, <1>2, TableInvariant, PTL DEF QSpec, IsPool, Pool!Spec, PoolOf

------------------------------------------------------------------------------
(* The transport. *)

Answers == {"answer", "WrongReplyForQuery"}

CallerType ==
    [pc : {"new", "sending", "waiting", "done", "dropped"},
     res : {None, "answer", "eof", "WrongReplyForQuery", "StreamReceiveError", "ConnectionClosed"}]

StatusType ==
    [st : {"ActiveNone", "Active", "Idle", "IdleTimeout", "ReadError", "ReadTimeout", "WriteError"},
     age : Nat]

Query == [id : Nat, req : Req]

Message == [id : Nat, ans : Req, kind : ReplyKinds, ka : Keepalives \cup {None}]

Types ==
    /\ caller \in [Req -> CallerType]
    /\ chan \in Seq(Req)
    /\ run \in {"loop", "closing", "returned"}
    /\ status \in StatusType
    /\ IsTable(queries, Entry)
    /\ reqmsg \in Query \cup {None}
    /\ demux \in Suspension \cup {None}
    /\ replyq \in Seq(Message)
    /\ wire \in Seq(Message)
    /\ oneshot \in [Req \ Multi -> Answers \cup {None}]
    /\ stream \in [Multi -> Seq(Answers \cup {"eof"})]
    /\ server \subseteq Query
    /\ bogus \in Nat

\* demux_reply waits inside the loop, its query's slot is kept free, and the end
\* of the stream is among what it sends just when it does not put the query back.
Waiting(rn, q, d) ==
    d # None =>
        /\ rn = "loop"
        /\ d.id \in Slots(q) \ Occupied(q)
        /\ d.entry.req \in Multi
        /\ \/ d.keep = TRUE /\ d.items \in {<<"answer">>, <<"WrongReplyForQuery">>}
           \/ d.keep = FALSE /\ d.items \in {<<"answer", "eof">>, <<"WrongReplyForQuery", "eof">>, <<"eof">>}

\* The timer runs while the table is not empty, or demux_reply may refill it.
Timed(rn, st, q, d) ==
    rn = "loop" =>
        /\ st \in {"ActiveNone", "Active", "Idle"}
        /\ d # None \/ q.count # 0 => st = "Active"

\* The IDs in use, each with its request.
HeldIn(q) == {<<i, q.vec[i].req>> : i \in Occupied(q)}
HeldBy(q, d) == HeldIn(q) \cup IF d = None THEN {} ELSE {<<d.id, d.entry.req>>}

OneToOne(H) == \A x, y \in H : x[1] = y[1] \/ x[2] = y[2] => x = y

NoRepeat(s) == \A i, j \in 1 .. Len(s) : s[i] = s[j] => i = j

\* Nobody holds the sender of r's channel.
Unheld(ch, H, r) == r \notin InSeq(ch) /\ \A x \in H : x[2] # r

\* The caller of r was told, or will be, that its stream of answers has ended.
Told(cl, st, r) == "eof" \in InSeq(st[r]) \/ cl[r].res = "eof"

\* A request is in one place at a time, and in none before it is sent or after
\* the end of its stream was reported.
Once(cl, ch, H, st) ==
    /\ OneToOne(H)
    /\ NoRepeat(ch)
    /\ \A r \in InSeq(ch) : \A x \in H : x[2] # r
    /\ \A r \in Req : cl[r].pc \in {"new", "sending"} => Unheld(ch, H, r)
    /\ \A r \in Multi : Told(cl, st, r) => Unheld(ch, H, r) /\ cl[r].pc \notin {"new", "sending"}

\* Nothing under way has this ID.
Silent(id, S, rm, P) ==
    /\ \A p \in S : p.id # id
    /\ rm # None => rm.id # id
    /\ \A k \in 1 .. Len(P) : P[k].id # id

\* What is under way between the transport and a server that answers what it was
\* asked: queries S with the server, the message rm being written, answers P.
\* A last answer is the last with its ID.
Talk(H, S, rm, P) ==
    /\ \A p \in S : <<p.id, p.req>> \in H
    /\ rm # None =>
         /\ <<rm.id, rm.req>> \in H
         /\ \A p \in S : p.id # rm.id
         /\ \A k \in 1 .. Len(P) : P[k].id # rm.id
    /\ \A k \in 1 .. Len(P) :
         /\ <<P[k].id, P[k].ans>> \in H
         /\ P[k].kind \in {"more", "last", "rcode"}
         /\ P[k].ans \notin Multi => P[k].kind = "last"
         /\ P[k].kind # "more" =>
              /\ \A p \in S : p.id # P[k].id
              /\ \A j \in (k + 1) .. Len(P) : P[j].id # P[k].id

\* No stream of answers went wrong.
Sound(q, d) ==
    /\ \A i \in Occupied(q) : q.vec[i].req \in Multi => q.vec[i].xfr \in {"init", "mid"}
    /\ d # None =>
         /\ d.entry.xfr \in {"init", "mid"}
         /\ d.items \in {<<"answer">>, <<"answer", "eof">>, <<"eof">>}

Conversation(q, d, S, rm, P) ==
    /\ Talk(HeldBy(q, d), S, rm, P)
    /\ Sound(q, d)
    /\ d # None /\ d.keep = FALSE => Silent(d.id, S, rm, P)

IInv ==
    /\ Types
    /\ Waiting(run, queries, demux)
    /\ Timed(run, status.st, queries, demux)
    /\ Once(caller, chan, HeldBy(queries, demux), stream)
    /\ run = "loop" /\ bogus = 0 =>
         Conversation(queries, demux, server, reqmsg, replyq \o wire)
    /\ AnswersReachTheirCaller
    /\ EofMeansComplete

------------------------------------------------------------------------------
(* Sequences. *)

\* The members of a sequence with one more at its end.
LEMMA InSeqAppend ==
    ASSUME NEW S, NEW s \in Seq(S), NEW e \in S
    PROVE  InSeq(Append(s, e)) = InSeq(s) \cup {e}
<1>1. ASSUME NEW x \in InSeq(Append(s, e)) PROVE x \in InSeq(s) \cup {e}
  <2>1. PICK i \in 1 .. Len(Append(s, e)) : x = Append(s, e)[i]
    BY <1>1 DEF InSeq
  <2> QED BY <2>1, SMT DEF InSeq
<1>2. ASSUME NEW x \in InSeq(s) PROVE x \in InSeq(Append(s, e))
  <2>1. PICK i \in 1 .. Len(s) : x = s[i]
    BY <1>2 DEF InSeq
  <2>2. i \in 1 .. Len(Append(s, e)) /\ Append(s, e)[i] = x
    BY <2>1, SMT
  <2> QED BY <2>2 DEF InSeq
<1>3. e \in InSeq(Append(s, e))
  <2>1. Len(s) + 1 \in 1 .. Len(Append(s, e)) /\ Append(s, e)[Len(s) + 1] = e
    BY SMT
  <2> QED BY <2>1 DEF InSeq
<1> QED BY <1>1, <1>2, <1>3

\* The members of a sequence without its first.
LEMMA InSeqTail ==
    ASSUME NEW S, NEW s \in Seq(S), s # << >>
    PROVE  /\ Head(s) \in InSeq(s)
           /\ Head(s) \in S
           /\ Tail(s) \in Seq(S)
           /\ InSeq(Tail(s)) \subseteq InSeq(s)
<1>1. Head(s) = s[1] /\ 1 \in 1 .. Len(s) /\ s[1] \in S
  BY SMT
<1>2. ASSUME NEW x \in InSeq(Tail(s)) PROVE x \in InSeq(s)
  <2>1. PICK i \in 1 .. Len(Tail(s)) : x = Tail(s)[i]
    BY <1>2 DEF InSeq
  <2>2. i + 1 \in 1 .. Len(s) /\ s[i + 1] = x
    BY <2>1, SMT
  <2> QED BY <2>2 DEF InSeq
<1> QED BY <1>1, <1>2, SMT DEF InSeq

\* A new member at the end repeats none.
LEMMA NoRepeatAppend ==
    ASSUME NEW S, NEW s \in Seq(S), NEW e \in S, NoRepeat(s), e \notin InSeq(s)
    PROVE  NoRepeat(Append(s, e))
<1>1. \A i \in 1 .. Len(s) : s[i] # e
  BY DEF InSeq
<1> QED BY <1>1, SMT DEF NoRepeat

\* The first member of a sequence without repetitions is not in the rest.
LEMMA NoRepeatTail ==
    ASSUME NEW S, NEW s \in Seq(S), s # << >>, NoRepeat(s)
    PROVE  NoRepeat(Tail(s)) /\ Head(s) \notin InSeq(Tail(s))
<1>1. NoRepeat(Tail(s))
  BY SMT DEF NoRepeat
<1>2. ASSUME NEW i \in 1 .. Len(Tail(s)) PROVE Tail(s)[i] # Head(s)
  <2>1. Tail(s)[i] = s[i + 1] /\ i + 1 \in 1 .. Len(s) /\ Head(s) = s[1] /\ 1 \in 1 .. Len(s)
    BY SMT
  <2> QED BY <2>1, SMT DEF NoRepeat
<1> QED BY <1>1, <1>2 DEF InSeq

\* reader() moves a message from the wire to its channel: nothing is reordered.
LEMMA ReadOn ==
    ASSUME NEW S, NEW r \in Seq(S), NEW w \in Seq(S), w # << >>
    PROVE  Append(r, Head(w)) \o Tail(w) = r \o w
<1> DEFINE a == Append(r, Head(w)) \o Tail(w)
           b == r \o w
<1>1. a \in Seq(S) /\ b \in Seq(S) /\ Len(a) = Len(r) + Len(w) /\ Len(b) = Len(r) + Len(w)
  BY SMT
<1>2. ASSUME NEW i \in 1 .. Len(r) + Len(w) PROVE a[i] = b[i]
  BY SMT
<1> HIDE DEF a, b
<1> QED BY <1>1, <1>2, SMT

\* A message the server sends comes after those read and not handled yet.
LEMMA PutLast ==
    ASSUME NEW S, NEW r \in Seq(S), NEW w \in Seq(S), NEW m \in S
    PROVE  r \o Append(w, m) = Append(r \o w, m)
<1> DEFINE a == r \o Append(w, m)
           b == Append(r \o w, m)
<1>1. a \in Seq(S) /\ b \in Seq(S) /\ Len(a) = Len(r) + Len(w) + 1 /\ Len(b) = Len(r) + Len(w) + 1
  BY SMT
<1>2. ASSUME NEW i \in 1 .. Len(r) + Len(w) + 1 PROVE a[i] = b[i]
  BY SMT
<1> HIDE DEF a, b
<1> QED BY <1>1, <1>2, SMT

\* The first message read is the first of all on their way.
LEMMA TakeFirst ==
    ASSUME NEW S, NEW r \in Seq(S), NEW w \in Seq(S), r # << >>
    PROVE  /\ Tail(r) \o w = Tail(r \o w)
           /\ Head(r) = Head(r \o w)
           /\ r \o w # << >>
<1> DEFINE a == Tail(r) \o w
           b == Tail(r \o w)
<1>1. a \in Seq(S) /\ b \in Seq(S) /\ Len(a) = Len(r) + Len(w) - 1 /\ Len(b) = Len(r) + Len(w) - 1
  BY SMT
<1>2. ASSUME NEW i \in 1 .. Len(r) + Len(w) - 1 PROVE a[i] = b[i]
  BY SMT
<1>3. Head(r) = Head(r \o w) /\ r \o w # << >>
  BY SMT
<1> HIDE DEF a, b
<1>4. a = b
  BY <1>1, <1>2, SMT
<1> QED BY <1>3, <1>4 DEF a, b

------------------------------------------------------------------------------
(* The table. *)

\* insert finds a slot that holds no query.
LEMMA SlotIsFree ==
    ASSUME NEW q, IsTable(q, Entry)
    PROVE  /\ InsertIdx(q) \in 0 .. q.len
           /\ InsertIdx(q) \notin Occupied(q)
<1>1. CASE q.len >= 2 * q.count /\ FreeFromCurr(q) # {}
  <2>1. FreeFromCurr(q) \in SUBSET Nat
    BY SMT DEF FreeFromCurr, IsTable
  <2>2. \E i \in FreeFromCurr(q) : \A j \in FreeFromCurr(q) : i <= j
    BY <1>1, <2>1, LeastNat
  <2>3. InsertIdx(q) \in FreeFromCurr(q)
    BY <1>1, <2>2 DEF InsertIdx
  <2> QED BY <2>3, SMT DEF FreeFromCurr, IsTable, Occupied, Slots
<1>2. CASE ~ (q.len >= 2 * q.count /\ FreeFromCurr(q) # {})
  BY <1>2, SMT DEF InsertIdx, IsTable, Occupied, Slots
<1> QED BY <1>1, <1>2

\* Tables with the same queries in the same slots.
SameQueries(q, n) ==
    /\ Occupied(n) = Occupied(q)
    /\ \A i \in Occupied(q) : n.vec[i] = q.vec[i]

\* Queries::insert takes a free slot and leaves the others alone.
LEMMA Inserted ==
    ASSUME NEW q, IsTable(q, Entry), NEW e \in Entry
    PROVE  /\ IsTable(Insert(q, e), Entry)
           /\ Occupied(Insert(q, e)) = Occupied(q) \cup {InsertIdx(q)}
           /\ Insert(q, e).vec[InsertIdx(q)] = e
           /\ \A i \in Occupied(q) : Insert(q, e).vec[i] = q.vec[i]
<1> DEFINE idx == InsertIdx(q)
           n   == Insert(q, e)
<1>1. idx \in 0 .. q.len /\ idx \notin Occupied(q)
  BY SlotIsFree
<1> HIDE DEF idx
<1>2. n = [count |-> q.count + 1,
           curr  |-> StepCurr(q, idx),
           len   |-> IF idx = q.len THEN q.len + 1 ELSE q.len,
           vec   |-> [i \in 0 .. ((IF idx = q.len THEN q.len + 1 ELSE q.len) - 1)
                        |-> IF i = idx THEN e ELSE q.vec[i]]]
  BY DEF Insert, idx
<1> HIDE DEF n
<1>3. IsTable(n, Entry)
  BY <1>1, <1>2, SMT DEF IsTable, Slots, StepCurr
<1>4. e # None
  BY NoneAssumption
<1>5. Occupied(n) = Occupied(q) \cup {idx}
  BY <1>1, <1>2, <1>4, SMT DEF IsTable, Slots, Occupied
<1>6. n.vec[idx] = e /\ \A i \in Occupied(q) : n.vec[i] = q.vec[i]
  BY <1>1, <1>2, SMT DEF IsTable, Slots, Occupied
<1> QED BY <1>3, <1>5, <1>6 DEF n, idx

\* Queries::try_remove empties one slot and leaves the others alone.
LEMMA Removed ==
    ASSUME NEW q, IsTable(q, Entry), NEW id \in Occupied(q)
    PROVE  /\ IsTable(TryRemove(q, id), Entry)
           /\ Occupied(TryRemove(q, id)) = Occupied(q) \ {id}
           /\ Slots(TryRemove(q, id)) = Slots(q)
           /\ id \in Slots(q)
           /\ \A i \in Occupied(q) \ {id} : TryRemove(q, id).vec[i] = q.vec[i]
<1> DEFINE n == TryRemove(q, id)
           c == IF q.count = 0 THEN 0 ELSE q.count - 1
<1>1. n = [count |-> c,
           curr  |-> IF id < q.curr THEN id ELSE q.curr,
           len   |-> q.len,
           vec   |-> [q.vec EXCEPT ![id] = None]]
  BY DEF TryRemove
<1>2. c \in Nat /\ id \in Slots(q) /\ q.vec[id] # None
  BY SMT DEF IsTable, Occupied
<1> HIDE DEF n, c
<1>3. IsTable(n, Entry)
  BY <1>1, <1>2, SMT DEF IsTable, Slots
<1>4. Occupied(n) = Occupied(q) \ {id} /\ Slots(n) = Slots(q)
  BY <1>1, <1>2 DEF IsTable, Slots, Occupied
<1>5. \A i \in Occupied(q) \ {id} : n.vec[i] = q.vec[i]
  BY <1>1, <1>2 DEF IsTable, Slots, Occupied
<1> QED BY <1>2, <1>3, <1>4, <1>5 DEF n

\* Queries::insert_at fills the slot it is told.
LEMMA PutBack ==
    ASSUME NEW q, IsTable(q, Entry), NEW id \in Slots(q) \ Occupied(q), NEW e \in Entry
    PROVE  /\ IsTable(InsertAt(q, id, e), Entry)
           /\ Occupied(InsertAt(q, id, e)) = Occupied(q) \cup {id}
           /\ InsertAt(q, id, e).vec[id] = e
           /\ \A i \in Occupied(q) : InsertAt(q, id, e).vec[i] = q.vec[i]
<1> DEFINE n == InsertAt(q, id, e)
<1>1. n = [count |-> q.count + 1,
           curr  |-> StepCurr(q, id),
           len   |-> q.len,
           vec   |-> [q.vec EXCEPT ![id] = e]]
  BY DEF InsertAt
<1> HIDE DEF n
<1>2. IsTable(n, Entry)
  BY <1>1, SMT DEF IsTable, Slots, StepCurr
<1>3. e # None
  BY NoneAssumption
<1>4. Occupied(n) = Occupied(q) \cup {id}
  BY <1>1, <1>3 DEF IsTable, Slots, Occupied
<1>5. n.vec[id] = e /\ \A i \in Occupied(q) : n.vec[i] = q.vec[i]
  BY <1>1 DEF IsTable, Slots, Occupied
<1> QED BY <1>2, <1>4, <1>5 DEF n

\* A request that cannot be sent leaves the queries as they were.
LEMMA Unsendable ==
    ASSUME NEW q, IsTable(q, Entry), NEW e \in Entry
    PROVE  /\ IsTable(TryRemove(Insert(q, e), InsertIdx(q)), Entry)
           /\ SameQueries(q, TryRemove(Insert(q, e), InsertIdx(q)))
<1>1. InsertIdx(q) \notin Occupied(q)
  BY SlotIsFree
<1>2. /\ IsTable(Insert(q, e), Entry)
      /\ Occupied(Insert(q, e)) = Occupied(q) \cup {InsertIdx(q)}
      /\ \A i \in Occupied(q) : Insert(q, e).vec[i] = q.vec[i]
  BY Inserted
<1> DEFINE n == Insert(q, e)
           idx == InsertIdx(q)
<1>3. idx \in Occupied(n)
  BY <1>2
<1> HIDE DEF n, idx
<1>4. /\ IsTable(TryRemove(n, idx), Entry)
      /\ Occupied(TryRemove(n, idx)) = Occupied(n) \ {idx}
      /\ \A i \in Occupied(n) \ {idx} : TryRemove(n, idx).vec[i] = n.vec[i]
  BY <1>2, <1>3, Removed DEF n
<1> QED BY <1>1, <1>2, <1>4 DEF n, idx, SameQueries

\* A new table has no queries.
LEMMA EmptyTable == IsTable(Empty, Entry) /\ Occupied(Empty) = {}
BY SMT DEF IsTable, Empty, Slots, Occupied

(* IDs in use. *)

\* insert adds a pair of ID and request, with an ID that nobody holds.
LEMMA HeldInserted ==
    ASSUME NEW q, IsTable(q, Entry), NEW e \in Entry
    PROVE  /\ HeldIn(Insert(q, e)) = HeldIn(q) \cup {<<InsertIdx(q), e.req>>}
           /\ \A x \in HeldIn(q) : x[1] # InsertIdx(q)
<1>1. InsertIdx(q) \notin Occupied(q)
  BY SlotIsFree
<1>2. /\ Occupied(Insert(q, e)) = Occupied(q) \cup {InsertIdx(q)}
      /\ Insert(q, e).vec[InsertIdx(q)] = e
      /\ \A i \in Occupied(q) : Insert(q, e).vec[i] = q.vec[i]
  BY Inserted
<1> QED BY <1>1, <1>2, SMT DEF HeldIn

\* try_remove takes away the pair of one ID.
LEMMA HeldRemoved ==
    ASSUME NEW q, IsTable(q, Entry), NEW id \in Occupied(q)
    PROVE  /\ HeldIn(q) = HeldIn(TryRemove(q, id)) \cup {<<id, q.vec[id].req>>}
           /\ HeldIn(TryRemove(q, id)) = {x \in HeldIn(q) : x[1] # id}
<1>1. /\ Occupied(TryRemove(q, id)) = Occupied(q) \ {id}
      /\ \A i \in Occupied(q) \ {id} : TryRemove(q, id).vec[i] = q.vec[i]
  BY Removed
<1> QED BY <1>1, SMT DEF HeldIn

\* insert_at adds the pair it is told.
LEMMA HeldPutBack ==
    ASSUME NEW q, IsTable(q, Entry), NEW id \in Slots(q) \ Occupied(q), NEW e \in Entry
    PROVE  HeldIn(InsertAt(q, id, e)) = HeldIn(q) \cup {<<id, e.req>>}
<1>1. /\ Occupied(InsertAt(q, id, e)) = Occupied(q) \cup {id}
      /\ InsertAt(q, id, e).vec[id] = e
      /\ \A i \in Occupied(q) : InsertAt(q, id, e).vec[i] = q.vec[i]
  BY PutBack, SMT
<1> QED BY <1>1 DEF HeldIn

\* Tables with the same queries hold the same IDs.
LEMMA HeldSame ==
    ASSUME NEW q, NEW n, SameQueries(q, n)
    PROVE  HeldIn(n) = HeldIn(q)
BY DEF SameQueries, HeldIn

\* IDs are numbers, held by requests.
LEMMA HeldType ==
    ASSUME NEW q, IsTable(q, Entry)
    PROVE  /\ HeldIn(q) \in SUBSET (Nat \X Req)
           /\ \A i \in Occupied(q) : i \in Nat /\ q.vec[i] \in Entry /\ q.vec[i].req \in Req
<1>1. ASSUME NEW i \in Occupied(q) PROVE i \in Nat /\ q.vec[i] \in Entry
  BY SMT DEF IsTable, Occupied, Slots
<1>2. ASSUME NEW i \in Occupied(q) PROVE q.vec[i].req \in Req
  BY <1>1 DEF Entry
<1> QED BY <1>1, <1>2, SMT DEF HeldIn

------------------------------------------------------------------------------
(* Requests are in one place. *)

\* Requests leave the table, nothing else changes.
LEMMA OnceFewer ==
    ASSUME NEW cl, NEW ch, NEW H, NEW st, Once(cl, ch, H, st), NEW G \in SUBSET H
    PROVE  Once(cl, ch, G, st)
BY DEF Once, OneToOne, Unheld

\* The request at the head of the channel leaves it.
LEMMA OnceReceived ==
    ASSUME NEW cl, NEW ch \in Seq(Req), NEW H, NEW st, Once(cl, ch, H, st), ch # << >>
    PROVE  /\ Once(cl, Tail(ch), H, st)
           /\ Head(ch) \in Req
           /\ Unheld(Tail(ch), H, Head(ch))
           /\ cl[Head(ch)].pc \notin {"new", "sending"}
           /\ Head(ch) \in Multi => ~ Told(cl, st, Head(ch))
<1>1. /\ Head(ch) \in InSeq(ch) /\ Head(ch) \in Req
      /\ InSeq(Tail(ch)) \subseteq InSeq(ch)
  BY InSeqTail
<1>2. NoRepeat(Tail(ch)) /\ Head(ch) \notin InSeq(Tail(ch))
  BY NoRepeatTail DEF Once
<1> QED BY <1>1, <1>2 DEF Once, Unheld

\* It goes into the table with an ID nobody has.
LEMMA OnceInserted ==
    ASSUME NEW cl, NEW ch, NEW H \in SUBSET (Nat \X Req), NEW st, Once(cl, ch, H, st),
           NEW r \in Req, NEW id \in Nat, \A x \in H : x[1] # id, Unheld(ch, H, r),
           cl[r].pc \notin {"new", "sending"}, r \in Multi => ~ Told(cl, st, r)
    PROVE  Once(cl, ch, H \cup {<<id, r>>}, st)
<1>1. OneToOne(H \cup {<<id, r>>})
  BY SMT DEF Once, OneToOne, Unheld
<1> QED BY <1>1, SMT DEF Once, Unheld

------------------------------------------------------------------------------
(* What is under way. *)

\* A message is written: the server has the query.
LEMMA TalkWritten ==
    ASSUME NEW H, NEW S, NEW rm, NEW P, Talk(H, S, rm, P), rm # None
    PROVE  Talk(H, S \cup {rm}, None, P)
BY DEF Talk

\* An ID nothing is under way with stays so when a message is written.
LEMMA SilentWritten ==
    ASSUME NEW id, NEW S, NEW rm, NEW P, Silent(id, S, rm, P), rm # None
    PROVE  Silent(id, S \cup {rm}, None, P)
BY DEF Silent

\* A query answered and left with the server, or answered for the last time.
LEMMA TalkAnswered ==
    ASSUME NEW H, OneToOne(H), NEW S \in SUBSET Query, NEW rm, NEW P \in Seq(Message),
           Talk(H, S, rm, P), NEW p \in S, NEW m \in Message,
           m.id = p.id, m.ans = p.req, m.kind \in {"more", "last", "rcode"},
           p.req \notin Multi => m.kind = "last"
    PROVE  Talk(H, IF m.kind = "more" THEN S ELSE S \ {p}, rm, Append(P, m))
<1> DEFINE N == IF m.kind = "more" THEN S ELSE S \ {p}
           Q == Append(P, m)
<1>1. N \subseteq S
  OBVIOUS
<1>2. Q \in Seq(Message) /\ Len(Q) = Len(P) + 1 /\ Q[Len(P) + 1] = m /\ Len(P) \in Nat
  BY SMT
<1>3. \A k \in 1 .. Len(P) : Q[k] = P[k]
  BY SMT
<1>4. m.kind # "more" => \A x \in N : x.id # m.id
  <2>1. ASSUME NEW x \in S, x.id = p.id PROVE x = p
    <3>1. <<x.id, x.req>> \in H /\ <<p.id, p.req>> \in H
      BY DEF Talk
    <3>2. x.req = p.req
      BY <3>1, <2>1 DEF OneToOne
    <3> QED BY <2>1, <3>2, SMT DEF Query
  <2> QED BY <2>1
<1>5. \A k \in 1 .. Len(P) : P[k].kind # "more" => P[k].id # m.id
  BY DEF Talk
<1>6. rm # None => rm.id # m.id
  BY DEF Talk
<1> HIDE DEF N, Q
<1>7. \A x \in N : <<x.id, x.req>> \in H
  BY <1>1 DEF Talk
<1>8. ASSUME rm # None
      PROVE  /\ <<rm.id, rm.req>> \in H
             /\ \A x \in N : x.id # rm.id
             /\ \A k \in 1 .. Len(Q) : Q[k].id # rm.id
  <2>1. /\ <<rm.id, rm.req>> \in H /\ \A x \in S : x.id # rm.id
        /\ \A k \in 1 .. Len(P) : P[k].id # rm.id
    BY <1>8 DEF Talk
  <2>2. ASSUME NEW k \in 1 .. Len(Q) PROVE Q[k].id # rm.id
    <3>1. CASE k = Len(P) + 1
      BY <3>1, <1>2, <1>6, <1>8
    <3>2. CASE k \in 1 .. Len(P)
      BY <3>2, <2>1, <1>3
    <3> QED BY <3>1, <3>2, <1>2, SMT
  <2> QED BY <2>1, <2>2, <1>1
<1>9. ASSUME NEW k \in 1 .. Len(Q)
      PROVE  /\ <<Q[k].id, Q[k].ans>> \in H
             /\ Q[k].kind \in {"more", "last", "rcode"}
             /\ Q[k].ans \notin Multi => Q[k].kind = "last"
             /\ Q[k].kind # "more" =>
                  /\ \A x \in N : x.id # Q[k].id
                  /\ \A j \in (k + 1) .. Len(Q) : Q[j].id # Q[k].id
  <2>1. CASE k = Len(P) + 1
    BY <2>1, <1>2, <1>4, SMT DEF Talk
  <2>2. CASE k \in 1 .. Len(P)
    <3>1. /\ Q[k] = P[k]
          /\ <<P[k].id, P[k].ans>> \in H
          /\ P[k].kind \in {"more", "last", "rcode"}
          /\ P[k].ans \notin Multi => P[k].kind = "last"
          /\ P[k].kind # "more" => \A x \in N : x.id # P[k].id
      BY <2>2, <1>1, <1>3 DEF Talk
    <3>2. ASSUME P[k].kind # "more", NEW j \in (k + 1) .. Len(Q) PROVE Q[j].id # P[k].id
      <4>1. CASE j = Len(P) + 1
        BY <4>1, <3>2, <2>2, <1>2, <1>5
      <4>2. CASE j \in (k + 1) .. Len(P)
        <5>1. \A l \in (k + 1) .. Len(P) : P[l].id # P[k].id
          BY <3>2, <2>2 DEF Talk
        <5>2. j \in 1 .. Len(P)
          BY <4>2, <2>2, <1>2, SMT
        <5> QED BY <4>2, <5>1, <5>2, <1>3
      <4> QED BY <4>1, <4>2, <1>2, SMT
    <3> QED BY <3>1, <3>2
  <2> QED BY <2>1, <2>2, <1>2, SMT
<1> QED BY <1>7, <1>8, <1>9 DEF Talk, N, Q

\* An ID nothing is under way with stays so when the server answers another.
LEMMA SilentAnswered ==
    ASSUME NEW id, NEW S, NEW rm, NEW P \in Seq(Message), Silent(id, S, rm, P),
           NEW p \in S, NEW N \in SUBSET S, NEW m \in Message, m.id = p.id
    PROVE  Silent(id, N, rm, Append(P, m))
<1>1. /\ Len(Append(P, m)) = Len(P) + 1 /\ Append(P, m)[Len(P) + 1] = m
      /\ \A k \in 1 .. Len(P) : Append(P, m)[k] = P[k]
  BY SMT
<1>2. ASSUME NEW k \in 1 .. Len(Append(P, m)) PROVE Append(P, m)[k].id # id
  <2>1. CASE k = Len(P) + 1
    BY <2>1, <1>1 DEF Silent
  <2>2. CASE k \in 1 .. Len(P)
    BY <2>2, <1>1 DEF Silent
  <2> QED BY <2>1, <2>2, <1>1, SMT
<1> QED BY <1>2 DEF Silent

\* An answer is taken.  After the last one nothing with its ID is under way.
LEMMA TalkTaken ==
    ASSUME NEW H, NEW S, NEW rm, NEW P \in Seq(Message), P # << >>, Talk(H, S, rm, P)
    PROVE  /\ Talk(H, S, rm, Tail(P))
           /\ <<Head(P).id, Head(P).ans>> \in H
           /\ Head(P).kind \in {"more", "last", "rcode"}
           /\ Head(P).ans \notin Multi => Head(P).kind = "last"
           /\ Head(P).kind # "more" => Silent(Head(P).id, S, rm, Tail(P))
<1> DEFINE Q == Tail(P)
<1>1. /\ Q \in Seq(Message) /\ Len(Q) = Len(P) - 1 /\ Len(P) \in Nat \ {0}
      /\ \A k \in 1 .. Len(Q) : Q[k] = P[k + 1] /\ k + 1 \in 1 .. Len(P)
      /\ Head(P) = P[1] /\ 1 \in 1 .. Len(P)
  BY SMT
<1> HIDE DEF Q
<1>2. ASSUME NEW k \in 1 .. Len(Q)
      PROVE  /\ <<Q[k].id, Q[k].ans>> \in H
             /\ Q[k].kind \in {"more", "last", "rcode"}
             /\ Q[k].ans \notin Multi => Q[k].kind = "last"
             /\ Q[k].kind # "more" =>
                  /\ \A p \in S : p.id # Q[k].id
                  /\ \A j \in (k + 1) .. Len(Q) : Q[j].id # Q[k].id
  <2>1. Q[k] = P[k + 1] /\ k + 1 \in 1 .. Len(P)
    BY <1>1
  <2>2. ASSUME Q[k].kind # "more", NEW j \in (k + 1) .. Len(Q) PROVE Q[j].id # Q[k].id
    <3>1. Q[j] = P[j + 1] /\ j + 1 \in (k + 2) .. Len(P)
      BY <1>1, <2>2, SMT
    <3>2. \A l \in (k + 1 + 1) .. Len(P) : P[l].id # P[k + 1].id
      BY <2>1, <2>2 DEF Talk
    <3> QED BY <2>1, <3>1, <3>2, SMT
  <2>3. /\ <<P[k + 1].id, P[k + 1].ans>> \in H
        /\ P[k + 1].kind \in {"more", "last", "rcode"}
        /\ P[k + 1].ans \notin Multi => P[k + 1].kind = "last"
        /\ P[k + 1].kind # "more" => \A p \in S : p.id # P[k + 1].id
    BY <2>1 DEF Talk
  <2> QED BY <2>1, <2>2, <2>3
<1>3. rm # None => \A k \in 1 .. Len(Q) : Q[k].id # rm.id
  BY <1>1 DEF Talk
<1>4. Talk(H, S, rm, Q)
  BY <1>2, <1>3 DEF Talk
<1>5. ASSUME P[1].kind # "more" PROVE Silent(P[1].id, S, rm, Q)
  <2>1. \A j \in (1 + 1) .. Len(P) : P[j].id # P[1].id
    BY <1>1, <1>5 DEF Talk
  <2>2. \A k \in 1 .. Len(Q) : Q[k].id # P[1].id
    BY <1>1, <2>1, SMT
  <2>3. rm # None => rm.id # P[1].id
    BY <1>1 DEF Talk
  <2> QED BY <1>1, <1>5, <2>2, <2>3 DEF Talk, Silent
<1> QED BY <1>1, <1>4, <1>5 DEF Talk, Q

\* An ID that is silent is given up.
LEMMA TalkReleased ==
    ASSUME NEW H, NEW S, NEW rm, NEW P, Talk(H, S, rm, P), NEW id, Silent(id, S, rm, P),
           NEW G, \A x \in H : x[1] # id => x \in G
    PROVE  Talk(G, S, rm, P)
BY DEF Talk, Silent

\* A request is sent with an ID nobody has.
LEMMA TalkAsked ==
    ASSUME NEW H, NEW S, NEW P, Talk(H, S, None, P), NEW id, NEW r, \A x \in H : x[1] # id
    PROVE  Talk(H \cup {<<id, r>>}, S, [id |-> id, req |-> r], P)
BY DEF Talk

------------------------------------------------------------------------------
(* Callers. *)

\* The invariant holds at first.
LEMMA InitOK == Init => IInv
<1> SUFFICES ASSUME Init PROVE IInv
  OBVIOUS
<1>1. Types
  BY EmptyTable, MaxIdAssumption, SMT DEF Init, Types, CallerType, StatusType, ActiveNone
<1>2. HeldBy(queries, demux) = {}
  BY EmptyTable DEF Init, HeldBy, HeldIn
<1>3. Once(caller, chan, HeldBy(queries, demux), stream)
  <2>1. InSeq(<< >>) = {}
    BY SMT DEF InSeq
  <2>2. \A r \in Multi : ~ Told(caller, stream, r)
    <3>1. "eof" # None
      BY NoneAssumption
    <3> QED BY <2>1, <3>1, ReqAssumption DEF Init, Told
  <2> QED BY <1>2, <2>1, <2>2, SMT DEF Init, Once, OneToOne, NoRepeat, Unheld
<1>4. Waiting(run, queries, demux) /\ Timed(run, status.st, queries, demux)
  BY DEF Init, Waiting, Timed, ActiveNone, Empty
<1>5. Conversation(queries, demux, server, reqmsg, replyq \o wire)
  <2>1. server = {} /\ reqmsg = None /\ demux = None /\ replyq \o wire = << >> /\ Occupied(queries) = {}
    BY EmptyTable, SMT DEF Init
  <2>2. Len(<< >>) = 0
    OBVIOUS
  <2> QED BY <2>1, <2>2, SMT DEF Conversation, Talk, Sound
<1>6. AnswersReachTheirCaller /\ EofMeansComplete
  <2>1. InSeq(<< >>) = {}
    BY SMT DEF InSeq
  <2>2. \A r \in Req \ Multi : oneshot[r] = None
    BY DEF Init
  <2>3. \A r \in Multi : stream[r] = << >>
    BY DEF Init
  <2>4. server = {}
    BY DEF Init
  <2> QED BY <2>1, <2>2, <2>3, <2>4, NoneAssumption DEF AnswersReachTheirCaller, EofMeansComplete
<1> QED BY <1>1, <1>3, <1>4, <1>5, <1>6 DEF IInv

\* The caller of r moves on to c, and takes items from its channel.
LEMMA CallerMoves ==
    ASSUME IInv, NEW r \in Req, NEW c \in CallerType,
           caller' = [caller EXCEPT ![r] = c],
           c.pc \in {"new", "sending"} => caller[r].pc \in {"new", "sending"},
           r \in Multi /\ c.res = "eof" => Told(caller, stream, r),
           stream' \in [Multi -> Seq(Answers \cup {"eof"})],
           \A s \in Multi : InSeq(stream'[s]) \subseteq InSeq(stream[s]),
           UNCHANGED <<chan, run, status, queries, reqmsg, demux, replyq, oneshot, wire, server, bogus>>
    PROVE  IInv'
<1>1. Types'
  BY DEF IInv, Types
<1>2. caller \in [Req -> CallerType]
  BY DEF IInv, Types
<1>3. \A s \in Req : s # r => caller'[s] = caller[s]
  BY <1>2
<1>4. caller'[r] = c
  BY <1>2
<1>5. \A s \in Multi : Told(caller', stream', s) => Told(caller, stream, s)
  BY <1>3, <1>4, ReqAssumption DEF Told
<1>6. \A s \in Req : caller'[s].pc \in {"new", "sending"} => caller[s].pc \in {"new", "sending"}
  BY <1>3, <1>4
<1>7. Once(caller', chan', HeldBy(queries', demux'), stream')
  <2>1. Once(caller, chan, HeldBy(queries, demux), stream)
    BY DEF IInv
  <2>2. HeldBy(queries', demux') = HeldBy(queries, demux) /\ chan' = chan
    OBVIOUS
  <2> QED BY <2>1, <2>2, <1>5, <1>6, ReqAssumption DEF Once
<1>8. AnswersReachTheirCaller'
  BY DEF IInv, AnswersReachTheirCaller
<1>9. EofMeansComplete'
  BY <1>5 DEF IInv, EofMeansComplete, Told
<1> QED BY <1>1, <1>7, <1>8, <1>9 DEF IInv

\* A caller makes a request.
LEMMA StartOK == ASSUME IInv, NEW r \in Req, Start(r) PROVE IInv'
<1> DEFINE c == [caller[r] EXCEPT !.pc = "sending"]
<1>1. caller[r] \in CallerType
  BY DEF IInv, Types
<1>2. c \in CallerType /\ c.pc = "sending" /\ c.res = caller[r].res
  BY <1>1 DEF CallerType
<1>3. caller' = [caller EXCEPT ![r] = c]
  BY DEF Start
<1>4. caller[r].pc = "new" /\ UNCHANGED <<chan, run, status, queries, reqmsg, demux, replyq, oneshot, stream, wire, server, bogus>>
  BY DEF Start
<1>5. stream' \in [Multi -> Seq(Answers \cup {"eof"})]
  BY <1>4 DEF IInv, Types
<1> HIDE DEF c
<1> QED BY <1>2, <1>3, <1>4, <1>5, CallerMoves DEF Told

\* A caller goes away.
LEMMA CancelOK == ASSUME IInv, NEW r \in Req, Cancel(r) PROVE IInv'
<1> DEFINE c == [caller[r] EXCEPT !.pc = "dropped"]
<1>1. caller[r] \in CallerType
  BY DEF IInv, Types
<1>2. c \in CallerType /\ c.pc = "dropped" /\ c.res = caller[r].res
  BY <1>1 DEF CallerType
<1>3. caller' = [caller EXCEPT ![r] = c]
  BY DEF Cancel
<1>4. UNCHANGED <<chan, run, status, queries, reqmsg, demux, replyq, oneshot, stream, wire, server, bogus>>
  BY DEF Cancel
<1>5. stream' \in [Multi -> Seq(Answers \cup {"eof"})]
  BY <1>4 DEF IInv, Types
<1> HIDE DEF c
<1> QED BY <1>2, <1>3, <1>4, <1>5, CallerMoves DEF Told

\* A caller is done, with a result that is not the end of a stream.
LEMMA FinishOK ==
    ASSUME IInv, NEW r \in Req, NEW res, Finish(r, res),
           [pc |-> "done", res |-> res] \in CallerType, r \in Multi => res # "eof",
           UNCHANGED <<chan, run, status, queries, reqmsg, demux, replyq, oneshot, stream, wire, server, bogus>>
    PROVE  IInv'
<1> DEFINE c == [pc |-> "done", res |-> res]
<1>1. c \in CallerType /\ c.pc = "done" /\ c.res = res
  OBVIOUS
<1>2. caller' = [caller EXCEPT ![r] = c]
  BY DEF Finish
<1>3. stream' \in [Multi -> Seq(Answers \cup {"eof"})]
  BY DEF IInv, Types
<1> HIDE DEF c
<1> QED BY <1>1, <1>2, <1>3, CallerMoves

\* A caller's request is put in the channel.
LEMMA EnqueueOK == ASSUME IInv, NEW r \in Req, Enqueue(r) PROVE IInv'
<1>1. CASE run = "returned"
  <2>1. Finish(r, "ConnectionClosed")
    BY <1>1 DEF Enqueue
  <2>2. [pc |-> "done", res |-> "ConnectionClosed"] \in CallerType
    BY DEF CallerType
  <2>3. UNCHANGED <<chan, run, status, queries, reqmsg, demux, replyq, oneshot, stream, wire, server, bogus>>
    BY <1>1 DEF Enqueue
  <2> QED BY <2>1, <2>2, <2>3, FinishOK
<1>2. CASE run # "returned"
  <2> DEFINE c == [caller[r] EXCEPT !.pc = "waiting"]
  <2>1. caller[r] \in CallerType /\ chan \in Seq(Req) /\ caller \in [Req -> CallerType]
    BY DEF IInv, Types
  <2>2. c \in CallerType /\ c.pc = "waiting" /\ c.res = caller[r].res
    BY <2>1 DEF CallerType
  <2>3. /\ caller' = [caller EXCEPT ![r] = c]
        /\ chan' = Append(chan, r)
        /\ caller[r].pc = "sending"
        /\ UNCHANGED <<run, status, queries, reqmsg, demux, replyq, oneshot, stream, wire, server, bogus>>
    BY <1>2 DEF Enqueue
  <2> HIDE DEF c
  <2>4. caller'[r] = c /\ \A s \in Req : s # r => caller'[s] = caller[s]
    BY <2>1, <2>3
  <2>5. Types'
    BY <2>1, <2>2, <2>3, SMT DEF IInv, Types
  <2>6. \A s \in Multi : Told(caller', stream', s) <=> Told(caller, stream, s)
    BY <2>2, <2>3, <2>4, ReqAssumption DEF Told
  <2> DEFINE H == HeldBy(queries, demux)
  <2>7. Once(caller, chan, H, stream)
    BY DEF IInv
  <2> HIDE DEF H
  <2>8. Unheld(chan, H, r)
    BY <2>3, <2>7 DEF Once
  <2>9. InSeq(chan') = InSeq(chan) \cup {r}
    BY <2>1, <2>3, InSeqAppend, SMT
  <2>10. NoRepeat(chan')
    BY <2>1, <2>3, <2>7, <2>8, NoRepeatAppend DEF Once, Unheld
  <2>11. \A s \in Multi : Told(caller, stream, s) => s # r
    BY <2>3, <2>7 DEF Once
  <2>12. Once(caller', chan', H, stream')
    <3>1. OneToOne(H) /\ \A s \in InSeq(chan') : \A x \in H : x[2] # s
      BY <2>7, <2>8, <2>9 DEF Once, Unheld
    <3>2. ASSUME NEW s \in Req, caller'[s].pc \in {"new", "sending"} PROVE Unheld(chan', H, s)
      BY <3>2, <2>2, <2>4, <2>7, <2>9 DEF Once, Unheld
    <3>3. ASSUME NEW s \in Multi, Told(caller', stream', s)
          PROVE  Unheld(chan', H, s) /\ caller'[s].pc \notin {"new", "sending"}
      BY <3>3, <2>4, <2>6, <2>7, <2>9, <2>11, ReqAssumption DEF Once, Unheld
    <3> QED BY <3>1, <3>2, <3>3, <2>10 DEF Once
  <2>13. HeldBy(queries', demux') = H
    BY <2>3 DEF H
  <2>14. AnswersReachTheirCaller'
    BY <2>3 DEF IInv, AnswersReachTheirCaller
  <2>15. EofMeansComplete'
    BY <2>3, <2>6 DEF IInv, EofMeansComplete, Told
  <2> QED BY <2>3, <2>5, <2>12, <2>13, <2>14, <2>15 DEF IInv
<1> QED BY <1>1, <1>2

\* A caller of a single request reads its answer.
LEMMA GetResponseOK == ASSUME IInv, NEW r \in Req, GetResponse(r) PROVE IInv'
<1>1. r \notin Multi /\ UNCHANGED <<chan, run, status, queries, reqmsg, demux, replyq, oneshot, stream, wire, server, bogus>>
  BY DEF GetResponse
<1>2. PICK res \in Answers \cup {None, "StreamReceiveError"} : Finish(r, res)
  <2>1. oneshot[r] \in Answers \cup {None}
    BY <1>1 DEF IInv, Types
  <2> QED BY <2>1 DEF GetResponse
<1>3. [pc |-> "done", res |-> res] \in CallerType
  BY <1>2 DEF CallerType, Answers
<1> QED BY <1>1, <1>2, <1>3, FinishOK

\* A caller of a zone transfer reads an answer.
LEMMA GetResponseMultiOK == ASSUME IInv, NEW r \in Req, GetResponseMulti(r) PROVE IInv'
<1>1. r \in Multi /\ UNCHANGED <<chan, run, status, queries, reqmsg, demux, replyq, oneshot, wire, server, bogus>>
  BY DEF GetResponseMulti
<1>2. stream \in [Multi -> Seq(Answers \cup {"eof"})] /\ caller \in [Req -> CallerType]
  BY DEF IInv, Types
<1>3. CASE stream[r] = << >>
  <2>1. Finish(r, "ConnectionClosed") /\ stream' = stream
    BY <1>3 DEF GetResponseMulti
  <2>2. [pc |-> "done", res |-> "ConnectionClosed"] \in CallerType
    BY DEF CallerType
  <2> QED BY <1>1, <2>1, <2>2, FinishOK
<1>4. CASE stream[r] # << >>
  <2>1. stream' = [stream EXCEPT ![r] = Tail(stream[r])]
    BY <1>4 DEF GetResponseMulti
  <2>2. /\ stream[r] \in Seq(Answers \cup {"eof"})
        /\ Head(stream[r]) \in InSeq(stream[r])
        /\ Head(stream[r]) \in Answers \cup {"eof"}
        /\ Tail(stream[r]) \in Seq(Answers \cup {"eof"})
        /\ InSeq(Tail(stream[r])) \subseteq InSeq(stream[r])
    BY <1>1, <1>2, <1>4, InSeqTail
  <2>3. stream' \in [Multi -> Seq(Answers \cup {"eof"})]
    BY <1>2, <2>1, <2>2
  <2>4. \A s \in Multi : InSeq(stream'[s]) \subseteq InSeq(stream[s])
    BY <1>2, <2>1, <2>2
  <2>5. CASE Finish(r, Head(stream[r]))
    <3> DEFINE c == [pc |-> "done", res |-> Head(stream[r])]
    <3>1. c \in CallerType /\ c.pc = "done" /\ (c.res = "eof" => "eof" \in InSeq(stream[r]))
      BY <2>2 DEF CallerType, Answers
    <3>2. caller' = [caller EXCEPT ![r] = c]
      BY <2>5 DEF Finish
    <3> HIDE DEF c
    <3> QED BY <1>1, <2>3, <2>4, <3>1, <3>2, CallerMoves DEF Told
  <2>6. CASE UNCHANGED caller
    <3>1. caller[r] \in CallerType /\ caller' = [caller EXCEPT ![r] = caller[r]]
      BY <1>2, <2>6
    <3> QED BY <1>1, <2>3, <2>4, <3>1, CallerMoves DEF Told
  <2> QED BY <1>4, <2>5, <2>6 DEF GetResponseMulti
<1> QED BY <1>3, <1>4

------------------------------------------------------------------------------
(* The server, and the end of the connection. *)

\* What a step that leaves callers and channels back to them alone has to keep.
LEMMA FactsKept ==
    ASSUME IInv, UNCHANGED <<caller, oneshot, stream>>, bogus' \in {bogus, bogus + 1},
           bogus = 0 => \A p \in server' \ server : \A r \in Multi : p.req = r => ~ Told(caller, stream, r)
    PROVE  AnswersReachTheirCaller' /\ EofMeansComplete'
<1>1. bogus' = 0 => bogus = 0
  BY SMT DEF IInv, Types
<1>2. AnswersReachTheirCaller'
  BY <1>1 DEF IInv, AnswersReachTheirCaller
<1>3. EofMeansComplete'
  BY <1>1 DEF IInv, EofMeansComplete, Told
<1> QED BY <1>2, <1>3

\* The server answers a query, for the last time or not.
LEMMA ServerAnswersOK == ASSUME IInv, NEW p \in server, ServerAnswers(p) PROVE IInv'
<1>1. UNCHANGED <<caller, handle, chan, run, status, idleTimeout, respTimeout, queries,
                  reqmsg, demux, replyq, oneshot, stream, bogus, closed>>
  BY DEF ServerAnswers
<1>2. PICK kind \in {"more", "last", "rcode"}, ka \in Keepalives \cup {None} :
        /\ wire' = Append(wire, [id |-> p.id, ans |-> p.req, kind |-> kind, ka |-> ka])
        /\ server' = IF kind = "more" THEN server ELSE server \ {p}
        /\ p.req \notin Multi => kind = "last"
  BY DEF ServerAnswers, Put
<1> DEFINE m == [id |-> p.id, ans |-> p.req, kind |-> kind, ka |-> ka]
<1>3. p \in Query /\ server \in SUBSET Query /\ wire \in Seq(Message) /\ replyq \in Seq(Message)
  BY DEF IInv, Types
<1>4. m \in Message /\ m.id = p.id /\ m.ans = p.req /\ m.kind = kind
  BY <1>3 DEF Query, Message, ReplyKinds
<1>5. wire' = Append(wire, m) /\ server' = IF m.kind = "more" THEN server ELSE server \ {p}
  BY <1>2
<1> HIDE DEF m
<1>6. wire' \in Seq(Message) /\ server' \in SUBSET server
  BY <1>3, <1>4, <1>5, SMT
<1>7. Types'
  BY <1>1, <1>3, <1>6 DEF IInv, Types
<1> DEFINE P == replyq \o wire
<1>8. P \in Seq(Message) /\ replyq' \o wire' = Append(P, m)
  BY <1>1, <1>3, <1>4, <1>5, PutLast, SMT
<1> HIDE DEF P
<1>9. ASSUME run = "loop", bogus = 0
      PROVE  Conversation(queries, demux, server', reqmsg, Append(P, m))
  <2>1. Conversation(queries, demux, server, reqmsg, P)
    BY <1>9 DEF IInv, P
  <2>2. OneToOne(HeldBy(queries, demux))
    BY DEF IInv, Once
  <2> DEFINE H == HeldBy(queries, demux)
  <2>3. Talk(H, server, reqmsg, P) /\ OneToOne(H)
    BY <2>1, <2>2 DEF Conversation
  <2> HIDE DEF H
  <2>4. Talk(H, server', reqmsg, Append(P, m))
    <3>1. m.kind \in {"more", "last", "rcode"} /\ (p.req \notin Multi => m.kind = "last")
      BY <1>2, <1>4
    <3>2. Talk(H, IF m.kind = "more" THEN server ELSE server \ {p}, reqmsg, Append(P, m))
      BY <3>1, <2>3, <1>3, <1>4, <1>8, TalkAnswered
    <3> QED BY <3>2, <1>5
  <2>5. ASSUME demux # None, demux.keep = FALSE
        PROVE  Silent(demux.id, server', reqmsg, Append(P, m))
    <3>1. Silent(demux.id, server, reqmsg, P)
      BY <2>1, <2>5 DEF Conversation
    <3>2. ASSUME NEW N \in SUBSET server PROVE Silent(demux.id, N, reqmsg, Append(P, m))
      BY <3>1, <1>4, <1>8, SilentAnswered
    <3> QED BY <1>6, <3>2
  <2> QED BY <2>1, <2>4, <2>5 DEF Conversation, H
<1>10. AnswersReachTheirCaller' /\ EofMeansComplete'
  BY <1>1, <1>6, FactsKept
<1> QED BY <1>1, <1>7, <1>8, <1>9, <1>10 DEF IInv

\* The server sends what it was not asked for, and is trusted no more.
LEMMA ServerErrsOK == ASSUME IInv, ServerErrs PROVE IInv'
<1>1. UNCHANGED <<caller, handle, chan, run, status, idleTimeout, respTimeout, queries,
                  reqmsg, demux, replyq, oneshot, stream, server, closed>> /\ bogus' = bogus + 1
  BY DEF ServerErrs
<1>2. PICK m \in Reply : wire' = Append(wire, m)
  BY DEF ServerErrs, Put
<1>3. m \in Message
  BY <1>2, MaxIdAssumption, SMT DEF Reply, Message
<1>4. Types'
  BY <1>1, <1>2, <1>3, SMT DEF IInv, Types
<1>5. bogus' # 0
  BY <1>1, SMT DEF IInv, Types
<1>6. AnswersReachTheirCaller' /\ EofMeansComplete'
  BY <1>1, FactsKept
<1> QED BY <1>1, <1>4, <1>5, <1>6 DEF IInv

\* Steps that change neither queries nor messages keep the invariant.
LEMMA QuietOK ==
    ASSUME IInv,
           UNCHANGED <<caller, chan, run, queries, reqmsg, demux, replyq, oneshot,
                       stream, wire, server, bogus>>,
           status' \in StatusType, status'.st = status.st
    PROVE  IInv'
<1>1. Types'
  BY DEF IInv, Types
<1>2. AnswersReachTheirCaller' /\ EofMeansComplete'
  BY FactsKept
<1> QED BY <1>1, <1>2 DEF IInv

\* Time passes.
LEMMA TickOK == ASSUME IInv, Tick PROVE IInv'
<1>1. status \in StatusType
  BY DEF IInv, Types
<1>2. status' = [status EXCEPT !.age = status.age + 1]
  BY DEF Tick
<1>3. status' \in StatusType /\ status'.st = status.st
  BY <1>1, <1>2, SMT DEF StatusType
<1> QED BY <1>3, QuietOK DEF Tick

\* The loop has ended, or ends with this step.
LEMMA ClosedOK ==
    ASSUME IInv, run' \in {"closing", "returned"}, demux = None, demux' = None,
           status' \in StatusType, queries' \in {queries, Empty}, chan' \in {chan, << >>},
           reqmsg' \in {reqmsg, None}, replyq' \in {replyq, << >>},
           UNCHANGED <<caller, oneshot, stream, wire, server, bogus>>
    PROVE  IInv'
<1>1. Types'
  <2>1. IsTable(queries', Entry)
    BY EmptyTable DEF IInv, Types
  <2>2. chan' \in Seq(Req) /\ replyq' \in Seq(Message) /\ reqmsg' \in Query \cup {None}
    <3>1. \A S : << >> \in Seq(S)
      BY SMT
    <3>2. chan \in Seq(Req) /\ replyq \in Seq(Message) /\ reqmsg \in Query \cup {None}
      BY DEF IInv, Types
    <3> QED BY <3>1, <3>2
  <2> QED BY <2>1, <2>2 DEF IInv, Types
<1>2. HeldBy(queries', demux') \subseteq HeldBy(queries, demux)
  <2>1. HeldIn(Empty) = {}
    BY EmptyTable DEF HeldIn
  <2> QED BY <2>1 DEF HeldBy
<1>3. Once(caller, chan, HeldBy(queries', demux'), stream)
  BY <1>2, OnceFewer DEF IInv
<1> DEFINE H == HeldBy(queries', demux')
<1> HIDE DEF H
<1>4. Once(caller', chan', H, stream')
  <2>1. CASE chan' = chan
    BY <2>1, <1>3 DEF H
  <2>2. CASE chan' = << >>
    <3>1. InSeq(chan') = {} /\ NoRepeat(chan')
      BY <2>2, SMT DEF InSeq, NoRepeat
    <3> QED BY <3>1, <1>3 DEF Once, Unheld, H
  <2> QED BY <2>1, <2>2
<1>5. AnswersReachTheirCaller' /\ EofMeansComplete'
  BY FactsKept
<1> QED BY <1>1, <1>4, <1>5 DEF IInv, Waiting, Timed, H

\* The states a connection is put in.
LEMMA Statuses ==
    /\ ActiveNone \in StatusType
    /\ \A a \in Nat : Active(a) \in StatusType /\ Active(a).st = "Active" /\ Idle(a) \in StatusType /\ Idle(a).st = "Idle"
    /\ \A st \in {"IdleTimeout", "ReadError", "ReadTimeout", "WriteError"} :
         Ended(st) \in StatusType /\ Ended(st).st = st
BY DEF ActiveNone, Active, Idle, Ended, StatusType

\* The timer check either goes on with state s and table q or ends the loop.
LEMMA Iterated ==
    ASSUME NEW s \in StatusType, NEW q, IsTable(q, Entry), NEW rt, NEW it, NextIteration(s, q, rt, it)
    PROVE  /\ run' \in {"loop", "closing"}
           /\ status' \in StatusType
           /\ IsTable(queries', Entry)
           /\ HeldIn(queries') \subseteq HeldIn(q)
           /\ run' = "loop" => /\ status' = s /\ queries' = q
                               /\ s.st \in {"ActiveNone", "Active", "Idle"}
<1>1. HeldIn(Empty) = {}
  BY EmptyTable DEF HeldIn
<1>2. CASE s.st = "Active" /\ s.age > rt /\ run' = "closing" /\ status' = Ended("ReadTimeout") /\ queries' = Drain(q)
  BY <1>1, <1>2, Statuses, EmptyTable DEF Drain
<1>3. CASE run' = "closing" /\ status' = Ended("IdleTimeout") /\ queries' = q
  BY <1>3, Statuses
<1>4. CASE s.st \in {"ActiveNone", "Active", "Idle"} /\ run' = "loop" /\ status' = s /\ queries' = q
  BY <1>4
<1> QED BY <1>2, <1>3, <1>4 DEF NextIteration

------------------------------------------------------------------------------
(* The transport. *)

\* The reader hands over a message.
LEMMA ReadMessageOK == ASSUME IInv, ReadMessage PROVE IInv'
<1>1. UNCHANGED <<caller, handle, chan, run, status, idleTimeout, respTimeout,
                  queries, reqmsg, demux, oneshot, stream, server, bogus, closed>>
  BY DEF ReadMessage
<1>2. wire # << >> /\ wire' = Tail(wire) /\ replyq' = Append(replyq, Head(wire))
  BY DEF ReadMessage
<1>3. wire \in Seq(Message) /\ replyq \in Seq(Message)
  BY DEF IInv, Types
<1>4. replyq' \o wire' = replyq \o wire
  BY <1>2, <1>3, ReadOn
<1>5. wire' \in Seq(Message) /\ replyq' \in Seq(Message)
  BY <1>2, <1>3, SMT
<1>6. Types'
  BY <1>1, <1>5 DEF IInv, Types
<1>7. AnswersReachTheirCaller' /\ EofMeansComplete'
  BY <1>1, FactsKept
<1> QED BY <1>1, <1>4, <1>6, <1>7 DEF IInv

\* Transport::error ends the loop with all queries gone.
LEMMA ErrorOK ==
    ASSUME IInv, NEW st \in {"ReadError", "WriteError"}, Error(st), demux = None,
           UNCHANGED <<caller, chan, reqmsg, demux, replyq, oneshot, stream, wire, server, bogus>>
    PROVE  IInv'
<1>1. run' = "closing" /\ status' = Ended(st) /\ queries' = Empty
  BY DEF Error, Drain
<1>2. status' \in StatusType
  BY <1>1, Statuses
<1> QED BY <1>1, <1>2, ClosedOK

\* Reading fails.
LEMMA ReadFailsOK == ASSUME IInv, ReadFails PROVE IInv'
BY ErrorOK DEF ReadFails, InSelect

\* Writing fails.
LEMMA WriteFailsOK == ASSUME IInv, WriteFails PROVE IInv'
BY ErrorOK DEF WriteFails, InSelect

\* No Connection is left.
LEMMA ReceiveNoneOK == ASSUME IInv, ReceiveNone PROVE IInv'
<1>1. status' \in StatusType /\ demux = None
  BY DEF ReceiveNone, InSelect, IInv, Types
<1> QED BY <1>1, ClosedOK DEF ReceiveNone

\* The transport returns.
LEMMA ReturnOK == ASSUME IInv, Return PROVE IInv'
<1>1. status' \in StatusType /\ demux = None
  BY DEF Return, IInv, Types, Waiting
<1> QED BY <1>1, ClosedOK DEF Return, Drain

\* The response timer or the idle timer expires.
LEMMA TimerExpiresOK == ASSUME IInv, TimerExpires PROVE IInv'
<1>1. /\ NextIteration(status, queries, respTimeout, idleTimeout)
      /\ demux = None /\ run = "loop"
      /\ UNCHANGED <<caller, handle, chan, idleTimeout, respTimeout, reqmsg, demux,
                     replyq, oneshot, stream, wire, server, bogus, closed>>
  BY DEF TimerExpires, InSelect
<1>2. status \in StatusType /\ IsTable(queries, Entry)
  BY DEF IInv, Types
<1>3. run' \in {"loop", "closing"} /\ status' \in StatusType
  BY <1>1, <1>2, Iterated
<1>4. CASE run' = "closing"
  <2>1. queries' \in {queries, Empty}
    BY <1>1 DEF NextIteration, Drain
  <2> QED BY <1>1, <1>3, <1>4, <2>1, ClosedOK
<1>5. CASE run' = "loop"
  <2>1. status' = status /\ queries' = queries
    BY <1>1, <1>2, <1>5, Iterated
  <2> QED BY <1>1, <1>2, <1>5, <2>1, QuietOK
<1> QED BY <1>3, <1>4, <1>5

\* A message is written: the server has the query now.
LEMMA WriteMessageOK == ASSUME IInv, WriteMessage PROVE IInv'
<1>1. /\ NextIteration(status, queries, respTimeout, idleTimeout)
      /\ demux = None /\ run = "loop" /\ reqmsg # None
      /\ server' = server \cup {reqmsg} /\ reqmsg' = None
      /\ UNCHANGED <<caller, handle, chan, idleTimeout, respTimeout, demux,
                     replyq, oneshot, stream, wire, bogus, closed>>
  BY DEF WriteMessage, InSelect
<1>2. status \in StatusType /\ IsTable(queries, Entry) /\ reqmsg \in Query /\ server \in SUBSET Query
  BY <1>1 DEF IInv, Types
<1>3. /\ run' \in {"loop", "closing"} /\ status' \in StatusType
      /\ IsTable(queries', Entry) /\ HeldIn(queries') \subseteq HeldIn(queries)
      /\ run' = "loop" => status' = status /\ queries' = queries
  BY <1>1, <1>2, Iterated
<1>4. Types'
  BY <1>1, <1>2, <1>3 DEF IInv, Types
<1>5. HeldBy(queries', demux') \subseteq HeldBy(queries, demux)
  BY <1>1, <1>3 DEF HeldBy
<1>6. Once(caller', chan', HeldBy(queries', demux'), stream')
  BY <1>1, <1>5, OnceFewer DEF IInv
<1>7. Waiting(run', queries', demux') /\ Timed(run', status'.st, queries', demux')
  BY <1>1, <1>3 DEF IInv, Waiting, Timed
<1>8. ASSUME run' = "loop", bogus = 0
      PROVE  Conversation(queries', demux', server', reqmsg', replyq' \o wire')
  <2>1. Conversation(queries, demux, server, reqmsg, replyq \o wire)
    BY <1>1, <1>8 DEF IInv
  <2> DEFINE H == HeldBy(queries, demux)
             P == replyq \o wire
  <2>2. Talk(H, server, reqmsg, P)
    BY <2>1 DEF Conversation
  <2> HIDE DEF H, P
  <2>3. Talk(H, server', reqmsg', P)
    BY <1>1, <2>2, TalkWritten
  <2> QED BY <1>1, <1>3, <1>8, <2>1, <2>3 DEF Conversation, H, P
<1>9. AnswersReachTheirCaller' /\ EofMeansComplete'
  <2>1. ASSUME bogus = 0, NEW r \in Multi, reqmsg.req = r PROVE ~ Told(caller, stream, r)
    <3>1. <<reqmsg.id, reqmsg.req>> \in HeldBy(queries, demux)
      BY <1>1, <2>1 DEF IInv, Conversation, Talk
    <3>2. ~ Unheld(chan, HeldBy(queries, demux), r)
      BY <2>1, <3>1 DEF Unheld
    <3> QED BY <3>2 DEF IInv, Once
  <2> QED BY <1>1, <2>1, FactsKept
<1> QED BY <1>1, <1>4, <1>6, <1>7, <1>8, <1>9 DEF IInv

\* insert_req: nothing happened to the table, or the request is in it with the ID
\* its message carries.
LEMMA InsertReqs ==
    ASSUME IsTable(queries, Entry), NEW r \in Req
    PROVE  \/ /\ InsertReq(r).msg = None
              /\ IsTable(InsertReq(r).q, Entry)
              /\ SameQueries(queries, InsertReq(r).q)
           \/ \E e \in Entry :
                /\ e.req = r /\ (r \in Multi => e.xfr = "init")
                /\ InsertReq(r).msg = [id |-> InsertIdx(queries), req |-> r]
                /\ InsertReq(r).q = Insert(queries, e)
<1> DEFINE e == [req |-> r, xfr |-> IF r \in Multi THEN "init" ELSE "none"]
<1>1. e \in Entry /\ e.req = r /\ (r \in Multi => e.xfr = "init")
  BY DEF Entry, XFRStates
<1>2. CASE r \in BadQtype \/ InsertFails(queries)
  <2>1. InsertReq(r) = [q |-> queries, msg |-> None]
    BY <1>2 DEF InsertReq
  <2> QED BY <2>1, SMT DEF SameQueries
<1>3. CASE r \in TooLong /\ r \notin BadQtype /\ ~ InsertFails(queries)
  <2>1. InsertReq(r) = [q |-> TryRemove(Insert(queries, e), InsertIdx(queries)), msg |-> None]
    BY <1>3 DEF InsertReq
  <2> HIDE DEF e
  <2> QED BY <1>1, <2>1, Unsendable, SMT
<1>4. CASE r \notin BadQtype /\ ~ InsertFails(queries) /\ r \notin TooLong
  <2>1. InsertReq(r) = [q |-> Insert(queries, e), msg |-> [id |-> InsertIdx(queries), req |-> r]]
    BY <1>4 DEF InsertReq
  <2> HIDE DEF e
  <2> QED BY <1>1, <2>1, SMT
<1> QED BY <1>2, <1>3, <1>4

\* insert_req: a request gets an ID that nothing is under way with.
LEMMA ReceiveReqOK == ASSUME IInv, ReceiveReq PROVE IInv'
<1> DEFINE r   == Head(chan)
           q   == InsertReq(r).q
           rt  == IF r \in Multi THEN StreamTimeout ELSE SingleTimeout
<1>1. /\ NextIteration(Activate(status), q, rt, idleTimeout)
      /\ demux = None /\ run = "loop" /\ reqmsg = None /\ chan # << >>
      /\ chan' = Tail(chan) /\ reqmsg' = InsertReq(r).msg
      /\ UNCHANGED <<caller, handle, idleTimeout, demux, replyq, oneshot, stream,
                     wire, server, bogus, closed>>
  BY DEF ReceiveReq, InSelect
<1>2. /\ status \in StatusType /\ IsTable(queries, Entry) /\ chan \in Seq(Req)
      /\ Once(caller, chan, HeldBy(queries, demux), stream)
  BY DEF IInv, Types
<1> DEFINE H == HeldIn(queries)
           G == HeldIn(q)
<1>3. HeldBy(queries, demux) = H /\ H \in SUBSET (Nat \X Req)
  BY <1>1, <1>2, HeldType DEF HeldBy
<1>4. /\ Once(caller, Tail(chan), H, stream)
      /\ r \in Req /\ Unheld(Tail(chan), H, r)
      /\ caller[r].pc \notin {"new", "sending"}
      /\ r \in Multi => ~ Told(caller, stream, r)
      /\ Tail(chan) \in Seq(Req)
  <2> HIDE DEF H
  <2>1. Once(caller, chan, H, stream)
    BY <1>2, <1>3
  <2>2. /\ Once(caller, Tail(chan), H, stream)
        /\ Head(chan) \in Req /\ Unheld(Tail(chan), H, Head(chan))
        /\ caller[Head(chan)].pc \notin {"new", "sending"}
        /\ Head(chan) \in Multi => ~ Told(caller, stream, Head(chan))
    BY <1>1, <1>2, <2>1, OnceReceived
  <2>3. Tail(chan) \in Seq(Req)
    BY <1>1, <1>2, InSeqTail
  <2> QED BY <2>2, <2>3
<1> HIDE DEF H
<1>5. Activate(status) \in StatusType /\ Activate(status).st = "Active"
  BY <1>2, Statuses DEF Activate
<1>6. \/ reqmsg' = None /\ IsTable(q, Entry) /\ SameQueries(queries, q)
      \/ \E e \in Entry :
           /\ e.req = r /\ (r \in Multi => e.xfr = "init")
           /\ reqmsg' = [id |-> InsertIdx(queries), req |-> r]
           /\ q = Insert(queries, e)
  <2>1. PICK m : m = InsertReq(r).msg
    OBVIOUS
  <2>2. reqmsg' = m
    BY <1>1, <2>1
  <2> HIDE DEF r
  <2>3. \/ m = None /\ IsTable(q, Entry) /\ SameQueries(queries, q)
        \/ \E e \in Entry :
             /\ e.req = r /\ (r \in Multi => e.xfr = "init")
             /\ m = [id |-> InsertIdx(queries), req |-> r]
             /\ q = Insert(queries, e)
    BY <1>2, <1>4, <2>1, InsertReqs
  <2> QED BY <2>2, <2>3
<1> HIDE DEF r, q, rt
<1>7. /\ IsTable(q, Entry)
      /\ reqmsg' \in Query \cup {None}
      /\ Once(caller, Tail(chan), G, stream)
      /\ bogus = 0 => Talk(G, server, reqmsg', replyq \o wire) /\ Sound(q, None)
  <2>0. bogus = 0 => Talk(H, server, None, replyq \o wire) /\ Sound(queries, None)
    BY <1>1, <1>3 DEF IInv, Conversation
  <2>1. CASE reqmsg' = None /\ IsTable(q, Entry) /\ SameQueries(queries, q)
    <3>1. G = H
      BY <2>1, HeldSame DEF H
    <3>2. Sound(queries, None) => Sound(q, None)
      BY <2>1 DEF Sound, SameQueries
    <3> HIDE DEF G
    <3> QED BY <2>0, <2>1, <3>1, <3>2, <1>4
  <2>2. ASSUME NEW e \in Entry, e.req = r, r \in Multi => e.xfr = "init",
               reqmsg' = [id |-> InsertIdx(queries), req |-> r], q = Insert(queries, e)
        PROVE  /\ IsTable(q, Entry)
               /\ reqmsg' \in Query \cup {None}
               /\ Once(caller, Tail(chan), G, stream)
               /\ bogus = 0 => Talk(G, server, reqmsg', replyq \o wire) /\ Sound(q, None)
    <3> DEFINE id == InsertIdx(queries)
    <3>1. G = H \cup {<<id, r>>} /\ \A x \in H : x[1] # id
      BY <2>2, <1>2, HeldInserted DEF H
    <3>2. id \in Nat
      BY <1>2, SlotIsFree, SMT DEF IsTable
    <3>3. /\ IsTable(q, Entry) /\ Occupied(q) = Occupied(queries) \cup {id}
          /\ q.vec[id] = e /\ \A i \in Occupied(queries) : q.vec[i] = queries.vec[i]
      BY <2>2, <1>2, Inserted
    <3>4. reqmsg' = [id |-> id, req |-> r]
      BY <2>2
    <3> HIDE DEF id, G
    <3>5. Sound(queries, None) => Sound(q, None)
      BY <2>2, <3>3 DEF Sound
    <3>6. Once(caller, Tail(chan), G, stream)
      BY <3>1, <3>2, <1>3, <1>4, OnceInserted
    <3>7. bogus = 0 => Talk(G, server, reqmsg', replyq \o wire)
      BY <2>0, <3>1, <3>4, TalkAsked
    <3>8. reqmsg' \in Query
      BY <3>2, <3>4, <1>4 DEF Query
    <3> QED BY <2>0, <3>3, <3>5, <3>6, <3>7, <3>8
  <2> QED BY <2>1, <2>2, <1>6
<1>8. /\ run' \in {"loop", "closing"} /\ status' \in StatusType
      /\ IsTable(queries', Entry) /\ HeldIn(queries') \subseteq G
      /\ run' = "loop" => status'.st = "Active" /\ queries' = q
  BY <1>1, <1>5, <1>7, Iterated
<1>9. Types'
  BY <1>1, <1>2, <1>4, <1>7, <1>8 DEF IInv, Types
<1>10. Once(caller', chan', HeldBy(queries', demux'), stream')
  <2>1. HeldBy(queries', demux') = HeldIn(queries')
    BY <1>1 DEF HeldBy
  <2> HIDE DEF G
  <2> QED BY <1>1, <1>7, <1>8, <2>1, OnceFewer
<1>11. Waiting(run', queries', demux') /\ Timed(run', status'.st, queries', demux')
  BY <1>1, <1>8 DEF Waiting, Timed
<1>12. run' = "loop" /\ bogus = 0 =>
         Conversation(queries', demux', server', reqmsg', replyq' \o wire')
  BY <1>1, <1>7, <1>8 DEF Conversation, HeldBy
<1>13. AnswersReachTheirCaller' /\ EofMeansComplete'
  BY <1>1, FactsKept
<1> QED BY <1>1, <1>9, <1>10, <1>11, <1>12, <1>13 DEF IInv

\* check_stream: its result, and what it says of an answer to the request.
LEMMA Checked ==
    ASSUME NEW e \in Entry, NEW m \in Message
    PROVE  /\ CheckStream(e, m) = [eof |-> CheckStream(e, m).eof, xfr |-> CheckStream(e, m).xfr,
                                   ok |-> CheckStream(e, m).ok]
           /\ CheckStream(e, m).eof \in BOOLEAN
           /\ CheckStream(e, m).xfr \in XFRStates
           /\ CheckStream(e, m).ok \in BOOLEAN
           /\ e.xfr \in {"init", "mid"} /\ m.ans = e.req /\ m.kind \in {"more", "last", "rcode"} =>
                /\ CheckStream(e, m).eof = (m.kind # "more")
                /\ CheckStream(e, m).xfr \in {"init", "mid"}
                /\ CheckStream(e, m).ok = TRUE
<1> DEFINE bad == \/ e.xfr = "error"
                  \/ e.xfr = "init" /\ m.ans # e.req
                  \/ m.kind = "rcode" /\ m.ans # e.req
                  \/ m.kind = "bad"
<1>1. CASE bad
  <2>1. CheckStream(e, m) = [eof |-> FALSE, xfr |-> "error", ok |-> FALSE]
    BY <1>1 DEF CheckStream
  <2>2. ~ (e.xfr \in {"init", "mid"} /\ m.ans = e.req /\ m.kind \in {"more", "last", "rcode"})
    BY <1>1
  <2> QED BY <2>1, <2>2, SMT DEF XFRStates
<1>2. CASE ~ bad
  <2> DEFINE x == IF m.kind = "broken" THEN "error" ELSE IF m.kind = "rcode" THEN e.xfr ELSE "mid"
  <2>1. CheckStream(e, m) = [eof |-> m.kind # "more", xfr |-> x, ok |-> m.kind # "broken"]
    BY <1>2 DEF CheckStream
  <2>2. x \in XFRStates /\ (e.xfr \in {"init", "mid"} /\ m.kind \in {"more", "last", "rcode"} => x \in {"init", "mid"})
    BY DEF Entry, XFRStates
  <2> HIDE DEF x, bad
  <2>3. (m.kind # "more") \in BOOLEAN /\ (m.kind # "broken") \in BOOLEAN
    OBVIOUS
  <2>4. CheckStream(e, m).eof = (m.kind # "more") /\ CheckStream(e, m).ok = (m.kind # "broken")
        /\ CheckStream(e, m).xfr = x
    BY <2>1, SMT
  <2>5. m.kind \in {"more", "last", "rcode"} => (m.kind # "broken") = TRUE
    OBVIOUS
  <2> QED BY <2>1, <2>2, <2>3, <2>4, <2>5
<1> QED BY <1>1, <1>2

\* The answer demux_reply takes, and what is under way after it.
LEMMA Taken ==
    ASSUME IInv, DemuxReply
    PROVE  /\ Head(replyq) \in Message
           /\ replyq' \in Seq(Message)
           /\ bogus = 0 =>
                /\ Talk(HeldIn(queries), server, reqmsg, replyq' \o wire)
                /\ <<Head(replyq).id, Head(replyq).ans>> \in HeldIn(queries)
                /\ Head(replyq).kind \in {"more", "last", "rcode"}
                /\ Head(replyq).ans \notin Multi => Head(replyq).kind = "last"
                /\ Head(replyq).kind # "more" =>
                     Silent(Head(replyq).id, server, reqmsg, replyq' \o wire)
                /\ Sound(queries, None)
<1>1. run = "loop" /\ demux = None /\ replyq # << >> /\ replyq' = Tail(replyq)
  BY DEF DemuxReply, InSelect
<1>2. replyq \in Seq(Message) /\ wire \in Seq(Message)
  BY DEF IInv, Types
<1>3. Head(replyq) \in Message /\ replyq' \in Seq(Message)
  BY <1>1, <1>2, SMT
<1> DEFINE P == replyq \o wire
<1>4. P \in Seq(Message) /\ P # << >> /\ Head(replyq) = Head(P) /\ replyq' \o wire = Tail(P)
  BY <1>1, <1>2, TakeFirst, SMT
<1>5. bogus = 0 => Talk(HeldIn(queries), server, reqmsg, P) /\ Sound(queries, None)
  BY <1>1 DEF IInv, Conversation, HeldBy
<1> HIDE DEF P
<1> QED BY <1>3, <1>4, <1>5, TalkTaken

\* The answer is to the request its ID stands for.
LEMMA RightEntry ==
    ASSUME NEW q, NEW id, NEW r, <<id, r>> \in HeldIn(q)
    PROVE  id \in Occupied(q) /\ q.vec[id].req = r
BY DEF HeldIn

\* demux_reply finds no query with the ID.
LEMMA DemuxUnknownOK ==
    ASSUME IInv, DemuxReply, NEW it, DemuxUnknown(Head(replyq), it)
    PROVE  IInv'
<1>1. /\ run = "loop" /\ demux = None
      /\ UNCHANGED <<caller, handle, chan, respTimeout, reqmsg, stream, wire, server, bogus, closed>>
  BY DEF DemuxReply, InSelect
<1>2. NextIteration(Active(0), queries, respTimeout, it) /\ UNCHANGED <<oneshot, demux>>
  BY DEF DemuxUnknown
<1>3. Active(0) \in StatusType /\ Active(0).st = "Active" /\ IsTable(queries, Entry)
  BY Statuses DEF IInv, Types
<1>4. /\ run' \in {"loop", "closing"} /\ status' \in StatusType
      /\ IsTable(queries', Entry) /\ HeldIn(queries') \subseteq HeldIn(queries)
      /\ run' = "loop" => status' = Active(0) /\ queries' = queries
  BY <1>2, <1>3, Iterated
<1>5. Types'
  BY <1>1, <1>2, <1>4, Taken DEF IInv, Types
<1>6. Once(caller', chan', HeldBy(queries', demux'), stream')
  <2>1. HeldBy(queries', demux') \subseteq HeldBy(queries, demux)
    BY <1>1, <1>2, <1>4 DEF HeldBy
  <2> QED BY <1>1, <2>1, OnceFewer DEF IInv
<1>7. Waiting(run', queries', demux') /\ Timed(run', status'.st, queries', demux')
  BY <1>1, <1>2, <1>3, <1>4 DEF Waiting, Timed
<1>8. ASSUME run' = "loop", bogus = 0
      PROVE  Conversation(queries', demux', server', reqmsg', replyq' \o wire')
  BY <1>1, <1>2, <1>4, <1>8, Taken DEF Conversation, HeldBy
<1>9. AnswersReachTheirCaller' /\ EofMeansComplete'
  BY <1>1, <1>2, FactsKept
<1> QED BY <1>1, <1>5, <1>6, <1>7, <1>8, <1>9 DEF IInv

\* demux_reply answers a single request, whose ID becomes free.
LEMMA DemuxSingleOK ==
    ASSUME IInv, DemuxReply, NEW it, Head(replyq).id \in Occupied(queries),
           queries.vec[Head(replyq).id].req \notin Multi, DemuxSingle(Head(replyq), it)
    PROVE  IInv'
<1> DEFINE m == Head(replyq)
           e == queries.vec[m.id]
           q == TryRemove(queries, m.id)
           s == Settle(Active(0), q, it)
<1>1. /\ run = "loop" /\ demux = None
      /\ UNCHANGED <<caller, handle, chan, respTimeout, reqmsg, stream, wire, server, bogus, closed>>
  BY DEF DemuxReply, InSelect
<1>2. /\ oneshot' = [oneshot EXCEPT ![e.req] = Verdict(m.ans = e.req)]
      /\ NextIteration(s, q, respTimeout, it) /\ UNCHANGED demux
  BY DEF DemuxSingle
<1>3. IsTable(queries, Entry) /\ oneshot \in [Req \ Multi -> Answers \cup {None}]
  BY DEF IInv, Types
<1>4. e.req \in Req \ Multi
  BY <1>3, HeldType
<1>5. s \in StatusType /\ (q.count # 0 => s.st = "Active")
  BY Statuses DEF Settle, IsEmpty
<1>6. IsTable(q, Entry) /\ HeldIn(q) = {x \in HeldIn(queries) : x[1] # m.id}
      /\ Occupied(q) \subseteq Occupied(queries) /\ \A i \in Occupied(q) : q.vec[i] = queries.vec[i]
  BY <1>3, Removed, HeldRemoved, SMT
<1>7. bogus = 0 => /\ m.ans = e.req
                   /\ Talk(HeldIn(q), server, reqmsg, replyq' \o wire)
                   /\ Sound(q, None)
  <2> SUFFICES ASSUME bogus = 0
               PROVE  /\ m.ans = e.req
                      /\ Talk(HeldIn(q), server, reqmsg, replyq' \o wire)
                      /\ Sound(q, None)
    OBVIOUS
  <2>1. /\ Talk(HeldIn(queries), server, reqmsg, replyq' \o wire)
        /\ <<m.id, m.ans>> \in HeldIn(queries)
        /\ m.ans \notin Multi => m.kind = "last"
        /\ m.kind # "more" => Silent(m.id, server, reqmsg, replyq' \o wire)
        /\ Sound(queries, None)
    BY Taken
  <2>2. m.ans = e.req
    BY <2>1, RightEntry
  <2>3. Silent(m.id, server, reqmsg, replyq' \o wire)
    BY <2>1, <2>2, <1>4
  <2>4. \A x \in HeldIn(queries) : x[1] # m.id => x \in HeldIn(q)
    BY <1>6
  <2>5. Sound(q, None)
    BY <2>1, <1>6 DEF Sound
  <2> DEFINE H == HeldIn(queries)
             G == HeldIn(q)
             P == replyq' \o wire
             id == m.id
  <2>6. Talk(H, server, reqmsg, P) /\ Silent(id, server, reqmsg, P) /\ \A x \in H : x[1] # id => x \in G
    BY <2>1, <2>3, <2>4
  <2> HIDE DEF H, G, P, id
  <2>7. Talk(G, server, reqmsg, P)
    BY <2>6, TalkReleased
  <2> QED BY <2>2, <2>5, <2>7 DEF G, P
<1>8. Verdict(m.ans = e.req) \in Answers /\ (m.ans = e.req => Verdict(m.ans = e.req) = "answer")
  BY DEF Verdict, Answers
<1> HIDE DEF m, e, q, s
<1>9. /\ run' \in {"loop", "closing"} /\ status' \in StatusType
      /\ IsTable(queries', Entry) /\ HeldIn(queries') \subseteq HeldIn(q)
      /\ run' = "loop" => status' = s /\ queries' = q /\ s.st \in {"ActiveNone", "Active", "Idle"}
  BY <1>2, <1>5, <1>6, Iterated
<1>10. oneshot' \in [Req \ Multi -> Answers \cup {None}]
  BY <1>2, <1>3, <1>4, <1>8
<1>11. Types'
  BY <1>1, <1>2, <1>9, <1>10, Taken DEF IInv, Types
<1>12. Once(caller', chan', HeldBy(queries', demux'), stream')
  <2>1. HeldBy(queries', demux') \subseteq HeldBy(queries, demux)
    BY <1>1, <1>2, <1>6, <1>9 DEF HeldBy
  <2> QED BY <1>1, <2>1, OnceFewer DEF IInv
<1>13. Waiting(run', queries', demux') /\ Timed(run', status'.st, queries', demux')
  BY <1>1, <1>2, <1>5, <1>9 DEF Waiting, Timed
<1>14. ASSUME run' = "loop", bogus = 0
       PROVE  Conversation(queries', demux', server', reqmsg', replyq' \o wire')
  BY <1>1, <1>2, <1>7, <1>9, <1>14 DEF Conversation, HeldBy
<1>15. AnswersReachTheirCaller'
  <2>1. bogus = 0 => \A r \in Req \ Multi : oneshot[r] # "WrongReplyForQuery"
    BY DEF IInv, AnswersReachTheirCaller
  <2>2. bogus = 0 => \A r \in Req \ Multi : oneshot'[r] # "WrongReplyForQuery"
    BY <2>1, <1>2, <1>3, <1>4, <1>7, <1>8
  <2>3. bogus = 0 => \A r \in Multi : "WrongReplyForQuery" \notin InSeq(stream[r])
    BY DEF IInv, AnswersReachTheirCaller
  <2> QED BY <2>2, <2>3, <1>1 DEF AnswersReachTheirCaller
<1>16. EofMeansComplete'
  BY <1>1 DEF IInv, EofMeansComplete
<1> QED BY <1>1, <1>11, <1>12, <1>13, <1>14, <1>15, <1>16 DEF IInv

\* demux_reply takes a zone transfer out of the table and starts to send.
LEMMA DemuxMultiOK ==
    ASSUME IInv, DemuxReply, NEW it, Head(replyq).id \in Occupied(queries),
           queries.vec[Head(replyq).id].req \in Multi, DemuxMulti(Head(replyq), it)
    PROVE  IInv'
<1> DEFINE m == Head(replyq)
           e == queries.vec[m.id]
           c == CheckStream(e, m)
           f == [e EXCEPT !.xfr = c.xfr]
           q == TryRemove(queries, m.id)
           items == IF c.eof THEN <<Verdict(c.ok), "eof">> ELSE <<Verdict(c.ok)>>
<1>1. /\ run = "loop" /\ demux = None
      /\ UNCHANGED <<caller, handle, chan, respTimeout, reqmsg, stream, wire, server, bogus, closed>>
  BY DEF DemuxReply, InSelect
<1>2. /\ demux' = [id |-> m.id, entry |-> f, keep |-> ~ c.eof, items |-> items]
      /\ queries' = q /\ status' = Active(0) /\ UNCHANGED <<run, oneshot>>
  BY DEF DemuxMulti
<1>3. IsTable(queries, Entry) /\ m \in Message
  BY Taken DEF IInv, Types
<1>4. e \in Entry /\ e.req \in Req /\ m.id \in Nat
  BY <1>3, HeldType
<1>5. c.eof \in BOOLEAN /\ c.xfr \in XFRStates /\ c.ok \in BOOLEAN
  BY <1>3, <1>4, Checked
<1>6. f \in Entry /\ f.req = e.req /\ f.xfr = c.xfr
  <2> HIDE DEF e, c
  <2> QED BY <1>4, <1>5 DEF Entry
<1>7. /\ IsTable(q, Entry) /\ HeldIn(queries) = HeldIn(q) \cup {<<m.id, e.req>>}
      /\ m.id \in Slots(q) \ Occupied(q)
      /\ Occupied(q) \subseteq Occupied(queries) /\ \A i \in Occupied(q) : q.vec[i] = queries.vec[i]
  BY <1>3, Removed, HeldRemoved, SMT
<1>8. \/ c.eof = FALSE /\ items \in {<<"answer">>, <<"WrongReplyForQuery">>}
      \/ c.eof = TRUE /\ items \in {<<"answer", "eof">>, <<"WrongReplyForQuery", "eof">>}
  BY <1>5 DEF Verdict
<1>9. bogus = 0 => /\ Talk(HeldIn(queries), server, reqmsg, replyq' \o wire)
                   /\ Sound(queries, None)
                   /\ c.xfr \in {"init", "mid"}
                   /\ items \in {<<"answer">>, <<"answer", "eof">>}
                   /\ c.eof = TRUE => Silent(m.id, server, reqmsg, replyq' \o wire)
  <2> SUFFICES ASSUME bogus = 0
               PROVE  /\ Talk(HeldIn(queries), server, reqmsg, replyq' \o wire)
                      /\ Sound(queries, None)
                      /\ c.xfr \in {"init", "mid"}
                      /\ items \in {<<"answer">>, <<"answer", "eof">>}
                      /\ c.eof = TRUE => Silent(m.id, server, reqmsg, replyq' \o wire)
    OBVIOUS
  <2>1. /\ Talk(HeldIn(queries), server, reqmsg, replyq' \o wire)
        /\ <<m.id, m.ans>> \in HeldIn(queries)
        /\ m.kind \in {"more", "last", "rcode"}
        /\ m.kind # "more" => Silent(m.id, server, reqmsg, replyq' \o wire)
        /\ Sound(queries, None)
    BY Taken
  <2>2. m.ans = e.req
    BY <2>1, RightEntry
  <2>3. e.xfr \in {"init", "mid"}
    BY <2>1 DEF Sound
  <2>4. c.eof = (m.kind # "more") /\ c.xfr \in {"init", "mid"} /\ c.ok = TRUE
    BY <2>1, <2>2, <2>3, <1>3, <1>4, Checked
  <2> HIDE DEF c, m, e
  <2>5. items \in {<<"answer">>, <<"answer", "eof">>}
    BY <2>4, <1>5 DEF Verdict
  <2> QED BY <2>1, <2>4, <2>5
<1> HIDE DEF m, e, c, f, q, items
<1>10. /\ demux' \in Suspension /\ demux' # None /\ demux'.id = m.id /\ demux'.entry = f
       /\ demux'.items = items /\ demux'.keep = (~ c.eof)
  <2>1. items \in Items /\ (~ c.eof) \in BOOLEAN
    BY <1>8 DEF Items
  <2>2. demux' \in Suspension
    BY <2>1, <1>2, <1>4, <1>6 DEF Suspension
  <2>3. demux' # None
    BY <2>2, NoneAssumption
  <2> QED BY <1>2, <2>2, <2>3
<1>11. Active(0) \in StatusType /\ Active(0).st = "Active"
  BY Statuses
<1>12. Types'
  BY <1>1, <1>2, <1>7, <1>10, <1>11, Taken DEF IInv, Types
<1>13. HeldBy(queries', demux') = HeldIn(queries) /\ HeldBy(queries, demux) = HeldIn(queries)
  BY <1>1, <1>2, <1>6, <1>7, <1>10 DEF HeldBy
<1>14. Once(caller', chan', HeldBy(queries', demux'), stream')
  BY <1>1, <1>13 DEF IInv
<1>15. Waiting(run', queries', demux')
  <2>1. demux'.entry.req \in Multi
    BY <1>6, <1>10 DEF e, m
  <2> QED BY <2>1, <1>1, <1>2, <1>7, <1>8, <1>10 DEF Waiting
<1>16. Timed(run', status'.st, queries', demux')
  BY <1>2, <1>11 DEF Timed
<1>17. ASSUME bogus = 0
       PROVE  Conversation(queries', demux', server', reqmsg', replyq' \o wire')
  <2>1. Sound(queries', demux')
    BY <1>2, <1>6, <1>7, <1>9, <1>10, <1>17 DEF Sound
  <2>2. demux'.keep = FALSE => Silent(demux'.id, server, reqmsg, replyq' \o wire)
    BY <1>5, <1>9, <1>10, <1>17
  <2> QED BY <2>1, <2>2, <1>1, <1>9, <1>13, <1>17 DEF Conversation
<1>18. AnswersReachTheirCaller' /\ EofMeansComplete'
  BY <1>1, <1>2, FactsKept
<1> QED BY <1>1, <1>12, <1>14, <1>15, <1>16, <1>17, <1>18 DEF IInv

\* demux_reply gets an answer.
LEMMA DemuxReplyOK == ASSUME IInv, DemuxReply PROVE IInv'
<1> DEFINE m  == Head(replyq)
           it == IF m.ka = None THEN idleTimeout ELSE m.ka
<1>1. \/ DemuxUnknown(m, it)
      \/ m.id \in Occupied(queries) /\ queries.vec[m.id].req \in Multi /\ DemuxMulti(m, it)
      \/ m.id \in Occupied(queries) /\ queries.vec[m.id].req \notin Multi /\ DemuxSingle(m, it)
  BY DEF DemuxReply
<1> HIDE DEF it
<1> QED BY <1>1, DemuxUnknownOK, DemuxMultiOK, DemuxSingleOK

\* One item goes to the caller of r, or nowhere because the caller is gone.
LEMMA Sent ==
    ASSUME IInv, DemuxSend
    PROVE  /\ demux \in Suspension /\ demux.entry.req \in Multi
           /\ stream' \in [Multi -> Seq(Answers \cup {"eof"})]
           /\ \A s \in Multi : s # demux.entry.req => stream'[s] = stream[s]
           /\ \/ stream' = stream
              \/ /\ InSeq(stream'[demux.entry.req]) = InSeq(stream[demux.entry.req]) \cup {Head(demux.items)}
                 /\ caller[demux.entry.req].pc = "waiting"
<1> DEFINE r == demux.entry.req
           x == Head(demux.items)
<1>1. demux \in Suspension /\ r \in Multi
  BY DEF DemuxSend, IInv, Types, Waiting
<1>2. stream \in [Multi -> Seq(Answers \cup {"eof"})]
  BY DEF IInv, Types
<1>3. x \in Answers \cup {"eof"}
  <2>1. demux.items \in Items
    BY <1>1 DEF Suspension
  <2> QED BY <2>1, SMT DEF Items, Answers
<1>4. \/ stream' = stream
      \/ caller[r].pc = "waiting" /\ stream' = [stream EXCEPT ![r] = Append(stream[r], x)]
  BY DEF DemuxSend
<1> HIDE DEF r, x
<1>5. CASE caller[r].pc = "waiting" /\ stream' = [stream EXCEPT ![r] = Append(stream[r], x)]
  <2>1. stream[r] \in Seq(Answers \cup {"eof"})
    BY <1>1, <1>2
  <2>2. InSeq(Append(stream[r], x)) = InSeq(stream[r]) \cup {x}
    BY <2>1, <1>3, InSeqAppend, SMT
  <2>3. Append(stream[r], x) \in Seq(Answers \cup {"eof"})
    BY <2>1, <1>3, SMT
  <2> QED BY <1>1, <1>2, <1>5, <2>2, <2>3 DEF r, x
<1> QED BY <1>1, <1>2, <1>4, <1>5 DEF r, x

\* An answer is not the end of the stream.
LEMMA SentAnswer ==
    ASSUME IInv, DemuxSend, Head(demux.items) \in Answers
    PROVE  /\ \A s \in Multi : Told(caller, stream', s) => Told(caller, stream, s)
           /\ EofMeansComplete'
<1>1. \A s \in Multi : Told(caller, stream', s) => Told(caller, stream, s)
  <2>1. \A s \in Multi : "eof" \in InSeq(stream'[s]) => "eof" \in InSeq(stream[s])
    <3>1. "eof" # Head(demux.items)
      BY DEF Answers
    <3>2. /\ \A s \in Multi : s # demux.entry.req => stream'[s] = stream[s]
          /\ \/ stream' = stream
             \/ InSeq(stream'[demux.entry.req]) = InSeq(stream[demux.entry.req]) \cup {Head(demux.items)}
      BY Sent
    <3> QED BY <3>1, <3>2
  <2> QED BY <2>1 DEF Told
<1>2. caller' = caller /\ server' = server /\ bogus' = bogus
  BY DEF DemuxSend
<1>3. EofMeansComplete'
  BY <1>1, <1>2 DEF IInv, EofMeansComplete, Told
<1> QED BY <1>1, <1>3

\* The end of the stream is sent when the server has nothing more to say to r.
LEMMA SentEof ==
    ASSUME IInv, DemuxSend, demux.items = <<"eof">>
    PROVE  /\ Once(caller, chan, HeldIn(queries), stream')
           /\ EofMeansComplete'
<1> DEFINE r == demux.entry.req
           H == HeldBy(queries, demux)
<1>1. run = "loop" /\ demux # None /\ caller' = caller /\ server' = server /\ bogus' = bogus
  BY DEF DemuxSend
<1>2. demux.id \in Slots(queries) \ Occupied(queries) /\ demux.keep = FALSE
  BY <1>1, SMT DEF IInv, Waiting
<1>3. H = HeldIn(queries) \cup {<<demux.id, r>>} /\ Once(caller, chan, H, stream)
  BY <1>1 DEF IInv, HeldBy
<1>4. \A x \in HeldIn(queries) : x[1] # demux.id
  BY <1>2, SMT DEF HeldIn
<1>5. \A x \in HeldIn(queries) : x[2] # r
  <2> HIDE DEF H, r
  <2>1. ASSUME NEW x \in HeldIn(queries), x[2] = r PROVE FALSE
    <3>1. x \in H /\ <<demux.id, r>> \in H
      BY <1>3
    <3>2. x = <<demux.id, r>>
      BY <2>1, <3>1, <1>3 DEF Once, OneToOne
    <3> QED BY <3>2, <1>4
  <2> QED BY <2>1
<1>6. Unheld(chan, HeldIn(queries), r)
  <2> HIDE DEF H, r
  <2>1. r \notin InSeq(chan)
    BY <1>3 DEF Once
  <2> QED BY <2>1, <1>5 DEF Unheld
<1>7. Once(caller, chan, HeldIn(queries), stream)
  BY <1>3, OnceFewer
<1>8. \A s \in Multi : s # r /\ Told(caller, stream', s) => Told(caller, stream, s)
  BY Sent DEF Told
<1>9. Told(caller, stream', r) => Told(caller, stream, r) \/ caller[r].pc = "waiting"
  BY Sent DEF Told
<1>10. Once(caller, chan, HeldIn(queries), stream')
  <2> HIDE DEF r
  <2>1. ASSUME NEW s \in Multi, Told(caller, stream', s)
        PROVE  Unheld(chan, HeldIn(queries), s) /\ caller[s].pc \notin {"new", "sending"}
    BY <2>1, <1>6, <1>7, <1>8, <1>9 DEF Once
  <2> QED BY <2>1, <1>7 DEF Once
<1>11. bogus = 0 => \A p \in server : p.req # r
  <2> SUFFICES ASSUME bogus = 0, NEW p \in server, p.req = r PROVE FALSE
    OBVIOUS
  <2>1. Talk(H, server, reqmsg, replyq \o wire) /\ Silent(demux.id, server, reqmsg, replyq \o wire)
    BY <1>1, <1>2 DEF IInv, Conversation
  <2> HIDE DEF H, r
  <2>2. <<p.id, r>> \in H /\ p.id # demux.id
    BY <2>1 DEF Talk, Silent
  <2>3. <<p.id, r>> = <<demux.id, r>>
    BY <2>2, <1>3 DEF Once, OneToOne
  <2> QED BY <2>2, <2>3
<1>12. EofMeansComplete'
  <2>1. bogus = 0 => \A s \in Multi : Told(caller, stream, s) => \A p \in server : p.req # s
    BY DEF IInv, EofMeansComplete, Told
  <2> HIDE DEF r
  <2>2. bogus = 0 => \A s \in Multi : Told(caller, stream', s) => \A p \in server : p.req # s
    BY <2>1, <1>8, <1>11
  <2> QED BY <2>2, <1>1 DEF EofMeansComplete, Told
<1> QED BY <1>10, <1>12

\* What demux_reply sends is an answer to the request it is sent to.
LEMMA SentRight == ASSUME IInv, DemuxSend PROVE AnswersReachTheirCaller'
<1>1. run = "loop" /\ demux # None /\ bogus' = bogus /\ oneshot' = oneshot
  BY DEF DemuxSend
<1>2. bogus = 0 => Head(demux.items) # "WrongReplyForQuery"
  <2>1. bogus = 0 => demux.items \in {<<"answer">>, <<"answer", "eof">>, <<"eof">>}
    BY <1>1 DEF IInv, Conversation, Sound
  <2> QED BY <2>1, SMT
<1>3. bogus = 0 => /\ \A r \in Req \ Multi : oneshot[r] # "WrongReplyForQuery"
                   /\ \A r \in Multi : "WrongReplyForQuery" \notin InSeq(stream[r])
  BY DEF IInv, AnswersReachTheirCaller
<1>4. bogus = 0 => \A r \in Multi : "WrongReplyForQuery" \notin InSeq(stream'[r])
  BY <1>2, <1>3, Sent
<1> QED BY <1>1, <1>3, <1>4 DEF AnswersReachTheirCaller

\* demux_reply sends one item, and puts the query back after the last if it is to stay.
LEMMA DemuxSendOK == ASSUME IInv, DemuxSend PROVE IInv'
<1>1. /\ run = "loop" /\ demux # None
      /\ UNCHANGED <<caller, handle, chan, idleTimeout, respTimeout, reqmsg, replyq,
                     oneshot, wire, server, bogus, closed>>
  BY DEF DemuxSend
<1>2. /\ demux \in Suspension /\ demux.entry \in Entry
      /\ stream' \in [Multi -> Seq(Answers \cup {"eof"})]
  BY Sent DEF Suspension
<1>3. /\ IsTable(queries, Entry) /\ status \in StatusType /\ status.st = "Active"
      /\ Once(caller, chan, HeldBy(queries, demux), stream)
      /\ demux.id \in Slots(queries) \ Occupied(queries) /\ demux.entry.req \in Multi
      /\ bogus = 0 => Conversation(queries, demux, server, reqmsg, replyq \o wire)
  BY <1>1 DEF IInv, Types, Waiting, Timed
<1>4. HeldBy(queries, demux) = HeldIn(queries) \cup {<<demux.id, demux.entry.req>>}
  BY <1>1 DEF HeldBy
<1>5. CASE demux.keep = FALSE /\ demux.items \in {<<"answer", "eof">>, <<"WrongReplyForQuery", "eof">>}
  <2>1. Head(demux.items) \in Answers /\ Len(demux.items) = 2 /\ Tail(demux.items) = <<"eof">>
    <3>1. ASSUME NEW a PROVE Head(<<a, "eof">>) = a /\ Len(<<a, "eof">>) = 2 /\ Tail(<<a, "eof">>) = <<"eof">>
      BY SMT
    <3> QED BY <1>5, <3>1 DEF Answers
  <2>2. demux' = [demux EXCEPT !.items = <<"eof">>] /\ UNCHANGED <<run, status, queries>>
    <3>1. Len(demux.items) # 1
      BY <2>1, SMT
    <3>2. demux' = [demux EXCEPT !.items = Tail(demux.items)] /\ UNCHANGED <<run, status, queries>>
      BY <3>1 DEF DemuxSend
    <3> QED BY <2>1, <3>2
  <2>3. /\ demux' \in Suspension /\ demux'.id = demux.id /\ demux'.entry = demux.entry
        /\ demux'.keep = FALSE /\ demux'.items = <<"eof">>
    BY <1>2, <1>5, <2>2 DEF Suspension, Items
  <2>4. demux' # None
    BY <2>3, NoneAssumption
  <2>5. Types'
    BY <1>1, <1>2, <2>2, <2>3 DEF IInv, Types
  <2>6. HeldBy(queries', demux') = HeldBy(queries, demux)
    BY <1>1, <2>2, <2>3, <2>4 DEF HeldBy
  <2>7. Once(caller', chan', HeldBy(queries', demux'), stream')
    BY <1>1, <1>3, <2>1, <2>6, SentAnswer DEF Once
  <2>8. Waiting(run', queries', demux') /\ Timed(run', status'.st, queries', demux')
    BY <1>1, <1>3, <2>2, <2>3, <2>4 DEF Waiting, Timed
  <2>9. bogus = 0 => Conversation(queries', demux', server', reqmsg', replyq' \o wire')
    BY <1>1, <1>3, <1>5, <2>2, <2>3, <2>4, <2>6 DEF Conversation, Sound
  <2> QED BY <1>1, <2>1, <2>5, <2>7, <2>8, <2>9, SentAnswer, SentRight DEF IInv
<1>6. CASE \/ demux.keep = TRUE /\ demux.items \in {<<"answer">>, <<"WrongReplyForQuery">>}
           \/ demux.keep = FALSE /\ demux.items = <<"eof">>
  <2> DEFINE q == IF demux.keep THEN InsertAt(queries, demux.id, demux.entry) ELSE queries
             s == Settle(status, q, idleTimeout)
  <2>1. Len(demux.items) = 1
    BY <1>6, SMT
  <2>2. demux' = None /\ NextIteration(s, q, respTimeout, idleTimeout)
    BY <2>1 DEF DemuxSend, DemuxEnd
  <2>3. s \in StatusType /\ (q.count # 0 => s.st = "Active")
    BY <1>3, Statuses DEF Settle, IsEmpty
  <2>4. IsTable(q, Entry) /\ EofMeansComplete' /\ Once(caller, chan, HeldIn(q), stream')
        /\ (bogus = 0 => Talk(HeldIn(q), server, reqmsg, replyq \o wire) /\ Sound(q, None))
    <3>1. CASE demux.keep = TRUE /\ demux.items \in {<<"answer">>, <<"WrongReplyForQuery">>}
      <4>1. q = InsertAt(queries, demux.id, demux.entry)
        BY <3>1
      <4> DEFINE id == demux.id
                 e == demux.entry
      <4>2. id \in Slots(queries) \ Occupied(queries) /\ e \in Entry /\ q = InsertAt(queries, id, e)
        BY <1>2, <1>3, <4>1
      <4> HIDE DEF id, e, q
      <4>3. /\ IsTable(q, Entry) /\ Occupied(q) = Occupied(queries) \cup {id}
            /\ q.vec[id] = e /\ \A i \in Occupied(queries) : q.vec[i] = queries.vec[i]
        BY <1>3, <4>2, PutBack, SMT
      <4>4. HeldIn(q) = HeldBy(queries, demux)
        <5>1. HeldIn(q) = HeldIn(queries) \cup {<<id, e.req>>}
          BY <1>3, <4>2, HeldPutBack
        <5> QED BY <1>4, <5>1 DEF id, e
      <4>5. Head(demux.items) \in Answers
        BY <3>1, SMT DEF Answers
      <4>6. Once(caller, chan, HeldIn(q), stream')
        BY <1>3, <4>4, <4>5, SentAnswer DEF Once
      <4>7. bogus = 0 => Talk(HeldIn(q), server, reqmsg, replyq \o wire) /\ Sound(q, None)
        <5>1. Sound(queries, demux) => Sound(q, None)
          BY <1>1, <4>3 DEF Sound, e
        <5> QED BY <1>3, <4>4, <5>1 DEF Conversation
      <4> QED BY <4>3, <4>5, <4>6, <4>7, SentAnswer
    <3>2. CASE demux.keep = FALSE /\ demux.items = <<"eof">>
      <4>1. q = queries
        BY <3>2
      <4> HIDE DEF q
      <4>2. Once(caller, chan, HeldIn(q), stream') /\ EofMeansComplete'
        BY <3>2, <4>1, SentEof
      <4>3. ASSUME bogus = 0 PROVE Talk(HeldIn(q), server, reqmsg, replyq \o wire) /\ Sound(q, None)
        <5> DEFINE H == HeldBy(queries, demux)
                   G == HeldIn(q)
                   P == replyq \o wire
                   id == demux.id
        <5>1. /\ Talk(H, server, reqmsg, P) /\ Silent(id, server, reqmsg, P)
              /\ Sound(queries, demux)
          BY <1>1, <1>3, <3>2, <4>3 DEF Conversation
        <5>2. \A x \in H : x[1] # id => x \in G
          BY <1>4, <4>1, SMT
        <5>3. Sound(q, None)
          BY <4>1, <5>1 DEF Sound
        <5> HIDE DEF H, G, P, id
        <5>4. Talk(G, server, reqmsg, P)
          BY <5>1, <5>2, TalkReleased
        <5> QED BY <5>3, <5>4 DEF G, P
      <4> QED BY <1>3, <4>1, <4>2, <4>3
    <3> QED BY <1>6, <3>1, <3>2
  <2> HIDE DEF q, s
  <2>5. /\ run' \in {"loop", "closing"} /\ status' \in StatusType
        /\ IsTable(queries', Entry) /\ HeldIn(queries') \subseteq HeldIn(q)
        /\ run' = "loop" => status' = s /\ queries' = q /\ s.st \in {"ActiveNone", "Active", "Idle"}
    BY <2>2, <2>3, <2>4, Iterated
  <2>6. Types'
    BY <1>1, <1>2, <2>2, <2>5 DEF IInv, Types
  <2>7. HeldBy(queries', demux') = HeldIn(queries')
    BY <2>2 DEF HeldBy
  <2>8. Once(caller', chan', HeldBy(queries', demux'), stream')
    BY <1>1, <2>4, <2>5, <2>7, OnceFewer
  <2>9. Waiting(run', queries', demux') /\ Timed(run', status'.st, queries', demux')
    BY <2>2, <2>3, <2>5 DEF Waiting, Timed
  <2>10. run' = "loop" /\ bogus = 0 =>
           Conversation(queries', demux', server', reqmsg', replyq' \o wire')
    BY <1>1, <2>2, <2>4, <2>5, <2>7 DEF Conversation
  <2> QED BY <1>1, <2>4, <2>6, <2>8, <2>9, <2>10, SentRight DEF IInv
<1> QED BY <1>1, <1>5, <1>6 DEF IInv, Waiting

------------------------------------------------------------------------------

\* Every step keeps the invariant.
LEMMA StepOK == IInv /\ [Next]_vars => IInv'
<1> SUFFICES ASSUME IInv, [Next]_vars PROVE IInv'
  OBVIOUS
<1>1. CASE \E r \in Req : CallerNext(r)
  BY <1>1, StartOK, EnqueueOK, GetResponseOK, GetResponseMultiOK, CancelOK DEF CallerNext
<1>2. CASE TransportNext
  BY <1>2, ReadMessageOK, ReadFailsOK, DemuxReplyOK, DemuxSendOK, WriteMessageOK, WriteFailsOK,
     ReceiveReqOK, ReceiveNoneOK, TimerExpiresOK, ReturnOK DEF TransportNext
<1>3. status \in StatusType
  BY DEF IInv, Types
<1>4. CASE ServerNext
  <2>1. CASE ServerCloses
    BY <2>1, <1>3, QuietOK DEF ServerCloses
  <2> QED BY <1>4, <2>1, ServerAnswersOK, ServerErrsOK DEF ServerNext
<1>5. CASE DropConnection
  BY <1>3, <1>5, QuietOK DEF DropConnection
<1>6. CASE Tick
  BY <1>6, TickOK
<1>7. CASE UNCHANGED vars
  BY <1>3, <1>7, QuietOK DEF vars
<1>8. CASE Terminated
  BY <1>7, <1>8 DEF Terminated
<1> QED BY <1>1, <1>2, <1>4, <1>5, <1>6, <1>7, <1>8 DEF Next

\* The invariant: every query under way has its ID, requests are in one place, the
\* timer runs, and the callers were told the truth.
THEOREM TransportInvariant == Spec => []IInv
BY InitOK, StepOK, PTL DEF Spec

\* Whatever the server sends, the response timer runs while a query is outstanding:
\* insert_req, demux_reply and the timer check keep the table and the connection
\* state in step, also where demux_reply waits with a query taken out.
THEOREM AlwaysTimed == Spec => []OutstandingIsTimed
<1>1. IInv => OutstandingIsTimed
  BY DEF IInv, Timed, OutstandingIsTimed, IsEmpty
<1> QED BY <1>1, TransportInvariant, PTL

\* With a server that answers what it was asked, a query it may still answer holds
\* its ID, for any number of requests, IDs and answers on their way: insert never
\* gives the ID to another request.
THEOREM IdsHeld == Spec => []IdHeldUntilAnswered
<1>1. ASSUME IInv PROVE IdHeldUntilAnswered
  <2> SUFFICES ASSUME run = "loop", bogus = 0, NEW p \in server PROVE EntryAt(p.id) = p.req
    BY DEF IdHeldUntilAnswered
  <2>1. <<p.id, p.req>> \in HeldBy(queries, demux)
    BY <1>1 DEF IInv, Conversation, Talk
  <2>2. demux # None => demux.id \notin Occupied(queries)
    BY <1>1 DEF IInv, Waiting
  <2>3. CASE demux # None /\ demux.id = p.id
    <3>1. <<p.id, p.req>> \notin HeldIn(queries)
      BY <2>2, <2>3 DEF HeldIn
    <3> QED BY <2>1, <2>3, <3>1 DEF HeldBy, EntryAt
  <2>4. CASE ~ (demux # None /\ demux.id = p.id)
    <3>1. <<p.id, p.req>> \in HeldIn(queries)
      BY <2>1, <2>4 DEF HeldBy
    <3>2. p.id \in Occupied(queries) /\ queries.vec[p.id].req = p.req
      BY <3>1, RightEntry
    <3> QED BY <2>4, <3>2 DEF EntryAt
  <2> QED BY <2>3, <2>4
<1> QED BY <1>1, TransportInvariant, PTL

\* With such a server no caller gets the answer to another request, or an error in
\* place of its own: demux_reply finds the request an answer is for.
THEOREM AnswersMatched == Spec => []AnswersReachTheirCaller
<1>1. IInv => AnswersReachTheirCaller
  BY DEF IInv
<1> QED BY <1>1, TransportInvariant, PTL

\* With such a server the end of a stream of answers is reported only when the
\* server has sent all of it.
THEOREM EofIsTheEnd == Spec => []EofMeansComplete
<1>1. IInv => EofMeansComplete
  BY DEF IInv
<1> QED BY <1>1, TransportInvariant, PTL
==============================================================================
