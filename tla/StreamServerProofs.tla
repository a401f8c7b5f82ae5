------------------------- MODULE StreamServerProofs -------------------------
(***************************************************************************)
(* The stream server keeps its promises for any number of connections, of  *)
(* messages and of responses, any queue length and any service.            *)
(*                                                                         *)
(* The first part is about one connection and one task by themselves: how  *)
(* the segments read, those in flight and those sent add up (Framed), how  *)
(* the responses queued so far are spread over the client, the write in    *)
(* progress and the queue (Written), how far a task is in its service's    *)
(* stream and what it has queued of it (TaskOK).  The inductive invariant  *)
(* IInv says this of every connection and task, and that the handlers that *)
(* run are counted.                                                        *)
(***************************************************************************)
EXTENDS StreamServer, SequenceTheorems, FiniteSetTheorems, TLAPS

Pcs == {"none", "backlog", "spawned", "command", "queue", "idle", "read", "write", "flush",
        "closing", "closed"}

Hows == {"up", "refused", "setup", "flush", "write", "idle", "parse", "eof"}

ConfigType == [idle : Nat, gen : Nat]

ResponseType == Nat \X Nat

CommandType == [ver : Nat, kind : {"init", "reconfigure", "shutdown"}, config : ConfigType]

ListenerType == [pc : {"command", "accept", "stopped"}, seen : Nat, config : ConfigType]

HandlerType ==
    [pc : Pcs, seen : Nat, config : ConfigType, sleep : Nat, age : 0 .. MaxIdle,
     status : {"header", "body"}, header : Nat, out : Seq(ResponseType), open : BOOLEAN,
     read : Seq(Nat \X Nat), queued : Seq(ResponseType), failed : BOOLEAN, how : Hows]

ClientType == [sent : Nat, open : BOOLEAN, got : Seq(ResponseType)]

TaskType ==
    [msg : Nat, script : Seq(Results), plan : Seq(Results), intx : BOOLEAN,
     pc : {"next", "store", "push", "count", "set", "done"},
     loaded : SUBSET ConfigType, pending : 0 .. MaxQueued]

\* The segments a handler has read.
Segments(read, status) == 2 * Len(read) + IF status = "body" THEN 1 ELSE 0

Framed(read, status, header, sent, ib) ==
    /\ sent = Segments(read, status) + Len(ib)
    /\ \A i \in 1 .. Len(ib) : ib[i] = Segments(read, status) + i
    /\ status = "body" => header = Segments(read, status)
    /\ \A j \in 1 .. Len(read) : read[j] = <<2 * j - 1, 2 * j>>

\* Every response that was queued is at the client, being written or in the queue,
\* in this order.
Spread(all, got, out, q) ==
    /\ Len(all) = Len(got) + Len(out) + Len(q)
    /\ out # <<>> => out[1] = all[Len(got) + 1]
    /\ \A i \in 1 .. Len(q) : q[i] = all[Len(got) + Len(out) + i]

Written(k, got, q) ==
    /\ Len(k.out) = IF k.pc = "write" THEN 1 ELSE 0
    /\ k.pc = "flush" => k.how = "flush"
    /\ k.how = "flush" => k.pc \in {"flush", "write", "closing", "closed"} /\ ~k.open
    /\ Len(q) <= MaxQueued
    /\ ~k.failed =>
         /\ Len(got) <= Len(k.queued)
         /\ \A i \in 1 .. Len(got) : got[i] = k.queued[i]
         /\ k.pc # "closed" => Spread(k.queued, got, k.out, q)
         /\ k.pc \in {"closing", "closed"} /\ k.how = "flush" => Len(got) = Len(k.queued)

Within(plan, j) == \E b \in 1 .. j : InTransaction(plan, b, j)

InQueued(queued, r) == \E q \in 1 .. Len(queued) : queued[q] = r

\* How far a task is in its service's stream, and what is queued of it.
Progress(msg, plan, script, pc, intx, queued, open) ==
    LET taken == Len(plan) - Len(script) IN
    /\ Len(script) <= Len(plan)
    /\ \A i \in 1 .. Len(script) : script[i] = plan[taken + i]
    /\ \A j \in 1 .. taken : plan[j].resp => InQueued(queued, <<msg, j>>)
    /\ pc \in {"store", "push"} => script # <<>>
    /\ pc = "store" => script[1].fb = "idle"
    /\ pc \in {"next", "count", "set", "store"} /\ Within(plan, taken) => intx
    /\ pc = "push" /\ Within(plan, taken + 1) => intx
    /\ pc = "done" /\ open /\ script # <<>> => ~Within(plan, taken + 1)

TaskOK(t, k) == Progress(t.msg, t.plan, t.script, t.pc, t.intx, k.queued, k.open)

\* Leaves with arithmetic name SMT.
USE Zenon

\* The longest timeout is one of the timeouts.
LEMMA MaxIdleType == MaxIdle \in Nat
  BY ServerAssumption DEF MaxIdle

\* What a step of a handler leaves alone when it neither reads nor writes.
Same(k, n) ==
    /\ n.status = k.status /\ n.header = k.header /\ n.out = k.out /\ n.read = k.read
    /\ n.queued = k.queued /\ n.failed = k.failed
    /\ n.open => k.open

Active(k) == k.pc \notin {"none", "backlog", "spawned", "closed"}

\* Where the changes of a handler's state lead.
LEMMA SelectMoves ==
    ASSUME NEW k \in HandlerType
    PROVE  /\ Select(k) \in HandlerType
           /\ Same(k, Select(k)) /\ Select(k).pc = "command"
           /\ Select(k).how = k.how /\ Select(k).open = k.open /\ Select(k).seen = k.seen
<1>1. k.config.idle \in Nat
  BY DEF HandlerType, ConfigType
<1>2. Select(k) \in HandlerType
  BY <1>1 DEF HandlerType, Select, Pcs
<1>3. /\ Select(k).status = k.status /\ Select(k).header = k.header
      /\ Select(k).out = k.out /\ Select(k).read = k.read
      /\ Select(k).queued = k.queued /\ Select(k).failed = k.failed
      /\ Select(k).how = k.how /\ Select(k).open = k.open /\ Select(k).seen = k.seen
      /\ Select(k).pc = "command"
  BY DEF HandlerType, Select
<1> QED BY <1>2, <1>3 DEF Same

\* The handler leaves its loop to close the connection.
LEMMA DisconnectMoves ==
    ASSUME NEW k \in HandlerType, NEW how \in Hows
    PROVE  /\ Disconnect(k, how) \in HandlerType
           /\ Same(k, Disconnect(k, how)) /\ Disconnect(k, how).pc = "closing"
           /\ Disconnect(k, how).how = how /\ Disconnect(k, how).open = k.open
           /\ Disconnect(k, how).seen = k.seen
<1>2. Disconnect(k, how) \in HandlerType
  BY DEF HandlerType, Disconnect, Pcs
<1>3. LET n == Disconnect(k, how)
      IN  /\ n.status = k.status /\ n.header = k.header /\ n.out = k.out /\ n.read = k.read
          /\ n.queued = k.queued /\ n.failed = k.failed
          /\ n.how = how /\ n.open = k.open /\ n.seen = k.seen /\ n.pc = "closing"
  BY DEF HandlerType, Disconnect
<1> QED BY <1>2, <1>3 DEF Same

\* The handler stops taking responses and writes those it has.
LEMMA StartFlushMoves ==
    ASSUME NEW k \in HandlerType
    PROVE  /\ StartFlush(k) \in HandlerType
           /\ Same(k, StartFlush(k)) /\ StartFlush(k).pc = "flush"
           /\ StartFlush(k).how = "flush" /\ ~StartFlush(k).open
           /\ StartFlush(k).seen = k.seen
<1>2. StartFlush(k) \in HandlerType
  BY DEF HandlerType, StartFlush, Pcs, Hows
<1>3. LET n == StartFlush(k)
      IN  /\ n.status = k.status /\ n.header = k.header /\ n.out = k.out /\ n.read = k.read
          /\ n.queued = k.queued /\ n.failed = k.failed
          /\ n.how = "flush" /\ ~n.open /\ n.seen = k.seen /\ n.pc = "flush"
  BY DEF HandlerType, StartFlush
<1> QED BY <1>2, <1>3 DEF Same

\* The handler only moves to another await.
LEMMA PcMoves ==
    ASSUME NEW k \in HandlerType, NEW pc \in Pcs
    PROVE  LET n == [k EXCEPT !.pc = pc]
           IN  /\ n \in HandlerType /\ Same(k, n) /\ n.pc = pc
               /\ n.how = k.how /\ n.open = k.open /\ n.seen = k.seen
  BY DEF HandlerType, Same

\* Such a step keeps what is said of a connection and of its tasks.
LEMMA SameWritten ==
    ASSUME NEW k \in HandlerType, NEW n \in HandlerType, NEW got, NEW q, Same(k, n), Written(k, got, q),
           k.pc \notin {"write", "flush", "closing", "closed"},
           n.pc # "write", n.how = "flush" <=> n.pc = "flush", n.pc = "flush" => ~n.open
    PROVE  Written(n, got, q)
  BY DEF Written, Spread, Same

\* Nor do the tasks of the connection notice such a step.
LEMMA SameTask ==
    ASSUME NEW k, NEW n, NEW t, Same(k, n), TaskOK(t, k)
    PROVE  TaskOK(t, n)
  BY DEF TaskOK, Progress, Same

\* What is said of the responses of a connection depends on these fields only.
Kept(k, n) == n.queued = k.queued /\ n.failed = k.failed /\ n.open = k.open /\ n.how = k.how

\* The only element of a sequence.
LEMMA FirstElement ==
    ASSUME NEW S, NEW s \in Seq(S), Len(s) = 1
    PROVE  s[1] \in S /\ s # <<>>
<1>1. 1 \in 1 .. Len(s)
  BY SMT
<1> QED BY <1>1, ElementOfSeq, SMT

\* The elements of a sequence with one more at its end.
LEMMA AppendedElements ==
    ASSUME NEW S, NEW s \in Seq(S), NEW e \in S, NEW n, n = Append(s, e)
    PROVE  /\ n \in Seq(S) /\ Len(s) \in Nat
           /\ Len(n) = Len(s) + 1 /\ n[Len(s) + 1] = e
           /\ \A i \in 1 .. Len(s) : n[i] = s[i]
  BY SMT

\* A step that neither writes nor moves keeps what is said of the responses.
LEMMA KeptWritten ==
    ASSUME NEW k, NEW n, NEW got, NEW q, Written(k, got, q),
           Kept(k, n), n.pc = k.pc, n.out = k.out
    PROVE  Written(n, got, q)
  BY DEF Written, Spread, Kept

\* A response is taken from the queue to be written.
LEMMA TakeWritten ==
    ASSUME NEW k \in HandlerType, NEW n \in HandlerType, NEW got \in Seq(ResponseType),
           NEW q \in Seq(ResponseType), q # <<>>, Written(k, got, q),
           k.pc \in {"queue", "flush"}, Kept(k, n), n.pc = "write", n.out = <<Head(q)>>
    PROVE  Written(n, got, Tail(q))
<1>1. /\ Tail(q) \in Seq(ResponseType) /\ Len(Tail(q)) = Len(q) - 1 /\ Len(q) \in Nat /\ Len(q) >= 1
      /\ Head(q) = q[1] /\ \A i \in 1 .. Len(Tail(q)) : Tail(q)[i] = q[i + 1]
  BY SMT
<1>2. Len(k.out) = 0 /\ Len(n.out) = 1 /\ n.out[1] = q[1] /\ n.out # <<>>
  BY <1>1, SMT DEF Written
<1>3. Len(got) \in Nat /\ Len(k.queued) \in Nat
  BY SMTT(20) DEF HandlerType
<1>4. ASSUME ~n.failed PROVE Spread(n.queued, got, n.out, Tail(q))
  <2>1. Spread(k.queued, got, k.out, q)
    BY <1>4 DEF Written, Kept
  <2>2. /\ Len(n.queued) = Len(got) + Len(q) /\ q[1] = n.queued[Len(got) + 1]
        /\ \A i \in 1 .. Len(q) : q[i] = n.queued[Len(got) + i]
    BY <1>1, <1>2, <1>3, <2>1, SMT DEF Spread, Kept
  <2>3. ASSUME NEW i \in 1 .. Len(Tail(q))
        PROVE  Tail(q)[i] = n.queued[Len(got) + Len(n.out) + i]
    <3>1. i + 1 \in 1 .. Len(q) /\ Tail(q)[i] = q[i + 1]
      BY <1>1, SMT
    <3>2. Len(got) + (i + 1) = Len(got) + Len(n.out) + i
      BY <1>2, <1>3, SMT
    <3> QED BY <2>2, <3>1, <3>2
  <2> QED BY <1>1, <1>2, <1>3, <2>2, <2>3, SMT DEF Spread
<1> QED BY <1>1, <1>2, <1>3, <1>4, ServerAssumption, SMT DEF Written, Kept

\* The queue has been flushed.
LEMMA FlushedWritten ==
    ASSUME NEW k \in HandlerType, NEW n \in HandlerType, NEW got \in Seq(ResponseType),
           Written(k, got, <<>>), k.pc = "flush", Kept(k, n), n.pc = "closing", n.out = k.out
    PROVE  Written(n, got, <<>>)
  BY SMT DEF Written, Spread, Kept

\* A response has been written.
LEMMA WriteOkWritten ==
    ASSUME NEW k \in HandlerType, NEW n \in HandlerType, NEW got \in Seq(ResponseType),
           NEW q \in Seq(ResponseType), Written(k, got, q), k.pc = "write",
           Kept(k, n), n.out = <<>>, n.pc = IF k.how = "flush" THEN "flush" ELSE "command"
    PROVE  Written(n, Append(got, k.out[1]), q)
<1>1. Len(k.out) = 1 /\ k.out[1] \in ResponseType /\ k.out # <<>> /\ Len(n.out) = 0
  <2>1. k.out \in Seq(ResponseType) /\ Len(k.out) = 1 /\ Len(n.out) = 0
    BY DEF Written, HandlerType
  <2> QED BY <2>1, FirstElement
<1>2. /\ Len(Append(got, k.out[1])) = Len(got) + 1 /\ Append(got, k.out[1])[Len(got) + 1] = k.out[1]
      /\ \A i \in 1 .. Len(got) : Append(got, k.out[1])[i] = got[i]
  BY <1>1, SMT
<1>3. Len(got) \in Nat /\ Len(k.queued) \in Nat /\ Len(q) \in Nat
  BY SMTT(30) DEF HandlerType
<1> DEFINE g == Append(got, k.out[1])
<1> HIDE DEF g
<1>4. ~n.failed => Spread(n.queued, g, n.out, q)
  BY <1>1, <1>2, <1>3, SMT DEF Written, Spread, Kept, g
<1>5. ~n.failed => Len(g) <= Len(k.queued) /\ \A i \in 1 .. Len(g) : g[i] = k.queued[i]
  BY <1>1, <1>2, <1>3, SMT DEF Written, Spread, Kept, g
<1> QED BY <1>1, <1>3, <1>4, <1>5, SMT DEF Written, Kept, g

\* A write has failed.
LEMMA WriteFailsWritten ==
    ASSUME NEW k, NEW n, NEW got, NEW q, Written(k, got, q), k.pc = "write",
           n.failed, n.out = <<>>, n.open = k.open,
           \/ k.how = "flush" /\ n.how = "flush" /\ n.pc = "flush"
           \/ k.how # "flush" /\ n.how = "write" /\ n.pc = "closing"
    PROVE  Written(n, got, q)
  BY DEF Written

\* The handler is dropped with what is still in its queue.
LEMMA CloseWritten ==
    ASSUME NEW k, NEW n, NEW got, NEW q, Written(k, got, q), k.pc = "closing",
           n.queued = k.queued, n.failed = k.failed, n.how = k.how, n.out = k.out,
           n.pc = "closed", ~n.open
    PROVE  Written(n, got, <<>>)
  BY ServerAssumption, SMT DEF Written

\* The element that was appended is the last.
LEMMA LastAppended ==
    ASSUME NEW S, NEW s \in Seq(S), NEW e \in S
    PROVE  Append(s, e)[Len(s) + 1] = e
  BY SMT

\* Queueing a response keeps the queued ones spread in their order.
LEMMA PushSpreads ==
    ASSUME NEW S, NEW al \in Seq(S), NEW got \in Seq(S), NEW out \in Seq(S), NEW q \in Seq(S),
           NEW r \in S, 
           Len(out) \in {0, 1},
           Spread(al, got, out, q)
    PROVE  Spread(Append(al, r), got, out, Append(q, r))
<1> USE DEF Spread
<1>1. Len(Append(al, r)) = Len(got) + Len(out) + Len(Append(q, r))
  BY SMT
<1>2. ASSUME out # <<>> PROVE out[1] = Append(al, r)[Len(got) + 1]
  <2>1. Len(got) + 1 \in 1 .. Len(al)
    BY <1>2, SMT
  <2> QED BY <2>1, <1>2, SMT
<1>4. ASSUME NEW i \in 1 .. Len(Append(q, r)) PROVE Append(q, r)[i] = Append(al, r)[Len(got) + Len(out) + i]
  <2>1. CASE i \in 1 .. Len(q)
    <3>1. Len(got) + Len(out) + i \in 1 .. Len(al)
      BY <2>1, SMT
    <3> QED BY <2>1, <3>1, SMT
  <2>2. CASE i = Len(q) + 1
    <3>1. Len(got) + Len(out) + i = Len(al) + 1
      BY <2>2, SMT
    <3>2. Append(q, r)[Len(q) + 1] = r /\ Append(al, r)[Len(al) + 1] = r
      BY LastAppended
    <3> QED BY <2>2, <3>1, <3>2
  <2>3. Len(Append(q, r)) = Len(q) + 1
    BY SMT
  <2>4. i \in 1 .. Len(q) \/ i = Len(q) + 1
    BY <2>3, SMT
  <2> QED BY <2>1, <2>2, <2>4
<1> QED BY <1>1, <1>2, <1>4

\* A task queues a response.
LEMMA PushWritten ==
    ASSUME NEW k \in HandlerType, NEW n \in HandlerType, NEW got \in Seq(ResponseType),
           NEW q \in Seq(ResponseType), NEW r \in ResponseType, Written(k, got, q),
           k.open, Len(q) < MaxQueued,
           n.queued = Append(k.queued, r), n.failed = k.failed, n.open = k.open,
           n.how = k.how, n.pc = k.pc, n.out = k.out
    PROVE  Written(n, got, Append(q, r))
<1>1. k.queued \in Seq(ResponseType) /\ k.out \in Seq(ResponseType) /\ Len(k.out) \in {0, 1}
  BY DEF HandlerType, Written
<1>2. ASSUME ~n.failed, n.pc # "closed" PROVE Spread(n.queued, got, n.out, Append(q, r))
  <2>1. Spread(k.queued, got, k.out, q)
    BY <1>2 DEF Written
  <2> QED BY <1>1, <2>1, PushSpreads
<1>3. /\ Len(n.queued) = Len(k.queued) + 1 /\ Len(k.queued) \in Nat
      /\ \A i \in 1 .. Len(k.queued) : n.queued[i] = k.queued[i]
  BY <1>1, AppendedElements, SMT
<1>4. Len(got) <= Len(k.queued) => Len(got) <= Len(n.queued) /\ 1 .. Len(got) \subseteq 1 .. Len(k.queued)
  BY <1>3, SMT
<1>5. ~n.failed => Len(got) <= Len(n.queued) /\ \A i \in 1 .. Len(got) : got[i] = n.queued[i]
  BY <1>3, <1>4 DEF Written
<1>6. Len(Append(q, r)) <= MaxQueued
  BY ServerAssumption, SMT
<1> QED BY <1>2, <1>5, <1>6 DEF Written

\* The client sends a segment.
LEMMA SentFramed ==
    ASSUME NEW read \in Seq(Nat \X Nat), NEW status, NEW header, NEW sent \in Nat,
           NEW ib \in Seq(Nat), Framed(read, status, header, sent, ib)
    PROVE  Framed(read, status, header, sent + 1, Append(ib, sent + 1))
<1> DEFINE p == Segments(read, status)
<1>1. p \in Nat /\ sent = p + Len(ib)
  BY SMT DEF Framed, Segments
<1>2. \A i \in 1 .. Len(ib) : ib[i] = p + i
  BY DEF Framed
<1> HIDE DEF p
<1>3. sent + 1 = p + Len(Append(ib, sent + 1))
  BY <1>1, SMT
<1>4. ASSUME NEW i \in 1 .. Len(Append(ib, sent + 1)) PROVE Append(ib, sent + 1)[i] = p + i
  <2>1. i \in 1 .. Len(ib) \/ i = Len(ib) + 1
    BY SMT
  <2>2. CASE i \in 1 .. Len(ib)
    BY <1>2, <2>2, SMT
  <2>3. CASE i = Len(ib) + 1
    <3>1. Append(ib, sent + 1)[i] = sent + 1
      BY <2>3, SMT
    <3> QED BY <1>1, <2>3, <3>1, SMT
  <2> QED BY <2>1, <2>2, <2>3
<1> QED BY <1>3, <1>4 DEF Framed, p

\* The handler reads a length.
LEMMA HeaderFramed ==
    ASSUME NEW read \in Seq(Nat \X Nat), NEW header, NEW sent \in Nat,
           NEW ib \in Seq(Nat), ib # <<>>, Framed(read, "header", header, sent, ib)
    PROVE  Framed(read, "body", Head(ib), sent, Tail(ib))
<1>1. /\ Segments(read, "header") = 2 * Len(read) /\ Segments(read, "body") = 2 * Len(read) + 1
      /\ Len(read) \in Nat
  BY SMT DEF Segments
<1>2. /\ Len(Tail(ib)) = Len(ib) - 1 /\ Len(ib) \in Nat /\ Len(ib) >= 1 /\ Head(ib) = ib[1]
      /\ \A i \in 1 .. Len(Tail(ib)) : Tail(ib)[i] = ib[i + 1] /\ i + 1 \in 1 .. Len(ib)
  BY SMT
<1>3. sent = 2 * Len(read) + 1 + Len(Tail(ib)) /\ Head(ib) = 2 * Len(read) + 1
  BY <1>1, <1>2, SMT DEF Framed
<1>4. \A i \in 1 .. Len(Tail(ib)) : Tail(ib)[i] = 2 * Len(read) + 1 + i
  BY <1>1, <1>2, SMT DEF Framed
<1> QED BY <1>1, <1>3, <1>4 DEF Framed

\* The handler reads the body that follows it.
LEMMA BodyFramed ==
    ASSUME NEW read \in Seq(Nat \X Nat), NEW header \in Nat, NEW sent \in Nat,
           NEW ib \in Seq(Nat), ib # <<>>, Framed(read, "body", header, sent, ib)
    PROVE  /\ Framed(Append(read, <<header, Head(ib)>>), "header", 0, sent, Tail(ib))
           /\ header = 2 * Len(read) + 1 /\ Head(ib) = 2 * Len(read) + 2 /\ Head(ib) <= sent
<1>1. Segments(read, "body") = 2 * Len(read) + 1 /\ Len(read) \in Nat
  BY SMT DEF Segments
<1>2. /\ Len(Tail(ib)) = Len(ib) - 1 /\ Len(ib) \in Nat /\ Len(ib) >= 1 /\ Head(ib) = ib[1]
      /\ \A i \in 1 .. Len(Tail(ib)) : Tail(ib)[i] = ib[i + 1] /\ i + 1 \in 1 .. Len(ib)
  BY SMT
<1>3. /\ sent = 2 * Len(read) + 2 + Len(Tail(ib)) /\ header = 2 * Len(read) + 1
      /\ Head(ib) = 2 * Len(read) + 2
  BY <1>1, <1>2, SMT DEF Framed
<1>4. \A i \in 1 .. Len(Tail(ib)) : Tail(ib)[i] = 2 * Len(read) + 2 + i
  BY <1>1, <1>2, SMT DEF Framed
<1> DEFINE e == <<header, Head(ib)>>
<1>5. e \in Nat \X Nat /\ e = <<2 * (Len(read) + 1) - 1, 2 * (Len(read) + 1)>>
  BY <1>1, <1>2, <1>3, SMT
<1> HIDE DEF e
<1>6. Len(Append(read, e)) = Len(read) + 1
  BY <1>5, SMT
<1>7. Segments(Append(read, e), "header") = 2 * Len(read) + 2
  BY <1>1, <1>6, SMT DEF Segments
<1>8. \A j \in 1 .. Len(Append(read, e)) : Append(read, e)[j] = <<2 * j - 1, 2 * j>>
  <2>1. \A j \in 1 .. Len(read) : read[j] = <<2 * j - 1, 2 * j>>
    BY SMTT(20) DEF Framed
  <2>2. \A j \in 1 .. Len(read) : Append(read, e)[j] = read[j]
    BY <1>5, SMT
  <2>3. Append(read, e)[Len(read) + 1] = e
    BY <1>5, SMT
  <2>4. ASSUME NEW j \in 1 .. Len(Append(read, e)) PROVE j \in 1 .. Len(read) \/ j = Len(read) + 1
    BY <1>1, <1>6, SMT
  <2> QED BY <1>5, <2>1, <2>2, <2>3, <2>4
<1>9. Framed(Append(read, e), "header", 0, sent, Tail(ib))
  BY <1>3, <1>4, <1>7, <1>8 DEF Framed
<1> QED BY <1>1, <1>2, <1>3, <1>9, SMT DEF e

\* Whether an item is in a transaction depends on its feedback and on the items before it.
LEMMA WithinNext ==
    ASSUME NEW plan, NEW j \in Nat
    PROVE  Within(plan, j + 1) => \/ plan[j + 1].fb = "begin"
                                  \/ Within(plan, j) /\ plan[j + 1].fb # "end"
<1> SUFFICES ASSUME NEW b \in 1 .. j + 1, InTransaction(plan, b, j + 1)
             PROVE  \/ plan[j + 1].fb = "begin"
                    \/ Within(plan, j) /\ plan[j + 1].fb # "end"
  BY DEF Within
<1>1. CASE b = j + 1
  BY <1>1 DEF InTransaction
<1>2. CASE b \in 1 .. j
  <2>1. j + 1 \in b + 1 .. j + 1 /\ b + 1 .. j \subseteq b + 1 .. j + 1
    BY <1>2, SMT
  <2> QED BY <1>2, <2>1 DEF InTransaction, Within
<1> QED BY <1>1, <1>2, SMT

\* A task begins with its service's stream untouched.
LEMMA NewProgress ==
    ASSUME NEW plan \in Seq(Results), NEW msg, NEW queued, NEW open
    PROVE  Progress(msg, plan, plan, "next", FALSE, queued, open)
<1>1. Len(plan) \in Nat /\ Len(plan) - Len(plan) = 0
  BY SMT
<1>2. ~Within(plan, 0)
  BY SMT DEF Within
<1> QED BY <1>1, <1>2, SMT DEF Progress

\* The other tasks of a connection may queue responses, and the queue may close.
LEMMA GrowProgress ==
    ASSUME NEW msg, NEW plan, NEW script, NEW pc, NEW intx, NEW queued, NEW open, NEW more, NEW still,
           Progress(msg, plan, script, pc, intx, queued, open),
           \A r : InQueued(queued, r) => InQueued(more, r), still => open
    PROVE  Progress(msg, plan, script, pc, intx, more, still)
  BY DEF Progress

\* A response that was queued is among the queued ones, and so are the earlier ones.
LEMMA PushQueued ==
    ASSUME NEW queued \in Seq(ResponseType), NEW r \in ResponseType
    PROVE  /\ InQueued(Append(queued, r), r)
           /\ \A x : InQueued(queued, x) => InQueued(Append(queued, r), x)
<1>1. /\ Len(Append(queued, r)) = Len(queued) + 1 /\ Len(queued) \in Nat
      /\ \A i \in 1 .. Len(queued) : Append(queued, r)[i] = queued[i]
  BY SMT
<1>2. Append(queued, r)[Len(queued) + 1] = r
  BY SMT
<1>3. Len(queued) + 1 \in 1 .. Len(Append(queued, r))
      /\ 1 .. Len(queued) \subseteq 1 .. Len(Append(queued, r))
  BY <1>1, SMT
<1> QED BY <1>1, <1>2, <1>3 DEF InQueued

\* The item a task is about to take is the next of its service's stream.
LEMMA HeadOfPlan ==
    ASSUME NEW msg, NEW plan \in Seq(Results), NEW script \in Seq(Results), NEW pc, NEW intx,
           NEW queued, NEW open, Progress(msg, plan, script, pc, intx, queued, open),
           script # <<>>
    PROVE  /\ Len(plan) - Len(script) \in Nat
           /\ Head(script) = plan[(Len(plan) - Len(script)) + 1]
           /\ Tail(script) \in Seq(Results)
           /\ Len(plan) - Len(Tail(script)) = (Len(plan) - Len(script)) + 1
           /\ Len(Tail(script)) <= Len(plan)
           /\ \A i \in 1 .. Len(Tail(script)) :
                 Tail(script)[i] = plan[((Len(plan) - Len(script)) + 1) + i]
<1>1. /\ Tail(script) \in Seq(Results) /\ Len(Tail(script)) = Len(script) - 1
      /\ Len(script) \in Nat /\ Len(script) >= 1 /\ Len(plan) \in Nat /\ Head(script) = script[1]
      /\ \A i \in 1 .. Len(Tail(script)) : Tail(script)[i] = script[i + 1] /\ i + 1 \in 1 .. Len(script)
  BY SMT
<1>2. Len(script) <= Len(plan) /\ \A i \in 1 .. Len(script) : script[i] = plan[(Len(plan) - Len(script)) + i]
  BY DEF Progress
<1>3. Len(plan) - Len(script) \in Nat /\ Len(plan) - Len(Tail(script)) = (Len(plan) - Len(script)) + 1
  BY <1>1, <1>2, SMT
<1>4. ASSUME NEW i \in 1 .. Len(Tail(script))
      PROVE  Tail(script)[i] = plan[((Len(plan) - Len(script)) + 1) + i]
  <2>1. (Len(plan) - Len(script)) + (i + 1) = ((Len(plan) - Len(script)) + 1) + i
    BY <1>1, <1>3, SMT
  <2> QED BY <1>1, <1>2, <2>1
<1> QED BY <1>1, <1>2, <1>3, <1>4, SMT

\* The task is about to take an item.
Taking(pc) == pc \in {"next", "store"}

\* The feedback of an item begins a transaction, ends it or leaves it as it is.
Obeys(fb, intx, x) == (fb = "begin" => x) /\ (fb \notin {"begin", "end"} /\ intx => x)

\* Its feedback obeyed, the item is queued or, without a response, behind the task.
LEMMA FeedbackProgress ==
    ASSUME NEW msg, NEW plan \in Seq(Results), NEW script \in Seq(Results),
           NEW pc, Taking(pc), NEW intx, NEW queued, NEW open, NEW x,
           Progress(msg, plan, script, pc, intx, queued, open), script # <<>>,
           Obeys(Head(script).fb, intx, x)
    PROVE  /\ Progress(msg, plan, script, "push", x, queued, open)
           /\ ~Head(script).resp => Progress(msg, plan, Tail(script), "next", x, queued, open)
<1> DEFINE n == Len(plan) - Len(script)
<1>1. /\ n \in Nat /\ Head(script) = plan[n + 1]
      /\ Len(plan) - Len(Tail(script)) = n + 1 /\ Len(Tail(script)) <= Len(plan)
      /\ \A i \in 1 .. Len(Tail(script)) : Tail(script)[i] = plan[(n + 1) + i]
  BY HeadOfPlan, Zenon
<1>2. /\ Len(script) <= Len(plan) /\ \A i \in 1 .. Len(script) : script[i] = plan[n + i]
      /\ \A j \in 1 .. n : plan[j].resp => InQueued(queued, <<msg, j>>)
      /\ Within(plan, n) => intx
  BY DEF Progress, Taking
<1> HIDE DEF n
<1>3. Within(plan, n + 1) => x
  BY <1>1, <1>2, WithinNext, SMT DEF Obeys
<1>4. Progress(msg, plan, script, "push", x, queued, open)
  BY <1>2, <1>3 DEF Progress, n
<1>5. ASSUME ~Head(script).resp
      PROVE  Progress(msg, plan, Tail(script), "next", x, queued, open)
  <2>1. \A j \in 1 .. n + 1 : j \in 1 .. n \/ j = n + 1
    BY <1>1, SMT
  <2>2. \A j \in 1 .. n + 1 : plan[j].resp => InQueued(queued, <<msg, j>>)
    BY <1>1, <1>2, <1>5, <2>1
  <2> QED BY <1>1, <1>3, <2>2 DEF Progress
<1> QED BY <1>4, <1>5

\* A stream that has ended leaves nothing to be queued.
LEMMA EndProgress ==
    ASSUME NEW msg, NEW plan \in Seq(Results), NEW intx, NEW queued, NEW open, NEW pc,
           Progress(msg, plan, <<>>, pc, intx, queued, open)
    PROVE  Progress(msg, plan, <<>>, "done", intx, queued, open)
  BY DEF Progress

\* Storing an idle timeout queues nothing.
LEMMA StoreProgress ==
    ASSUME NEW msg, NEW plan \in Seq(Results), NEW script \in Seq(Results), NEW intx, NEW queued,
           NEW open, Progress(msg, plan, script, "next", intx, queued, open),
           script # <<>>, Head(script).fb = "idle"
    PROVE  Progress(msg, plan, script, "store", intx, queued, open)
<1>1. Head(script) = script[1]
  BY SMT
<1> QED BY <1>1 DEF Progress

\* The queue is closed, or full outside a transaction: the task gives up.
LEMMA GiveUpProgress ==
    ASSUME NEW msg, NEW plan, NEW script, NEW intx, NEW queued, NEW open,
           Progress(msg, plan, script, "push", intx, queued, open), ~open \/ ~intx
    PROVE  Progress(msg, plan, script, "done", intx, queued, open)
  BY DEF Progress

\* The response is queued.
LEMMA PushProgress ==
    ASSUME NEW msg \in Nat, NEW plan \in Seq(Results), NEW script \in Seq(Results), NEW intx,
           NEW queued \in Seq(ResponseType), NEW open, NEW r,
           r = <<msg, (Len(plan) - Len(script)) + 1>>,
           Progress(msg, plan, script, "push", intx, queued, open)
    PROVE  Progress(msg, plan, Tail(script), "count", intx, Append(queued, r), open)
<1> DEFINE n == Len(plan) - Len(script)
<1>0. script # <<>>
  BY DEF Progress
<1>1. /\ n \in Nat /\ Head(script) = plan[n + 1]
      /\ Len(plan) - Len(Tail(script)) = n + 1 /\ Len(Tail(script)) <= Len(plan)
      /\ \A i \in 1 .. Len(Tail(script)) : Tail(script)[i] = plan[(n + 1) + i]
  BY <1>0, HeadOfPlan, Zenon
<1>2. /\ \A j \in 1 .. n : plan[j].resp => InQueued(queued, <<msg, j>>)
      /\ Within(plan, n + 1) => intx
  BY DEF Progress
<1>r. r = <<msg, n + 1>>
  OBVIOUS
<1> HIDE DEF n
<1>3. r \in ResponseType
  BY <1>1, <1>r, SMT DEF ResponseType
<1>4. InQueued(Append(queued, r), r) /\ \A x : InQueued(queued, x) => InQueued(Append(queued, r), x)
  BY <1>3, PushQueued
<1>5. \A j \in 1 .. n + 1 : j \in 1 .. n \/ j = n + 1
  BY <1>1, SMT
<1>6. \A j \in 1 .. n + 1 : plan[j].resp => InQueued(Append(queued, r), <<msg, j>>)
  BY <1>2, <1>4, <1>5, <1>r
<1> QED BY <1>1, <1>2, <1>6 DEF Progress

\* Counting what is queued.
LEMMA CountProgress ==
    ASSUME NEW msg, NEW plan, NEW script, NEW pc \in {"count", "set"}, NEW then \in {"set", "next"},
           NEW intx, NEW queued, NEW open, Progress(msg, plan, script, pc, intx, queued, open)
    PROVE  Progress(msg, plan, script, then, intx, queued, open)
  BY DEF Progress

\* What the invariant says of a task that is done.
LEMMA WholeTransaction ==
    ASSUME NEW msg, NEW plan \in Seq(Results), NEW script \in Seq(Results), NEW intx,
           NEW queued \in Seq(ResponseType), NEW open,
           Progress(msg, plan, script, "done", intx, queued, open), open,
           NEW j \in 1 .. Len(plan), NEW b \in 1 .. (Len(plan) - Len(script)) + 1,
           b <= j, InTransaction(plan, b, j), plan[j].resp
    PROVE  InQueued(queued, <<msg, j>>)
<1> DEFINE n == Len(plan) - Len(script)
<1>1. /\ Len(script) <= Len(plan) /\ Len(plan) \in Nat /\ Len(script) \in Nat /\ n \in Nat
      /\ script = <<>> => n = Len(plan)
  <2>1. Len(script) <= Len(plan) /\ Len(plan) \in Nat /\ Len(script) \in Nat
    BY SMT DEF Progress
  <2>2. script = <<>> => Len(script) = 0
    BY SMT
  <2> QED BY <2>1, <2>2, SMT
<1>2. CASE j <= n
  BY <1>1, <1>2, SMT DEF Progress
<1>3. CASE j > n
  <2>1. script # <<>>
    BY <1>1, <1>3, SMT
  <2>2. b \in 1 .. n + 1 /\ b + 1 .. n + 1 \subseteq b + 1 .. j
    BY <1>1, <1>3, SMT
  <2>3. Within(plan, n + 1)
    BY <2>2 DEF Within, InTransaction
  <2> QED BY <2>1, <2>3 DEF Progress
<1> QED BY <1>1, <1>2, <1>3, SMT

\* Reading does not touch the responses.
LEMMA ReadWritten ==
    ASSUME NEW k, NEW n, NEW got, NEW q, Written(k, got, q), k.pc = "read",
           n.pc \in {"read", "command", "closing"}, n.how # "flush",
           n.queued = k.queued, n.failed = k.failed, n.open = k.open, n.out = k.out
    PROVE  Written(n, got, q)
  BY DEF Written

\* A task that has not polled its stream yet has nothing to be queued.
LEMMA NewTaskType ==
    ASSUME NEW m \in Nat, NEW s \in Seq(Results), NEW k
    PROVE  NewTask(m, s) \in TaskType /\ TaskOK(NewTask(m, s), k)
<1>1. 0 \in 0 .. MaxQueued
  BY ServerAssumption, SMT
<1>2. NewTask(m, s) \in TaskType
  BY <1>1 DEF NewTask, TaskType
<1>3. TaskOK(NewTask(m, s), k)
  BY NewProgress DEF NewTask, TaskOK
<1> QED BY <1>2, <1>3

\* Two segments a message.
LEMMA HalfOf ==
    ASSUME NEW l \in Nat
    PROVE  (2 * l + 2) \div 2 = l + 1
  BY SMT

\* The next result of the stream.
LEMMA ScriptHead ==
    ASSUME NEW script \in Seq(Results), script # <<>>
    PROVE  /\ Head(script) \in Results /\ Tail(script) \in Seq(Results)
           /\ Head(script).resp \in BOOLEAN /\ Head(script).idle \in Nat
<1>1. Head(script) \in Results /\ Tail(script) \in Seq(Results)
  BY SMT
<1> QED BY <1>1 DEF Results

\* Where the feedback of an item leaves the task.
LEMMA FeedbackTask ==
    ASSUME NEW t \in TaskType, NEW u \in TaskType, NEW k, t.pc \in {"next", "store"}, TaskOK(t, k),
           t.script # <<>>, u.msg = t.msg, u.plan = t.plan, u.script = t.script,
           Obeys(Head(t.script).fb, t.intx, u.intx)
    PROVE  AfterFeedback(u) \in TaskType /\ TaskOK(AfterFeedback(u), k)
<1> DEFINE a == [u EXCEPT !.pc = "push"]
           b == [u EXCEPT !.script = Tail(u.script), !.pc = "next"]
<1>1. t.script \in Seq(Results) /\ t.plan \in Seq(Results) /\ u.script # <<>> /\ u.script \in Seq(Results)
  BY DEF TaskType
<1>2. Tail(u.script) \in Seq(Results) /\ Head(u.script).resp \in BOOLEAN
  BY <1>1, ScriptHead
<1>3. a \in TaskType /\ b \in TaskType
  BY <1>2 DEF TaskType
<1>4. /\ a.msg = u.msg /\ a.plan = u.plan /\ a.script = u.script /\ a.pc = "push" /\ a.intx = u.intx
      /\ b.msg = u.msg /\ b.plan = u.plan /\ b.script = Tail(u.script) /\ b.pc = "next"
      /\ b.intx = u.intx
  BY DEF TaskType
<1>5. /\ Progress(t.msg, t.plan, t.script, "push", u.intx, k.queued, k.open)
      /\ ~Head(t.script).resp => Progress(t.msg, t.plan, Tail(t.script), "next", u.intx, k.queued, k.open)
  <2>1. Progress(t.msg, t.plan, t.script, t.pc, t.intx, k.queued, k.open)
    BY DEF TaskOK
  <2> HIDE DEF a, b
  <2>3. Taking(t.pc) /\ t.script # <<>> /\ Obeys(Head(t.script).fb, t.intx, u.intx)
    BY DEF Taking
  <2> QED BY ONLY <1>1, <2>1, <2>3, FeedbackProgress, Zenon
<1>6. AfterFeedback(u) = IF Head(u.script).resp THEN a ELSE b
  BY DEF AfterFeedback
<1> HIDE DEF a, b
<1> QED BY <1>3, <1>4, <1>5, <1>6 DEF TaskOK

\* A prefix of a sequence.
LEMMA PrefixEqual ==
    ASSUME NEW S, NEW all \in Seq(S), NEW got \in Seq(S), Len(got) <= Len(all),
           \A i \in 1 .. Len(got) : got[i] = all[i]
    PROVE  /\ got = SubSeq(all, 1, Len(got))
           /\ Len(got) = Len(all) => got = all
<1>1. /\ SubSeq(all, 1, Len(got)) \in Seq(S) /\ Len(SubSeq(all, 1, Len(got))) = Len(got)
      /\ \A i \in 1 .. Len(got) : SubSeq(all, 1, Len(got))[i] = all[i]
  BY SMT
<1>2. got = SubSeq(all, 1, Len(got))
  BY <1>1, SeqEqual
<1>3. Len(got) = Len(all) => got = all
  BY SeqEqual
<1> QED BY <1>2, <1>3
-----------------------------------------------------------------------------
Types ==
    /\ command \in CommandType
    /\ command.kind = "init" => command.ver = 0
    /\ listener \in ListenerType
    /\ conn \in [Conn -> HandlerType]
    /\ \A c \in Conn : conn[c].seen <= command.ver
    /\ client \in [Conn -> ClientType]
    /\ \A c \in Conn : client[c].sent <= 2 * Len(Sends[c])
    /\ inbox \in [Conn -> Seq(Nat)]
    /\ queue \in [Conn -> Seq(ResponseType)]
    /\ tasks \in [Conn -> Seq(TaskType)]
    /\ metrics \in [connections : 0 .. UsizeMod - 1, pending : 0 .. UsizeMod - 1]

IInv ==
    /\ Types
    /\ ConnectionsCounted
    /\ \A c \in Conn :
         /\ Framed(conn[c].read, conn[c].status, conn[c].header, client[c].sent, inbox[c])
         /\ Written(conn[c], client[c].got, queue[c])
         /\ \A i \in 1 .. Len(tasks[c]) : TaskOK(tasks[c][i], conn[c])

\* A handler moves on: nothing is read, queued or written, and it runs as before.
MovesTo(k, n) ==
    /\ n \in HandlerType /\ Same(k, n) /\ n.seen <= command.ver
    /\ k.pc \notin {"write", "flush", "closing", "closed"} /\ n.pc # "write"
    /\ n.how = "flush" <=> n.pc = "flush"
    /\ n.pc = "flush" => ~n.open
    /\ Active(n) <=> Active(k)

\* The handler of one connection moves on and everything else stays.
LEMMA HandlerMoves ==
    ASSUME IInv, NEW c \in Conn, NEW n,
           conn' = [conn EXCEPT ![c] = n], MovesTo(conn[c], n),
           listener' \in ListenerType,
           UNCHANGED <<command, client, inbox, queue, tasks, metrics>>
    PROVE  IInv'
<1> USE DEF MovesTo
<1>1. /\ conn' \in [Conn -> HandlerType] /\ conn'[c] = n
      /\ \A d \in Conn \ {c} : conn'[d] = conn[d]
  BY DEF IInv, Types
<1>2. Types'
  BY <1>1 DEF IInv, Types
<1>3. ConnectionsCounted'
  <2>1. \A d \in Conn : Running(d)' <=> Running(d)
    BY <1>1 DEF Running, Active
  <2>2. {d \in Conn : Running(d)}' = {d \in Conn : Running(d)}
    BY <2>1
  <2> QED BY <2>2 DEF ConnectionsCounted, IInv
<1>4. Framed(n.read, n.status, n.header, client[c].sent, inbox[c])
  BY DEF IInv, Same
<1>5. Written(n, client[c].got, queue[c])
  BY SameWritten DEF IInv, Types
<1>6. \A i \in 1 .. Len(tasks[c]) : TaskOK(tasks[c][i], n)
  BY SameTask DEF IInv
<1> QED
  BY <1>1, <1>2, <1>3, <1>4, <1>5, <1>6 DEF IInv

\* Commands and the listener's own steps do not touch connections.
LEMMA GlobalStep ==
    ASSUME IInv,
           \/ \E t \in Timeouts : Reconfigure(t)
           \/ Shutdown
           \/ ListenerCommand
           \/ AcceptPending
    PROVE  IInv'
<1>1. /\ command' \in CommandType
      /\ command'.kind = "init" => command'.ver = 0
      /\ command'.ver >= command.ver
      /\ listener' \in ListenerType
      /\ UNCHANGED <<conn, client, inbox, queue, tasks, metrics>>
  <2>0. /\ command \in CommandType /\ listener \in ListenerType
        /\ command.kind = "init" => command.ver = 0
    BY DEF IInv, Types
  <2>1. ASSUME NEW t \in Timeouts, Reconfigure(t) PROVE <1>1!:
    BY <2>0, <2>1, ServerAssumption, SMT DEF Reconfigure, Config, ConfigType, CommandType
  <2>2. CASE Shutdown
    <3>1. command.ver + 1 \in Nat
      BY <2>0, SMT DEF CommandType
    <3>2. command' = [command EXCEPT !.ver = command.ver + 1, !.kind = "shutdown"]
      BY <2>2 DEF Shutdown
    <3>3. /\ command' \in CommandType
          /\ command'.kind = "shutdown" /\ command'.ver = command.ver + 1
      BY <2>0, <3>1, <3>2 DEF CommandType
    <3> QED BY <2>0, <2>2, <3>1, <3>3, SMT DEF Shutdown, CommandType
  <2>3. CASE ListenerCommand
    <3>1. command.ver \in Nat /\ command.config \in ConfigType
      BY <2>0 DEF CommandType
    <3>2. /\ [listener EXCEPT !.pc = "accept"] \in ListenerType
          /\ [listener EXCEPT !.pc = "stopped"] \in ListenerType
          /\ [listener EXCEPT !.seen = command.ver, !.config = command.config] \in ListenerType
      BY <2>0, <3>1 DEF ListenerType
    <3> QED BY <2>0, <2>3, <3>1, <3>2, SMT DEF ListenerCommand
  <2>4. CASE AcceptPending
    <3>1. [listener EXCEPT !.pc = "command"] \in ListenerType
      BY <2>0 DEF ListenerType
    <3> QED BY <2>0, <2>4, <3>1, SMT DEF AcceptPending, CommandType
  <2> QED BY <2>1, <2>2, <2>3, <2>4
<1>2. Types'
  BY <1>1, SMTT(30) DEF IInv, Types, HandlerType, CommandType
<1>3. {c \in Conn : Running(c)}' = {c \in Conn : Running(c)}
  BY <1>1 DEF Running
<1>4. ConnectionsCounted'
  BY <1>1, <1>3 DEF IInv, ConnectionsCounted
<1> QED BY <1>1, <1>2, <1>4 DEF IInv

\* The steps of a handler that neither read nor write.
LEMMA ControlStep ==
    ASSUME IInv, NEW c \in Conn,
           \/ Connect(c) \/ Accept(c) \/ PollCommand(c) \/ PollIdle(c) \/ Tick(c)
           \/ ReadEof(c) \/ ReadPending(c)
    PROVE  IInv'
<1> DEFINE k == conn[c]
<1>0. /\ k \in HandlerType /\ k.seen <= command.ver /\ command \in CommandType
      /\ command.kind = "init" => command.ver = 0
      /\ listener \in ListenerType
      /\ k.how = "flush" => k.pc \in {"flush", "write", "closing", "closed"} /\ ~k.open
  BY DEF IInv, Types, Written
<1> SUFFICES \E n : conn' = [conn EXCEPT ![c] = n] /\ MovesTo(k, n)
  <2>1. listener' \in ListenerType
    <3>1. [listener EXCEPT !.pc = "command"] \in ListenerType
      BY <1>0 DEF ListenerType
    <3> QED BY <1>0, <3>1 DEF Connect, Accept, PollCommand, PollIdle, Tick, ReadEof, ReadPending
  <2>2. UNCHANGED <<command, client, inbox, queue, tasks, metrics>>
    BY DEF Connect, Accept, PollCommand, PollIdle, Tick, ReadEof, ReadPending
  <2> QED BY <2>1, <2>2, HandlerMoves
<1>1. CASE Connect(c)
  <2> DEFINE n == [k EXCEPT !.pc = "backlog"]
  <2>1. MovesTo(k, n)
    BY <1>0, <1>1, PcMoves, ZenonT(30) DEF Pcs, MovesTo, Active, Connect
  <2> QED BY <1>1, <2>1 DEF Connect
<1>2. CASE Accept(c)
  <2>1. CASE at_connection_limit
    <3> DEFINE n == [k EXCEPT !.pc = "closed", !.how = "refused"]
    <3>1. n \in HandlerType
      BY <1>0 DEF HandlerType, Pcs, Hows
    <3>2. /\ n.status = k.status /\ n.header = k.header /\ n.out = k.out /\ n.read = k.read
          /\ n.queued = k.queued /\ n.failed = k.failed /\ n.open = k.open
          /\ n.seen = k.seen /\ n.pc = "closed" /\ n.how = "refused"
      BY <1>0 DEF HandlerType
    <3>3. conn' = [conn EXCEPT ![c] = n] /\ k.pc = "backlog"
      BY <1>2, <2>1 DEF Accept
    <3> QED BY <1>0, <3>1, <3>2, <3>3 DEF MovesTo, Same, Active
  <2>2. CASE ~at_connection_limit
    <3> DEFINE n == [k EXCEPT !.pc = "spawned", !.config = listener.config]
    <3>0. listener.config \in ConfigType
      BY <1>0 DEF ListenerType
    <3>1. n \in HandlerType
      BY <1>0, <3>0 DEF HandlerType, Pcs
    <3>2. /\ n.status = k.status /\ n.header = k.header /\ n.out = k.out /\ n.read = k.read
          /\ n.queued = k.queued /\ n.failed = k.failed /\ n.open = k.open
          /\ n.seen = k.seen /\ n.pc = "spawned" /\ n.how = k.how
      BY <1>0 DEF HandlerType
    <3>3. conn' = [conn EXCEPT ![c] = n] /\ k.pc = "backlog"
      BY <1>2, <2>2 DEF Accept, Spawn
    <3> QED BY <1>0, <3>1, <3>2, <3>3 DEF MovesTo, Same, Active
  <2> QED BY <2>1, <2>2
<1>3. CASE PollCommand(c)
  <2>1. CASE ~Changed(k.seen)
    <3>1. MovesTo(k, [k EXCEPT !.pc = "queue"])
      BY <1>0, <1>3, PcMoves DEF Pcs, MovesTo, Active, PollCommand
    <3> QED BY <1>3, <2>1, <3>1 DEF PollCommand
  <2>2. CASE Changed(k.seen) /\ command.kind = "reconfigure"
    <3> DEFINE m == [k EXCEPT !.seen = command.ver, !.config = command.config]
    <3>0. command.ver \in Nat /\ command.config \in ConfigType
      BY <1>0 DEF CommandType
    <3>1. m \in HandlerType
      BY <1>0, <3>0 DEF HandlerType
    <3>2. /\ m.status = k.status /\ m.header = k.header /\ m.out = k.out /\ m.read = k.read
          /\ m.queued = k.queued /\ m.failed = k.failed /\ m.open = k.open
          /\ m.seen = command.ver /\ m.pc = k.pc /\ m.how = k.how
      BY <1>0 DEF HandlerType
    <3>3. conn' = [conn EXCEPT ![c] = Select(m)] /\ k.pc = "command"
      BY <1>3, <2>2 DEF PollCommand, process_server_command
    <3> HIDE DEF m
    <3>4. MovesTo(k, Select(m))
      BY <1>0, <3>0, <3>1, <3>2, <3>3, SelectMoves, SMTT(30) DEF MovesTo, Same, Active
    <3> QED BY <3>3, <3>4
  <2>3. CASE Changed(k.seen) /\ command.kind = "shutdown"
    <3> DEFINE m == [k EXCEPT !.seen = command.ver]
    <3>0. command.ver \in Nat
      BY <1>0 DEF CommandType
    <3>1. m \in HandlerType
      BY <1>0, <3>0 DEF HandlerType
    <3>2. /\ m.status = k.status /\ m.header = k.header /\ m.out = k.out /\ m.read = k.read
          /\ m.queued = k.queued /\ m.failed = k.failed /\ m.open = k.open
          /\ m.seen = command.ver /\ m.pc = k.pc /\ m.how = k.how
      BY <1>0 DEF HandlerType
    <3>3. conn' = [conn EXCEPT ![c] = StartFlush(m)] /\ k.pc = "command"
      BY <1>3, <2>3 DEF PollCommand, process_server_command
    <3> HIDE DEF m
    <3>4. MovesTo(k, StartFlush(m))
      BY <1>0, <3>0, <3>1, <3>2, <3>3, StartFlushMoves, SMTT(30) DEF MovesTo, Same, Active
    <3> QED BY <3>3, <3>4
  <2>4. Changed(k.seen) => command.kind # "init"
    BY <1>0, SMT DEF Changed, CommandType, HandlerType
  <2> QED BY <1>0, <2>1, <2>2, <2>3, <2>4 DEF CommandType
<1>4. CASE PollIdle(c)
  <2>1. CASE ~(k.age >= k.sleep)
    <3>1. MovesTo(k, [k EXCEPT !.pc = "read"])
      BY <1>0, <1>4, PcMoves DEF Pcs, MovesTo, Active, PollIdle
    <3> QED BY <1>4, <2>1, <3>1 DEF PollIdle
  <2>2. CASE k.age >= k.sleep
    <3>1. conn' = [conn EXCEPT ![c] = process_dns_idle_timeout(k)] /\ k.pc = "idle"
      BY <1>4, <2>2 DEF PollIdle
    <3>2. MovesTo(k, Select(k))
      BY <1>0, <3>1, SelectMoves DEF MovesTo, Active
    <3>3. MovesTo(k, Disconnect(k, "idle"))
      BY <1>0, <3>1, DisconnectMoves DEF MovesTo, Active, Hows
    <3>4. process_dns_idle_timeout(k) \in {Select(k), Disconnect(k, "idle")}
      BY DEF process_dns_idle_timeout
    <3> QED BY <3>1, <3>2, <3>3, <3>4
  <2> QED BY <2>1, <2>2
<1>5. CASE Tick(c)
  <2> DEFINE n == [k EXCEPT !.age = k.age + 1]
  <2>0. k.age + 1 \in 0 .. MaxIdle
    BY <1>0, <1>5, MaxIdleType, SMTT(30) DEF Tick, HandlerType
  <2>1. /\ n \in HandlerType
        /\ n.status = k.status /\ n.header = k.header /\ n.out = k.out /\ n.read = k.read
        /\ n.queued = k.queued /\ n.failed = k.failed /\ n.open = k.open
        /\ n.seen = k.seen /\ n.pc = k.pc /\ n.how = k.how
    BY <1>0, <2>0 DEF HandlerType
  <2>2. conn' = [conn EXCEPT ![c] = n] /\ k.pc = "idle"
    BY <1>5 DEF Tick
  <2> QED BY <1>0, <2>1, <2>2 DEF MovesTo, Same, Active
<1>6. CASE ReadEof(c)
  <2>1. MovesTo(k, Disconnect(k, "eof"))
    BY <1>0, <1>6, DisconnectMoves DEF MovesTo, Active, Hows, ReadEof
  <2> QED BY <1>6, <2>1 DEF ReadEof
<1>7. CASE ReadPending(c)
  <2>1. MovesTo(k, [k EXCEPT !.pc = "command"])
    BY <1>0, <1>7, PcMoves DEF Pcs, MovesTo, Active, ReadPending
  <2> QED BY <1>7, <2>1 DEF ReadPending, Pending
<1> QED BY <1>1, <1>2, <1>3, <1>4, <1>5, <1>6, <1>7

\* What the invariant says of one connection, and what becomes of it in a step that
\* leaves the other connections alone.
Good(c, k, cl, ib, q, ts) ==
    /\ k \in HandlerType /\ cl \in ClientType /\ ib \in Seq(Nat) /\ q \in Seq(ResponseType)
    /\ ts \in Seq(TaskType)
    /\ k.seen <= command.ver /\ cl.sent <= 2 * Len(Sends[c])
    /\ Framed(k.read, k.status, k.header, cl.sent, ib)
    /\ Written(k, cl.got, q)
    /\ \A i \in 1 .. Len(ts) : TaskOK(ts[i], k)

Becomes(c, k, cl, ib, q, ts) ==
    /\ conn' = [conn EXCEPT ![c] = k] /\ client' = [client EXCEPT ![c] = cl]
    /\ inbox' = [inbox EXCEPT ![c] = ib] /\ queue' = [queue EXCEPT ![c] = q]
    /\ tasks' = [tasks EXCEPT ![c] = ts]

MetricsType == [connections : 0 .. UsizeMod - 1, pending : 0 .. UsizeMod - 1]

\* A step of one connection keeps the invariant if it does so for the connection.
LEMMA ConnectionStep ==
    ASSUME IInv, NEW c \in Conn, NEW k, NEW cl, NEW ib, NEW q, NEW ts,
           Good(c, k, cl, ib, q, ts), Becomes(c, k, cl, ib, q, ts),
           metrics' \in MetricsType, ConnectionsCounted', UNCHANGED <<command, listener>>
    PROVE  IInv'
<1>1. /\ conn' \in [Conn -> HandlerType] /\ conn'[c] = k
      /\ \A d \in Conn \ {c} : conn'[d] = conn[d]
  BY DEF IInv, Types, Good, Becomes
<1>2. /\ client' \in [Conn -> ClientType] /\ client'[c] = cl
      /\ \A d \in Conn \ {c} : client'[d] = client[d]
  BY DEF IInv, Types, Good, Becomes
<1>3. /\ inbox' \in [Conn -> Seq(Nat)] /\ inbox'[c] = ib
      /\ \A d \in Conn \ {c} : inbox'[d] = inbox[d]
  BY DEF IInv, Types, Good, Becomes
<1>4. /\ queue' \in [Conn -> Seq(ResponseType)] /\ queue'[c] = q
      /\ \A d \in Conn \ {c} : queue'[d] = queue[d]
  BY DEF IInv, Types, Good, Becomes
<1>5. /\ tasks' \in [Conn -> Seq(TaskType)] /\ tasks'[c] = ts
      /\ \A d \in Conn \ {c} : tasks'[d] = tasks[d]
  BY DEF IInv, Types, Good, Becomes
<1>6. Types'
  BY <1>1, <1>2, <1>3, <1>4, <1>5 DEF IInv, Types, Good, MetricsType
<1>7. ASSUME NEW d \in Conn
      PROVE  /\ Framed(conn[d].read, conn[d].status, conn[d].header, client[d].sent, inbox[d])'
             /\ Written(conn[d], client[d].got, queue[d])'
             /\ (\A i \in 1 .. Len(tasks[d]) : TaskOK(tasks[d][i], conn[d]))'
  <2>1. CASE d = c
    BY <1>1, <1>2, <1>3, <1>4, <1>5, <2>1 DEF Good
  <2>2. CASE d # c
    BY <1>1, <1>2, <1>3, <1>4, <1>5, <2>2 DEF IInv
  <2> QED BY <2>1, <2>2
<1> QED BY <1>6, <1>7 DEF IInv

\* A connection that a step does not touch.
LEMMA Unreplaced ==
    ASSUME IInv, NEW c \in Conn
    PROVE  /\ conn = [conn EXCEPT ![c] = conn[c]] /\ client = [client EXCEPT ![c] = client[c]]
           /\ inbox = [inbox EXCEPT ![c] = inbox[c]] /\ queue = [queue EXCEPT ![c] = queue[c]]
           /\ tasks = [tasks EXCEPT ![c] = tasks[c]]
  BY DEF IInv, Types

\* What the invariant says of one connection.
LEMMA OfConnection ==
    ASSUME IInv, NEW c \in Conn
    PROVE  /\ Good(c, conn[c], client[c], inbox[c], queue[c], tasks[c])
           /\ metrics \in MetricsType /\ Sends[c] \in Seq(Kinds)
  BY ServerAssumption DEF IInv, Types, Good, MetricsType

\* A step that neither starts nor ends a handler leaves the count as it is.
LEMMA SameCount ==
    ASSUME IInv, NEW c \in Conn, NEW n, conn' = [conn EXCEPT ![c] = n],
           Active(n) <=> Active(conn[c]), metrics'.connections = metrics.connections
    PROVE  ConnectionsCounted'
<1>1. conn'[c] = n /\ \A d \in Conn \ {c} : conn'[d] = conn[d]
  BY DEF IInv, Types
<1>2. \A d \in Conn : Running(d)' <=> Running(d)
  BY <1>1 DEF Running, Active
<1>3. {d \in Conn : Running(d)}' = {d \in Conn : Running(d)}
  BY <1>2
<1> QED BY <1>3 DEF ConnectionsCounted, IInv

\* Nor does a step that leaves all handlers alone change the count.
LEMMA UnchangedCount ==
    ASSUME IInv, UNCHANGED conn, metrics'.connections = metrics.connections
    PROVE  ConnectionsCounted'
<1>1. {d \in Conn : Running(d)}' = {d \in Conn : Running(d)}
  BY DEF Running
<1> QED BY <1>1 DEF ConnectionsCounted, IInv

\* The client sends a segment or closes.
LEMMA ClientStep ==
    ASSUME IInv, NEW c \in Conn, Send(c) \/ ClientClose(c)
    PROVE  IInv'
<1> DEFINE k == conn[c]
           cl == client[c]
<1>0. ConnectionsCounted' /\ metrics' \in MetricsType /\ UNCHANGED <<command, listener>>
  <2>1. UNCHANGED <<command, listener, conn, metrics>>
    BY DEF Send, ClientClose
  <2> QED BY <2>1, UnchangedCount, OfConnection
<1>1. CASE Send(c)
  <2> DEFINE m == [cl EXCEPT !.sent = cl.sent + 1]
             ib == Append(inbox[c], cl.sent + 1)
  <2>1. cl.sent + 1 \in Nat /\ cl.sent \in Nat
    BY OfConnection, SMT DEF Good, ClientType
  <2>2. cl.sent + 1 <= 2 * Len(Sends[c])
    BY <1>1, <2>1, OfConnection, SMT DEF Send
  <2>3. m \in ClientType /\ m.sent = cl.sent + 1 /\ m.got = cl.got
    BY <2>1, OfConnection DEF Good, ClientType
  <2>4. ib \in Seq(Nat)
    BY <2>1, OfConnection, SMT DEF Good
  <2>5. k.read \in Seq(Nat \X Nat)
    BY OfConnection DEF Good, HandlerType
  <2>6. Framed(k.read, k.status, k.header, m.sent, ib)
    BY <2>1, <2>3, <2>5, OfConnection, SentFramed, SMT DEF Good
  <2>7. Becomes(c, k, m, ib, queue[c], tasks[c])
    BY <1>1, Unreplaced DEF Send, Becomes
  <2> HIDE DEF m, ib
  <2>8. Good(c, k, m, ib, queue[c], tasks[c])
    BY <2>2, <2>3, <2>4, <2>6, OfConnection DEF Good
  <2> QED BY <1>0, <2>7, <2>8, ConnectionStep
<1>2. CASE ClientClose(c)
  <2> DEFINE m == [cl EXCEPT !.open = FALSE]
  <2>1. m \in ClientType /\ m.sent = cl.sent /\ m.got = cl.got
    BY OfConnection DEF Good, ClientType
  <2>2. Becomes(c, k, m, inbox[c], queue[c], tasks[c])
    BY <1>2, Unreplaced DEF ClientClose, Becomes
  <2> HIDE DEF m
  <2>3. Good(c, k, m, inbox[c], queue[c], tasks[c])
    BY <2>1, OfConnection DEF Good
  <2> QED BY <1>0, <2>2, <2>3, ConnectionStep
<1> QED BY <1>1, <1>2

\* A handler that starts is counted, one that ends is no longer counted; the counter
\* does not wrap around.
LEMMA CountUp ==
    ASSUME IInv, NEW c \in Conn, NEW n, conn' = [conn EXCEPT ![c] = n],
           Active(n), ~Active(conn[c]), metrics'.connections = Inc(metrics.connections)
    PROVE  ConnectionsCounted' /\ metrics'.connections \in 0 .. UsizeMod - 1
<1> DEFINE R == {d \in Conn : Running(d)}
<1>1. conn'[c] = n /\ \A d \in Conn \ {c} : conn'[d] = conn[d]
  BY DEF IInv, Types
<1>2. R' = R \cup {c} /\ c \notin R
  BY <1>1 DEF Running, Active
<1>3. IsFiniteSet(R) /\ R \cup {c} \in SUBSET Conn
  BY FS_Subset, ServerAssumption
<1>4. Cardinality(R \cup {c}) = Cardinality(R) + 1 /\ Cardinality(R \cup {c}) <= Cardinality(Conn)
  BY <1>2, <1>3, FS_AddElement, FS_Subset, ServerAssumption
<1>5. Cardinality(R) \in Nat /\ Cardinality(Conn) \in Nat
  BY <1>3, FS_CardinalityType, ServerAssumption
<1>6. metrics.connections = Cardinality(R) /\ ConnectionsCounted' = (metrics'.connections = Cardinality(R'))
  BY DEF IInv, ConnectionsCounted
<1> HIDE DEF R
<1>7. Inc(Cardinality(R)) = Cardinality(R) + 1 /\ Cardinality(R) + 1 \in 0 .. UsizeMod - 1
  <2>1. Cardinality(R) + 1 \in Nat /\ Cardinality(R) + 1 < UsizeMod /\ UsizeMod \in Nat \ {0}
    BY <1>4, <1>5, ServerAssumption, SMT
  <2>2. (Cardinality(R) + 1) % UsizeMod = Cardinality(R) + 1
    BY <2>1, SMT
  <2> QED BY <2>1, <2>2, SMT DEF Inc
<1> QED BY <1>2, <1>4, <1>6, <1>7

\* A handler that ends is counted out.
LEMMA CountDown ==
    ASSUME IInv, NEW c \in Conn, NEW n, conn' = [conn EXCEPT ![c] = n],
           ~Active(n), Active(conn[c]), metrics'.connections = Dec(metrics.connections)
    PROVE  ConnectionsCounted' /\ metrics'.connections \in 0 .. UsizeMod - 1
<1> DEFINE R == {d \in Conn : Running(d)}
<1>1. conn'[c] = n /\ \A d \in Conn \ {c} : conn'[d] = conn[d]
  BY DEF IInv, Types
<1>2. R' = R \ {c} /\ c \in R
  BY <1>1 DEF Running, Active
<1>3. IsFiniteSet(R) /\ R \in SUBSET Conn
  BY FS_Subset, ServerAssumption
<1>4. Cardinality(R \ {c}) = Cardinality(R) - 1 /\ Cardinality(R) <= Cardinality(Conn)
  BY <1>2, <1>3, FS_RemoveElement, FS_Subset, ServerAssumption
<1>5. Cardinality(R) \in Nat /\ Cardinality(Conn) \in Nat /\ Cardinality(R \ {c}) \in Nat
  BY <1>3, FS_RemoveElement, FS_CardinalityType, ServerAssumption
<1>6. metrics.connections = Cardinality(R) /\ ConnectionsCounted' = (metrics'.connections = Cardinality(R'))
  BY DEF IInv, ConnectionsCounted
<1> HIDE DEF R
<1>7. Dec(Cardinality(R)) = Cardinality(R) - 1 /\ Cardinality(R) - 1 \in 0 .. UsizeMod - 1
  <2>1. Cardinality(R) + UsizeMod - 1 = (Cardinality(R) - 1) + UsizeMod
    BY <1>5, ServerAssumption, SMT
  <2>2. Cardinality(R) - 1 \in Nat /\ Cardinality(R) - 1 < UsizeMod /\ UsizeMod \in Nat \ {0}
    BY <1>4, <1>5, ServerAssumption, SMT
  <2>3. ((Cardinality(R) - 1) + UsizeMod) % UsizeMod = Cardinality(R) - 1
    BY <2>2, SMT
  <2> QED BY <2>1, <2>2, <2>3, SMT DEF Dec
<1> QED BY <1>2, <1>4, <1>6, <1>7

-----------------------------------------------------------------------------
(* The steps. *)

\* The handler starts, or its stream cannot be set up.
LEMMA StartStep ==
    ASSUME IInv, NEW c \in Conn, StartConn(c)
    PROVE  IInv'
<1> DEFINE k == conn[c]
<1>0. /\ k \in HandlerType /\ k.pc = "spawned" /\ k.seen <= command.ver
      /\ metrics \in MetricsType /\ UNCHANGED <<command, listener, client, inbox, queue, tasks>>
  BY OfConnection DEF StartConn, Good
<1>1. CASE /\ conn' = [conn EXCEPT ![c] = [Select(k) EXCEPT !.age = 0]]
           /\ metrics' = [metrics EXCEPT !.connections = Inc(metrics.connections)]
  <2> DEFINE m == Select(k)
             n == [m EXCEPT !.age = 0]
  <2>1. m \in HandlerType /\ Same(k, m) /\ m.pc = "command" /\ m.how = k.how /\ m.open = k.open
        /\ m.seen = k.seen
    BY <1>0, SelectMoves
  <2> HIDE DEF m
  <2>2. 0 \in 0 .. MaxIdle
    BY MaxIdleType, SMT
  <2>3. n \in HandlerType
    BY <2>1, <2>2 DEF HandlerType
  <2>4. /\ n.status = m.status /\ n.header = m.header /\ n.out = m.out /\ n.read = m.read
        /\ n.queued = m.queued /\ n.failed = m.failed /\ n.open = m.open /\ n.pc = m.pc
        /\ n.how = m.how /\ n.seen = m.seen
    BY <2>1 DEF HandlerType
  <2>5. conn' = [conn EXCEPT ![c] = n]
    BY <1>1 DEF m
  <2> HIDE DEF n
  <2>6. Same(k, n) /\ n.pc = "command" /\ n.how = k.how /\ n.seen <= command.ver /\ n.open = k.open
    BY <1>0, <2>1, <2>4 DEF Same
  <2>7. metrics'.connections = Inc(metrics.connections) /\ metrics'.pending = metrics.pending
    BY <1>0, <1>1 DEF MetricsType
  <2>8. ConnectionsCounted' /\ metrics'.connections \in 0 .. UsizeMod - 1
    BY <1>0, <2>5, <2>6, <2>7, CountUp DEF Active
  <2>9. metrics' \in MetricsType
    BY <1>0, <1>1, <2>7, <2>8 DEF MetricsType
  <2>10. Written(n, client[c].got, queue[c])
    <3>1. Written(k, client[c].got, queue[c])
      BY OfConnection DEF Good
    <3>2. k.how # "flush"
      BY <1>0, <3>1 DEF Written
    <3> QED BY <1>0, <2>3, <2>6, <3>1, <3>2, SameWritten
  <2>11. \A i \in 1 .. Len(tasks[c]) : TaskOK(tasks[c][i], n)
    BY <2>6, OfConnection, SameTask DEF Good
  <2>12. Good(c, n, client[c], inbox[c], queue[c], tasks[c])
    BY <2>3, <2>6, <2>10, <2>11, OfConnection DEF Good, Same
  <2>13. Becomes(c, n, client[c], inbox[c], queue[c], tasks[c])
    BY <1>0, <2>5, Unreplaced DEF Becomes
  <2> QED BY <1>0, <2>8, <2>9, <2>12, <2>13, ConnectionStep
<1>2. CASE conn' = [conn EXCEPT ![c] = [k EXCEPT !.pc = "closed", !.how = "setup"]] /\ UNCHANGED metrics
  <2> DEFINE n == [k EXCEPT !.pc = "closed", !.how = "setup"]
  <2>1. n \in HandlerType
    BY <1>0 DEF HandlerType, Pcs, Hows
  <2>2. /\ n.status = k.status /\ n.header = k.header /\ n.out = k.out /\ n.read = k.read
        /\ n.queued = k.queued /\ n.failed = k.failed /\ n.open = k.open
        /\ n.seen = k.seen /\ n.pc = "closed" /\ n.how = "setup"
    BY <1>0 DEF HandlerType
  <2>3. MovesTo(k, n)
    BY <1>0, <2>1, <2>2 DEF MovesTo, Same, Active
  <2>4. listener' \in ListenerType
    BY <1>0 DEF IInv, Types
  <2> QED BY <1>0, <1>2, <2>3, <2>4, HandlerMoves
<1> QED BY <1>1, <1>2 DEF StartConn

\* The handler takes a response to write, or finds none.
LEMMA QueueStep ==
    ASSUME IInv, NEW c \in Conn, PollQueue(c) \/ FlushQueue(c)
    PROVE  IInv'
<1> DEFINE k == conn[c]
           q == queue[c]
           got == client[c].got
<1>0. /\ k \in HandlerType /\ q \in Seq(ResponseType) /\ got \in Seq(ResponseType)
      /\ k.seen <= command.ver /\ metrics \in MetricsType /\ Written(k, got, q)
      /\ UNCHANGED <<command, listener, client, inbox, tasks, metrics>>
      /\ k.pc \in {"queue", "flush"}
  BY OfConnection DEF PollQueue, FlushQueue, Good, ClientType
<1>1. CASE q = <<>> /\ PollQueue(c)
  <2>1. MovesTo(k, [k EXCEPT !.pc = "idle"])
    BY <1>0, <1>1, PcMoves, ZenonT(30) DEF Pcs, MovesTo, Active, PollQueue, Written
  <2>2. conn' = [conn EXCEPT ![c] = [k EXCEPT !.pc = "idle"]] /\ UNCHANGED queue
    BY <1>1 DEF PollQueue
  <2>3. listener' \in ListenerType
    BY <1>0 DEF IInv, Types
  <2> QED BY <1>0, <2>1, <2>2, <2>3, HandlerMoves
<1>2. CASE q = <<>> /\ FlushQueue(c)
  <2> DEFINE n == Disconnect(k, "flush")
  <2>1. n \in HandlerType /\ Same(k, n) /\ n.pc = "closing" /\ n.how = "flush" /\ n.open = k.open
        /\ n.seen = k.seen
    BY <1>0, DisconnectMoves DEF Hows
  <2>2. conn' = [conn EXCEPT ![c] = n] /\ UNCHANGED queue /\ k.pc = "flush"
    BY <1>2 DEF FlushQueue
  <2> HIDE DEF n
  <2>3. Written(n, got, q)
    <3>1. Written(k, got, <<>>) /\ k.how = "flush"
      BY <1>0, <1>2, <2>2 DEF Written
    <3>2. Kept(k, n) /\ n.out = k.out
      BY <2>1, <3>1 DEF Kept, Same
    <3>3. Written(n, got, <<>>)
      BY <1>0, <2>1, <2>2, <3>1, <3>2, FlushedWritten
    <3> QED BY <1>2, <3>3
  <2>4. \A i \in 1 .. Len(tasks[c]) : TaskOK(tasks[c][i], n)
    BY <2>1, OfConnection, SameTask DEF Good
  <2>5. Good(c, n, client[c], inbox[c], q, tasks[c])
    BY <1>0, <2>1, <2>3, <2>4, OfConnection DEF Good, Same
  <2>6. Becomes(c, n, client[c], inbox[c], q, tasks[c])
    BY <1>0, <2>2, Unreplaced DEF Becomes
  <2>7. ConnectionsCounted'
    BY <1>0, <2>1, <2>2, SameCount DEF Active
  <2> QED BY <1>0, <2>5, <2>6, <2>7, ConnectionStep
<1>3. CASE q # <<>>
  <2> DEFINE o == <<Head(q)>>
             n == [k EXCEPT !.pc = "write", !.out = o]
  <2>1. o \in Seq(ResponseType) /\ Tail(q) \in Seq(ResponseType)
    BY <1>0, <1>3, SMT
  <2>2. conn' = [conn EXCEPT ![c] = n] /\ queue' = [queue EXCEPT ![c] = Tail(q)]
    BY <1>3 DEF PollQueue, FlushQueue, IInv, Types
  <2>3. n.out = <<Head(q)>>
    BY <1>0 DEF HandlerType
  <2> HIDE DEF o
  <2>4. n \in HandlerType
    BY <1>0, <2>1 DEF HandlerType, Pcs
  <2>5. /\ n.status = k.status /\ n.header = k.header /\ n.read = k.read
        /\ n.queued = k.queued /\ n.failed = k.failed /\ n.open = k.open
        /\ n.seen = k.seen /\ n.pc = "write" /\ n.how = k.how
    BY <1>0 DEF HandlerType
  <2> HIDE DEF n
  <2>6. Written(n, got, Tail(q))
    BY <1>0, <1>3, <2>3, <2>4, <2>5, TakeWritten DEF Kept
  <2>7. \A i \in 1 .. Len(tasks[c]) : TaskOK(tasks[c][i], n)
    BY <2>5, OfConnection DEF Good, TaskOK
  <2>8. Good(c, n, client[c], inbox[c], Tail(q), tasks[c])
    BY <1>0, <2>1, <2>4, <2>5, <2>6, <2>7, OfConnection DEF Good
  <2>9. Becomes(c, n, client[c], inbox[c], Tail(q), tasks[c])
    BY <1>0, <2>2, Unreplaced DEF Becomes
  <2>10. ConnectionsCounted'
    BY <1>0, <2>2, <2>5, SameCount DEF Active
  <2> QED BY <1>0, <2>8, <2>9, <2>10, ConnectionStep
<1> QED BY <1>1, <1>2, <1>3

\* A response is written, or writing it fails.
LEMMA WriteStep ==
    ASSUME IInv, NEW c \in Conn, write_response_to_stream(c)
    PROVE  IInv'
<1> DEFINE k == conn[c]
           cl == client[c]
           q == queue[c]
           o == [k EXCEPT !.out = <<>>]
<1>0. /\ k \in HandlerType /\ cl \in ClientType /\ q \in Seq(ResponseType)
      /\ cl.got \in Seq(ResponseType)
      /\ k.seen <= command.ver /\ metrics \in MetricsType /\ Written(k, cl.got, q)
      /\ UNCHANGED <<command, listener, inbox, queue, tasks>>
      /\ k.pc = "write" /\ (k.how = "flush" => ~k.open)
  BY OfConnection DEF write_response_to_stream, Good, ClientType, Written
<1>1. /\ o \in HandlerType
      /\ o.status = k.status /\ o.header = k.header /\ o.read = k.read
      /\ o.queued = k.queued /\ o.failed = k.failed /\ o.open = k.open
      /\ o.seen = k.seen /\ o.pc = k.pc /\ o.how = k.how /\ o.out = <<>>
  <2>1. <<>> \in Seq(ResponseType)
    BY SMT
  <2>2. o \in HandlerType
    BY <1>0, <2>1 DEF HandlerType
  <2> QED BY <1>0, <2>2 DEF HandlerType
<1>2. CASE /\ client' = [client EXCEPT ![c].got = Append(cl.got, k.out[1])]
           /\ metrics' = [metrics EXCEPT !.pending = Dec(metrics.pending)]
           /\ conn' = [conn EXCEPT ![c] = AfterWrite(Emptied(o, q), TRUE)]
  <2> DEFINE m == Emptied(o, q)
             n == AfterWrite(m, TRUE)
             g == Append(cl.got, k.out[1])
             ncl == [cl EXCEPT !.got = g]
  <2>0. 0 \in 0 .. MaxIdle
    BY MaxIdleType, SMT
  <2>1. /\ m \in HandlerType
        /\ m.status = o.status /\ m.header = o.header /\ m.read = o.read
        /\ m.queued = o.queued /\ m.failed = o.failed /\ m.open = o.open
        /\ m.seen = o.seen /\ m.pc = o.pc /\ m.how = o.how /\ m.out = o.out
    <3> HIDE DEF o
    <3>1. o \in HandlerType
      BY <1>1
    <3> QED BY <2>0, <3>1 DEF HandlerType, Emptied
  <2>2. n = IF m.how = "flush" THEN [m EXCEPT !.pc = "flush"] ELSE Select(m)
    BY DEF AfterWrite
  <2> HIDE DEF o, m, n
  <2>3. /\ n \in HandlerType /\ Same(m, n) /\ n.how = m.how /\ n.open = m.open /\ n.seen = m.seen
        /\ n.pc = IF m.how = "flush" THEN "flush" ELSE "command"
    <3>1. CASE m.how = "flush"
      <4>1. n = [m EXCEPT !.pc = "flush"] /\ "flush" \in Pcs
        BY <2>2, <3>1 DEF Pcs
      <4> QED BY <2>1, <3>1, <4>1, PcMoves
    <3>2. CASE m.how # "flush"
      BY <2>1, <2>2, <3>2, SelectMoves
    <3> QED BY <3>1, <3>2
  <2>4. /\ n.status = k.status /\ n.header = k.header /\ n.read = k.read
        /\ n.queued = k.queued /\ n.failed = k.failed /\ n.open = k.open
        /\ n.seen = k.seen /\ n.how = k.how /\ n.out = <<>>
        /\ n.pc = IF k.how = "flush" THEN "flush" ELSE "command"
    BY <1>1, <2>1, <2>3 DEF Same
  <2>5. Written(n, g, q)
    BY <1>0, <2>3, <2>4, WriteOkWritten DEF Kept
  <2>6. g \in Seq(ResponseType)
    <3>1. k.out \in Seq(ResponseType) /\ Len(k.out) = 1
      BY <1>0 DEF HandlerType, Written
    <3>2. k.out[1] \in ResponseType
      BY <3>1, FirstElement
    <3> QED BY <1>0, <3>2, SMT
  <2> HIDE DEF g
  <2>7. ncl \in ClientType /\ ncl.got = g /\ ncl.sent = cl.sent
    BY <1>0, <2>6 DEF ClientType
  <2>8. client' = [client EXCEPT ![c] = ncl]
    BY <1>2 DEF g
  <2> HIDE DEF ncl
  <2>9. \A i \in 1 .. Len(tasks[c]) : TaskOK(tasks[c][i], n)
    BY <2>4, OfConnection DEF Good, TaskOK
  <2>10. Good(c, n, ncl, inbox[c], q, tasks[c])
    BY <1>0, <2>3, <2>4, <2>5, <2>7, <2>9, OfConnection DEF Good
  <2>11. Becomes(c, n, ncl, inbox[c], q, tasks[c])
    BY <1>0, <1>2, <2>8, Unreplaced DEF Becomes, n, m
  <2>12. Dec(metrics.pending) \in 0 .. UsizeMod - 1
    BY <1>0, ServerAssumption, SMT DEF MetricsType, Dec
  <2>13. metrics' \in MetricsType /\ metrics'.connections = metrics.connections
    BY <1>0, <1>2, <2>12 DEF MetricsType
  <2>14. conn' = [conn EXCEPT ![c] = n]
    BY <1>2 DEF n, m
  <2>15. ConnectionsCounted'
    BY <1>0, <2>4, <2>13, <2>14, SameCount DEF Active
  <2> QED BY <1>0, <2>10, <2>11, <2>13, <2>15, ConnectionStep
<1>3. CASE /\ conn' = [conn EXCEPT ![c] = AfterWrite([o EXCEPT !.failed = TRUE], FALSE)]
           /\ UNCHANGED <<client, metrics>>
  <2> DEFINE m == [o EXCEPT !.failed = TRUE]
             n == AfterWrite(m, FALSE)
  <2>1. /\ m \in HandlerType
        /\ m.status = o.status /\ m.header = o.header /\ m.read = o.read
        /\ m.queued = o.queued /\ m.failed /\ m.open = o.open
        /\ m.seen = o.seen /\ m.pc = o.pc /\ m.how = o.how /\ m.out = o.out
    <3> HIDE DEF o
    <3>1. o \in HandlerType
      BY <1>1
    <3> QED BY <3>1 DEF HandlerType
  <2>2. n = IF m.how = "flush" THEN [m EXCEPT !.pc = "flush"] ELSE Disconnect(m, "write")
    BY DEF AfterWrite
  <2> HIDE DEF o, m, n
  <2>3. /\ n \in HandlerType /\ Same(m, n) /\ n.open = m.open /\ n.seen = m.seen
        /\ \/ m.how = "flush" /\ n.how = "flush" /\ n.pc = "flush"
           \/ m.how # "flush" /\ n.how = "write" /\ n.pc = "closing"
    <3>1. CASE m.how = "flush"
      <4>1. n = [m EXCEPT !.pc = "flush"] /\ "flush" \in Pcs
        BY <2>2, <3>1 DEF Pcs
      <4> QED BY <2>1, <3>1, <4>1, PcMoves
    <3>2. CASE m.how # "flush"
      BY <2>1, <2>2, <3>2, DisconnectMoves DEF Hows
    <3> QED BY <3>1, <3>2
  <2>4. /\ n.status = k.status /\ n.header = k.header /\ n.read = k.read
        /\ n.queued = k.queued /\ n.failed /\ n.open = k.open
        /\ n.seen = k.seen /\ n.out = <<>>
        /\ \/ k.how = "flush" /\ n.how = "flush" /\ n.pc = "flush"
           \/ k.how # "flush" /\ n.how = "write" /\ n.pc = "closing"
    BY <1>1, <2>1, <2>3 DEF Same
  <2>5. Written(n, cl.got, q)
    BY <1>0, <2>4, WriteFailsWritten
  <2>9. \A i \in 1 .. Len(tasks[c]) : TaskOK(tasks[c][i], n)
    BY <2>4, OfConnection DEF Good, TaskOK
  <2>10. Good(c, n, cl, inbox[c], q, tasks[c])
    BY <1>0, <2>3, <2>4, <2>5, <2>9, OfConnection DEF Good
  <2>14. conn' = [conn EXCEPT ![c] = n]
    BY <1>3 DEF n, m
  <2>11. Becomes(c, n, cl, inbox[c], q, tasks[c])
    BY <1>0, <1>3, <2>14, Unreplaced DEF Becomes
  <2>15. ConnectionsCounted'
    BY <1>0, <1>3, <2>4, <2>14, SameCount DEF Active
  <2> QED BY <1>0, <1>3, <2>10, <2>11, <2>15, ConnectionStep
<1> QED BY <1>2, <1>3 DEF write_response_to_stream

\* The handler reads the length of a message.
LEMMA HeaderStep ==
    ASSUME IInv, NEW c \in Conn, ReadHeader(c)
    PROVE  IInv'
<1> DEFINE k == conn[c]
           ib == inbox[c]
           h == Head(ib)
           n == [k EXCEPT !.status = "body", !.header = h]
<1>0. /\ k \in HandlerType /\ ib \in Seq(Nat) /\ ib # <<>> /\ k.pc = "read" /\ k.status = "header"
      /\ k.seen <= command.ver /\ metrics \in MetricsType /\ Written(k, client[c].got, queue[c])
      /\ Framed(k.read, k.status, k.header, client[c].sent, ib)
      /\ client[c].sent \in Nat /\ k.read \in Seq(Nat \X Nat)
      /\ UNCHANGED <<command, listener, client, queue, tasks, metrics>>
      /\ conn' = [conn EXCEPT ![c] = n] /\ inbox' = [inbox EXCEPT ![c] = Tail(ib)]
  <2>1. conn' = [conn EXCEPT ![c] = n]
    BY DEF ReadHeader, IInv, Types
  <2>2. inbox' = [inbox EXCEPT ![c] = Tail(ib)]
    BY DEF ReadHeader, IInv, Types
  <2> QED BY <2>1, <2>2, OfConnection DEF ReadHeader, Good, ClientType, HandlerType
<1>1. h \in Nat /\ Tail(ib) \in Seq(Nat)
  BY <1>0, SMT
<1>2. Framed(k.read, "body", h, client[c].sent, Tail(ib))
  BY <1>0, HeaderFramed
<1> HIDE DEF h
<1>3. n \in HandlerType
  BY <1>0, <1>1 DEF HandlerType
<1>4. /\ n.status = "body" /\ n.header = h /\ n.read = k.read /\ n.out = k.out
      /\ n.queued = k.queued /\ n.failed = k.failed /\ n.open = k.open
      /\ n.seen = k.seen /\ n.pc = k.pc /\ n.how = k.how
  BY <1>0 DEF HandlerType
<1> HIDE DEF n
<1>5. Written(n, client[c].got, queue[c])
  BY <1>0, <1>4, KeptWritten DEF Kept
<1>6. \A i \in 1 .. Len(tasks[c]) : TaskOK(tasks[c][i], n)
  BY <1>4, OfConnection DEF Good, TaskOK
<1>7. Good(c, n, client[c], Tail(ib), queue[c], tasks[c])
  BY <1>0, <1>1, <1>2, <1>3, <1>4, <1>5, <1>6, OfConnection DEF Good
<1>8. Becomes(c, n, client[c], Tail(ib), queue[c], tasks[c])
  BY <1>0, Unreplaced DEF Becomes
<1>9. ConnectionsCounted'
  BY <1>0, <1>4, SameCount DEF Active
<1> QED BY <1>0, <1>7, <1>8, <1>9, ConnectionStep

\* The handler reads the body of a message and, for a query, spawns its task.
LEMMA BodyStep ==
    ASSUME IInv, NEW c \in Conn, process_read_request(c)
    PROVE  IInv'
<1> DEFINE k == conn[c]
           ib == inbox[c]
           b == Head(ib)
           r == Append(k.read, <<k.header, b>>)
           kind == KindOf(c, k.header, b)
           m == [k EXCEPT !.age = 0, !.status = "header", !.header = 0, !.read = r]
           n == IF kind = "junk" THEN Disconnect(m, "parse") ELSE Select(m)
           ts == tasks'[c]
<1>0. /\ k \in HandlerType /\ ib \in Seq(Nat) /\ ib # <<>> /\ k.pc = "read" /\ k.status = "body"
      /\ k.seen <= command.ver /\ metrics \in MetricsType /\ Written(k, client[c].got, queue[c])
      /\ Framed(k.read, "body", k.header, client[c].sent, ib)
      /\ client[c].sent \in Nat /\ k.read \in Seq(Nat \X Nat) /\ k.header \in Nat
      /\ client[c].sent <= 2 * Len(Sends[c]) /\ Sends[c] \in Seq(Kinds) /\ tasks[c] \in Seq(TaskType)
      /\ UNCHANGED <<command, listener, client, queue, metrics>>
  <2>1. UNCHANGED <<command, listener, client, queue, metrics>> /\ k.pc = "read" /\ k.status = "body"
        /\ ib # <<>>
    BY DEF process_read_request
  <2> QED BY <2>1, OfConnection DEF Good, ClientType, HandlerType
<1>1. conn' = [conn EXCEPT ![c] = n] /\ inbox' = [inbox EXCEPT ![c] = Tail(ib)]
  BY DEF process_read_request
<1>2. b \in Nat /\ Tail(ib) \in Seq(Nat) /\ r \in Seq(Nat \X Nat)
  <2>1. b \in Nat /\ Tail(ib) \in Seq(Nat)
    BY <1>0, SMT
  <2>2. <<k.header, b>> \in Nat \X Nat
    BY <1>0, <2>1
  <2> QED BY <1>0, <2>1, <2>2, SMT
<1>3. /\ Framed(r, "header", 0, client[c].sent, Tail(ib))
      /\ b = 2 * Len(k.read) + 2 /\ b <= client[c].sent
  BY <1>0, BodyFramed
<1>4. UNCHANGED tasks \/ \E s \in Scripts[c][b \div 2] : tasks' = [tasks EXCEPT ![c] = Append(tasks[c], NewTask(b, s))]
  BY DEF process_read_request
<1> HIDE DEF r, b, kind
<1>5. 0 \in 0 .. MaxIdle
  BY MaxIdleType, SMT
<1>6. m \in HandlerType
  BY <1>0, <1>2, <1>5 DEF HandlerType
<1>7. /\ m.status = "header" /\ m.header = 0 /\ m.read = r /\ m.out = k.out
      /\ m.queued = k.queued /\ m.failed = k.failed /\ m.open = k.open
      /\ m.seen = k.seen /\ m.how = k.how
  BY <1>0 DEF HandlerType
<1> HIDE DEF m
<1>8. /\ n \in HandlerType /\ Same(m, n) /\ n.open = m.open /\ n.seen = m.seen
      /\ n.pc \in {"command", "closing"} /\ n.how \in {m.how, "parse"}
  BY <1>6, SelectMoves, DisconnectMoves DEF Hows
<1> HIDE DEF n
<1>9. /\ n.status = "header" /\ n.header = 0 /\ n.read = r /\ n.out = k.out
      /\ n.queued = k.queued /\ n.failed = k.failed /\ n.open = k.open
      /\ n.seen = k.seen /\ n.pc \in {"command", "closing"} /\ n.how \in {k.how, "parse"}
  BY <1>7, <1>8 DEF Same
<1>10. Written(n, client[c].got, queue[c])
  <2>1. k.how # "flush"
    BY <1>0 DEF Written
  <2> QED BY <1>0, <1>9, <2>1, ReadWritten
<1>11. \A i \in 1 .. Len(tasks[c]) : TaskOK(tasks[c][i], n)
  BY <1>9, OfConnection DEF Good, TaskOK
<1>12. ts \in Seq(TaskType) /\ tasks' = [tasks EXCEPT ![c] = ts] /\ \A i \in 1 .. Len(ts) : TaskOK(ts[i], n)
  <2>1. CASE UNCHANGED tasks
    BY <1>0, <1>11, <2>1, Unreplaced
  <2>2. ASSUME NEW s \in Scripts[c][b \div 2], tasks' = [tasks EXCEPT ![c] = Append(tasks[c], NewTask(b, s))]
        PROVE  <1>12!:
    <3> DEFINE t == NewTask(b, s)
    <3>0. Len(k.read) \in Nat
      BY <1>0, SMT
    <3>1. b \div 2 = Len(k.read) + 1 /\ Len(k.read) \in Nat
      BY <1>3, <3>0, HalfOf
    <3>2. Len(k.read) + 1 \in DOMAIN Sends[c]
      BY <1>0, <1>3, <3>1, SMTT(30)
    <3>3. Scripts[c] \in [DOMAIN Sends[c] -> SUBSET Seq(Results)]
      BY ServerAssumption
    <3>4. s \in Seq(Results)
      BY <2>2, <3>1, <3>2, <3>3
    <3>5. t \in TaskType /\ TaskOK(t, n)
      BY <1>2, <3>4, NewTaskType
    <3>6. ts = Append(tasks[c], t) /\ tasks' = [tasks EXCEPT ![c] = ts]
      BY <2>2 DEF IInv, Types
    <3> HIDE DEF t, ts
    <3>7. ts \in Seq(TaskType) /\ Len(ts) = Len(tasks[c]) + 1 /\ Len(tasks[c]) \in Nat
          /\ \A i \in 1 .. Len(tasks[c]) : ts[i] = tasks[c][i]
      BY <1>0, <3>5, <3>6, SMT
    <3>8. ts[Len(tasks[c]) + 1] = t
      BY <1>0, <3>5, <3>6, LastAppended, SMTT(30)
    <3>9. \A i \in 1 .. Len(ts) : i \in 1 .. Len(tasks[c]) \/ i = Len(tasks[c]) + 1
      BY <3>7, SMT
    <3> QED BY <1>11, <3>5, <3>6, <3>7, <3>8, <3>9
  <2> QED BY <1>4, <2>1, <2>2
<1> HIDE DEF ts
<1>13. Good(c, n, client[c], Tail(ib), queue[c], ts)
  BY <1>0, <1>2, <1>3, <1>8, <1>9, <1>10, <1>12, OfConnection DEF Good
<1>14. Becomes(c, n, client[c], Tail(ib), queue[c], ts)
  BY <1>0, <1>1, <1>12, Unreplaced DEF Becomes
<1>15. ConnectionsCounted'
  BY <1>0, <1>1, <1>9, SameCount DEF Active
<1> QED BY <1>0, <1>13, <1>14, <1>15, ConnectionStep

\* The handler ends.
LEMMA CloseStep ==
    ASSUME IInv, NEW c \in Conn, CloseConn(c)
    PROVE  IInv'
<1> DEFINE k == conn[c]
           n == [k EXCEPT !.pc = "closed", !.open = FALSE]
<1>0. /\ k \in HandlerType /\ k.pc = "closing" /\ k.seen <= command.ver
      /\ metrics \in MetricsType /\ Written(k, client[c].got, queue[c])
      /\ UNCHANGED <<command, listener, client, inbox, tasks>>
      /\ metrics' = [metrics EXCEPT !.connections = Dec(metrics.connections)]
      /\ conn' = [conn EXCEPT ![c] = n] /\ queue' = [queue EXCEPT ![c] = <<>>]
  <2>1. conn' = [conn EXCEPT ![c] = n]
    BY DEF CloseConn, IInv, Types
  <2>2. Dropped(c) /\ k.pc = "closing"
    BY DEF CloseConn, Dropped, Running
  <2>3. metrics' = [metrics EXCEPT !.connections = Dec(metrics.connections)]
    BY <2>2 DEF CloseConn
  <2> QED BY <2>1, <2>2, <2>3, OfConnection DEF CloseConn, Good
<1>1. n \in HandlerType
  BY <1>0 DEF HandlerType, Pcs
<1>2. /\ n.status = k.status /\ n.header = k.header /\ n.read = k.read /\ n.out = k.out
      /\ n.queued = k.queued /\ n.failed = k.failed /\ ~n.open
      /\ n.seen = k.seen /\ n.pc = "closed" /\ n.how = k.how
  BY <1>0 DEF HandlerType
<1> HIDE DEF n
<1>3. Written(n, client[c].got, <<>>)
  BY <1>0, <1>2, CloseWritten
<1>4. \A i \in 1 .. Len(tasks[c]) : TaskOK(tasks[c][i], n)
  BY <1>2, OfConnection DEF Good, TaskOK, Progress
<1>5. <<>> \in Seq(ResponseType)
  BY SMT
<1>6. Good(c, n, client[c], inbox[c], <<>>, tasks[c])
  BY <1>0, <1>1, <1>2, <1>3, <1>4, <1>5, OfConnection DEF Good
<1>7. Becomes(c, n, client[c], inbox[c], <<>>, tasks[c])
  BY <1>0, Unreplaced DEF Becomes
<1>8. metrics'.connections = Dec(metrics.connections) /\ metrics'.pending = metrics.pending
  BY <1>0 DEF MetricsType
<1>9. ConnectionsCounted' /\ metrics'.connections \in 0 .. UsizeMod - 1
  BY <1>0, <1>2, <1>8, CountDown DEF Active
<1>10. metrics' \in MetricsType
  BY <1>0, <1>8, <1>9 DEF MetricsType
<1> QED BY <1>0, <1>6, <1>7, <1>9, <1>10, ConnectionStep

\* One task of a connection takes a step.
LEMMA OneTask ==
    ASSUME IInv, NEW c \in Conn, NEW i \in 1 .. Len(tasks[c]), NEW t \in TaskType, Step(c, i, t),
           NEW k, TaskOK(t, k), \A j \in 1 .. Len(tasks[c]) : TaskOK(tasks[c][j], k)
    PROVE  \E ts \in Seq(TaskType) : /\ tasks' = [tasks EXCEPT ![c] = ts]
                                   /\ \A j \in 1 .. Len(ts) : TaskOK(ts[j], k)
<1> DEFINE ts == [tasks[c] EXCEPT ![i] = t]
<1>1. tasks[c] \in Seq(TaskType)
  BY OfConnection DEF Good
<1>2. /\ ts \in Seq(TaskType) /\ Len(ts) = Len(tasks[c]) /\ ts[i] = t
      /\ \A j \in 1 .. Len(tasks[c]) : j # i => ts[j] = tasks[c][j]
  BY <1>1, SMT
<1>3. tasks' = [tasks EXCEPT ![c] = ts]
  BY DEF Step
<1> HIDE DEF ts
<1>4. \A j \in 1 .. Len(ts) : TaskOK(ts[j], k)
  BY <1>2
<1> QED BY <1>2, <1>3, <1>4

\* The task's part of the invariant.
LEMMA OfTask ==
    ASSUME IInv, NEW c \in Conn, NEW i \in 1 .. Len(tasks[c])
    PROVE  tasks[c][i] \in TaskType /\ TaskOK(tasks[c][i], conn[c])
<1>1. tasks[c] \in Seq(TaskType) /\ \A j \in 1 .. Len(tasks[c]) : TaskOK(tasks[c][j], conn[c])
  BY OfConnection DEF Good
<1>2. tasks[c][i] \in TaskType
  BY <1>1, ElementOfSeq
<1> QED BY <1>1, <1>2

\* A step of a task that leaves its connection alone.
LEMMA TaskOnly ==
    ASSUME IInv, NEW c \in Conn, NEW i \in 1 .. Len(tasks[c]), NEW t \in TaskType, Step(c, i, t),
           TaskOK(t, conn[c]), metrics' \in MetricsType, metrics'.connections = metrics.connections,
           UNCHANGED <<command, listener, conn, client, inbox, queue>>
    PROVE  IInv'
<1>1. \A j \in 1 .. Len(tasks[c]) : TaskOK(tasks[c][j], conn[c])
  BY OfConnection DEF Good
<1>2. PICK ts \in Seq(TaskType) : /\ tasks' = [tasks EXCEPT ![c] = ts]
                                 /\ \A j \in 1 .. Len(ts) : TaskOK(ts[j], conn[c])
  BY <1>1, OneTask
<1>3. Good(c, conn[c], client[c], inbox[c], queue[c], ts)
  BY <1>2, OfConnection DEF Good
<1>4. Becomes(c, conn[c], client[c], inbox[c], queue[c], ts)
  BY <1>2, Unreplaced DEF Becomes
<1>5. ConnectionsCounted'
  BY UnchangedCount
<1> QED BY <1>3, <1>4, <1>5, ConnectionStep

\* A task takes the next item of its service.
LEMMA TaskNextStep ==
    ASSUME IInv, NEW c \in Conn, NEW i \in 1 .. Len(tasks[c]), TaskNext(c, i)
    PROVE  IInv'
<1> DEFINE t == tasks[c][i]
           fb == Head(t.script).fb
           k == conn[c]
<1>0. /\ t \in TaskType /\ TaskOK(t, k) /\ t.pc = "next" /\ k \in HandlerType
      /\ UNCHANGED <<command, listener, conn, client, inbox, queue, metrics>>
      /\ metrics \in MetricsType
  BY OfTask, OfConnection DEF TaskNext, Good
<1> SUFFICES \E n \in TaskType : Step(c, i, n) /\ TaskOK(n, k)
  BY <1>0, TaskOnly
<1>1. CASE t.script = <<>>
  <2> DEFINE n == [t EXCEPT !.pc = "done"]
  <2>1. n \in TaskType
    BY <1>0 DEF TaskType
  <2>2. /\ n.msg = t.msg /\ n.plan = t.plan /\ n.script = t.script /\ n.pc = "done"
        /\ n.intx = t.intx /\ t.plan \in Seq(Results)
    BY <1>0 DEF TaskType
  <2>3. Step(c, i, n)
    BY <1>1 DEF TaskNext
  <2> HIDE DEF n
  <2>4. TaskOK(n, k)
    BY <1>0, <1>1, <2>2, EndProgress DEF TaskOK
  <2> QED BY <2>1, <2>3, <2>4
<1>2. CASE t.script # <<>> /\ fb = "idle"
  <2> DEFINE n == [t EXCEPT !.pc = "store", !.loaded = {k.config}]
  <2>0. {k.config} \in SUBSET ConfigType
    BY <1>0 DEF HandlerType
  <2>1. n \in TaskType
    BY <1>0, <2>0 DEF TaskType
  <2>2. /\ n.msg = t.msg /\ n.plan = t.plan /\ n.script = t.script /\ n.pc = "store"
        /\ n.intx = t.intx /\ t.plan \in Seq(Results) /\ t.script \in Seq(Results)
    BY <1>0 DEF TaskType
  <2>3. Step(c, i, n)
    BY <1>2 DEF TaskNext
  <2> HIDE DEF n
  <2>4. TaskOK(n, k)
    BY <1>0, <1>2, <2>2, StoreProgress DEF TaskOK
  <2> QED BY <2>1, <2>3, <2>4
<1>3. CASE t.script # <<>> /\ fb # "idle"
  <2> DEFINE x == CASE fb = "begin" -> TRUE
                    [] fb = "end" -> FALSE
                    [] OTHER -> t.intx
             u == [t EXCEPT !.intx = x]
  <2>0. x \in BOOLEAN /\ Obeys(fb, t.intx, x)
    BY <1>0 DEF TaskType, Obeys
  <2>1. Step(c, i, AfterFeedback(u))
    BY <1>3 DEF TaskNext
  <2> HIDE DEF x
  <2>2. u \in TaskType
    BY <1>0, <2>0 DEF TaskType
  <2>3. u.msg = t.msg /\ u.plan = t.plan /\ u.script = t.script /\ u.intx = x
    BY <1>0 DEF TaskType
  <2> HIDE DEF u
  <2>4. AfterFeedback(u) \in TaskType /\ TaskOK(AfterFeedback(u), k)
    BY <1>0, <1>3, <2>0, <2>2, <2>3, FeedbackTask, SMTT(30)
  <2> QED BY <2>1, <2>4
<1> QED BY <1>1, <1>2, <1>3

\* A task stores the configuration its service asked for.
LEMMA TaskStoreStep ==
    ASSUME IInv, NEW c \in Conn, NEW i \in 1 .. Len(tasks[c]), TaskStore(c, i)
    PROVE  IInv'
<1> DEFINE t == tasks[c][i]
           k == conn[c]
           u == [t EXCEPT !.loaded = {}]
<1>0. /\ t \in TaskType /\ TaskOK(t, k) /\ t.pc = "store" /\ k \in HandlerType
      /\ k.seen <= command.ver /\ Written(k, client[c].got, queue[c])
      /\ UNCHANGED <<command, listener, client, inbox, queue, metrics>>
      /\ metrics \in MetricsType /\ Step(c, i, AfterFeedback(u))
  BY OfTask, OfConnection DEF TaskStore, Good
<1>1. PICK cfg \in t.loaded : conn' = [conn EXCEPT ![c].config = [cfg EXCEPT !.idle = Head(t.script).idle]]
  BY DEF TaskStore
<1>2. /\ t.script # <<>> /\ t.script \in Seq(Results) /\ cfg \in ConfigType
      /\ Head(t.script).fb = "idle"
  <2>1. t.script # <<>> /\ t.script[1].fb = "idle"
    BY <1>0 DEF TaskOK, Progress
  <2>2. t.script \in Seq(Results) /\ t.loaded \in SUBSET ConfigType
    BY <1>0 DEF TaskType
  <2> QED BY <1>1, <2>1, <2>2, SMT
<1> DEFINE g == [cfg EXCEPT !.idle = Head(t.script).idle]
           n == [k EXCEPT !.config = g]
<1>3. g \in ConfigType
  <2>1. Head(t.script).idle \in Nat
    BY <1>2, ScriptHead
  <2> QED BY <1>2, <2>1 DEF ConfigType
<1>4. conn' = [conn EXCEPT ![c] = n]
  BY <1>1
<1> HIDE DEF g
<1>5. n \in HandlerType
  BY <1>0, <1>3 DEF HandlerType
<1>6. /\ n.status = k.status /\ n.header = k.header /\ n.read = k.read /\ n.out = k.out
      /\ n.queued = k.queued /\ n.failed = k.failed /\ n.open = k.open
      /\ n.seen = k.seen /\ n.pc = k.pc /\ n.how = k.how
  BY <1>0 DEF HandlerType
<1> HIDE DEF n
<1>7. Written(n, client[c].got, queue[c])
  BY <1>0, <1>6, KeptWritten DEF Kept
<1>8. \A j \in 1 .. Len(tasks[c]) : TaskOK(tasks[c][j], n)
  BY <1>6, OfConnection DEF Good, TaskOK
<1>9. AfterFeedback(u) \in TaskType /\ TaskOK(AfterFeedback(u), n)
  <2>1. u \in TaskType /\ u.msg = t.msg /\ u.plan = t.plan /\ u.script = t.script /\ u.intx = t.intx
    BY <1>0 DEF TaskType
  <2>2. TaskOK(t, n)
    BY <1>0, <1>6 DEF TaskOK
  <2>3. Obeys(Head(t.script).fb, t.intx, u.intx)
    BY <1>2, <2>1 DEF Obeys
  <2> HIDE DEF u
  <2> QED BY <1>0, <1>2, <2>1, <2>2, <2>3, FeedbackTask, SMTT(30)
<1>10. PICK ts \in Seq(TaskType) : /\ tasks' = [tasks EXCEPT ![c] = ts]
                                  /\ \A j \in 1 .. Len(ts) : TaskOK(ts[j], n)
  BY <1>0, <1>8, <1>9, OneTask, SMTT(20)
<1>11. Good(c, n, client[c], inbox[c], queue[c], ts)
  BY <1>0, <1>5, <1>6, <1>7, <1>10, OfConnection DEF Good
<1>12. Becomes(c, n, client[c], inbox[c], queue[c], ts)
  BY <1>0, <1>4, <1>10, Unreplaced DEF Becomes
<1>13. ConnectionsCounted'
  BY <1>0, <1>4, <1>6, SameCount DEF Active
<1> QED BY <1>0, <1>11, <1>12, <1>13, ConnectionStep

\* A task queues a response, waits, or gives up.
LEMMA TaskPushStep ==
    ASSUME IInv, NEW c \in Conn, NEW i \in 1 .. Len(tasks[c]), TaskPush(c, i)
    PROVE  IInv'
<1> DEFINE t == tasks[c][i]
           k == conn[c]
           q == queue[c]
           d == [t EXCEPT !.pc = "done"]
<1>0. /\ t \in TaskType /\ TaskOK(t, k) /\ t.pc = "push" /\ k \in HandlerType
      /\ k.seen <= command.ver /\ Written(k, client[c].got, q) /\ q \in Seq(ResponseType)
      /\ client[c].got \in Seq(ResponseType)
      /\ UNCHANGED <<command, listener, client, inbox, metrics>>
      /\ metrics \in MetricsType
  BY OfTask, OfConnection DEF TaskPush, Good, ClientType
<1>1. /\ d \in TaskType /\ d.msg = t.msg /\ d.plan = t.plan /\ d.script = t.script
      /\ d.pc = "done" /\ d.intx = t.intx
  BY <1>0 DEF TaskType
<1>2. ~k.open \/ ~t.intx => TaskOK(d, k)
  <2> HIDE DEF d
  <2>1. Progress(t.msg, t.plan, t.script, "push", t.intx, k.queued, k.open)
    BY <1>0 DEF TaskOK
  <2> QED BY <1>1, <2>1, GiveUpProgress DEF TaskOK
<1>3. CASE ~k.open /\ Step(c, i, d) /\ UNCHANGED <<queue, conn>>
  BY <1>0, <1>1, <1>2, <1>3, TaskOnly
<1>4. CASE Step(c, i, PushFull(t)) /\ UNCHANGED <<queue, conn>>
  <2>1. PushFull(t) \in TaskType /\ TaskOK(PushFull(t), k)
    BY <1>0, <1>1, <1>2 DEF PushFull
  <2> QED BY <1>0, <1>4, <2>1, TaskOnly
<1>5. CASE /\ k.open /\ HasRoom(c)
           /\ queue' = [queue EXCEPT ![c] = Append(@, <<t.msg, Len(t.plan) - Len(t.script) + 1>>)]
           /\ conn' = [conn EXCEPT ![c].queued = Append(@, <<t.msg, Len(t.plan) - Len(t.script) + 1>>)]
           /\ Step(c, i, [t EXCEPT !.pc = "count", !.script = Tail(@)])
  <2> DEFINE r == <<t.msg, (Len(t.plan) - Len(t.script)) + 1>>
             all == Append(k.queued, r)
             n == [k EXCEPT !.queued = all]
             s == Tail(t.script)
             u == [t EXCEPT !.pc = "count", !.script = s]
  <2>1. /\ queue' = [queue EXCEPT ![c] = Append(q, r)] /\ conn' = [conn EXCEPT ![c] = n]
        /\ Step(c, i, u)
    BY <1>5
  <2>2. /\ t.msg \in Nat /\ t.plan \in Seq(Results) /\ t.script \in Seq(Results)
        /\ k.queued \in Seq(ResponseType)
    BY <1>0 DEF TaskType, HandlerType
  <2>3. Progress(t.msg, t.plan, t.script, "push", t.intx, k.queued, k.open)
    BY <1>0 DEF TaskOK
  <2>4. t.script # <<>> /\ Len(t.script) <= Len(t.plan)
    BY <2>3 DEF Progress
  <2>5. r \in ResponseType
    <3>1. Len(t.plan) - Len(t.script) \in Nat
      BY <2>2, <2>3, <2>4, HeadOfPlan
    <3>2. (Len(t.plan) - Len(t.script)) + 1 \in Nat
      BY <3>1, SMT
    <3> QED BY <2>2, <3>2 DEF ResponseType
  <2>6. Progress(t.msg, t.plan, s, "count", t.intx, all, k.open)
    BY <2>2, <2>3, PushProgress
  <2>7. s \in Seq(Results)
    BY <2>2, <2>4, ScriptHead
  <2>8. all \in Seq(ResponseType) /\ Append(q, r) \in Seq(ResponseType)
    BY <1>0, <2>2, <2>5, SMT
  <2>9. \A x : InQueued(k.queued, x) => InQueued(all, x)
    BY <2>2, <2>5, PushQueued
  <2>10. Len(q) < MaxQueued
    BY <1>5 DEF HasRoom
  <2> HIDE DEF s, all, r
  <2>11. n \in HandlerType
    BY <1>0, <2>8 DEF HandlerType
  <2>12. /\ n.status = k.status /\ n.header = k.header /\ n.read = k.read /\ n.out = k.out
         /\ n.queued = all /\ n.failed = k.failed /\ n.open = k.open
         /\ n.seen = k.seen /\ n.pc = k.pc /\ n.how = k.how
    BY <1>0 DEF HandlerType
  <2>13. u \in TaskType
    BY <1>0, <2>7 DEF TaskType
  <2>14. u.msg = t.msg /\ u.plan = t.plan /\ u.script = s /\ u.pc = "count" /\ u.intx = t.intx
    BY <1>0 DEF TaskType
  <2> HIDE DEF n, u
  <2>15. TaskOK(u, n)
    BY <2>6, <2>12, <2>14 DEF TaskOK
  <2>16. \A j \in 1 .. Len(tasks[c]) : TaskOK(tasks[c][j], n)
    BY <2>9, <2>12, OfConnection, GrowProgress DEF Good, TaskOK
  <2>17. n.queued = Append(k.queued, r)
    BY <2>12 DEF all
  <2>18. Written(n, client[c].got, Append(q, r))
    BY <1>0, <1>5, <2>5, <2>10, <2>11, <2>12, <2>17, PushWritten
  <2>19. PICK ts \in Seq(TaskType) : /\ tasks' = [tasks EXCEPT ![c] = ts]
                                    /\ \A j \in 1 .. Len(ts) : TaskOK(ts[j], n)
    BY <2>1, <2>13, <2>15, <2>16, OneTask, SMTT(20)
  <2>20. Good(c, n, client[c], inbox[c], Append(q, r), ts)
    BY <1>0, <2>8, <2>11, <2>12, <2>18, <2>19, OfConnection DEF Good
  <2>21. Becomes(c, n, client[c], inbox[c], Append(q, r), ts)
    BY <1>0, <2>1, <2>19, Unreplaced DEF Becomes
  <2>22. ConnectionsCounted'
    BY <1>0, <2>1, <2>12, SameCount DEF Active
  <2> QED BY <1>0, <2>20, <2>21, <2>22, ConnectionStep
<1> QED BY <1>3, <1>4, <1>5 DEF TaskPush

\* A task counts what is queued and sets the metric.
LEMMA TaskCountStep ==
    ASSUME IInv, NEW c \in Conn, NEW i \in 1 .. Len(tasks[c]), TaskCount(c, i) \/ TaskSet(c, i)
    PROVE  IInv'
<1> DEFINE t == tasks[c][i]
           k == conn[c]
<1>0. /\ t \in TaskType /\ TaskOK(t, k) /\ queue[c] \in Seq(ResponseType)
      /\ Len(queue[c]) <= MaxQueued
      /\ UNCHANGED <<command, listener, conn, client, inbox, queue>> /\ metrics \in MetricsType
  BY OfTask, OfConnection DEF TaskCount, TaskSet, Good, Written
<1>1. CASE TaskCount(c, i)
  <2> DEFINE l == Len(queue[c])
             u == [t EXCEPT !.pc = "set", !.pending = l]
  <2>1. l \in 0 .. MaxQueued
    BY <1>0, ServerAssumption, SMT
  <2>2. Step(c, i, u) /\ t.pc = "count" /\ UNCHANGED metrics
    BY <1>1 DEF TaskCount
  <2> HIDE DEF l
  <2>3. /\ u \in TaskType /\ u.msg = t.msg /\ u.plan = t.plan /\ u.script = t.script
        /\ u.pc = "set" /\ u.intx = t.intx
    BY <1>0, <2>1 DEF TaskType
  <2> HIDE DEF u
  <2>4. TaskOK(u, k)
    BY <1>0, <2>2, <2>3, CountProgress DEF TaskOK
  <2> QED BY <1>0, <2>2, <2>3, <2>4, TaskOnly
<1>2. CASE TaskSet(c, i)
  <2> DEFINE u == [t EXCEPT !.pc = "next", !.pending = 0]
  <2>1. 0 \in 0 .. MaxQueued
    BY ServerAssumption, SMT
  <2>2. Step(c, i, u) /\ t.pc = "set" /\ metrics' = [metrics EXCEPT !.pending = t.pending]
    BY <1>2 DEF TaskSet
  <2>3. /\ u \in TaskType /\ u.msg = t.msg /\ u.plan = t.plan /\ u.script = t.script
        /\ u.pc = "next" /\ u.intx = t.intx
    BY <1>0, <2>1 DEF TaskType
  <2> HIDE DEF u
  <2>4. TaskOK(u, k)
    BY <1>0, <2>2, <2>3, CountProgress DEF TaskOK
  <2>5. t.pending \in 0 .. UsizeMod - 1
    BY <1>0, ServerAssumption, SMTT(30) DEF TaskType
  <2>6. metrics' \in MetricsType /\ metrics'.connections = metrics.connections
    BY <1>0, <2>2, <2>5 DEF MetricsType
  <2> QED BY <1>0, <2>2, <2>3, <2>4, <2>6, TaskOnly
<1> QED BY <1>1, <1>2

\* The invariant holds before anything has happened.
LEMMA InitOK == Init => IInv
<1> SUFFICES ASSUME Init PROVE IInv
  OBVIOUS
<1>0. MaxIdle \in Nat /\ 0 \in 0 .. MaxIdle
  BY MaxIdleType, SMT
<1>1. Config(MaxIdle, 0) \in ConfigType
  BY <1>0 DEF Config, ConfigType
<1>2. /\ <<>> \in Seq(ResponseType) /\ <<>> \in Seq(Nat \X Nat) /\ <<>> \in Seq(Nat)
      /\ <<>> \in Seq(TaskType)
  BY SMT
<1>3. command \in CommandType /\ command.ver = 0
  BY <1>1 DEF Init, CommandType
<1>4. listener \in ListenerType
  BY <1>1 DEF Init, ListenerType
<1>5. ASSUME NEW c \in Conn
      PROVE  /\ conn[c] \in HandlerType
             /\ conn[c].seen = 0 /\ conn[c].pc = "none" /\ conn[c].status = "header"
             /\ conn[c].read = <<>> /\ conn[c].out = <<>> /\ conn[c].queued = <<>>
             /\ conn[c].how = "up"
             /\ client[c] \in ClientType /\ client[c].sent = 0 /\ client[c].got = <<>>
             /\ inbox[c] = <<>> /\ queue[c] = <<>> /\ tasks[c] = <<>>
  <2>1. conn[c] \in HandlerType
    BY <1>0, <1>1, <1>2 DEF Init, HandlerType, Pcs, Hows
  <2>2. client[c] \in ClientType
    BY <1>2 DEF Init, ClientType
  <2> QED BY <2>1, <2>2 DEF Init
<1>6. /\ conn \in [Conn -> HandlerType] /\ client \in [Conn -> ClientType]
      /\ inbox \in [Conn -> Seq(Nat)] /\ queue \in [Conn -> Seq(ResponseType)]
      /\ tasks \in [Conn -> Seq(TaskType)]
  <2>1. conn = [c \in Conn |-> conn[c]] /\ client = [c \in Conn |-> client[c]]
    BY DEF Init
  <2>2. conn \in [Conn -> HandlerType] /\ client \in [Conn -> ClientType]
    BY <1>5, <2>1
  <2> QED BY <1>2, <2>2 DEF Init
<1>7. metrics \in [connections : 0 .. UsizeMod - 1, pending : 0 .. UsizeMod - 1]
  <2>1. 0 \in 0 .. UsizeMod - 1
    BY FS_CardinalityType, ServerAssumption, SMT
  <2> QED BY <2>1 DEF Init
<1>8. \A c \in Conn : client[c].sent <= 2 * Len(Sends[c])
  <2>1. \A c \in Conn : Len(Sends[c]) \in Nat
    BY ServerAssumption, SMTT(30)
  <2> QED BY <1>5, <2>1, SMT
<1>9. Types
  BY <1>3, <1>4, <1>5, <1>6, <1>7, <1>8, SMTT(30) DEF Types
<1>10. ConnectionsCounted
  <2>1. {c \in Conn : Running(c)} = {}
    BY <1>5 DEF Running
  <2> QED BY <2>1, FS_EmptySet DEF ConnectionsCounted, Init
<1>11. ASSUME NEW c \in Conn
       PROVE  /\ Framed(conn[c].read, conn[c].status, conn[c].header, client[c].sent, inbox[c])
              /\ Written(conn[c], client[c].got, queue[c])
              /\ \A i \in 1 .. Len(tasks[c]) : TaskOK(tasks[c][i], conn[c])
  <2>1. Len(<<>>) = 0
    OBVIOUS
  <2>2. Framed(conn[c].read, conn[c].status, conn[c].header, client[c].sent, inbox[c])
    <3>1. Segments(<<>>, "header") = 0
      BY <2>1, SMT DEF Segments
    <3>2. Framed(<<>>, "header", conn[c].header, 0, <<>>)
      BY <2>1, <3>1, SMT DEF Framed
    <3> QED BY <1>5, <3>2
  <2>3. Written(conn[c], client[c].got, queue[c])
    <3>1. Spread(<<>>, <<>>, <<>>, <<>>)
      BY <2>1, SMT DEF Spread
    <3>2. Len(queue[c]) = 0 /\ Len(conn[c].out) = 0 /\ Len(client[c].got) = 0 /\ Len(conn[c].queued) = 0
      BY <1>5, <2>1
    <3>3. Spread(conn[c].queued, client[c].got, conn[c].out, queue[c])
      BY <1>5, <3>1
    <3>4. 0 <= MaxQueued
      BY ServerAssumption, SMT
    <3>5. conn[c].pc = "none" /\ conn[c].how = "up"
      BY <1>5
    <3>6. \A i \in 1 .. Len(client[c].got) : client[c].got[i] = conn[c].queued[i]
      BY <3>2, SMT
    <3>7. Len(client[c].got) <= Len(conn[c].queued)
      BY <3>2, SMT
    <3>8. Len(queue[c]) <= MaxQueued
      BY <3>2, <3>4
    <3>9. Len(conn[c].out) = IF conn[c].pc = "write" THEN 1 ELSE 0
      BY <3>2, <3>5
    <3> HIDE DEF Written
    <3> QED BY <3>3, <3>5, <3>6, <3>7, <3>8, <3>9, Zenon DEF Written
  <2>4. \A i \in 1 .. Len(tasks[c]) : TaskOK(tasks[c][i], conn[c])
    BY <1>5, <2>1, SMT
  <2> QED BY <2>2, <2>3, <2>4
<1> QED BY <1>9, <1>10, <1>11 DEF IInv

\* Every step keeps the invariant: one lemma per action.
LEMMA StepOK == IInv /\ [Next]_vars => IInv'
<1> SUFFICES ASSUME IInv, [Next]_vars PROVE IInv'
  OBVIOUS
<1>1. ASSUME NEW c \in Conn, NEW i \in DOMAIN tasks[c],
             \/ TaskNext(c, i) \/ TaskStore(c, i) \/ TaskPush(c, i)
             \/ TaskCount(c, i) \/ TaskSet(c, i)
      PROVE  IInv'
  <2>1. i \in 1 .. Len(tasks[c])
    BY OfConnection, SMT DEF Good
  <2> QED BY <1>1, <2>1, TaskNextStep, TaskStoreStep, TaskPushStep, TaskCountStep
<1>2. CASE UNCHANGED vars
  <2>1. UNCHANGED <<command, listener, conn, client, inbox, queue, tasks, metrics>>
    BY <1>2 DEF vars
  <2>2. ConnectionsCounted'
    BY <2>1, UnchangedCount
  <2> QED BY <2>1, <2>2 DEF IInv, Types
<1> QED
  BY <1>1, <1>2, GlobalStep, ControlStep, ClientStep, StartStep, QueueStep, WriteStep, HeaderStep,
     BodyStep, CloseStep DEF Next

\* The invariant holds in every state of net/server/stream.rs and connection.rs.
THEOREM ServerInvariant == Spec => []IInv
  BY InitOK, StepOK, PTL DEF Spec

\* The handlers, the tasks and the metrics stay within their types.
THEOREM ServerTypeCorrect == Spec => []TypeOK
<1>1. IInv => TypeOK
  <2> SUFFICES ASSUME IInv PROVE TypeOK
    OBVIOUS
  <2>1. ASSUME NEW c \in Conn
        PROVE  /\ conn[c].age \in 0 .. MaxIdle
               /\ Len(queue[c]) <= MaxQueued
               /\ \A i \in DOMAIN tasks[c] : tasks[c][i].pc \in
                      {"next", "store", "push", "count", "set", "done"}
    <3>1. conn[c].age \in 0 .. MaxIdle /\ Len(queue[c]) <= MaxQueued /\ DOMAIN tasks[c] = 1 .. Len(tasks[c])
      BY OfConnection, SMT DEF Good, HandlerType, Written
    <3>2. \A i \in 1 .. Len(tasks[c]) : tasks[c][i].pc \in
                      {"next", "store", "push", "count", "set", "done"}
      BY OfTask DEF TaskType
    <3> QED BY <3>1, <3>2
  <2> QED BY <2>1 DEF TypeOK, IInv, Types, CommandType, ListenerType
<1> QED BY <1>1, ServerInvariant, PTL

\* The metric the accept limit is compared with counts exactly the handlers that run,
\* for any number of connections.
THEOREM CountedExactly == Spec => []ConnectionsCounted
<1>1. IInv => ConnectionsCounted
  BY DEF IInv
<1> QED BY <1>1, ServerInvariant, PTL

\* Whatever wakes the select in the middle of a message, every body read follows its own
\* length, for any number of messages.
THEOREM FramesKept == Spec => []MessagesKeepTheirFrame
<1>1. IInv => MessagesKeepTheirFrame
  <2> SUFFICES ASSUME IInv, NEW c \in Conn, NEW j \in DOMAIN conn[c].read
               PROVE  conn[c].read[j] = <<2 * j - 1, 2 * j>>
    BY DEF MessagesKeepTheirFrame
  <2>1. conn[c].read \in Seq(Nat \X Nat)
    BY OfConnection DEF Good, HandlerType
  <2>2. j \in 1 .. Len(conn[c].read)
    BY <2>1, SMTT(30)
  <2> QED BY <2>2, OfConnection DEF Good, Framed
<1> QED BY <1>1, ServerInvariant, PTL

\* Responses reach the client in the order they were queued, and all of them do before a
\* connection that was told to stop closes, unless a write fails.
THEOREM QueuedWritten == Spec => []QueuedIsWritten
<1>1. IInv => QueuedIsWritten
  <2> SUFFICES ASSUME IInv, NEW c \in Conn, ~conn[c].failed
               PROVE  /\ client[c].got = SubSeq(conn[c].queued, 1, Len(client[c].got))
                      /\ conn[c].pc = "closed" /\ conn[c].how = "flush" =>
                             client[c].got = conn[c].queued
    BY DEF QueuedIsWritten
  <2>1. conn[c].queued \in Seq(ResponseType) /\ client[c].got \in Seq(ResponseType)
    BY OfConnection DEF Good, HandlerType, ClientType
  <2>2. /\ Len(client[c].got) <= Len(conn[c].queued)
        /\ \A i \in 1 .. Len(client[c].got) : client[c].got[i] = conn[c].queued[i]
        /\ conn[c].pc = "closed" /\ conn[c].how = "flush" => Len(client[c].got) = Len(conn[c].queued)
    BY OfConnection DEF Good, Written
  <2> QED BY <2>1, <2>2, PrefixEqual, SMT
<1> QED BY <1>1, ServerInvariant, PTL

\* The responses of a transaction are all queued, for any service and any queue length.
THEOREM WholeTransactions == Spec => []TransactionsWhole
<1>1. IInv => TransactionsWhole
  <2> SUFFICES ASSUME IInv, NEW c \in Conn, NEW i \in DOMAIN tasks[c],
                      tasks[c][i].pc = "done", conn[c].open,
                      NEW j \in DOMAIN tasks[c][i].plan,
                      NEW b \in 1 .. Len(tasks[c][i].plan) - Len(tasks[c][i].script) + 1,
                      b <= j, InTransaction(tasks[c][i].plan, b, j), tasks[c][i].plan[j].resp
               PROVE  \E q \in DOMAIN conn[c].queued : conn[c].queued[q] = <<tasks[c][i].msg, j>>
    BY DEF TransactionsWhole
  <2> DEFINE t == tasks[c][i]
  <2>1. i \in 1 .. Len(tasks[c])
    BY OfConnection, SMT DEF Good
  <2>2. t \in TaskType /\ Progress(t.msg, t.plan, t.script, "done", t.intx, conn[c].queued, conn[c].open)
    BY <2>1, OfTask DEF TaskOK
  <2>3. t.plan \in Seq(Results) /\ t.script \in Seq(Results) /\ conn[c].queued \in Seq(ResponseType)
    BY <2>2, OfConnection, SMTT(20) DEF TaskType, Good, HandlerType
  <2>4. j \in 1 .. Len(t.plan)
    BY <2>3, SMT
  <2>5. InQueued(conn[c].queued, <<t.msg, j>>)
    BY <2>2, <2>3, <2>4, WholeTransaction
  <2>6. DOMAIN conn[c].queued = 1 .. Len(conn[c].queued)
    BY <2>3, SMT
  <2> QED BY <2>5, <2>6 DEF InQueued
<1> QED BY <1>1, ServerInvariant, PTL
=============================================================================
