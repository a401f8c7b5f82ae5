---------------------------- MODULE ClientsProofs ----------------------------
(***************************************************************************)
(* The transports built from others keep their promises for any number of  *)
(* requests, connections, faults, queries and upstreams.                   *)
(***************************************************************************)
EXTENDS DgramStream, Redundant, TLAPS

(* How a query of the redundant transport stands.  Upstreams 1 .. ind were *)
(* asked, those in fut have not replied; what was heard from the others is *)
(* deferred, and kept as an error or as a reply.                           *)

Kept == {"error", "REFUSED", "SERVFAIL"}

QueryType ==
    [st : {"new", "Probe", "Wait", "Report", "done", "dropped"}, rt : Seq(Upstream), ind : Nat,
     fut : SUBSET Nat, error : BOOLEAN, reply : Outcomes \cup {Nothing},
     result : Outcomes \cup {Nothing, "NoTransportAvailable"}]

\* The upstreams that were asked and have replied.
Replied(ind, fut) == {i \in 1 .. ind : i \notin fut}

Collected(cfg, h, replied, error, rep) ==
    /\ \A i \in replied : h[i] \in cfg
    /\ \A i \in replied : h[i] # "error" => rep # Nothing
    /\ \A i \in replied : h[i] = "error" => error
    /\ rep # Nothing => rep \in cfg /\ rep # "error"

Position(st, ind, fut, len) ==
    /\ ind \in 1 .. len
    /\ fut \subseteq 1 .. ind
    /\ st = "Wait" => ind = len

Asking(cfg, s, h) ==
    /\ Position(s.st, s.ind, s.fut, Len(s.rt))
    /\ Collected(cfg, h, Replied(s.ind, s.fut), s.error, s.reply)
    /\ DOMAIN h = 1 .. Len(s.rt)

Ended(cfg, s, h) ==
    /\ s.result # Nothing
    /\ s.result \in cfg =>
         /\ \A i \in 1 .. Len(s.rt) : h[i] \in cfg
         /\ s.result = "error" => \A i \in 1 .. Len(s.rt) : h[i] = "error"

QueryOK(cfg, s, h) ==
    /\ s \in QueryType
    /\ s.st = "new" => s = Fresh
    /\ s.st \in {"Probe", "Wait"} => Asking(cfg, s, h)
    /\ s.st = "Report" => s.result # Nothing /\ s.result \notin cfg
    /\ s.st = "done" => Ended(cfg, s, h)

RInv ==
    /\ config \subseteq Kept
    /\ conns \in Seq(Upstream)
    /\ query \in [Query -> QueryType]
    /\ heard = [q \in Query |-> heard[q]]
    /\ \A q \in Query : QueryOK(config, query[q], heard[q])

\* Leaves with arithmetic name SMT.
USE Zenon

\* Asking the next upstream, or nobody when there is none, is no reply.
LEMMA ProbeAsks ==
    ASSUME NEW s \in QueryType, NEW h, NEW len \in Nat, len = Len(s.rt), len > 0,
           s.ind \in 0 .. len, s.fut \subseteq 1 .. s.ind, DOMAIN h = 1 .. len,
           Collected(config, h, Replied(s.ind, s.fut), s.error, s.reply)
    PROVE  /\ Probe(s, s.ind + 1) \in QueryType
           /\ Probe(s, s.ind + 1).st \in {"Probe", "Wait"}
           /\ Asking(config, Probe(s, s.ind + 1), h)
<1> DEFINE n == Probe(s, s.ind + 1)
<1>1. CASE s.ind + 1 <= len
  <2>0. s.ind + 1 <= Len(s.rt)
    BY <1>1
  <2>1. n = [s EXCEPT !.st = "Probe", !.ind = s.ind + 1, !.fut = s.fut \cup {s.ind + 1}]
    BY <2>0, Zenon DEF Probe
  <2> HIDE DEF n
  <2>7. s.ind + 1 \in Nat /\ s.fut \cup {s.ind + 1} \in SUBSET Nat
    BY SMT DEF QueryType
  <2>2. n \in QueryType
    BY <2>1, <2>7 DEF QueryType
  <2>3. /\ n.st = "Probe" /\ n.ind = s.ind + 1 /\ n.fut = s.fut \cup {s.ind + 1} /\ n.rt = s.rt
        /\ n.error = s.error /\ n.reply = s.reply
    BY <2>1 DEF QueryType
  <2> HIDE DEF n
  <2>4. Replied(n.ind, n.fut) = Replied(s.ind, s.fut)
    BY <2>3, SMT DEF Replied
  <2>5. Position(n.st, n.ind, n.fut, len)
    BY <1>1, <2>3, SMT DEF Position
  <2>6. Asking(config, n, h)
    BY <2>3, <2>4, <2>5, Zenon DEF Asking
  <2> QED BY <2>2, <2>3, <2>6 DEF n
<1>2. CASE ~ (s.ind + 1 <= len)
  <2>0. ~ (s.ind + 1 <= Len(s.rt))
    BY <1>2
  <2>1. n = [s EXCEPT !.st = "Wait"]
    BY <2>0, Zenon DEF Probe
  <2>2. n \in QueryType
    BY <2>1 DEF QueryType
  <2>3. /\ n.st = "Wait" /\ n.ind = s.ind /\ n.fut = s.fut /\ n.rt = s.rt
        /\ n.error = s.error /\ n.reply = s.reply
    BY <2>1 DEF QueryType
  <2> HIDE DEF n
  <2>5. Position(n.st, n.ind, n.fut, len)
    BY <1>2, <2>3, SMT DEF Position
  <2>6. Asking(config, n, h)
    BY <2>3, <2>5, Zenon DEF Asking
  <2> QED BY <2>2, <2>3, <2>6 DEF n
<1> QED BY <1>1, <1>2

\* A reply that is deferred is collected.
LEMMA ReplyCollected ==
    ASSUME NEW h, NEW len \in Nat, DOMAIN h = 1 .. len, NEW ind \in 1 .. len,
           NEW fut \in SUBSET (1 .. ind), NEW i \in fut, config \subseteq Kept, NEW o \in config,
           NEW error, NEW rep \in Outcomes \cup {Nothing},
           Collected(config, h, Replied(ind, fut), error, rep)
    PROVE  /\ o = "error" => Collected(config, [h EXCEPT ![i] = o], Replied(ind, fut \ {i}), TRUE, rep)
           /\ o # "error" => Collected(config, [h EXCEPT ![i] = o], Replied(ind, fut \ {i}), error,
                                       IF rep = Nothing THEN o ELSE rep)
<1> DEFINE g == [h EXCEPT ![i] = o]
<1>1. Replied(ind, fut \ {i}) = Replied(ind, fut) \cup {i} /\ i \notin Replied(ind, fut)
  BY DEF Replied
<1>2. g[i] = o /\ \A j \in Replied(ind, fut) : g[j] = h[j]
  BY SMT DEF Replied
<1>3. o # Nothing
  BY DEF Kept, Nothing
<1> HIDE DEF g
<1>4. CASE o = "error"
  BY <1>1, <1>2, <1>4 DEF Collected, g
<1>5. CASE o # "error"
  BY <1>1, <1>2, <1>3, <1>5 DEF Collected, g
<1> QED BY <1>4, <1>5

\* Whatever an upstream replies, the query goes on as it should.
LEMMA ReplyAsks ==
    ASSUME NEW s \in QueryType, NEW h, s.st \in {"Probe", "Wait"}, Asking(config, s, h),
           config \subseteq Kept, NEW i \in s.fut, NEW o \in Outcomes
    PROVE  QueryOK(config, NextReply(s, i, o), [h EXCEPT ![i] = o])
<1> DEFINE t == [s EXCEPT !.fut = s.fut \ {i}]
           g == [h EXCEPT ![i] = o]
           d == Defer(t, o)
           n == NextReply(s, i, o)
<1>1. PICK len \in Nat : len = Len(s.rt)
  BY SMT DEF QueryType
<1>2. /\ s.ind \in 1 .. len /\ s.fut \subseteq 1 .. s.ind /\ DOMAIN h = 1 .. len
      /\ s.st = "Wait" => s.ind = len
      /\ Collected(config, h, Replied(s.ind, s.fut), s.error, s.reply)
  BY <1>1 DEF Asking, Position
<1>3. t \in QueryType
  BY DEF QueryType
<1>4. /\ t.st = s.st /\ t.ind = s.ind /\ t.fut = s.fut \ {i} /\ t.rt = s.rt
      /\ t.error = s.error /\ t.reply = s.reply
  BY DEF QueryType
<1>5. CASE o \notin config
  <2>1. n = [t EXCEPT !.st = "Report", !.result = o]
    BY <1>5 DEF NextReply, Skip
  <2> HIDE DEF t, n
  <2>2. n \in QueryType
    BY <1>3, <2>1 DEF QueryType
  <2>3. n.st = "Report" /\ n.result = o
    BY <1>3, <2>1 DEF QueryType
  <2>4. o # Nothing
    BY DEF Outcomes, Nothing
  <2>5. QueryOK(config, n, g)
    BY <1>5, <2>2, <2>3, <2>4 DEF QueryOK
  <2> QED BY <2>5 DEF n
<1>6. CASE o \in config
  <2>1. n = IF s.st = "Probe" /\ i = s.ind THEN Probe(d, s.ind + 1) ELSE d
    BY <1>6 DEF NextReply, Skip
  <2>2. DOMAIN g = 1 .. len
    BY <1>2
  <2> HIDE DEF t, n, g
  <2>3. /\ d \in QueryType /\ d.st = s.st /\ d.ind = s.ind /\ d.fut = s.fut \ {i} /\ d.rt = s.rt
        /\ Collected(config, g, Replied(d.ind, d.fut), d.error, d.reply)
    <3>0. /\ o = "error" => Collected(config, g, Replied(s.ind, s.fut \ {i}), TRUE, s.reply)
          /\ o # "error" => Collected(config, g, Replied(s.ind, s.fut \ {i}), s.error,
                                      IF s.reply = Nothing THEN o ELSE s.reply)
      <4>1. s.error \in BOOLEAN /\ s.reply \in Outcomes \cup {Nothing}
        BY DEF QueryType
      <4>2. s.fut \in SUBSET (1 .. s.ind)
        BY <1>2
      <4> QED BY <1>1, <1>2, <1>6, <4>1, <4>2, ReplyCollected, Zenon DEF g
    <3>1. CASE o = "error"
      <4>1. d = [t EXCEPT !.error = TRUE]
        BY <3>1 DEF Defer
      <4> HIDE DEF d
      <4>2. d \in QueryType
        BY <1>3, <4>1 DEF QueryType
      <4>3. /\ d.st = t.st /\ d.ind = t.ind /\ d.fut = t.fut /\ d.rt = t.rt
            /\ d.error = TRUE /\ d.reply = t.reply
        BY <1>3, <4>1 DEF QueryType
      <4>4. Collected(config, g, Replied(d.ind, d.fut), d.error, d.reply)
        BY <1>4, <3>0, <3>1, <4>3, Zenon
      <4> QED BY <1>4, <4>2, <4>3, <4>4, Zenon
    <3>2. CASE o # "error"
      <4>1. d = [t EXCEPT !.reply = IF t.reply = Nothing THEN o ELSE t.reply]
        BY <3>2 DEF Defer
      <4> HIDE DEF d
      <4>2. d \in QueryType
        BY <1>3, <4>1 DEF QueryType
      <4>3. /\ d.st = t.st /\ d.ind = t.ind /\ d.fut = t.fut /\ d.rt = t.rt
            /\ d.error = t.error /\ d.reply = IF t.reply = Nothing THEN o ELSE t.reply
        BY <1>3, <4>1 DEF QueryType
      <4> QED BY <1>4, <3>0, <3>2, <4>2, <4>3
    <3> QED BY <3>1, <3>2
  <2> HIDE DEF d
  <2>4. d.fut \subseteq 1 .. d.ind
    BY <1>2, <2>3
  <2>5. CASE s.st = "Probe" /\ i = s.ind
    <3>1. n = Probe(d, d.ind + 1)
      BY <2>1, <2>3, <2>5
    <3>2. /\ Probe(d, d.ind + 1) \in QueryType
          /\ Probe(d, d.ind + 1).st \in {"Probe", "Wait"}
          /\ Asking(config, Probe(d, d.ind + 1), g)
      <4>1. len = Len(d.rt) /\ len > 0 /\ d.ind \in 0 .. len
        BY <1>1, <1>2, <2>3, SMT
      <4> QED BY <2>2, <2>3, <2>4, <4>1, ProbeAsks
    <3>3. QueryOK(config, n, g)
      BY <3>1, <3>2 DEF QueryOK
    <3> QED BY <3>3 DEF n, g
  <2>6. CASE ~ (s.st = "Probe" /\ i = s.ind)
    <3>1. n = d
      BY <2>1, <2>6
    <3>2. Position(d.st, d.ind, d.fut, len)
      BY <1>2, <2>3, <2>4 DEF Position
    <3>3. Asking(config, d, g)
      BY <1>1, <2>2, <2>3, <3>2 DEF Asking
    <3>4. QueryOK(config, n, g)
      BY <2>3, <3>1, <3>3 DEF QueryOK
    <3> QED BY <3>4 DEF n, g
  <2> QED BY <2>5, <2>6
<1> QED BY <1>5, <1>6

\* What the steps of one query keep of RInv: the others are as they were.
LEMMA OneQuery ==
    ASSUME RInv, NEW q \in Query, NEW n, NEW g,
           query' = [query EXCEPT ![q] = n], heard' = [heard EXCEPT ![q] = g],
           UNCHANGED <<config, conns>>, QueryOK(config, n, g)
    PROVE  RInv'
<1>1. query' \in [Query -> QueryType]
  BY DEF RInv, QueryOK
<1>2. heard' = [p \in Query |-> heard'[p]]
  BY DEF RInv
<1>3. ASSUME NEW p \in Query PROVE QueryOK(config, query'[p], heard'[p])
  <2>1. CASE p = q
    BY <2>1 DEF RInv
  <2>2. CASE p # q
    BY <2>2 DEF RInv
  <2> QED BY <2>1, <2>2
<1> QED BY <1>1, <1>2, <1>3 DEF RInv

\* Queries that were not made yet.
LEMMA RedundantInit == RInit => RInv
<1> SUFFICES ASSUME RInit PROVE RInv
  OBVIOUS
<1>1. Fresh \in QueryType
  BY SMT DEF Fresh, QueryType
<1>2. Fresh.st = "new"
  BY DEF Fresh
<1>3. \A h : QueryOK(config, Fresh, h)
  BY <1>1, <1>2 DEF QueryOK
<1>4. config \subseteq Kept
  BY RedundantAssumption DEF RInit, Kept
<1> QED BY <1>1, <1>3, <1>4, SMT DEF RInit, RInv

\* What is known of a query by itself.
LEMMA OfQuery ==
    ASSUME RInv, NEW q \in Query
    PROVE  /\ query[q] \in QueryType /\ QueryOK(config, query[q], heard[q])
           /\ config \subseteq Kept /\ conns \in Seq(Upstream)
BY DEF RInv

\* A query starts: nobody was asked yet.
LEMMA AskStep ==
    ASSUME RInv, NEW q \in Query, Request(q)
    PROVE  RInv'
<1> DEFINE h == [i \in DOMAIN conns |-> Nothing]
<1>0. query[q] = Fresh /\ Fresh \in QueryType /\ conns \in Seq(Upstream) /\ config \subseteq Kept
  BY OfQuery DEF Request, QueryOK
<1>1. PICK o \in Orders :
        query' = [query EXCEPT ![q] = IF conns = << >>
                    THEN [Fresh EXCEPT !.st = "done", !.result = "NoTransportAvailable"]
                    ELSE Probe([Fresh EXCEPT !.rt = o], 1)]
  BY <1>0 DEF Request
<1>2. heard' = [heard EXCEPT ![q] = h] /\ UNCHANGED <<config, conns>>
  BY DEF Request
<1>3. CASE conns = << >>
  <2> DEFINE n == [Fresh EXCEPT !.st = "done", !.result = "NoTransportAvailable"]
  <2>1. n \in QueryType
    BY <1>0 DEF QueryType
  <2>2. n.st = "done" /\ n.result = "NoTransportAvailable"
    BY DEF Fresh
  <2>3. n.result \notin config /\ n.result # Nothing
    BY <1>0, <2>2 DEF Kept, Nothing
  <2>4. query' = [query EXCEPT ![q] = n]
    BY <1>1, <1>3
  <2> HIDE DEF n
  <2>5. QueryOK(config, n, h)
    BY <2>1, <2>2, <2>3 DEF QueryOK, Ended
  <2> HIDE DEF h
  <2> QED BY <1>2, <2>4, <2>5, OneQuery
<1>4. CASE conns # << >>
  <2> DEFINE s == [Fresh EXCEPT !.rt = o]
             len == Len(conns)
  <2>1. len \in Nat /\ len > 0 /\ DOMAIN conns = 1 .. len
    BY <1>0, <1>4, SMT
  <2>2. o \in Seq(Upstream) /\ Len(o) = len
    <3>1. o \in [1 .. len -> {conns[i] : i \in DOMAIN conns}]
      BY <1>1, <2>1 DEF Orders
    <3>2. {conns[i] : i \in DOMAIN conns} \subseteq Upstream
      BY <1>0, SMT
    <3>3. o \in [1 .. len -> Upstream]
      BY <3>1, <3>2
    <3> QED BY <2>1, <3>3, SMT
  <2>3. s \in QueryType
    BY <1>0, <2>2 DEF QueryType
  <2>4. s.rt = o /\ s.ind = 0 /\ s.fut = {} /\ s.error = FALSE /\ s.reply = Nothing
    BY DEF Fresh
  <2>11. s.ind + 1 = 1
    BY <2>4, SMT
  <2>5. query' = [query EXCEPT ![q] = Probe(s, s.ind + 1)]
    BY <1>1, <1>4, <2>11, Zenon
  <2>6. DOMAIN h = 1 .. len
    BY <2>1
  <2> HIDE DEF s, h, len
  <2>7. Collected(config, h, Replied(s.ind, s.fut), s.error, s.reply)
    <3>1. Replied(s.ind, s.fut) = {}
      BY <2>4, SMT DEF Replied
    <3> QED BY <2>4, <3>1 DEF Collected
  <2>8. s.fut \subseteq 1 .. s.ind /\ s.ind \in 0 .. len /\ len = Len(s.rt)
    BY <2>1, <2>2, <2>4, SMT
  <2> DEFINE n == Probe(s, s.ind + 1)
  <2>9. n \in QueryType /\ n.st \in {"Probe", "Wait"} /\ Asking(config, n, h)
    BY <2>1, <2>3, <2>6, <2>7, <2>8, ProbeAsks
  <2> HIDE DEF n
  <2>10. QueryOK(config, n, h)
    BY <2>9 DEF QueryOK
  <2> QED BY <1>2, <2>5, <2>10, OneQuery DEF n
<1> QED BY <1>3, <1>4

\* The steps of a query that was asked.
LEMMA ReplyStep ==
    ASSUME RInv, NEW q \in Query, Reply(q)
    PROVE  RInv'
<1>1. PICK i \in query[q].fut, o \in Outcomes :
        /\ query' = [query EXCEPT ![q] = NextReply(query[q], i, o)]
        /\ heard' = [heard EXCEPT ![q] = [heard[q] EXCEPT ![i] = o]]
  BY DEF Reply
<1>2. query[q] \in QueryType /\ query[q].st \in {"Probe", "Wait"} /\ Asking(config, query[q], heard[q])
  BY OfQuery DEF Reply, QueryOK
<1>3. QueryOK(config, NextReply(query[q], i, o), [heard[q] EXCEPT ![i] = o])
  BY <1>2, OfQuery, ReplyAsks, SMT
<1>4. UNCHANGED <<config, conns>>
  BY DEF Reply
<1> QED BY <1>1, <1>3, <1>4, OneQuery

\* The next upstream is asked although the current one may still reply.
LEMMA ExpireStep ==
    ASSUME RInv, NEW q \in Query, Expire(q)
    PROVE  RInv'
<1> DEFINE s == query[q]
           h == heard[q]
           n == Probe(s, s.ind + 1)
<1>1. query' = [query EXCEPT ![q] = n] /\ heard' = heard /\ UNCHANGED <<config, conns>>
  BY DEF Expire
<1>2. s \in QueryType /\ Asking(config, s, h)
  BY OfQuery DEF Expire, QueryOK
<1>3. PICK len \in Nat : len = Len(s.rt)
  BY <1>2, SMT DEF QueryType
<1>4. /\ s.ind \in 1 .. len /\ s.fut \subseteq 1 .. s.ind /\ DOMAIN h = 1 .. len
      /\ Collected(config, h, Replied(s.ind, s.fut), s.error, s.reply)
  BY <1>2, <1>3 DEF Asking, Position
<1>5. len > 0 /\ s.ind \in 0 .. len
  BY <1>4, SMT
<1>6. n \in QueryType /\ n.st \in {"Probe", "Wait"} /\ Asking(config, n, h)
  BY <1>2, <1>3, <1>4, <1>5, ProbeAsks
<1> HIDE DEF n
<1>7. QueryOK(config, n, h)
  BY <1>6 DEF QueryOK
<1>8. heard' = [heard EXCEPT ![q] = h]
  BY <1>1 DEF RInv
<1> QED BY <1>1, <1>7, <1>8, OneQuery

\* Every upstream has replied, and every reply is deferred.
LEMMA NothingLeftStep ==
    ASSUME RInv, NEW q \in Query, NothingLeft(q)
    PROVE  RInv'
<1> DEFINE s == query[q]
           h == heard[q]
           v == IF s.reply # Nothing THEN s.reply ELSE IF s.error THEN "error" ELSE Nothing
           n == [s EXCEPT !.st = "done", !.result = v]
<1>1. query' = [query EXCEPT ![q] = n] /\ heard' = heard /\ UNCHANGED <<config, conns>>
  BY DEF NothingLeft
<1>2. s \in QueryType /\ Asking(config, s, h) /\ s.st = "Wait" /\ s.fut = {}
  BY OfQuery DEF NothingLeft, QueryOK
<1>3. PICK len \in Nat : len = Len(s.rt)
  BY <1>2, SMT DEF QueryType
<1>4. len > 0 /\ Replied(s.ind, s.fut) = 1 .. len
  BY <1>2, <1>3, SMT DEF Asking, Position, Replied
<1>5. Collected(config, h, 1 .. len, s.error, s.reply)
  BY <1>2, <1>4, Zenon DEF Asking
<1>6. /\ v # Nothing
      /\ \A i \in 1 .. len : h[i] \in config
      /\ v = "error" => \A i \in 1 .. len : h[i] = "error"
  <2>1. 1 \in 1 .. len
    BY <1>4, SMT
  <2>2. CASE s.reply # Nothing
    BY <1>5, <2>2, Zenon DEF Collected
  <2>3. CASE s.reply = Nothing
    <3>1. \A i \in 1 .. len : h[i] = "error"
      BY <1>5, <2>3, Zenon DEF Collected
    <3>2. s.error
      BY <1>5, <2>1, <3>1, Zenon DEF Collected
    <3>3. v = "error"
      BY <2>3, <3>2, Zenon
    <3>4. "error" # Nothing
      BY DEF Nothing
    <3> QED BY <1>5, <3>1, <3>3, <3>4, Zenon DEF Collected
  <2> QED BY <2>2, <2>3
<1>7. v \in Outcomes \cup {Nothing}
  BY <1>2 DEF QueryType, Outcomes
<1> HIDE DEF v
<1>8. n \in QueryType
  BY <1>2, <1>7 DEF QueryType
<1>9. n.st = "done" /\ n.result = v /\ n.rt = s.rt
  BY <1>2 DEF QueryType
<1> HIDE DEF n
<1>10. Ended(config, n, h)
  BY <1>3, <1>6, <1>9, Zenon DEF Ended
<1>11. QueryOK(config, n, h)
  BY <1>8, <1>9, <1>10 DEF QueryOK
<1>12. heard' = [heard EXCEPT ![q] = h]
  BY <1>1 DEF RInv
<1> QED BY <1>1, <1>11, <1>12, OneQuery

\* The query is over: with a result that is not deferred, or for nobody.
LEMMA OverStep ==
    ASSUME RInv, NEW q \in Query, Report(q) \/ Drop(q)
    PROVE  RInv'
<1> DEFINE s == query[q]
           h == heard[q]
<1>1. heard' = [heard EXCEPT ![q] = h] /\ UNCHANGED <<config, conns>>
  BY DEF RInv, Report, Drop
<1>2. s \in QueryType /\ QueryOK(config, s, h)
  BY OfQuery
<1>3. CASE Report(q)
  <2> DEFINE n == [s EXCEPT !.st = "done"]
  <2>1. query' = [query EXCEPT ![q] = n]
    BY <1>3 DEF Report
  <2>2. n \in QueryType
    BY <1>2 DEF QueryType
  <2>3. n.st = "done" /\ n.result = s.result
    BY <1>2 DEF QueryType
  <2>4. s.result # Nothing /\ s.result \notin config
    BY <1>2, <1>3 DEF QueryOK, Report
  <2> HIDE DEF n
  <2>5. QueryOK(config, n, h)
    BY <2>2, <2>3, <2>4 DEF QueryOK, Ended
  <2> QED BY <1>1, <2>1, <2>5, OneQuery
<1>4. CASE Drop(q)
  <2> DEFINE n == [s EXCEPT !.st = "dropped"]
  <2>1. query' = [query EXCEPT ![q] = n]
    BY <1>4 DEF Drop
  <2>2. n \in QueryType /\ n.st = "dropped"
    BY <1>2 DEF QueryType
  <2> HIDE DEF n
  <2>5. QueryOK(config, n, h)
    BY <2>2 DEF QueryOK
  <2> QED BY <1>1, <2>1, <2>5, OneQuery
<1> QED BY <1>3, <1>4

(* The redundant transport keeps track of what it heard: every step of a   *)
(* query keeps what is said of it.                                         *)
THEOREM RedundantInvariant == RSpec => []RInv
<1>1. RInv /\ [RNext]_rvars => RInv'
  <2> SUFFICES ASSUME RInv, [RNext]_rvars PROVE RInv'
    OBVIOUS
  <2>1. CASE \E u \in Upstream : Add(u)
    <3>1. conns' \in Seq(Upstream) /\ UNCHANGED <<config, query, heard>>
      BY <2>1, SMT DEF Add, RInv
    <3> QED BY <3>1 DEF RInv
  <2>2. CASE \E q \in Query : Request(q) \/ Reply(q) \/ Expire(q) \/ NothingLeft(q) \/ Report(q) \/ Drop(q)
    BY <2>2, AskStep, ReplyStep, ExpireStep, NothingLeftStep, OverStep
  <2>3. CASE UNCHANGED rvars
    BY <2>3 DEF rvars, RInv
  <2> QED BY <2>1, <2>2, <2>3 DEF RNext
<1> QED BY <1>1, RedundantInit, PTL DEF RSpec

(* The panic of QueryState::Wait in redundant.rs is never reached: a query *)
(* that runs out of upstreams has a deferred error or reply to return,     *)
(* however many upstreams there are and whatever they reply.               *)
THEOREM WaitNeverPanics == RSpec => []SomethingLeft
<1>1. RInv => SomethingLeft
  BY DEF RInv, QueryOK, Ended, SomethingLeft
<1> QED BY <1>1, RedundantInvariant, PTL

(* A deferred error or reply of redundant.rs is returned only after every  *)
(* upstream was asked and replied with something that is deferred, and an  *)
(* error only if there were only errors.                                   *)
THEOREM DeferredComesLast == RSpec => []DeferredIsLast
<1>1. RInv => DeferredIsLast
  <2> SUFFICES ASSUME RInv, NEW q \in Query, query[q].st = "done", query[q].result \in config
               PROVE  /\ \A i \in DOMAIN query[q].rt : heard[q][i] \in config
                      /\ query[q].result = "error" =>
                           \A i \in DOMAIN query[q].rt : heard[q][i] = "error"
    BY DEF DeferredIsLast
  <2>1. query[q].rt \in Seq(Upstream)
    BY OfQuery DEF QueryType
  <2>2. DOMAIN query[q].rt = 1 .. Len(query[q].rt)
    BY <2>1, SMT
  <2>3. Ended(config, query[q], heard[q])
    BY OfQuery DEF QueryOK
  <2> QED BY <2>2, <2>3, Zenon DEF Ended
<1> QED BY <1>1, RedundantInvariant, PTL
------------------------------------------------------------------------------
(* Where a request of the multi-stream transport stands. *)

States == Finals \cup {"new", "udp", "RequestConn", "ReceiveConn", "GetResult", "Waiting", "Delay"}

ReqType == [st : States, id : Nat \cup {None}, retries : 0 .. 2, conn : Nat \cup {None}]

CommandType == [cmd : {"NewConn"}, req : Req, id : Nat \cup {None}] \cup [cmd : {"Shutdown"}]

ConnStateType == {NoConn} \cup [st : {"Some"}, conn : Nat] \cup [st : {"Err"}, elapsed : BOOLEAN]

ConnType == [id : Nat, open : BOOLEAN]

ReplyType == {None, ReplyErr} \cup [ok : {TRUE}, conn : Nat]

MSTypes ==
    /\ req \in [Req -> ReqType]
    /\ chan \in Seq(CommandType)
    /\ connState \in ConnStateType
    /\ connId \in Nat
    /\ optChan \in Req \cup {None}
    /\ reply \in [Req -> ReplyType]
    /\ conn \in Seq(ConnType)
    /\ failedOn \in [Req -> SUBSET Nat]

\* The ids of the stream connections.
Ids(cs) == [n \in 1 .. Len(cs) |-> cs[n].id]

\* No two stream connections have the same id; next, the transport's conn_id, is the
\* id of the current connection or, if there is none, of the next.
Numbered(ids, current, next) ==
    /\ \A m, n \in DOMAIN ids : ids[m] = ids[n] => m = n
    /\ \A n \in DOMAIN ids : ids[n] <= next
    /\ current.st = "Some" => current.conn \in DOMAIN ids /\ ids[current.conn] = next
    /\ current.st # "Some" => \A n \in DOMAIN ids : ids[n] < next

\* A complaint is about a connection the request failed on.
Complaint(f, ids, id) == id # None => \E n \in f : ids[n] = id

\* A request s knows the last connection it was given, and it failed on f.
Sees(s, f, ids) ==
    /\ \A n \in f : n \in DOMAIN ids /\ s.id # None /\ ids[n] <= s.id
    /\ s.st \notin Finals /\ s.conn = None => Complaint(f, ids, s.id)
    /\ s.conn # None => s.conn \in DOMAIN ids /\ s.conn \notin f /\ s.id = ids[s.conn]
    /\ s.st \in {"GetResult", "Waiting"} <=> s.conn # None

\* The places of the commands of r.
Commands(ch, r) == {i \in 1 .. Len(ch) : ch[i].cmd = "NewConn" /\ ch[i].req = r}

\* Only one message about a request is under way: its command, the connect made for
\* it, or the reply.
Expects(r, s, f, rep, ch, opt, next, ids) ==
    /\ \A i, j \in Commands(ch, r) : i = j
    /\ opt = r => Commands(ch, r) = {}
    /\ rep # None => s.st = "ReceiveConn" /\ opt # r /\ Commands(ch, r) = {}
    /\ opt = r \/ Commands(ch, r) # {} => s.st \in Finals \cup {"ReceiveConn"}
    /\ \A i \in Commands(ch, r) : Complaint(f, ids, ch[i].id)
    /\ s.st = "ReceiveConn" =>
         /\ \A i \in Commands(ch, r) : ch[i].id = s.id
         /\ opt = r /\ s.id # None => s.id < next
         /\ rep # None /\ rep.ok =>
              rep.conn \in DOMAIN ids /\ (s.id # None => s.id < ids[rep.conn])

RequestOK(r, s, f, rep, ch, opt, next, ids) ==
    /\ Sees(s, f, ids)
    /\ Expects(r, s, f, rep, ch, opt, next, ids)

MSInv ==
    /\ MSTypes
    /\ Numbered(Ids(conn), connState, connId)
    /\ run = "connecting" <=> optChan # None
    /\ run = "connecting" => connState.st # "Some"
    /\ \A r \in Req :
         RequestOK(r, req[r], failedOn[r], reply[r], chan, optChan, connId, Ids(conn))

\* What is known of one request.
LEMMA OfRequest ==
    ASSUME MSInv, NEW r \in Req
    PROVE  /\ req[r] \in ReqType /\ failedOn[r] \in SUBSET Nat /\ reply[r] \in ReplyType
           /\ RequestOK(r, req[r], failedOn[r], reply[r], chan, optChan, connId, Ids(conn))
BY DEF MSInv, MSTypes

\* The ids of the connections are numbers.
LEMMA IdsType ==
    ASSUME MSInv
    PROVE  /\ Ids(conn) \in [1 .. Len(conn) -> Nat] /\ DOMAIN Ids(conn) = 1 .. Len(conn)
           /\ DOMAIN conn = 1 .. Len(conn) /\ Len(conn) \in Nat
           /\ \A n \in DOMAIN conn : conn[n].id = Ids(conn)[n]
<1>1. conn \in Seq(ConnType)
  BY DEF MSInv, MSTypes
<1>3. \A n \in 1 .. Len(conn) : conn[n] \in ConnType
  BY <1>1, SMT
<1>2. DOMAIN conn = 1 .. Len(conn) /\ \A n \in 1 .. Len(conn) : conn[n].id \in Nat
  BY <1>1, <1>3, SMT DEF ConnType
<1> QED BY <1>1, <1>2, SMT DEF Ids

\* A step of one request that leaves the transport alone.
LEMMA OneRequest ==
    ASSUME MSInv, NEW r \in Req, NEW n \in ReqType, NEW f \in SUBSET Nat, NEW v \in ReplyType,
           req' = [req EXCEPT ![r] = n], failedOn' = [failedOn EXCEPT ![r] = f],
           reply' = [reply EXCEPT ![r] = v],
           UNCHANGED <<chan, run, connState, connId, optChan, conn>>,
           RequestOK(r, n, f, v, chan, optChan, connId, Ids(conn))
    PROVE  MSInv'
<1>1. MSTypes'
  BY DEF MSInv, MSTypes
<1>2. ASSUME NEW p \in Req
      PROVE  RequestOK(p, req'[p], failedOn'[p], reply'[p], chan, optChan, connId, Ids(conn))
  <2>1. CASE p = r
    BY <2>1 DEF MSInv, MSTypes
  <2>2. CASE p # r
    <3>1. req'[p] = req[p] /\ failedOn'[p] = failedOn[p] /\ reply'[p] = reply[p]
      BY <2>2 DEF MSInv, MSTypes
    <3> QED BY <3>1, OfRequest
  <2> QED BY <2>1, <2>2
<1> QED BY <1>1, <1>2 DEF MSInv

\* The request moves on, without a connection, or ends.
LEMMA MoveOK ==
    ASSUME NEW r, NEW s \in ReqType, NEW n \in ReqType, NEW f, NEW rep, NEW v, NEW ch, NEW opt,
           NEW next, NEW ids, RequestOK(r, s, f, rep, ch, opt, next, ids),
           n.conn = None, n.id = s.id, v = None,
           \/ n.st \in Finals
           \/ s.st \in {"new", "udp", "RequestConn", "Delay"} /\ n.st \in {"new", "udp", "RequestConn", "Delay"}
           \/ /\ s.st = "ReceiveConn" /\ n.st = "Delay"
              /\ rep # None
    PROVE  RequestOK(r, n, f, v, ch, opt, next, ids)
<1>1. n.st \notin {"GetResult", "Waiting", "ReceiveConn"}
  BY DEF Finals
<1>2. n.st \notin Finals => s.st \notin Finals \cup {"GetResult", "Waiting"}
  BY DEF Finals
<1>3. Sees(n, f, ids)
  BY <1>1, <1>2 DEF RequestOK, Sees
<1>4. opt = r \/ Commands(ch, r) # {} => n.st \in Finals \cup {"ReceiveConn"}
  BY <1>2 DEF RequestOK, Expects, Finals
<1>5. Expects(r, n, f, v, ch, opt, next, ids)
  BY <1>1, <1>4 DEF RequestOK, Expects
<1> QED BY <1>3, <1>5 DEF RequestOK

\* The arms for Err: the request failed on its connection.
LEMMA RetryOK ==
    ASSUME NEW r, NEW s \in ReqType, NEW n \in ReqType, NEW f, NEW rep, NEW ch, NEW opt,
           NEW next, NEW ids, RequestOK(r, s, f, rep, ch, opt, next, ids),
           DOMAIN ids \subseteq Nat, \A k \in DOMAIN ids : ids[k] \in Nat,
           s.st \in {"GetResult", "Waiting"}, n.conn = None, n.id = s.id,
           n.st \in {"RequestConn", "Delay"}
    PROVE  RequestOK(r, n, f \cup {s.conn}, rep, ch, opt, next, ids)
<1>1. s.conn # None /\ s.conn \in DOMAIN ids /\ s.id = ids[s.conn] /\ s.id # None
  BY MultiStreamAssumption DEF RequestOK, Sees
<1>2. n.st \notin Finals \cup {"GetResult", "Waiting", "ReceiveConn"}
  BY DEF Finals
<1>3. Sees(n, f \cup {s.conn}, ids)
  BY <1>1, <1>2, SMT DEF RequestOK, Sees, Complaint
<1>4. s.st \notin Finals \cup {"ReceiveConn"}
  BY DEF Finals
<1>5. rep = None /\ opt # r /\ Commands(ch, r) = {}
  BY <1>4 DEF RequestOK, Expects
<1>6. Expects(r, n, f \cup {s.conn}, rep, ch, opt, next, ids)
  BY <1>2, <1>5 DEF Expects
<1> QED BY <1>3, <1>6 DEF RequestOK

\* The steps of a request that end it or only wait.
LEMMA WaitStep ==
    ASSUME MSInv, NEW r \in Req, Delay(r) \/ Answer(r) \/ WrongReply(r)
    PROVE  MSInv'
<1> DEFINE s == req[r]
           n == req'[r]
<1>5. s \in ReqType /\ UNCHANGED <<chan, run, connState, connId, optChan, conn, reply, failedOn>>
  BY OfRequest DEF Delay, Answer, WrongReply
<1>1. /\ req' = [req EXCEPT ![r] = n]
      /\ n \in ReqType /\ n.id = s.id
      /\ \/ s.st = "Delay" /\ n.st = "RequestConn" /\ n.conn = s.conn
         \/ s.st = "Waiting" /\ n.st \in Finals /\ n.conn = None
  <2>1. CASE Delay(r)
    <3>1. n = [s EXCEPT !.st = "RequestConn"] /\ req' = [req EXCEPT ![r] = n]
      BY <2>1 DEF MSInv, MSTypes, Delay, Goto
    <3> HIDE DEF n
    <3> QED BY <1>5, <2>1, <3>1 DEF ReqType, States, Delay
  <2>2. CASE Answer(r)
    <3>1. n = [s EXCEPT !.st = "answer", !.conn = None] /\ req' = [req EXCEPT ![r] = n]
      BY <2>2 DEF MSInv, MSTypes, Answer
    <3> HIDE DEF n
    <3> QED BY <1>5, <2>2, <3>1 DEF ReqType, States, Finals, Answer
  <2>3. CASE WrongReply(r)
    <3>1. n = [s EXCEPT !.st = "WrongReplyForQuery", !.conn = None] /\ req' = [req EXCEPT ![r] = n]
      BY <2>3 DEF MSInv, MSTypes, WrongReply
    <3> HIDE DEF n
    <3> QED BY <1>5, <2>3, <3>1 DEF ReqType, States, Finals, WrongReply
  <2> QED BY <2>1, <2>2, <2>3
<1>2. s.st # "ReceiveConn" /\ reply[r] = None /\ n.conn = None
  BY <1>1, OfRequest DEF RequestOK, Expects, Sees
<1>3. RequestOK(r, n, failedOn[r], reply[r], chan, optChan, connId, Ids(conn))
  <2> HIDE DEF s, n
  <2>1. s \in ReqType /\ RequestOK(r, s, failedOn[r], reply[r], chan, optChan, connId, Ids(conn))
    BY OfRequest DEF s
  <2> QED BY <1>1, <1>2, <2>1, MoveOK
<1>4. reply' = [reply EXCEPT ![r] = reply[r]] /\ failedOn' = [failedOn EXCEPT ![r] = failedOn[r]]
  BY <1>5 DEF MSInv, MSTypes
<1> HIDE DEF n
<1> QED BY <1>1, <1>3, <1>4, <1>5, OfRequest, OneRequest

\* A request that is dropped forgets its connection and its reply.
LEMMA CancelStep ==
    ASSUME MSInv, NEW r \in Req, Cancel(r)
    PROVE  MSInv'
<1> DEFINE s == req[r]
           n == [s EXCEPT !.st = "dropped", !.conn = None]
<1>1. /\ UNCHANGED <<chan, run, connState, connId, optChan, conn, failedOn>>
      /\ req' = [req EXCEPT ![r] = n] /\ reply' = [reply EXCEPT ![r] = None]
  BY DEF Cancel
<1>2. n \in ReqType /\ n.id = s.id /\ n.st \in Finals /\ n.conn = None
  BY OfRequest DEF ReqType, Finals, States
<1>3. RequestOK(r, n, failedOn[r], None, chan, optChan, connId, Ids(conn))
  <2> HIDE DEF s, n
  <2>1. s \in ReqType /\ RequestOK(r, s, failedOn[r], reply[r], chan, optChan, connId, Ids(conn))
    BY OfRequest DEF s
  <2> QED BY <1>2, <2>1, MoveOK
<1>4. failedOn' = [failedOn EXCEPT ![r] = failedOn[r]] /\ None \in ReplyType
  BY <1>1 DEF MSInv, MSTypes, ReplyType
<1> HIDE DEF n
<1> QED BY <1>1, <1>2, <1>3, <1>4, OfRequest, OneRequest

\* A request hands itself to its connection, or fails on it.
LEMMA RetryStep ==
    ASSUME MSInv, NEW r \in Req, SendQuery(r) \/ Refuse(r) \/ Fail(r)
    PROVE  MSInv'
<1> DEFINE s == req[r]
<1>0. UNCHANGED <<chan, run, connState, connId, optChan, conn, reply>> /\ s.st \in {"GetResult", "Waiting"}
  BY DEF SendQuery, Refuse, Fail
<1>1. s \in ReqType /\ RequestOK(r, s, failedOn[r], reply[r], chan, optChan, connId, Ids(conn))
  BY OfRequest
<1>2. reply' = [reply EXCEPT ![r] = reply[r]]
  BY <1>0 DEF MSInv, MSTypes
<1>3. CASE s.st = "GetResult" /\ Goto(r, "Waiting") /\ UNCHANGED failedOn
  <2> DEFINE n == [s EXCEPT !.st = "Waiting"]
  <2>1. req' = [req EXCEPT ![r] = n] /\ failedOn' = [failedOn EXCEPT ![r] = failedOn[r]]
    BY <1>3 DEF Goto, MSInv, MSTypes
  <2>2. n \in ReqType /\ n.id = s.id /\ n.st = "Waiting" /\ n.conn = s.conn
    BY <1>1 DEF ReqType, States
  <2> HIDE DEF n, s
  <2>3. "GetResult" \notin Finals \cup {"ReceiveConn"} /\ "Waiting" \notin Finals \cup {"ReceiveConn"}
    BY DEF Finals
  <2>4. RequestOK(r, n, failedOn[r], reply[r], chan, optChan, connId, Ids(conn))
    BY <1>1, <1>3, <2>2, <2>3 DEF RequestOK, Sees, Expects
  <2> QED BY <1>0, <1>2, <2>1, <2>2, <2>4, OfRequest, OneRequest
<1>4. CASE \E e : Retry(r, e)
  <2>1. PICK e : Retry(r, e)
    BY <1>4
  <2> DEFINE n == [s EXCEPT !.retries = Count(s.retries), !.conn = None,
                            !.st = IF e = "ConnectionClosed" /\ s.retries = 0
                                   THEN "RequestConn" ELSE "Delay"]
  <2>2. req' = [req EXCEPT ![r] = n] /\ failedOn' = [failedOn EXCEPT ![r] = failedOn[r] \cup {s.conn}]
    BY <2>1 DEF Retry
  <2>3. Count(s.retries) \in 0 .. 2
    BY <1>1, SMT DEF Count, ReqType
  <2>4. n \in ReqType /\ n.id = s.id /\ n.st \in {"RequestConn", "Delay"} /\ n.conn = None
    BY <1>1, <2>3 DEF ReqType, States
  <2>5. RequestOK(r, n, failedOn[r] \cup {s.conn}, reply[r], chan, optChan, connId, Ids(conn))
    <3> HIDE DEF n, s
    <3>1. DOMAIN Ids(conn) \subseteq Nat /\ \A k \in DOMAIN Ids(conn) : Ids(conn)[k] \in Nat
      BY IdsType, SMT
    <3> QED BY <1>0, <1>1, <2>4, <3>1, RetryOK
  <2>6. failedOn[r] \cup {s.conn} \in SUBSET Nat
    BY <1>0, <1>1, OfRequest DEF RequestOK, Sees, ReqType
  <2> HIDE DEF n
  <2> QED BY <1>0, <1>2, <2>2, <2>4, <2>5, <2>6, OfRequest, OneRequest
<1> QED BY <1>3, <1>4 DEF SendQuery, Refuse, Fail

\* MSInv says nothing of the other variables.
LEMMA Untouched ==
    ASSUME MSInv, UNCHANGED <<req, chan, run, connState, connId, optChan, reply, conn, failedOn>>
    PROVE  MSInv'
BY DEF MSInv, MSTypes

\* Over datagrams a request has no connection yet.
LEMMA DatagramStep ==
    ASSUME MSInv, NEW r \in Req, UdpStep(r)
    PROVE  MSInv'
<1>0. UNCHANGED <<chan, run, connState, connId, optChan, reply, conn, failedOn>>
  BY DEF UdpStep, SendRequest, Transmit, Timeout, ReceiveError, Receive
<1>1. /\ req[r].st \in {"new", "udp"}
      /\ \/ req' = req
         \/ \E st \in {"udp", "RequestConn", "udp answer", "QueryError"} : Goto(r, st)
  BY DEF UdpStep, SendRequest, Transmit, Timeout, ReceiveError, Receive, NextTry, Accept, Ignore
<1>2. CASE req' = req
  BY <1>0, <1>2, Untouched
<1>3. ASSUME NEW st \in {"udp", "RequestConn", "udp answer", "QueryError"}, Goto(r, st)
      PROVE  MSInv'
  <2> DEFINE s == req[r]
             n == [s EXCEPT !.st = st]
  <2>1. s \in ReqType /\ RequestOK(r, s, failedOn[r], reply[r], chan, optChan, connId, Ids(conn))
    BY OfRequest
  <2>2. req' = [req EXCEPT ![r] = n]
    BY <1>3 DEF Goto
  <2>3. n \in ReqType /\ n.id = s.id /\ n.st = st /\ n.conn = s.conn
    BY <2>1 DEF ReqType, States, Finals
  <2>4. s.st # "ReceiveConn" /\ reply[r] = None /\ n.conn = None
    BY <1>1, <2>1, <2>3 DEF RequestOK, Expects, Sees
  <2>5. st \in {"new", "udp", "RequestConn", "Delay"} \/ st \in Finals
    BY DEF Finals
  <2>6. RequestOK(r, n, failedOn[r], reply[r], chan, optChan, connId, Ids(conn))
    <3> HIDE DEF n, s
    <3>1. s.st \in {"new", "udp", "RequestConn", "Delay"}
      BY <1>1 DEF s
    <3> QED BY <2>1, <2>3, <2>4, <2>5, <3>1, MoveOK
  <2>7. reply' = [reply EXCEPT ![r] = reply[r]] /\ failedOn' = [failedOn EXCEPT ![r] = failedOn[r]]
    BY <1>0 DEF MSInv, MSTypes
  <2> HIDE DEF n
  <2> QED BY <1>0, <2>2, <2>3, <2>6, <2>7, OfRequest, OneRequest
<1> QED BY <1>1, <1>2, <1>3

\* The reply to a request, or that there will be none.
LEMMA ReceiveStep ==
    ASSUME MSInv, NEW r \in Req, ReceiveConn(r)
    PROVE  MSInv'
<1> DEFINE s == req[r]
           f == failedOn[r]
           v == reply[r]
<1>0. /\ UNCHANGED <<chan, run, connState, connId, optChan, conn>>
      /\ reply' = [reply EXCEPT ![r] = None] /\ failedOn' = [failedOn EXCEPT ![r] = f]
      /\ s.st = "ReceiveConn" /\ None \in ReplyType
  BY DEF ReceiveConn, MSInv, MSTypes, ReplyType
<1>1. s \in ReqType /\ RequestOK(r, s, f, v, chan, optChan, connId, Ids(conn)) /\ f \in SUBSET Nat
  BY OfRequest
<1>2. CASE /\ v # None /\ v.ok
           /\ req' = [req EXCEPT ![r].st = "GetResult", ![r].conn = v.conn, ![r].id = conn[v.conn].id]
  <2> DEFINE id == conn[v.conn].id
             n == [s EXCEPT !.st = "GetResult", !.conn = v.conn, !.id = id]
  <2>1. req' = [req EXCEPT ![r] = n]
    BY <1>2
  <2>2. /\ v.conn \in DOMAIN Ids(conn) /\ (s.id # None => s.id < Ids(conn)[v.conn])
        /\ optChan # r /\ Commands(chan, r) = {}
    BY <1>0, <1>1, <1>2 DEF RequestOK, Expects
  <2>3. v.conn \in Nat /\ id = Ids(conn)[v.conn] /\ id \in Nat
    BY <2>2, IdsType, SMT
  <2> HIDE DEF id
  <2>4. n \in ReqType
    BY <1>1, <2>3 DEF ReqType, States
  <2>5. n.st = "GetResult" /\ n.conn = v.conn /\ n.id = id
    BY <1>1 DEF ReqType
  <2> HIDE DEF n
  <2>6. \A k \in f : k \in DOMAIN Ids(conn) /\ Ids(conn)[k] < id
    <3> SUFFICES ASSUME NEW k \in f PROVE k \in DOMAIN Ids(conn) /\ Ids(conn)[k] < id
      OBVIOUS
    <3>1. k \in DOMAIN Ids(conn) /\ s.id # None /\ Ids(conn)[k] <= s.id
      BY <1>1 DEF RequestOK, Sees
    <3>2. s.id \in Nat /\ Ids(conn)[k] \in Nat
      BY <1>1, <3>1, IdsType DEF ReqType
    <3> QED BY <2>2, <2>3, <3>1, <3>2, SMT
  <2>7. v.conn \notin f /\ v.conn # None /\ id # None
    BY <2>3, <2>6, MultiStreamAssumption, SMT
  <2>8. \A k \in f : Ids(conn)[k] <= id
    BY <2>3, <2>6, IdsType, SMT
  <2>9. Sees(n, f, Ids(conn))
    BY <2>2, <2>3, <2>5, <2>6, <2>7, <2>8 DEF Sees
  <2>10. Expects(r, n, f, None, chan, optChan, connId, Ids(conn))
    BY <2>2, <2>5 DEF Expects
  <2>11. RequestOK(r, n, f, None, chan, optChan, connId, Ids(conn))
    BY <2>9, <2>10 DEF RequestOK
  <2> HIDE DEF f
  <2> QED BY <1>0, <1>1, <2>1, <2>4, <2>11, OneRequest
<1>3. CASE /\ v # None /\ ~ v.ok
           /\ req' = [req EXCEPT ![r].st = "Delay", ![r].retries = Count(s.retries)]
  <2> DEFINE n == [s EXCEPT !.st = "Delay", !.retries = Count(s.retries)]
  <2>1. req' = [req EXCEPT ![r] = n]
    BY <1>3
  <2>2. Count(s.retries) \in 0 .. 2
    BY <1>1, SMT DEF Count, ReqType
  <2>3. n \in ReqType /\ n.st = "Delay" /\ n.id = s.id /\ n.conn = s.conn
    BY <1>1, <2>2 DEF ReqType, States
  <2>4. n.conn = None
    BY <1>0, <1>1, <2>3 DEF RequestOK, Sees
  <2>5. RequestOK(r, n, f, None, chan, optChan, connId, Ids(conn))
    <3> HIDE DEF n, s, f, v
    <3> QED BY <1>0, <1>1, <1>3, <2>3, <2>4, MoveOK
  <2> HIDE DEF n, f
  <2> QED BY <1>0, <1>1, <2>1, <2>3, <2>5, OneRequest
<1>4. CASE v = None /\ ~ SenderHeld(r) /\ Goto(r, "StreamReceiveError")
  <2> DEFINE n == [s EXCEPT !.st = "StreamReceiveError"]
  <2>1. req' = [req EXCEPT ![r] = n]
    BY <1>4 DEF Goto
  <2>3. n \in ReqType /\ n.st \in Finals /\ n.id = s.id /\ n.conn = s.conn
    BY <1>1 DEF ReqType, States, Finals
  <2>4. n.conn = None
    BY <1>0, <1>1, <2>3 DEF RequestOK, Sees
  <2>5. RequestOK(r, n, f, None, chan, optChan, connId, Ids(conn))
    <3> HIDE DEF n, s, f, v
    <3> QED BY <1>1, <2>3, <2>4, MoveOK
  <2> HIDE DEF n, f
  <2> QED BY <1>0, <1>1, <2>1, <2>3, <2>5, OneRequest
<1> QED BY <1>2, <1>3, <1>4 DEF ReceiveConn

\* Commands are appended to the channel, and taken from its head.
LEMMA AppendCommand ==
    ASSUME NEW ch \in Seq(CommandType), NEW m \in CommandType, NEW p
    PROVE  /\ Commands(Append(ch, m), p) =
                Commands(ch, p) \cup {i \in {Len(ch) + 1} : m.cmd = "NewConn" /\ m.req = p}
           /\ \A i \in Commands(ch, p) : Append(ch, m)[i] = ch[i]
           /\ Append(ch, m)[Len(ch) + 1] = m
           /\ Append(ch, m) \in Seq(CommandType)
<1>1. /\ Len(Append(ch, m)) = Len(ch) + 1 /\ Append(ch, m)[Len(ch) + 1] = m /\ Len(ch) \in Nat
      /\ \A i \in 1 .. Len(ch) : Append(ch, m)[i] = ch[i]
  BY SMT
<1>2. ASSUME NEW i \in 1 .. Len(ch) + 1
      PROVE  i \in 1 .. Len(ch) \/ i = Len(ch) + 1
  BY <1>1, SMT
<1> DEFINE ap == Append(ch, m)
<1>3. ap \in Seq(CommandType)
  BY SMT
<1> HIDE DEF ap
<1>4. 1 .. Len(ch) \subseteq 1 .. Len(ch) + 1 /\ Len(ch) + 1 \in 1 .. Len(ch) + 1
  BY <1>1, SMT
<1>5. Commands(ap, p) = Commands(ch, p) \cup {i \in {Len(ch) + 1} : m.cmd = "NewConn" /\ m.req = p}
  BY <1>1, <1>2, <1>4 DEF Commands, ap
<1> QED BY <1>1, <1>3, <1>5 DEF Commands, ap

\* A command of another request, or a shutdown, is none of p.
LEMMA OtherCommand ==
    ASSUME NEW ch \in Seq(CommandType), NEW m \in CommandType, NEW p,
           ~ (m.cmd = "NewConn" /\ m.req = p)
    PROVE  /\ Commands(Append(ch, m), p) = Commands(ch, p)
           /\ \A i \in Commands(ch, p) : Append(ch, m)[i] = ch[i]
<1>1. /\ Len(Append(ch, m)) = Len(ch) + 1 /\ Append(ch, m)[Len(ch) + 1] = m /\ Len(ch) \in Nat
      /\ \A i \in 1 .. Len(ch) : Append(ch, m)[i] = ch[i]
  BY SMT
<1>2. /\ \A i \in 1 .. Len(ch) + 1 : i \in 1 .. Len(ch) \/ i = Len(ch) + 1
      /\ 1 .. Len(ch) \subseteq 1 .. Len(ch) + 1
  BY <1>1, SMT
<1> QED BY <1>1, <1>2 DEF Commands

\* The rest of the channel after its head is taken.
LEMMA TailCommand ==
    ASSUME NEW ch \in Seq(CommandType), ch # << >>, NEW p
    PROVE  /\ \A i \in Commands(Tail(ch), p) : i + 1 \in Commands(ch, p) /\ Tail(ch)[i] = ch[i + 1]
           /\ \A i \in Commands(Tail(ch), p) : i \in Nat /\ i > 0
           /\ Tail(ch) \in Seq(CommandType) /\ Head(ch) \in CommandType
           /\ Head(ch).cmd = "NewConn" /\ Head(ch).req = p => 1 \in Commands(ch, p)
           /\ Head(ch) = ch[1]
<1>1. /\ Len(Tail(ch)) = Len(ch) - 1 /\ Len(ch) \in Nat /\ Len(ch) > 0
      /\ \A i \in 1 .. Len(ch) - 1 : Tail(ch)[i] = ch[i + 1] /\ i + 1 \in 1 .. Len(ch)
      /\ Tail(ch) \in Seq(CommandType) /\ Head(ch) = ch[1] /\ 1 \in 1 .. Len(ch)
  BY SMT
<1>2. Head(ch) \in CommandType
  BY <1>1, SMT
<1> DEFINE tl == Tail(ch)
<1> HIDE DEF tl
<1>3. \A i \in Commands(tl, p) : i \in 1 .. Len(ch) - 1 /\ tl[i].cmd = "NewConn" /\ tl[i].req = p
  BY <1>1 DEF Commands, tl
<1>4. \A i \in Commands(tl, p) : i + 1 \in Commands(ch, p) /\ tl[i] = ch[i + 1] /\ i \in Nat /\ i > 0
  BY <1>1, <1>3, SMT DEF Commands, tl
<1> QED BY <1>1, <1>2, <1>4 DEF Commands, tl

\* What was known of a request holds when a command is taken from the channel, and
\* it has no other.
LEMMA TailOK ==
    ASSUME NEW p, NEW s, NEW f, NEW rep, NEW ch \in Seq(CommandType), ch # << >>, NEW opt,
           NEW next, NEW ids, RequestOK(p, s, f, rep, ch, opt, next, ids)
    PROVE  /\ RequestOK(p, s, f, rep, Tail(ch), opt, next, ids)
           /\ Head(ch).cmd = "NewConn" /\ Head(ch).req = p => Commands(Tail(ch), p) = {}
<1> DEFINE tl == Tail(ch)
<1> HIDE DEF tl
<1>1. \A i \in Commands(tl, p) : i + 1 \in Commands(ch, p) /\ tl[i] = ch[i + 1] /\ i \in Nat /\ i > 0
  BY TailCommand DEF tl
<1>2. \A i, j \in Commands(tl, p) : i = j
  <2>1. \A i, j \in Commands(tl, p) : i + 1 = j + 1
    BY <1>1 DEF RequestOK, Expects
  <2> QED BY <1>1, <2>1, SMT
<1>3. Commands(ch, p) = {} => Commands(tl, p) = {}
  BY <1>1
<1>4. \A i \in Commands(tl, p) : Complaint(f, ids, tl[i].id)
  BY <1>1 DEF RequestOK, Expects
<1>5. Expects(p, s, f, rep, tl, opt, next, ids)
  BY <1>1, <1>2, <1>3, <1>4 DEF RequestOK, Expects
<1>6. ASSUME 1 \in Commands(ch, p), NEW i \in Commands(tl, p) PROVE FALSE
  <2>1. i + 1 = 1
    BY <1>1, <1>6 DEF RequestOK, Expects
  <2> QED BY <1>1, <2>1, SMT
<1>7. Head(ch).cmd = "NewConn" /\ Head(ch).req = p => Commands(tl, p) = {}
  BY <1>6, TailCommand
<1> QED BY <1>5, <1>7 DEF RequestOK, tl

\* The channel is closed: the commands in it are gone.
LEMMA EmptiedOK ==
    ASSUME NEW p, NEW s, NEW f, NEW rep, NEW ch, NEW opt,
           NEW next, NEW ids, RequestOK(p, s, f, rep, ch, opt, next, ids)
    PROVE  RequestOK(p, s, f, rep, << >>, opt, next, ids)
<1>1. Commands(<< >>, p) = {}
  BY SMT DEF Commands
<1> QED BY <1>1 DEF RequestOK, Expects

\* More connections do not matter to what is known of a request.
LEMMA ExtendedOK ==
    ASSUME NEW p, NEW s, NEW f, NEW rep, NEW ch, NEW opt, NEW next, NEW ids, NEW more,
           RequestOK(p, s, f, rep, ch, opt, next, ids),
           DOMAIN ids \subseteq DOMAIN more, \A n \in DOMAIN ids : more[n] = ids[n]
    PROVE  RequestOK(p, s, f, rep, ch, opt, next, more)
<1>1. f \subseteq DOMAIN ids
  BY DEF RequestOK, Sees
<1>2. \A id : Complaint(f, ids, id) => Complaint(f, more, id)
  BY <1>1 DEF Complaint
<1>3. Sees(s, f, more)
  BY <1>2 DEF RequestOK, Sees
<1>4. Expects(p, s, f, rep, ch, opt, next, more)
  BY <1>2 DEF RequestOK, Expects
<1> QED BY <1>3, <1>4 DEF RequestOK

\* The request whose turn it is is told v, if it still waits; nobody waits for a
\* connect any more.
LEMMA TellOK ==
    ASSUME NEW r, NEW s, NEW f, NEW rep, NEW v, NEW ch, NEW opt, NEW next, NEW ids,
           RequestOK(r, s, f, rep, ch, opt, next, ids), r # None, Commands(ch, r) = {},
           v.ok => v.conn \in DOMAIN ids /\ (s.st = "ReceiveConn" /\ s.id # None => s.id < ids[v.conn])
    PROVE  RequestOK(r, s, f, IF s.st = "ReceiveConn" THEN v ELSE rep, ch, None, next, ids)
<1>1. CASE s.st = "ReceiveConn"
  BY <1>1 DEF RequestOK, Expects
<1>2. CASE s.st # "ReceiveConn"
  BY <1>2 DEF RequestOK, Expects
<1> QED BY <1>1, <1>2

\* A request asks for a connection, and names the last one it had.
LEMMA AskConnStep ==
    ASSUME MSInv, NEW r \in Req, RequestConn(r)
    PROVE  MSInv'
<1> DEFINE s == req[r]
<1>0. /\ UNCHANGED <<run, connState, connId, optChan, conn, failedOn>> /\ s.st = "RequestConn"
      /\ chan \in Seq(CommandType) /\ None \in ReplyType
  BY DEF RequestConn, MSInv, MSTypes, ReplyType
<1>1. /\ s \in ReqType /\ failedOn[r] \in SUBSET Nat
      /\ RequestOK(r, s, failedOn[r], reply[r], chan, optChan, connId, Ids(conn))
  BY OfRequest
<1>2. /\ s.st \notin Finals \cup {"ReceiveConn"} /\ s.conn = None /\ Complaint(failedOn[r], Ids(conn), s.id)
      /\ optChan # r /\ Commands(chan, r) = {} /\ reply[r] = None
  <2>1. s.st \notin Finals \cup {"ReceiveConn"}
    BY <1>0 DEF Finals
  <2> QED BY <1>0, <1>1, <2>1 DEF RequestOK, Sees, Expects
<1>3. CASE Goto(r, "ConnectionClosed") /\ UNCHANGED <<chan, reply>>
  <2> DEFINE n == [s EXCEPT !.st = "ConnectionClosed"]
  <2>1. /\ req' = [req EXCEPT ![r] = n] /\ failedOn' = [failedOn EXCEPT ![r] = failedOn[r]]
        /\ reply' = [reply EXCEPT ![r] = None]
    BY <1>0, <1>2, <1>3 DEF Goto, MSInv, MSTypes
  <2>2. n \in ReqType /\ n.st \in Finals /\ n.id = s.id /\ n.conn = None
    BY <1>1, <1>2 DEF ReqType, States, Finals
  <2>3. RequestOK(r, n, failedOn[r], None, chan, optChan, connId, Ids(conn))
    <3> HIDE DEF n, s
    <3> QED BY <1>1, <2>2, MoveOK
  <2> HIDE DEF n
  <2> QED BY <1>0, <1>1, <1>3, <2>1, <2>2, <2>3, OneRequest
<1>4. CASE /\ chan' = Append(chan, [cmd |-> "NewConn", req |-> r, id |-> s.id])
           /\ Goto(r, "ReceiveConn") /\ reply' = [reply EXCEPT ![r] = None]
  <2> DEFINE n == [s EXCEPT !.st = "ReceiveConn"]
             m == [cmd |-> "NewConn", req |-> r, id |-> s.id]
  <2>1. req' = [req EXCEPT ![r] = n] /\ chan' = Append(chan, m)
    BY <1>4 DEF Goto
  <2>2. n \in ReqType /\ n.st = "ReceiveConn" /\ n.id = s.id /\ n.conn = None
    BY <1>1, <1>2 DEF ReqType, States
  <2>3. m \in CommandType /\ m.cmd = "NewConn" /\ m.req = r /\ m.id = s.id
    BY <1>1 DEF CommandType, ReqType
  <2> HIDE DEF n, m
  <2>4. MSTypes'
    <3>1. chan' \in Seq(CommandType)
      BY <1>0, <2>1, <2>3, AppendCommand
    <3> QED BY <1>0, <1>4, <2>1, <2>2, <3>1 DEF MSInv, MSTypes
  <2>5. ASSUME NEW p \in Req, p # r
        PROVE  RequestOK(p, req[p], failedOn[p], reply[p], chan', optChan, connId, Ids(conn))
    <3>1. Commands(chan', p) = Commands(chan, p) /\ \A i \in Commands(chan, p) : chan'[i] = chan[i]
      BY <1>0, <2>1, <2>3, <2>5, OtherCommand
    <3>2. RequestOK(p, req[p], failedOn[p], reply[p], chan, optChan, connId, Ids(conn))
      BY OfRequest
    <3> QED BY <3>1, <3>2 DEF RequestOK, Expects
  <2>6. RequestOK(r, n, failedOn[r], None, chan', optChan, connId, Ids(conn))
    <3>1. Commands(chan', r) = {Len(chan) + 1} /\ chan'[Len(chan) + 1] = m
      BY <1>0, <1>2, <2>1, <2>3, AppendCommand, SMT
    <3>2. "ReceiveConn" \notin Finals \cup {"GetResult", "Waiting"}
      BY DEF Finals
    <3>3. Sees(n, failedOn[r], Ids(conn))
      BY <1>1, <1>2, <2>2, <3>2 DEF RequestOK, Sees
    <3>4. Expects(r, n, failedOn[r], None, chan', optChan, connId, Ids(conn))
      BY <1>2, <2>2, <2>3, <3>1 DEF Expects
    <3> QED BY <3>3, <3>4 DEF RequestOK
  <2>7. ASSUME NEW p \in Req
        PROVE  RequestOK(p, req'[p], failedOn[p], reply'[p], chan', optChan, connId, Ids(conn))
    <3>1. CASE p = r
      <4>1. req'[r] = n /\ reply'[r] = None
        BY <1>4, <2>1 DEF MSInv, MSTypes
      <4> QED BY <2>6, <3>1, <4>1
    <3>2. CASE p # r
      <4>1. req'[p] = req[p] /\ reply'[p] = reply[p]
        BY <1>4, <2>1, <3>2 DEF MSInv, MSTypes
      <4> QED BY <2>5, <3>2, <4>1
    <3> QED BY <3>1, <3>2
  <2> QED BY <1>0, <2>4, <2>7 DEF MSInv
<1> QED BY <1>3, <1>4 DEF RequestConn

\* A shutdown command is about no request.
LEMMA ShutdownStep ==
    ASSUME MSInv, Shutdown
    PROVE  MSInv'
<1> DEFINE m == [cmd |-> "Shutdown"]
<1>0. /\ chan' = Append(chan, m) /\ m \in CommandType /\ m.cmd # "NewConn" /\ chan \in Seq(CommandType)
      /\ UNCHANGED <<req, run, connState, connId, optChan, conn, reply, failedOn>>
  BY DEF Shutdown, CommandType, MSInv, MSTypes
<1> HIDE DEF m
<1>1. chan' \in Seq(CommandType)
  BY <1>0, SMT
<1>2. MSTypes'
  BY <1>0, <1>1 DEF MSInv, MSTypes
<1>3. ASSUME NEW p \in Req
      PROVE  RequestOK(p, req[p], failedOn[p], reply[p], chan', optChan, connId, Ids(conn))
  <2>1. Commands(chan', p) = Commands(chan, p) /\ \A i \in Commands(chan, p) : chan'[i] = chan[i]
    BY <1>0, OtherCommand
  <2>2. RequestOK(p, req[p], failedOn[p], reply[p], chan, optChan, connId, Ids(conn))
    BY OfRequest
  <2> QED BY <2>1, <2>2 DEF RequestOK, Expects
<1> QED BY <1>0, <1>2, <1>3 DEF MSInv

\* The transport takes a command; nobody waits for a connect meanwhile.
LEMMA RecvStep ==
    ASSUME MSInv, Recv
    PROVE  MSInv'
<1> DEFINE ids == Ids(conn)
<1>0. /\ UNCHANGED <<req, conn, failedOn>> /\ run = "loop" /\ optChan = None /\ chan # << >>
      /\ chan \in Seq(CommandType) /\ connId \in Nat
  BY DEF Recv, MSInv, MSTypes
<1>1. CASE /\ Head(chan).cmd = "Shutdown" /\ chan' = << >> /\ run' = "draining"
           /\ UNCHANGED <<connState, connId, optChan, reply>>
  <2>1. MSTypes'
    BY <1>0, <1>1, SMT DEF MSInv, MSTypes
  <2>2. \A p \in Req : RequestOK(p, req[p], failedOn[p], reply[p], << >>, optChan, connId, ids)
    BY OfRequest, EmptiedOK
  <2> QED BY <1>0, <1>1, <2>1, <2>2 DEF MSInv
<1>2. CASE /\ Head(chan).cmd = "NewConn" /\ chan' = Tail(chan)
           /\ NewConn(Head(chan).req, Head(chan).id)
  <2> DEFINE r == Head(chan).req
             id == Head(chan).id
             s == req[r]
  <2>1. /\ r \in Req /\ r # None /\ id \in Nat \cup {None} /\ 1 \in Commands(chan, r) /\ Head(chan) = chan[1]
        /\ Tail(chan) \in Seq(CommandType)
    BY <1>0, <1>2, TailCommand, MultiStreamAssumption DEF CommandType
  <2>2. \A p \in Req : RequestOK(p, req[p], failedOn[p], reply[p], Tail(chan), optChan, connId, ids)
    BY <1>0, OfRequest, TailOK
  <2>3. RequestOK(r, s, failedOn[r], reply[r], chan, optChan, connId, ids) /\ Commands(Tail(chan), r) = {}
    BY <1>0, <1>2, <2>1, OfRequest, TailOK
  <2>4. s.st = "ReceiveConn" => s.id = id
    BY <2>1, <2>3 DEF RequestOK, Expects
  <2>5. Numbered(ids, connState, connId) /\ ids \in [1 .. Len(conn) -> Nat]
    BY IdsType DEF MSInv
  <2>6. id # None => id \in Nat /\ id <= connId
    <3> SUFFICES ASSUME id # None PROVE id \in Nat /\ id <= connId
      OBVIOUS
    <3>1. Complaint(failedOn[r], ids, id)
      BY <2>1, <2>3 DEF RequestOK, Expects
    <3>2. PICK n \in failedOn[r] : ids[n] = id
      BY <3>1 DEF Complaint
    <3>3. n \in DOMAIN ids
      BY <2>3 DEF RequestOK, Sees
    <3> QED BY <2>1, <2>5, <3>2, <3>3 DEF Numbered
  <2> HIDE DEF r, id, s, ids
  <2>7. ASSUME NEW v \in ReplyType, Tell(r, v), UNCHANGED <<run, connState, connId, optChan>>,
               v.ok => v.conn \in DOMAIN ids /\ (s.st = "ReceiveConn" /\ s.id # None => s.id < ids[v.conn])
        PROVE  MSInv'
    <3>1. reply' = IF req[r].st = "ReceiveConn" THEN [reply EXCEPT ![r] = v] ELSE reply
      BY <2>7 DEF Tell
    <3>2. MSTypes'
      BY <1>0, <1>2, <2>1, <2>7, <3>1 DEF MSInv, MSTypes
    <3>3. RequestOK(r, s, failedOn[r], IF s.st = "ReceiveConn" THEN v ELSE reply[r], Tail(chan), None, connId, ids)
      <4>1. RequestOK(r, s, failedOn[r], reply[r], Tail(chan), optChan, connId, ids)
        BY <2>1, <2>2 DEF s
      <4> QED BY <2>1, <2>3, <2>7, <4>1, TellOK
    <3>4. ASSUME NEW p \in Req
          PROVE  RequestOK(p, req[p], failedOn[p], reply'[p], Tail(chan), optChan, connId, ids)
      <4>1. CASE p = r
        <5>1. reply'[r] = IF s.st = "ReceiveConn" THEN v ELSE reply[r]
          BY <2>1, <3>1 DEF s, MSInv, MSTypes
        <5> QED BY <1>0, <3>3, <4>1, <5>1 DEF s
      <4>2. CASE p # r
        <5>1. reply'[p] = reply[p]
          BY <3>1, <4>2 DEF MSInv, MSTypes
        <5> QED BY <2>2, <5>1
      <4> QED BY <4>1, <4>2
    <3> QED BY <1>0, <1>2, <2>7, <3>2, <3>4 DEF MSInv, ids
  <2>8. CASE /\ connState.st = "Err" /\ ~ connState.elapsed
             /\ Tell(r, ReplyErr)
             /\ UNCHANGED <<run, connState, connId, optChan>>
    <3>1. ReplyErr \in ReplyType /\ ~ ReplyErr.ok
      BY DEF ReplyErr, ReplyType
    <3> QED BY <2>7, <2>8, <3>1
  <2>9. CASE /\ connState.st = "Some" /\ ~ Replaced(id)
             /\ Tell(r, ReplyOk(connState.conn))
             /\ UNCHANGED <<run, connState, connId, optChan>>
    <3>1. connState.conn \in DOMAIN ids /\ ids[connState.conn] = connId /\ connState.conn \in Nat
      BY <2>5, <2>9, SMT DEF Numbered
    <3>2. ReplyOk(connState.conn) \in ReplyType /\ ReplyOk(connState.conn).conn = connState.conn
      BY <3>1 DEF ReplyOk, ReplyType
    <3>3. s.st = "ReceiveConn" /\ s.id # None => s.id < connId
      BY <1>0, <2>4, <2>6, <2>9, SMT DEF Replaced
    <3> QED BY <2>7, <2>9, <3>1, <3>2, <3>3
  <2>10. CASE /\ ~ (connState.st = "Some" /\ ~ Replaced(id))
              /\ connState' = IF Replaced(id) THEN NoConn ELSE connState
              /\ connId' = IF Replaced(id) THEN connId + 1 ELSE connId
              /\ optChan' = r
              /\ run' = "connecting"
              /\ UNCHANGED reply
    <3>1. MSTypes'
      <4>1. connState' \in ConnStateType
        BY <2>10 DEF MSInv, MSTypes, ConnStateType
      <4>2. connId' \in Nat
        BY <1>0, <2>10, SMT
      <4> QED BY <1>0, <1>2, <2>1, <2>10, <4>1, <4>2 DEF MSInv, MSTypes
    <3>2. connState'.st # "Some"
      BY <2>10 DEF NoConn
    <3>3. \A n \in DOMAIN ids : ids[n] < connId'
      BY <1>0, <2>5, <2>10, SMT DEF Numbered
    <3>4. Numbered(ids, connState', connId')
      BY <1>0, <2>5, <2>10, <3>2, <3>3, SMT DEF Numbered
    <3>5. s.st = "ReceiveConn" /\ s.id # None => s.id < connId'
      BY <1>0, <2>4, <2>6, <2>10, SMT DEF Replaced
    <3>6. ASSUME NEW p \in Req
          PROVE  RequestOK(p, req[p], failedOn[p], reply[p], Tail(chan), r, connId', ids)
      <4>1. CASE p # r
        BY <1>0, <2>2, <4>1 DEF RequestOK, Expects
      <4>2. CASE p = r
        <5>1. s.st \in Finals \cup {"ReceiveConn"} /\ reply[r] = None
          BY <2>1, <2>3 DEF RequestOK, Expects
        <5>2. Sees(s, failedOn[r], ids)
          BY <2>3 DEF RequestOK
        <5>3. Expects(r, s, failedOn[r], reply[r], Tail(chan), r, connId', ids)
          BY <2>3, <3>5, <5>1 DEF Expects
        <5> QED BY <4>2, <5>2, <5>3 DEF RequestOK, s
      <4> QED BY <4>1, <4>2
    <3> QED BY <1>0, <1>2, <2>1, <2>10, <3>1, <3>2, <3>4, <3>6 DEF MSInv, ids
  <2> QED BY <1>2, <2>8, <2>9, <2>10 DEF NewConn, r, id
<1> QED BY <1>1, <1>2 DEF Recv

\* The connect is over.
LEMMA ConnectStep ==
    ASSUME MSInv, ConnectOk \/ ConnectErr
    PROVE  MSInv'
<1> DEFINE ids == Ids(conn)
           r == optChan
           s == req[r]
<1>0. /\ UNCHANGED <<req, chan, connId, failedOn>> /\ run = "connecting" /\ r \in Req /\ r # None
      /\ connState.st # "Some" /\ optChan' = None /\ run' = "loop" /\ connId \in Nat
  BY MultiStreamAssumption DEF ConnectOk, ConnectErr, MSInv, MSTypes
<1>1. RequestOK(r, s, failedOn[r], reply[r], chan, optChan, connId, ids)
  BY <1>0, OfRequest
<1>2. Commands(chan, r) = {} /\ (s.st = "ReceiveConn" /\ s.id # None => s.id < connId)
  BY <1>1 DEF RequestOK, Expects
<1>3. Numbered(ids, connState, connId) /\ ids \in [1 .. Len(conn) -> Nat] /\ Len(conn) \in Nat
  BY IdsType DEF MSInv
<1>4. ASSUME NEW v \in ReplyType, Tell(r, v), NEW more,
             DOMAIN ids \subseteq DOMAIN more, \A n \in DOMAIN ids : more[n] = ids[n],
             v.ok => v.conn \in DOMAIN more /\ (s.st = "ReceiveConn" /\ s.id # None => s.id < more[v.conn])
      PROVE  /\ reply' \in [Req -> ReplyType]
             /\ \A p \in Req : RequestOK(p, req[p], failedOn[p], reply'[p], chan, None, connId, more)
  <2>1. reply' = IF s.st = "ReceiveConn" THEN [reply EXCEPT ![r] = v] ELSE reply
    BY <1>4 DEF Tell
  <2>2. reply' \in [Req -> ReplyType]
    BY <1>0, <2>1 DEF MSInv, MSTypes
  <2>3. \A p \in Req : RequestOK(p, req[p], failedOn[p], reply[p], chan, optChan, connId, more)
    <3> HIDE DEF ids
    <3>1. \A p \in Req : RequestOK(p, req[p], failedOn[p], reply[p], chan, optChan, connId, ids)
      BY OfRequest DEF ids
    <3> QED BY <1>4, <3>1, ExtendedOK
  <2> HIDE DEF ids, r, s
  <2>4. ASSUME NEW p \in Req
        PROVE  RequestOK(p, req[p], failedOn[p], reply'[p], chan, None, connId, more)
    <3>1. CASE p = r
      <4>1. RequestOK(r, s, failedOn[r], reply[r], chan, optChan, connId, more)
        BY <1>0, <2>3 DEF s
      <4>2. RequestOK(r, s, failedOn[r], IF s.st = "ReceiveConn" THEN v ELSE reply[r], chan, None, connId, more)
        BY <1>0, <1>2, <1>4, <4>1, TellOK
      <4>3. reply'[r] = IF s.st = "ReceiveConn" THEN v ELSE reply[r]
        BY <1>0, <2>1 DEF MSInv, MSTypes
      <4> QED BY <3>1, <4>2, <4>3 DEF s
    <3>2. CASE p # r
      <4>1. reply'[p] = reply[p]
        BY <2>1, <3>2 DEF MSInv, MSTypes
      <4>2. p # None
        BY MultiStreamAssumption
      <4>3. RequestOK(p, req[p], failedOn[p], reply[p], chan, optChan, connId, more)
        BY <2>3
      <4> QED BY <3>2, <4>1, <4>2, <4>3 DEF RequestOK, Expects, r
    <3> QED BY <3>1, <3>2
  <2> QED BY <2>2, <2>4
<1>5. CASE ConnectErr
  <2>1. connState' = ErrConn(FALSE) /\ Tell(r, ReplyErr) /\ conn' = conn
    BY <1>5 DEF ConnectErr
  <2>2. ReplyErr \in ReplyType /\ ~ ReplyErr.ok
    BY DEF ReplyErr, ReplyType
  <2>3. connState' \in ConnStateType /\ connState'.st # "Some"
    BY <2>1 DEF ErrConn, ConnStateType
  <2>4. Numbered(ids, connState', connId)
    BY <1>0, <1>3, <2>3 DEF Numbered
  <2>5. /\ reply' \in [Req -> ReplyType]
        /\ \A p \in Req : RequestOK(p, req[p], failedOn[p], reply'[p], chan, None, connId, ids)
    BY <1>4, <2>1, <2>2
  <2>6. MSTypes'
    BY <1>0, <2>1, <2>3, <2>5 DEF MSInv, MSTypes
  <2> QED BY <1>0, <2>1, <2>3, <2>4, <2>5, <2>6 DEF MSInv
<1>6. CASE ConnectOk
  <2> DEFINE k == Len(conn) + 1
             c == [id |-> connId, open |-> TRUE]
             more == Ids(conn')
  <2>1. conn' = Append(conn, c) /\ connState' = SomeConn(k) /\ Tell(r, ReplyOk(k))
    BY <1>6 DEF ConnectOk
  <2>2. c \in ConnType /\ c.id = connId
    BY <1>0 DEF ConnType
  <2> HIDE DEF c
  <2>3. conn \in Seq(ConnType)
    BY DEF MSInv, MSTypes
  <2>4. /\ conn' \in Seq(ConnType) /\ Len(conn') = k /\ conn'[k] = c
        /\ \A n \in 1 .. Len(conn) : conn'[n] = conn[n]
    BY <2>1, <2>2, <2>3, SMT
  <2>5. 1 .. Len(conn) \subseteq 1 .. k /\ k \in 1 .. k /\ \A n \in 1 .. k : n \in 1 .. Len(conn) \/ n = k
    BY <1>3, SMT
  <2>6. /\ DOMAIN more = 1 .. k /\ more[k] = connId /\ DOMAIN ids = 1 .. Len(conn)
        /\ \A n \in DOMAIN ids : more[n] = ids[n]
    BY <2>2, <2>4, <2>5 DEF Ids
  <2>7. ReplyOk(k) \in ReplyType /\ ReplyOk(k).conn = k
    BY <1>3, SMT DEF ReplyOk, ReplyType
  <2>8. connState' \in ConnStateType /\ connState'.st = "Some" /\ connState'.conn = k
    BY <1>3, <2>1, SMT DEF SomeConn, ConnStateType
  <2>12. k \notin 1 .. Len(conn)
    BY <1>3, SMT
  <2> HIDE DEF k, more, ids
  <2>9. \A n \in DOMAIN ids : ids[n] < connId /\ ids[n] \in Nat
    BY <1>0, <1>3 DEF Numbered
  <2>10. Numbered(more, connState', connId)
    <3>1. \A n \in DOMAIN more : n \in DOMAIN ids \/ n = k
      BY <2>5, <2>6
    <3>2. \A n \in DOMAIN more : more[n] <= connId
      BY <1>0, <2>6, <2>9, <3>1, SMT
    <3>3. ASSUME NEW m \in DOMAIN more, NEW n \in DOMAIN more, more[m] = more[n] PROVE m = n
      <4>1. CASE m \in DOMAIN ids /\ n \in DOMAIN ids
        BY <1>3, <2>6, <3>3, <4>1 DEF Numbered
      <4>2. CASE m = k /\ n = k
        BY <4>2
      <4>3. CASE m \in DOMAIN ids /\ n = k
        BY <1>0, <2>6, <2>9, <3>3, <4>3, SMT
      <4>4. CASE m = k /\ n \in DOMAIN ids
        BY <1>0, <2>6, <2>9, <3>3, <4>4, SMT
      <4> QED BY <3>1, <4>1, <4>2, <4>3, <4>4
    <3> QED BY <2>5, <2>6, <2>8, <3>2, <3>3 DEF Numbered
  <2>11. /\ reply' \in [Req -> ReplyType]
         /\ \A p \in Req : RequestOK(p, req[p], failedOn[p], reply'[p], chan, None, connId, more)
    BY <1>2, <1>4, <2>1, <2>5, <2>6, <2>7
  <2>13. MSTypes'
    BY <1>0, <2>4, <2>8, <2>11 DEF MSInv, MSTypes
  <2> QED BY <1>0, <2>10, <2>11, <2>13 DEF MSInv, more
<1> QED BY <1>5, <1>6

\* A stream connection ends by itself: its id stays.
LEMMA EndStep ==
    ASSUME MSInv, NEW n \in DOMAIN conn, StreamEnds(n)
    PROVE  MSInv'
<1> DEFINE c == [conn[n] EXCEPT !.open = FALSE]
<1>0. /\ UNCHANGED <<req, chan, run, connState, connId, optChan, reply, failedOn>>
      /\ conn' = [conn EXCEPT ![n] = c] /\ conn \in Seq(ConnType)
  BY DEF StreamEnds, MSInv, MSTypes
<1>1. conn[n] \in ConnType
  BY <1>0, SMT
<1>2. c \in ConnType /\ c.id = conn[n].id
  BY <1>1 DEF ConnType
<1> HIDE DEF c
<1>3. conn' \in Seq(ConnType) /\ Len(conn') = Len(conn)
  BY <1>0, <1>2, SMT
<1>4. \A m \in 1 .. Len(conn) : conn'[m].id = conn[m].id
  BY <1>0, <1>2, SMT
<1>5. Ids(conn') = Ids(conn)
  BY <1>3, <1>4 DEF Ids
<1>6. MSTypes'
  BY <1>0, <1>3 DEF MSInv, MSTypes
<1> QED BY <1>0, <1>5, <1>6 DEF MSInv

\* The rest of the transport's steps.
LEMMA RestStep ==
    ASSUME MSInv, RecvNone \/ ErrElapses \/ Drained
    PROVE  MSInv'
<1>0. UNCHANGED <<req, chan, connId, optChan, reply, conn, failedOn>>
  BY DEF RecvNone, ErrElapses, Drained
<1>1. CASE RecvNone \/ Drained
  BY <1>0, <1>1 DEF RecvNone, Drained, MSInv, MSTypes
<1>2. CASE ErrElapses
  <2>1. connState.st = "Err" /\ connState'.st = "Err" /\ connState' \in ConnStateType /\ run' = run
    BY <1>2 DEF ErrElapses, ErrConn, ConnStateType
  <2>2. Numbered(Ids(conn), connState', connId)
    BY <2>1 DEF MSInv, Numbered
  <2>3. MSTypes'
    BY <1>0, <2>1 DEF MSInv, MSTypes
  <2> QED BY <1>0, <2>1, <2>2, <2>3 DEF MSInv
<1> QED BY <1>1, <1>2

\* Nothing is under way at first.
LEMMA MultiStreamInit == MSInit => MSInv
<1> SUFFICES ASSUME MSInit PROVE MSInv
  OBVIOUS
<1> DEFINE s == [st |-> "new", id |-> None, retries |-> 0, conn |-> None]
<1>1. s \in ReqType /\ s.st = "new" /\ s.id = None /\ s.conn = None
  BY SMT DEF ReqType, States
<1>2. Ids(conn) = << >> /\ \A r : Commands(chan, r) = {}
  BY SMT DEF MSInit, Ids, Commands
<1>3. MSTypes
  BY <1>1, SMT DEF MSInit, MSTypes, ReplyType, ConnStateType
<1>4. NoConn.st # "Some"
  BY DEF NoConn
<1>5. Numbered(Ids(conn), connState, connId)
  BY <1>2, <1>4, SMT DEF MSInit, Numbered
<1> HIDE DEF s
<1>6. ASSUME NEW r \in Req
      PROVE  RequestOK(r, req[r], failedOn[r], reply[r], chan, optChan, connId, Ids(conn))
  <2>1. req[r] = s /\ failedOn[r] = {} /\ reply[r] = None /\ optChan # r
    BY MultiStreamAssumption DEF MSInit, s
  <2> QED BY <1>1, <1>2, <2>1 DEF RequestOK, Sees, Expects, Complaint
<1> QED BY <1>3, <1>5, <1>6 DEF MSInit, MSInv

\* Every step keeps the invariant.
LEMMA ClientsStep == MSInv /\ [Next]_vars => MSInv'
<1> SUFFICES ASSUME MSInv, [Next]_vars PROVE MSInv'
  OBVIOUS
<1>1. CASE \E r \in Req : UdpStep(r)
  BY <1>1, DatagramStep
<1>2. CASE \E r \in Req : Cancel(r) /\ Forget(r)
  BY <1>2, CancelStep
<1>3. ASSUME NEW r \in Req, RequestStep(r) PROVE MSInv'
  BY <1>3, AskConnStep, ReceiveStep, RetryStep, WaitStep DEF RequestStep
<1>4. CASE Shutdown
  BY <1>4, ShutdownStep
<1>5. CASE DropHandle
  BY <1>5, Untouched DEF DropHandle
<1>6. CASE TransportStep
  BY <1>6, RecvStep, ConnectStep, EndStep, RestStep DEF TransportStep
<1>7. CASE UNCHANGED vars
  BY <1>7, Untouched DEF vars, msvars
<1> QED BY <1>1, <1>2, <1>3, <1>4, <1>5, <1>6, <1>7 DEF Next

(* Ids are unique, a request complains only about connections it failed    *)
(* on, and only one message about it is under way, in every state of       *)
(* multi_stream.rs below dgram_stream.rs.                                  *)
THEOREM ClientsInvariant == Spec => []MSInv
<1>1. Init => MSInv
  BY MultiStreamInit DEF Init
<1> QED BY <1>1, ClientsStep, PTL DEF Spec

(* A request of multi_stream.rs is never given a stream connection it has  *)
(* failed on, for any number of requests, faults and connections: the      *)
(* comparison of ids in NewConn is enough.                                 *)
THEOREM AlwaysFresh == Spec => []FreshConnection
<1>1. MSInv => FreshConnection
  BY OfRequest DEF FreshConnection, RequestOK, Sees
<1> QED BY <1>1, ClientsInvariant, PTL

(* The transport of multi_stream.rs gives up its connection only when it   *)
(* takes a command of a request that failed on that very connection.       *)
THEOREM HealthyKept == Spec => HealthyConnectionsKept
<1> DEFINE Kept1 == \A n \in DOMAIN conn : connState = SomeConn(n) /\ connState' # SomeConn(n)
                                             => \E r \in Req : n \in failedOn[r]
<1>1. MSInv /\ [Next]_vars => [Kept1]_vars
  <2> SUFFICES ASSUME MSInv, Next, NEW n \in DOMAIN conn, connState = SomeConn(n), connState' # SomeConn(n)
               PROVE  \E r \in Req : n \in failedOn[r]
    OBVIOUS
  <2>0. /\ connState.st = "Some" /\ connState.conn = n /\ run # "connecting" /\ chan \in Seq(CommandType)
        /\ Numbered(Ids(conn), connState, connId)
    BY DEF SomeConn, MSInv, MSTypes
  <2>1. Recv
    <3>1. connState # ErrConn(FALSE)
      BY <2>0, SMT DEF ErrConn
    <3>2. CASE \E r \in Req : UdpStep(r)
      BY <3>2 DEF UdpStep, SendRequest, Transmit, Timeout, ReceiveError, Receive
    <3>3. CASE \E r \in Req : Cancel(r) /\ Forget(r)
      BY <3>3 DEF Cancel
    <3>4. CASE \E r \in Req : RequestStep(r)
      BY <3>4 DEF RequestStep, RequestConn, ReceiveConn, SendQuery, Answer, WrongReply, Refuse, Fail, Delay
    <3>5. CASE Shutdown \/ DropHandle
      BY <3>5 DEF Shutdown, DropHandle
    <3>6. CASE TransportStep
      BY <2>0, <3>1, <3>6
         DEF TransportStep, RecvNone, ConnectOk, ConnectErr, ErrElapses, Drained, StreamEnds
    <3> QED BY <3>2, <3>3, <3>4, <3>5, <3>6 DEF Next
  <2> DEFINE r == Head(chan).req
             id == Head(chan).id
  <2>2. Head(chan).cmd = "NewConn" /\ Replaced(id) /\ chan # << >>
    BY <2>0, <2>1 DEF Recv, NewConn
  <2>3. r \in Req /\ id \in Nat \cup {None} /\ 1 \in Commands(chan, r) /\ Head(chan) = chan[1]
    BY <2>0, <2>2, TailCommand DEF CommandType
  <2>4. RequestOK(r, req[r], failedOn[r], reply[r], chan, optChan, connId, Ids(conn))
    BY <2>3, OfRequest
  <2>5. Complaint(failedOn[r], Ids(conn), id) /\ id # None
    BY <2>2, <2>3, <2>4 DEF RequestOK, Expects, Replaced
  <2>6. PICK m \in failedOn[r] : Ids(conn)[m] = id
    BY <2>5 DEF Complaint
  <2>7. m \in DOMAIN Ids(conn)
    BY <2>4, <2>6 DEF RequestOK, Sees
  <2>8. Ids(conn)[m] = connId
    <3>1. Ids(conn)[m] <= connId /\ id >= connId /\ Ids(conn)[m] \in Nat /\ connId \in Nat
      BY <2>0, <2>2, <2>7, IdsType DEF Numbered, Replaced, MSInv, MSTypes
    <3> QED BY <2>6, <3>1, SMT
  <2>9. m = n
    BY <2>0, <2>7, <2>8 DEF Numbered
  <2> QED BY <2>3, <2>6, <2>9
<1> QED BY <1>1, ClientsInvariant, PTL DEF Spec, HealthyConnectionsKept
==============================================================================
