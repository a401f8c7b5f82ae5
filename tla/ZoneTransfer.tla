---------------------------- MODULE ZoneTransfer ----------------------------
(***************************************************************************)
(* A zone transfer from end to end: the server's transfer middleware       *)
(* (net/server/middleware/xfr: the service, the funneler that walks the    *)
(* zone or its diffs, the responder that packs records into messages), the *)
(* response stream, the client's interpreter of the responses (net/xfr)    *)
(* and the zone updater that applies them (zonetree/update.rs).  The       *)
(* funneler and the responder are tasks of their own, joined by a bounded  *)
(* channel, while the server's zone goes on changing.                      *)
(*                                                                         *)
(* A zone's contents: for every key, an owner and a type, how often each   *)
(* datum is in the RRset, which is a list.  Its SOA record is its serial.  *)
(* The zone stores on both sides are used as ZoneSpec describes them: a    *)
(* reader keeps its version, a writer edits a copy.                        *)
(***************************************************************************)
EXTENDS Naturals, Sequences, FiniteSets, SequencesExt

CONSTANTS
    Key, Data,
    History,       \* the server's zone, version after version
    TooBig,        \* keys whose records fit into no message
    Queries,       \* the queries a client may make: [qtype, udp, compat]
    DiffsFrom,     \* the serials from which the data provider keeps diffs
    ChannelLen,    \* the length of the funneler's channel
    BatchLen,      \* records that fit into a message
    MaxQueries     \* transfers in a row

ASSUME TransferAssumption ==
    /\ History \in Seq([Key -> SUBSET Data]) /\ History # <<>>
    /\ TooBig \subseteq Key
    /\ Queries \subseteq [qtype : {"axfr", "ixfr"}, udp : BOOLEAN, compat : BOOLEAN]
    /\ {ChannelLen, BatchLen} \subseteq Nat \ {0} /\ MaxQueries \in Nat

VARIABLES
    version,   \* of the server's zone
    query,     \* [pc, n, qtype, udp, compat, serial, diffs, read]: the query as the
               \* middleware serves it; read is the version of its reader
    funnel,    \* [pc, plan]: what the funneler still has to send, sets of RRsets
               \* one after the other, each in any order
    channel,   \* RRsets between the funneler and the responder
    respond,   \* [pc, batch, todo, last]: the responder and its batcher
    stream,    \* [open, items]: the response stream and whether it is still read
    zone,      \* the client's zone as published, [contents, soa]
    client     \* [pc, todo, copy, soa, xfr]: the client, its interpreter and updater

vars == <<version, query, funnel, channel, respond, stream, zone, client>>

Versions == DOMAIN History

Contents(v) == [k \in Key |-> [d \in Data |-> IF d \in History[v][k] THEN 1 ELSE 0]]

Soa(serial) == [soa |-> TRUE, serial |-> serial]
RR(k, d) == [soa |-> FALSE, key |-> k, data |-> d]

\* An RRset as the list of its records, and those of some keys of a version.
RRset(v, k) == LET ds == SetToSeq(History[v][k]) IN [i \in DOMAIN ds |-> RR(k, ds[i])]
RRsets(v, keys) == {RRset(v, k) : k \in {k \in keys : History[v][k] # {}}}

Answer(rrs) == [kind |-> "data", rrs |-> rrs]
Feedback(f) == [kind |-> f, rrs |-> <<>>]
mk_error_response == [kind |-> "error", rrs |-> <<>>]

NoXfr == [type |-> "none", initial |-> 0, adding |-> FALSE, rr_count |-> 0]

\* A client that has no transfer on its way, its updater opened on zone z.
Fresh(pc, z) ==
    [pc |-> pc, todo |-> <<>>, copy |-> z.contents, soa |-> z.soa, xfr |-> NoXfr]

NoResponder == [pc |-> "off", batch |-> <<>>, todo |-> <<>>, last |-> "none"]

Init ==
    /\ version \in Versions
    /\ query = [pc |-> "idle", n |-> 0, qtype |-> "none", udp |-> FALSE, compat |-> FALSE,
                serial |-> 0, diffs |-> <<>>, read |-> 0]
    /\ funnel = [pc |-> "off", plan |-> <<>>]
    /\ channel = <<>>
    /\ respond = NoResponder
    /\ stream = [open |-> FALSE, items |-> <<>>]
    /\ zone \in {[contents |-> Contents(v), soa |-> v] : v \in 1..version}
    /\ client = Fresh("idle", zone)

(* The server's zone changes.                                              *)
Update ==
    /\ version + 1 \in Versions /\ query.n > 0
    /\ version' = version + 1
    /\ UNCHANGED <<query, funnel, channel, respond, stream, zone, client>>

-----------------------------------------------------------------------------
(* The client asks, with the serial it has, and opens its zone for writing. *)
Ask(q) ==
    /\ client.pc = "idle" /\ query.pc = "idle" /\ query.n < MaxQueries
    /\ query' = [pc |-> "asked", n |-> query.n + 1, qtype |-> q.qtype, udp |-> q.udp,
                 compat |-> q.compat, serial |-> zone.soa, diffs |-> <<>>, read |-> 0]
    /\ client' = Fresh("wait", zone)
    /\ stream' = [open |-> TRUE, items |-> <<>>]
    /\ UNCHANGED <<version, funnel, channel, respond, zone>>

(* xfr_data_provider.request(): the diffs up to the version of this        *)
(* moment, of which there are none for an AXFR query, or a refusal.        *)
Provide ==
    /\ query.pc = "asked"
    /\ LET upto == IF query.qtype = "ixfr" /\ query.serial \in DiffsFrom
                   THEN version ELSE query.serial
       IN query' = [query EXCEPT !.pc = "provided",
                      !.diffs = [i \in 1 .. upto - query.serial |-> query.serial + i - 1]]
    /\ UNCHANGED <<version, funnel, channel, respond, stream, zone, client>>

Refuse ==
    /\ query.pc = "asked"
    /\ query' = [query EXCEPT !.pc = "served"]
    /\ stream' = [stream EXCEPT !.items = Append(@, mk_error_response)]
    /\ UNCHANGED <<version, funnel, channel, respond, zone, client>>

(* What the funneler sends.  A diff from one version to the next holds     *)
(* the RRsets that changed, as they were and as they are.                  *)
Changed(from) == {k \in Key : History[from][k] # History[from + 1][k]}

DiffSections(from) ==
    <<{<<Soa(from)>>}, RRsets(from, Changed(from)),
      {<<Soa(from + 1)>>}, RRsets(from + 1, Changed(from))>>

ZonePlan(v) == <<RRsets(v, Key), {<<Soa(v)>>}>>

DiffPlan(diffs, v) ==
    <<{<<Soa(v)>>}>> \o FlattenSeq([i \in DOMAIN diffs |-> DiffSections(diffs[i])])
      \o <<{<<Soa(v)>>}>>

(* The reader is taken once the provider has answered.  Without diffs the  *)
(* zone is transferred whole, its first SOA record sent at once.           *)
Serve(q) ==
    /\ query' = [q EXCEPT !.pc = "served"]
    /\ stream' = IF q.udp THEN stream
                 ELSE [stream EXCEPT !.items = Append(@, Feedback("begin"))]
    /\ respond' = [NoResponder EXCEPT !.pc = "recv"]

respond_to_axfr_query(q) ==
    /\ channel' = <<<<Soa(version)>>>>
    /\ funnel' = [pc |-> "walk", plan |-> ZonePlan(version)]
    /\ Serve([q EXCEPT !.read = version])

respond_to_ixfr_query(q) ==
    IF q.serial >= version
    THEN /\ query' = [q EXCEPT !.pc = "served", !.read = version]
         /\ stream' = [stream EXCEPT !.items = Append(@, Answer(<<Soa(version)>>))]
         /\ UNCHANGED <<funnel, channel, respond>>
    ELSE /\ channel' = <<>>
         /\ funnel' = [pc |-> "diff", plan |-> DiffPlan(q.diffs, version)]
         /\ Serve([q EXCEPT !.read = version, !.compat = FALSE])

preprocess ==
    /\ query.pc = "provided"
    /\ \/ /\ query.qtype = "axfr" /\ query.udp
          /\ query' = [query EXCEPT !.pc = "served"]
          /\ stream' = [stream EXCEPT !.items = Append(@, mk_error_response)]
          /\ UNCHANGED <<funnel, channel, respond>>
       \/ /\ ~(query.qtype = "axfr" /\ query.udp)
          /\ query.diffs = <<>>
          /\ respond_to_axfr_query(query)
       \/ /\ query.diffs # <<>>
          /\ respond_to_ixfr_query(query)
    /\ UNCHANGED <<version, zone, client>>

-----------------------------------------------------------------------------
(* The funneler.  Sending fails when the responder is gone: the walk of a  *)
(* zone ignores that, sending diffs ends with an error response.           *)

Sections == SelectSeq(funnel.plan, LAMBDA section : section # {})

FunnelSend ==
    /\ funnel.pc # "off" /\ Sections # <<>>
    /\ respond.pc # "off" /\ Len(channel) < ChannelLen
    /\ \E rrset \in Head(Sections) :
         /\ channel' = Append(channel, rrset)
         /\ funnel' = [funnel EXCEPT !.plan = <<Head(Sections) \ {rrset}>> \o Tail(Sections)]
    /\ UNCHANGED <<version, query, respond, stream, zone, client>>

MFunnelFails ==
    /\ funnel.pc = "diff" /\ Sections # <<>> /\ respond.pc = "off"
    /\ funnel' = [pc |-> "off", plan |-> <<>>]
    /\ UNCHANGED <<version, query, channel, respond, stream, zone, client>>

FunnelFails ==
    /\ funnel.pc # "off" /\ Sections # <<>> /\ respond.pc = "off"
    /\ funnel' = [pc |-> "off", plan |-> <<>>]
    /\ stream' = IF funnel.pc = "diff" /\ stream.open
                 THEN [stream EXCEPT !.items = Append(@, mk_error_response)] ELSE stream
    /\ UNCHANGED <<version, query, channel, respond, zone, client>>

FunnelEnds ==
    /\ funnel.pc # "off" /\ Sections = <<>>
    /\ funnel' = [pc |-> "off", plan |-> <<>>]
    /\ UNCHANGED <<version, query, channel, respond, stream, zone, client>>

-----------------------------------------------------------------------------
(* The responder and its batcher.                                          *)

(* The responder ends, and its half of the channel with it.                *)
Return(items) ==
    /\ respond' = NoResponder
    /\ channel' = <<>>
    /\ stream' = IF stream.open THEN [stream EXCEPT !.items = @ \o items] ELSE stream

Recv ==
    /\ respond.pc = "recv" /\ respond.todo = <<>> /\ channel # <<>>
    /\ respond' = [respond EXCEPT !.todo = Head(channel)]
    /\ channel' = Tail(channel)
    /\ UNCHANGED <<version, query, funnel, stream, zone, client>>

Fits(batch, rr) == (rr.soa \/ rr.key \notin TooBig) /\ Len(batch) < BatchLen

record_pushed(batch) == query.compat /\ Len(batch) = 1

(* push_ref, and try_push until the record is in a batch: the batch it is  *)
(* in, <<>> if it fits into none, and the batches that became ready.       *)
Batched(batch, rr, ready) ==
    IF ~Fits(batch, rr) THEN [batch |-> <<>>, ready |-> ready, pushed |-> FALSE]
    ELSE IF record_pushed(Append(batch, rr))
         THEN [batch |-> <<>>, ready |-> Append(ready, Answer(Append(batch, rr))), pushed |-> TRUE]
         ELSE [batch |-> Append(batch, rr), ready |-> ready, pushed |-> TRUE]

Mpush(batch, rr) ==
    IF batch # <<>> /\ ~Fits(batch, rr)
    THEN [batch |-> <<>>, ready |-> <<Answer(batch)>>, pushed |-> TRUE]
    ELSE Batched(batch, rr, <<>>)

push(batch, rr) ==
    IF batch # <<>> /\ ~Fits(batch, rr) THEN Batched(<<>>, rr, <<Answer(batch)>>)
    ELSE Batched(batch, rr, <<>>)

(* batch_ready refuses a second message over UDP, for which the SOA record *)
(* alone is sent, and fails when nobody reads the stream.                  *)
Push ==
    LET rr == Head(respond.todo)
        p == push(respond.batch, rr)
    IN /\ respond.todo # <<>>
       /\ IF p.ready # <<>> /\ query.udp
          THEN Return(<<Answer(<<Soa(query.read)>>), Feedback("end")>>)
          ELSE IF (p.ready # <<>> /\ ~stream.open) \/ ~p.pushed
          THEN Return(Append(p.ready, mk_error_response))
          ELSE /\ respond' = [respond EXCEPT !.todo = Tail(@), !.batch = p.batch,
                                             !.last = IF rr.soa THEN "soa" ELSE "other"]
               /\ stream' = [stream EXCEPT !.items = @ \o p.ready]
               /\ UNCHANGED channel
       /\ UNCHANGED <<version, query, funnel, zone, client>>

(* The channel is closed: the last batch, and the end of the transaction   *)
(* only if the last record was the SOA record.                             *)
Finish ==
    /\ respond.pc = "recv" /\ respond.todo = <<>> /\ channel = <<>> /\ funnel.pc = "off"
    /\ Return((IF respond.batch = <<>> THEN <<>> ELSE <<Answer(respond.batch)>>)
              \o <<IF respond.last = "soa" THEN Feedback("end") ELSE mk_error_response>>)
    /\ UNCHANGED <<version, query, funnel, zone, client>>

(* The tasks that hold the stream's sender have ended.  The walk of a zone *)
(* is not one of them.                                                     *)
Ended == query.pc = "served" /\ respond.pc = "off" /\ funnel.pc # "diff"

-----------------------------------------------------------------------------
(* The client: the interpreter of the responses and the zone updater.      *)

(* RecordProcessor::process_record: the update and the processor after it. *)
process_record(x, rr) ==
    LET y == [x EXCEPT !.rr_count = @ + 1]
        initial == rr.soa /\ rr.serial = x.initial
    IN CASE y.type = "axfr" -> <<IF initial THEN "finished" ELSE "add", y>>
         [] y.type = "ixfr" /\ y.rr_count = 2 ->
              IF initial THEN <<"finished", y>>
              ELSE IF rr.soa THEN <<"begin delete", y>>
              ELSE <<"add", [y EXCEPT !.type = "axfr"]>>
         [] y.type = "ixfr" /\ y.rr_count > 2 /\ rr.soa ->
              <<IF ~y.adding THEN "begin add" ELSE IF initial THEN "finished" ELSE "begin delete",
                [y EXCEPT !.adding = ~@]>>
         [] y.type = "ixfr" /\ y.rr_count > 2 /\ ~rr.soa -> <<IF y.adding THEN "add" ELSE "delete", y>>

(* ZoneUpdater::apply on the copy being written, c.  A commit publishes    *)
(* the copy, and the updater is closed after the last.                     *)
add_record_to_rrset(c, rr) == [c EXCEPT !.copy[rr.key][rr.data] = @ + 1]

delete_record_from_rrset(c, rr) == [c EXCEPT !.copy[rr.key][rr.data] = 0]

commit(c) == zone' = [contents |-> c.copy, soa |-> c.soa]

apply(c, update, rr) ==
    CASE update = "delete all" ->
           client' = [c EXCEPT !.copy = [k \in Key |-> [d \in Data |-> 0]]] /\ UNCHANGED zone
      [] update = "add" -> client' = add_record_to_rrset(c, rr) /\ UNCHANGED zone
      [] update = "delete" -> client' = delete_record_from_rrset(c, rr) /\ UNCHANGED zone
      [] update = "begin delete" -> commit(c) /\ client' = c
      [] update = "begin add" -> client' = [c EXCEPT !.soa = rr.serial] /\ UNCHANGED zone
      [] update = "finished" -> commit([c EXCEPT !.soa = rr.serial]) /\ client' = Fresh("idle", zone')

(* interpret_response: the first response sets up the interpreter and its  *)
(* SOA record is skipped; a whole transfer starts by deleting everything.  *)
Start(rrs) ==
    LET c == [client EXCEPT !.pc = "apply", !.todo = Tail(rrs),
                !.xfr = [type |-> query.qtype, initial |-> rrs[1].serial, adding |-> FALSE,
                         rr_count |-> 1]]
    IN IF query.qtype = "axfr" THEN apply(c, "delete all", rrs[1])
       ELSE client' = c /\ UNCHANGED zone

interpret_response ==
    LET msg == Head(stream.items) IN
    /\ client.pc = "wait" /\ stream.items # <<>>
    /\ stream' = [stream EXCEPT !.items = Tail(@)]
    /\ CASE msg.kind \in {"begin", "end"} -> UNCHANGED <<client, zone>>
         [] msg.kind = "error" -> UNCHANGED zone /\ client' = Fresh("idle", zone)
         [] msg.kind = "data" /\ client.xfr = NoXfr -> Start(msg.rrs)
         [] msg.kind = "data" /\ client.xfr # NoXfr ->
              client' = [client EXCEPT !.pc = "apply", !.todo = msg.rrs] /\ UNCHANGED zone
    /\ UNCHANGED <<version, query, funnel, channel, respond>>

Apply ==
    LET p == process_record(client.xfr, Head(client.todo)) IN
    /\ client.pc = "apply" /\ client.todo # <<>>
    /\ apply([client EXCEPT !.todo = Tail(@), !.xfr = p[2]], p[1], Head(client.todo))
    /\ UNCHANGED <<version, query, funnel, channel, respond, stream>>

(* The response is used up.  Over UDP there is no other one.               *)
Applied ==
    /\ client.pc = "apply" /\ client.todo = <<>>
    /\ client' = IF query.udp THEN Fresh("idle", zone) ELSE [client EXCEPT !.pc = "wait"]
    /\ UNCHANGED <<version, query, funnel, channel, respond, stream, zone>>

(* The client sees the end of the stream, or times out; or it goes away in *)
(* the middle.  The updater is dropped and with it what it did not commit. *)
StreamEnds ==
    /\ client.pc = "wait" /\ Ended /\ stream.items = <<>>
    /\ client' = Fresh("idle", zone)
    /\ UNCHANGED <<version, query, funnel, channel, respond, stream, zone>>

GiveUp ==
    /\ client.pc \in {"wait", "apply"}
    /\ client' = Fresh("idle", zone)
    /\ UNCHANGED <<version, query, funnel, channel, respond, stream, zone>>

(* A datagram is lost.                                                     *)
Lose ==
    /\ query.udp /\ client.pc = "wait" /\ stream.items # <<>>
    /\ stream' = [stream EXCEPT !.items = Tail(@)]
    /\ UNCHANGED <<version, query, funnel, channel, respond, zone, client>>

(* The connection's task notices that the client has gone and drops the    *)
(* stream; that of a datagram reads on.                                    *)
DropStream ==
    /\ client.pc = "idle" /\ stream.open /\ ~query.udp
    /\ stream' = [open |-> FALSE, items |-> <<>>]
    /\ UNCHANGED <<version, query, funnel, channel, respond, zone, client>>

(* Everybody is done with the query.                                       *)
Over ==
    /\ Ended /\ funnel.pc = "off" /\ client.pc = "idle"
    /\ query' = [query EXCEPT !.pc = "idle"]
    /\ stream' = [open |-> FALSE, items |-> <<>>]
    /\ UNCHANGED <<version, funnel, channel, respond, zone, client>>

-----------------------------------------------------------------------------
Middleware == Provide \/ Refuse \/ preprocess
Funneler == FunnelSend \/ FunnelFails \/ FunnelEnds
Responder == Recv \/ Push \/ Finish
Client == interpret_response \/ Apply \/ Applied \/ StreamEnds

Next ==
    \/ Update \/ (\E q \in Queries : Ask(q))
    \/ Middleware \/ Funneler \/ Responder \/ Client
    \/ GiveUp \/ Lose \/ DropStream \/ Over

(* Every task is polled again and again.  The server's zone need not       *)
(* change, and a client need not go away.                                  *)
Spec ==
    /\ Init /\ [][Next]_vars
    /\ WF_vars(Middleware) /\ WF_vars(Funneler) /\ WF_vars(Responder)
    /\ WF_vars(Client) /\ WF_vars(Over)

-----------------------------------------------------------------------------
IsVersion(z) == z.contents = Contents(z.soa)

(* The diffs served lead to the version of the SOA record they are served  *)
(* with, and nothing was served whole to a client that asked for diffs.    *)
Straight ==
    /\ query.qtype = "ixfr" => query.diffs # <<>>
    /\ query.diffs # <<>> => query.read = Last(query.diffs) + 1

(* Whenever a transfer makes the client's zone updater commit (at the      *)
(* start of every batch of an incremental transfer, at the end of any),    *)
(* the zone it publishes is exactly the version of the server's zone whose *)
(* serial it has: however RRsets were spread over messages, wherever the   *)
(* transfer broke off, whatever the server's zone did meanwhile.  For a    *)
(* whole transfer that holds whatever the client had before.               *)
PublishesVersions ==
    [][zone' # zone /\ Straight /\ (IsVersion(zone) \/ query.qtype = "axfr")
         => IsVersion(zone')]_vars

(* Every query is done with: the funneler, the responder and the client    *)
(* each end, though the first two wait for each other over a bounded       *)
(* channel and any of them may give up first.                              *)
TransfersEnd == query.pc # "idle" ~> query.pc = "idle"

(* No record of an older version is in the client's zone once it has a     *)
(* newer one.  The comment on DeleteAllRecords in ZoneUpdater::apply says  *)
(* of a transfer that replaces the zone that adding to the existing zone   *)
(* would let such a record remain.                                         *)
OldRecordsGo ==
    \A k \in Key, d \in Data : zone.contents[k][d] > 0 => d \in History[zone.soa][k]
=============================================================================
