--------------------------- MODULE StreamTransport ---------------------------
(***************************************************************************)
(* A client connection over a stream (net/client/stream.rs): callers that  *)
(* hand requests to the connection and wait for answers, the task that     *)
(* runs Transport::run, and the server at the other end.                   *)
(*                                                                         *)
(* Transport::run is one task around one biased select.  Each action of    *)
(* the transport is one branch of it, together with the rest of the loop   *)
(* body and the timer check at the top of the next iteration, which follow *)
(* without an await.  A branch is taken only if the branches listed before *)
(* it are not ready.  demux_reply awaits a bounded channel when it serves  *)
(* a stream of answers and is split there.                                 *)
(*                                                                         *)
(* Times are whole units; an age is the time since the instant the code    *)
(* stores in the connection state.  Octets, message contents and the       *)
(* edns-tcp-keepalive option of outgoing messages are left out.            *)
(***************************************************************************)
EXTENDS Queries, Sequences

CONSTANTS
    Req,              \* the requests; each is used once
    Multi,            \* those that expect a stream of answers
    BadQtype,         \* those of Multi that are neither AXFR nor IXFR
    TooLong,          \* those convert_query cannot turn into a message
    ChanCap,          \* DEF_CHAN_CAP, for the request channel
    StreamCap,        \* DEF_CHAN_CAP, for the channel of a stream of answers
    ReplyCap,         \* READ_REPLY_CHAN_CAP
    SingleTimeout,    \* config.single_response_timeout
    StreamTimeout,    \* config.streaming_response_timeout
    InitTimeout,      \* config.response_timeout
    IdleTimeout,      \* config.idle_timeout
    Keepalives,       \* timeouts of the server's edns-tcp-keepalive options
    WireCap,          \* bound: messages on their way to the client
    MaxBogus          \* bound: answers the server was not asked for

ASSUME ReqAssumption ==
    /\ Multi \subseteq Req
    /\ BadQtype \subseteq Multi
    /\ TooLong \subseteq Req

ASSUME CapAssumption ==
    /\ {ChanCap, StreamCap, ReplyCap} \subseteq Nat \ {0}
    /\ {SingleTimeout, StreamTimeout, InitTimeout, IdleTimeout, WireCap, MaxBogus} \subseteq Nat
    /\ Keepalives \subseteq Nat

VARIABLES
    caller,      \* per request: where its caller is and what it was told
    handle,      \* the user still holds the Connection
    chan,        \* requests on their way to the transport
    run,         \* Transport::run: in its loop, shutting down, returned
    status,      \* Status::state, with the age of its instant
    idleTimeout, \* Status::idle_timeout
    respTimeout, \* config.response_timeout
    queries,     \* query_vec
    reqmsg,      \* the message being written, as its ID and request, or None
    demux,       \* demux_reply suspended at an await, or None
    replyq,      \* messages read: ReplyCap in the channel, one reader() waits to send
    oneshot,     \* per single request: the value in its channel, or None
    stream,      \* per stream request: the items in its channel
    wire,        \* messages from the server not read yet
    server,      \* queries the server has got and not answered in full
    bogus,       \* number of answers sent without a query
    closed       \* nothing comes after the messages on the wire

vars == <<caller, handle, chan, run, status, idleTimeout, respTimeout, queries,
          reqmsg, demux, replyq, oneshot, stream, wire, server, bogus, closed>>

------------------------------------------------------------------------------
(* Connection states: an instant is the age it has. *)

ActiveNone == [st |-> "ActiveNone", age |-> 0]
Active(a)  == [st |-> "Active", age |-> a]
Idle(a)    == [st |-> "Idle", age |-> a]
Ended(st)  == [st |-> st, age |-> 0]

Errors == {"ReadError", "ReadTimeout", "WriteError"}

\* Largest age a timer has to reach.
Timeouts == {SingleTimeout, StreamTimeout, InitTimeout, IdleTimeout} \cup Keepalives
MaxAge == CHOOSE m \in Timeouts : \A n \in Timeouts : n <= m

XFRStates == {"none", "init", "mid", "error"}
Entry == [req : Req, xfr : XFRStates]

ReplyKinds == {"more", "last", "rcode", "bad", "broken"}
Reply == [id : 0 .. MaxId, ans : Req, kind : ReplyKinds, ka : Keepalives \cup {None}]

EntryReqs(q) == {q.vec[i].req : i \in Occupied(q)}

\* demux_reply suspended: the query it has taken out of the table, whether it
\* puts the query back, and what it still sends to the caller.
Items == {<<"answer">>, <<"WrongReplyForQuery">>, <<"answer", "eof">>,
          <<"WrongReplyForQuery", "eof">>, <<"eof">>}
Suspension == [id : Nat, entry : Entry, keep : BOOLEAN, items : Items]

\* None is no value of an Option the code keeps.
ASSUME NoneAssumption ==
    /\ None \notin Req \cup Entry \cup Suspension \cup [id : Nat, req : Req]
    /\ None \notin {"answer", "eof", "WrongReplyForQuery"}

InSeq(s) == {s[i] : i \in 1 .. Len(s)}

Init ==
    /\ caller = [r \in Req |-> [pc |-> "new", res |-> None]]
    /\ handle = TRUE
    /\ chan = << >>
    /\ run = "loop"
    /\ status = ActiveNone
    /\ idleTimeout = IdleTimeout
    /\ respTimeout = InitTimeout
    /\ queries = Empty
    /\ reqmsg = None
    /\ demux = None
    /\ replyq = << >>
    /\ oneshot = [r \in Req \ Multi |-> None]
    /\ stream = [r \in Multi |-> << >>]
    /\ wire = << >>
    /\ server = {}
    /\ bogus = 0
    /\ closed = FALSE

------------------------------------------------------------------------------
(* Callers. *)

Finish(r, res) == caller' = [caller EXCEPT ![r] = [pc |-> "done", res |-> res]]

\* get_request, get_streaming_request: the future holds a clone of the Connection.
Start(r) ==
    /\ handle
    /\ caller[r].pc = "new"
    /\ caller' = [caller EXCEPT ![r].pc = "sending"]
    /\ UNCHANGED <<handle, chan, run, status, idleTimeout, respTimeout, queries,
                   reqmsg, demux, replyq, oneshot, stream, wire, server, bogus, closed>>

\* self.sender.send(req).await: wait for room, fail when the receiver is gone.
Enqueue(r) ==
    /\ caller[r].pc = "sending"
    /\ \/ /\ run # "returned"
          /\ Len(chan) < ChanCap
          /\ chan' = Append(chan, r)
          /\ caller' = [caller EXCEPT ![r].pc = "waiting"]
       \/ /\ run = "returned"
          /\ Finish(r, "ConnectionClosed")
          /\ UNCHANGED chan
    /\ UNCHANGED <<handle, run, status, idleTimeout, respTimeout, queries,
                   reqmsg, demux, replyq, oneshot, stream, wire, server, bogus, closed>>

\* Somebody still holds the sending half of r's channel.
SenderHeld(r) ==
    \/ r \in InSeq(chan)
    \/ r \in EntryReqs(queries)
    \/ demux # None /\ demux.entry.req = r

\* receiver.await of handle_request_impl.
GetResponse(r) ==
    /\ r \notin Multi
    /\ caller[r].pc = "waiting"
    /\ \/ oneshot[r] # None /\ Finish(r, oneshot[r])
       \/ oneshot[r] = None /\ ~ SenderHeld(r) /\ Finish(r, "StreamReceiveError")
    /\ UNCHANGED <<handle, chan, run, status, idleTimeout, respTimeout, queries,
                   reqmsg, demux, replyq, oneshot, stream, wire, server, bogus, closed>>

\* RequestMulti::get_response_impl: the next item of the stream.  The caller
\* stops at the end of the stream, and may stop at an error.
GetResponseMulti(r) ==
    /\ r \in Multi
    /\ caller[r].pc = "waiting"
    /\ \/ /\ stream[r] # << >>
          /\ stream' = [stream EXCEPT ![r] = Tail(@)]
          /\ \/ Head(stream[r]) # "answer" /\ Finish(r, Head(stream[r]))
             \/ Head(stream[r]) # "eof" /\ UNCHANGED caller
       \/ /\ stream[r] = << >>
          /\ ~ SenderHeld(r)
          /\ Finish(r, "ConnectionClosed")
          /\ UNCHANGED stream
    /\ UNCHANGED <<handle, chan, run, status, idleTimeout, respTimeout, queries,
                   reqmsg, demux, replyq, oneshot, wire, server, bogus, closed>>

\* The caller drops its request.  Nothing tells the transport.
Cancel(r) ==
    /\ caller[r].pc \in {"sending", "waiting"}
    /\ caller' = [caller EXCEPT ![r].pc = "dropped"]
    /\ UNCHANGED <<handle, chan, run, status, idleTimeout, respTimeout, queries,
                   reqmsg, demux, replyq, oneshot, stream, wire, server, bogus, closed>>

\* The user drops the Connection.
DropConnection ==
    /\ handle
    /\ handle' = FALSE
    /\ UNCHANGED <<caller, chan, run, status, idleTimeout, respTimeout, queries,
                   reqmsg, demux, replyq, oneshot, stream, wire, server, bogus, closed>>

\* A clone of the Connection is alive: the user's, or the one in the future of a
\* request.  A stream request gives its clone up once the request is queued.
ConnectionAlive ==
    \/ handle
    \/ \E r \in Req : \/ caller[r].pc = "sending"
                      \/ caller[r].pc = "waiting" /\ r \notin Multi

------------------------------------------------------------------------------
(* The transport. *)

\* Mutant: the response timer is not checked.
MNextIteration(s, q, rt, it) ==
    /\ run' = IF (s.st = "Idle" /\ s.age >= it) \/ s.st = "IdleTimeout" THEN "closing" ELSE "loop"
    /\ status' = s
    /\ queries' = q

\* The rest of the loop body after a branch that leaves state s, table q and
\* timeouts rt and it, and the timer check of the next iteration.
NextIteration(s, q, rt, it) ==
    \/ /\ s.st = "Active" /\ s.age > rt
       /\ run' = "closing"
       /\ status' = Ended("ReadTimeout")
       /\ queries' = Drain(q)
    \/ /\ \/ s.st = "Idle" /\ s.age >= it
          \/ s.st = "IdleTimeout"
       /\ run' = "closing"
       /\ status' = Ended("IdleTimeout")
       /\ queries' = q
    \/ /\ \/ s.st = "ActiveNone"
          \/ s.st = "Active" /\ s.age <= rt
          \/ s.st = "Idle" /\ s.age < it
       /\ run' = "loop"
       /\ status' = s
       /\ queries' = q

\* Break out of the loop on an error.  error() drops the futures of the sends it
\* makes without polling them, so the callers only see their senders go away.
Error(st) ==
    /\ run' = "closing"
    /\ status' = Ended(st)
    /\ queries' = Drain(queries)

InSelect == run = "loop" /\ demux = None

\* reader() can move: it reads on unless it waits for room in the channel.
ReaderReady == Len(replyq) <= ReplyCap /\ (wire # << >> \/ closed)

\* The select polls reader(): a message is read and handed to the loop.
ReadMessage ==
    /\ InSelect
    /\ ReaderReady /\ wire # << >>
    /\ wire' = Tail(wire)
    /\ replyq' = Append(replyq, Head(wire))
    /\ UNCHANGED <<caller, handle, chan, run, status, idleTimeout, respTimeout,
                   queries, reqmsg, demux, oneshot, stream, server, bogus, closed>>

\* reader() ends: end of file, a failed read or a message too short to be one.
ReadFails ==
    /\ InSelect
    /\ ReaderReady /\ wire = << >>
    /\ Error("ReadError")
    /\ UNCHANGED <<caller, handle, chan, idleTimeout, respTimeout, reqmsg, demux,
                   replyq, oneshot, stream, wire, server, bogus, closed>>

\* Mutant: a message that leaves the stream in the middle ends it.
MCheckStream(e, m) ==
    IF m.kind \in {"more", "last"}
    THEN [eof |-> TRUE, xfr |-> "mid", ok |-> TRUE]
    ELSE [eof |-> FALSE, xfr |-> "error", ok |-> FALSE]

\* check_stream: does message m end the stream of answers e waits for, which state
\* is the stream in after it, and is m an answer at all?  A "broken" message does
\* not parse; a "bad" one has records out of place.
CheckStream(e, m) ==
    CASE \/ e.xfr = "error"
         \/ e.xfr = "init" /\ m.ans # e.req
         \/ m.kind = "rcode" /\ m.ans # e.req
         \/ m.kind = "bad"
           -> [eof |-> FALSE, xfr |-> "error", ok |-> FALSE]
      [] OTHER
           -> [eof |-> m.kind # "more",
               xfr |-> IF m.kind = "broken" THEN "error"
                       ELSE IF m.kind = "rcode" THEN e.xfr ELSE "mid",
               ok  |-> m.kind # "broken"]

\* The state demux_reply leaves when the table is q: the connection goes idle
\* when nothing is outstanding.
Settle(s, q, it) ==
    IF IsEmpty(q) THEN (IF it = 0 THEN Ended("IdleTimeout") ELSE Idle(0)) ELSE s

Verdict(ok) == IF ok THEN "answer" ELSE "WrongReplyForQuery"

\* Mutant: a stream of answers gives its ID up with its first answer.
MDemuxMulti(m, it) ==
    LET e == queries.vec[m.id]
        c == CheckStream(e, m)
    IN  /\ demux' = [id |-> m.id, entry |-> [e EXCEPT !.xfr = c.xfr], keep |-> FALSE,
                     items |-> IF c.eof THEN <<Verdict(c.ok), "eof">> ELSE <<Verdict(c.ok)>>]
        /\ queries' = TryRemove(queries, m.id)
        /\ status' = Active(0)
        /\ UNCHANGED <<run, oneshot>>

\* demux_reply up to its first await, for a stream request.
DemuxMulti(m, it) ==
    LET e == queries.vec[m.id]
        c == CheckStream(e, m)
    IN  /\ demux' = [id |-> m.id, entry |-> [e EXCEPT !.xfr = c.xfr], keep |-> ~ c.eof,
                     items |-> IF c.eof THEN <<Verdict(c.ok), "eof">> ELSE <<Verdict(c.ok)>>]
        /\ queries' = TryRemove(queries, m.id)
        /\ status' = Active(0)
        /\ UNCHANGED <<run, oneshot>>

\* demux_reply for a single request.
DemuxSingle(m, it) ==
    LET e == queries.vec[m.id]
        q == TryRemove(queries, m.id)
    IN  /\ oneshot' = [oneshot EXCEPT ![e.req] = Verdict(m.ans = e.req)]
        /\ NextIteration(Settle(Active(0), q, it), q, respTimeout, it)
        /\ UNCHANGED demux

\* demux_reply, no query has this ID.
DemuxUnknown(m, it) ==
    /\ NextIteration(Active(0), queries, respTimeout, it)
    /\ UNCHANGED <<oneshot, demux>>

\* reply_receiver.recv(): handle_opts, then demux_reply.
DemuxReply ==
    /\ InSelect /\ ~ ReaderReady
    /\ replyq # << >>
    /\ LET m  == Head(replyq)
           it == IF m.ka = None THEN idleTimeout ELSE m.ka
       IN  /\ replyq' = Tail(replyq)
           /\ idleTimeout' = it
           /\ \/ m.id \notin Occupied(queries) /\ DemuxUnknown(m, it)
              \/ /\ m.id \in Occupied(queries)
                 /\ queries.vec[m.id].req \in Multi
                 /\ DemuxMulti(m, it)
              \/ /\ m.id \in Occupied(queries)
                 /\ queries.vec[m.id].req \notin Multi
                 /\ DemuxSingle(m, it)
    /\ UNCHANGED <<caller, handle, chan, respTimeout, reqmsg, stream, wire, server, bogus, closed>>

\* demux_reply after its last await: the query is put back if more answers are due.
DemuxEnd ==
    LET q == IF demux.keep THEN InsertAt(queries, demux.id, demux.entry) ELSE queries
    IN  /\ demux' = None
        /\ NextIteration(Settle(status, q, idleTimeout), q, respTimeout, idleTimeout)

\* demux_reply: one item has been taken by the channel of the stream request, or
\* dropped because the receiver is gone.
DemuxSend ==
    /\ run = "loop" /\ demux # None
    /\ LET r == demux.entry.req
       IN  \/ /\ caller[r].pc = "waiting" /\ Len(stream[r]) < StreamCap
              /\ stream' = [stream EXCEPT ![r] = Append(@, Head(demux.items))]
           \/ /\ caller[r].pc # "waiting"
              /\ UNCHANGED stream
    /\ IF Len(demux.items) = 1
       THEN DemuxEnd
       ELSE /\ demux' = [demux EXCEPT !.items = Tail(@)]
            /\ UNCHANGED <<run, status, queries>>
    /\ UNCHANGED <<caller, handle, chan, idleTimeout, respTimeout, reqmsg, replyq,
                   oneshot, wire, server, bogus, closed>>

\* write_stream.write() has taken the whole message.
WriteMessage ==
    /\ InSelect /\ ~ ReaderReady /\ replyq = << >>
    /\ reqmsg # None
    /\ server' = server \cup {reqmsg}
    /\ reqmsg' = None
    /\ NextIteration(status, queries, respTimeout, idleTimeout)
    /\ UNCHANGED <<caller, handle, chan, idleTimeout, respTimeout, demux, replyq,
                   oneshot, stream, wire, bogus, closed>>

\* write_stream.write() fails.
WriteFails ==
    /\ InSelect /\ ~ ReaderReady /\ replyq = << >>
    /\ reqmsg # None
    /\ Error("WriteError")
    /\ UNCHANGED <<caller, handle, chan, idleTimeout, respTimeout, reqmsg, demux,
                   replyq, oneshot, stream, wire, server, bogus, closed>>

\* Mutant: a request that arrives on an idle connection leaves it idle.
MActivate(s) == IF s.st = "ActiveNone" THEN Active(0) ELSE s

\* insert_req: a request starts the timer, unless it runs already.
Activate(s) == IF s.st = "Active" THEN s ELSE Active(0)

\* Mutant: a query is sent with the number of queries before it as its ID.
MInsertReq(r) ==
    LET e   == [req |-> r, xfr |-> IF r \in Multi THEN "init" ELSE "none"]
        idx == InsertIdx(queries)
    IN  CASE r \in BadQtype \/ InsertFails(queries) ->
               [q |-> queries, msg |-> None]
          [] r \in TooLong /\ r \notin BadQtype /\ ~ InsertFails(queries) ->
               [q |-> TryRemove(Insert(queries, e), idx), msg |-> None]
          [] OTHER ->
               [q |-> Insert(queries, e), msg |-> [id |-> queries.count, req |-> r]]

\* insert_req: the table and the message to write after request r.  The errors
\* it reports are dropped as those of error() are.
InsertReq(r) ==
    LET e   == [req |-> r, xfr |-> IF r \in Multi THEN "init" ELSE "none"]
        idx == InsertIdx(queries)
    IN  CASE r \in BadQtype \/ InsertFails(queries) ->
               [q |-> queries, msg |-> None]
          [] r \in TooLong /\ r \notin BadQtype /\ ~ InsertFails(queries) ->
               [q |-> TryRemove(Insert(queries, e), idx), msg |-> None]
          [] OTHER ->
               [q |-> Insert(queries, e), msg |-> [id |-> idx, req |-> r]]

\* recv_fut: a request, polled only while nothing is being written.
ReceiveReq ==
    /\ InSelect /\ ~ ReaderReady /\ replyq = << >> /\ reqmsg = None
    /\ chan # << >>
    /\ LET r   == Head(chan)
           ins == InsertReq(r)
           rt  == IF r \in Multi THEN StreamTimeout ELSE SingleTimeout
       IN  /\ chan' = Tail(chan)
           /\ respTimeout' = rt
           /\ reqmsg' = ins.msg
           /\ NextIteration(Activate(status), ins.q, rt, idleTimeout)
    /\ UNCHANGED <<caller, handle, idleTimeout, demux, replyq, oneshot, stream,
                   wire, server, bogus, closed>>

\* Mutant: only an idle connection ends when every Connection is gone.
MReceiveNone ==
    /\ InSelect /\ ~ ReaderReady /\ replyq = << >> /\ reqmsg = None
    /\ chan = << >> /\ ~ ConnectionAlive
    /\ status.st = "Idle"
    /\ run' = "closing"
    /\ UNCHANGED <<caller, handle, chan, status, idleTimeout, respTimeout, queries,
                   reqmsg, demux, replyq, oneshot, stream, wire, server, bogus, closed>>

\* recv_fut: every Connection is gone.
ReceiveNone ==
    /\ InSelect /\ ~ ReaderReady /\ replyq = << >> /\ reqmsg = None
    /\ chan = << >> /\ ~ ConnectionAlive
    /\ run' = "closing"
    /\ UNCHANGED <<caller, handle, chan, status, idleTimeout, respTimeout, queries,
                   reqmsg, demux, replyq, oneshot, stream, wire, server, bogus, closed>>

\* sleep_fut, and the timer check has something to do.
TimerExpires ==
    /\ InSelect /\ ~ ReaderReady /\ replyq = << >>
    /\ reqmsg # None \/ (chan = << >> /\ ConnectionAlive)
    /\ \/ status.st = "Active" /\ status.age > respTimeout
       \/ status.st = "Idle" /\ status.age >= idleTimeout
    /\ NextIteration(status, queries, respTimeout, idleTimeout)
    /\ UNCHANGED <<caller, handle, chan, idleTimeout, respTimeout, reqmsg, demux,
                   replyq, oneshot, stream, wire, server, bogus, closed>>

\* write_stream.shutdown() is done and run() returns; everything it owns goes.
Return ==
    /\ run = "closing"
    /\ run' = "returned"
    /\ chan' = << >>
    /\ queries' = Drain(queries)
    /\ replyq' = << >>
    /\ reqmsg' = None
    /\ UNCHANGED <<caller, handle, status, idleTimeout, respTimeout, demux,
                   oneshot, stream, wire, server, bogus, closed>>

\* Time passes.
Tick ==
    /\ run = "loop"
    /\ status.st \in {"Active", "Idle"}
    /\ status.age <= MaxAge
    /\ status' = [status EXCEPT !.age = @ + 1]
    /\ UNCHANGED <<caller, handle, chan, run, idleTimeout, respTimeout, queries,
                   reqmsg, demux, replyq, oneshot, stream, wire, server, bogus, closed>>

------------------------------------------------------------------------------
(* The server. *)

ServerOpen == ~ closed /\ run # "returned"

Put(m) == wire' = Append(wire, m)

\* The server answers a query it got; a single one with one message.
ServerAnswers(p) ==
    /\ ServerOpen /\ Len(wire) < WireCap
    /\ \E kind \in IF p.req \in Multi THEN {"more", "last", "rcode"} ELSE {"last"},
          ka \in Keepalives \cup {None} :
         /\ Put([id |-> p.id, ans |-> p.req, kind |-> kind, ka |-> ka])
         /\ server' = IF kind = "more" THEN server ELSE server \ {p}
    /\ UNCHANGED <<caller, handle, chan, run, status, idleTimeout, respTimeout, queries,
                   reqmsg, demux, replyq, oneshot, stream, bogus, closed>>

\* The server sends something else: an answer nobody asked for, one to another
\* question, or one that does not continue a stream of answers.
ServerErrs ==
    /\ ServerOpen /\ Len(wire) < WireCap
    /\ bogus < MaxBogus
    /\ \E m \in Reply : m.ka = None /\ Put(m)
    /\ bogus' = bogus + 1
    /\ UNCHANGED <<caller, handle, chan, run, status, idleTimeout, respTimeout, queries,
                   reqmsg, demux, replyq, oneshot, stream, server, closed>>

\* The server closes the connection, or the connection breaks.
ServerCloses ==
    /\ ServerOpen
    /\ closed' = TRUE
    /\ UNCHANGED <<caller, handle, chan, run, status, idleTimeout, respTimeout, queries,
                   reqmsg, demux, replyq, oneshot, stream, wire, server, bogus>>

------------------------------------------------------------------------------

CallerNext(r) ==
    \/ Start(r) \/ Enqueue(r) \/ GetResponse(r) \/ GetResponseMulti(r) \/ Cancel(r)

TransportNext ==
    \/ ReadMessage \/ ReadFails \/ DemuxReply \/ DemuxSend \/ WriteMessage \/ WriteFails
    \/ ReceiveReq \/ ReceiveNone \/ TimerExpires \/ Return

ServerNext == (\E p \in server : ServerAnswers(p)) \/ ServerErrs \/ ServerCloses

\* All callers are done and the transport has returned.
Terminated ==
    /\ run = "returned" /\ ~ handle
    /\ \A r \in Req : caller[r].pc \in {"new", "done", "dropped"}
    /\ UNCHANGED vars

Next ==
    \/ \E r \in Req : CallerNext(r)
    \/ DropConnection
    \/ TransportNext
    \/ Tick
    \/ ServerNext
    \/ Terminated

Spec == Init /\ [][Next]_vars

\* The runtime polls every task that can move, and callers poll their requests.
\* Neither the server nor a write has to make progress.
Fairness ==
    /\ \A r \in Req : WF_vars(Enqueue(r) \/ GetResponse(r) \/ GetResponseMulti(r))
    /\ WF_vars(ReadMessage \/ ReadFails)
    /\ WF_vars(DemuxReply \/ DemuxSend)
    /\ WF_vars(ReceiveReq \/ ReceiveNone)
    /\ WF_vars(TimerExpires)
    /\ WF_vars(Return)
    /\ WF_vars(Tick)

FairSpec == Spec /\ Fairness

------------------------------------------------------------------------------

\* Types, and the bounds of the channels (DEF_CHAN_CAP, READ_REPLY_CHAN_CAP).
TypeOK ==
    /\ caller \in [Req -> [pc : {"new", "sending", "waiting", "done", "dropped"},
                           res : {None, "answer", "eof", "WrongReplyForQuery",
                                  "StreamReceiveError", "ConnectionClosed"}]]
    /\ handle \in BOOLEAN
    /\ chan \in Seq(Req) /\ Len(chan) <= ChanCap
    /\ run \in {"loop", "closing", "returned"}
    /\ status.st \in {"ActiveNone", "Active", "Idle", "IdleTimeout"} \cup Errors
    /\ status.age \in 0 .. MaxAge + 1
    /\ idleTimeout \in Keepalives \cup {IdleTimeout}
    /\ respTimeout \in {InitTimeout, SingleTimeout, StreamTimeout}
    /\ IsTable(queries, Entry)
    /\ reqmsg \in [id : 0 .. MaxId, req : Req] \cup {None}
    /\ demux \in Suspension \cup {None}
    /\ demux # None => demux.id <= MaxId
    /\ replyq \in Seq(Reply) /\ Len(replyq) <= ReplyCap + 1
    /\ oneshot \in [Req \ Multi -> {None, "answer", "WrongReplyForQuery"}]
    /\ \A r \in Multi : Len(stream[r]) <= StreamCap
    /\ server \subseteq [id : 0 .. MaxId, req : Req]
    /\ bogus \in 0 .. MaxBogus
    /\ closed \in BOOLEAN

\* While a query is outstanding the response timer runs: the connection neither
\* idles nor waits without a limit (insert_req and demux_reply keep the table and
\* the connection state in step).
OutstandingIsTimed ==
    run = "loop" /\ ~ IsEmpty(queries) => status.st = "Active"

\* The entry a reply with this ID would be matched with.
EntryAt(id) ==
    IF demux # None /\ demux.id = id THEN demux.entry.req
    ELSE IF id \in Occupied(queries) THEN queries.vec[id].req ELSE None

\* A query the server may still answer holds its ID: no later request is given
\* the ID before the answer has arrived or the connection has ended.
IdHeldUntilAnswered ==
    run = "loop" /\ bogus = 0 =>
        \A p \in server : EntryAt(p.id) = p.req

\* A server that answers what it was asked is never told off: no caller gets the
\* answer to another request, or WrongReplyForQuery in its place.
AnswersReachTheirCaller ==
    bogus = 0 =>
        /\ \A r \in Req \ Multi : oneshot[r] # "WrongReplyForQuery"
        /\ \A r \in Multi : "WrongReplyForQuery" \notin InSeq(stream[r])

\* The end of a stream of answers is reported only after the server has sent all
\* of it.
EofMeansComplete ==
    bogus = 0 =>
        \A r \in Multi : "eof" \in InSeq(stream[r]) \/ caller[r].res = "eof" =>
            \A p \in server : p.req # r

\* The server stops sending.
SilentServer == <>[](wire = << >> \/ run # "loop")

\* Every request comes to an end, with an answer or with an error, even if the
\* server never answers and a write never completes: the response timer sees to it.
RequestsEnd ==
    SilentServer =>
        \A r \in Req : caller[r].pc \in {"sending", "waiting"}
                           ~> caller[r].pc \in {"done", "dropped"}

\* "It terminates when the last connection is dropped" (Connection::new): without
\* a Connection the transport returns.
TransportEnds == SilentServer => (~ handle ~> run = "returned")
==============================================================================
