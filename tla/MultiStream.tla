----------------------------- MODULE MultiStream -----------------------------
(***************************************************************************)
(* A client that keeps a stream connection to a server and replaces it     *)
(* when it fails (net/client/multi_stream.rs): requests that ask for a     *)
(* connection and try again on a new one, and the task of Transport::run,  *)
(* which owns the connection.                                              *)
(*                                                                         *)
(* Stream connections are numbered in the order they are made; what they   *)
(* do is what StreamTransport shows: a request is answered, refused or     *)
(* fails with its connection, and a connection ends by itself once it is   *)
(* idle or nobody holds it.  The instants and durations of delays are left *)
(* out: a timer that runs may expire at any time.                          *)
(***************************************************************************)
EXTENDS Naturals, Sequences

CONSTANTS
    None,
    Req,         \* the requests; each is used once
    ChanCap,     \* DEF_CHAN_CAP
    MaxFaults    \* bound: failed connects, broken connections, refused requests

ASSUME MultiStreamAssumption ==
    /\ None \notin Nat \cup Req
    /\ ChanCap \in Nat \ {0}
    /\ MaxFaults \in Nat

VARIABLES
    req,         \* per request: QueryState, conn_id, delayed_retry_count, connection
    handle,      \* the user still holds the Connection
    chan,        \* commands on their way to the transport
    run,         \* Transport::run: "loop", "connecting" (do_stream), "draining", "ended"
    connState,   \* SingleConnState3
    connId,      \* Transport::conn_id
    optChan,     \* opt_chan, as the request that waits for the connect
    reply,       \* per request: the value in its oneshot channel, or None
    conn,        \* the stream connections: their id and whether they still run
    faults,      \* number of faults so far
    failedOn     \* history: per request, the connections it failed on

msvars == <<req, handle, chan, run, connState, connId, optChan, reply, conn, faults, failedOn>>

NoConn == [st |-> "None"]
SomeConn(n) == [st |-> "Some", conn |-> n]
ErrConn(elapsed) == [st |-> "Err", elapsed |-> elapsed]

ReplyOk(n) == [ok |-> TRUE, conn |-> n]
ReplyErr == [ok |-> FALSE]

\* "new": not sent yet; "udp": asked over datagrams, see DgramStream.
Finals == {"answer", "WrongReplyForQuery", "ConnectionClosed", "StreamReceiveError",
           "udp answer", "QueryError", "dropped"}

\* Request::new and Transport::new.
MSInit ==
    /\ req = [r \in Req |-> [st |-> "new", id |-> None, retries |-> 0, conn |-> None]]
    /\ handle = TRUE
    /\ chan = << >>
    /\ run = "loop"
    /\ connState = NoConn
    /\ connId = 0
    /\ optChan = None
    /\ reply = [r \in Req |-> None]
    /\ conn = << >>
    /\ faults = 0
    /\ failedOn = [r \in Req |-> {}]

\* The request is in the user's hands and has no result yet.  It holds a clone of
\* the Connection.
Live(r) == req[r].st \notin Finals \cup {"new"}

\* The receiving half of the command channel is gone.
Closed == run \in {"draining", "ended"}

------------------------------------------------------------------------------
(* Requests: get_response, one action per await. *)

Goto(r, st) == req' = [req EXCEPT ![r].st = st]

\* delayed_retry_count is only compared with 1 and otherwise sets a delay.
Count(n) == IF n < 2 THEN n + 1 ELSE 2

\* new_conn: the command names the connection the request has seen last.
RequestConn(r) ==
    /\ req[r].st = "RequestConn"
    /\ \/ /\ ~ Closed
          /\ Len(chan) < ChanCap
          /\ chan' = Append(chan, [cmd |-> "NewConn", req |-> r, id |-> req[r].id])
          /\ Goto(r, "ReceiveConn")
          /\ reply' = [reply EXCEPT ![r] = None]
       \/ /\ Closed
          /\ Goto(r, "ConnectionClosed")
          /\ UNCHANGED <<chan, reply>>
    /\ UNCHANGED <<handle, run, connState, connId, optChan, conn, faults, failedOn>>

\* Somebody holds the sending half of r's oneshot channel.
SenderHeld(r) ==
    \/ optChan = r
    \/ \E i \in DOMAIN chan : chan[i].cmd = "NewConn" /\ chan[i].req = r

\* receiver.await, and StartQuery, which does not wait.
ReceiveConn(r) ==
    /\ req[r].st = "ReceiveConn"
    /\ \/ /\ reply[r] # None /\ reply[r].ok
          /\ req' = [req EXCEPT ![r].st = "GetResult", ![r].conn = reply[r].conn,
                                ![r].id = conn[reply[r].conn].id]
       \/ /\ reply[r] # None /\ ~ reply[r].ok
          /\ req' = [req EXCEPT ![r].st = "Delay", ![r].retries = Count(@)]
       \/ /\ reply[r] = None /\ ~ SenderHeld(r)
          /\ Goto(r, "StreamReceiveError")
    /\ reply' = [reply EXCEPT ![r] = None]
    /\ UNCHANGED <<handle, chan, run, connState, connId, optChan, conn, faults, failedOn>>

\* The arms for Err: only the first retry, and only after ConnectionClosed, is at once.
Retry(r, error) ==
    /\ req' = [req EXCEPT
                 ![r].retries = Count(@), ![r].conn = None,
                 ![r].st = IF error = "ConnectionClosed" /\ req[r].retries = 0
                           THEN "RequestConn" ELSE "Delay"]
    /\ failedOn' = [failedOn EXCEPT ![r] = @ \cup {req[r].conn}]

\* query.get_response().await hands the request to the stream connection, which
\* may have ended since it was handed out.
SendQuery(r) ==
    /\ req[r].st = "GetResult"
    /\ \/ conn[req[r].conn].open /\ Goto(r, "Waiting") /\ UNCHANGED failedOn
       \/ ~ conn[req[r].conn].open /\ Retry(r, "ConnectionClosed")
    /\ UNCHANGED <<handle, chan, run, connState, connId, optChan, reply, conn, faults>>

\* The stream connection has an answer.
Answer(r) ==
    /\ req[r].st = "Waiting"
    /\ conn[req[r].conn].open
    /\ req' = [req EXCEPT ![r].st = "answer", ![r].conn = None]
    /\ UNCHANGED <<handle, chan, run, connState, connId, optChan, reply, conn, faults, failedOn>>

\* The answer is not one to this request.
WrongReply(r) ==
    /\ req[r].st = "Waiting"
    /\ conn[req[r].conn].open
    /\ req' = [req EXCEPT ![r].st = "WrongReplyForQuery", ![r].conn = None]
    /\ UNCHANGED <<handle, chan, run, connState, connId, optChan, reply, conn, faults, failedOn>>

\* The stream connection refuses the request: its table is full.
Refuse(r) ==
    /\ req[r].st = "Waiting"
    /\ conn[req[r].conn].open
    /\ faults < MaxFaults
    /\ faults' = faults + 1
    /\ Retry(r, "StreamTooManyOutstandingQueries")
    /\ UNCHANGED <<handle, chan, run, connState, connId, optChan, reply, conn>>

\* The stream connection ended before it had an answer.
Fail(r) ==
    /\ req[r].st = "Waiting"
    /\ ~ conn[req[r].conn].open
    /\ Retry(r, "StreamReceiveError")
    /\ UNCHANGED <<handle, chan, run, connState, connId, optChan, reply, conn, faults>>

\* sleep_until has returned.
Delay(r) ==
    /\ req[r].st = "Delay"
    /\ Goto(r, "RequestConn")
    /\ UNCHANGED <<handle, chan, run, connState, connId, optChan, reply, conn, faults, failedOn>>

\* The user drops the request.
Cancel(r) ==
    /\ Live(r)
    /\ req' = [req EXCEPT ![r].st = "dropped", ![r].conn = None]
    /\ reply' = [reply EXCEPT ![r] = None]
    /\ UNCHANGED <<handle, chan, run, connState, connId, optChan, conn, faults, failedOn>>

\* shutdown() of the Connection.
Shutdown ==
    /\ handle
    /\ ~ Closed
    /\ Len(chan) < ChanCap
    /\ \A i \in DOMAIN chan : chan[i].cmd # "Shutdown"
    /\ chan' = Append(chan, [cmd |-> "Shutdown"])
    /\ UNCHANGED <<req, handle, run, connState, connId, optChan, reply, conn, faults, failedOn>>

\* The user drops the Connection; requests have clones of it.
DropHandle ==
    /\ handle
    /\ handle' = FALSE
    /\ UNCHANGED <<req, chan, run, connState, connId, optChan, reply, conn, faults, failedOn>>

------------------------------------------------------------------------------
(* Transport::run. *)

\* The value goes nowhere when the request was dropped.
Tell(r, v) == reply' = IF req[r].st = "ReceiveConn" THEN [reply EXCEPT ![r] = v] ELSE reply

\* Mutant: a request that failed on the current connection gets it again.
MReplaced(id) == id # None /\ id > connId

\* Mutant: a request that failed on any connection asks for another one.
MAnyFailure(id) == id # None

\* The request has seen the current connection: it asks for another one.
Replaced(id) == id # None /\ id >= connId

\* Mutant: once a connect has failed there is no other.
MNewConn(r, id) ==
    \/ /\ connState.st = "Err"
       /\ Tell(r, ReplyErr)
       /\ UNCHANGED <<run, connState, connId, optChan>>
    \/ /\ connState.st = "Some" /\ ~ Replaced(id)
       /\ Tell(r, ReplyOk(connState.conn))
       /\ UNCHANGED <<run, connState, connId, optChan>>
    \/ /\ connState.st # "Err"
       /\ ~ (connState.st = "Some" /\ ~ Replaced(id))
       /\ connState' = IF Replaced(id) THEN NoConn ELSE connState
       /\ connId' = IF Replaced(id) THEN connId + 1 ELSE connId
       /\ optChan' = r
       /\ run' = "connecting"
       /\ UNCHANGED reply

\* ReqCmd::NewConn.
NewConn(r, id) ==
    \/ /\ connState.st = "Err" /\ ~ connState.elapsed
       /\ Tell(r, ReplyErr)
       /\ UNCHANGED <<run, connState, connId, optChan>>
    \/ /\ connState.st = "Some" /\ ~ Replaced(id)
       /\ Tell(r, ReplyOk(connState.conn))
       /\ UNCHANGED <<run, connState, connId, optChan>>
    \/ /\ ~ (connState.st = "Err" /\ ~ connState.elapsed)
       /\ ~ (connState.st = "Some" /\ ~ Replaced(id))
       /\ connState' = IF Replaced(id) THEN NoConn ELSE connState
       /\ connId' = IF Replaced(id) THEN connId + 1 ELSE connId
       /\ optChan' = r
       /\ run' = "connecting"
       /\ UNCHANGED reply

\* receiver.recv() and the command, with no await in between.
Recv ==
    /\ run = "loop"
    /\ chan # << >>
    /\ \/ /\ Head(chan).cmd = "NewConn"
          /\ chan' = Tail(chan)
          /\ NewConn(Head(chan).req, Head(chan).id)
       \/ /\ Head(chan).cmd = "Shutdown"
          /\ chan' = << >>
          /\ run' = "draining"
          /\ UNCHANGED <<connState, connId, optChan, reply>>
    /\ UNCHANGED <<req, handle, conn, faults, failedOn>>

\* Mutant: the end is only noticed while there is no stream connection.
MRecvNone ==
    /\ run = "loop"
    /\ chan = << >>
    /\ ~ handle
    /\ \A r \in Req : ~ Live(r)
    /\ connState.st # "Some"
    /\ run' = "draining"
    /\ UNCHANGED <<req, handle, chan, connState, connId, optChan, reply, conn, faults, failedOn>>

\* receiver.recv() returns None: all clones of the Connection are gone.
RecvNone ==
    /\ run = "loop"
    /\ chan = << >>
    /\ ~ handle
    /\ \A r \in Req : ~ Live(r)
    /\ run' = "draining"
    /\ UNCHANGED <<req, handle, chan, connState, connId, optChan, reply, conn, faults, failedOn>>

\* stream_fut is ready with a stream.
ConnectOk ==
    /\ run = "connecting"
    /\ conn' = Append(conn, [id |-> connId, open |-> TRUE])
    /\ connState' = SomeConn(Len(conn) + 1)
    /\ Tell(optChan, ReplyOk(Len(conn) + 1))
    /\ optChan' = None
    /\ run' = "loop"
    /\ UNCHANGED <<req, handle, chan, connId, faults, failedOn>>

\* stream_fut is ready with an error.
ConnectErr ==
    /\ run = "connecting"
    /\ faults < MaxFaults
    /\ faults' = faults + 1
    /\ connState' = ErrConn(FALSE)
    /\ Tell(optChan, ReplyErr)
    /\ optChan' = None
    /\ run' = "loop"
    /\ UNCHANGED <<req, handle, chan, connId, conn, failedOn>>

\* error_state.timer.elapsed() reaches error_state.timeout.
ErrElapses ==
    /\ connState = ErrConn(FALSE)
    /\ connState' = ErrConn(TRUE)
    /\ UNCHANGED <<req, handle, chan, run, connId, optChan, reply, conn, faults, failedOn>>

\* Somebody holds the stream connection: the transport, to its very end, a
\* request, or the channel a request will get it from.
Held(n) ==
    \/ connState = SomeConn(n) /\ run # "ended"
    \/ \E r \in Req : req[r].conn = n \/ reply[r] = ReplyOk(n)

\* A stream connection's run() returns: nobody holds it, it was idle or waited too
\* long for an answer (sure to happen while the transport drains), or it broke.
StreamEnds(n) ==
    /\ conn[n].open
    /\ conn' = [conn EXCEPT ![n].open = FALSE]
    /\ \/ (~ Held(n) \/ Closed) /\ UNCHANGED faults
       \/ Held(n) /\ ~ Closed /\ faults < MaxFaults /\ faults' = faults + 1
    /\ UNCHANGED <<req, handle, chan, run, connState, connId, optChan, reply, failedOn>>

\* No runner is left.
Drained ==
    /\ run = "draining"
    /\ \A n \in DOMAIN conn : ~ conn[n].open
    /\ run' = "ended"
    /\ UNCHANGED <<req, handle, chan, connState, connId, optChan, reply, conn, faults, failedOn>>

RequestStep(r) ==
    \/ RequestConn(r) \/ ReceiveConn(r) \/ SendQuery(r)
    \/ Answer(r) \/ WrongReply(r) \/ Refuse(r) \/ Fail(r) \/ Delay(r)

TransportStep ==
    \/ Recv \/ RecvNone \/ ConnectOk \/ ConnectErr \/ ErrElapses \/ Drained
    \/ \E n \in DOMAIN conn : StreamEnds(n)

Conns == DOMAIN conn

(* Tasks are polled while they can move, delays end, and a server that is  *)
(* reached answers or ends the connection.  Faults are finite.             *)
MSFairness ==
    /\ \A r \in Req :
         WF_msvars(RequestConn(r) \/ ReceiveConn(r) \/ SendQuery(r) \/ Answer(r) \/ Fail(r) \/ Delay(r))
    /\ WF_msvars(Recv \/ RecvNone \/ ConnectOk \/ Drained)
    /\ WF_msvars(ErrElapses)
    /\ WF_msvars(\E n \in Conns : Closed /\ StreamEnds(n))
==============================================================================
