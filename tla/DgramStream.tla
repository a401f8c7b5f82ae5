----------------------------- MODULE DgramStream -----------------------------
(***************************************************************************)
(* A client that asks over datagrams first and over streams when the       *)
(* answer is truncated (net/client/dgram_stream.rs): the datagram          *)
(* transport (net/client/dgram.rs) composed with MultiStream.              *)
(*                                                                         *)
(* The network loses, repeats, delays and reorders datagrams and may       *)
(* deliver ones nobody asked for.  Every try has a socket of its own.  A   *)
(* datagram is its length, in units, and what is_answer looks at.          *)
(***************************************************************************)
EXTENDS MultiStream

CONSTANTS
    MaxRetries,   \* config.max_retries
    HeaderLen,    \* length of a header
    QuestionLen,  \* length of a header with a question
    AnswerLen,    \* length of an answer with its records
    RecvSize      \* config.recv_size

ASSUME DgramAssumption ==
    /\ MaxRetries \in Nat
    /\ 0 < HeaderLen /\ HeaderLen < QuestionLen
    /\ QuestionLen < AnswerLen /\ AnswerLen <= RecvSize

VARIABLES
    tries,    \* per request: the datagrams tries so far
    awaiting, \* per request: it is in the receive loop, and not about to send
    buf       \* per request: length of the receive buffer

vars == <<msvars, tries, awaiting, buf>>

Init ==
    /\ MSInit
    /\ tries = [r \in Req |-> 0]
    /\ awaiting = [r \in Req |-> FALSE]
    /\ buf = [r \in Req |-> RecvSize]

(* Everything that can be received: octets that are no message, messages   *)
(* without a question, and messages with the question of some request.  An *)
(* ID is only compared with the random one of the current try.             *)
Dgrams ==
    {[len |-> 0, qr |-> FALSE, id |-> FALSE, q |-> None, err |-> FALSE, tc |-> FALSE]}
    \cup [len : {HeaderLen}, qr : {TRUE}, id : BOOLEAN, q : {None}, err : BOOLEAN, tc : {FALSE}]
    \cup [len : {QuestionLen, AnswerLen}, qr : BOOLEAN, id : BOOLEAN, q : Req, err : {FALSE}, tc : BOOLEAN]

\* Message::try_from_octets and RequestMessage::is_answer of the first n units of m:
\* the question can only be read if it was received.
IsAnswer(r, m, n) ==
    /\ n >= HeaderLen
    /\ m.qr /\ m.id
    /\ \/ m.err /\ m.q = None
       \/ m.q = r /\ n >= QuestionLen

\* send_request of dgram_stream.  The permit of dgram.rs's semaphore is released in
\* the statement that acquires it, so it is always there.
SendRequest(r) ==
    /\ handle
    /\ req[r].st = "new"
    /\ Goto(r, "udp")
    /\ UNCHANGED <<handle, chan, run, connState, connId, optChan, reply, conn, faults, failedOn,
                   tries, awaiting, buf>>

\* The future is over and its variables are gone.
Forget(r) ==
    /\ tries' = [tries EXCEPT ![r] = 0]
    /\ awaiting' = [awaiting EXCEPT ![r] = FALSE]
    /\ buf' = [buf EXCEPT ![r] = RecvSize]

\* The top of the transmit loop: a new socket and a new random ID; connect or
\* send may fail.
Transmit(r) ==
    /\ req[r].st = "udp" /\ ~ awaiting[r]
    /\ \/ /\ tries' = [tries EXCEPT ![r] = @ + 1]
          /\ awaiting' = [awaiting EXCEPT ![r] = TRUE]
          /\ UNCHANGED <<req, buf>>
       \/ Goto(r, "QueryError") /\ Forget(r)
    /\ UNCHANGED <<handle, chan, run, connState, connId, optChan, reply, conn, faults, failedOn>>

\* The end of a try, with receive buffer b: the next try, or a timeout error.
NextTry(r, b) ==
    \/ /\ tries[r] < 1 + MaxRetries
       /\ awaiting' = [awaiting EXCEPT ![r] = FALSE]
       /\ buf' = [buf EXCEPT ![r] = b]
       /\ UNCHANGED <<req, tries>>
    \/ /\ tries[r] = 1 + MaxRetries
       /\ Goto(r, "QueryError")
       /\ Forget(r)

\* The deadline passes while recv waits; the buffer is dropped.
Timeout(r) ==
    /\ req[r].st = "udp" /\ awaiting[r]
    /\ NextTry(r, RecvSize)
    /\ UNCHANGED <<handle, chan, run, connState, connId, optChan, reply, conn, faults, failedOn>>

\* recv fails.
ReceiveError(r) ==
    /\ req[r].st = "udp" /\ awaiting[r]
    /\ Goto(r, "QueryError")
    /\ Forget(r)
    /\ UNCHANGED <<handle, chan, run, connState, connId, optChan, reply, conn, faults, failedOn>>

\* What came is not the answer: its buffer, cut to its length, is used again.  The
\* deadline may have passed meanwhile.
Ignore(r, n) ==
    \/ buf' = [buf EXCEPT ![r] = n] /\ UNCHANGED <<req, tries, awaiting>>
    \/ NextTry(r, n)

\* The answer: GetUdpResponse returns it, or starts a request over a stream.
Accept(r, m) ==
    /\ Goto(r, IF m.tc THEN "RequestConn" ELSE "udp answer")
    /\ Forget(r)

\* recv returns.
Receive(r) ==
    /\ req[r].st = "udp" /\ awaiting[r]
    /\ \E m \in Dgrams :
         LET n == IF m.len <= buf[r] THEN m.len ELSE buf[r]
         IN  IF IsAnswer(r, m, n) THEN Accept(r, m) ELSE Ignore(r, n)
    /\ UNCHANGED <<handle, chan, run, connState, connId, optChan, reply, conn, faults, failedOn>>

UdpStep(r) == SendRequest(r) \/ Transmit(r) \/ Timeout(r) \/ ReceiveError(r) \/ Receive(r)

Next ==
    \/ \E r \in Req : UdpStep(r)
    \/ \E r \in Req : Cancel(r) /\ Forget(r)
    \/ /\ \/ \E r \in Req : RequestStep(r)
          \/ Shutdown \/ DropHandle
          \/ TransportStep
       /\ UNCHANGED <<tries, awaiting, buf>>

Spec == Init /\ [][Next]_vars

(* Deadlines pass and sends return; MSFairness for the rest. *)
Fairness ==
    /\ MSFairness
    /\ \A r \in Req : WF_vars(Transmit(r)) /\ WF_vars(Timeout(r))

------------------------------------------------------------------------------

\* The state of the two transports is well formed, and a stream is connected to only
\* when there is none.
TypeOK ==
    /\ req \in [Req -> [st : Finals \cup {"new", "udp", "RequestConn", "ReceiveConn",
                                          "GetResult", "Waiting", "Delay"},
                        id : Nat \cup {None}, retries : 0 .. 2, conn : DOMAIN conn \cup {None}]]
    /\ Len(chan) <= ChanCap
    /\ run \in {"loop", "connecting", "draining", "ended"}
    /\ run = "connecting" <=> optChan # None
    /\ run = "connecting" => connState.st # "Some"
    /\ \A r \in Req : tries[r] <= 1 + MaxRetries
    /\ \A r \in Req : req[r].st \in {"GetResult", "Waiting"} <=> req[r].conn # None

(* A request is never given a stream connection it has failed on, although *)
(* requests and the transport only compare connection ids, and ids are     *)
(* counted up only when some request complains (multi_stream.rs, NewConn). *)
FreshConnection == \A r \in Req : req[r].conn # None => req[r].conn \notin failedOn[r]

(* The transport gives up a stream connection only if a request failed on  *)
(* that very connection: of requests that fail together, the second does   *)
(* not take down what the first was given.                                 *)
HealthyConnectionsKept ==
    [][\A n \in DOMAIN conn :
         connState = SomeConn(n) /\ connState' # SomeConn(n) => \E r \in Req : n \in failedOn[r]]_vars

(* If faults are finite and a server that is reached answers, every request*)
(* ends, by a result or because it was dropped (dgram.rs: retries are      *)
(* limited; multi_stream.rs: retries go on until the transport is closed). *)
RequestsEnd == \A r \in Req : Live(r) ~> ~ Live(r)

(* run() returns after a shutdown command, and after the last clone of the *)
(* Connection is gone (multi_stream.rs, run).                              *)
TransportEnds ==
    (\E i \in DOMAIN chan : chan[i].cmd = "Shutdown") \/ (~ handle /\ \A r \in Req : ~ Live(r))
        ~> run = "ended"
==============================================================================
