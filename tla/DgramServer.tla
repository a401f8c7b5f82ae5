---------------------------- MODULE DgramServer -----------------------------
(***************************************************************************)
(* The datagram server (net/server/dgram.rs): a listener that receives     *)
(* datagrams and obeys commands, and the task it spawns for every datagram *)
(* it received, which calls the service through the middleware and sends   *)
(* what comes back.  Requests that arrive over a stream go through the     *)
(* same middleware; what their connection does is in StreamServer.         *)
(***************************************************************************)
EXTENDS Middleware, FiniteSets

CONSTANTS
    Msg,           \* messages that arrive
    Requests,      \* Msg -> the requests it may be; a field qr tells replies, and
                   \* messages too short for a header, from queries
    Services(_),   \* what the service may yield for a request it gets
    Sizes,         \* values of max_response_size, 0 for none
    MaxCommands    \* commands the application sends

ASSUME DgramAssumption ==
    /\ IsFiniteSet(Msg) /\ Sizes \subseteq Nat /\ Sizes # {} /\ MaxCommands \in Nat
    /\ \A m \in Msg : Requests[m] # {} /\ Requests[m] \subseteq RequestType
    /\ \A m \in Msg : \A req \in Requests[m] : Services(req) \subseteq Seq(ItemType)

VARIABLES
    command,   \* the watch channel: [ver, kind, size], only the latest value
    listener,  \* [pc, seen, size]: run_until_error and the shared config
    task,      \* Msg -> [pc, req, hint, items, next]: the task of a message
    metrics,   \* [pending]
    asked      \* the messages the service was asked about

vars == <<command, listener, task, metrics, asked>>

is_shutdown == metrics.pending = 0

Init ==
    /\ \E s \in Sizes :
         /\ command = [ver |-> 0, kind |-> "init", size |-> s]
         /\ listener = [pc |-> "command", seen |-> 0, size |-> s]
    /\ task = [m \in Msg |-> [pc |-> "unsent", req |-> CHOOSE r \in Requests[m] : TRUE,
                              hint |-> 0, items |-> <<>>, next |-> 1]]
    /\ metrics = [pending |-> 0]
    /\ asked = {}

Reconfigure(s) ==
    /\ command.ver < MaxCommands /\ s # command.size
    /\ command' = [ver |-> command.ver + 1, kind |-> "reconfigure", size |-> s]
    /\ UNCHANGED <<listener, task, metrics, asked>>

Shutdown ==
    /\ command.ver < MaxCommands + 1
    /\ command' = [command EXCEPT !.ver = @ + 1, !.kind = "shutdown"]
    /\ UNCHANGED <<listener, task, metrics, asked>>

(* The command branch of the biased select!, polled first.                 *)
process_server_command ==
    /\ listener.pc = "command"
    /\ listener' =
         IF command.ver = listener.seen THEN [listener EXCEPT !.pc = "read"]
         ELSE IF command.kind = "shutdown" THEN [listener EXCEPT !.pc = "stopped"]
         ELSE [listener EXCEPT !.seen = command.ver, !.size = command.size]
    /\ UNCHANGED <<command, task, metrics, asked>>

(* A datagram is received and its task spawned.                            *)
Receive(m, req) ==
    /\ listener.pc = "read"
    /\ task[m].pc = "unsent" /\ req.udp
    /\ task' = [task EXCEPT ![m].pc = "spawned", ![m].req = req]
    /\ listener' = [listener EXCEPT !.pc = "command"]
    /\ UNCHANGED <<command, metrics, asked>>

(* Nothing there, or the socket was readable and the receive would block.  *)
ReceiveNothing ==
    /\ listener.pc = "read"
    /\ listener' = [listener EXCEPT !.pc = "command"]
    /\ UNCHANGED <<command, task, metrics, asked>>

ReceiveFails ==
    /\ listener.pc = "read"
    /\ listener' = [listener EXCEPT !.pc = "stopped"]
    /\ UNCHANGED <<command, task, metrics, asked>>

(* A connection read a request.                                            *)
ReceiveStream(m, req) ==
    /\ task[m].pc = "unsent" /\ ~req.udp
    /\ task' = [task EXCEPT ![m].pc = "spawned", ![m].req = req]
    /\ UNCHANGED <<command, listener, metrics, asked>>

Ignore(m) ==
    /\ task[m].pc = "spawned" /\ task[m].req.qr
    /\ task' = [task EXCEPT ![m].pc = "done"]
    /\ UNCHANGED <<command, listener, metrics, asked>>

(* What the application may answer, if it is asked.                        *)
Asked(req) == IF ReachesService(req) THEN Services(req) ELSE {<<>>}
Targets(req) == IF get_relevant_question(req) THEN {"ok", "notauth", "other"} ELSE {"ok"}

(* The task calls the service with the size limit of that moment.          *)
Call(m, yields, target) ==
    LET req == task[m].req
    IN /\ task[m].pc = "spawned" /\ ~req.qr
       /\ task' = [task EXCEPT ![m].pc = "stream", ![m].hint = listener.size,
                     ![m].items = Tsig(req, listener.size, target, yields)]
       /\ asked' = IF ReachesService(req) THEN asked \cup {m} ELSE asked
       /\ UNCHANGED <<command, listener, metrics>>

Current(m) == task[m].items[task[m].next]

Started(m) == [metrics EXCEPT !.pending = @ + (IF task[m].req.udp THEN 1 ELSE 0)]

(* The loop over the stream ends with it, or at its first error.           *)
Poll(m) ==
    LET t == task[m]
    IN /\ t.pc = "stream"
       /\ IF t.next > Len(t.items) THEN task' = [task EXCEPT ![m].pc = "done"] /\ UNCHANGED metrics
          ELSE IF Current(m).err THEN task' = [task EXCEPT ![m].pc = "done"] /\ UNCHANGED metrics
          ELSE IF Current(m).some
          THEN /\ task' = [task EXCEPT ![m].pc = "sending"]
               /\ metrics' = Started(m)
          ELSE task' = [task EXCEPT ![m].next = @ + 1] /\ UNCHANGED metrics
       /\ UNCHANGED <<command, listener, asked>>

MSent(m, ok) == [metrics EXCEPT !.pending = @ - (IF task[m].req.udp /\ ok THEN 1 ELSE 0)]

Sent(m, ok) == [metrics EXCEPT !.pending = @ - (IF task[m].req.udp THEN 1 ELSE 0)]

(* send_to succeeded, or failed or timed out, which is only logged.        *)
Send(m, ok) ==
    /\ task[m].pc = "sending"
    /\ task' = [task EXCEPT ![m].pc = "stream", ![m].next = @ + 1]
    /\ metrics' = Sent(m, ok)
    /\ UNCHANGED <<command, listener, asked>>

TaskStep(m) ==
    \/ Ignore(m)
    \/ \E yields \in Asked(task[m].req), target \in Targets(task[m].req) :
         Call(m, yields, target)
    \/ Poll(m)
    \/ \E ok \in BOOLEAN : Send(m, ok)

Next ==
    \/ \E s \in Sizes : Reconfigure(s)
    \/ Shutdown
    \/ process_server_command
    \/ ReceiveNothing
    \/ ReceiveFails
    \/ \E m \in Msg : \E req \in Requests[m] : Receive(m, req) \/ ReceiveStream(m, req)
    \/ \E m \in Msg : TaskStep(m)

Spec ==
    /\ Init /\ [][Next]_vars
    /\ WF_vars(process_server_command) /\ WF_vars(ReceiveNothing)
    /\ \A m \in Msg : WF_vars(TaskStep(m))

-----------------------------------------------------------------------------
TypeOK ==
    /\ command.kind \in {"init", "reconfigure", "shutdown"}
    /\ listener.pc \in {"command", "read", "stopped"} /\ listener.size \in Sizes
    /\ \A m \in Msg : task[m].pc \in {"unsent", "spawned", "stream", "sending", "done"}
    /\ metrics.pending \in 0 .. Cardinality(Msg)
    /\ asked \subseteq Msg

(* The responses the middleware lets through for a message.                *)
ResponsesTo(m) ==
    {task[m].items[i].resp : i \in {j \in DOMAIN task[m].items : task[m].items[j].some}}

(* Whichever layer made the response, the client can match it: it has the  *)
(* request's ID and is marked a response.  The cookie layer's refusals and *)
(* format errors start from an empty header.                               *)
AnswersMatch ==
    \A m \in Msg : \A r \in ResponsesTo(m) : r.id = task[m].req.id /\ r.qr

(* An unsigned response over UDP is no longer than what client and server  *)
(* agreed on, or it is cut to what is never dropped, the question and the  *)
(* OPT record, and says so with TC.  The limit goes from the server's      *)
(* configuration through the EDNS layer's clamping to the mandatory        *)
(* layer's truncation.                                                     *)
AnswersFit ==
    \A m \in Msg : \A r \in ResponsesTo(m) :
        LET req == task[m].req
            most == IF req.opt = "one" /\ req.version = 0
                    THEN Most(MinimumLen, IF task[m].hint = 0 THEN req.payload
                                          ELSE Least(req.payload, task[m].hint))
                    ELSE IF task[m].hint = 0 THEN MinimumLen ELSE task[m].hint
        IN req.udp /\ req.sig = "none" => Length(r) <= most \/ (r.tc /\ r.body = 0)

(* A response that comes through the EDNS layer has an OPT record exactly  *)
(* when the request had one, whatever the service put into it and also     *)
(* after truncation; an OPT record that does not parse counts for neither. *)
OptAnswersOpt ==
    \A m \in Msg : \A r \in ResponsesTo(m) :
        LET req == task[m].req
        IN req.opcode = "query" /\ req.qd < 2 /\ req.opt # "bad" /\ req.sig = "none"
             => (r.opt <=> req.opt # "none")

(* A client on the deny list gets the service to see its UDP query with a  *)
(* server cookie of ours that is no older than an hour and no more than    *)
(* five minutes ahead, across the wrap of the timestamps, and with nothing *)
(* else.                                                                   *)
DeniedNeedFreshCookie ==
    \A m \in Msg :
        LET req == task[m].req
        IN /\ task[m].pc \notin {"unsent", "spawned"} /\ ~req.qr
           /\ req.udp /\ req.denied /\ req.opcode = "query" /\ req.qd = 1 /\ req.sig # "bad"
           => (m \in asked <=>
                 /\ req.opt = "one" /\ req.version = 0 /\ req.cookie = "server"
                 /\ req.age \in 0 .. OneHour \/ SerialMod - req.age \in 1 .. FiveMinutes)

(* Every response to a correctly signed request is signed, the second and  *)
(* later messages of a transaction included.                               *)
SignedGetSigned ==
    \A m \in Msg : task[m].req.sig = "good" => \A r \in ResponsesTo(m) : r.signed

(* When the last command is a shutdown the listener stops, the requests    *)
(* received before are served, and is_shutdown says so for ever, sends     *)
(* that failed or timed out included.                                      *)
ShutdownDrains ==
    <>[](command.kind = "shutdown") =>
        <>[](/\ listener.pc = "stopped" /\ is_shutdown
             /\ \A m \in Msg : task[m].pc \in {"unsent", "done"})

-----------------------------------------------------------------------------
(* What has to be known of the requests or of the service for some of the  *)
(* properties to hold whatever the constants are.                          *)

(* A request's question section leaves room for an OPT record in the       *)
(* shortest limit: the mandatory and the NOTIFY layer answer before EDNS   *)
(* has negotiated one.                                                     *)
QuestionsFit ==
    \A m \in Msg : \A req \in Requests[m] :
        HeaderLen + QuestionLen * req.qd + OptLen <= MinimumLen

(* The service's responses have an OPT record or room for one; otherwise   *)
(* the EDNS layer's push fails.                                            *)
Roomy(r) == Length([r EXCEPT !.opt = TRUE]) <= MessageLen

RoomForOpt ==
    \A m \in Msg : \A req \in Requests[m] : \A yields \in Asked(req) :
        \A i \in DOMAIN yields : yields[i].some => Roomy(yields[i].resp)

(* The service sends BeginTransaction once, before its first response, and *)
(* always when it sends more than one; otherwise the TSIG layer's signer   *)
(* is used up.                                                             *)
Conforms(items) ==
    /\ \A j \in DOMAIN items : items[j].fb = "begin" =>
          \A i \in DOMAIN items : i < j => ~items[i].some /\ items[i].fb # "begin"
    /\ \A i, j \in DOMAIN items : i < j /\ items[i].some /\ items[j].some =>
          \E k \in DOMAIN items : k <= i /\ items[k].fb = "begin"

Transactional ==
    \A m \in Msg : \A req \in Requests[m] : \A yields \in Asked(req) : Conforms(yields)
=============================================================================
