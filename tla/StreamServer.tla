---------------------------- MODULE StreamServer ----------------------------
(***************************************************************************)
(* The stream listener (net/server/stream.rs), the connection handler it   *)
(* spawns for every accepted connection (net/server/connection.rs), the    *)
(* task the handler spawns for every query, and the metrics they share     *)
(* (net/server/metrics.rs).                                                *)
(*                                                                         *)
(* Every tokio task is a process.  A biased select! polls its branches one *)
(* after the other, so what another thread does between two polls is seen  *)
(* by the later branch only: the polls are separate steps, in the order of *)
(* the code.                                                               *)
(*                                                                         *)
(* A client message crosses the stream as two segments, its length and its *)
(* body.  Time is the age of a connection's idle timer.                    *)
(***************************************************************************)
EXTENDS Naturals, Sequences, FiniteSets

CONSTANTS
    Conn,            \* client connections
    Sends,           \* Conn -> the kinds of the messages that client sends
    Scripts,         \* Conn -> for each of these messages, what the service
                     \* may yield for it: sequences of results [resp, fb, idle],
                     \* a response or none, the feedback ("none", "begin",
                     \* "end", "idle") and the timeout it sets
    MaxQueued,       \* max_queued_responses
    MaxConnections,  \* max_concurrent_connections
    AcceptAtMax,     \* accept_connections_at_max
    Timeouts,        \* idle timeouts a reconfiguration may set
    MaxCommands,     \* commands the application sends
    UsizeMod         \* the width of an AtomicUsize

Kinds == {"query", "reply", "junk"}

Results == [resp : BOOLEAN, fb : {"none", "begin", "end", "idle"}, idle : Nat]

(* A machine has fewer connections, and a queue fewer places, than an      *)
(* AtomicUsize has values, and one of the timeouts is the longest.         *)
ASSUME ServerAssumption ==
    /\ IsFiniteSet(Conn)
    /\ UsizeMod \in Nat /\ Cardinality(Conn) < UsizeMod
    /\ MaxQueued \in 1 .. UsizeMod - 1 /\ MaxConnections \in Nat \ {0}
    /\ AcceptAtMax \in BOOLEAN /\ MaxCommands \in Nat
    /\ Timeouts \subseteq Nat \ {0} /\ \E t \in Timeouts : \A u \in Timeouts : u <= t
    /\ Sends \in [Conn -> Seq(Kinds)]
    /\ \A c \in Conn : Scripts[c] \in [DOMAIN Sends[c] -> SUBSET Seq(Results)]

VARIABLES
    command,   \* the watch channel: [ver, kind, config], only the latest value
    listener,  \* [pc, seen, config]: StreamServer::run_until_error
    conn,      \* Conn -> the connection handler's state
    client,    \* Conn -> [sent, open, got]: the far end of the stream
    inbox,     \* Conn -> segments the client sent and nobody read yet
    queue,     \* Conn -> the result queue
    tasks,     \* Conn -> sequence of the tasks spawned for its queries
    metrics    \* [connections, pending]

vars == <<command, listener, conn, client, inbox, queue, tasks, metrics>>

(* A connection's Config: the idle timeout and, for its other settings,    *)
(* the version of the command that set them.                               *)
Config(idle, gen) == [idle |-> idle, gen |-> gen]

MaxIdle == CHOOSE t \in Timeouts : \A u \in Timeouts : u <= t

-----------------------------------------------------------------------------
(* The metrics: fetch_add and fetch_sub wrap around.                       *)

Inc(n) == (n + 1) % UsizeMod
Dec(n) == (n + UsizeMod - 1) % UsizeMod

-----------------------------------------------------------------------------
(* Commands.  A receiver knows the version it saw last.                    *)

Changed(seen) == command.ver # seen

Init ==
    /\ command = [ver |-> 0, kind |-> "init", config |-> Config(MaxIdle, 0)]
    /\ listener = [pc |-> "command", seen |-> 0, config |-> Config(MaxIdle, 0)]
    /\ conn = [c \in Conn |->
                 [pc |-> "none", seen |-> 0, config |-> Config(MaxIdle, 0), sleep |-> MaxIdle,
                  age |-> 0, status |-> "header", header |-> 0, out |-> <<>>,
                  open |-> TRUE, read |-> <<>>, queued |-> <<>>, failed |-> FALSE,
                  how |-> "up"]]
    /\ client = [c \in Conn |-> [sent |-> 0, open |-> TRUE, got |-> <<>>]]
    /\ inbox = [c \in Conn |-> <<>>]
    /\ queue = [c \in Conn |-> <<>>]
    /\ tasks = [c \in Conn |-> <<>>]
    /\ metrics = [connections |-> 0, pending |-> 0]

(* reconfigure() and shutdown(); Drop calls shutdown().  A value nobody    *)
(* has seen yet is overwritten.                                            *)
Reconfigure(t) ==
    /\ command.ver < MaxCommands /\ command.kind # "shutdown"
    /\ command' = [ver |-> command.ver + 1, kind |-> "reconfigure",
                   config |-> Config(t, command.ver + 1)]
    /\ UNCHANGED <<listener, conn, client, inbox, queue, tasks, metrics>>

Shutdown ==
    /\ command.ver < MaxCommands + 1 /\ command.kind # "shutdown"
    /\ command' = [command EXCEPT !.ver = @ + 1, !.kind = "shutdown"]
    /\ UNCHANGED <<listener, conn, client, inbox, queue, tasks, metrics>>

-----------------------------------------------------------------------------
(* StreamServer::run_until_error.                                          *)

ListenerCommand ==
    /\ listener.pc = "command"
    /\ listener' =
         IF ~Changed(listener.seen) THEN [listener EXCEPT !.pc = "accept"]
         ELSE IF command.kind = "shutdown" THEN [listener EXCEPT !.pc = "stopped"]
         ELSE [listener EXCEPT !.seen = command.ver, !.config = command.config]
    /\ UNCHANGED <<command, conn, client, inbox, queue, tasks, metrics>>

at_connection_limit == metrics.connections >= MaxConnections

accepting_connections == at_connection_limit => AcceptAtMax

(* The receiver a handler gets is a clone of the server's own, which has   *)
(* seen nothing: whatever was sent before counts as a change.              *)
MSpawn(c) == [conn[c] EXCEPT !.pc = "spawned", !.config = listener.config,
                             !.seen = command.ver]

Spawn(c) == [conn[c] EXCEPT !.pc = "spawned", !.config = listener.config]

Accept(c) ==
    /\ listener.pc = "accept" /\ accepting_connections
    /\ conn[c].pc = "backlog"
    /\ conn' = [conn EXCEPT ![c] =
                  IF at_connection_limit THEN [@ EXCEPT !.pc = "closed", !.how = "refused"]
                  ELSE Spawn(c)]
    /\ listener' = [listener EXCEPT !.pc = "command"]
    /\ UNCHANGED <<command, client, inbox, queue, tasks, metrics>>

(* Nothing to accept: the select waits and polls again.                    *)
AcceptPending ==
    /\ listener.pc = "accept"
    /\ ~accepting_connections \/ \A c \in Conn : conn[c].pc # "backlog"
    /\ listener' = [listener EXCEPT !.pc = "command"]
    /\ UNCHANGED <<command, conn, client, inbox, queue, tasks, metrics>>

-----------------------------------------------------------------------------
(* The client.                                                             *)

Connect(c) ==
    /\ conn[c].pc = "none" /\ listener.pc # "stopped"
    /\ conn' = [conn EXCEPT ![c].pc = "backlog"]
    /\ UNCHANGED <<command, listener, client, inbox, queue, tasks, metrics>>

(* The next segment: odd ones are lengths, even ones bodies.               *)
Send(c) ==
    /\ conn[c].pc \notin {"none", "closed"} /\ client[c].open
    /\ client[c].sent < 2 * Len(Sends[c])
    /\ client' = [client EXCEPT ![c].sent = @ + 1]
    /\ inbox' = [inbox EXCEPT ![c] = Append(@, client[c].sent + 1)]
    /\ UNCHANGED <<command, listener, conn, queue, tasks, metrics>>

ClientClose(c) ==
    /\ conn[c].pc \notin {"none", "closed"} /\ client[c].open
    /\ client' = [client EXCEPT ![c].open = FALSE]
    /\ UNCHANGED <<command, listener, conn, inbox, queue, tasks, metrics>>

-----------------------------------------------------------------------------
(* Connection::run_until_error.                                            *)

(* The flag "active".                                                      *)
Running(c) == conn[c].pc \notin {"none", "backlog", "spawned", "closed"}

(* Back at the top of the inner loop: a new select, whose sleep is set up  *)
(* with the configuration of this moment.                                  *)
Select(k) == [k EXCEPT !.pc = "command", !.sleep = k.config.idle]

(* Leaving the outer loop, without a flush or after closing the queue to   *)
(* new results.                                                            *)
Disconnect(k, how) == [k EXCEPT !.pc = "closing", !.how = how]

MStartFlush(k) == [k EXCEPT !.pc = "closing", !.open = FALSE, !.how = "flush"]

StartFlush(k) == [k EXCEPT !.pc = "flush", !.open = FALSE, !.how = "flush"]

(* The spawned task awaits the stream's set-up and then runs the handler.  *)
StartConn(c) ==
    /\ conn[c].pc = "spawned"
    /\ \/ /\ conn' = [conn EXCEPT ![c] = [Select(@) EXCEPT !.age = 0]]
          /\ metrics' = [metrics EXCEPT !.connections = Inc(@)]
       \/ /\ conn' = [conn EXCEPT ![c] = [@ EXCEPT !.pc = "closed", !.how = "setup"]]
          /\ UNCHANGED metrics
    /\ UNCHANGED <<command, listener, client, inbox, queue, tasks>>

process_server_command(k) ==
    CASE command.kind = "reconfigure" ->
            Select([k EXCEPT !.seen = command.ver, !.config = command.config])
      [] command.kind = "shutdown" -> StartFlush([k EXCEPT !.seen = command.ver])

PollCommand(c) ==
    /\ conn[c].pc = "command"
    /\ conn' = [conn EXCEPT ![c] =
                  IF Changed(@.seen) THEN process_server_command(@)
                  ELSE [@ EXCEPT !.pc = "queue"]]
    /\ UNCHANGED <<command, listener, client, inbox, queue, tasks, metrics>>

PollQueue(c) ==
    /\ conn[c].pc = "queue"
    /\ IF queue[c] = <<>>
       THEN conn' = [conn EXCEPT ![c].pc = "idle"] /\ UNCHANGED queue
       ELSE /\ conn' = [conn EXCEPT ![c].pc = "write", ![c].out = <<Head(queue[c])>>]
            /\ queue' = [queue EXCEPT ![c] = Tail(@)]
    /\ UNCHANGED <<command, listener, client, inbox, tasks, metrics>>

(* flush_write_queue: what was queued before the queue was closed.         *)
FlushQueue(c) ==
    /\ conn[c].pc = "flush"
    /\ IF queue[c] = <<>>
       THEN conn' = [conn EXCEPT ![c] = Disconnect(@, "flush")] /\ UNCHANGED queue
       ELSE /\ conn' = [conn EXCEPT ![c].pc = "write", ![c].out = <<Head(queue[c])>>]
            /\ queue' = [queue EXCEPT ![c] = Tail(@)]
    /\ UNCHANGED <<command, listener, client, inbox, tasks, metrics>>

(* Where the handler goes after a write: the flush goes on whatever came   *)
(* of it, the main loop ends on an error.                                  *)
AfterWrite(k, ok) ==
    CASE k.how = "flush" -> [k EXCEPT !.pc = "flush"]
      [] k.how # "flush" /\ ok -> Select(k)
      [] OTHER -> Disconnect(k, "write")

(* response_queue_emptied                                                  *)
Emptied(k, q) == IF q = <<>> THEN [k EXCEPT !.age = 0] ELSE k

write_response_to_stream(c) ==
    /\ conn[c].pc = "write"
    /\ LET k == [conn[c] EXCEPT !.out = <<>>] IN
       \/ /\ client[c].open
          /\ client' = [client EXCEPT ![c].got = Append(@, conn[c].out[1])]
          /\ metrics' = [metrics EXCEPT !.pending = Dec(@)]
          /\ conn' = [conn EXCEPT ![c] = AfterWrite(Emptied(k, queue[c]), TRUE)]
       \/ \* the write fails or times out
          /\ conn' = [conn EXCEPT ![c] = AfterWrite([k EXCEPT !.failed = TRUE], FALSE)]
          /\ UNCHANGED <<client, metrics>>
    /\ UNCHANGED <<command, listener, inbox, queue, tasks>>

Mprocess_dns_idle_timeout(k) ==
    IF k.age >= k.config.idle /\ k.status = "header" THEN Disconnect(k, "idle")
    ELSE Select(k)

(* The sleep of this select, then the handler's own look at the timer with *)
(* the configuration of now.                                               *)
process_dns_idle_timeout(k) ==
    IF k.age >= k.config.idle THEN Disconnect(k, "idle") ELSE Select(k)

PollIdle(c) ==
    /\ conn[c].pc = "idle"
    /\ conn' = [conn EXCEPT ![c] =
                  IF @.age >= @.sleep THEN process_dns_idle_timeout(@)
                  ELSE [@ EXCEPT !.pc = "read"]]
    /\ UNCHANGED <<command, listener, client, inbox, queue, tasks, metrics>>

(* One more unit of time, until the longest timeout has passed.  Only the  *)
(* timer's poll looks at it, so it passes there.                           *)
Tick(c) ==
    /\ conn[c].pc = "idle" /\ conn[c].age < MaxIdle
    /\ conn' = [conn EXCEPT ![c].age = @ + 1]
    /\ UNCHANGED <<command, listener, client, inbox, queue, tasks, metrics>>

-----------------------------------------------------------------------------
(* DnsMessageReceiver::recv, polled by the last branch of the select.  The *)
(* same future is polled again in every round of the inner loop, so what   *)
(* it read of a message stays read.                                        *)

NewTask(m, script) ==
    [msg |-> m, script |-> script, plan |-> script, intx |-> FALSE, pc |-> "next",
     loaded |-> {}, pending |-> 0]

(* process_read_request, for a message with that length and that body:     *)
(* only a length directly followed by its own body frames a message.       *)
KindOf(c, h, b) == IF h % 2 = 1 /\ b = h + 1 THEN Sends[c][b \div 2] ELSE "junk"

ReadHeader(c) ==
    /\ conn[c].pc = "read" /\ conn[c].status = "header" /\ inbox[c] # <<>>
    /\ conn' = [conn EXCEPT ![c].status = "body", ![c].header = Head(inbox[c])]
    /\ inbox' = [inbox EXCEPT ![c] = Tail(@)]
    /\ UNCHANGED <<command, listener, client, queue, tasks, metrics>>

process_read_request(c) ==
    LET b == Head(inbox[c])
        kind == KindOf(c, conn[c].header, b)
        k == [conn[c] EXCEPT !.age = 0, !.status = "header", !.header = 0,
                             !.read = Append(@, <<conn[c].header, b>>)] IN
    /\ conn[c].pc = "read" /\ conn[c].status = "body" /\ inbox[c] # <<>>
    /\ inbox' = [inbox EXCEPT ![c] = Tail(@)]
    /\ conn' = [conn EXCEPT ![c] =
                  IF kind = "junk" THEN Disconnect(k, "parse") ELSE Select(k)]
    /\ IF kind = "query"
       THEN \E s \in Scripts[c][b \div 2] : tasks' = [tasks EXCEPT ![c] = Append(@, NewTask(b, s))]
       ELSE UNCHANGED tasks
    /\ UNCHANGED <<command, listener, client, queue, metrics>>

ReadEof(c) ==
    /\ conn[c].pc = "read" /\ inbox[c] = <<>> /\ ~client[c].open
    /\ conn' = [conn EXCEPT ![c] = Disconnect(@, "eof")]
    /\ UNCHANGED <<command, listener, client, inbox, queue, tasks, metrics>>

(* No branch is ready: the same select is polled again when woken.         *)
MPending(k) == [k EXCEPT !.pc = "command", !.status = "header"]

Pending(k) == [k EXCEPT !.pc = "command"]

ReadPending(c) ==
    /\ conn[c].pc = "read" /\ inbox[c] = <<>> /\ client[c].open
    /\ conn' = [conn EXCEPT ![c] = Pending(@)]
    /\ UNCHANGED <<command, listener, client, inbox, queue, tasks, metrics>>

MDropped(c) == conn[c].how = "flush"

(* Drop looks at the flag run() sets.                                      *)
Dropped(c) == Running(c)

(* The stream is shut down and the handler dropped, its queue with it.     *)
CloseConn(c) ==
    /\ conn[c].pc = "closing"
    /\ conn' = [conn EXCEPT ![c].pc = "closed", ![c].open = FALSE]
    /\ queue' = [queue EXCEPT ![c] = <<>>]
    /\ metrics' = [metrics EXCEPT !.connections = IF Dropped(c) THEN Dec(@) ELSE @]
    /\ UNCHANGED <<command, listener, client, inbox, tasks>>

-----------------------------------------------------------------------------
(* The task spawned for a query: it takes one result after the other from  *)
(* the service, obeys its feedback and queues its response.                *)

Step(c, i, t) == tasks' = [tasks EXCEPT ![c][i] = t]

AfterFeedback(t) == IF Head(t.script).resp THEN [t EXCEPT !.pc = "push"]
                    ELSE [t EXCEPT !.script = Tail(@), !.pc = "next"]

TaskNext(c, i) ==
    LET t == tasks[c][i]
        fb == Head(t.script).fb IN
    /\ t.pc = "next"
    /\ Step(c, i, CASE t.script = <<>> -> [t EXCEPT !.pc = "done"]
                    [] t.script # <<>> /\ fb = "idle" ->
                         [t EXCEPT !.pc = "store", !.loaded = {conn[c].config}]
                    [] OTHER ->
                         AfterFeedback([t EXCEPT !.intx = CASE fb = "begin" -> TRUE
                                                            [] fb = "end" -> FALSE
                                                            [] OTHER -> @]))
    /\ UNCHANGED <<command, listener, conn, client, inbox, queue, metrics>>

(* ServiceFeedback::Reconfigure: load, change, store.                      *)
TaskStore(c, i) ==
    LET t == tasks[c][i] IN
    /\ t.pc = "store"
    /\ \E cfg \in t.loaded :
         conn' = [conn EXCEPT ![c].config = [cfg EXCEPT !.idle = Head(t.script).idle]]
    /\ Step(c, i, AfterFeedback([t EXCEPT !.loaded = {}]))
    /\ UNCHANGED <<command, listener, client, inbox, queue, metrics>>

MPushFull(t) == [t EXCEPT !.pc = "done"]

(* TrySendError::Full: wait inside a transaction, give up outside.         *)
PushFull(t) == IF t.intx THEN t ELSE [t EXCEPT !.pc = "done"]

HasRoom(c) == Len(queue[c]) < MaxQueued

TaskPush(c, i) ==
    LET t == tasks[c][i]
        r == <<t.msg, Len(t.plan) - Len(t.script) + 1>> IN
    /\ t.pc = "push"
    /\ \/ /\ ~conn[c].open
          /\ Step(c, i, [t EXCEPT !.pc = "done"])
          /\ UNCHANGED <<queue, conn>>
       \/ /\ conn[c].open /\ ~HasRoom(c)
          /\ Step(c, i, PushFull(t))
          /\ UNCHANGED <<queue, conn>>
       \/ /\ conn[c].open /\ HasRoom(c)
          /\ queue' = [queue EXCEPT ![c] = Append(@, r)]
          /\ conn' = [conn EXCEPT ![c].queued = Append(@, r)]
          /\ Step(c, i, [t EXCEPT !.pc = "count", !.script = Tail(@)])
    /\ UNCHANGED <<command, listener, client, inbox, metrics>>

(* max_capacity() - capacity(), and then set_num_pending_writes.           *)
TaskCount(c, i) ==
    /\ tasks[c][i].pc = "count"
    /\ Step(c, i, [tasks[c][i] EXCEPT !.pc = "set", !.pending = Len(queue[c])])
    /\ UNCHANGED <<command, listener, conn, client, inbox, queue, metrics>>

TaskSet(c, i) ==
    /\ tasks[c][i].pc = "set"
    /\ metrics' = [metrics EXCEPT !.pending = tasks[c][i].pending]
    /\ Step(c, i, [tasks[c][i] EXCEPT !.pc = "next", !.pending = 0])
    /\ UNCHANGED <<command, listener, conn, client, inbox, queue>>

-----------------------------------------------------------------------------
Next ==
    \/ \E t \in Timeouts : Reconfigure(t)
    \/ Shutdown
    \/ ListenerCommand \/ AcceptPending
    \/ \E c \in Conn :
         \/ Connect(c) \/ Send(c) \/ ClientClose(c)
         \/ Accept(c) \/ StartConn(c)
         \/ PollCommand(c) \/ PollQueue(c) \/ PollIdle(c)
         \/ ReadHeader(c) \/ process_read_request(c) \/ ReadEof(c) \/ ReadPending(c)
         \/ write_response_to_stream(c) \/ FlushQueue(c) \/ CloseConn(c) \/ Tick(c)
         \/ \E i \in DOMAIN tasks[c] :
              \/ TaskNext(c, i) \/ TaskStore(c, i) \/ TaskPush(c, i)
              \/ TaskCount(c, i) \/ TaskSet(c, i)

(* Every task of the runtime is polled again and again, and a write that   *)
(* does not complete times out.  Clients owe nothing: they may stop        *)
(* sending and never close.                                                *)
HandlerStep(c) ==
    \/ StartConn(c) \/ PollCommand(c) \/ PollQueue(c) \/ PollIdle(c)
    \/ ReadHeader(c) \/ process_read_request(c) \/ ReadEof(c) \/ ReadPending(c)
    \/ write_response_to_stream(c) \/ FlushQueue(c) \/ CloseConn(c)

TaskStep(c, i) ==
    /\ i \in DOMAIN tasks[c]
    /\ \/ TaskNext(c, i) \/ TaskStore(c, i) \/ TaskPush(c, i)
       \/ TaskCount(c, i) \/ TaskSet(c, i)

Fairness ==
    /\ WF_vars(ListenerCommand \/ AcceptPending \/ \E c \in Conn : Accept(c))
    /\ \A c \in Conn :
         /\ WF_vars(HandlerStep(c))
         /\ \A i \in DOMAIN Sends[c] : WF_vars(TaskStep(c, i))

Spec == Init /\ [][Next]_vars /\ Fairness

-----------------------------------------------------------------------------
TypeOK ==
    /\ command.kind \in {"init", "reconfigure", "shutdown"}
    /\ listener.pc \in {"command", "accept", "stopped"}
    /\ \A c \in Conn :
         /\ conn[c].age \in 0..MaxIdle
         /\ Len(queue[c]) <= MaxQueued
         /\ \A i \in DOMAIN tasks[c] : tasks[c][i].pc \in
                {"next", "store", "push", "count", "set", "done"}
    /\ metrics.connections \in 0..(UsizeMod - 1)
    /\ metrics.pending \in 0..(UsizeMod - 1)

(* The connection metric, which the accept limit is compared with, counts  *)
(* exactly the handlers that run: run() adds one and Drop takes it back,   *)
(* whichever way the handler ended, and a connection whose set-up failed   *)
(* never counts.                                                           *)
ConnectionsCounted ==
    metrics.connections = Cardinality({c \in Conn : Running(c)})

(* However often the select is woken by commands, responses or the timer   *)
(* in the middle of a message, the handler cuts the stream into the        *)
(* messages the client sent, in order: each body follows its own length.   *)
MessagesKeepTheirFrame ==
    \A c \in Conn : \A j \in DOMAIN conn[c].read :
        conn[c].read[j] = <<2 * j - 1, 2 * j>>

(* A handler told to stop writes, in order, every response that was queued *)
(* before it closed the queue, unless a write fails; before that a client  *)
(* has received a prefix of what was queued for it.                        *)
QueuedIsWritten ==
    \A c \in Conn : ~conn[c].failed =>
        /\ client[c].got = SubSeq(conn[c].queued, 1, Len(client[c].got))
        /\ conn[c].pc = "closed" /\ conn[c].how = "flush" =>
               client[c].got = conn[c].queued

(* Item j of a service's stream belongs to the transaction that item b     *)
(* begins.                                                                 *)
InTransaction(plan, b, j) ==
    plan[b].fb = "begin" /\ \A k \in b + 1 .. j : plan[k].fb # "end"

(* All the responses of a transaction reach the queue however full it is,  *)
(* unless the connection closes: once the service has begun one the task   *)
(* waits where it would otherwise drop the response and the rest of the    *)
(* service's stream.                                                       *)
TransactionsWhole ==
    \A c \in Conn : \A i \in DOMAIN tasks[c] :
        LET t == tasks[c][i]
            taken == Len(t.plan) - Len(t.script) IN
        t.pc = "done" /\ conn[c].open =>
            \A j \in DOMAIN t.plan, b \in 1 .. taken + 1 :
                b <= j /\ InTransaction(t.plan, b, j) /\ t.plan[j].resp =>
                    \E q \in DOMAIN conn[c].queued : conn[c].queued[q] = <<t.msg, j>>

(* Once shutdown() was called everything ends: the listener stops, every   *)
(* connection it ever accepted closes, also one spawned after the call,    *)
(* and every task finishes.  No idle timer has to run out for it.          *)
AllOver ==
    /\ listener.pc = "stopped"
    /\ \A c \in Conn :
         /\ conn[c].pc \in {"none", "backlog", "closed"}
         /\ \A i \in DOMAIN tasks[c] : tasks[c][i].pc = "done"

ShutdownEnds == (command.kind = "shutdown") ~> AllOver

(* A client that falls silent, in the middle of a message too, does not    *)
(* hold its connection for ever: as time passes, the idle timeout closes   *)
(* it.                                                                     *)
SilentClientsAreDropped ==
    \A c \in Conn :
        SF_vars(Tick(c)) => (conn[c].pc = "spawned" ~> conn[c].pc = "closed")
=============================================================================
