------------------------------ MODULE Redundant ------------------------------
(***************************************************************************)
(* A client that spreads requests over several upstream transports and     *)
(* takes the first good answer (net/client/redundant.rs).                  *)
(*                                                                         *)
(* A query asks the upstreams one after the other, the next one when the   *)
(* current one has failed or its estimated response time has passed, and   *)
(* then waits for those it has asked.  Estimates are left out: upstreams   *)
(* are tried in any order, and an estimate may pass at any time.  The      *)
(* runner only keeps the list of upstreams and the estimates, so a command *)
(* to it and its reply are one step.  An upstream keeps what RequestsEnd   *)
(* of DgramStream says: a request it was given ends.                       *)
(***************************************************************************)
EXTENDS Naturals, Sequences

CONSTANTS
    Query,      \* the queries; each is used once
    Upstream,   \* the transports that may be added
    Configs     \* the values of Config: what is deferred

ASSUME RedundantAssumption == Configs \subseteq SUBSET {"error", "REFUSED", "SERVFAIL"}

VARIABLES
    config,     \* the Config
    conns,      \* conns of the runner, in the order they were added
    query,      \* per query: struct Query
    heard       \* history: per query, what each upstream it asked has replied

rvars == <<config, conns, query, heard>>

Nothing == "nothing"

Outcomes == {"good", "REFUSED", "SERVFAIL", "error"}

Fresh == [st |-> "new", rt |-> << >>, ind |-> 0, fut |-> {}, error |-> FALSE, reply |-> Nothing,
          result |-> Nothing]

RInit ==
    /\ config \in Configs
    /\ conns = << >>
    /\ query = [q \in Query |-> Fresh]
    /\ heard = [q \in Query |-> << >>]

\* ChanReq::Add.
Add(u) ==
    /\ \A i \in DOMAIN conns : conns[i] # u
    /\ conns' = Append(conns, u)
    /\ UNCHANGED <<config, query, heard>>

\* All orders of the upstreams, as sorting by estimates, with or without a probe,
\* may leave them.
Orders == {o \in [DOMAIN conns -> {conns[i] : i \in DOMAIN conns}] :
             \A i, j \in DOMAIN conns : o[i] = o[j] => i = j}

\* Mutant: the last upstream is not followed by QueryState::Wait.
MProbe(s, ind) ==
    IF ind <= Len(s.rt)
    THEN [s EXCEPT !.st = "Probe", !.ind = ind, !.fut = @ \cup {ind}]
    ELSE s

\* QueryState::Probe(ind) asks upstream ind, QueryState::Wait asks nobody.
Probe(s, ind) ==
    IF ind <= Len(s.rt)
    THEN [s EXCEPT !.st = "Probe", !.ind = ind, !.fut = @ \cup {ind}]
    ELSE [s EXCEPT !.st = "Wait"]

\* request_impl: ChanReq::GetRT, Query::new and QueryState::Init.
Request(q) ==
    /\ query[q].st = "new"
    /\ \E o \in Orders :
         query' = [query EXCEPT ![q] = IF conns = << >>
                                       THEN [@ EXCEPT !.st = "done", !.result = "NoTransportAvailable"]
                                       ELSE Probe([@ EXCEPT !.rt = o], 1)]
    /\ heard' = [heard EXCEPT ![q] = [i \in DOMAIN conns |-> Nothing]]
    /\ UNCHANGED <<config, conns>>

\* skip, and the test for defer_transport_error.
Skip(o) == o \in config

\* deferred_transport_error and deferred_reply keep the first of their kind.
Defer(s, o) ==
    IF o = "error" THEN [s EXCEPT !.error = TRUE]
    ELSE [s EXCEPT !.reply = IF @ = Nothing THEN o ELSE @]

\* Mutant: a deferred error is forgotten.
MNextReply(s, i, o) ==
    LET t == [s EXCEPT !.fut = @ \ {i}]
        d == IF o = "error" THEN t ELSE Defer(t, o)
    IN  IF ~ Skip(o) THEN [t EXCEPT !.st = "Report", !.result = o]
        ELSE IF s.st = "Probe" /\ i = s.ind THEN Probe(d, s.ind + 1) ELSE d

\* fut_list.next() in Probe and in Wait: upstream i has replied o.
NextReply(s, i, o) ==
    LET t == [s EXCEPT !.fut = @ \ {i}]
    IN  IF ~ Skip(o) THEN [t EXCEPT !.st = "Report", !.result = o]
        ELSE IF s.st = "Probe" /\ i = s.ind THEN Probe(Defer(t, o), s.ind + 1)
        ELSE Defer(t, o)

\* start_request is over for one of the upstreams.
Reply(q) ==
    /\ query[q].st \in {"Probe", "Wait"}
    /\ \E i \in query[q].fut, o \in Outcomes :
         /\ query' = [query EXCEPT ![q] = NextReply(@, i, o)]
         /\ heard' = [heard EXCEPT ![q][i] = o]
    /\ UNCHANGED <<config, conns>>

\* The estimated response time of the current upstream has passed.
Expire(q) ==
    /\ query[q].st = "Probe"
    /\ query' = [query EXCEPT ![q] = Probe(@, @.ind + 1)]
    /\ UNCHANGED <<config, conns, heard>>

\* Mutant: a deferred error is preferred to a deferred reply.
MNothingLeft(q) ==
    /\ query[q].st = "Wait" /\ query[q].fut = {}
    /\ query' = [query EXCEPT ![q].st = "done",
                              ![q].result = IF query[q].error THEN "error" ELSE query[q].reply]
    /\ UNCHANGED <<config, conns, heard>>

\* QueryState::Wait with an empty fut_list.  The result Nothing stands for the panic.
NothingLeft(q) ==
    /\ query[q].st = "Wait" /\ query[q].fut = {}
    /\ query' = [query EXCEPT ![q].st = "done",
                              ![q].result = IF query[q].reply # Nothing THEN query[q].reply
                                            ELSE IF query[q].error THEN "error" ELSE Nothing]
    /\ UNCHANGED <<config, conns, heard>>

\* QueryState::Report: a report per upstream that was asked, then the result.
Report(q) ==
    /\ query[q].st = "Report"
    /\ query' = [query EXCEPT ![q].st = "done"]
    /\ UNCHANGED <<config, conns, heard>>

\* The user drops the request.
Drop(q) ==
    /\ query[q].st \in {"Probe", "Wait", "Report"}
    /\ query' = [query EXCEPT ![q].st = "dropped"]
    /\ UNCHANGED <<config, conns, heard>>

RNext ==
    \/ \E u \in Upstream : Add(u)
    \/ \E q \in Query : Request(q) \/ Reply(q) \/ Expire(q) \/ NothingLeft(q) \/ Report(q) \/ Drop(q)

RSpec == RInit /\ [][RNext]_rvars

(* The user polls its requests and upstreams finish theirs; an estimate    *)
(* need never pass.                                                        *)
RFairness == \A q \in Query : WF_rvars(Reply(q)) /\ WF_rvars(NothingLeft(q)) /\ WF_rvars(Report(q))

------------------------------------------------------------------------------

(* A query that runs out of upstreams has something to return: the panic of*)
(* QueryState::Wait is not reached.                                        *)
SomethingLeft == \A q \in Query : query[q].st = "done" => query[q].result # Nothing

(* What is deferred is returned only when nothing better can come: every   *)
(* upstream was asked and has replied with something that is deferred, and *)
(* an error is returned only if all replied with errors.                   *)
DeferredIsLast ==
    \A q \in Query :
        query[q].st = "done" /\ query[q].result \in config =>
            /\ \A i \in DOMAIN query[q].rt : heard[q][i] \in config
            /\ query[q].result = "error" => \A i \in DOMAIN query[q].rt : heard[q][i] = "error"

(* A query ends although upstreams fail, reply late or only refuse.        *)
QueriesEnd == \A q \in Query : query[q].st = "Probe" ~> query[q].st \in {"done", "dropped"}
==============================================================================
