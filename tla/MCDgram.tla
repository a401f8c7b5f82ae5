------------------------------ MODULE MCDgram -------------------------------
(* Instances of DgramServer: one message is any request of the families    *)
(* below, the other a plain query.                                         *)
EXTENDS DgramServer, TLC

CONSTANTS m1, m2

Plain == [id |-> 1, qr |-> FALSE, udp |-> TRUE, opcode |-> "query", qd |-> 1, soa |-> FALSE, opt |-> "none",
          version |-> 0, payload |-> 0, keepalive |-> "none", cookie |-> "none", age |-> 0,
          denied |-> FALSE, sig |-> "none", idle |-> TRUE]

(* Requests that differ in what the EDNS and TSIG layers look at ...       *)
EdnsRequests ==
    {[Plain EXCEPT !.udp = u, !.opt = o, !.sig = s, !.idle = i] :
       u \in BOOLEAN, o \in {"none", "two", "bad"}, s \in {"none", "good", "bad"}, i \in BOOLEAN}
    \cup
    {[Plain EXCEPT !.opt = "one", !.version = v, !.payload = p, !.sig = s] :
       v \in {0, 1}, p \in {5, 8, 12}, s \in {"none", "good"}}
    \cup
    {[Plain EXCEPT !.udp = FALSE, !.opt = "one", !.version = v, !.keepalive = k, !.sig = s] :
       v \in {0, 1}, k \in {"none", "timeout"}, s \in {"none", "good"}}

(* ... in what the cookie layer looks at ...                               *)
CookieRequests ==
    {[Plain EXCEPT !.udp = u, !.qd = q, !.opt = "one", !.payload = 8, !.cookie = c, !.denied = d] :
       u \in BOOLEAN, q \in {0, 1}, d \in BOOLEAN,
       c \in {"none", "malformed", "client", "forged"}}
    \cup
    {[Plain EXCEPT !.qd = q, !.opt = "one", !.payload = 8, !.cookie = "server", !.age = a,
                   !.denied = TRUE] :
       q \in {0, 1}, a \in 0 .. SerialMod - 1}

(* ... and in what the mandatory and NOTIFY layers look at.                *)
OpcodeRequests ==
    {[Plain EXCEPT !.opcode = c, !.qd = q, !.soa = (c = "notify"), !.opt = o, !.payload = 8] :
       c \in {"query", "iquery", "notify"}, q \in 0 .. 2, o \in {"none", "one"}}

TwoRequests ==
    (m1 :> EdnsRequests \cup CookieRequests \cup OpcodeRequests \cup {[Plain EXCEPT !.qr = TRUE]})
      @@ (m2 :> {[Plain EXCEPT !.id = 2]})

(* The service answers once, with more or less in the answer and in an OPT *)
(* record, or with a transaction of two answers, or fails.                 *)
Answers(req) ==
    {[start_answer(req, "NOERROR") EXCEPT !.body = b, !.opt = o > 0, !.options = IF o > 0 THEN o - 1 ELSE 0] :
       b \in {3, 9}, o \in {0, 2}}

Yields(req) ==
    IF req.id = 2 THEN {Once(start_answer(req, "NOERROR"))}
    ELSE {<<Error>>} \cup {Once(r) : r \in Answers(req)}
      \cup (IF req.udp THEN {}
            ELSE {<<Feedback("begin"), Item("none", start_answer(req, "NOERROR")),
                    Item("none", start_answer(req, "NOERROR")), Feedback("end")>>})

ASSUME MCAssumption == QuestionsFit /\ RoomForOpt /\ Transactional
=============================================================================
