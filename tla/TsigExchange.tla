---------------------------- MODULE TsigExchange ----------------------------
(***************************************************************************)
(* Messages signed with TSIG (tsig/mod.rs): a client that signs a request  *)
(* and verifies the answers (net/client/tsig.rs), and a server that        *)
(* verifies the request and signs the answers.                             *)
(*                                                                         *)
(* The HMAC is symbolic: a tag is the sequence of all that was fed into    *)
(* the context, so tags are equal only if that is.  A MAC is a tag and the *)
(* length it was truncated to.                                             *)
(***************************************************************************)
EXTENDS Integers, Sequences

CONSTANTS
    NativeLen,      \* Algorithm::native_len
    ClientKeys,     \* the policies (min_mac_len, signing_len) of the client's key
    ServerKeys,     \* and of the server's
    Fudge,          \* 300 seconds
    Skews,          \* how far the server's clock is ahead
    MaxUnsigned,    \* 99
    MaxAnswers,     \* bound: messages of an answer
    MaxTime,        \* bound: the clock
    MaxReceived     \* bound: messages handed to the client

\* Key::new checks the lengths a key is given.
ASSUME MacLenAssumption ==
    /\ NativeLen \in Nat
    /\ ClientKeys \cup ServerKeys \subseteq [min : 1 .. NativeLen, sign : 1 .. NativeLen]

ASSUME UnsignedAssumption == MaxUnsigned \in Nat

VARIABLES
    setting,        \* the two keys, the clock skew, who talks to whom
    time,           \* the client's clock
    client,         \* Request and its TsigClient
    server,         \* ServerTransaction or ServerSequence
    request,        \* the signed request, once sent
    sent            \* the answers sent so far

tsvars == <<setting, time, client, server, request, sent>>

Mac(tag, len) == [tag |-> tag, len |-> len]
NoTsig == [some |-> FALSE]

\* The message without its TSIG record: the request, an error, or answer n.
RequestBody == [part |-> "request"]
ErrorBody == [part |-> "error"]
AnswerBody(n) == [part |-> "answer", n |-> n]

\* What a TSIG record has that matters: Variables and the MAC.
TsigRecord(t, error, other, mac) ==
    [some |-> TRUE, time |-> t, error |-> error, other |-> other, mac |-> mac]

\* Variables::sign and Variables::sign_timers.
Full(t, error, other) == [part |-> "variables", time |-> t, error |-> error, other |-> other]
Timers(t) == [part |-> "timers", time |-> t]

\* Time48::eq_fudged.
is_valid_at(t, now) == now - Fudge <= t /\ t <= now + Fudge

ServerNow == time + setting.skew

(* A client that expects one answer or many, a server that signs one, or   *)
(* all, or, as other implementations may, not all; answers that arrive in  *)
(* order or as they like.  The server may not know the key.                *)
Settings ==
    [ckey : ClientKeys, skey : ServerKeys, skew : Skews, known : BOOLEAN,
     who : {<<"transaction", "transaction">>, <<"sequence", "transaction">>,
            <<"sequence", "sequence">>, <<"sequence", "sparse">>},
     ordered : BOOLEAN]

\* The first error the user is told of, with the answer it is about and the time.
NoError == [what |-> "none"]
FirstError(what, i) ==
    IF client.error = NoError /\ what # "ok" THEN [what |-> what, msg |-> i, at |-> time] ELSE client.error

TSInit ==
    /\ setting \in Settings
    /\ time = 0
    /\ client = [st |-> "Init", ctx |-> << >>, first |-> TRUE, unsigned |-> 0,
                 accepted |-> << >>, error |-> NoError, received |-> 0]
    /\ server = [st |-> "idle", ctx |-> << >>, first |-> TRUE, gap |-> 0]
    /\ request = NoTsig
    /\ sent = << >>

------------------------------------------------------------------------------
(* The client signs. *)

\* RequestMessage::append_message: ClientTransaction::request, ClientSequence::request.
SignRequest ==
    /\ client.st = "Init"
    /\ LET mac == Mac(<<RequestBody, Full(time, "NOERROR", 0)>>, setting.ckey.sign)
       IN  /\ request' = TsigRecord(time, "NOERROR", 0, mac)
           /\ client' = [client EXCEPT !.st = "GetResponse", !.ctx = <<mac>>]
    /\ UNCHANGED <<setting, time, server, sent>>

------------------------------------------------------------------------------
(* The server. *)

\* Key::compare_signatures.
compare_signatures(key, tag, mac) ==
    IF mac.len < key.min THEN "BadTrunc" ELSE IF mac.tag = tag THEN "ok" ELSE "BadSig"

Signed(body, tsig) == [body |-> body, tsig |-> tsig]

\* ServerError::build_message, unsigned: an empty MAC.
Refusal(error) == Signed(ErrorBody, TsigRecord(request.time, error, 0, Mac(<< >>, 0)))

\* SigningContext::server_request, and the error response.
ServerRequest ==
    /\ request.some /\ server.st = "idle"
    /\ LET tag == <<RequestBody, Full(request.time, request.error, request.other)>>
           cmp == compare_signatures(setting.skey, tag, request.mac)
           late == Full(request.time, "BADTIME", ServerNow)
       IN  IF ~ setting.known \/ cmp # "ok"
           THEN /\ sent' = <<Refusal(IF ~ setting.known THEN "BADKEY"
                                     ELSE IF cmp = "BadTrunc" THEN "BADTRUNC" ELSE "FORMERR")>>
                /\ server' = [server EXCEPT !.st = "ended"]
           ELSE IF ~ is_valid_at(request.time, ServerNow)
           THEN /\ sent' = <<Signed(ErrorBody, TsigRecord(request.time, "BADTIME", ServerNow,
                                Mac(<<request.mac, ErrorBody, late>>, setting.skey.sign)))>>
                /\ server' = [server EXCEPT !.st = "ended"]
           ELSE /\ server' = [server EXCEPT !.st = "signing", !.ctx = <<request.mac>>]
                /\ UNCHANGED sent
    /\ UNCHANGED <<setting, time, client, request>>

\* Mutant: the signature of the answer before is not part of the digest.
MDigest(ctx, first, body, t, error, other) ==
    (IF first \/ ctx = << >> THEN ctx ELSE Tail(ctx)) \o <<body, IF first THEN Full(t, error, other) ELSE Timers(t)>>

\* What first_answer (final_answer for a transaction) or signed_subsequent feeds
\* into the context for the next answer.
Digest(ctx, first, body, t, error, other) ==
    ctx \o <<body, IF first THEN Full(t, error, other) ELSE Timers(t)>>

\* ServerTransaction::answer and ServerSequence::answer.  The context of the next
\* answer starts with this one's signature, which is not truncated here.
ServerAnswer ==
    /\ server.st = "signing" /\ setting.who[2] # "sparse" /\ Len(sent) < MaxAnswers
    /\ LET body == AnswerBody(Len(sent) + 1)
           tag == Digest(server.ctx, server.first, body, ServerNow, "NOERROR", 0)
       IN  /\ sent' = Append(sent, Signed(body, TsigRecord(ServerNow, "NOERROR", 0,
                                                           Mac(tag, setting.skey.sign))))
           /\ server' = [server EXCEPT !.ctx = <<Mac(tag, NativeLen)>>, !.first = FALSE,
                                       !.st = IF setting.who[2] = "transaction" THEN "ended" ELSE @]
    /\ UNCHANGED <<setting, time, client, request>>

\* A server of another make (external) that leaves answers unsigned: not the first,
\* not more than the protocol allows, and not the last.
SparseAnswer(sign) ==
    /\ server.st = "signing" /\ setting.who[2] = "sparse" /\ Len(sent) < MaxAnswers
    /\ LET body == AnswerBody(Len(sent) + 1)
           tag == Digest(server.ctx, server.first, body, ServerNow, "NOERROR", 0)
           mac == Mac(tag, setting.skey.sign)
       IN  IF sign
           THEN /\ sent' = Append(sent, Signed(body, TsigRecord(ServerNow, "NOERROR", 0, mac)))
                /\ server' = [server EXCEPT !.ctx = <<mac>>, !.first = FALSE, !.gap = 0]
           ELSE /\ ~ server.first /\ server.gap < MaxUnsigned /\ Len(sent) + 1 < MaxAnswers
                /\ sent' = Append(sent, Signed(body, NoTsig))
                /\ server' = [server EXCEPT !.ctx = Append(@, body), !.gap = @ + 1]
    /\ UNCHANGED <<setting, time, client, request>>

\* The service has no more answers.
ServerEnds ==
    /\ server.st = "signing" /\ sent # << >> /\ server.gap = 0
    /\ server' = [server EXCEPT !.st = "ended"]
    /\ UNCHANGED <<setting, time, client, request, sent>>

------------------------------------------------------------------------------
(* The client verifies: each operator returns the error, or "ok". *)

\* get_answer_tsig: errors the server could not sign.
ServerRefused(m) ==
    IF m.body = ErrorBody /\ m.tsig.error = "BADKEY" THEN "ServerBadKey"
    ELSE IF m.body = ErrorBody /\ m.tsig.error = "BADSIG" THEN "ServerBadSig" ELSE "ok"

\* Mutant: the time is looked at before the error that explains it.
Mcheck_answer_time(m) ==
    IF ~ is_valid_at(m.tsig.time, time) THEN "BadTime"
    ELSE IF m.body = ErrorBody /\ m.tsig.error = "BADTIME" THEN "ServerBadTime" ELSE "ok"

check_answer_time(m) ==
    IF m.body = ErrorBody /\ m.tsig.error = "BADTIME" THEN "ServerBadTime"
    ELSE IF ~ is_valid_at(m.tsig.time, time) THEN "BadTime" ELSE "ok"

\* The checks of a signed answer, given the digest the context yields.
Checked(m, tag) ==
    LET cmp == compare_signatures(setting.ckey, tag, m.tsig.mac)
    IN  IF cmp # "ok" THEN cmp ELSE check_answer_time(m)

\* ClientTransaction::answer changes nothing.
TransactionAnswer(m) ==
    [res |-> IF ~ m.tsig.some THEN "ServerUnsigned"
             ELSE IF ServerRefused(m) # "ok" THEN ServerRefused(m)
             ELSE Checked(m, Digest(client.ctx, TRUE, m.body, m.tsig.time, m.tsig.error, m.tsig.other)),
     ctx |-> client.ctx, first |-> TRUE, unsigned |-> 0]

\* The context after first_answer or signed_subsequent, which take the old one out
\* before the MAC is compared.
NextContext(m, cmp) == IF cmp = "ok" THEN <<m.tsig.mac>> ELSE << >>

\* The client's context is left alone.
Untouched(res) ==
    [res |-> res, ctx |-> client.ctx, first |-> client.first, unsigned |-> client.unsigned]

\* ClientSequence::answer_first and ClientSequence::answer_subsequent.
SequenceAnswer(m) ==
    LET tag == Digest(client.ctx, client.first, m.body, m.tsig.time, m.tsig.error, m.tsig.other)
        cmp == compare_signatures(setting.ckey, tag, m.tsig.mac)
        res == Checked(m, tag)
    IN  IF ~ m.tsig.some
        THEN IF client.first THEN Untouched("ServerUnsigned")
             ELSE IF client.unsigned >= MaxUnsigned THEN Untouched("TooManyUnsigned")
             ELSE [res |-> "ok", ctx |-> Append(client.ctx, m.body), first |-> FALSE,
                   unsigned |-> client.unsigned + 1]
        ELSE IF ServerRefused(m) # "ok" THEN Untouched(ServerRefused(m))
        ELSE [res |-> res, ctx |-> NextContext(m, cmp),
              first |-> client.first /\ res # "ok",
              unsigned |-> IF res = "ok" THEN 0 ELSE client.unsigned]

\* get_response_impl and validate_response with a message.  After an error the
\* request is where it was and may be asked again.
GetResponse ==
    /\ client.st = "GetResponse" /\ client.received < MaxReceived
    /\ \E i \in DOMAIN sent :
         /\ setting.ordered => i = client.received + 1
         /\ LET r == IF setting.who[1] = "transaction" THEN TransactionAnswer(sent[i])
                                                       ELSE SequenceAnswer(sent[i])
            IN  client' = [client EXCEPT
                    !.ctx = r.ctx, !.first = r.first, !.unsigned = r.unsigned, !.received = @ + 1,
                    !.accepted = IF r.res = "ok" THEN Append(@, i) ELSE @,
                    !.error = FirstError(r.res, i),
                    !.st = IF setting.who[1] = "transaction" /\ r.res = "ok" THEN "Complete" ELSE @]
    /\ UNCHANGED <<setting, time, server, request, sent>>

\* The stream of answers ends: ClientSequence::done.
Done ==
    /\ client.st = "GetResponse" /\ setting.who[1] = "sequence" /\ server.st = "ended"
    /\ setting.ordered => client.received = Len(sent)
    /\ client' = [client EXCEPT
           !.st = IF client.unsigned # 0 THEN "failed" ELSE "Complete",
           !.error = FirstError(IF client.unsigned # 0 THEN "TooManyUnsigned" ELSE "ok", 0)]
    /\ UNCHANGED <<setting, time, server, request, sent>>

ClockTick == time < MaxTime /\ time' = time + 1 /\ UNCHANGED <<setting, client, server, request, sent>>

TSNext ==
    \/ SignRequest \/ ServerRequest \/ ServerAnswer
    \/ \E sign \in BOOLEAN : SparseAnswer(sign)
    \/ ServerEnds \/ GetResponse \/ Done \/ ClockTick

TSSpec == TSInit /\ [][TSNext]_tsvars

------------------------------------------------------------------------------

(* If answers arrive in order, the client finds fault with them only for a *)
(* reason: a key the server does not know, a signature shorter than a key  *)
(* allows, or clocks that are too far apart or messages that took too long,*)
(* of which the client is told by the server if the server noticed.        *)
OnlyRealFailures ==
    setting.ordered /\ client.error # NoError =>
        LET e == client.error
        IN  CASE e.what = "ServerBadKey"  -> ~ setting.known
              [] e.what = "BadTrunc"      -> \/ setting.skey.sign < setting.ckey.min
                                             \/ setting.ckey.sign < setting.skey.min
              [] e.what = "ServerBadTime" -> ~ is_valid_at(request.time, sent[e.msg].tsig.other)
              [] e.what = "BadTime"       -> /\ ~ is_valid_at(sent[e.msg].tsig.time, e.at)
                                             /\ sent[e.msg].body # ErrorBody
              [] OTHER                    -> FALSE

(* However answers are lost, repeated or reordered, a sequence that ends   *)
(* without an error has accepted the first so many answers, each once and  *)
(* in order, signed or not (ClientSequence::answer, done).                 *)
AcceptedIsPrefix ==
    client.st = "Complete" /\ client.error = NoError /\ setting.who[1] = "sequence" =>
        client.accepted = [i \in 1 .. Len(client.accepted) |-> i]
==============================================================================
