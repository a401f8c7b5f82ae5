----------------------------- MODULE Middleware -----------------------------
(***************************************************************************)
(* The middleware of net/server/middleware, stacked as in serve-zone.rs:   *)
(* TSIG, mandatory, NOTIFY, EDNS, cookies, then the application's service. *)
(* A layer's preprocess either passes the request on or answers it; its    *)
(* postprocess rewrites every response that comes back through it.         *)
(*                                                                         *)
(* A message is a record of what the layers look at; its octets are        *)
(* counted, in units the constants give.  The size limit a request carries *)
(* (0 for none) is shared by all layers, whichever of them changes it.     *)
(***************************************************************************)
EXTENDS Integers, Sequences

CONSTANTS
    HeaderLen, QuestionLen, OptLen, KeepaliveLen, CookieLen, TsigLen,
    MinimumLen,   \* MINIMUM_RESPONSE_BYTE_LEN, 512 octets
    MessageLen,   \* the longest message, 65535 octets
    SerialMod,    \* the width of a cookie's timestamp, 2^32 seconds
    Now,          \* the clock, such a timestamp
    OneHour, FiveMinutes

ASSUME MiddlewareAssumption ==
    /\ {HeaderLen, QuestionLen, OptLen, KeepaliveLen, CookieLen, TsigLen,
        MinimumLen, MessageLen, SerialMod, OneHour, FiveMinutes} \subseteq Nat \ {0}
    /\ HeaderLen + QuestionLen + OptLen + TsigLen + CookieLen <= MessageLen
    /\ Now \in 0 .. SerialMod - 1 /\ SerialMod % 2 = 0 /\ OneHour + FiveMinutes < SerialMod \div 2

(***************************************************************************)
(* A request: [id, udp, opcode, qd, soa, opt, version, payload, keepalive, *)
(* cookie, age, denied, sig, idle], where opt is "none", "one", "two" or   *)
(* "bad" (an OPT record that does not parse), cookie "none", "malformed",  *)
(* "client" (no server cookie), "forged" or "server" (a hash made with our *)
(* secret, age seconds ago, modulo SerialMod), sig "none", "good" or       *)
(* "bad", and idle tells whether a connection's idle timeout is known.     *)
(*                                                                         *)
(* A service yields items: an error, or feedback and perhaps a response.   *)
(***************************************************************************)
RequestType ==
    [id : Nat, qr : BOOLEAN, udp : BOOLEAN, opcode : {"query", "iquery", "notify", "other"},
     qd : Nat, soa : BOOLEAN, opt : {"none", "one", "two", "bad"}, version : Nat, payload : Nat,
     keepalive : {"none", "empty", "timeout"},
     cookie : {"none", "malformed", "client", "forged", "server"}, age : 0 .. SerialMod - 1,
     denied : BOOLEAN, sig : {"none", "good", "bad"}, idle : BOOLEAN]

Rcodes == {"NOERROR", "FORMERR", "SERVFAIL", "NOTIMP", "REFUSED", "NOTAUTH", "BADVERS",
           "BADCOOKIE", "other", "none"}

ResponseType ==
    [id : Nat, qr : BOOLEAN, rcode : Rcodes, tc : BOOLEAN, qd : Nat, body : Nat, opt : BOOLEAN,
     options : Nat, keepalive : BOOLEAN, cookie : BOOLEAN, signed : BOOLEAN]

ItemType == [err : BOOLEAN, fb : {"none", "begin", "end"}, some : BOOLEAN, resp : ResponseType]

Response(id, rcode, qd) ==
    [id |-> id, qr |-> FALSE, rcode |-> rcode, tc |-> FALSE, qd |-> qd, body |-> 0,
     opt |-> FALSE, options |-> 0, keepalive |-> FALSE, cookie |-> FALSE, signed |-> FALSE]

Item(fb, resp) == [err |-> FALSE, fb |-> fb, some |-> TRUE, resp |-> resp]
Feedback(fb) == [err |-> FALSE, fb |-> fb, some |-> FALSE, resp |-> Response(0, "none", 0)]
Error == [err |-> TRUE, fb |-> "none", some |-> FALSE, resp |-> Response(0, "none", 0)]

Once(resp) == <<Item("none", resp)>>

Length(r) ==
    HeaderLen + QuestionLen * r.qd + r.body + r.options
      + (IF r.opt THEN OptLen ELSE 0) + (IF r.signed THEN TsigLen ELSE 0)

(* A push fails when the message would be too long.                        *)
Pushed(r, new) == IF Length(new) <= MessageLen THEN new ELSE r

-----------------------------------------------------------------------------
(* net/server/util.rs and the message builder.                             *)

start_answer(req, rcode) == [Response(req.id, rcode, req.qd) EXCEPT !.qr = TRUE]

mk_builder_for_target(rcode) == Response(0, rcode, 0)

add_edns_options(r, len) == Pushed(r, [r EXCEPT !.opt = TRUE, !.options = @ + len])

mk_error_response(req, rcode) == add_edns_options(start_answer(req, rcode), 0)

remove_edns_opt_record(r) ==
    [r EXCEPT !.opt = FALSE, !.options = 0, !.keepalive = FALSE, !.cookie = FALSE]

(* Message::opt(): the first OPT record, when it parses.                   *)
HasOpt(req) == req.opt \in {"one", "two"}

-----------------------------------------------------------------------------
(* middleware/cookies.rs                                                   *)

CookieOf(req) == IF HasOpt(req) THEN req.cookie ELSE "none"

(* Serial::partial_cmp: a is after b by less than half the space.          *)
After(a, b) == (a - b) % SerialMod \in 1 .. (SerialMod \div 2 - 1)

Mtimestamp_ok(now, stamp) == now <= stamp + OneHour /\ stamp <= now + FiveMinutes

timestamp_ok(now, stamp) ==
    /\ ~After(now, (stamp + OneHour) % SerialMod)
    /\ ~After(stamp, (now + FiveMinutes) % SerialMod)

check_server_hash(req) ==
    req.cookie = "server" /\ timestamp_ok(Now, (Now - req.age) % SerialMod)

response_with_cookie(req, rcode) ==
    [add_edns_options(start_answer(req, rcode), CookieLen) EXCEPT !.cookie = TRUE]

Cookies(req, inner) ==
    LET cookie == CookieOf(req)
        valid == check_server_hash(req)
        denied == req.udp /\ req.denied
    IN CASE cookie = "none" /\ denied ->
              Once([mk_builder_for_target("REFUSED") EXCEPT !.tc = TRUE])
         [] cookie = "malformed" -> Once(mk_builder_for_target("FORMERR"))
         [] cookie \in {"client", "forged", "server"} /\ req.qd = 0 ->
              Once(response_with_cookie(req, IF valid \/ cookie = "client"
                                             THEN "NOERROR" ELSE "BADCOOKIE"))
         [] cookie \in {"client", "forged", "server"} /\ req.qd # 0 /\ ~valid /\ denied ->
              Once(response_with_cookie(req, "BADCOOKIE"))
         [] OTHER -> inner

-----------------------------------------------------------------------------
(* middleware/edns.rs                                                      *)

Least(a, b) == IF a < b THEN a ELSE b
Most(a, b) == IF a < b THEN b ELSE a

Mnegotiated_hint(req, hint) == Most(hint, Most(MinimumLen, req.payload))

(* The negotiated limit; hint is the server's, 0 for none.                 *)
negotiated_hint(req, hint) ==
    LET client == Most(MinimumLen, req.payload)
        server == Least(Most(hint, MinimumLen), client)
    IN IF hint = 0 THEN client ELSE Least(client, server)

EdnsRejects(req) ==
    CASE req.opt \in {"two", "bad"} -> "FORMERR"
      [] req.opt = "one" /\ req.version > 0 -> "BADVERS"
      [] req.opt = "one" /\ req.version = 0 /\ ~req.udp /\ req.keepalive = "timeout" -> "FORMERR"
      [] OTHER -> "none"

(* The limit in force behind preprocess.                                   *)
EdnsHint(req, hint) ==
    IF req.opt = "one" /\ req.udp /\ EdnsRejects(req) = "none"
    THEN negotiated_hint(req, hint) ELSE hint

Medns_postprocess(req, r) == IF HasOpt(req) THEN r ELSE remove_edns_opt_record(r)

edns_postprocess(req, r) ==
    LET stripped == IF HasOpt(req) THEN r ELSE remove_edns_opt_record(r)
        signalled == IF ~req.udp /\ req.idle /\ req.opt # "none"
                     THEN Pushed(stripped, [stripped EXCEPT !.opt = TRUE, !.keepalive = TRUE,
                                                            !.options = @ + KeepaliveLen])
                     ELSE stripped
    IN IF HasOpt(req) THEN add_edns_options(signalled, 0) ELSE signalled

Edns(req, inner) ==
    LET items == IF EdnsRejects(req) = "none" THEN Cookies(req, inner)
                 ELSE Once(mk_error_response(req, EdnsRejects(req)))
    IN [i \in DOMAIN items |->
          LET item == items[i]
          IN IF item.some THEN [item EXCEPT !.resp = edns_postprocess(req, @)] ELSE item]

-----------------------------------------------------------------------------
(* middleware/notify.rs; target is what the application's Notifiable says. *)

get_relevant_question(req) == req.opcode = "notify" /\ req.qd > 0 /\ req.soa

Notify(req, target, inner) ==
    IF ~get_relevant_question(req) THEN Edns(req, inner)
    ELSE Once(IF target = "ok" THEN start_answer(req, "NOERROR")
              ELSE mk_error_response(req, IF target = "notauth" THEN "NOTAUTH" ELSE "SERVFAIL"))

-----------------------------------------------------------------------------
(* middleware/mandatory.rs, in strict mode                                 *)

MandatoryRejects(req) ==
    CASE req.opcode = "iquery" -> "NOTIMP"
      [] req.opcode = "query" /\ req.qd > 1 -> "FORMERR"
      [] OTHER -> "none"

(* The limit in force when the response comes back.                        *)
FinalHint(req, hint) ==
    IF MandatoryRejects(req) # "none" \/ get_relevant_question(req) THEN hint
    ELSE EdnsHint(req, hint)

truncate(req, hint, r) ==
    LET limit == IF hint = 0 THEN MinimumLen ELSE hint
    IN IF req.udp /\ Length(r) > limit THEN [r EXCEPT !.tc = TRUE, !.body = 0] ELSE r

mandatory_postprocess(req, hint, r) ==
    [truncate(req, hint, r) EXCEPT !.id = req.id, !.qr = TRUE]

Mandatory(req, hint, target, inner) ==
    LET items == IF MandatoryRejects(req) = "none" THEN Notify(req, target, inner)
                 ELSE Once(mk_error_response(req, MandatoryRejects(req)))
        limit == FinalHint(req, hint)
    IN [i \in DOMAIN items |->
          LET item == items[i]
          IN IF item.some THEN [item EXCEPT !.resp = mandatory_postprocess(req, limit, @)]
             ELSE item]

-----------------------------------------------------------------------------
(* middleware/tsig.rs                                                      *)

MSignerAt(items, n) ==
    IF \E i \in 1 .. n - 1 : items[i].some THEN "none" ELSE "single"

(* BeginTransaction takes the signer out, and puts a sequence back when it *)
(* found a single one; a single signer signs one response and is consumed. *)
Begun(s, item) ==
    IF item.fb # "begin" THEN s ELSE IF s = "single" THEN "sequence" ELSE "none"
Consumed(s, item) == IF item.some /\ s = "single" THEN "none" ELSE s

(* The signer behind every item, and the one that item n finds.            *)
Signers(items) ==
    LET signer[i \in 0 .. Len(items)] ==
          IF i = 0 THEN "single" ELSE Consumed(Begun(signer[i - 1], items[i]), items[i])
    IN signer

SignerAt(items, n) == Begun(Signers(items)[n - 1], items[n])

(* A response with no room for the signature is replaced by one that only  *)
(* says that it is truncated.                                              *)
Sign(req, r) ==
    IF Length(r) + TsigLen <= MessageLen THEN [r EXCEPT !.signed = TRUE]
    ELSE [start_answer(req, "NOERROR") EXCEPT !.tc = TRUE, !.signed = TRUE]

Tsig(req, hint, target, inner) ==
    LET items == Mandatory(req, hint, target, inner)
    IN CASE req.sig = "none" -> items
         [] req.sig = "bad" -> Once(start_answer(req, "NOTAUTH"))
         [] req.sig = "good" ->
              [i \in DOMAIN items |->
                 LET item == items[i]
                 IN IF item.some /\ SignerAt(items, i) # "none"
                    THEN [item EXCEPT !.resp = Sign(req, @)] ELSE item]

-----------------------------------------------------------------------------
(* What the service is asked: only what no layer answers itself.           *)
ReachesService(req) ==
    /\ req.sig # "bad" /\ MandatoryRejects(req) = "none" /\ ~get_relevant_question(req)
    /\ EdnsRejects(req) = "none"
    /\ Cookies(req, <<>>) = <<>>
=============================================================================
