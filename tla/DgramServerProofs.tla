-------------------------- MODULE DgramServerProofs -------------------------
(***************************************************************************)
(* Proofs about the middleware and the datagram server.  What the layers   *)
(* make of a request is a value: the sequence of items a task works        *)
(* through.  The lemmas follow a response outwards through the layers, for *)
(* every request and for every sequence of items the application's service *)
(* may yield; the state machine then only has to remember that a task's    *)
(* items are such a value, made with the limit in force when it called.    *)
(***************************************************************************)
EXTENDS DgramServer, FiniteSetTheorems, WellFoundedInduction, TLAPS

-----------------------------------------------------------------------------
(* Serial arithmetic                                                       *)

\* Leaves with arithmetic name SMT.
USE Zenon

(* Remainders of numbers at most one turn away.                            *)
LEMMA ModSmall == ASSUME NEW M \in Nat \ {0}, NEW x \in 0 .. M - 1 PROVE x % M = x
  BY SMT

(* ... of numbers one turn ahead ...                                       *)
LEMMA ModAbove == ASSUME NEW M \in Nat \ {0}, NEW x \in M .. 2 * M - 1 PROVE x % M = x - M
  BY SMT

(* ... and of numbers one turn behind.                                     *)
LEMMA ModBelow == ASSUME NEW M \in Nat \ {0}, NEW x \in Int, -M <= x, x < 0 PROVE x % M = x + M
  BY SMT

(* Half of an even number.                                                 *)
LEMMA Half == ASSUME NEW M \in Nat \ {0}, M % 2 = 0 PROVE /\ M \div 2 \in Nat /\ 2 * (M \div 2) = M
  BY SMT

(* The distance from b to a, for two points of the circle.                 *)
LEMMA Distance ==
    ASSUME NEW M \in Nat \ {0}, NEW a \in 0 .. M - 1, NEW b \in 0 .. M - 1
    PROVE  (a - b) % M = IF a >= b THEN a - b ELSE a - b + M
  <1>1. CASE a >= b BY <1>1, ModSmall, SMT
  <1>2. CASE a < b BY <1>2, ModBelow, SMT
  <1> QED BY <1>1, <1>2, SMT

(* timestamp_ok: two comparisons in serial arithmetic accept exactly the   *)
(* stamps from an hour ago to five minutes ahead, wherever now is on the   *)
(* circle.                                                                 *)
LEMMA FreshStamps ==
    ASSUME NEW age \in 0 .. SerialMod - 1
    PROVE  timestamp_ok(Now, (Now - age) % SerialMod) <=>
             (age \in 0 .. OneHour \/ SerialMod - age \in 1 .. FiveMinutes)
  <1> DEFINE M == SerialMod
             h == SerialMod \div 2
             stamp == (Now - age) % M
             old == (stamp + OneHour) % M
             ahead == (Now + FiveMinutes) % M
  <1>0. age \in 0 .. M - 1 OBVIOUS
  <1>1. M \in Nat \ {0} /\ Now \in 0 .. M - 1 /\ OneHour \in Nat \ {0} /\ FiveMinutes \in Nat \ {0}
    BY MiddlewareAssumption
  <1>2. h \in Nat /\ 2 * h = M /\ OneHour + FiveMinutes < h BY <1>1, Half, MiddlewareAssumption
  <1>3. stamp = IF Now >= age THEN Now - age ELSE Now - age + M BY <1>1, Distance
  <1>4. stamp \in 0 .. M - 1 BY <1>0, <1>1, <1>3, SMT
  <1> HIDE DEF stamp
  <1>5. old = IF stamp + OneHour < M THEN stamp + OneHour ELSE stamp + OneHour - M
    <2>1. CASE stamp + OneHour < M BY <1>1, <1>4, <2>1, ModSmall, SMT
    <2>2. CASE stamp + OneHour >= M BY <1>1, <1>2, <1>4, <2>2, ModAbove, SMT
    <2> QED BY <1>1, <1>4, <2>1, <2>2, SMT
  <1>6. ahead = IF Now + FiveMinutes < M THEN Now + FiveMinutes ELSE Now + FiveMinutes - M
    <2>1. CASE Now + FiveMinutes < M BY <1>1, <2>1, ModSmall, SMT
    <2>2. CASE Now + FiveMinutes >= M BY <1>1, <1>2, <2>2, ModAbove, SMT
    <2> QED BY <1>1, <2>1, <2>2, SMT
  <1>7. old \in 0 .. M - 1 /\ ahead \in 0 .. M - 1 BY <1>1, <1>2, <1>4, <1>5, <1>6, SMT
  <1>8. (Now - old) % M = IF Now >= old THEN Now - old ELSE Now - old + M
    BY <1>1, <1>7, Distance
  <1>9. (stamp - ahead) % M = IF stamp >= ahead THEN stamp - ahead ELSE stamp - ahead + M
    BY <1>1, <1>4, <1>7, Distance
  <1>10. timestamp_ok(Now, stamp) <=>
           ~((Now - old) % M \in 1 .. h - 1) /\ ~((stamp - ahead) % M \in 1 .. h - 1)
    BY DEF timestamp_ok, After
  <1> HIDE DEF M, h, stamp, old, ahead
  <1>11. timestamp_ok(Now, stamp) <=> (age \in 0 .. OneHour \/ M - age \in 1 .. FiveMinutes)
    <2>1. CASE Now >= age
      BY <1>0, <1>1, <1>2, <1>3, <1>4, <1>5, <1>6, <1>7, <1>8, <1>9, <1>10, <2>1, SMT
    <2>2. CASE Now < age
      BY <1>0, <1>1, <1>2, <1>3, <1>4, <1>5, <1>6, <1>7, <1>8, <1>9, <1>10, <2>2, SMT
    <2> QED BY <1>0, <1>1, <2>1, <2>2, SMT
  <1> QED BY <1>11 DEF M, stamp

-----------------------------------------------------------------------------
(* Single responses                                                        *)

(* The constants are numbers.                                              *)
LEMMA Constants ==
    /\ HeaderLen \in Nat \ {0} /\ QuestionLen \in Nat \ {0} /\ OptLen \in Nat \ {0}
    /\ KeepaliveLen \in Nat \ {0} /\ CookieLen \in Nat \ {0} /\ TsigLen \in Nat \ {0}
    /\ MinimumLen \in Nat \ {0} /\ MessageLen \in Nat \ {0}
  BY MiddlewareAssumption

(* A layer's own response: no records but the OPT record, and at most a    *)
(* cookie in that.                                                         *)
Own(req, r) ==
    /\ r \in ResponseType /\ r.body = 0 /\ r.options \in {0, CookieLen}
    /\ r.qd \in {0, req.qd} /\ r.signed = FALSE

(* The length of a response is a number.                                   *)
LEMMA LengthType == ASSUME NEW r \in ResponseType PROVE Length(r) \in Nat
  <1>1. r.qd \in Nat /\ r.body \in Nat /\ r.options \in Nat BY DEF ResponseType
  <1>2. QuestionLen * r.qd \in Nat BY <1>1, Constants, SMT
  <1> QED BY <1>1, <1>2, Constants, SMT DEF Length

(* The length without looking at the other fields.                         *)
LEMMA PushedOpt ==
    ASSUME NEW r \in ResponseType, NEW len \in Nat, NEW k \in BOOLEAN
    PROVE  LET new == [r EXCEPT !.opt = TRUE, !.options = @ + len, !.keepalive = k]
           IN /\ new \in ResponseType
              /\ Length(new) = Length([r EXCEPT !.opt = TRUE]) + len
  <1> DEFINE new == [r EXCEPT !.opt = TRUE, !.options = @ + len, !.keepalive = k]
             with == [r EXCEPT !.opt = TRUE]
  <1>1. r.options + len \in Nat /\ r.options \in Nat BY SMT DEF ResponseType
  <1>2. new \in ResponseType /\ with \in ResponseType BY <1>1 DEF ResponseType
  <1>3. /\ new.qd = r.qd /\ new.body = r.body /\ new.options = r.options + len
        /\ new.opt = TRUE /\ new.signed = r.signed
        /\ with.qd = r.qd /\ with.body = r.body /\ with.options = r.options
        /\ with.opt = TRUE /\ with.signed = r.signed
    BY DEF ResponseType
  <1>4. r.qd \in Nat /\ r.body \in Nat BY DEF ResponseType
  <1>5. QuestionLen * r.qd \in Nat BY <1>4, Constants, SMT
  <1> HIDE DEF new, with
  <1>6. Length(new) = Length(with) + len
    BY <1>1, <1>3, <1>4, <1>5, Constants, SMT DEF Length
  <1> QED BY <1>2, <1>6 DEF new, with

(* add_edns_options changes nothing but the OPT record, and adds one when  *)
(* there is room.                                                          *)
LEMMA AddEdns ==
    ASSUME NEW r \in ResponseType, NEW len \in Nat
    PROVE  LET new == add_edns_options(r, len)
           IN /\ new \in ResponseType
              /\ new.id = r.id /\ new.qr = r.qr /\ new.qd = r.qd /\ new.body = r.body
              /\ new.signed = r.signed
              /\ new.options \in {r.options, r.options + len}
              /\ r.opt = TRUE => new.opt = TRUE
              /\ len = 0 /\ Roomy(r) => new.opt = TRUE
  <1> DEFINE n == [r EXCEPT !.opt = TRUE, !.options = @ + len]
             w == [r EXCEPT !.opt = TRUE]
  <1>1. r.options + len \in Nat /\ r.options \in Nat /\ r.keepalive \in BOOLEAN BY SMT DEF ResponseType
  <1>2. n = [r EXCEPT !.opt = TRUE, !.options = @ + len, !.keepalive = r.keepalive]
    BY DEF ResponseType
  <1>3. n \in ResponseType /\ Length(n) = Length(w) + len BY <1>1, <1>2, PushedOpt
  <1>4. w \in ResponseType BY DEF ResponseType
  <1>5. Length(w) \in Nat BY <1>4, LengthType
  <1>6. /\ n.id = r.id /\ n.qr = r.qr /\ n.qd = r.qd /\ n.body = r.body /\ n.opt = TRUE
        /\ n.signed = r.signed /\ n.options = r.options + len
    BY DEF ResponseType
  <1>7. add_edns_options(r, len) = IF Length(n) <= MessageLen THEN n ELSE r
    BY DEF add_edns_options, Pushed
  <1>8. Roomy(r) <=> Length(w) <= MessageLen BY DEF Roomy
  <1> HIDE DEF n, w
  <1>9. ASSUME len = 0, Roomy(r) PROVE Length(n) <= MessageLen
    BY <1>3, <1>5, <1>8, <1>9, Constants, SMT
  <1> QED BY <1>3, <1>6, <1>7, <1>9

(* The responses the layers make themselves.                               *)
LEMMA OwnResponses ==
    ASSUME NEW req \in RequestType, NEW rcode \in Rcodes
    PROVE  /\ Own(req, start_answer(req, rcode)) /\ Own(req, mk_error_response(req, rcode))
           /\ start_answer(req, rcode).options = 0 /\ mk_error_response(req, rcode).options = 0
           /\ Own(req, mk_builder_for_target(rcode))
           /\ Own(req, [mk_builder_for_target(rcode) EXCEPT !.tc = TRUE])
           /\ Own(req, response_with_cookie(req, rcode))
           /\ start_answer(req, rcode).id = req.id /\ start_answer(req, rcode).qr = TRUE
  <1> DEFINE s == start_answer(req, rcode)
             c == add_edns_options(s, CookieLen)
  <1>1. req.id \in Nat /\ req.qd \in Nat BY DEF RequestType
  <1>2. s \in ResponseType BY <1>1 DEF start_answer, Response, ResponseType
  <1>3. /\ s.id = req.id /\ s.qr = TRUE /\ s.qd = req.qd /\ s.body = 0 /\ s.options = 0
        /\ s.signed = FALSE
    BY DEF start_answer, Response
  <1>4. Own(req, s) BY <1>2, <1>3 DEF Own
  <1>5. /\ Own(req, mk_builder_for_target(rcode))
        /\ Own(req, [mk_builder_for_target(rcode) EXCEPT !.tc = TRUE])
    BY DEF mk_builder_for_target, Response, Own, ResponseType, Rcodes
  <1> HIDE DEF s
  <1>6. /\ add_edns_options(s, 0) \in ResponseType
        /\ add_edns_options(s, 0).qd = s.qd /\ add_edns_options(s, 0).body = s.body
        /\ add_edns_options(s, 0).signed = s.signed
        /\ add_edns_options(s, 0).options \in {s.options, s.options + 0}
    BY <1>2, AddEdns
  <1>7. Own(req, add_edns_options(s, 0)) /\ add_edns_options(s, 0).options = 0
    BY <1>3, <1>6, SMT DEF Own
  <1>8. /\ c \in ResponseType /\ c.qd = s.qd /\ c.body = s.body /\ c.signed = s.signed
        /\ c.options \in {s.options, s.options + CookieLen}
    BY <1>2, AddEdns, Constants
  <1> HIDE DEF c
  <1>9. Own(req, [c EXCEPT !.cookie = TRUE])
    <2> DEFINE d == [c EXCEPT !.cookie = TRUE]
    <2>1. d \in ResponseType BY <1>8 DEF ResponseType
    <2>2. d.qd = c.qd /\ d.body = c.body /\ d.signed = c.signed /\ d.options = c.options
      BY <1>8 DEF ResponseType
    <2> HIDE DEF d
    <2>3. Own(req, d) BY <1>3, <1>8, <2>1, <2>2, Constants, SMT DEF Own
    <2> QED BY <2>3 DEF d
  <1>10. response_with_cookie(req, rcode) = [c EXCEPT !.cookie = TRUE]
    BY DEF response_with_cookie, c, s
  <1>11. mk_error_response(req, rcode) = add_edns_options(s, 0) BY DEF mk_error_response, s
  <1> QED BY <1>3, <1>4, <1>5, <1>7, <1>9, <1>10, <1>11 DEF s

(* The length of a layer's own response.                                   *)
LEMMA OwnLength ==
    ASSUME NEW req \in RequestType, NEW r, Own(req, r)
    PROVE  /\ Length(r) <= HeaderLen + QuestionLen * req.qd + r.options + OptLen
           /\ req.qd < 2 => Roomy(r)
  <1>1. r \in ResponseType /\ r.body = 0 /\ r.qd \in {0, req.qd} /\ r.signed = FALSE
        /\ r.options \in {0, CookieLen}
    BY DEF Own
  <1>2. req.qd \in Nat /\ r.qd \in Nat /\ r.options \in Nat BY <1>1, Constants, SMT DEF RequestType
  <1>3. /\ QuestionLen * r.qd \in Nat /\ QuestionLen * req.qd \in Nat
        /\ QuestionLen * r.qd <= QuestionLen * req.qd
    BY <1>1, <1>2, Constants, SMT
  <1>4. Length(r) <= HeaderLen + QuestionLen * req.qd + r.options + OptLen
    <2> DEFINE a == QuestionLen * r.qd
               b == QuestionLen * req.qd
               o == IF r.opt THEN OptLen ELSE 0
    <2>1. a \in Nat /\ b \in Nat /\ a <= b BY <1>3
    <2>2. o \in Nat /\ o <= OptLen BY Constants, SMT
    <2>3. Length(r) = HeaderLen + a + 0 + r.options + o + 0 BY <1>1 DEF Length
    <2> HIDE DEF a, b, o
    <2>4. Length(r) <= HeaderLen + b + r.options + OptLen BY <1>2, <2>1, <2>2, <2>3, Constants, SMT
    <2> QED BY <2>4 DEF b
  <1>5. ASSUME req.qd < 2 PROVE Roomy(r)
    <2> DEFINE w == [r EXCEPT !.opt = TRUE]
    <2>1. QuestionLen * req.qd <= QuestionLen BY <1>2, <1>5, Constants, SMT
    <2>2. /\ w.qd = r.qd /\ w.body = r.body /\ w.options = r.options
          /\ w.opt = TRUE /\ w.signed = r.signed
      BY <1>1 DEF ResponseType
    <2> HIDE DEF w
    <2>3. Length(w) <= HeaderLen + QuestionLen + CookieLen + OptLen
      BY <1>1, <1>2, <1>3, <2>1, <2>2, Constants, SMTT(30) DEF Length
    <2>4. Length(w) \in Int BY <1>1, <1>2, <1>3, <2>2, Constants, SMT DEF Length
    <2>5. HeaderLen + QuestionLen + OptLen + TsigLen + CookieLen <= MessageLen
      BY MiddlewareAssumption
    <2>6. Length(w) <= MessageLen BY <2>3, <2>4, <2>5, Constants, SMT
    <2> QED BY <2>6 DEF Roomy, w
  <1> QED BY <1>4, <1>5

(* The EDNS layer's postprocess leaves an OPT record exactly when the      *)
(* request had one, provided there is room for it.                         *)
LEMMA EdnsPost ==
    ASSUME NEW req \in RequestType, NEW r \in ResponseType
    PROVE  /\ edns_postprocess(req, r) \in ResponseType
           /\ HasOpt(req) /\ Roomy(r) => edns_postprocess(req, r).opt = TRUE
           /\ req.opt = "none" => edns_postprocess(req, r).opt = FALSE
  <1> DEFINE p == IF HasOpt(req) THEN r ELSE remove_edns_opt_record(r)
             n == [p EXCEPT !.opt = TRUE, !.keepalive = TRUE, !.options = @ + KeepaliveLen]
             g == IF ~req.udp /\ req.idle /\ req.opt # "none" THEN Pushed(p, n) ELSE p
  <1>1. p \in ResponseType /\ (~HasOpt(req) => p.opt = FALSE)
    BY DEF remove_edns_opt_record, ResponseType
  <1>2. edns_postprocess(req, r) = IF HasOpt(req) THEN add_edns_options(g, 0) ELSE g
    BY DEF edns_postprocess
  <1>3. HasOpt(req) => p = r OBVIOUS
  <1> HIDE DEF p
  <1>4. n = [p EXCEPT !.opt = TRUE, !.options = @ + KeepaliveLen, !.keepalive = TRUE]
    BY <1>1 DEF ResponseType
  <1>5. /\ n \in ResponseType /\ Length(n) = Length([p EXCEPT !.opt = TRUE]) + KeepaliveLen
    BY <1>1, <1>4, PushedOpt, Constants
  <1>6. n.opt = TRUE BY <1>1 DEF ResponseType
  <1>7. g \in ResponseType BY <1>1, <1>5 DEF Pushed
  <1>8. ASSUME HasOpt(req), Roomy(r) PROVE g = r \/ g.opt = TRUE
    BY <1>3, <1>6, <1>8 DEF Pushed
  <1>9. req.opt = "none" => ~HasOpt(req) /\ g = p BY DEF HasOpt
  <1> HIDE DEF g
  <1>10. /\ add_edns_options(g, 0) \in ResponseType
         /\ g.opt = TRUE => add_edns_options(g, 0).opt = TRUE
         /\ Roomy(g) => add_edns_options(g, 0).opt = TRUE
    BY <1>7, AddEdns
  <1> QED BY <1>1, <1>2, <1>7, <1>8, <1>9, <1>10

-----------------------------------------------------------------------------
(* Sequences of items                                                      *)

(* A single response is a sequence of items.                               *)
LEMMA OnceItems ==
    ASSUME NEW r \in ResponseType
    PROVE  /\ Once(r) \in Seq(ItemType) /\ DOMAIN Once(r) = {1} /\ Once(r) # <<>>
           /\ Once(r)[1].some = TRUE /\ Once(r)[1].resp = r /\ Once(r)[1].fb = "none"
  <1>1. Item("none", r) \in ItemType BY DEF Item, ItemType
  <1>2. Item("none", r).some = TRUE /\ Item("none", r).resp = r /\ Item("none", r).fb = "none"
    BY DEF Item
  <1> QED BY <1>1, <1>2, SMT DEF Once

(* r is what a layer answers itself, or what the service yielded.          *)
Source(req, inner, r) ==
    /\ r \in ResponseType
    /\ Own(req, r) \/ \E j \in DOMAIN inner : inner[j].some /\ inner[j].resp = r

(* The cookie layer passes the request on or answers with one response.    *)
LEMMA CookiesItems ==
    ASSUME NEW req \in RequestType, NEW inner \in Seq(ItemType)
    PROVE  \/ Cookies(req, inner) = inner
           \/ \E r \in ResponseType : Own(req, r) /\ Cookies(req, inner) = Once(r)
  <1> DEFINE cookie == CookieOf(req)
             valid == check_server_hash(req)
             denied == req.udp /\ req.denied
             code == IF valid \/ cookie = "client" THEN "NOERROR" ELSE "BADCOOKIE"
  <1>1. CASE cookie = "none" /\ denied
    <2>1. Cookies(req, inner) = Once([mk_builder_for_target("REFUSED") EXCEPT !.tc = TRUE])
      BY <1>1 DEF Cookies
    <2>2. "REFUSED" \in Rcodes BY DEF Rcodes
    <2> QED BY <2>1, <2>2, OwnResponses DEF Own
  <1>2. CASE cookie = "malformed"
    <2>1. Cookies(req, inner) = Once(mk_builder_for_target("FORMERR")) BY <1>2 DEF Cookies
    <2>2. "FORMERR" \in Rcodes BY DEF Rcodes
    <2> QED BY <2>1, <2>2, OwnResponses DEF Own
  <1>3. CASE cookie \in {"client", "forged", "server"} /\ req.qd = 0
    <2>1. Cookies(req, inner) = Once(response_with_cookie(req, code)) BY <1>3 DEF Cookies
    <2>2. code \in Rcodes BY DEF Rcodes
    <2> HIDE DEF code
    <2> QED BY <2>1, <2>2, OwnResponses DEF Own
  <1>4. CASE cookie \in {"client", "forged", "server"} /\ req.qd # 0 /\ ~valid /\ denied
    <2>1. Cookies(req, inner) = Once(response_with_cookie(req, "BADCOOKIE")) BY <1>4 DEF Cookies
    <2>2. "BADCOOKIE" \in Rcodes BY DEF Rcodes
    <2> QED BY <2>1, <2>2, OwnResponses DEF Own
  <1>5. CASE /\ ~(cookie = "none" /\ denied) /\ cookie # "malformed"
             /\ ~(cookie \in {"client", "forged", "server"} /\ req.qd = 0)
             /\ ~(cookie \in {"client", "forged", "server"} /\ req.qd # 0 /\ ~valid /\ denied)
    <2>1. Cookies(req, inner) = inner BY <1>5 DEF Cookies
    <2> QED BY <2>1
  <1> QED BY <1>1, <1>2, <1>3, <1>4, <1>5

(* What the EDNS layer lets out it has postprocessed.                      *)
LEMMA EdnsItems ==
    ASSUME NEW req \in RequestType, NEW inner \in Seq(ItemType)
    PROVE  /\ Edns(req, inner) \in Seq(ItemType)
           /\ \A i \in DOMAIN Edns(req, inner) : Edns(req, inner)[i].some =>
                \E r \in ResponseType :
                   /\ Source(req, inner, r)
                   /\ Edns(req, inner)[i].resp = edns_postprocess(req, r)
           /\ \/ \E r \in ResponseType : Edns(req, inner) = Once(r)
              \/ /\ DOMAIN Edns(req, inner) = DOMAIN inner
                 /\ \A i \in DOMAIN inner : /\ Edns(req, inner)[i].some = inner[i].some
                                            /\ Edns(req, inner)[i].fb = inner[i].fb
  <1> DEFINE items == IF EdnsRejects(req) = "none" THEN Cookies(req, inner)
                      ELSE Once(mk_error_response(req, EdnsRejects(req)))
             post(item) == IF item.some THEN [item EXCEPT !.resp = edns_postprocess(req, @)]
                           ELSE item
  <1>1. Edns(req, inner) = [i \in DOMAIN items |-> post(items[i])] BY DEF Edns
  <1>2. EdnsRejects(req) \in Rcodes BY DEF EdnsRejects, Rcodes
  <1>3. items = inner \/ \E r \in ResponseType : Own(req, r) /\ items = Once(r)
    <2>1. CASE EdnsRejects(req) = "none" BY <2>1, CookiesItems
    <2>2. CASE EdnsRejects(req) # "none"
      <3>1. items = Once(mk_error_response(req, EdnsRejects(req))) BY <2>2
      <3>2. Own(req, mk_error_response(req, EdnsRejects(req))) BY <1>2, OwnResponses
      <3> QED BY <3>1, <3>2 DEF Own
    <2> QED BY <2>1, <2>2
  <1>4. ASSUME NEW item \in ItemType
        PROVE  /\ post(item) \in ItemType /\ post(item).some = item.some /\ post(item).fb = item.fb
               /\ item.some => post(item).resp = edns_postprocess(req, item.resp)
    <2>1. item.resp \in ResponseType BY DEF ItemType
    <2>2. edns_postprocess(req, item.resp) \in ResponseType BY <2>1, EdnsPost
    <2> QED BY <2>2 DEF ItemType
  <1> HIDE DEF items, post
  <1>5. CASE items = inner
    <2>1. Edns(req, inner) = [i \in DOMAIN inner |-> post(inner[i])] BY <1>1, <1>5
    <2>2. \A i \in DOMAIN inner : inner[i] \in ItemType BY SMT
    <2>3. Edns(req, inner) \in Seq(ItemType) BY <1>4, <2>1, <2>2, SMT
    <2>4. ASSUME NEW i \in DOMAIN inner, inner[i].some
          PROVE  /\ Source(req, inner, inner[i].resp)
                 /\ Edns(req, inner)[i].resp = edns_postprocess(req, inner[i].resp)
      <3>1. inner[i].resp \in ResponseType BY <2>2 DEF ItemType
      <3> QED BY <1>4, <2>1, <2>2, <2>4, <3>1 DEF Source
    <2>5. \A i \in DOMAIN inner : /\ Edns(req, inner)[i].some = inner[i].some
                                  /\ Edns(req, inner)[i].fb = inner[i].fb
      BY <1>4, <2>1, <2>2
    <2>6. DOMAIN Edns(req, inner) = DOMAIN inner BY <2>1
    <2>7. ASSUME NEW i \in DOMAIN Edns(req, inner), Edns(req, inner)[i].some
          PROVE  \E r \in ResponseType : /\ Source(req, inner, r)
                                         /\ Edns(req, inner)[i].resp = edns_postprocess(req, r)
      <3>1. i \in DOMAIN inner /\ inner[i].some BY <2>5, <2>6, <2>7
      <3>2. inner[i].resp \in ResponseType BY <2>2, <3>1 DEF ItemType
      <3> QED BY <2>4, <3>1, <3>2
    <2> QED BY <2>3, <2>5, <2>6, <2>7
  <1>6. CASE \E r \in ResponseType : Own(req, r) /\ items = Once(r)
    <2>1. PICK r \in ResponseType : Own(req, r) /\ items = Once(r) BY <1>6
    <2> DEFINE new == edns_postprocess(req, r)
    <2>2. /\ items \in Seq(ItemType) /\ DOMAIN items = {1} /\ items[1] = Item("none", r)
      BY <2>1, OnceItems DEF Once
    <2>3. new \in ResponseType BY <2>1, EdnsPost
    <2>4. post(items[1]) = Item("none", new)
      <3>1. Item("none", r).some = TRUE /\ Item("none", r).resp = r BY DEF Item
      <3>2. post(items[1]) = [Item("none", r) EXCEPT !.resp = edns_postprocess(req, r)]
        BY <2>2, <3>1 DEF post
      <3> QED BY <3>2 DEF Item
    <2>5. Edns(req, inner) = Once(new)
      <3>1. Edns(req, inner) = [i \in {1} |-> post(items[i])] BY <1>1, <2>2
      <3>2. Edns(req, inner) = [i \in {1} |-> Item("none", new)] BY <2>4, <3>1
      <3> HIDE DEF new
      <3>3. Once(new) = [i \in {1} |-> Item("none", new)] BY SMT DEF Once
      <3> QED BY <3>2, <3>3
    <2>6. Source(req, inner, r) BY <2>1 DEF Source
    <2> HIDE DEF new
    <2>7. /\ Once(new) \in Seq(ItemType) /\ DOMAIN Once(new) = {1} /\ Once(new)[1].resp = new
      BY <2>3, OnceItems
    <2>8. \A i \in DOMAIN Edns(req, inner) : Edns(req, inner)[i].resp = new BY <2>5, <2>7
    <2> QED BY <2>1, <2>3, <2>5, <2>6, <2>7, <2>8 DEF new
  <1> QED BY <1>3, <1>5, <1>6

(* The request is answered before it gets to the EDNS layer.               *)
Bypasses(req) == MandatoryRejects(req) # "none" \/ get_relevant_question(req)

(* Items that come one by one where those of inner do.                     *)
Alike(items, inner) ==
    /\ DOMAIN items = DOMAIN inner
    /\ \A i \in DOMAIN inner : items[i].some = inner[i].some /\ items[i].fb = inner[i].fb

Single(items) == DOMAIN items = {1} /\ items[1].some /\ items[1].fb = "none"

(* What comes back to the mandatory layer.                                 *)
Inside(req, target, inner) ==
    IF MandatoryRejects(req) = "none" THEN Notify(req, target, inner)
    ELSE Once(mk_error_response(req, MandatoryRejects(req)))

(* It is one response of the mandatory or the NOTIFY layer, or what comes  *)
(* through the EDNS layer.                                                 *)
LEMMA InsideItems ==
    ASSUME NEW req \in RequestType, NEW inner \in Seq(ItemType), NEW target
    PROVE  /\ Inside(req, target, inner) \in Seq(ItemType)
           /\ Bypasses(req) => \E r \in ResponseType : /\ Own(req, r) /\ r.options = 0
                                                       /\ Inside(req, target, inner) = Once(r)
           /\ ~Bypasses(req) => Inside(req, target, inner) = Edns(req, inner)
           /\ Single(Inside(req, target, inner)) \/ Alike(Inside(req, target, inner), inner)
  <1> DEFINE items == Inside(req, target, inner)
  <1>1. CASE ~Bypasses(req)
    <2>1. items = Edns(req, inner) BY <1>1 DEF Bypasses, Inside, Notify
    <2>2. items \in Seq(ItemType) BY <2>1, EdnsItems
    <2>3. Single(items) \/ Alike(items, inner)
      <3>1. CASE \E r \in ResponseType : items = Once(r) BY <3>1, OnceItems DEF Single
      <3>2. CASE ~\E r \in ResponseType : items = Once(r)
        BY <2>1, <3>2, EdnsItems, SMT DEF Alike
      <3> QED BY <3>1, <3>2
    <2> QED BY <1>1, <2>1, <2>2, <2>3
  <1>2. CASE Bypasses(req)
    <2>1. \E r \in ResponseType : Own(req, r) /\ r.options = 0 /\ items = Once(r)
      <3>1. CASE MandatoryRejects(req) # "none"
        <4>1. MandatoryRejects(req) \in Rcodes BY DEF MandatoryRejects, Rcodes
        <4>2. items = Once(mk_error_response(req, MandatoryRejects(req))) BY <3>1 DEF Inside
        <4> QED BY <4>1, <4>2, OwnResponses, ZenonT(30) DEF Own
      <3>2. CASE MandatoryRejects(req) = "none"
        <4>1. get_relevant_question(req) BY <1>2, <3>2 DEF Bypasses
        <4> DEFINE code == IF target = "notauth" THEN "NOTAUTH" ELSE "SERVFAIL"
        <4>2. items = Once(IF target = "ok" THEN start_answer(req, "NOERROR")
                           ELSE mk_error_response(req, code))
          BY <3>2, <4>1 DEF Inside, Notify
        <4>3. code \in Rcodes /\ "NOERROR" \in Rcodes BY DEF Rcodes
        <4> HIDE DEF code
        <4>4. CASE target = "ok"
          <5>1. items = Once(start_answer(req, "NOERROR")) BY <4>2, <4>4
          <5> QED BY <4>3, <5>1, OwnResponses, ZenonT(30) DEF Own
        <4>5. CASE target # "ok"
          <5>1. items = Once(mk_error_response(req, code)) BY <4>2, <4>5
          <5> QED BY <4>3, <5>1, OwnResponses, ZenonT(30) DEF Own
        <4> QED BY <4>4, <4>5
      <3> QED BY <3>1, <3>2
    <2> QED BY <1>2, <2>1, OnceItems DEF Single
  <1> QED BY <1>1, <1>2

(* The mandatory layer's postprocess keeps the response's type.            *)
LEMMA MandatoryPost ==
    ASSUME NEW req \in RequestType, NEW r \in ResponseType, NEW limit \in Nat
    PROVE  LET new == mandatory_postprocess(req, limit, r)
           IN /\ new \in ResponseType /\ new.id = req.id /\ new.qr = TRUE
              /\ new.opt = r.opt /\ new.signed = r.signed
              /\ new.qd = r.qd /\ new.options = r.options
              /\ \/ new.body = r.body /\ (req.udp => Length(r) <= (IF limit = 0 THEN MinimumLen ELSE limit))
                 \/ new.body = 0 /\ new.tc = TRUE
  <1> DEFINE t == truncate(req, limit, r)
             most == IF limit = 0 THEN MinimumLen ELSE limit
             new == [t EXCEPT !.id = req.id, !.qr = TRUE]
  <1>1. mandatory_postprocess(req, limit, r) = new BY DEF mandatory_postprocess
  <1>2. t = IF req.udp /\ Length(r) > most THEN [r EXCEPT !.tc = TRUE, !.body = 0] ELSE r
    BY DEF truncate
  <1>3. req.id \in Nat /\ most \in Nat /\ Length(r) \in Nat
    BY Constants, LengthType DEF RequestType
  <1> HIDE DEF most
  <1>4. /\ t \in ResponseType /\ t.opt = r.opt /\ t.signed = r.signed
        /\ t.qd = r.qd /\ t.options = r.options
        /\ \/ t.body = r.body /\ (req.udp => Length(r) <= most)
           \/ t.body = 0 /\ t.tc = TRUE
    <2>1. CASE req.udp /\ Length(r) > most
      <3> DEFINE e == [r EXCEPT !.tc = TRUE, !.body = 0]
      <3>1. e \in ResponseType BY DEF ResponseType
      <3>2. /\ e.opt = r.opt /\ e.signed = r.signed /\ e.qd = r.qd /\ e.options = r.options
            /\ e.body = 0 /\ e.tc = TRUE
        BY DEF ResponseType
      <3>3. t = e BY <1>2, <2>1
      <3> QED BY <3>1, <3>2, <3>3
    <2>2. CASE ~(req.udp /\ Length(r) > most) BY <1>2, <1>3, <2>2, SMT
    <2> QED BY <2>1, <2>2
  <1> HIDE DEF t
  <1>5. new \in ResponseType BY <1>3, <1>4 DEF ResponseType
  <1>6. /\ new.id = req.id /\ new.qr = TRUE /\ new.opt = t.opt /\ new.signed = t.signed
        /\ new.qd = t.qd /\ new.options = t.options /\ new.body = t.body /\ new.tc = t.tc
    BY <1>4 DEF ResponseType
  <1> HIDE DEF new
  <1> QED BY <1>1, <1>4, <1>5, <1>6 DEF most

(* The limit in force is a number.                                         *)
LEMMA LimitType ==
    ASSUME NEW req \in RequestType, NEW hint \in Nat
    PROVE  FinalHint(req, hint) \in Nat
  <1>1. req.payload \in Nat BY DEF RequestType
  <1>2. negotiated_hint(req, hint) \in Nat BY <1>1, Constants DEF negotiated_hint, Most, Least
  <1> QED BY <1>2 DEF FinalHint, EdnsHint

(* Every response the mandatory layer lets out has gone through its        *)
(* postprocess, and before that through the EDNS layer's, or is one that   *)
(* the mandatory or the NOTIFY layer made.                                 *)
LEMMA MandatoryItems ==
    ASSUME NEW req \in RequestType, NEW inner \in Seq(ItemType), NEW hint \in Nat, NEW target
    PROVE  LET items == Mandatory(req, hint, target, inner)
           IN /\ items \in Seq(ItemType)
              /\ \A i \in DOMAIN items : items[i].some =>
                   \E r \in ResponseType :
                      /\ items[i].resp = mandatory_postprocess(req, FinalHint(req, hint), r)
                      /\ Bypasses(req) => Own(req, r) /\ r.options = 0
                      /\ ~Bypasses(req) => \E r0 \in ResponseType :
                            Source(req, inner, r0) /\ r = edns_postprocess(req, r0)
              /\ Single(items) \/ Alike(items, inner)
  <1> DEFINE limit == FinalHint(req, hint)
             before == Inside(req, target, inner)
             post(item) == IF item.some
                           THEN [item EXCEPT !.resp = mandatory_postprocess(req, limit, @)]
                           ELSE item
             items == Mandatory(req, hint, target, inner)
  <1>1. items = [i \in DOMAIN before |-> post(before[i])] BY DEF Mandatory, Inside
  <1>2. /\ before \in Seq(ItemType)
        /\ Bypasses(req) => \E r \in ResponseType : Own(req, r) /\ r.options = 0 /\ before = Once(r)
        /\ ~Bypasses(req) => before = Edns(req, inner)
        /\ Single(before) \/ Alike(before, inner)
    BY InsideItems
  <1>3. limit \in Nat BY LimitType
  <1>4. ASSUME NEW item \in ItemType
        PROVE  /\ post(item) \in ItemType /\ post(item).some = item.some /\ post(item).fb = item.fb
               /\ item.some => post(item).resp = mandatory_postprocess(req, limit, item.resp)
    <2>1. item.resp \in ResponseType BY DEF ItemType
    <2>2. mandatory_postprocess(req, limit, item.resp) \in ResponseType
      BY <1>3, <2>1, MandatoryPost
    <2> QED BY <2>2 DEF ItemType
  <1> HIDE DEF items, before, post, limit
  <1>5. \A i \in DOMAIN before : before[i] \in ItemType BY <1>2, SMT
  <1>6. items \in Seq(ItemType) BY <1>1, <1>2, <1>4, <1>5, SMT
  <1>7. /\ DOMAIN items = DOMAIN before
        /\ \A i \in DOMAIN before : /\ items[i].some = before[i].some /\ items[i].fb = before[i].fb
                                    /\ before[i].some =>
                                         items[i].resp = mandatory_postprocess(req, limit, before[i].resp)
    BY <1>1, <1>4, <1>5
  <1>8. ASSUME NEW i \in DOMAIN items, items[i].some
        PROVE  \E r \in ResponseType :
                  /\ items[i].resp = mandatory_postprocess(req, limit, r)
                  /\ Bypasses(req) => Own(req, r) /\ r.options = 0
                  /\ ~Bypasses(req) => \E r0 \in ResponseType :
                        Source(req, inner, r0) /\ r = edns_postprocess(req, r0)
    <2> DEFINE r == before[i].resp
    <2>1. i \in DOMAIN before /\ before[i].some BY <1>7, <1>8
    <2>2. r \in ResponseType BY <1>5, <2>1 DEF ItemType
    <2>3. items[i].resp = mandatory_postprocess(req, limit, r) BY <1>7, <2>1
    <2>4. ASSUME Bypasses(req) PROVE Own(req, r) /\ r.options = 0
      BY <1>2, <2>1, <2>4, OnceItems
    <2>5. ASSUME ~Bypasses(req)
          PROVE  \E r0 \in ResponseType : Source(req, inner, r0) /\ r = edns_postprocess(req, r0)
      <3>1. before = Edns(req, inner) BY <1>2, <2>5
      <3> QED BY <2>1, <3>1, EdnsItems
    <2> QED BY <2>2, <2>3, <2>4, <2>5
  <1>9. Single(items) \/ Alike(items, inner) BY <1>2, <1>7 DEF Single, Alike
  <1> QED BY <1>6, <1>8, <1>9 DEF items, limit

-----------------------------------------------------------------------------
(* The TSIG layer's signer                                                 *)

(* A nonempty set of numbers has a least element.                          *)
LEMMA LeastNat ==
    ASSUME NEW S \in SUBSET Nat, S # {}
    PROVE  \E n \in S : \A m \in S : n <= m
  <1>1. IsWellFoundedOn(OpToRel(<, Nat), Nat) BY NatLessThanWellFounded
  <1>2. PICK x \in S : \A y \in S : ~(<<y, x>> \in OpToRel(<, Nat)) BY <1>1, WFMin, Zenon
  <1>3. \A y \in S : ~(y < x) BY <1>2 DEF OpToRel
  <1> QED BY <1>3, SMT

(* The recursion that defines Signers has a solution.                      *)
LEMMA SignersExist ==
    ASSUME NEW items, NEW n \in Nat
    PROVE  \E f : f = [i \in 0 .. n |-> IF i = 0 THEN "single"
                                         ELSE Consumed(Begun(f[i - 1], items[i]), items[i])]
  <1> DEFINE Solved(m, f) ==
               f = [i \in 0 .. m |-> IF i = 0 THEN "single"
                                     ELSE Consumed(Begun(f[i - 1], items[i]), items[i])]
             Unsolved == {m \in Nat : ~\E f : Solved(m, f)}
  <1>1. SUFFICES ASSUME Unsolved # {} PROVE FALSE OBVIOUS
  <1>2. PICK m \in Unsolved : \A k \in Unsolved : m <= k BY <1>1, LeastNat
  <1>3. m \in Nat /\ ~\E f : Solved(m, f) OBVIOUS
  <1>4. CASE m = 0
    <2> DEFINE f == [i \in 0 .. 0 |-> "single"]
    <2>1. Solved(0, f) BY SMT
    <2> QED BY <1>3, <1>4, <2>1
  <1>5. CASE m > 0
    <2>1. m - 1 \in Nat /\ m - 1 \notin Unsolved BY <1>2, <1>3, <1>5, SMT
    <2>2. PICK g : Solved(m - 1, g) BY <2>1
    <2> DEFINE f == [i \in 0 .. m |->
                       IF i = m THEN Consumed(Begun(g[m - 1], items[m]), items[m]) ELSE g[i]]
    <2>3. \A i \in 0 .. m - 1 : g[i] = IF i = 0 THEN "single"
                                       ELSE Consumed(Begun(g[i - 1], items[i]), items[i])
      BY <2>2
    <2>4. \A i \in 0 .. m - 1 : f[i] = g[i] BY <1>3, SMT
    <2>5. f[m] = Consumed(Begun(g[m - 1], items[m]), items[m]) BY <1>3, SMT
    <2> HIDE DEF f
    <2>6. ASSUME NEW i \in 0 .. m
          PROVE  f[i] = IF i = 0 THEN "single" ELSE Consumed(Begun(f[i - 1], items[i]), items[i])
      <3>1. CASE i = m
        <4>1. m - 1 \in 0 .. m - 1 /\ i # 0 BY <1>3, <1>5, <3>1, SMT
        <4> QED BY <2>4, <2>5, <3>1, <4>1
      <3>2. CASE i # m
        <4>1. i \in 0 .. m - 1 /\ (i # 0 => i - 1 \in 0 .. m - 1) BY <1>3, <3>2, SMT
        <4> QED BY <2>3, <2>4, <4>1
      <3> QED BY <3>1, <3>2
    <2>7. f = [i \in 0 .. m |-> f[i]] BY DEF f
    <2>8. Solved(m, f) BY <2>6, <2>7
    <2> QED BY <1>3, <2>8
  <1> QED BY <1>3, <1>4, <1>5, SMT

(* What Signers says of one item after another.                            *)
LEMMA SignersStep ==
    ASSUME NEW items \in Seq(ItemType)
    PROVE  /\ Signers(items)[0] = "single"
           /\ \A i \in 1 .. Len(items) :
                Signers(items)[i] = Consumed(Begun(Signers(items)[i - 1], items[i]), items[i])
  <1>1. Len(items) \in Nat BY SMT
  <1>2. \E f : f = [i \in 0 .. Len(items) |->
                      IF i = 0 THEN "single" ELSE Consumed(Begun(f[i - 1], items[i]), items[i])]
    BY <1>1, SignersExist
  <1>3. Signers(items) = [i \in 0 .. Len(items) |->
                            IF i = 0 THEN "single"
                            ELSE Consumed(Begun(Signers(items)[i - 1], items[i]), items[i])]
    BY <1>2, Zenon DEF Signers
  <1> QED BY <1>1, <1>3, SMT

(* The state the signer is in behind item n, said without recursion.       *)
LEMMA SignerStates ==
    ASSUME NEW items \in Seq(ItemType), Conforms(items), NEW n \in 0 .. Len(items)
    PROVE  Signers(items)[n] =
             IF \E k \in 1 .. n : items[k].fb = "begin" THEN "sequence"
             ELSE IF \E k \in 1 .. n : items[k].some THEN "none" ELSE "single"
  <1> DEFINE State(m) == IF \E k \in 1 .. m : items[k].fb = "begin" THEN "sequence"
                         ELSE IF \E k \in 1 .. m : items[k].some THEN "none" ELSE "single"
             Wrong == {m \in 0 .. Len(items) : Signers(items)[m] # State(m)}
  <1>1. SUFFICES ASSUME Wrong # {} PROVE FALSE OBVIOUS
  <1>2. Len(items) \in Nat /\ DOMAIN items = 1 .. Len(items) BY SMT
  <1>3. Wrong \in SUBSET Nat BY <1>2, SMT
  <1>4. PICK m \in Wrong : \A k \in Wrong : m <= k BY <1>1, <1>3, LeastNat
  <1>5. m \in 0 .. Len(items) /\ Signers(items)[m] # State(m) OBVIOUS
  <1>6. CASE m = 0
    <2>1. State(0) = "single" BY SMT
    <2> QED BY <1>5, <1>6, <2>1, SignersStep
  <1>7. CASE m > 0
    <2>1. m \in 1 .. Len(items) /\ m - 1 \in 0 .. Len(items) /\ m - 1 \notin Wrong
      BY <1>2, <1>4, <1>5, <1>7, SMT
    <2>2. Signers(items)[m - 1] = State(m - 1) BY <2>1
    <2>3. Signers(items)[m] = Consumed(Begun(State(m - 1), items[m]), items[m])
      BY <2>1, <2>2, SignersStep
    <2>4. 1 .. m = (1 .. m - 1) \cup {m} BY <2>1, SMT
    <2>5. \A k \in 1 .. m - 1 : k \in DOMAIN items /\ k < m BY <1>2, <2>1, SMT
    <2>6. CASE items[m].fb = "begin"
      <3>1. \A k \in 1 .. m - 1 : ~items[k].some /\ items[k].fb # "begin"
        BY <1>2, <2>1, <2>5, <2>6 DEF Conforms
      <3>2. State(m - 1) = "single" BY <3>1
      <3>3. State(m) = "sequence" BY <2>4, <2>6
      <3> HIDE DEF State
      <3> QED BY <1>5, <2>3, <2>6, <3>2, <3>3 DEF Begun, Consumed
    <2>7. CASE items[m].fb # "begin"
      <3>1. Begun(State(m - 1), items[m]) = State(m - 1) BY <2>7 DEF Begun
      <3>2. CASE State(m - 1) = "sequence"
        <4>1. State(m) = "sequence" BY <2>4, <3>2
        <4> HIDE DEF State
        <4> QED BY <1>5, <2>3, <3>1, <3>2, <4>1 DEF Consumed
      <3>3. CASE State(m - 1) = "none"
        <4>1. State(m) = "none" BY <2>4, <2>7, <3>3
        <4> HIDE DEF State
        <4> QED BY <1>5, <2>3, <3>1, <3>3, <4>1 DEF Consumed
      <3>4. CASE State(m - 1) = "single"
        <4>1. State(m) = IF items[m].some THEN "none" ELSE "single" BY <2>4, <2>7, <3>4
        <4> HIDE DEF State
        <4> QED BY <1>5, <2>3, <3>1, <3>4, <4>1 DEF Consumed
      <3> QED BY <3>2, <3>3, <3>4
    <2> QED BY <2>6, <2>7
  <1> QED BY <1>2, <1>5, <1>6, <1>7, SMT

(* A conforming sequence leaves no response without a signer.              *)
LEMMA SignerThere ==
    ASSUME NEW items \in Seq(ItemType), Conforms(items), NEW n \in DOMAIN items, items[n].some
    PROVE  SignerAt(items, n) # "none"
  <1>1. n \in 1 .. Len(items) /\ n - 1 \in 0 .. Len(items) /\ DOMAIN items = 1 .. Len(items)
    BY SMT
  <1> DEFINE s == Signers(items)[n - 1]
  <1>2. s = IF \E k \in 1 .. n - 1 : items[k].fb = "begin" THEN "sequence"
            ELSE IF \E k \in 1 .. n - 1 : items[k].some THEN "none" ELSE "single"
    BY <1>1, SignerStates
  <1>3. SignerAt(items, n) = Begun(s, items[n]) BY DEF SignerAt
  <1>4. \A k \in 1 .. n - 1 : k \in DOMAIN items /\ k < n BY <1>1, SMT
  <1> HIDE DEF s
  <1>5. CASE items[n].fb = "begin"
    <2>1. s = "single" BY <1>2, <1>4, <1>5 DEF Conforms
    <2> QED BY <1>3, <1>5, <2>1 DEF Begun
  <1>6. CASE items[n].fb # "begin"
    <2>1. SignerAt(items, n) = s BY <1>3, <1>6 DEF Begun
    <2>2. ASSUME NEW k \in 1 .. n - 1, items[k].some
          PROVE  \E b \in 1 .. n - 1 : items[b].fb = "begin"
      <3>1. PICK b \in DOMAIN items : b <= k /\ items[b].fb = "begin"
        BY <1>4, <2>2 DEF Conforms
      <3>2. b \in 1 .. n - 1 BY <1>1, <3>1, SMT
      <3> QED BY <3>1, <3>2
    <2> QED BY <1>2, <2>1, <2>2
  <1> QED BY <1>5, <1>6

(* The layers keep a sequence conforming.                                  *)
LEMMA StillConforms ==
    ASSUME NEW items, NEW inner, Conforms(inner), Single(items) \/ Alike(items, inner)
    PROVE  Conforms(items)
  <1>1. CASE Single(items) BY <1>1, SMT DEF Single, Conforms
  <1>2. CASE Alike(items, inner) BY <1>2, SMT DEF Alike, Conforms
  <1> QED BY <1>1, <1>2

-----------------------------------------------------------------------------
(* What the whole stack answers                                            *)

(* Without a signature the outermost layer changes nothing.                *)
LEMMA Unsigned ==
    ASSUME NEW req, NEW hint, NEW target, NEW inner, req.sig = "none"
    PROVE  Tsig(req, hint, target, inner) = Mandatory(req, hint, target, inner)
  BY DEF Tsig

(* Every answer carries the request's ID and the QR bit.                   *)
LEMMA MatchesRequest ==
    ASSUME NEW req \in RequestType, NEW inner \in Seq(ItemType), NEW hint \in Nat, NEW target,
           NEW i \in DOMAIN Tsig(req, hint, target, inner),
           Tsig(req, hint, target, inner)[i].some
    PROVE  /\ Tsig(req, hint, target, inner)[i].resp.id = req.id
           /\ Tsig(req, hint, target, inner)[i].resp.qr = TRUE
  <1> DEFINE items == Mandatory(req, hint, target, inner)
             out == Tsig(req, hint, target, inner)
  <1>0. i \in DOMAIN out /\ out[i].some OBVIOUS
  <1>1. items \in Seq(ItemType) BY MandatoryItems
  <1>2. ASSUME NEW j \in DOMAIN items, items[j].some
        PROVE  /\ items[j].resp \in ResponseType
               /\ items[j].resp.id = req.id /\ items[j].resp.qr = TRUE
    <2>1. PICK r \in ResponseType :
            items[j].resp = mandatory_postprocess(req, FinalHint(req, hint), r)
      BY <1>2, MandatoryItems, SMT
    <2> DEFINE limit == FinalHint(req, hint)
    <2>2. limit \in Nat BY LimitType
    <2> HIDE DEF limit
    <2>3. /\ mandatory_postprocess(req, limit, r) \in ResponseType
          /\ mandatory_postprocess(req, limit, r).id = req.id
          /\ mandatory_postprocess(req, limit, r).qr = TRUE
      BY <2>2, MandatoryPost
    <2>4. items[j].resp = mandatory_postprocess(req, limit, r) BY <2>1 DEF limit
    <2> QED BY <2>3, <2>4
  <1>3. "NOERROR" \in Rcodes /\ "NOTAUTH" \in Rcodes BY DEF Rcodes
  <1>4. req.sig \in {"none", "good", "bad"} BY DEF RequestType
  <1> HIDE DEF items
  <1>5. CASE req.sig = "none"
    <2>1. out = items BY <1>5 DEF Tsig, items
    <2> HIDE DEF out
    <2>2. out[i].resp.id = req.id /\ out[i].resp.qr = TRUE BY <1>0, <1>2, <2>1
    <2> QED BY <2>2 DEF out
  <1>6. CASE req.sig = "bad"
    <2>1. out = Once(start_answer(req, "NOTAUTH")) BY <1>6 DEF Tsig
    <2>2. /\ start_answer(req, "NOTAUTH") \in ResponseType
          /\ start_answer(req, "NOTAUTH").id = req.id /\ start_answer(req, "NOTAUTH").qr = TRUE
      BY <1>3, OwnResponses DEF Own
    <2>3. DOMAIN out = {1} /\ out[1].resp = start_answer(req, "NOTAUTH") BY <2>1, <2>2, OnceItems
    <2> HIDE DEF out
    <2>4. out[i].resp.id = req.id /\ out[i].resp.qr = TRUE BY <1>0, <2>2, <2>3
    <2> QED BY <2>4 DEF out
  <1>7. CASE req.sig = "good"
    <2>1. out = [j \in DOMAIN items |->
                   IF items[j].some /\ SignerAt(items, j) # "none"
                   THEN [items[j] EXCEPT !.resp = Sign(req, @)] ELSE items[j]]
      BY <1>7 DEF Tsig, items
    <2> HIDE DEF out
    <2>2. i \in DOMAIN items /\ items[i] \in ItemType BY <1>0, <1>1, <2>1, SMT
    <2>3. items[i].some
      <3>1. CASE out[i] = items[i] BY <1>0, <3>1
      <3>2. CASE out[i] # items[i] BY <2>1, <2>2, <3>2
      <3> QED BY <3>1, <3>2
    <2> DEFINE r == items[i].resp
    <2>4. r \in ResponseType /\ r.id = req.id /\ r.qr = TRUE BY <1>2, <2>2, <2>3
    <2>5. Sign(req, r).id = req.id /\ Sign(req, r).qr = TRUE
      <3>1. CASE Length(r) + TsigLen <= MessageLen BY <2>4, <3>1 DEF Sign, ResponseType
      <3>2. CASE ~(Length(r) + TsigLen <= MessageLen)
        <4> DEFINE s == start_answer(req, "NOERROR")
        <4>1. s \in ResponseType /\ s.id = req.id /\ s.qr = TRUE BY <1>3, OwnResponses DEF Own
        <4>2. Sign(req, r) = [s EXCEPT !.tc = TRUE, !.signed = TRUE] BY <3>2 DEF Sign
        <4> HIDE DEF s
        <4> QED BY <4>1, <4>2 DEF ResponseType
      <3> QED BY <3>1, <3>2
    <2>6. out[i].resp = r \/ out[i].resp = Sign(req, r) BY <2>1, <2>2 DEF ItemType
    <2>7. out[i].resp.id = req.id /\ out[i].resp.qr = TRUE BY <2>4, <2>5, <2>6
    <2> QED BY <2>7 DEF out
  <1> QED BY <1>4, <1>5, <1>6, <1>7

(* What client and server agreed on, as AnswersFit has it.                 *)
Agreed(req, hint) ==
    IF req.opt = "one" /\ req.version = 0
    THEN Most(MinimumLen, IF hint = 0 THEN req.payload ELSE Least(req.payload, hint))
    ELSE IF hint = 0 THEN MinimumLen ELSE hint

(* The limit in force on the way back is that, unless the request was      *)
(* answered before the EDNS layer could negotiate it.                      *)
LEMMA LimitAgreed ==
    ASSUME NEW req \in RequestType, NEW hint \in Nat, req.udp
    PROVE  LET limit == FinalHint(req, hint)
               most == IF limit = 0 THEN MinimumLen ELSE limit
           IN /\ most \in Nat /\ Agreed(req, hint) \in Nat
              /\ ~Bypasses(req) => most <= Agreed(req, hint)
              /\ ~(req.opt = "one" /\ req.version = 0) => most <= Agreed(req, hint)
              /\ req.opt = "one" /\ req.version = 0 => MinimumLen <= Agreed(req, hint)
  <1>1. req.payload \in Nat /\ req.version \in Nat BY DEF RequestType
  <1>2. MinimumLen \in Nat \ {0} BY Constants
  <1>3. CASE req.opt = "one" /\ req.version = 0
    <2>1. Agreed(req, hint) \in Nat /\ MinimumLen <= Agreed(req, hint)
      BY <1>1, <1>2, <1>3, SMT DEF Agreed, Most, Least
    <2>2. EdnsRejects(req) = "none" BY <1>3, SMT DEF EdnsRejects
    <2>3. EdnsHint(req, hint) = negotiated_hint(req, hint) BY <1>3, <2>2 DEF EdnsHint
    <2>4. negotiated_hint(req, hint) \in Nat \ {0} /\ negotiated_hint(req, hint) <= Agreed(req, hint)
      BY <1>1, <1>2, <1>3, SMT DEF negotiated_hint, Agreed, Most, Least
    <2>5. CASE Bypasses(req)
      <3>1. FinalHint(req, hint) = hint BY <2>5 DEF Bypasses, FinalHint
      <3> QED BY <1>2, <1>3, <2>1, <2>5, <3>1
    <2>6. CASE ~Bypasses(req)
      <3>1. FinalHint(req, hint) = negotiated_hint(req, hint)
        BY <2>3, <2>6 DEF Bypasses, FinalHint
      <3> QED BY <1>2, <1>3, <2>1, <2>4, <2>6, <3>1
    <2> QED BY <2>5, <2>6
  <1>4. CASE ~(req.opt = "one" /\ req.version = 0)
    <2>1. req.opt = "one" => EdnsRejects(req) = "BADVERS" BY <1>1, <1>4, SMT DEF EdnsRejects
    <2>2. FinalHint(req, hint) = hint BY <2>1 DEF FinalHint, EdnsHint
    <2>3. Agreed(req, hint) = IF hint = 0 THEN MinimumLen ELSE hint BY <1>4 DEF Agreed
    <2> QED BY <1>2, <1>4, <2>2, <2>3, SMT
  <1> QED BY <1>3, <1>4

(* An unsigned answer over UDP keeps to what was agreed or is cut.  Only a *)
(* request the mandatory or the NOTIFY layer answers needs the hypothesis: *)
(* its answer repeats the question section.                                *)
LEMMA FitsAgreed ==
    ASSUME NEW req \in RequestType, NEW inner \in Seq(ItemType), NEW hint \in Nat, NEW target,
           req.udp, req.sig = "none",
           HeaderLen + QuestionLen * req.qd + OptLen <= MinimumLen,
           NEW i \in DOMAIN Tsig(req, hint, target, inner),
           Tsig(req, hint, target, inner)[i].some
    PROVE  LET r == Tsig(req, hint, target, inner)[i].resp
           IN Length(r) <= Agreed(req, hint) \/ (r.tc /\ r.body = 0)
  <1> DEFINE items == Mandatory(req, hint, target, inner)
             limit == FinalHint(req, hint)
             most == IF limit = 0 THEN MinimumLen ELSE limit
             new == items[i].resp
  <1>1. Tsig(req, hint, target, inner) = items BY Unsigned
  <1>2. PICK r \in ResponseType :
          /\ new = mandatory_postprocess(req, limit, r)
          /\ Bypasses(req) => Own(req, r) /\ r.options = 0
    BY <1>1, MandatoryItems, SMT
  <1>3. /\ limit \in Nat /\ most \in Nat /\ Agreed(req, hint) \in Nat
        /\ ~Bypasses(req) => most <= Agreed(req, hint)
        /\ ~(req.opt = "one" /\ req.version = 0) => most <= Agreed(req, hint)
        /\ req.opt = "one" /\ req.version = 0 => MinimumLen <= Agreed(req, hint)
    BY LimitAgreed, LimitType
  <1>4. /\ new \in ResponseType /\ new.opt = r.opt /\ new.signed = r.signed
        /\ new.qd = r.qd /\ new.options = r.options
        /\ \/ new.body = r.body /\ Length(r) <= most
           \/ new.body = 0 /\ new.tc = TRUE
    <2> DEFINE post == mandatory_postprocess(req, limit, r)
    <2>1. limit \in Nat BY <1>3
    <2> HIDE DEF limit
    <2>2. /\ post \in ResponseType /\ post.opt = r.opt /\ post.signed = r.signed
          /\ post.qd = r.qd /\ post.options = r.options
          /\ \/ post.body = r.body /\ (req.udp => Length(r) <= (IF limit = 0 THEN MinimumLen ELSE limit))
             \/ post.body = 0 /\ post.tc = TRUE
      BY <2>1, MandatoryPost
    <2>3. new = post BY <1>2
    <2> HIDE DEF post, new
    <2> QED BY <2>2, <2>3
  <1>5. SUFFICES Length(new) <= Agreed(req, hint) \/ (new.tc /\ new.body = 0)
    BY <1>1
  <1> HIDE DEF items, limit, most, new
  <1>6. CASE new.body = 0 /\ new.tc = TRUE BY <1>6
  <1>7. CASE new.body = r.body /\ Length(r) <= most
    <2>1. Length(new) = Length(r) BY <1>4, <1>7 DEF Length
    <2>2. Length(r) \in Nat BY LengthType
    <2>3. CASE Bypasses(req)
      <3>1. Length(r) <= HeaderLen + QuestionLen * req.qd + 0 + OptLen
        BY <1>2, <2>3, OwnLength
      <3> DEFINE q == QuestionLen * req.qd
      <3>2. q \in Nat BY Constants, SMT DEF RequestType
      <3>3. Length(r) <= HeaderLen + q + 0 + OptLen /\ HeaderLen + q + OptLen <= MinimumLen
        BY <3>1
      <3> HIDE DEF q
      <3>4. Length(r) <= MinimumLen BY <2>2, <3>2, <3>3, Constants, SMT
      <3> QED BY <1>3, <1>7, <2>1, <2>2, <3>4, Constants, SMT
    <2>4. CASE ~Bypasses(req) BY <1>3, <1>7, <2>1, <2>2, <2>4, SMT
    <2> QED BY <2>3, <2>4
  <1> QED BY <1>4, <1>6, <1>7

(* A response that comes through the EDNS layer has an OPT record exactly  *)
(* when the request had one.                                               *)
LEMMA OptForOpt ==
    ASSUME NEW req \in RequestType, NEW inner \in Seq(ItemType), NEW hint \in Nat, NEW target,
           req.opcode = "query", req.qd < 2, req.opt # "bad", req.sig = "none",
           \A j \in DOMAIN inner : inner[j].some => Roomy(inner[j].resp),
           NEW i \in DOMAIN Tsig(req, hint, target, inner),
           Tsig(req, hint, target, inner)[i].some
    PROVE  Tsig(req, hint, target, inner)[i].resp.opt = (req.opt # "none")
  <1> DEFINE items == Mandatory(req, hint, target, inner)
             limit == FinalHint(req, hint)
  <1>1. Tsig(req, hint, target, inner) = items BY Unsigned
  <1>2. ~Bypasses(req)
    <2>1. req.qd \in Nat BY DEF RequestType
    <2> QED BY <2>1, SMT DEF Bypasses, MandatoryRejects, get_relevant_question
  <1>3. PICK r \in ResponseType :
          /\ items[i].resp = mandatory_postprocess(req, limit, r)
          /\ \E r0 \in ResponseType : Source(req, inner, r0) /\ r = edns_postprocess(req, r0)
    BY <1>1, <1>2, MandatoryItems, SMT
  <1>4. PICK r0 \in ResponseType : Source(req, inner, r0) /\ r = edns_postprocess(req, r0)
    BY <1>3
  <1>5. Roomy(r0)
    <2>1. CASE Own(req, r0) BY <2>1, OwnLength
    <2>2. CASE \E j \in DOMAIN inner : inner[j].some /\ inner[j].resp = r0 BY <2>2
    <2> QED BY <1>4, <2>1, <2>2 DEF Source
  <1>6. r.opt = (req.opt # "none")
    <2>1. CASE req.opt = "none"
      <3>1. r.opt = FALSE BY <1>4, <2>1, EdnsPost
      <3> QED BY <2>1, <3>1
    <2>2. CASE req.opt # "none"
      <3>1. HasOpt(req) BY <2>2 DEF HasOpt, RequestType
      <3>2. r.opt = TRUE BY <1>4, <1>5, <3>1, EdnsPost
      <3> QED BY <2>2, <3>2
    <2> QED BY <2>1, <2>2
  <1>7. mandatory_postprocess(req, limit, r).opt = r.opt
    <2>1. limit \in Nat BY LimitType
    <2> HIDE DEF limit
    <2> QED BY <2>1, MandatoryPost
  <1> HIDE DEF items, limit
  <1>8. items[i].resp.opt = (req.opt # "none") BY <1>3, <1>6, <1>7
  <1> QED BY <1>1, <1>8

(* Every response to a signed request finds a signer.                      *)
LEMMA SignedForSigned ==
    ASSUME NEW req \in RequestType, NEW inner \in Seq(ItemType), NEW hint \in Nat, NEW target,
           req.sig = "good", Conforms(inner),
           NEW i \in DOMAIN Tsig(req, hint, target, inner),
           Tsig(req, hint, target, inner)[i].some
    PROVE  Tsig(req, hint, target, inner)[i].resp.signed = TRUE
  <1> DEFINE items == Mandatory(req, hint, target, inner)
             out == Tsig(req, hint, target, inner)
  <1>0. i \in DOMAIN out /\ out[i].some OBVIOUS
  <1>1. items \in Seq(ItemType) /\ (Single(items) \/ Alike(items, inner)) BY MandatoryItems
  <1>2. Conforms(items) BY <1>1, StillConforms
  <1>3. out = [j \in DOMAIN items |->
                 IF items[j].some /\ SignerAt(items, j) # "none"
                 THEN [items[j] EXCEPT !.resp = Sign(req, @)] ELSE items[j]]
    BY DEF Tsig
  <1>4. "NOERROR" \in Rcodes BY DEF Rcodes
  <1> HIDE DEF items, out
  <1>5. i \in DOMAIN items /\ items[i] \in ItemType BY <1>0, <1>1, <1>3, SMT
  <1>6. items[i].some
    <2>1. CASE out[i] = items[i] BY <1>0, <2>1
    <2>2. CASE out[i] # items[i] BY <1>3, <1>5, <2>2
    <2> QED BY <2>1, <2>2
  <1>7. SignerAt(items, i) # "none" BY <1>1, <1>2, <1>5, <1>6, SignerThere
  <1> DEFINE r == items[i].resp
  <1>8. r \in ResponseType BY <1>5 DEF ItemType
  <1>9. out[i].resp = Sign(req, r) BY <1>3, <1>5, <1>6, <1>7 DEF ItemType
  <1>10. Sign(req, r).signed = TRUE
    <2> HIDE DEF r
    <2>1. CASE Length(r) + TsigLen <= MessageLen BY <1>8, <2>1 DEF Sign, ResponseType
    <2>2. CASE ~(Length(r) + TsigLen <= MessageLen)
      <3> DEFINE s == start_answer(req, "NOERROR")
      <3>1. s \in ResponseType BY <1>4, OwnResponses DEF Own
      <3>2. Sign(req, r) = [s EXCEPT !.tc = TRUE, !.signed = TRUE] BY <2>2 DEF Sign
      <3> HIDE DEF s
      <3> QED BY <3>1, <3>2 DEF ResponseType
    <2> QED BY <2>1, <2>2
  <1>11. out[i].resp.signed = TRUE BY <1>9, <1>10
  <1> QED BY <1>11 DEF out

(* On a query with one question from a client that is denied, the service  *)
(* is asked exactly when the cookie is one of ours and fresh.              *)
LEMMA DeniedReaches ==
    ASSUME NEW req \in RequestType, req.udp, req.denied, req.opcode = "query", req.qd = 1,
           req.sig # "bad"
    PROVE  ReachesService(req) <=>
             /\ req.opt = "one" /\ req.version = 0 /\ req.cookie = "server"
             /\ req.age \in 0 .. OneHour \/ SerialMod - req.age \in 1 .. FiveMinutes
  <1>1. req.age \in 0 .. SerialMod - 1 /\ req.version \in Nat BY DEF RequestType
  <1>2. check_server_hash(req) <=>
          /\ req.cookie = "server"
          /\ req.age \in 0 .. OneHour \/ SerialMod - req.age \in 1 .. FiveMinutes
    BY <1>1, FreshStamps DEF check_server_hash
  <1>3. MandatoryRejects(req) = "none" /\ ~get_relevant_question(req)
    BY SMT DEF MandatoryRejects, get_relevant_question
  <1>4. ReachesService(req) <=> EdnsRejects(req) = "none" /\ Cookies(req, <<>>) = <<>>
    BY <1>3 DEF ReachesService
  <1>5. EdnsRejects(req) = "none" <=>
          req.opt = "none" \/ (req.opt = "one" /\ req.version = 0)
    <2>1. req.opt \in {"none", "one", "two", "bad"} BY DEF RequestType
    <2> QED BY <1>1, <2>1, SMT DEF EdnsRejects
  <1>6. CASE req.opt = "none"
    <2>1. CookieOf(req) = "none" BY <1>6 DEF CookieOf, HasOpt
    <2>2. Cookies(req, <<>>) = Once([mk_builder_for_target("REFUSED") EXCEPT !.tc = TRUE])
      BY <2>1 DEF Cookies
    <2>3. Cookies(req, <<>>) # <<>> BY <2>2, SMTT(30) DEF Once
    <2> QED BY <1>4, <1>6, <2>3
  <1>7. CASE req.opt = "one" /\ req.version = 0
    <2>1. CookieOf(req) = req.cookie BY <1>7 DEF CookieOf, HasOpt
    <2>2. req.cookie \in {"none", "malformed", "client", "forged", "server"} BY DEF RequestType
    <2>3. CASE check_server_hash(req)
      <3>1. Cookies(req, <<>>) = <<>> BY <1>2, <2>1, <2>3, SMT DEF Cookies
      <3> QED BY <1>2, <1>4, <1>5, <1>7, <2>3, <3>1
    <2>4. CASE ~check_server_hash(req)
      <3>1. \E r : Cookies(req, <<>>) = Once(r)
        <4>1. CASE req.cookie = "none"
          <5>1. Cookies(req, <<>>) = Once([mk_builder_for_target("REFUSED") EXCEPT !.tc = TRUE])
            BY <2>1, <4>1 DEF Cookies
          <5> QED BY <5>1
        <4>2. CASE req.cookie = "malformed"
          <5>1. Cookies(req, <<>>) = Once(mk_builder_for_target("FORMERR"))
            BY <2>1, <4>2 DEF Cookies
          <5> QED BY <5>1
        <4>3. CASE req.cookie \in {"client", "forged", "server"}
          <5>1. Cookies(req, <<>>) = Once(response_with_cookie(req, "BADCOOKIE"))
            BY <2>1, <2>4, <4>3, SMT DEF Cookies
          <5> QED BY <5>1
        <4> QED BY <2>2, <4>1, <4>2, <4>3
      <3>2. \A r : Once(r) # <<>> BY DEF Once
      <3>3. Cookies(req, <<>>) # <<>> BY <3>1, <3>2
      <3> QED BY <1>2, <1>4, <2>4, <3>3
    <2> QED BY <2>3, <2>4
  <1>8. CASE ~(req.opt = "none") /\ ~(req.opt = "one" /\ req.version = 0)
    BY <1>4, <1>5, <1>8
  <1> QED BY <1>6, <1>7, <1>8

-----------------------------------------------------------------------------
(* The state machine                                                       *)

(* A task that called holds what the stack makes of its request, of some   *)
(* limit that was in force and of something the service may yield.         *)
Called(t) ==
    \E yields \in Asked(t.req), target \in Targets(t.req) :
        t.items = Tsig(t.req, t.hint, target, yields)

TaskOK(m, t, a) ==
    /\ t.req \in Requests[m] /\ t.hint \in Nat
    /\ t.pc \in {"unsent", "spawned", "stream", "sending", "done"}
    /\ t.pc \in {"stream", "sending"} => ~t.req.qr
    /\ t.pc \in {"unsent", "spawned"} \/ (t.pc = "done" /\ t.req.qr) => t.items = <<>> /\ m \notin a
    /\ t.pc \notin {"unsent", "spawned"} /\ ~t.req.qr =>
         Called(t) /\ (m \in a <=> ReachesService(t.req))

(* A response is on its way to the socket.                                 *)
Busy(t) == t.pc = "sending" /\ t.req.udp
Sending(tk) == {m \in Msg : Busy(tk[m])}

TaskShape(t) == t = [pc |-> t.pc, req |-> t.req, hint |-> t.hint, items |-> t.items, next |-> t.next]

IInv ==
    /\ listener.size \in Sizes /\ listener.pc \in {"command", "read", "stopped"}
    /\ listener = [pc |-> listener.pc, seen |-> listener.seen, size |-> listener.size]
    /\ command.size \in Sizes /\ command.kind \in {"init", "reconfigure", "shutdown"}
    /\ command = [ver |-> command.ver, kind |-> command.kind, size |-> command.size]
    /\ asked \subseteq Msg
    /\ task = [m \in Msg |-> task[m]]
    /\ \A m \in Msg : TaskShape(task[m]) /\ TaskOK(m, task[m], asked)
    /\ metrics = [pending |-> Cardinality(Sending(task))]

(* A step that changes one task and counts it keeps the invariant.         *)
LEMMA OneTask ==
    ASSUME IInv, NEW m \in Msg, NEW t, TaskShape(t), TaskOK(m, t, asked'),
           task' = [task EXCEPT ![m] = t],
           asked' = asked \/ asked' = asked \cup {m},
           metrics' = [metrics EXCEPT !.pending = @ + (IF Busy(t) THEN 1 ELSE 0)
                                                    - (IF Busy(task[m]) THEN 1 ELSE 0)],
           listener' = [listener EXCEPT !.pc = "command"] \/ listener' = listener,
           command' = command
    PROVE  IInv'
  <1>1. /\ listener'.size \in Sizes /\ listener'.pc \in {"command", "read", "stopped"}
        /\ listener' = [pc |-> listener'.pc, seen |-> listener'.seen, size |-> listener'.size]
    <2>1. CASE listener' = listener BY <2>1 DEF IInv
    <2>2. CASE listener' = [listener EXCEPT !.pc = "command"]
      <3> DEFINE l == [pc |-> "command", seen |-> listener.seen, size |-> listener.size]
      <3>1. listener' = l BY <2>2 DEF IInv
      <3>2. l.size = listener.size /\ l.pc = "command" /\ l.seen = listener.seen OBVIOUS
      <3> QED BY <3>1, <3>2 DEF IInv
    <2> QED BY <2>1, <2>2
  <1>2. /\ command'.size \in Sizes /\ command'.kind \in {"init", "reconfigure", "shutdown"}
        /\ command' = [ver |-> command'.ver, kind |-> command'.kind, size |-> command'.size]
    BY DEF IInv
  <1>3. asked' \subseteq Msg BY DEF IInv
  <1>4. task' = [k \in Msg |-> task'[k]] /\ task'[m] = t
        /\ \A k \in Msg \ {m} : task'[k] = task[k]
    BY DEF IInv
  <1>5. ASSUME NEW k \in Msg PROVE TaskShape(task'[k]) /\ TaskOK(k, task'[k], asked')
    <2>1. CASE k = m BY <1>4, <2>1
    <2>2. CASE k # m
      <3>1. task'[k] = task[k] /\ TaskShape(task[k]) /\ TaskOK(k, task[k], asked)
        BY <1>4, <2>2 DEF IInv
      <3>2. k \in asked' <=> k \in asked BY <2>2
      <3>3. TaskOK(k, task[k], asked') BY <3>1, <3>2 DEF TaskOK
      <3> QED BY <3>1, <3>3
    <2> QED BY <2>1, <2>2
  <1>6. metrics' = [pending |-> Cardinality(Sending(task'))]
    <2> DEFINE S == Sending(task)
               T == Sending(task')
    <2>1. IsFiniteSet(S) BY DgramAssumption, FS_Subset DEF Sending
    <2>2. metrics.pending = Cardinality(S) /\ metrics = [pending |-> Cardinality(S)]
      BY DEF IInv
    <2>3. Cardinality(S) \in Nat BY <2>1, FS_CardinalityType
    <2>4. \A k \in Msg \ {m} : k \in T <=> k \in S BY <1>4 DEF Sending
    <2>5. (m \in T <=> Busy(t)) /\ (m \in S <=> Busy(task[m])) BY <1>4 DEF Sending
    <2>6. T \subseteq Msg /\ S \subseteq Msg BY DEF Sending
    <2>7. metrics' = [pending |-> Cardinality(S) + (IF m \in T THEN 1 ELSE 0)
                                                 - (IF m \in S THEN 1 ELSE 0)]
      BY <2>2, <2>5
    <2> HIDE DEF S, T
    <2>8. Cardinality(T) = Cardinality(S) + (IF m \in T THEN 1 ELSE 0) - (IF m \in S THEN 1 ELSE 0)
      <3>1. CASE m \in T /\ m \notin S
        <4>1. T = S \cup {m} BY <2>4, <2>6, <3>1
        <4>2. Cardinality(T) = Cardinality(S) + 1 BY <2>1, <3>1, <4>1, FS_AddElement
        <4> QED BY <2>3, <3>1, <4>2, SMT
      <3>2. CASE m \notin T /\ m \in S
        <4>1. T = S \ {m} BY <2>4, <2>6, <3>2
        <4>2. Cardinality(T) = Cardinality(S) - 1 BY <2>1, <3>2, <4>1, FS_RemoveElement
        <4> QED BY <2>3, <3>2, <4>2, SMT
      <3>3. CASE m \in T <=> m \in S
        <4>1. T = S BY <2>4, <2>6, <3>3, SMT
        <4> QED BY <2>3, <4>1, SMT
      <3> QED BY <3>1, <3>2, <3>3
    <2> QED BY <2>7, <2>8 DEF T
  <1> QED BY <1>1, <1>2, <1>3, <1>4, <1>5, <1>6 DEF IInv

(* The initial states satisfy the invariant.                               *)
LEMMA InitOK == Init => IInv
  <1> SUFFICES ASSUME Init PROVE IInv OBVIOUS
  <1>1. PICK s \in Sizes : /\ command = [ver |-> 0, kind |-> "init", size |-> s]
                           /\ listener = [pc |-> "command", seen |-> 0, size |-> s]
    BY DEF Init
  <1>2. task = [m \in Msg |-> [pc |-> "unsent", req |-> CHOOSE r \in Requests[m] : TRUE,
                               hint |-> 0, items |-> <<>>, next |-> 1]]
    BY DEF Init
  <1>3. asked = {} /\ metrics = [pending |-> 0] BY DEF Init
  <1>4. ASSUME NEW m \in Msg PROVE TaskShape(task[m]) /\ TaskOK(m, task[m], asked)
    <2>1. (CHOOSE r \in Requests[m] : TRUE) \in Requests[m] BY DgramAssumption
    <2> DEFINE q == CHOOSE r \in Requests[m] : TRUE
    <2>2. task[m] = [pc |-> "unsent", req |-> q, hint |-> 0, items |-> <<>>, next |-> 1]
      BY <1>2
    <2> HIDE DEF q
    <2>3. TaskShape(task[m]) BY <2>2 DEF TaskShape
    <2>4. TaskOK(m, task[m], asked) BY <1>3, <2>1, <2>2, SMT DEF TaskOK, q
    <2> QED BY <2>3, <2>4
  <1>5. Sending(task) = {} BY <1>2 DEF Sending, Busy
  <1>6. metrics = [pending |-> Cardinality(Sending(task))] BY <1>3, <1>5, FS_EmptySet
  <1> QED BY <1>1, <1>2, <1>3, <1>4, <1>6 DEF IInv

(* A step that leaves the tasks alone.                                     *)
LEMMA NoTask ==
    ASSUME IInv, UNCHANGED <<task, metrics, asked>>,
           listener'.size \in Sizes /\ listener'.pc \in {"command", "read", "stopped"},
           listener' = [pc |-> listener'.pc, seen |-> listener'.seen, size |-> listener'.size],
           command'.size \in Sizes /\ command'.kind \in {"init", "reconfigure", "shutdown"},
           command' = [ver |-> command'.ver, kind |-> command'.kind, size |-> command'.size]
    PROVE  IInv'
  BY DEF IInv

(* Commands and the listener's own steps.                                  *)
LEMMA ListenerSteps ==
    ASSUME IInv,
           \/ \E s \in Sizes : Reconfigure(s)
           \/ Shutdown \/ process_server_command \/ ReceiveNothing \/ ReceiveFails
    PROVE  IInv'
  <1>1. listener = [pc |-> listener.pc, seen |-> listener.seen, size |-> listener.size] BY DEF IInv
  <1>2. command = [ver |-> command.ver, kind |-> command.kind, size |-> command.size] BY DEF IInv
  <1>3. /\ listener.size \in Sizes /\ listener.pc \in {"command", "read", "stopped"}
        /\ command.size \in Sizes /\ command.kind \in {"init", "reconfigure", "shutdown"}
    BY DEF IInv
  <1>4. CASE \E s \in Sizes : Reconfigure(s)
    <2>1. PICK s \in Sizes : Reconfigure(s) BY <1>4
    <2>2. /\ command' = [ver |-> command.ver + 1, kind |-> "reconfigure", size |-> s]
          /\ UNCHANGED <<listener, task, metrics, asked>>
      BY <2>1 DEF Reconfigure
    <2> QED BY <1>1, <1>3, <2>2, NoTask
  <1>5. CASE Shutdown
    <2>1. /\ command' = [ver |-> command.ver + 1, kind |-> "shutdown", size |-> command.size]
          /\ UNCHANGED <<listener, task, metrics, asked>>
      BY <1>2, <1>5 DEF Shutdown
    <2> QED BY <1>1, <1>3, <2>1, NoTask
  <1>6. CASE process_server_command
    <2>1. UNCHANGED <<command, task, metrics, asked>> BY <1>6 DEF process_server_command
    <2>2. \/ listener' = [pc |-> "read", seen |-> listener.seen, size |-> listener.size]
          \/ listener' = [pc |-> "stopped", seen |-> listener.seen, size |-> listener.size]
          \/ listener' = [pc |-> listener.pc, seen |-> command.ver, size |-> command.size]
      BY <1>1, <1>6 DEF process_server_command
    <2>3. /\ listener'.size \in Sizes /\ listener'.pc \in {"command", "read", "stopped"}
          /\ listener' = [pc |-> listener'.pc, seen |-> listener'.seen, size |-> listener'.size]
      BY <1>3, <2>2, SMT
    <2> QED BY <1>2, <1>3, <2>1, <2>3, NoTask
  <1>7. CASE ReceiveNothing \/ ReceiveFails
    <2>1. UNCHANGED <<command, task, metrics, asked>> BY <1>7 DEF ReceiveNothing, ReceiveFails
    <2>2. \/ listener' = [pc |-> "command", seen |-> listener.seen, size |-> listener.size]
          \/ listener' = [pc |-> "stopped", seen |-> listener.seen, size |-> listener.size]
      BY <1>1, <1>7 DEF ReceiveNothing, ReceiveFails
    <2>3. /\ listener'.size \in Sizes /\ listener'.pc \in {"command", "read", "stopped"}
          /\ listener' = [pc |-> listener'.pc, seen |-> listener'.seen, size |-> listener'.size]
      BY <1>3, <2>2, SMT
    <2> QED BY <1>2, <1>3, <2>1, <2>3, NoTask
  <1> QED BY <1>4, <1>5, <1>6, <1>7

(* What the middleware reads of the service is typed.                      *)
LEMMA AskedType ==
    ASSUME NEW m \in Msg, NEW req \in Requests[m]
    PROVE  req \in RequestType /\ Asked(req) \subseteq Seq(ItemType)
  <1>1. req \in RequestType /\ Services(req) \subseteq Seq(ItemType) BY DgramAssumption
  <1>2. <<>> \in Seq(ItemType) BY SMT
  <1> QED BY <1>1, <1>2 DEF Asked

(* A task's fields are replaced one by one.                                *)
LEMMA Replaced ==
    ASSUME NEW o, TaskShape(o)
    PROVE  /\ \A p, q : [o EXCEPT !.pc = p, !.req = q]
                = [pc |-> p, req |-> q, hint |-> o.hint, items |-> o.items, next |-> o.next]
           /\ \A p, h, y : [o EXCEPT !.pc = p, !.hint = h, !.items = y]
                = [pc |-> p, req |-> o.req, hint |-> h, items |-> y, next |-> o.next]
           /\ \A p, n : [o EXCEPT !.pc = p, !.next = n]
                = [pc |-> p, req |-> o.req, hint |-> o.hint, items |-> o.items, next |-> n]
  <1> DEFINE R(a, b, c, d, e) == [pc |-> a, req |-> b, hint |-> c, items |-> d, next |-> e]
  <1>1. \A a, b, c, d, e, x :
          /\ [R(a, b, c, d, e) EXCEPT !.pc = x] = R(x, b, c, d, e)
          /\ [R(a, b, c, d, e) EXCEPT !.req = x] = R(a, x, c, d, e)
          /\ [R(a, b, c, d, e) EXCEPT !.hint = x] = R(a, b, x, d, e)
          /\ [R(a, b, c, d, e) EXCEPT !.items = x] = R(a, b, c, x, e)
          /\ [R(a, b, c, d, e) EXCEPT !.next = x] = R(a, b, c, d, x)
    BY SMT
  <1>2. o = R(o.pc, o.req, o.hint, o.items, o.next) BY DEF TaskShape
  <1> HIDE DEF R
  <1>3. ASSUME NEW p PROVE [o EXCEPT !.pc = p] = R(p, o.req, o.hint, o.items, o.next)
    BY <1>1, <1>2, SMT
  <1>4. ASSUME NEW p, NEW q
        PROVE  /\ [o EXCEPT !.pc = p, !.req = q] = R(p, q, o.hint, o.items, o.next)
               /\ [o EXCEPT !.pc = p, !.next = q] = R(p, o.req, o.hint, o.items, q)
    <2> DEFINE o1 == [o EXCEPT !.pc = p]
    <2>1. o1 = R(p, o.req, o.hint, o.items, o.next) BY <1>3
    <2>2. /\ [o EXCEPT !.pc = p, !.req = q] = [o1 EXCEPT !.req = q]
          /\ [o EXCEPT !.pc = p, !.next = q] = [o1 EXCEPT !.next = q]
      OBVIOUS
    <2> HIDE DEF o1
    <2>3. [o1 EXCEPT !.req = q] = R(p, q, o.hint, o.items, o.next) BY <1>1, <2>1, SMT
    <2>4. [o1 EXCEPT !.next = q] = R(p, o.req, o.hint, o.items, q) BY <1>1, <2>1, SMT
    <2> QED BY <2>2, <2>3, <2>4
  <1>5. ASSUME NEW p, NEW h, NEW y
        PROVE  [o EXCEPT !.pc = p, !.hint = h, !.items = y] = R(p, o.req, h, y, o.next)
    <2> DEFINE o1 == [o EXCEPT !.pc = p]
               o2 == [o1 EXCEPT !.hint = h]
    <2>1. o1 = R(p, o.req, o.hint, o.items, o.next) BY <1>3
    <2>2. [o EXCEPT !.pc = p, !.hint = h, !.items = y] = [o2 EXCEPT !.items = y] OBVIOUS
    <2> HIDE DEF o1
    <2>3. o2 = R(p, o.req, h, o.items, o.next) BY <1>1, <2>1, SMT
    <2> HIDE DEF o2
    <2>4. [o2 EXCEPT !.items = y] = R(p, o.req, h, y, o.next) BY <1>1, <2>3, SMT
    <2> QED BY <2>2, <2>4
  <1> QED BY <1>4, <1>5 DEF R

(* A message arrives and its task is spawned.                              *)
LEMMA Receives ==
    ASSUME IInv, NEW m \in Msg, NEW req \in Requests[m], Receive(m, req) \/ ReceiveStream(m, req)
    PROVE  IInv'
  <1> DEFINE o == task[m]
             t == [pc |-> "spawned", req |-> req, hint |-> o.hint, items |-> o.items, next |-> o.next]
  <1>1. o.pc = "unsent" /\ UNCHANGED <<command, metrics, asked>> BY DEF Receive, ReceiveStream
  <1>2. TaskShape(o) /\ TaskOK(m, o, asked) /\ task = [k \in Msg |-> task[k]] BY DEF IInv
  <1>3. task' = [task EXCEPT ![m] = t]
    <2>1. task' = [task EXCEPT ![m].pc = "spawned", ![m].req = req] BY DEF Receive, ReceiveStream
    <2>2. [o EXCEPT !.pc = "spawned", !.req = req] = t BY <1>2, Replaced
    <2> QED BY <1>2, <2>1, <2>2
  <1>4. listener' = [listener EXCEPT !.pc = "command"] \/ listener' = listener
    BY DEF Receive, ReceiveStream
  <1>5. /\ t.pc = "spawned" /\ t.req = req /\ t.hint = o.hint /\ t.items = o.items /\ t.next = o.next
    OBVIOUS
  <1>6. TaskShape(t) BY DEF TaskShape
  <1>7. o.hint \in Nat /\ o.items = <<>> /\ m \notin asked BY <1>1, <1>2 DEF TaskOK
  <1> HIDE DEF t, o
  <1>8. TaskOK(m, t, asked') BY <1>1, <1>5, <1>7 DEF TaskOK
  <1>9. ~Busy(t) /\ ~Busy(task[m]) BY <1>1, <1>5 DEF Busy, o
  <1>10. metrics' = [metrics EXCEPT !.pending = @ + 0 - 0]
    <2>1. metrics.pending \in Nat /\ metrics = [pending |-> metrics.pending]
      BY DgramAssumption, FS_Subset, FS_CardinalityType DEF IInv, Sending
    <2> QED BY <1>1, <2>1, SMT
  <1> QED BY <1>1, <1>3, <1>4, <1>6, <1>8, <1>9, <1>10, OneTask

(* A message that is no query is dropped.                                  *)
LEMMA Ignores ==
    ASSUME IInv, NEW m \in Msg, Ignore(m)
    PROVE  IInv'
  <1> DEFINE o == task[m]
             t == [pc |-> "done", req |-> o.req, hint |-> o.hint, items |-> o.items, next |-> o.next]
  <1>1. o.pc = "spawned" /\ o.req.qr /\ UNCHANGED <<command, listener, metrics, asked>> BY DEF Ignore
  <1>2. TaskShape(o) /\ TaskOK(m, o, asked) /\ task = [k \in Msg |-> task[k]] BY DEF IInv
  <1>3. task' = [task EXCEPT ![m] = t]
    <2>1. task' = [task EXCEPT ![m].pc = "done"] BY DEF Ignore
    <2>2. [o EXCEPT !.pc = "done"] = t BY <1>2, SMT DEF TaskShape
    <2> QED BY <1>2, <2>1, <2>2
  <1>5. /\ t.pc = "done" /\ t.req = o.req /\ t.hint = o.hint /\ t.items = o.items /\ t.next = o.next
    OBVIOUS
  <1>6. TaskShape(t) BY DEF TaskShape
  <1>7. o.req \in Requests[m] /\ o.hint \in Nat /\ o.items = <<>> /\ m \notin asked
    BY <1>1, <1>2 DEF TaskOK
  <1> HIDE DEF t, o
  <1>8. TaskOK(m, t, asked') BY <1>1, <1>5, <1>7 DEF TaskOK
  <1>9. ~Busy(t) /\ ~Busy(task[m]) BY <1>1, <1>5 DEF Busy, o
  <1>10. metrics' = [metrics EXCEPT !.pending = @ + 0 - 0]
    <2>1. metrics.pending \in Nat /\ metrics = [pending |-> metrics.pending]
      BY DgramAssumption, FS_Subset, FS_CardinalityType DEF IInv, Sending
    <2> QED BY <1>1, <2>1, SMT
  <1> QED BY <1>1, <1>3, <1>6, <1>8, <1>9, <1>10, OneTask

(* The service is called.                                                  *)
LEMMA Calls ==
    ASSUME IInv, NEW m \in Msg, NEW yields \in Asked(task[m].req), NEW target \in Targets(task[m].req),
           Call(m, yields, target)
    PROVE  IInv'
  <1> DEFINE o == task[m]
             made == Tsig(o.req, listener.size, target, yields)
             t == [pc |-> "stream", req |-> o.req, hint |-> listener.size, items |-> made,
                   next |-> o.next]
  <1>1. /\ o.pc = "spawned" /\ ~o.req.qr /\ UNCHANGED <<command, listener, metrics>>
        /\ asked' = IF ReachesService(o.req) THEN asked \cup {m} ELSE asked
    BY DEF Call
  <1>2. TaskShape(o) /\ TaskOK(m, o, asked) /\ task = [k \in Msg |-> task[k]] BY DEF IInv
  <1>3. task' = [task EXCEPT ![m] = t]
    <2>1. task' = [task EXCEPT ![m].pc = "stream", ![m].hint = listener.size, ![m].items = made]
      BY DEF Call
    <2> HIDE DEF made
    <2> DEFINE size == listener.size
    <2> HIDE DEF o, size
    <2>2. [o EXCEPT !.pc = "stream", !.hint = size, !.items = made]
            = [pc |-> "stream", req |-> o.req, hint |-> size, items |-> made, next |-> o.next]
      <3>1. \A p, h, y : [o EXCEPT !.pc = p, !.hint = h, !.items = y]
              = [pc |-> p, req |-> o.req, hint |-> h, items |-> y, next |-> o.next]
        BY <1>2, Replaced
      <3> QED BY <3>1, Zenon
    <2>3. task' = [task EXCEPT ![m] = [o EXCEPT !.pc = "stream", !.hint = size, !.items = made]]
      BY <1>2, <2>1 DEF o, size
    <2> QED BY <2>2, <2>3 DEF size
  <1>4. listener.size \in Nat BY DgramAssumption DEF IInv
  <1>5. yields \in Asked(o.req) /\ target \in Targets(o.req) OBVIOUS
  <1>6. /\ made = Tsig(o.req, listener.size, target, yields)
        /\ t.pc = "stream" /\ t.req = o.req /\ t.hint = listener.size /\ t.items = made
        /\ t.next = o.next
    OBVIOUS
  <1>7. TaskShape(t) BY DEF TaskShape
  <1>8. o.req \in Requests[m] /\ m \notin asked BY <1>1, <1>2 DEF TaskOK
  <1> HIDE DEF t, o, made
  <1>9. Called(t) BY <1>5, <1>6 DEF Called
  <1>10. m \in asked' <=> ReachesService(t.req) BY <1>1, <1>6, <1>8
  <1>11. TaskOK(m, t, asked') BY <1>1, <1>4, <1>6, <1>8, <1>9, <1>10 DEF TaskOK
  <1>12. ~Busy(t) /\ ~Busy(task[m]) BY <1>1, <1>6 DEF Busy, o
  <1>13. metrics' = [metrics EXCEPT !.pending = @ + 0 - 0]
    <2>1. metrics.pending \in Nat /\ metrics = [pending |-> metrics.pending]
      BY DgramAssumption, FS_Subset, FS_CardinalityType DEF IInv, Sending
    <2> QED BY <1>1, <2>1, SMT
  <1> QED BY <1>1, <1>3, <1>7, <1>11, <1>12, <1>13, OneTask

(* A task that called moves on through its items.                          *)
LEMMA Moves ==
    ASSUME IInv, NEW m \in Msg, task[m].pc \in {"stream", "sending"},
           NEW p \in {"stream", "sending", "done"}, NEW n,
           task' = [task EXCEPT ![m] = [pc |-> p, req |-> task[m].req, hint |-> task[m].hint,
                                        items |-> task[m].items, next |-> n]],
           metrics' = [metrics EXCEPT !.pending =
                         @ + (IF p = "sending" /\ task[m].req.udp THEN 1 ELSE 0)
                           - (IF task[m].pc = "sending" /\ task[m].req.udp THEN 1 ELSE 0)],
           UNCHANGED <<command, listener, asked>>
    PROVE  IInv'
  <1> DEFINE o == task[m]
             t == [pc |-> p, req |-> o.req, hint |-> o.hint, items |-> o.items, next |-> n]
  <1>1. TaskShape(o) /\ TaskOK(m, o, asked) BY DEF IInv
  <1>2. /\ t.pc = p /\ t.req = o.req /\ t.hint = o.hint /\ t.items = o.items /\ t.next = n
    OBVIOUS
  <1>3. TaskShape(t) BY DEF TaskShape
  <1>4. o.pc \in {"stream", "sending"} /\ task' = [task EXCEPT ![m] = t] OBVIOUS
  <1>5. (Busy(t) <=> p = "sending" /\ o.req.udp) /\ (Busy(o) <=> o.pc = "sending" /\ o.req.udp)
    BY <1>2 DEF Busy
  <1>6. metrics' = [metrics EXCEPT !.pending = @ + (IF Busy(t) THEN 1 ELSE 0)
                                                 - (IF Busy(task[m]) THEN 1 ELSE 0)]
    BY <1>5
  <1> HIDE DEF t, o
  <1>7. o.req \in Requests[m] /\ o.hint \in Nat /\ ~o.req.qr /\ Called(o)
        /\ (m \in asked <=> ReachesService(o.req))
    BY <1>1, <1>4 DEF TaskOK
  <1>8. Called(t) BY <1>2, <1>7 DEF Called
  <1>9. TaskOK(m, t, asked') BY <1>2, <1>7, <1>8 DEF TaskOK
  <1> QED BY <1>3, <1>4, <1>6, <1>9, OneTask

(* The stream yields its next item.                                        *)
LEMMA Polls ==
    ASSUME IInv, NEW m \in Msg, Poll(m)
    PROVE  IInv'
  <1> DEFINE o == task[m]
  <1>1. o.pc = "stream" /\ UNCHANGED <<command, listener, asked>> BY DEF Poll
  <1>2. TaskShape(o) /\ task = [k \in Msg |-> task[k]] BY DEF IInv
  <1>3. metrics.pending \in Nat /\ metrics = [pending |-> metrics.pending]
    BY DgramAssumption, FS_Subset, FS_CardinalityType DEF IInv, Sending
  <1>4. metrics = [metrics EXCEPT !.pending = @ + 0 - 0] BY <1>3, SMT
  <1>5. \/ task' = [task EXCEPT ![m].pc = "done"] /\ UNCHANGED metrics
        \/ task' = [task EXCEPT ![m].pc = "sending"] /\ metrics' = Started(m)
        \/ task' = [task EXCEPT ![m].next = @ + 1] /\ UNCHANGED metrics
    BY DEF Poll
  <1>6. ASSUME NEW p \in {"done", "sending"}, task' = [task EXCEPT ![m].pc = p]
        PROVE  task' = [task EXCEPT ![m] = [pc |-> p, req |-> o.req, hint |-> o.hint,
                                            items |-> o.items, next |-> o.next]]
    <2>1. [o EXCEPT !.pc = p] = [pc |-> p, req |-> o.req, hint |-> o.hint,
                                 items |-> o.items, next |-> o.next]
      BY <1>2, SMT DEF TaskShape
    <2> QED BY <1>2, <1>6, <2>1
  <1>7. CASE task' = [task EXCEPT ![m].pc = "done"] /\ UNCHANGED metrics
    BY <1>1, <1>4, <1>6, <1>7, Moves
  <1>8. CASE task' = [task EXCEPT ![m].pc = "sending"] /\ metrics' = Started(m)
    <2>1. metrics' = [metrics EXCEPT !.pending = @ + (IF o.req.udp THEN 1 ELSE 0) - 0]
      BY <1>3, <1>8, SMT DEF Started
    <2> QED BY <1>1, <1>6, <1>8, <2>1, Moves
  <1>9. CASE task' = [task EXCEPT ![m].next = @ + 1] /\ UNCHANGED metrics
    <2> DEFINE n == o.next + 1
    <2>1. [o EXCEPT !.next = n] = [pc |-> o.pc, req |-> o.req, hint |-> o.hint,
                                   items |-> o.items, next |-> n]
      BY <1>2, SMT DEF TaskShape
    <2>2. task' = [task EXCEPT ![m] = [pc |-> "stream", req |-> o.req, hint |-> o.hint,
                                       items |-> o.items, next |-> n]]
      BY <1>1, <1>2, <1>9, <2>1
    <2> HIDE DEF n
    <2> QED BY <1>1, <1>4, <1>9, <2>2, Moves
  <1> QED BY <1>5, <1>7, <1>8, <1>9

(* A send ends, however it does.                                           *)
LEMMA Sends ==
    ASSUME IInv, NEW m \in Msg, NEW ok \in BOOLEAN, Send(m, ok)
    PROVE  IInv'
  <1> DEFINE o == task[m]
             n == o.next + 1
  <1>1. o.pc = "sending" /\ UNCHANGED <<command, listener, asked>> BY DEF Send
  <1>2. TaskShape(o) /\ task = [k \in Msg |-> task[k]] BY DEF IInv
  <1>3. metrics.pending \in Nat /\ metrics = [pending |-> metrics.pending]
    BY DgramAssumption, FS_Subset, FS_CardinalityType DEF IInv, Sending
  <1>4. metrics' = [metrics EXCEPT !.pending = @ + 0 - (IF o.req.udp THEN 1 ELSE 0)]
    BY <1>3, SMT DEF Send, Sent
  <1>5. task' = [task EXCEPT ![m] = [o EXCEPT !.pc = "stream", !.next = n]] BY <1>2 DEF Send
  <1> HIDE DEF o, n
  <1>6. [o EXCEPT !.pc = "stream", !.next = n]
          = [pc |-> "stream", req |-> o.req, hint |-> o.hint, items |-> o.items, next |-> n]
    <2>1. \A p, k : [o EXCEPT !.pc = p, !.next = k]
            = [pc |-> p, req |-> o.req, hint |-> o.hint, items |-> o.items, next |-> k]
      BY <1>2, Replaced
    <2> QED BY <2>1, Zenon
  <1>7. task' = [task EXCEPT ![m] = [pc |-> "stream", req |-> o.req, hint |-> o.hint,
                                     items |-> o.items, next |-> n]]
    BY <1>5, <1>6
  <1> QED BY <1>1, <1>4, <1>7, Moves DEF o

-----------------------------------------------------------------------------
(* The theorems                                                            *)

(* Every step keeps the invariant.                                         *)
LEMMA StepOK == IInv /\ [Next]_vars => IInv'
  <1> SUFFICES ASSUME IInv, [Next]_vars PROVE IInv' OBVIOUS
  <1>1. CASE \/ \E s \in Sizes : Reconfigure(s)
             \/ Shutdown \/ process_server_command \/ ReceiveNothing \/ ReceiveFails
    BY <1>1, ListenerSteps
  <1>2. CASE \E m \in Msg : \E req \in Requests[m] : Receive(m, req) \/ ReceiveStream(m, req)
    BY <1>2, Receives
  <1>3. CASE \E m \in Msg : TaskStep(m)
    <2>1. PICK m \in Msg : TaskStep(m) BY <1>3
    <2>2. CASE Ignore(m) BY <2>2, Ignores
    <2>3. CASE \E yields \in Asked(task[m].req), target \in Targets(task[m].req) :
                 Call(m, yields, target)
      BY <2>3, Calls
    <2>4. CASE Poll(m) BY <2>4, Polls
    <2>5. CASE \E ok \in BOOLEAN : Send(m, ok) BY <2>5, Sends
    <2> QED BY <2>1, <2>2, <2>3, <2>4, <2>5 DEF TaskStep
  <1>4. CASE UNCHANGED vars
    <2>1. UNCHANGED <<command, listener, task, metrics, asked>> BY <1>4 DEF vars
    <2> QED BY <2>1, NoTask DEF IInv
  <1> QED BY <1>1, <1>2, <1>3, <1>4 DEF Next

(* In every reachable state a task that called the service holds what the  *)
(* whole middleware stack made of its request under one limit, and the     *)
(* counter of pending writes counts the responses on their way.            *)
THEOREM DgramInvariant == Spec => []IInv
  <1>1. Init => IInv BY InitOK
  <1>2. IInv /\ [Next]_vars => IInv' BY StepOK
  <1> QED BY <1>1, <1>2, PTL DEF Spec

(* The types of the server's state, the bound on pending writes included.  *)
THEOREM DgramTypeCorrect == Spec => []TypeOK
  <1>1. IInv => TypeOK
    <2> SUFFICES ASSUME IInv PROVE TypeOK OBVIOUS
    <2>1. /\ command.kind \in {"init", "reconfigure", "shutdown"}
          /\ listener.pc \in {"command", "read", "stopped"} /\ listener.size \in Sizes
          /\ asked \subseteq Msg
      BY DEF IInv
    <2>2. \A m \in Msg : task[m].pc \in {"unsent", "spawned", "stream", "sending", "done"}
      BY DEF IInv, TaskOK
    <2>3. Sending(task) \subseteq Msg /\ metrics.pending = Cardinality(Sending(task))
      BY DEF IInv, Sending
    <2>4. metrics.pending \in 0 .. Cardinality(Msg)
      BY <2>3, DgramAssumption, FS_Subset, FS_CardinalityType, SMT
    <2> QED BY <2>1, <2>2, <2>4 DEF TypeOK
  <1> QED BY <1>1, DgramInvariant, PTL

(* is_shutdown is true exactly while no response to a datagram is being    *)
(* sent, whatever became of the sends before.                              *)
THEOREM ShutdownMeansSent ==
    Spec => [](is_shutdown <=> \A m \in Msg : ~(task[m].pc = "sending" /\ task[m].req.udp))
  <1>1. IInv => (is_shutdown <=> \A m \in Msg : ~(task[m].pc = "sending" /\ task[m].req.udp))
    <2> SUFFICES ASSUME IInv
                 PROVE  is_shutdown <=> \A m \in Msg : ~(task[m].pc = "sending" /\ task[m].req.udp)
      OBVIOUS
    <2>1. metrics.pending = Cardinality(Sending(task)) BY DEF IInv
    <2>2. IsFiniteSet(Sending(task)) BY DgramAssumption, FS_Subset DEF Sending
    <2>3. Cardinality(Sending(task)) = 0 <=> Sending(task) = {} BY <2>2, FS_EmptySet
    <2>4. Sending(task) = {} <=> \A m \in Msg : ~(task[m].pc = "sending" /\ task[m].req.udp)
      BY DEF Sending, Busy
    <2> QED BY <2>1, <2>3, <2>4 DEF is_shutdown
  <1> QED BY <1>1, DgramInvariant, PTL

(* Where a response of a task comes from.                                  *)
LEMMA Provenance ==
    ASSUME IInv, NEW m \in Msg, NEW r \in ResponsesTo(m)
    PROVE  /\ task[m].req \in RequestType /\ task[m].req \in Requests[m] /\ task[m].hint \in Nat
           /\ \E yields \in Asked(task[m].req), target \in Targets(task[m].req) :
                /\ yields \in Seq(ItemType)
                /\ \E i \in DOMAIN Tsig(task[m].req, task[m].hint, target, yields) :
                     /\ Tsig(task[m].req, task[m].hint, target, yields)[i].some
                     /\ Tsig(task[m].req, task[m].hint, target, yields)[i].resp = r
  <1> DEFINE t == task[m]
  <1>1. TaskOK(m, t, asked) BY DEF IInv
  <1>2. PICK i \in DOMAIN t.items : t.items[i].some /\ t.items[i].resp = r BY DEF ResponsesTo
  <1>3. t.items # <<>> BY <1>2, SMT
  <1> HIDE DEF t
  <1>4. Called(t) /\ t.req \in Requests[m] /\ t.hint \in Nat BY <1>1, <1>3 DEF TaskOK
  <1>5. t.req \in RequestType /\ Asked(t.req) \subseteq Seq(ItemType) BY <1>4, AskedType
  <1>6. PICK yields \in Asked(t.req), target \in Targets(t.req) :
          t.items = Tsig(t.req, t.hint, target, yields)
    BY <1>4 DEF Called
  <1>7. yields \in Seq(ItemType) BY <1>5
  <1>8. /\ i \in DOMAIN Tsig(t.req, t.hint, target, yields)
        /\ Tsig(t.req, t.hint, target, yields)[i].some
        /\ Tsig(t.req, t.hint, target, yields)[i].resp = r
    BY <1>2, <1>6
  <1> QED BY <1>4, <1>5, <1>7, <1>8 DEF t

(* Whichever layer made the response, it has the request's ID and QR set.  *)
THEOREM AlwaysMatch == Spec => []AnswersMatch
  <1>1. IInv => AnswersMatch
    <2> SUFFICES ASSUME IInv, NEW m \in Msg, NEW r \in ResponsesTo(m)
                 PROVE  r.id = task[m].req.id /\ r.qr
      BY DEF AnswersMatch
    <2> DEFINE req == task[m].req
               hint == task[m].hint
    <2>1. /\ req \in RequestType /\ hint \in Nat
          /\ \E yields \in Asked(req), target \in Targets(req) :
               /\ yields \in Seq(ItemType)
               /\ \E i \in DOMAIN Tsig(req, hint, target, yields) :
                    /\ Tsig(req, hint, target, yields)[i].some
                    /\ Tsig(req, hint, target, yields)[i].resp = r
      BY Provenance
    <2> HIDE DEF req, hint
    <2>2. r.id = req.id /\ r.qr = TRUE
      <3>1. PICK yields \in Asked(req), target \in Targets(req) :
               /\ yields \in Seq(ItemType)
               /\ \E i \in DOMAIN Tsig(req, hint, target, yields) :
                    /\ Tsig(req, hint, target, yields)[i].some
                    /\ Tsig(req, hint, target, yields)[i].resp = r
        BY <2>1
      <3>2. PICK i \in DOMAIN Tsig(req, hint, target, yields) :
               /\ Tsig(req, hint, target, yields)[i].some
               /\ Tsig(req, hint, target, yields)[i].resp = r
        BY <3>1
      <3>3. /\ Tsig(req, hint, target, yields)[i].resp.id = req.id
            /\ Tsig(req, hint, target, yields)[i].resp.qr = TRUE
        BY <2>1, <3>1, <3>2, MatchesRequest
      <3> QED BY <3>2, <3>3
    <2> QED BY <2>2 DEF req
  <1> QED BY <1>1, DgramInvariant, PTL

(* An unsigned response over UDP is no longer than what client and server  *)
(* agreed on, or cut and marked so, for every request whose questions fit  *)
(* the shortest limit and whatever the service yields.                     *)
THEOREM AlwaysFit == ASSUME QuestionsFit PROVE Spec => []AnswersFit
  <1>1. IInv => AnswersFit
    <2> SUFFICES ASSUME IInv, NEW m \in Msg, NEW r \in ResponsesTo(m),
                        task[m].req.udp, task[m].req.sig = "none"
                 PROVE  Length(r) <= Agreed(task[m].req, task[m].hint) \/ (r.tc /\ r.body = 0)
      BY DEF AnswersFit, Agreed
    <2> DEFINE req == task[m].req
               hint == task[m].hint
    <2>1. /\ req \in RequestType /\ req \in Requests[m] /\ hint \in Nat
          /\ \E yields \in Asked(req), target \in Targets(req) :
               /\ yields \in Seq(ItemType)
               /\ \E i \in DOMAIN Tsig(req, hint, target, yields) :
                    /\ Tsig(req, hint, target, yields)[i].some
                    /\ Tsig(req, hint, target, yields)[i].resp = r
      BY Provenance
    <2>2. req.udp /\ req.sig = "none" OBVIOUS
    <2> HIDE DEF req, hint
    <2>3. HeaderLen + QuestionLen * req.qd + OptLen <= MinimumLen BY <2>1 DEF QuestionsFit
    <2>4. Length(r) <= Agreed(req, hint) \/ (r.tc /\ r.body = 0)
      BY <2>1, <2>2, <2>3, FitsAgreed, SMT
    <2> QED BY <2>4 DEF req, hint
  <1> QED BY <1>1, DgramInvariant, PTL

(* A response that comes through the EDNS layer has an OPT record exactly  *)
(* when the request had one, for every service that leaves room for it.    *)
THEOREM OptOnlyForOpt == ASSUME RoomForOpt PROVE Spec => []OptAnswersOpt
  <1>1. IInv => OptAnswersOpt
    <2> SUFFICES ASSUME IInv, NEW m \in Msg, NEW r \in ResponsesTo(m),
                        task[m].req.opcode = "query", task[m].req.qd < 2,
                        task[m].req.opt # "bad", task[m].req.sig = "none"
                 PROVE  r.opt <=> task[m].req.opt # "none"
      BY DEF OptAnswersOpt
    <2> DEFINE req == task[m].req
               hint == task[m].hint
    <2>1. /\ req \in RequestType /\ req \in Requests[m] /\ hint \in Nat
          /\ \E yields \in Asked(req), target \in Targets(req) :
               /\ yields \in Seq(ItemType)
               /\ \E i \in DOMAIN Tsig(req, hint, target, yields) :
                    /\ Tsig(req, hint, target, yields)[i].some
                    /\ Tsig(req, hint, target, yields)[i].resp = r
      BY Provenance
    <2>2. req.opcode = "query" /\ req.qd < 2 /\ req.opt # "bad" /\ req.sig = "none" OBVIOUS
    <2> HIDE DEF req, hint
    <2>3. \A yields \in Asked(req) : \A i \in DOMAIN yields :
            yields[i].some => Roomy(yields[i].resp)
      BY <2>1 DEF RoomForOpt
    <2>4. r.opt = (req.opt # "none") BY <2>1, <2>2, <2>3, OptForOpt, SMT
    <2> QED BY <2>4 DEF req
  <1> QED BY <1>1, DgramInvariant, PTL

(* A denied client reaches the service only with a server cookie of ours   *)
(* from the last hour or at most five minutes ahead, and always with one,  *)
(* for every width of the timestamps and every time of the clock.          *)
THEOREM OnlyFreshCookies == Spec => []DeniedNeedFreshCookie
  <1>1. IInv => DeniedNeedFreshCookie
    <2> SUFFICES ASSUME IInv, NEW m \in Msg,
                        task[m].pc \notin {"unsent", "spawned"}, ~task[m].req.qr,
                        task[m].req.udp, task[m].req.denied, task[m].req.opcode = "query",
                        task[m].req.qd = 1, task[m].req.sig # "bad"
                 PROVE  m \in asked <=>
                          /\ task[m].req.opt = "one" /\ task[m].req.version = 0
                          /\ task[m].req.cookie = "server"
                          /\ \/ task[m].req.age \in 0 .. OneHour
                             \/ SerialMod - task[m].req.age \in 1 .. FiveMinutes
      BY DEF DeniedNeedFreshCookie
    <2>1. TaskOK(m, task[m], asked) BY DEF IInv
    <2>2. task[m].req \in Requests[m] /\ (m \in asked <=> ReachesService(task[m].req))
      BY <2>1 DEF TaskOK
    <2>3. task[m].req \in RequestType BY <2>2, AskedType
    <2> QED BY <2>2, <2>3, DeniedReaches
  <1> QED BY <1>1, DgramInvariant, PTL

(* Every response to a correctly signed request is signed, for every       *)
(* service that announces its transactions.                                *)
THEOREM AllAnswersSigned == ASSUME Transactional PROVE Spec => []SignedGetSigned
  <1>1. IInv => SignedGetSigned
    <2> SUFFICES ASSUME IInv, NEW m \in Msg, task[m].req.sig = "good",
                        NEW r \in ResponsesTo(m)
                 PROVE  r.signed
      BY DEF SignedGetSigned
    <2> DEFINE req == task[m].req
               hint == task[m].hint
    <2>1. /\ req \in RequestType /\ req \in Requests[m] /\ hint \in Nat
          /\ \E yields \in Asked(req), target \in Targets(req) :
               /\ yields \in Seq(ItemType)
               /\ \E i \in DOMAIN Tsig(req, hint, target, yields) :
                    /\ Tsig(req, hint, target, yields)[i].some
                    /\ Tsig(req, hint, target, yields)[i].resp = r
      BY Provenance
    <2>2. req.sig = "good" OBVIOUS
    <2> HIDE DEF req, hint
    <2>3. \A yields \in Asked(req) : Conforms(yields) BY <2>1 DEF Transactional
    <2>4. r.signed = TRUE BY <2>1, <2>2, <2>3, SignedForSigned
    <2> QED BY <2>4
  <1> QED BY <1>1, DgramInvariant, PTL
=============================================================================
