----------------------------- MODULE TsigProofs -----------------------------
(***************************************************************************)
(* Signed answers, for any number of answers, any times and keys, however  *)
(* answers are lost, repeated or reordered.                                *)
(*                                                                         *)
(* The argument: the answers of a server form a chain.  The tag of each    *)
(* signed answer starts with the MAC of the signed answer before it, goes  *)
(* on with the answers in between and ends with its own body and time.  A  *)
(* client that has found no fault holds the MAC of an answer p and what it *)
(* took since (Accepting), so a signed answer whose tag verifies can only  *)
(* be the next signed one of the chain, and what was taken since p is what *)
(* the server sent in between.  If nothing is lost or reordered and the    *)
(* server signs with whole MACs, the contexts of both ends stay the same,  *)
(* so the checks fail only for the reasons in Faulty.                      *)
(***************************************************************************)
EXTENDS TsigExchange, SequenceTheorems, TLAPS

\* Contexts and tags are sequences of messages, variables and MACs, which hold tags:
\* they have no type but that of a sequence.
IsSeq(s) == Len(s) \in Nat /\ s = [i \in 1 .. Len(s) |-> s[i]]

\* The length of the MAC the context of the next answer starts with.
ContextLen == IF setting.who[2] = "sequence" THEN NativeLen ELSE setting.skey.sign

\* Answer q is signed, those after it and before n are not.
LastSigned(q, n) ==
    /\ q \in 1 .. n - 1 /\ sent[q].tsig.some = TRUE
    /\ \A j \in q + 1 .. n - 1 : sent[j].tsig.some = FALSE

\* A context that starts with the MAC of answer q and goes on up to answer n - 1.
Chained(ctx, q, n) ==
    /\ Len(ctx) >= n - q
    /\ ctx[1] = Mac(sent[q].tsig.mac.tag, ContextLen)
    /\ \A j \in 1 .. n - 1 - q : ctx[1 + j] = AnswerBody(q + j)

\* The TSIG record of answer i, signed at time t with tag g.
SignedAs(i, t, g) ==
    /\ sent[i].tsig = TsigRecord(t, "NOERROR", 0, Mac(g, setting.skey.sign))
    /\ IsSeq(g)
    /\ Len(g) >= 2
    /\ g[Len(g) - 1] = AnswerBody(i)
    /\ IF i = 1
       THEN Len(g) = 3 /\ g[1] = request.mac /\ g[3] = Full(t, "NOERROR", 0)
       ELSE /\ g[Len(g)] = Timers(t)
            /\ \E q \in 1 .. i - 1 : /\ LastSigned(q, i)
                                     /\ Len(g) = i - q + 2
                                     /\ Chained(g, q, i)

AnswerSigned(i) == SignedAs(i, sent[i].tsig.time, sent[i].tsig.mac.tag)

\* Answer i.
AnswerOK(i) ==
    /\ sent[i].body = AnswerBody(i)
    /\ \/ sent[i].tsig.some = TRUE /\ AnswerSigned(i)
       \/ /\ i # 1 /\ sent[i].tsig = NoTsig
          /\ \E q \in 1 .. i - 1 : LastSigned(q, i) /\ i - q <= MaxUnsigned

\* The one message of a server that refuses the request.
Refused ==
    /\ Len(sent) = 1
    /\ sent[1].body = ErrorBody
    /\ sent[1].tsig.some = TRUE
    /\ \/ /\ sent[1].tsig.mac = Mac(<< >>, 0)
          /\ \/ sent[1].tsig.error = "BADKEY" /\ setting.known = FALSE
             \/ sent[1].tsig.error = "BADTRUNC" /\ setting.ckey.sign < setting.skey.min
       \/ LET s == sent[1].tsig
          IN  /\ s.error = "BADTIME"
              /\ ~ is_valid_at(request.time, s.other)
              /\ s.mac.len = setting.skey.sign
              /\ IsSeq(s.mac.tag) /\ Len(s.mac.tag) = 3
              /\ s.mac.tag[1] = request.mac
              /\ s.mac.tag[2] = ErrorBody
              /\ s.mac.tag[3] = Full(s.time, s.error, s.other)

\* The server signs an answer after the ones it sent.
Signing ==
    LET n == Len(sent) + 1
    IN  /\ IsSeq(server.ctx)
        /\ IF server.first
           THEN n = 1 /\ Len(server.ctx) = 1 /\ server.ctx[1] = request.mac /\ server.gap = 0
           ELSE \E q \in 1 .. n - 1 : /\ LastSigned(q, n)
                                      /\ Len(server.ctx) = n - q
                                      /\ Chained(server.ctx, q, n)
                                      /\ server.gap = n - 1 - q

ServerOK ==
    /\ server \in [st : {"idle", "signing", "ended"}, ctx : {server.ctx}, first : BOOLEAN, gap : Nat]
    /\ IsSeq(sent)
    /\ server.st = "idle" => sent = << >> /\ server.first = TRUE /\ server.gap = 0
    /\ server.st # "idle" => request.some = TRUE
    /\ server.st = "signing" => Signing
    /\ server.st = "ended" => \/ Refused
                              \/ /\ Len(sent) \in Nat \ {0} /\ sent[Len(sent)].tsig.some = TRUE
                                 /\ \A i \in 1 .. Len(sent) : AnswerOK(i)
    /\ server.st = "signing" => \A i \in 1 .. Len(sent) : AnswerOK(i)
    /\ setting.who[2] # "sparse" => server.gap = 0
    /\ setting.who[2] = "transaction" => Len(sent) <= 1
    /\ setting.who[2] = "transaction" /\ server.st = "signing" => sent = << >>

RequestOK ==
    /\ setting \in Settings
    /\ client.st = "Init" => request = NoTsig /\ server.st = "idle"
    /\ client.st # "Init" =>
          request = TsigRecord(request.time, "NOERROR", 0,
                               Mac(<<RequestBody, Full(request.time, "NOERROR", 0)>>, setting.ckey.sign))

\* The client has found no fault: what it accepted up to the last signed answer is
\* the answers in order, and its context tells which ones came after it.
Accepting ==
    LET n == Len(client.accepted)
        p == n - client.unsigned
    IN  /\ IsSeq(client.ctx)
        /\ client.unsigned <= n
        /\ \A j \in 1 .. p : client.accepted[j] = j
        /\ \A j \in 1 .. n : client.accepted[j] \in 1 .. Len(sent)
        /\ n > 0 => ~ Refused
        /\ IF client.first
           THEN n = 0 /\ Len(client.ctx) = 1 /\ client.ctx[1] = request.mac
           ELSE /\ p > 0
                /\ sent[p].tsig.some = TRUE
                /\ Len(client.ctx) = 1 + client.unsigned
                /\ client.ctx[1] = sent[p].tsig.mac
                /\ \A j \in 1 .. client.unsigned :
                      /\ client.ctx[1 + j] = sent[client.accepted[p + j]].body
                      /\ sent[client.accepted[p + j]].tsig = NoTsig
        /\ setting.who[1] = "transaction" => client.first = TRUE
        /\ setting.ordered => /\ n = client.received
                              /\ \A j \in 1 .. n : client.accepted[j] = j

ClientOK ==
    /\ client \in [st : {"Init", "GetResponse", "Complete", "failed"}, ctx : {client.ctx},
                   first : BOOLEAN, unsigned : Nat, accepted : Seq(Nat), error : {client.error},
                   received : Nat]
    /\ client.st = "Init" => client.accepted = << >> /\ client.error = NoError /\ client.first = TRUE
                             /\ client.unsigned = 0 /\ client.received = 0
    /\ client.error = NoError /\ client.st = "GetResponse" => Accepting
    /\ client.st = "failed" => client.error # NoError

\* The inductive invariant.
TSInv == RequestOK /\ ServerOK /\ ClientOK /\ AcceptedIsPrefix

\* Leaves with arithmetic name SMT.
USE Zenon

-----------------------------------------------------------------------------

\* Such a sequence is one over some set.
LEMMA SeqOver ==
    ASSUME NEW s, IsSeq(s) PROVE s \in Seq({s[i] : i \in 1 .. Len(s)})
<1> DEFINE S == {s[i] : i \in 1 .. Len(s)}
<1>1. s \in [1 .. Len(s) -> S]
  BY DEF IsSeq
<1> HIDE DEF S
<1>2. s \in Seq(S)
  BY <1>1, SeqDef DEF IsSeq
<1> QED BY <1>2 DEF S

\* And a sequence over a set is such a sequence.
LEMMA OverSeq ==
    ASSUME NEW S, NEW s \in Seq(S) PROVE IsSeq(s)
  BY LenProperties DEF IsSeq

\* A message and variables fed into a context.
Fed(ctx, b, x, d) ==
    /\ IsSeq(d)
    /\ Len(ctx) \in Nat /\ Len(d) = Len(ctx) + 2
    /\ \A j \in 1 .. Len(ctx) : d[j] = ctx[j]
    /\ d[Len(ctx) + 1] = b
    /\ d[Len(ctx) + 2] = x

\* The tag is the context, the message and the variables.
LEMMA DigestIs ==
    ASSUME NEW ctx, IsSeq(ctx), NEW b, NEW x, NEW d, d = ctx \o <<b, x>>
    PROVE  Fed(ctx, b, x, d)
<1> DEFINE S == {ctx[i] : i \in 1 .. Len(ctx)} \cup {b, x}
<1>0. Len(ctx) \in Nat
  BY DEF IsSeq
<1>1. ctx \in Seq(S)
  <2>1. ctx \in [1 .. Len(ctx) -> S]
    BY DEF IsSeq
  <2> HIDE DEF S
  <2> QED BY <1>0, <2>1, SeqDef
<1>2. <<b, x>> \in Seq(S) /\ Len(<<b, x>>) = 2 /\ <<b, x>>[1] = b /\ <<b, x>>[2] = x
  BY SMT
<1> HIDE DEF S
<1>3. PICK e : e = <<b, x>>
  OBVIOUS
<1>4. /\ d \in Seq(S) /\ Len(d) = Len(ctx) + 2
      /\ \A i \in 1 .. Len(ctx) + 2 :
            d[i] = IF i <= Len(ctx) THEN ctx[i] ELSE e[i - Len(ctx)]
  <2>1. e \in Seq(S) /\ Len(e) = 2 /\ d = ctx \o e
    BY <1>2, <1>3
  <2>2. /\ ctx \o e \in Seq(S) /\ Len(ctx \o e) = Len(ctx) + Len(e)
        /\ \A i \in 1 .. Len(ctx) + Len(e) :
              (ctx \o e)[i] = IF i <= Len(ctx) THEN ctx[i] ELSE e[i - Len(ctx)]
    BY ONLY <1>1, <2>1, ConcatProperties, Zenon
  <2> QED BY ONLY <2>1, <2>2
<1>5. IsSeq(d)
  BY <1>4, OverSeq
<1>6. \A j \in 1 .. Len(ctx) : d[j] = ctx[j]
  BY <1>0, <1>4, SMT
<1>7. d[Len(ctx) + 1] = e[1] /\ d[Len(ctx) + 2] = e[2]
  <2>1. ASSUME NEW n \in Nat, n = Len(ctx) PROVE d[n + 1] = e[1] /\ d[n + 2] = e[2]
    <3>1. n + 1 \in 1 .. n + 2 /\ n + 2 \in 1 .. n + 2 /\ ~ (n + 1 <= n) /\ ~ (n + 2 <= n)
          /\ n + 1 - n = 1 /\ n + 2 - n = 2
      BY <2>1, SMT
    <3> QED BY <1>4, <2>1, <3>1, SMT
  <2> QED BY <1>0, <2>1
<1> QED BY <1>0, <1>2, <1>3, <1>4, <1>5, <1>6, <1>7 DEF Fed

\* Something put at the end of a sequence.
Grown(s, x, t) ==
    /\ IsSeq(t)
    /\ Len(s) \in Nat /\ Len(t) = Len(s) + 1
    /\ \A j \in 1 .. Len(s) : t[j] = s[j]
    /\ t[Len(s) + 1] = x

\* A context that takes one more element.
LEMMA AppendIs ==
    ASSUME NEW s, IsSeq(s), NEW x, NEW t, t = Append(s, x)
    PROVE  Grown(s, x, t)
<1> DEFINE S == {s[i] : i \in 1 .. Len(s)} \cup {x}
<1>0. Len(s) \in Nat
  BY DEF IsSeq
<1>1. s \in Seq(S) /\ x \in S
  <2>1. s \in [1 .. Len(s) -> S]
    BY DEF IsSeq
  <2> HIDE DEF S
  <2> QED BY <1>0, <2>1, SeqDef DEF S
<1> HIDE DEF S
<1>2. /\ t \in Seq(S) /\ Len(t) = Len(s) + 1
      /\ \A j \in 1 .. Len(s) : t[j] = s[j]
      /\ t[Len(s) + 1] = x
  BY <1>1, AppendProperties, SMT
<1> QED BY <1>0, <1>2, OverSeq DEF Grown

\* Sequences of one and of three.
LEMMA FewIs ==
    ASSUME NEW a, NEW b, NEW c
    PROVE  /\ IsSeq(<<a>>) /\ Len(<<a>>) = 1 /\ <<a>>[1] = a
           /\ IsSeq(<<a, b, c>>) /\ Len(<<a, b, c>>) = 3
           /\ <<a, b, c>>[1] = a /\ <<a, b, c>>[2] = b /\ <<a, b, c>>[3] = c
<1>1. <<a>> \in Seq({a}) /\ <<a, b, c>> \in Seq({a, b, c})
  BY SMT
<1>2. IsSeq(<<a>>) /\ IsSeq(<<a, b, c>>)
  BY <1>1, OverSeq
<1> QED BY <1>2

\* Sequences with the same items are the same.
LEMMA SameSeq ==
    ASSUME NEW s, IsSeq(s), NEW t, IsSeq(t), Len(s) = Len(t), \A i \in 1 .. Len(s) : s[i] = t[i]
    PROVE  s = t
  BY DEF IsSeq

-----------------------------------------------------------------------------
(* The server. *)

\* Answers are left alone.
Extends == /\ UNCHANGED <<setting, request>>
           /\ IsSeq(sent) /\ IsSeq(sent')
           /\ Len(sent) <= Len(sent')
           /\ \A j \in 1 .. Len(sent) : sent'[j] = sent[j]

\* What was said of answers stays true when more are sent.
LEMMA ChainKept ==
    ASSUME Extends, NEW n \in 1 .. Len(sent) + 1, NEW q \in 1 .. n - 1
    PROVE  /\ LastSigned(q, n)' <=> LastSigned(q, n)
           /\ \A ctx : Chained(ctx, q, n)' <=> Chained(ctx, q, n)
<1>1. Len(sent) \in Nat /\ ContextLen' = ContextLen
  BY DEF Extends, IsSeq, ContextLen
<1>2. q \in 1 .. Len(sent) /\ sent'[q] = sent[q]
  BY <1>1, SMT DEF Extends
<1>3. \A j \in q + 1 .. n - 1 : sent'[j] = sent[j]
  BY <1>1, SMT DEF Extends
<1>4. LastSigned(q, n)' <=> LastSigned(q, n)
  BY <1>2, <1>3 DEF LastSigned
<1>5. \A ctx : Chained(ctx, q, n)' <=> Chained(ctx, q, n)
  BY <1>1, <1>2 DEF Chained
<1> QED BY <1>4, <1>5

\* What was said of an answer stays true when more are sent.
LEMMA AnswerKept ==
    ASSUME Extends, NEW i \in 1 .. Len(sent), AnswerOK(i)
    PROVE  AnswerOK(i)'
<1>1. sent'[i] = sent[i] /\ setting' = setting /\ request' = request
  BY DEF Extends
<1>2. i \in 1 .. Len(sent) + 1
  BY SMT DEF Extends, IsSeq
<1>3. \A q \in 1 .. i - 1 : /\ LastSigned(q, i)' <=> LastSigned(q, i)
                            /\ \A ctx : Chained(ctx, q, i)' <=> Chained(ctx, q, i)
  BY <1>2, ChainKept
<1>4. AnswerSigned(i) => AnswerSigned(i)'
  <2>1. PICK t, g : t = sent[i].tsig.time /\ g = sent[i].tsig.mac.tag
    OBVIOUS
  <2>2. \A q \in 1 .. i - 1 : Chained(g, q, i)' <=> Chained(g, q, i)
    BY <1>3
  <2>3. SignedAs(i, t, g) => SignedAs(i, t, g)'
    BY <1>1, <1>3, <2>2 DEF SignedAs
  <2>4. AnswerSigned(i)' <=> SignedAs(i, t, g)'
    BY <1>1, <2>1 DEF AnswerSigned, SignedAs, Chained
  <2> QED BY <2>1, <2>3, <2>4 DEF AnswerSigned
<1> QED BY <1>1, <1>3, <1>4 DEF AnswerOK

\* One more answer.
LEMMA MoreAnswers ==
    ASSUME ServerOK, NEW m, sent' = Append(sent, m), UNCHANGED <<setting, request>>
    PROVE  /\ Extends
           /\ Len(sent) \in Nat /\ Len(sent') = Len(sent) + 1
           /\ sent'[Len(sent) + 1] = m
<1>1. IsSeq(sent)
  BY DEF ServerOK
<1>2. Grown(sent, m, sent')
  BY <1>1, AppendIs
<1>3. Len(sent) <= Len(sent')
  BY <1>2, SMT DEF Grown
<1> QED BY <1>1, <1>2, <1>3 DEF Extends, Grown

\* The next answer, signed.
LEMMA SignedAnswer ==
    ASSUME ServerOK, Signing, NEW n, n = Len(sent) + 1, NEW t,
           NEW tag, tag = Digest(server.ctx, server.first, AnswerBody(n), t, "NOERROR", 0),
           NEW m, m = Signed(AnswerBody(n), TsigRecord(t, "NOERROR", 0, Mac(tag, setting.skey.sign))),
           sent' = Append(sent, m), UNCHANGED <<setting, request>>
    PROVE  /\ AnswerOK(n)'
           /\ sent'[n].tsig.some = TRUE
           /\ server'.ctx = <<Mac(tag, ContextLen)>> /\ server'.first = FALSE /\ server'.gap = 0
                 => Signing'
<1>1. /\ Extends
      /\ Len(sent) \in Nat /\ Len(sent') = n
      /\ sent'[n] = m
  BY MoreAnswers
<1>2. n \in Nat /\ n \in 1 .. Len(sent) + 1 /\ n >= 1
  BY <1>1, SMT
<1>3. PICK c : c = server.ctx /\ IsSeq(c)
  BY DEF Signing
<1>4. PICK x : x = IF server.first THEN Full(t, "NOERROR", 0) ELSE Timers(t)
  OBVIOUS
<1>5. /\ IsSeq(tag)
      /\ Len(c) \in Nat /\ Len(tag) = Len(c) + 2
      /\ \A j \in 1 .. Len(c) : tag[j] = c[j]
      /\ tag[Len(c) + 1] = AnswerBody(n)
      /\ tag[Len(c) + 2] = x
  <2>1. tag = c \o <<AnswerBody(n), x>>
    BY <1>3, <1>4 DEF Digest
  <2>2. Fed(c, AnswerBody(n), x, tag)
    BY <1>3, <2>1, DigestIs
  <2> QED BY <2>2 DEF Fed
<1>6. /\ m.body = AnswerBody(n)
      /\ m.tsig = TsigRecord(t, "NOERROR", 0, Mac(tag, setting.skey.sign))
      /\ m.tsig.time = t /\ m.tsig.mac.tag = tag /\ m.tsig.some = TRUE
  BY DEF Signed, TsigRecord, Mac
<1>7. SignedAs(n, t, tag)'
  <2>1. CASE server.first
    <3>1. n = 1 /\ Len(c) = 1 /\ c[1] = request.mac
      BY <1>3, <2>1 DEF Signing
    <3>2. Len(tag) = 3 /\ tag[1] = request.mac /\ tag[2] = AnswerBody(1) /\ tag[3] = x
      BY <1>5, <3>1, SMT
    <3>3. Len(tag) - 1 = 2 /\ Len(tag) >= 2 /\ tag[Len(tag) - 1] = AnswerBody(n)
      <4>1. Len(tag) - 1 = 2 /\ Len(tag) >= 2
        BY <3>2, SMT
      <4>2. tag[2] = AnswerBody(n)
        BY ONLY <3>1, <3>2
      <4> QED BY <4>1, <4>2
    <3>4. x = Full(t, "NOERROR", 0)
      BY <1>4, <2>1
    <3>5. /\ sent'[n].tsig = TsigRecord(t, "NOERROR", 0, Mac(tag, setting'.skey.sign))
          /\ tag[1] = request'.mac /\ tag[3] = Full(t, "NOERROR", 0)
      BY <1>1, <1>6, <3>2, <3>4
    <3> QED BY <1>5, <3>1, <3>2, <3>3, <3>5 DEF SignedAs
  <2>2. CASE ~ server.first
    <3>1. PICK q \in 1 .. n - 1 : LastSigned(q, n) /\ Len(c) = n - q /\ Chained(c, q, n)
      BY <1>3, <2>2 DEF Signing
    <3>2. n # 1 /\ Len(tag) = n - q + 2 /\ Len(tag) >= 2 /\ Len(tag) - 1 = Len(c) + 1
      BY <1>2, <1>5, <3>1, SMT
    <3>3. Chained(tag, q, n)
      <4>1. 1 \in 1 .. Len(c) /\ \A j \in 1 .. n - 1 - q : 1 + j \in 1 .. Len(c)
        BY <1>2, <3>1, SMT
      <4>2. tag[1] = c[1] /\ \A j \in 1 .. n - 1 - q : tag[1 + j] = c[1 + j]
        BY <1>5, <4>1
      <4> QED BY <1>2, <3>1, <3>2, <4>2, SMT DEF Chained
    <3>4. LastSigned(q, n)' /\ Chained(tag, q, n)'
      BY <1>1, <1>2, <3>1, <3>3, ChainKept
    <3>5. tag[Len(tag)] = Timers(t) /\ tag[Len(tag) - 1] = AnswerBody(n)
      BY <1>4, <1>5, <2>2, <3>2
    <3> QED BY <1>1, <1>5, <1>6, <3>1, <3>2, <3>4, <3>5 DEF SignedAs
  <2> QED BY <2>1, <2>2
<1>8. AnswerOK(n)' /\ sent'[n].tsig.some = TRUE
  <2>1. AnswerSigned(n)'
    <3>1. sent'[n].tsig.time = t /\ sent'[n].tsig.mac.tag = tag
      BY <1>1, <1>6
    <3>2. AnswerSigned(n)' <=> SignedAs(n, t, tag)'
      BY <3>1, ZenonT(30) DEF AnswerSigned, SignedAs, Chained
    <3> QED BY <1>7, <3>2
  <2> QED BY <1>1, <1>6, <2>1 DEF AnswerOK
<1>9. ASSUME server'.ctx = <<Mac(tag, ContextLen)>>, server'.first = FALSE, server'.gap = 0
      PROVE  Signing'
  <2>1. IsSeq(server'.ctx) /\ Len(server'.ctx) = 1 /\ server'.ctx[1] = Mac(tag, ContextLen)
    BY <1>9, FewIs, ZenonT(30)
  <2>2. LastSigned(n, n + 1)'
    <3>1. n \in 1 .. (n + 1) - 1 /\ (n + 1 .. (n + 1) - 1) = {}
      BY <1>2, SMT
    <3> QED BY <1>1, <1>6, <3>1 DEF LastSigned
  <2>3. Chained(server.ctx, n, n + 1)'
    <3>1. (n + 1) - n = 1 /\ (1 .. (n + 1) - 1 - n) = {}
      BY <1>2, SMT
    <3>2. ContextLen' = ContextLen
      BY DEF ContextLen
    <3> QED BY <1>1, <1>6, <2>1, <3>1, <3>2, SMT DEF Chained
  <2>4. n \in 1 .. (n + 1) - 1 /\ 1 = (n + 1) - n /\ 0 = (n + 1) - 1 - n /\ Len(sent') + 1 = n + 1
    BY <1>1, <1>2, SMT
  <2>5. \E q \in 1 .. (n + 1) - 1 : /\ LastSigned(q, n + 1)'
                                    /\ Len(server'.ctx) = (n + 1) - q
                                    /\ Chained(server.ctx, q, n + 1)'
                                    /\ server'.gap = (n + 1) - 1 - q
    BY <1>9, <2>1, <2>2, <2>3, <2>4
  <2> QED BY <1>1, <1>9, <2>1, <2>4, <2>5, SMTT(30) DEF Signing
<1> QED BY <1>8, <1>9

\* The next answer, not signed.
LEMMA UnsignedAnswer ==
    ASSUME ServerOK, Signing, NEW n, n = Len(sent) + 1, server.first = FALSE,
           server.gap < MaxUnsigned,
           sent' = Append(sent, Signed(AnswerBody(n), NoTsig)), UNCHANGED <<setting, request>>
    PROVE  /\ AnswerOK(n)'
           /\ server'.ctx = Append(server.ctx, AnswerBody(n)) /\ server'.first = FALSE
              /\ server'.gap = server.gap + 1 => Signing'
<1>1. /\ Extends
      /\ Len(sent) \in Nat /\ Len(sent') = n
      /\ sent'[n] = Signed(AnswerBody(n), NoTsig)
  BY MoreAnswers
<1>2. n \in Nat /\ n \in 1 .. Len(sent) + 1 /\ n >= 1
  BY <1>1, SMT
<1>3. sent'[n].body = AnswerBody(n) /\ sent'[n].tsig = NoTsig /\ NoTsig.some = FALSE
  BY <1>1, SMT DEF Signed, NoTsig
<1>4. PICK q \in 1 .. n - 1 : /\ LastSigned(q, n)
                              /\ Len(server.ctx) = n - q
                              /\ Chained(server.ctx, q, n)
                              /\ server.gap = n - 1 - q
  BY DEF Signing
<1>5. LastSigned(q, n)' /\ \A c : Chained(c, q, n)' <=> Chained(c, q, n)
  BY <1>1, <1>2, <1>4, ChainKept
<1>6. n - q <= MaxUnsigned /\ n # 1
  BY <1>2, <1>4, UnsignedAssumption, SMT
<1>7. AnswerOK(n)'
  BY <1>3, <1>5, <1>6 DEF AnswerOK
<1>8. ASSUME server'.ctx = Append(server.ctx, AnswerBody(n)), server'.first = FALSE,
             server'.gap = server.gap + 1
      PROVE  Signing'
  <2>1. IsSeq(server.ctx)
    BY DEF Signing
  <2>0. Grown(server.ctx, AnswerBody(n), server'.ctx)
    BY <1>8, <2>1, AppendIs
  <2>2. /\ IsSeq(server'.ctx) /\ Len(server.ctx) \in Nat
        /\ Len(server'.ctx) = Len(server.ctx) + 1
        /\ \A j \in 1 .. Len(server.ctx) : server'.ctx[j] = server.ctx[j]
        /\ server'.ctx[Len(server.ctx) + 1] = AnswerBody(n)
    BY <2>0 DEF Grown
  <2>3. q \in 1 .. (n + 1) - 1 /\ LastSigned(q, n + 1)'
    <3>1. q \in 1 .. (n + 1) - 1 /\ \A j \in q + 1 .. (n + 1) - 1 : j = n \/ j \in q + 1 .. n - 1
      BY <1>2, SMT
    <3> QED BY <1>3, <1>5, <3>1 DEF LastSigned
  <2>4. Chained(server.ctx, q, n + 1)'
    <3>1. ContextLen' = ContextLen /\ sent'[q] = sent[q]
      BY <1>1, <1>2, SMT DEF ContextLen, Extends
    <3>2. server'.ctx[1] = Mac(sent[q].tsig.mac.tag, ContextLen)
      <4>1. 1 \in 1 .. Len(server.ctx)
        BY <1>2, <1>4, SMT
      <4> QED BY <1>4, <2>2, <4>1 DEF Chained
    <3>3. ASSUME NEW j \in 1 .. (n + 1) - 1 - q PROVE server'.ctx[1 + j] = AnswerBody(q + j)
      <4>1. CASE j = n - q
        <5>1. 1 + j = Len(server.ctx) + 1 /\ q + j = n
          BY <1>2, <1>4, <4>1, SMT
        <5> QED BY <2>2, <5>1
      <4>2. CASE j # n - q
        <5>1. j \in 1 .. n - 1 - q /\ 1 + j \in 1 .. Len(server.ctx)
          BY <1>2, <1>4, <4>2, SMT
        <5> QED BY <1>4, <2>2, <5>1 DEF Chained
      <4> QED BY <4>1, <4>2
    <3>4. Len(server'.ctx) >= (n + 1) - q
      BY <1>2, <1>4, <2>2, SMT
    <3>5. server'.ctx[1] = Mac(sent'[q].tsig.mac.tag, ContextLen')
      BY <3>1, <3>2
    <3>6. \A j \in 1 .. (n + 1) - 1 - q : server'.ctx[1 + j] = AnswerBody(q + j)
      BY <3>3
    <3> QED BY <3>4, <3>5, <3>6 DEF Chained
  <2>5. Len(server'.ctx) = (n + 1) - q /\ server'.gap = (n + 1) - 1 - q /\ Len(sent') + 1 = n + 1
    BY <1>1, <1>2, <1>4, <1>8, <2>2, SMT
  <2>6. \E p \in 1 .. (n + 1) - 1 : /\ LastSigned(p, n + 1)'
                                    /\ Len(server'.ctx) = (n + 1) - p
                                    /\ Chained(server.ctx, p, n + 1)'
                                    /\ server'.gap = (n + 1) - 1 - p
    BY <2>3, <2>4, <2>5
  <2> QED BY <1>1, <1>8, <2>2, <2>5, <2>6 DEF Signing
<1> QED BY <1>7, <1>8

\* All answers are as they should be, with one more.
LEMMA AllAnswers ==
    ASSUME ServerOK, NEW n, n = Len(sent) + 1, Len(sent') = n, Extends, AnswerOK(n)',
           \A i \in 1 .. Len(sent) : AnswerOK(i)
    PROVE  \A i \in 1 .. Len(sent') : AnswerOK(i)'
<1>1. Len(sent) \in Nat
  BY DEF ServerOK, IsSeq
<1> SUFFICES ASSUME NEW i \in 1 .. Len(sent') PROVE AnswerOK(i)'
  OBVIOUS
<1>2. i \in 1 .. Len(sent) \/ i = n
  BY <1>1, SMT
<1>3. CASE i \in 1 .. Len(sent)
  BY <1>3, AnswerKept
<1>4. CASE i = n
  BY <1>4
<1> QED BY <1>2, <1>3, <1>4

\* A message is a refusal from the start.
LEMMA RefusedKept ==
    ASSUME Extends, Len(sent) # 0 PROVE Refused' <=> Len(sent') = 1 /\ Refused
<1>1. Len(sent) \in Nat /\ Len(sent') \in Nat /\ 1 \in 1 .. Len(sent)
  BY SMT DEF Extends, IsSeq
<1>2. sent'[1] = sent[1] /\ setting' = setting /\ request' = request
  BY <1>1 DEF Extends
<1>3. Len(sent') = 1 => Len(sent) = 1
  BY <1>1, SMT DEF Extends
<1> QED BY <1>2, <1>3 DEF Refused

\* What the client did with answers stays true when more are sent.
LEMMA AcceptingKept ==
    ASSUME ClientOK, Accepting, Extends, UNCHANGED client PROVE Accepting'
<1>1. Len(sent) \in Nat /\ Len(sent') \in Nat /\ Len(client.accepted) \in Nat /\ client.unsigned \in Nat
  BY SMT DEF Extends, IsSeq, ClientOK
<1>2. PICK n, p : n = Len(client.accepted) /\ p = n - client.unsigned
  OBVIOUS
<1>3. \A j \in 1 .. n : client.accepted[j] \in 1 .. Len(sent)
  BY <1>2 DEF Accepting
<1>4. \A j \in 1 .. n : /\ client.accepted[j] \in 1 .. Len(sent')
                        /\ sent'[client.accepted[j]] = sent[client.accepted[j]]
  BY <1>1, <1>3, SMT DEF Extends
<1>5. n > 0 => ~ Refused'
  <2> SUFFICES ASSUME n > 0 PROVE ~ Refused'
    OBVIOUS
  <2>1. 1 \in 1 .. n
    BY <1>1, <1>2, SMT
  <2>2. Len(sent) # 0
    BY <1>1, <1>3, <2>1, SMT
  <2>3. ~ Refused
    BY <1>2 DEF Accepting
  <2> QED BY <2>2, <2>3, RefusedKept
<1>6. ~ client.first => sent'[p] = sent[p] /\ \A j \in 1 .. client.unsigned : p + j \in 1 .. n
  <2> SUFFICES ASSUME ~ client.first
               PROVE  sent'[p] = sent[p] /\ \A j \in 1 .. client.unsigned : p + j \in 1 .. n
    OBVIOUS
  <2>1. p > 0 /\ p \in 1 .. p /\ p \in 1 .. n
    BY <1>1, <1>2, SMT DEF Accepting
  <2>2. client.accepted[p] = p
    BY <1>2, <2>1 DEF Accepting
  <2>3. sent'[p] = sent[p]
    BY <1>4, <2>1, <2>2
  <2>4. PICK u \in Nat : u = client.unsigned
    BY <1>1
  <2>5. n \in Nat /\ p = n - u
    BY <1>1, <1>2, <2>4
  <2>6. \A j \in 1 .. u : p + j \in 1 .. n
    BY ONLY <2>1, <2>5, u \in Nat
  <2> QED BY <2>3, <2>4, <2>6
<1>7. setting' = setting /\ request' = request
  BY DEF Extends
<1> QED BY <1>2, <1>4, <1>5, <1>6, <1>7, ZenonT(30) DEF Accepting

\* A step of neither the server nor the request.
LEMMA ServerUnmoved ==
    ASSUME RequestOK, ServerOK, UNCHANGED <<setting, server, request, sent>>
    PROVE  ServerOK' /\ Extends
<1>1. Extends
  <2>1. Len(sent) \in Nat /\ Len(sent) <= Len(sent) /\ IsSeq(sent)
    BY SMT DEF ServerOK, IsSeq
  <2> QED BY <2>1 DEF Extends
<1>2. Len(sent) \in Nat
  BY DEF ServerOK, IsSeq
<1>3. \A i \in 1 .. Len(sent) : AnswerOK(i) => AnswerOK(i)'
  BY <1>1, AnswerKept
<1>4. Refused' <=> Refused
  BY DEF Refused
<1>5. Signing' <=> Signing
  BY DEF Signing, LastSigned, Chained, ContextLen
<1> QED BY <1>1, <1>3, <1>4, <1>5 DEF ServerOK

\* Who talks to whom.
LEMMA WhoIs ==
    ASSUME RequestOK
    PROVE  /\ setting.who[1] \in {"transaction", "sequence"}
           /\ setting.who[2] \in {"transaction", "sequence", "sparse"}
           /\ setting.who[1] = "transaction" => setting.who[2] = "transaction"
           /\ setting.ckey \in ClientKeys /\ setting.skey \in ServerKeys
           /\ setting.known \in BOOLEAN /\ setting.ordered \in BOOLEAN
<1>1. PICK w : w = setting.who
  OBVIOUS
<1>2. /\ setting.ckey \in ClientKeys /\ setting.skey \in ServerKeys
      /\ setting.known \in BOOLEAN /\ setting.ordered \in BOOLEAN
      /\ w \in {<<"transaction", "transaction">>, <<"sequence", "transaction">>,
                <<"sequence", "sequence">>, <<"sequence", "sparse">>}
  BY <1>1 DEF RequestOK, Settings
<1>3. /\ w[1] \in {"transaction", "sequence"}
      /\ w[2] \in {"transaction", "sequence", "sparse"}
      /\ w[1] = "transaction" => w[2] = "transaction"
  BY <1>2, SMT
<1> QED BY <1>1, <1>2, <1>3

\* ServerTransaction::answer and ServerSequence::answer.
LEMMA ServerAnswerStep ==
    ASSUME RequestOK, ServerOK, ServerAnswer PROVE ServerOK' /\ Extends
<1>1. PICK n, t, tag, m :
        /\ n = Len(sent) + 1 /\ t = ServerNow
        /\ tag = Digest(server.ctx, server.first, AnswerBody(n), t, "NOERROR", 0)
        /\ m = Signed(AnswerBody(n), TsigRecord(t, "NOERROR", 0, Mac(tag, setting.skey.sign)))
  OBVIOUS
<1>2. /\ sent' = Append(sent, m) /\ UNCHANGED <<setting, request>>
      /\ server' = [server EXCEPT !.ctx = <<Mac(tag, NativeLen)>>, !.first = FALSE,
                                  !.st = IF setting.who[2] = "transaction" THEN "ended" ELSE @]
      /\ server.st = "signing" /\ setting.who[2] # "sparse"
  BY <1>1 DEF ServerAnswer
<1>3. Signing /\ server.gap = 0 /\ \A i \in 1 .. Len(sent) : AnswerOK(i)
  BY <1>2 DEF ServerOK
<1>4. PICK st : st = IF setting.who[2] = "transaction" THEN "ended" ELSE "signing"
  OBVIOUS
<1>5. /\ server' \in [st : {"idle", "signing", "ended"}, ctx : {server'.ctx}, first : BOOLEAN, gap : Nat]
      /\ server'.ctx = <<Mac(tag, NativeLen)>> /\ server'.first = FALSE /\ server'.gap = 0
      /\ server'.st = st
  <2>1. server \in [st : {"idle", "signing", "ended"}, ctx : {server.ctx}, first : BOOLEAN, gap : Nat]
    BY DEF ServerOK
  <2>2. /\ server'.ctx = <<Mac(tag, NativeLen)>> /\ server'.first = FALSE /\ server'.gap = server.gap
        /\ server'.st = st
    BY <1>2, <1>4, <2>1
  <2>3. PICK c : c = <<Mac(tag, NativeLen)>>
    OBVIOUS
  <2>4. server' \in [st : {"idle", "signing", "ended"}, ctx : {c}, first : BOOLEAN, gap : Nat]
    BY <1>2, <2>1, <2>3
  <2> QED BY <1>3, <2>2, <2>3, <2>4
<1>6. /\ Extends /\ Len(sent) \in Nat /\ Len(sent') = n
  BY <1>1, <1>2, MoreAnswers
<1>7. /\ AnswerOK(n)' /\ sent'[n].tsig.some = TRUE
      /\ server'.ctx = <<Mac(tag, ContextLen)>> /\ server'.first = FALSE /\ server'.gap = 0 => Signing'
  BY <1>1, <1>2, <1>3, SignedAnswer, ZenonT(30)
<1>8. \A i \in 1 .. Len(sent') : AnswerOK(i)'
  BY <1>1, <1>3, <1>6, <1>7, AllAnswers
<1>9. st = "signing" => Signing'
  <2>1. st = "signing" => ContextLen = NativeLen
    BY <1>2, <1>4, WhoIs DEF ContextLen
  <2> QED BY <1>5, <1>7, <2>1
<1>10. setting.who[2] = "transaction" => Len(sent') = 1
  <2> SUFFICES ASSUME setting.who[2] = "transaction" PROVE Len(sent') = 1
    OBVIOUS
  <2>1. sent = << >>
    BY <1>2 DEF ServerOK
  <2> QED BY <1>1, <1>6, <2>1, SMT
<1>11. st = "ended" => Len(sent') \in Nat \ {0} /\ sent'[Len(sent')].tsig.some = TRUE
  BY <1>1, <1>6, <1>7, SMT
<1>12. setting' = setting /\ request' = request /\ request.some = TRUE /\ IsSeq(sent')
  BY <1>2, <1>6 DEF Extends, ServerOK, IsSeq
<1>13. setting'.who[2] = "transaction" => Len(sent') <= 1 /\ st = "ended"
  <2>1. setting'.who[2] = setting.who[2]
    BY <1>12
  <2>2. Len(sent') = 1 => Len(sent') <= 1
    BY SMT
  <2> QED BY <1>4, <1>10, <2>1, <2>2
<1> QED BY <1>4, <1>5, <1>6, <1>8, <1>9, <1>11, <1>12, <1>13 DEF ServerOK

\* The request is there.
LEMMA RequestIs ==
    ASSUME RequestOK, request.some = TRUE
    PROVE  /\ client.st # "Init"
           /\ request.error = "NOERROR" /\ request.other = 0
           /\ request.mac = Mac(<<RequestBody, Full(request.time, "NOERROR", 0)>>, setting.ckey.sign)
<1>1. client.st # "Init"
  BY SMT DEF RequestOK, NoTsig
<1>2. PICK t, mac : /\ request = TsigRecord(t, "NOERROR", 0, mac) /\ t = request.time
                    /\ mac = Mac(<<RequestBody, Full(t, "NOERROR", 0)>>, setting.ckey.sign)
  BY <1>1 DEF RequestOK
<1>3. request.error = "NOERROR" /\ request.other = 0 /\ request.mac = mac
  BY <1>2 DEF TsigRecord
<1> QED BY <1>1, <1>2, <1>3

\* A server that sends its one message and ends.
LEMMA RefusalSent ==
    ASSUME RequestOK, ServerOK, server.st = "idle", request.some = TRUE, NEW m, sent' = <<m>>,
           server' = [server EXCEPT !.st = "ended"], UNCHANGED <<setting, request>>, Refused'
    PROVE  ServerOK' /\ Extends
<1>1. sent = << >> /\ Len(sent) = 0 /\ IsSeq(sent) /\ server.gap = 0
  BY DEF ServerOK
<1>2. IsSeq(sent') /\ Len(sent') = 1
  BY FewIs
<1>3. Extends
  <2>1. \A j \in 1 .. 0 : sent'[j] = sent[j]
    BY SMT
  <2> QED BY <1>1, <1>2, <2>1, SMT DEF Extends
<1>4. /\ server' \in [st : {"idle", "signing", "ended"}, ctx : {server'.ctx}, first : BOOLEAN, gap : Nat]
      /\ server'.st = "ended" /\ server'.gap = 0
  <2>1. server \in [st : {"idle", "signing", "ended"}, ctx : {server.ctx}, first : BOOLEAN, gap : Nat]
    BY DEF ServerOK
  <2>2. server'.ctx = server.ctx /\ server'.st = "ended" /\ server'.gap = server.gap
    BY <2>1
  <2>3. server' \in [st : {"idle", "signing", "ended"}, ctx : {server.ctx}, first : BOOLEAN, gap : Nat]
    BY <2>1
  <2> QED BY <1>1, <2>2, <2>3
<1>5. Len(sent') <= 1 /\ request'.some = TRUE
  BY <1>2, SMT
<1> QED BY <1>2, <1>3, <1>4, <1>5 DEF ServerOK

\* SigningContext::server_request.
LEMMA ServerRequestStep ==
    ASSUME RequestOK, ServerOK, ServerRequest PROVE ServerOK' /\ Extends
<1>1. request.some = TRUE /\ server.st = "idle" /\ UNCHANGED <<setting, request>>
  <2>1. request.some /\ server.st = "idle" /\ UNCHANGED <<setting, request>>
    BY DEF ServerRequest
  <2>2. client.st # "Init"
    BY <2>1, SMT DEF RequestOK, NoTsig
  <2>3. request.some = TRUE
    BY <2>2, SMT DEF RequestOK, TsigRecord
  <2> QED BY <2>1, <2>3
<1>2. /\ request.error = "NOERROR" /\ request.other = 0
      /\ request.mac = Mac(<<RequestBody, Full(request.time, "NOERROR", 0)>>, setting.ckey.sign)
  BY <1>1, RequestIs
<1>3. PICK tag, cmp, late :
        /\ tag = <<RequestBody, Full(request.time, request.error, request.other)>>
        /\ cmp = compare_signatures(setting.skey, tag, request.mac)
        /\ late = Full(request.time, "BADTIME", ServerNow)
  OBVIOUS
<1>4. cmp # "ok" => cmp = "BadTrunc" /\ setting.ckey.sign < setting.skey.min
  <2>1. request.mac.tag = tag /\ request.mac.len = setting.ckey.sign
    BY <1>2, <1>3, SMT DEF Mac
  <2> QED BY <1>3, <2>1 DEF compare_signatures
<1>5. CASE ~ setting.known \/ cmp # "ok"
  <2>1. PICK error : error = IF ~ setting.known THEN "BADKEY"
                             ELSE IF cmp = "BadTrunc" THEN "BADTRUNC" ELSE "FORMERR"
    OBVIOUS
  <2>2. sent' = <<Refusal(error)>> /\ server' = [server EXCEPT !.st = "ended"]
    BY <1>3, <1>5, <2>1 DEF ServerRequest
  <2>3. Refused'
    <3>1. Len(sent') = 1 /\ sent'[1] = Refusal(error)
      BY <2>2
    <3>2. /\ Refusal(error).body = ErrorBody
          /\ Refusal(error).tsig.some = TRUE
          /\ Refusal(error).tsig.mac = Mac(<< >>, 0)
          /\ Refusal(error).tsig.error = error
      BY DEF Refusal, Signed, TsigRecord
    <3>3. \/ error = "BADKEY" /\ setting.known = FALSE
          \/ error = "BADTRUNC" /\ setting.ckey.sign < setting.skey.min
      BY <1>4, <1>5, <2>1, WhoIs
    <3>4. sent'[1].tsig.mac = Mac(<< >>, 0) /\ sent'[1].body = ErrorBody /\ sent'[1].tsig.some = TRUE
          /\ sent'[1].tsig.error = error
      BY <3>1, <3>2
    <3> QED BY <1>1, <3>1, <3>3, <3>4 DEF Refused
  <2> QED BY <1>1, <2>2, <2>3, RefusalSent
<1>6. CASE setting.known /\ cmp = "ok" /\ ~ is_valid_at(request.time, ServerNow)
  <2>1. PICK g, s : /\ g = <<request.mac, ErrorBody, late>>
                    /\ s = TsigRecord(request.time, "BADTIME", ServerNow, Mac(g, setting.skey.sign))
    OBVIOUS
  <2>2. sent' = <<Signed(ErrorBody, s)>> /\ server' = [server EXCEPT !.st = "ended"]
    BY <1>3, <1>6, <2>1 DEF ServerRequest
  <2>3. Refused'
    <3>1. Len(sent') = 1 /\ sent'[1].body = ErrorBody /\ sent'[1].tsig = s
      BY <2>2 DEF Signed
    <3>2. /\ s.some = TRUE /\ s.error = "BADTIME" /\ s.time = request.time /\ s.other = ServerNow
          /\ s.mac.len = setting.skey.sign /\ s.mac.tag = g
      BY <2>1 DEF TsigRecord, Mac
    <3>3. IsSeq(g) /\ Len(g) = 3 /\ g[1] = request.mac /\ g[2] = ErrorBody /\ g[3] = late
      BY <2>1, FewIs
    <3>4. g[3] = Full(s.time, s.error, s.other) /\ ~ is_valid_at(request.time, s.other)
      BY <1>3, <1>6, <3>2, <3>3
    <3> QED BY <1>1, <3>1, <3>2, <3>3, <3>4 DEF Refused
  <2> QED BY <1>1, <2>2, <2>3, RefusalSent
<1>7. CASE setting.known /\ cmp = "ok" /\ is_valid_at(request.time, ServerNow)
  <2>1. server' = [server EXCEPT !.st = "signing", !.ctx = <<request.mac>>] /\ sent' = sent
    BY <1>3, <1>7 DEF ServerRequest
  <2>2. sent = << >> /\ Len(sent) = 0 /\ IsSeq(sent) /\ server.gap = 0 /\ server.first = TRUE
    BY <1>1 DEF ServerOK
  <2>3. Extends
    BY <1>1, <2>1, <2>2, SMT DEF Extends
  <2>4. /\ server'.ctx = <<request.mac>> /\ server'.st = "signing"
        /\ server'.gap = 0 /\ server'.first = TRUE
        /\ server' \in [st : {"idle", "signing", "ended"}, ctx : {server'.ctx}, first : BOOLEAN, gap : Nat]
    <3>1. server \in [st : {"idle", "signing", "ended"}, ctx : {server.ctx}, first : BOOLEAN, gap : Nat]
      BY DEF ServerOK
    <3>2. PICK c : c = <<request.mac>>
      OBVIOUS
    <3>3. server'.ctx = c /\ server'.st = "signing" /\ server'.gap = server.gap /\ server'.first = server.first
      BY <2>1, <3>1, <3>2
    <3>4. server' \in [st : {"idle", "signing", "ended"}, ctx : {c}, first : BOOLEAN, gap : Nat]
      BY <2>1, <3>1, <3>2
    <3> QED BY <2>2, <3>2, <3>3, <3>4
  <2>5. Signing'
    <3>1. IsSeq(server'.ctx) /\ Len(server'.ctx) = 1 /\ server'.ctx[1] = request.mac
      <4>1. PICK a : a = request.mac
        OBVIOUS
      <4>2. IsSeq(<<a>>) /\ Len(<<a>>) = 1 /\ <<a>>[1] = a
        BY FewIs
      <4> QED BY <2>4, <4>1, <4>2
    <3>2. Len(sent') + 1 = 1
      BY <2>1, <2>2, SMT
    <3> QED BY <1>1, <2>4, <3>1, <3>2 DEF Signing
  <2>6. Len(sent') = 0 /\ sent' = << >> /\ request'.some = TRUE /\ IsSeq(sent') /\ Len(sent') <= 1
    BY <1>1, <2>1, <2>2, SMT
  <2>7. \A i \in 1 .. Len(sent') : AnswerOK(i)'
    BY <2>6, SMT
  <2> QED BY <2>3, <2>4, <2>5, <2>6, <2>7 DEF ServerOK
<1> QED BY <1>5, <1>6, <1>7

\* A server of another make.
LEMMA SparseStep ==
    ASSUME RequestOK, ServerOK, NEW sign \in BOOLEAN, SparseAnswer(sign) PROVE ServerOK' /\ Extends
<1>1. PICK n, t, tag, m :
        /\ n = Len(sent) + 1 /\ t = ServerNow
        /\ tag = Digest(server.ctx, server.first, AnswerBody(n), t, "NOERROR", 0)
        /\ m = Signed(AnswerBody(n), TsigRecord(t, "NOERROR", 0, Mac(tag, setting.skey.sign)))
  OBVIOUS
<1>2. /\ UNCHANGED <<setting, request>>
      /\ server.st = "signing" /\ setting.who[2] = "sparse"
  BY DEF SparseAnswer
<1>3. Signing /\ (\A i \in 1 .. Len(sent) : AnswerOK(i)) /\ request'.some = TRUE
  BY <1>2 DEF ServerOK
<1>4. server \in [st : {"idle", "signing", "ended"}, ctx : {server.ctx}, first : BOOLEAN, gap : Nat]
  BY DEF ServerOK
<1>5. setting'.who[2] = "sparse" /\ ContextLen = setting.skey.sign
  BY <1>2 DEF ContextLen
<1>6. CASE sign
  <2>1. /\ sent' = Append(sent, m)
        /\ server' = [server EXCEPT !.ctx = <<Mac(tag, setting.skey.sign)>>, !.first = FALSE, !.gap = 0]
    BY <1>1, <1>6 DEF SparseAnswer
  <2>2. /\ server' \in [st : {"idle", "signing", "ended"}, ctx : {server'.ctx}, first : BOOLEAN, gap : Nat]
        /\ server'.ctx = <<Mac(tag, setting.skey.sign)>> /\ server'.first = FALSE /\ server'.gap = 0
        /\ server'.st = "signing"
    <3>1. PICK c : c = <<Mac(tag, setting.skey.sign)>>
      OBVIOUS
    <3>2. server'.ctx = c /\ server'.st = server.st /\ server'.gap = 0 /\ server'.first = FALSE
      BY <1>4, <2>1, <3>1
    <3>3. server' \in [st : {"idle", "signing", "ended"}, ctx : {c}, first : BOOLEAN, gap : Nat]
      BY <1>4, <2>1, <3>1
    <3> QED BY <1>2, <3>1, <3>2, <3>3
  <2>3. Extends /\ Len(sent) \in Nat /\ Len(sent') = n
    BY <1>1, <1>2, <2>1, MoreAnswers
  <2>4. /\ AnswerOK(n)'
        /\ server'.ctx = <<Mac(tag, ContextLen)>> /\ server'.first = FALSE /\ server'.gap = 0 => Signing'
    BY <1>1, <1>2, <1>3, <2>1, SignedAnswer
  <2>5. \A i \in 1 .. Len(sent') : AnswerOK(i)'
    BY <1>1, <1>3, <2>3, <2>4, AllAnswers
  <2>6. Signing'
    BY <1>5, <2>2, <2>4
  <2>7. IsSeq(sent')
    BY <2>3 DEF Extends
  <2> QED BY <1>3, <1>5, <2>2, <2>3, <2>5, <2>6, <2>7 DEF ServerOK
<1>7. CASE ~ sign
  <2>1. /\ sent' = Append(sent, Signed(AnswerBody(n), NoTsig))
        /\ server' = [server EXCEPT !.ctx = Append(@, AnswerBody(n)), !.gap = @ + 1]
        /\ server.first = FALSE /\ server.gap < MaxUnsigned
    BY <1>1, <1>4, <1>7 DEF SparseAnswer
  <2>2. /\ server' \in [st : {"idle", "signing", "ended"}, ctx : {server'.ctx}, first : BOOLEAN, gap : Nat]
        /\ server'.ctx = Append(server.ctx, AnswerBody(n)) /\ server'.first = FALSE
        /\ server'.gap = server.gap + 1
        /\ server'.st = "signing"
    <3>0. server.gap \in Nat
      BY <1>4
    <3>4. PICK g \in Nat : g = server.gap + 1
      BY <3>0, SMT
    <3>1. PICK c : c = Append(server.ctx, AnswerBody(n)) /\ g = server.gap + 1
      BY <3>4
    <3>5. server' = [server EXCEPT !.ctx = c, !.gap = g]
      BY <2>1, <3>1
    <3>2. server'.ctx = c /\ server'.st = server.st /\ server'.gap = server.gap + 1
          /\ server'.first = server.first
      BY <1>4, <3>1, <3>5
    <3>3. server' \in [st : {"idle", "signing", "ended"}, ctx : {c}, first : BOOLEAN, gap : Nat]
      BY <1>4, <3>1, <3>5
    <3> QED BY <1>2, <2>1, <3>1, <3>2, <3>3
  <2>3. Extends /\ Len(sent) \in Nat /\ Len(sent') = n
    BY <1>1, <1>2, <2>1, MoreAnswers
  <2>4. AnswerOK(n)' /\ Signing'
    BY <1>1, <1>2, <1>3, <2>1, <2>2, UnsignedAnswer
  <2>5. \A i \in 1 .. Len(sent') : AnswerOK(i)'
    BY <1>1, <1>3, <2>3, <2>4, AllAnswers
  <2>7. IsSeq(sent')
    BY <2>3 DEF Extends
  <2> QED BY <1>3, <1>5, <2>2, <2>3, <2>4, <2>5, <2>7 DEF ServerOK
<1> QED BY <1>6, <1>7

\* The service has no more answers: the last one was signed.
LEMMA ServerEndsStep ==
    ASSUME RequestOK, ServerOK, ServerEnds PROVE ServerOK' /\ Extends
<1>1. /\ UNCHANGED <<setting, request, sent>> /\ server.st = "signing" /\ sent # << >> /\ server.gap = 0
      /\ server' = [server EXCEPT !.st = "ended"]
  BY DEF ServerEnds
<1>2. /\ server' \in [st : {"idle", "signing", "ended"}, ctx : {server'.ctx}, first : BOOLEAN, gap : Nat]
      /\ server'.st = "ended" /\ server'.gap = 0
  <2>1. server \in [st : {"idle", "signing", "ended"}, ctx : {server.ctx}, first : BOOLEAN, gap : Nat]
    BY DEF ServerOK
  <2>2. server'.ctx = server.ctx /\ server'.st = "ended" /\ server'.gap = server.gap
    BY <1>1, <2>1
  <2>3. server' \in [st : {"idle", "signing", "ended"}, ctx : {server.ctx}, first : BOOLEAN, gap : Nat]
    BY <1>1, <2>1
  <2> QED BY <1>1, <2>2, <2>3
<1>3. Extends
  <2>1. Len(sent) \in Nat /\ Len(sent) <= Len(sent) /\ IsSeq(sent)
    BY SMT DEF ServerOK, IsSeq
  <2> QED BY <1>1, <2>1 DEF Extends
<1>4. \A i \in 1 .. Len(sent) : AnswerOK(i)'
  BY <1>1, <1>3, AnswerKept DEF ServerOK
<1>5. Len(sent) \in Nat \ {0} /\ sent[Len(sent)].tsig.some = TRUE
  <2>1. Signing /\ IsSeq(sent)
    BY <1>1 DEF ServerOK
  <2>2. Len(sent) \in Nat /\ Len(sent) # 0
    BY <1>1, <2>1, SMT DEF IsSeq
  <2>3. PICK l \in Nat : l = Len(sent)
    BY <2>2
  <2>4. ~ server.first
    BY <2>1, <2>2, <2>3, SMT DEF Signing
  <2>5. PICK q \in 1 .. l + 1 - 1 : LastSigned(q, l + 1) /\ server.gap = l + 1 - 1 - q
    BY <2>1, <2>3, <2>4, SMT DEF Signing
  <2>6. q = l
    BY <1>1, <2>5, SMT
  <2> QED BY <2>2, <2>3, <2>5, <2>6 DEF LastSigned
<1>6. request'.some = TRUE /\ IsSeq(sent') /\ (setting'.who[2] = "transaction" => Len(sent') <= 1)
  BY <1>1 DEF ServerOK
<1> QED BY <1>1, <1>2, <1>3, <1>4, <1>5, <1>6 DEF ServerOK

-----------------------------------------------------------------------------
(* The client. *)

\* What a message the client may be handed is.
LEMMA MessageIs ==
    ASSUME ServerOK, NEW i \in 1 .. Len(sent)
    PROVE  \/ Refused /\ i = 1
           \/ \A j \in 1 .. Len(sent) : AnswerOK(j)
<1>1. IsSeq(sent) /\ Len(sent) \in Nat /\ Len(sent) # 0
  BY SMT DEF ServerOK, IsSeq
<1>2. server.st # "idle"
  BY <1>1 DEF ServerOK
<1>3. Refused => i = 1
  BY SMT DEF Refused
<1> QED BY <1>2, <1>3 DEF ServerOK

\* An answer is signed and says so, or is not.
LEMMA AnswerIs ==
    ASSUME NEW i, AnswerOK(i)
    PROVE  /\ sent[i].body = AnswerBody(i) /\ AnswerBody(i) # ErrorBody
           /\ sent[i].tsig.some = TRUE =>
                 /\ AnswerSigned(i)
                 /\ sent[i].tsig.error = "NOERROR" /\ sent[i].tsig.other = 0
                 /\ sent[i].tsig.mac.len = setting.skey.sign
           /\ sent[i].tsig.some # TRUE => sent[i].tsig = NoTsig
           /\ sent[i].tsig = NoTsig => sent[i].tsig.some = FALSE
<1>1. NoTsig.some = FALSE
  BY DEF NoTsig
<1>2. AnswerBody(i) # ErrorBody
  <2>1. AnswerBody(i).part = "answer" /\ ErrorBody.part = "error"
    BY DEF AnswerBody, ErrorBody
  <2> QED BY <2>1
<1>3. sent[i].tsig.some = TRUE => AnswerSigned(i)
  BY <1>1 DEF AnswerOK
<1>4. AnswerSigned(i) => /\ sent[i].tsig.error = "NOERROR" /\ sent[i].tsig.other = 0
                         /\ sent[i].tsig.mac.len = setting.skey.sign
  <2> SUFFICES ASSUME AnswerSigned(i)
               PROVE  /\ sent[i].tsig.error = "NOERROR" /\ sent[i].tsig.other = 0
                      /\ sent[i].tsig.mac.len = setting.skey.sign
    OBVIOUS
  <2>1. PICK t, g : sent[i].tsig = TsigRecord(t, "NOERROR", 0, Mac(g, setting.skey.sign))
    BY DEF AnswerSigned, SignedAs
  <2> QED BY <2>1, SMT DEF TsigRecord, Mac
<1> QED BY <1>1, <1>2, <1>3, <1>4 DEF AnswerOK

\* Answers with the same tag are the same.
LEMMA TagIsOfOne ==
    ASSUME NEW p \in Nat, NEW q \in Nat, AnswerSigned(p), AnswerSigned(q),
           sent[p].tsig.mac.tag = sent[q].tsig.mac.tag
    PROVE  p = q
<1>1. PICK g : g = sent[p].tsig.mac.tag
  OBVIOUS
<1>2. g[Len(g) - 1] = AnswerBody(p) /\ g[Len(g) - 1] = AnswerBody(q)
  BY <1>1 DEF AnswerSigned, SignedAs
<1>3. AnswerBody(p).n = p /\ AnswerBody(q).n = q
  BY DEF AnswerBody
<1> QED BY <1>2, <1>3

\* ClientSequence::answer_subsequent with an answer that is not signed.
LEMMA UnsignedTaken ==
    ASSUME ServerOK, ClientOK, Accepting, NEW i \in 1 .. Len(sent), sent[i].tsig.some # TRUE,
           client.first = FALSE, setting.ordered => i = client.received + 1,
           client'.ctx = Append(client.ctx, sent[i].body), client'.first = FALSE,
           client'.unsigned = client.unsigned + 1, client'.accepted = Append(client.accepted, i),
           client'.received = client.received + 1,
           UNCHANGED <<setting, server, request, sent>>
    PROVE  Accepting'
<1>0. client.accepted \in Seq(Nat) /\ Len(client.accepted) \in Nat /\ client.unsigned \in Nat
  BY SMT DEF ClientOK
<1>a. PICK n \in Nat : n = Len(client.accepted)
  BY <1>0
<1>b. PICK u \in Nat : u = client.unsigned
  BY <1>0
<1>1. PICK a, c : a \in Seq(Nat) /\ n = Len(a) /\ u = client.unsigned /\ a = client.accepted /\ c = client.ctx
  BY <1>0, <1>a, <1>b
<1>2. PICK a1, c1 : a1 = client'.accepted /\ c1 = client'.ctx
  OBVIOUS
<1>3. Len(sent) \in Nat /\ i \in Nat
  BY SMT DEF ServerOK, IsSeq
<1>4. /\ Len(a1) = n + 1 /\ a1[n + 1] = i
      /\ \A j \in 1 .. n : a1[j] = a[j]
  BY <1>1, <1>2, <1>3, AppendProperties, SMT
<1>c. PICK p \in Nat : p = n - u /\ p + u = n /\ p > 0
  <2>1. u <= n /\ n - u > 0
    BY <1>1 DEF Accepting
  <2> QED BY <2>1, SMT
<1>5. /\ IsSeq(c) /\ Len(c) = 1 + u 
      /\ sent[p].tsig.some = TRUE /\ c[1] = sent[p].tsig.mac
      /\ \A j \in 1 .. p : a[j] = j
      /\ \A j \in 1 .. n : a[j] \in 1 .. Len(sent)
      /\ \A j \in 1 .. u : c[1 + j] = sent[a[p + j]].body /\ sent[a[p + j]].tsig = NoTsig
      /\ n > 0 => ~ Refused
      /\ setting.who[1] # "transaction"
      /\ setting.ordered => n = client.received /\ \A j \in 1 .. n : a[j] = j
  BY <1>1, <1>c DEF Accepting
<1>6. /\ IsSeq(c1) /\ Len(c1) = 2 + u /\ c1[2 + u] = sent[i].body
      /\ \A j \in 1 .. 1 + u : c1[j] = c[j]
  <2>1. Grown(c, sent[i].body, c1)
    BY <1>1, <1>2, <1>5, AppendIs
  <2>2. Len(c) + 1 = 2 + u
    <3>1. Len(c) = 1 + u
      BY <1>5
    <3> QED BY <3>1, SMT
  <2> QED BY <1>5, <2>1, <2>2 DEF Grown
<1>7. sent[i].tsig = NoTsig
  <2>1. ~ Refused
    BY <1>c, <1>5, SMT
  <2>2. AnswerOK(i)
    BY <2>1, MessageIs
  <2> QED BY <2>2, AnswerIs
<1>8. n + 1 - (u + 1) = p /\ 1 .. n + 1 - (u + 1) = 1 .. p /\ u + 1 <= n + 1 /\ Len(c1) = 1 + (u + 1) /\ 1 \in 1 .. 1 + u
  <2>1. Len(c1) = 2 + u
    BY <1>6
  <2> QED BY <1>c, <2>1, SMT
<1>9. \A j \in 1 .. n + 1 - (u + 1) : a1[j] = j
  <2>1. \A j \in 1 .. p : j \in 1 .. n
    BY <1>c, SMT
  <2> QED BY <1>4, <1>5, <1>8, <2>1
<1>10. \A j \in 1 .. n + 1 : a1[j] \in 1 .. Len(sent)
  <2> SUFFICES ASSUME NEW j \in 1 .. n + 1 PROVE a1[j] \in 1 .. Len(sent)
    OBVIOUS
  <2>1. j \in 1 .. n \/ j = n + 1
    BY <1>1, SMT
  <2> QED BY <1>4, <1>5, <2>1
<1>11. ASSUME NEW j \in 1 .. u + 1
       PROVE  c1[1 + j] = sent[a1[p + j]].body /\ sent[a1[p + j]].tsig = NoTsig
  <2>1. CASE j = u + 1
    <3>1. 1 + j = 2 + u /\ p + j = n + 1
      BY <1>c, <2>1, SMT
    <3> QED BY <1>4, <1>6, <1>7, <3>1
  <2>2. CASE j # u + 1
    <3>1. j \in 1 .. u /\ 1 + j \in 1 .. 1 + u /\ p + j \in 1 .. n
      BY <1>c, <2>2, SMT
    <3> QED BY <1>4, <1>5, <1>6, <3>1, ZenonT(30)
  <2> QED BY <2>1, <2>2
<1>12. setting.ordered => n + 1 = client.received + 1 /\ \A j \in 1 .. n + 1 : a1[j] = j
  <2> SUFFICES ASSUME setting.ordered PROVE n + 1 = client.received + 1 /\ \A j \in 1 .. n + 1 : a1[j] = j
    OBVIOUS
  <2>1. \A j \in 1 .. n + 1 : j \in 1 .. n \/ j = n + 1
    BY <1>1, SMT
  <2>2. i = n + 1
    BY <1>5
  <2> QED BY <1>4, <1>5, <2>1, <2>2
<1>13. ~ Refused' /\ c1[1] = sent[p].tsig.mac
  <2>1. ~ Refused
    BY <1>c, <1>5, SMT
  <2>2. Refused' <=> Refused
    BY DEF Refused
  <2> QED BY <1>5, <1>6, <1>8, <2>1, <2>2
<1>14. /\ client'.unsigned = u + 1 /\ Len(client'.accepted) = n + 1 /\ client'.ctx = c1
       /\ client'.accepted = a1
  BY <1>1, <1>2, <1>4
<1>15. /\ IsSeq(client'.ctx) /\ client'.unsigned <= Len(client'.accepted)
       /\ Len(client'.accepted) - client'.unsigned = p
       /\ Len(client'.ctx) = 1 + client'.unsigned
       /\ client'.ctx[1] = sent'[p].tsig.mac
  BY <1>6, <1>8, <1>13, <1>14, SMT
<1>16. /\ \A j \in 1 .. p : client'.accepted[j] = j
       /\ \A j \in 1 .. Len(client'.accepted) : client'.accepted[j] \in 1 .. Len(sent')
  BY <1>8, <1>9, <1>10, <1>14
<1>17. \A j \in 1 .. client'.unsigned :
          /\ client'.ctx[1 + j] = sent'[client'.accepted[p + j]].body
          /\ sent'[client'.accepted[p + j]].tsig = NoTsig
  BY <1>11, <1>14
<1>18. setting'.ordered => /\ Len(client'.accepted) = client'.received
                           /\ \A j \in 1 .. Len(client'.accepted) : client'.accepted[j] = j
  BY <1>12, <1>14
<1>19. sent'[p].tsig.some = TRUE /\ setting'.who[1] # "transaction"
  BY <1>5
<1> HIDE DEF Refused
<1> QED BY <1>c, <1>13, <1>15, <1>16, <1>17, <1>18, <1>19, ZenonT(30) DEF Accepting

\* What check_answer_time and ServerRefused let through is no refusal.
LEMMA NotRefused ==
    ASSUME RequestOK, Refused, NEW tag, ServerRefused(sent[1]) = "ok" PROVE Checked(sent[1], tag) # "ok"
<1>1. PICK m : m = sent[1] /\ m.body = ErrorBody
  BY DEF Refused
<1>2. m.tsig.error # "BADKEY"
  BY <1>1 DEF ServerRefused
<1>3. CASE m.tsig.mac = Mac(<< >>, 0)
  <2>1. m.tsig.mac.len = 0
    BY <1>3, SMT DEF Mac
  <2>2. setting.ckey.min \in Nat /\ setting.ckey.min > 0
    BY WhoIs, MacLenAssumption, SMT
  <2>3. compare_signatures(setting.ckey, tag, m.tsig.mac) = "BadTrunc"
    BY <2>1, <2>2 DEF compare_signatures
  <2> QED BY <1>1, <2>3 DEF Checked
<1>4. CASE m.tsig.error = "BADTIME"
  <2>1. check_answer_time(m) = "ServerBadTime"
    BY <1>1, <1>4 DEF check_answer_time
  <2> QED BY <1>1, <2>1 DEF Checked
<1> QED BY <1>1, <1>2, <1>3, <1>4 DEF Refused

\* Answer i comes after the n the client accepted, which are the first n.
InOrder(i, n) == i = n + 1 /\ \A j \in 1 .. n : client.accepted[j] = j

\* A signed answer that verifies is the one that comes next, and the unsigned ones
\* before it are what the client thinks they are.
LEMMA NextIs ==
    ASSUME ServerOK, ClientOK, Accepting, NEW i \in 1 .. Len(sent),
           \A j \in 1 .. Len(sent) : AnswerOK(j), sent[i].tsig.some = TRUE,
           NEW n \in Nat, n = Len(client.accepted), NEW u \in Nat, u = client.unsigned,
           NEW c, c = client.ctx, NEW g, g = sent[i].tsig.mac.tag, NEW t, t = sent[i].tsig.time,
           g = c \o <<AnswerBody(i), IF client.first THEN Full(t, "NOERROR", 0) ELSE Timers(t)>>
    PROVE  InOrder(i, n)
<1>1. PICK x : x = IF client.first THEN Full(t, "NOERROR", 0) ELSE Timers(t)
  OBVIOUS
<1>2. IsSeq(c) /\ u <= n
  BY DEF Accepting
<1>3. Fed(c, AnswerBody(i), x, g)
  BY <1>1, <1>2, DigestIs
<1>4. PICK l \in Nat : l = Len(c)
  BY <1>2 DEF IsSeq
<1>5. Len(g) = l + 2 /\ g[l + 2] = x /\ \A j \in 1 .. l : g[j] = c[j]
  BY <1>3, <1>4 DEF Fed
<1>6. i \in Nat /\ Len(sent) \in Nat
  BY SMT DEF ServerOK, IsSeq
<1>7. SignedAs(i, t, g)
  BY AnswerIs DEF AnswerSigned
<1>8. Full(t, "NOERROR", 0) # Timers(t)
  <2>1. Full(t, "NOERROR", 0).part = "variables" /\ Timers(t).part = "timers"
    BY DEF Full, Timers
  <2> QED BY <2>1
<1>9. CASE client.first
  <2>1. n = 0 /\ l = 1
    BY <1>4, <1>9 DEF Accepting
  <2>2. Len(g) = 3 /\ g[3] = Full(t, "NOERROR", 0)
    BY <1>1, <1>5, <1>9, <2>1, SMT
  <2>3. i = 1
    BY <1>7, <1>8, <2>2 DEF SignedAs
  <2> QED BY <2>1, <2>3, SMT DEF InOrder
<1>10. CASE ~ client.first
  <2>1. PICK p \in Nat : p = n - u /\ p > 0 /\ p + u = n
    <3>1. n - u > 0
      BY <1>10 DEF Accepting
    <3> QED BY <1>2, <3>1, SMT
  <2>2. /\ sent[p].tsig.some = TRUE /\ l = 1 + u /\ c[1] = sent[p].tsig.mac
        /\ \A j \in 1 .. p : client.accepted[j] = j
        /\ \A j \in 1 .. n : client.accepted[j] \in 1 .. Len(sent)
        /\ \A j \in 1 .. u : c[1 + j] = sent[client.accepted[p + j]].body
    BY <1>4, <1>10, <2>1 DEF Accepting
  <2>3. Len(g) = u + 3 /\ g[u + 3] = Timers(t)
    <3>1. l + 2 = u + 3
      BY <2>2, SMT
    <3> QED BY <1>1, <1>5, <1>10, <3>1
  <2>4. i # 1
    <3> SUFFICES ASSUME i = 1 PROVE FALSE
      OBVIOUS
    <3>1. Len(g) = 3 /\ g[3] = Full(t, "NOERROR", 0)
      BY <1>7 DEF SignedAs
    <3> QED BY <1>8, <2>3, <3>1
  <2>5. PICK q \in 1 .. i - 1 : LastSigned(q, i) /\ Len(g) = i - q + 2 /\ Chained(g, q, i)
    BY <1>7, <2>4 DEF SignedAs
  <2>6. q \in Nat /\ q \in 1 .. Len(sent) /\ i = q + u + 1
    <3>1. PICK k \in Nat : k = Len(sent)
      BY <1>6
    <3>2. i \in 1 .. k /\ i - q + 2 = u + 3
      BY <2>3, <2>5, <3>1
    <3>3. q \in Nat /\ q \in 1 .. k /\ i = q + u + 1
      BY ONLY <1>6, <3>2, k \in Nat, u \in Nat, q \in 1 .. i - 1
    <3> QED BY <3>1, <3>3
  <2>7. p \in 1 .. Len(sent)
    <3>1. p \in 1 .. p /\ p \in 1 .. n
      BY <2>1, SMTT(30)
    <3> QED BY <2>2, <3>1
  <2>8. AnswerSigned(p) /\ AnswerSigned(q)
    <3>1. AnswerOK(p) /\ AnswerOK(q) /\ sent[q].tsig.some = TRUE
      BY <2>5, <2>6, <2>7 DEF LastSigned
    <3> QED BY <2>2, <3>1, AnswerIs
  <2>9. q = p
    <3>1. g[1] = sent[p].tsig.mac /\ g[1] = Mac(sent[q].tsig.mac.tag, ContextLen)
      <4>1. 1 \in 1 .. l
        BY <2>2, SMT
      <4> QED BY <1>5, <2>2, <2>5, <4>1 DEF Chained
    <3>2. sent[p].tsig.mac.tag = sent[q].tsig.mac.tag
      BY <3>1, SMT DEF Mac
    <3> QED BY <2>6, <2>8, <3>2, TagIsOfOne
  <2>10. i = n + 1
    BY <2>1, <2>6, <2>9
  <2>11. ASSUME NEW j \in 1 .. n PROVE client.accepted[j] = j
    <3>1. CASE j \in 1 .. p
      BY <2>2, <3>1
    <3>2. CASE j \notin 1 .. p
      <4>1. PICK k \in 1 .. u : j = p + k
        <5>1. j - p \in 1 .. u /\ j = p + (j - p)
          BY ONLY <2>1, <3>2, j \in 1 .. n, n \in Nat, u \in Nat, p \in Nat
        <5>2. PICK k : k = j - p
          OBVIOUS
        <5>3. k \in 1 .. u /\ j = p + k
          BY <5>1, <5>2
        <5> QED BY <5>3
      <4>2. 1 + k \in 1 .. l /\ k \in 1 .. i - 1 - q
        <5>1. l = 1 + u /\ i = q + u + 1 /\ q \in Nat
          BY <2>2, <2>6
        <5> QED BY ONLY <5>1, u \in Nat, k \in 1 .. u
      <4>3. g[1 + k] = c[1 + k] /\ g[1 + k] = AnswerBody(q + k)
        BY <1>5, <2>5, <4>2 DEF Chained
      <4>4. PICK a \in 1 .. Len(sent) : a = client.accepted[j]
        BY <2>2
      <4>5. c[1 + k] = AnswerBody(a)
        BY <2>2, <4>1, <4>4, AnswerIs, ZenonT(30)
      <4>6. AnswerBody(a) = AnswerBody(j)
        BY <2>9, <4>1, <4>3, <4>5
      <4>7. AnswerBody(a).n = a /\ AnswerBody(j).n = j
        BY DEF AnswerBody
      <4> QED BY <4>4, <4>6, <4>7
    <3> QED BY <3>1, <3>2
  <2> QED BY <2>10, <2>11 DEF InOrder
<1> QED BY <1>9, <1>10

\* ClientSequence::answer_first and answer_subsequent with a signed answer that verifies.
LEMMA SignedTaken ==
    ASSUME RequestOK, ServerOK, ClientOK, Accepting, NEW i \in 1 .. Len(sent), sent[i].tsig.some = TRUE,
           setting.ordered => i = client.received + 1, setting.who[1] # "transaction",
           ServerRefused(sent[i]) = "ok",
           Checked(sent[i], Digest(client.ctx, client.first, sent[i].body, sent[i].tsig.time,
                                   sent[i].tsig.error, sent[i].tsig.other)) = "ok",
           client'.ctx = <<sent[i].tsig.mac>>, client'.first = FALSE,
           client'.unsigned = 0, client'.accepted = Append(client.accepted, i),
           client'.received = client.received + 1,
           UNCHANGED <<setting, server, request, sent>>
    PROVE  Accepting'
<1>1. client.accepted \in Seq(Nat) /\ Len(client.accepted) \in Nat /\ client.unsigned \in Nat
  BY SMT DEF ClientOK
<1>2. PICK n \in Nat : n = Len(client.accepted)
  BY <1>1
<1>3. PICK u \in Nat : u = client.unsigned
  BY <1>1
<1>4. ~ Refused
  <2> SUFFICES ASSUME Refused PROVE FALSE
    OBVIOUS
  <2>1. i = 1
    BY SMT DEF Refused
  <2> QED BY <2>1, NotRefused
<1>5. \A j \in 1 .. Len(sent) : AnswerOK(j)
  BY <1>4, MessageIs
<1>6. /\ sent[i].body = AnswerBody(i)
      /\ sent[i].tsig.error = "NOERROR" /\ sent[i].tsig.other = 0
  BY <1>5, AnswerIs
<1>7. PICK c, t, g : c = client.ctx /\ t = sent[i].tsig.time /\ g = sent[i].tsig.mac.tag
  OBVIOUS
<1>8. g = c \o <<AnswerBody(i), IF client.first THEN Full(t, "NOERROR", 0) ELSE Timers(t)>>
  <2>1. PICK d : d = Digest(client.ctx, client.first, sent[i].body, sent[i].tsig.time,
                            sent[i].tsig.error, sent[i].tsig.other)
    OBVIOUS
  <2>2. Checked(sent[i], d) = "ok"
    BY <2>1
  <2>3. compare_signatures(setting.ckey, d, sent[i].tsig.mac) = "ok"
    BY <2>2 DEF Checked
  <2>4. g = d
    BY <1>7, <2>3 DEF compare_signatures
  <2>5. d = Digest(c, client.first, AnswerBody(i), t, "NOERROR", 0)
    BY <1>6, <1>7, <2>1
  <2> QED BY <2>4, <2>5 DEF Digest
<1>9. i = n + 1 /\ \A j \in 1 .. n : client.accepted[j] = j
  <2>1. InOrder(i, n)
    BY <1>2, <1>3, <1>5, <1>7, <1>8, NextIs
  <2> QED BY <2>1 DEF InOrder
<1>10. i \in Nat
  BY ONLY <1>9, n \in Nat
<1>11. PICK a : a = client'.accepted
  OBVIOUS
<1>12. Len(a) = n + 1 /\ \A j \in 1 .. n + 1 : a[j] = j
  <2>1. Len(a) = n + 1 /\ a[n + 1] = i /\ \A j \in 1 .. n : a[j] = client.accepted[j]
    BY <1>1, <1>2, <1>10, <1>11, AppendProperties, SMT
  <2>2. \A j \in 1 .. n + 1 : j \in 1 .. n \/ j = n + 1
    BY SMT
  <2> QED BY <1>9, <2>1, <2>2
<1>13. IsSeq(client'.ctx) /\ Len(client'.ctx) = 1 /\ client'.ctx[1] = sent[i].tsig.mac
  <2>1. PICK m : m = sent[i].tsig.mac
    OBVIOUS
  <2>2. IsSeq(<<m>>) /\ Len(<<m>>) = 1 /\ <<m>>[1] = m
    BY FewIs
  <2> QED BY <2>1, <2>2
<1>14. ~ Refused'
  BY <1>4 DEF Refused
<1>15. /\ Len(client'.accepted) - client'.unsigned = n + 1 /\ n + 1 > 0
       /\ client'.unsigned <= Len(client'.accepted)
       /\ Len(client'.ctx) = 1 + client'.unsigned
       /\ 1 .. client'.unsigned = {}
  BY <1>11, <1>12, <1>13, SMT
<1>16. \A j \in 1 .. n + 1 : j \in 1 .. Len(sent)
  BY <1>9, SMT
<1>17. setting.ordered => n + 1 = client'.received
  <2>1. setting.ordered => n = client.received
    BY <1>2 DEF Accepting
  <2> QED BY <2>1
<1>18. sent'[n + 1].tsig.some = TRUE /\ client'.ctx[1] = sent'[n + 1].tsig.mac
  BY <1>9, <1>13
<1>19. /\ \A j \in 1 .. Len(client'.accepted) : client'.accepted[j] = j
       /\ \A j \in 1 .. Len(client'.accepted) : client'.accepted[j] \in 1 .. Len(sent')
       /\ Len(client'.accepted) = n + 1
  BY <1>11, <1>12, <1>16
<1> QED BY <1>13, <1>14, <1>15, <1>17, <1>18, <1>19 DEF Accepting

\* What the checks say.
Verdicts == {"ok", "ServerUnsigned", "TooManyUnsigned", "ServerBadKey", "ServerBadSig", "BadTrunc",
             "BadSig", "ServerBadTime", "BadTime"}

\* The checks of a signed answer end in a verdict.
LEMMA CheckedIs == ASSUME NEW m, NEW tag PROVE Checked(m, tag) \in Verdicts
<1>1. PICK cmp : cmp = compare_signatures(setting.ckey, tag, m.tsig.mac)
  OBVIOUS
<1>2. cmp \in Verdicts
  BY <1>1 DEF compare_signatures, Verdicts
<1>3. check_answer_time(m) \in Verdicts
  BY DEF check_answer_time, Verdicts
<1> QED BY <1>1, <1>2, <1>3 DEF Checked

\* The outcomes of ClientTransaction::answer.
LEMMA TransactionIs ==
    ASSUME NEW m
    PROVE  /\ TransactionAnswer(m).res \in Verdicts
           /\ TransactionAnswer(m).first = TRUE /\ TransactionAnswer(m).unsigned = 0
<1>1. PICK d : d = Digest(client.ctx, TRUE, m.body, m.tsig.time, m.tsig.error, m.tsig.other)
  OBVIOUS
<1>2. Checked(m, d) \in Verdicts /\ ServerRefused(m) \in Verdicts
  BY CheckedIs DEF ServerRefused, Verdicts
<1>3. TransactionAnswer(m).res = IF ~ m.tsig.some THEN "ServerUnsigned"
                                 ELSE IF ServerRefused(m) # "ok" THEN ServerRefused(m)
                                 ELSE Checked(m, d)
  BY <1>1 DEF TransactionAnswer
<1>4. TransactionAnswer(m).res \in Verdicts
  BY <1>2, <1>3 DEF Verdicts
<1> QED BY <1>4 DEF TransactionAnswer

\* The outcomes of ClientSequence::answer.
SequenceTakes(m, r) ==
    /\ r.res \in Verdicts /\ r.first \in BOOLEAN /\ r.unsigned \in Nat
    /\ r.res = "ok" =>
         \/ /\ ~ m.tsig.some /\ client.first = FALSE
            /\ r.ctx = Append(client.ctx, m.body) /\ r.first = FALSE
            /\ r.unsigned = client.unsigned + 1
         \/ /\ m.tsig.some
            /\ ServerRefused(m) = "ok"
            /\ Checked(m, Digest(client.ctx, client.first, m.body, m.tsig.time,
                                 m.tsig.error, m.tsig.other)) = "ok"
            /\ r.ctx = <<m.tsig.mac>> /\ r.first = FALSE /\ r.unsigned = 0

\* ClientSequence::answer takes a message in one of these ways.
LEMMA SequenceIs ==
    ASSUME ClientOK, NEW m, NEW r, r = SequenceAnswer(m) PROVE SequenceTakes(m, r)
<1>1. PICK d, cmp, res :
        /\ d = Digest(client.ctx, client.first, m.body, m.tsig.time, m.tsig.error, m.tsig.other)
        /\ cmp = compare_signatures(setting.ckey, d, m.tsig.mac)
        /\ res = Checked(m, d)
  OBVIOUS
<1>2. res \in Verdicts /\ ServerRefused(m) \in Verdicts
  BY <1>1, CheckedIs DEF ServerRefused, Verdicts
<1>3. client.first \in BOOLEAN /\ client.unsigned \in Nat
  BY DEF ClientOK
<1>4. res = "ok" => cmp = "ok"
  BY <1>1 DEF Checked
<1>5. CASE ~ m.tsig.some
  <2>1. CASE client.first
    <3>1. r = Untouched("ServerUnsigned")
      BY <1>5, <2>1 DEF SequenceAnswer
    <3> QED BY <1>3, <3>1, SMT DEF Untouched, SequenceTakes, Verdicts
  <2>2. CASE ~ client.first /\ client.unsigned >= MaxUnsigned
    <3>1. r = Untouched("TooManyUnsigned")
      BY <1>5, <2>2 DEF SequenceAnswer
    <3> QED BY <1>3, <3>1, SMT DEF Untouched, SequenceTakes, Verdicts
  <2>3. CASE ~ client.first /\ ~ (client.unsigned >= MaxUnsigned)
    <3>1. PICK c, u : c = Append(client.ctx, m.body) /\ u = client.unsigned + 1
      OBVIOUS
    <3>2. r = [res |-> "ok", ctx |-> c, first |-> FALSE, unsigned |-> u]
      BY <1>5, <2>3, <3>1 DEF SequenceAnswer
    <3>3. u \in Nat
      BY <1>3, <3>1, SMT
    <3>4. r.res = "ok" /\ r.ctx = c /\ r.first = FALSE /\ r.unsigned = u
      BY <3>2, SMT
    <3> QED BY <1>3, <1>5, <2>3, <3>1, <3>3, <3>4 DEF SequenceTakes, Verdicts
  <2> QED BY <2>1, <2>2, <2>3
<1>6. CASE m.tsig.some /\ ServerRefused(m) # "ok"
  <2>1. r = Untouched(ServerRefused(m))
    BY <1>6 DEF SequenceAnswer
  <2> QED BY <1>2, <1>3, <1>6, <2>1, SMT DEF Untouched, SequenceTakes
<1>7. CASE m.tsig.some /\ ServerRefused(m) = "ok"
  <2>1. PICK c, f, u : /\ c = NextContext(m, cmp) /\ f = (client.first /\ res # "ok")
                       /\ u = IF res = "ok" THEN 0 ELSE client.unsigned
    OBVIOUS
  <2>2. r = [res |-> res, ctx |-> c, first |-> f, unsigned |-> u]
    BY <1>1, <1>7, <2>1 DEF SequenceAnswer
  <2>3. r.res = res /\ r.ctx = c /\ r.first = f /\ r.unsigned = u
    BY <2>2, SMT
  <2>4. f \in BOOLEAN /\ u \in Nat
    BY <1>3, <2>1
  <2>5. res = "ok" => c = <<m.tsig.mac>> /\ f = FALSE /\ u = 0
    BY <1>4, <2>1 DEF NextContext
  <2> QED BY <1>1, <1>2, <1>7, <2>3, <2>4, <2>5 DEF SequenceTakes
<1> QED BY <1>5, <1>6, <1>7

\* The client after a message.
Moved(ctx, first, unsigned, accepted, error, st) ==
    /\ client' \in [st : {"Init", "GetResponse", "Complete", "failed"}, ctx : {client'.ctx},
                    first : BOOLEAN, unsigned : Nat, accepted : Seq(Nat), error : {client'.error},
                    received : Nat]
    /\ client'.ctx = ctx /\ client'.first = first /\ client'.unsigned = unsigned
    /\ client'.accepted = accepted /\ client'.error = error /\ client'.st = st
    /\ client'.received = client.received + 1

\* The fields of a client that has taken a message.
LEMMA ClientMoves ==
    ASSUME ClientOK, NEW ctx, NEW first \in BOOLEAN, NEW unsigned \in Nat, NEW accepted \in Seq(Nat),
           NEW error, NEW st \in {"Init", "GetResponse", "Complete", "failed"},
           client' = [client EXCEPT
                         !.ctx = ctx, !.first = first, !.unsigned = unsigned, !.received = @ + 1,
                         !.accepted = accepted, !.error = error, !.st = st]
    PROVE  Moved(ctx, first, unsigned, accepted, error, st)
<1>1. client \in [st : {"Init", "GetResponse", "Complete", "failed"}, ctx : {client.ctx},
                  first : BOOLEAN, unsigned : Nat, accepted : Seq(Nat), error : {client.error},
                  received : Nat]
  BY DEF ClientOK
<1>2. client.received + 1 \in Nat
  BY <1>1, SMT
<1>3. PICK n \in Nat : n = client.received + 1
  BY <1>2
<1>4. client' = [client EXCEPT
                    !.ctx = ctx, !.first = first, !.unsigned = unsigned, !.received = n,
                    !.accepted = accepted, !.error = error, !.st = st]
  BY <1>3
<1>5. /\ client'.ctx = ctx /\ client'.first = first /\ client'.unsigned = unsigned
      /\ client'.accepted = accepted /\ client'.error = error /\ client'.st = st
      /\ client'.received = n
  BY <1>1, <1>4
<1>6. client' \in [st : {"Init", "GetResponse", "Complete", "failed"}, ctx : {ctx},
                   first : BOOLEAN, unsigned : Nat, accepted : Seq(Nat), error : {error},
                   received : Nat]
  BY <1>1, <1>4
<1> QED BY <1>3, <1>5, <1>6 DEF Moved

\* An error the user is told of is one.
LEMMA ErrorIs == ASSUME NEW w, w # "none", NEW i, NEW t PROVE [what |-> w, msg |-> i, at |-> t] # NoError
<1>1. [what |-> w, msg |-> i, at |-> t].what = w /\ NoError.what = "none"
  BY DEF NoError
<1> QED BY <1>1

\* get_response_impl with a message.
LEMMA GetResponseStep ==
    ASSUME RequestOK, ServerOK, ClientOK, AcceptedIsPrefix, GetResponse
    PROVE  ClientOK' /\ AcceptedIsPrefix' /\ client'.st # "Init"
<1>1. PICK i, r :
        /\ i \in DOMAIN sent /\ client.st = "GetResponse"
        /\ setting.ordered => i = client.received + 1
        /\ r = IF setting.who[1] = "transaction" THEN TransactionAnswer(sent[i]) ELSE SequenceAnswer(sent[i])
        /\ client' = [client EXCEPT
               !.ctx = r.ctx, !.first = r.first, !.unsigned = r.unsigned, !.received = @ + 1,
               !.accepted = IF r.res = "ok" THEN Append(@, i) ELSE @,
               !.error = FirstError(r.res, i),
               !.st = IF setting.who[1] = "transaction" /\ r.res = "ok" THEN "Complete" ELSE @]
        /\ UNCHANGED <<setting, time, server, request, sent>>
  BY DEF GetResponse
<1>2. i \in 1 .. Len(sent) /\ i \in Nat /\ Len(sent) \in Nat
  BY <1>1, SMT DEF ServerOK, IsSeq
<1>3. r.res \in Verdicts /\ r.first \in BOOLEAN /\ r.unsigned \in Nat
  <2>1. CASE setting.who[1] = "transaction"
    <3>1. r = TransactionAnswer(sent[i])
      BY <1>1, <2>1
    <3>2. PICK m : m = sent[i]
      OBVIOUS
    <3>3. TransactionAnswer(m).res \in Verdicts /\ TransactionAnswer(m).first = TRUE
          /\ TransactionAnswer(m).unsigned = 0
      BY TransactionIs
    <3>4. r.res \in Verdicts /\ r.first = TRUE /\ r.unsigned = 0
      BY <3>1, <3>2, <3>3
    <3>5. r.first \in BOOLEAN
      BY <3>4, Zenon
    <3>6. r.unsigned \in Nat
      BY <3>4, SMT
    <3> QED BY <3>4, <3>5, <3>6
  <2>2. CASE setting.who[1] # "transaction"
    <3>1. SequenceTakes(sent[i], r)
      BY <1>1, <2>2, SequenceIs
    <3> QED BY <3>1 DEF SequenceTakes
  <2> QED BY <2>1, <2>2
<1>4. PICK a, e, st :
        /\ a = IF r.res = "ok" THEN Append(client.accepted, i) ELSE client.accepted
        /\ e = FirstError(r.res, i)
        /\ st = IF setting.who[1] = "transaction" /\ r.res = "ok" THEN "Complete" ELSE client.st
  OBVIOUS
<1>5. a \in Seq(Nat) /\ st \in {"GetResponse", "Complete"}
  <2>1. client.accepted \in Seq(Nat)
    BY DEF ClientOK
  <2>2. Append(client.accepted, i) \in Seq(Nat)
    BY <1>2, <2>1, AppendProperties
  <2> QED BY <1>1, <1>4, <2>1, <2>2
<1>6. /\ client' \in [st : {"Init", "GetResponse", "Complete", "failed"}, ctx : {client'.ctx},
                      first : BOOLEAN, unsigned : Nat, accepted : Seq(Nat), error : {client'.error},
                      received : Nat]
      /\ client'.ctx = r.ctx /\ client'.first = r.first /\ client'.unsigned = r.unsigned
      /\ client'.accepted = a /\ client'.error = e /\ client'.st = st
      /\ client'.received = client.received + 1
  <2>1. PICK c, f, u : c = r.ctx /\ f = r.first /\ u = r.unsigned
    OBVIOUS
  <2>2. client' = [client EXCEPT
                      !.ctx = c, !.first = f, !.unsigned = u, !.received = @ + 1,
                      !.accepted = a, !.error = e, !.st = st]
    BY <1>1, <1>4, <2>1
  <2>3. /\ f \in BOOLEAN /\ u \in Nat /\ a \in Seq(Nat)
        /\ st \in {"Init", "GetResponse", "Complete", "failed"}
    BY <1>3, <1>5, <2>1
  <2>4. Moved(c, f, u, a, e, st)
    BY <2>2, <2>3, ClientMoves
  <2> QED BY <2>1, <2>4 DEF Moved
<1>7. ASSUME client'.error = NoError, client'.st = "GetResponse" PROVE Accepting'
  <2>1. client.error = NoError /\ r.res = "ok"
    <3>1. client.error # NoError => e = client.error
      BY <1>4 DEF FirstError
    <3>2. client.error = NoError /\ r.res # "ok" => e # NoError
      <4>1. r.res # "none"
        BY <1>3 DEF Verdicts
      <4>2. client.error = NoError /\ r.res # "ok" => e = [what |-> r.res, msg |-> i, at |-> time]
        BY <1>4 DEF FirstError
      <4> QED BY <4>1, <4>2, ErrorIs
    <3> QED BY <1>6, <1>7, <3>1, <3>2
  <2>2. setting.who[1] # "transaction" /\ Accepting
    BY <1>1, <1>4, <1>6, <1>7, <2>1 DEF ClientOK
  <2>3. SequenceTakes(sent[i], r)
    BY <1>1, <2>2, SequenceIs
  <2>4. a = Append(client.accepted, i)
    BY <1>4, <2>1
  <2>5. CASE ~ sent[i].tsig.some
    <3>1. /\ client.first = FALSE
          /\ r.ctx = Append(client.ctx, sent[i].body) /\ r.first = FALSE
          /\ r.unsigned = client.unsigned + 1
      BY <2>1, <2>3, <2>5 DEF SequenceTakes
    <3>2. sent[i].tsig.some # TRUE
      BY <2>5
    <3>3. /\ client'.ctx = Append(client.ctx, sent[i].body) /\ client'.first = FALSE
          /\ client'.unsigned = client.unsigned + 1 /\ client'.accepted = Append(client.accepted, i)
          /\ client'.received = client.received + 1
      BY <1>6, <2>4, <3>1
    <3>4. UNCHANGED <<setting, server, request, sent>> /\ (setting.ordered => i = client.received + 1)
      BY <1>1
    <3> QED BY <1>2, <2>2, <3>1, <3>2, <3>3, <3>4, UnsignedTaken
  <2>6. CASE sent[i].tsig.some
    <3>1. /\ ServerRefused(sent[i]) = "ok"
          /\ Checked(sent[i], Digest(client.ctx, client.first, sent[i].body, sent[i].tsig.time,
                                     sent[i].tsig.error, sent[i].tsig.other)) = "ok"
          /\ r.ctx = <<sent[i].tsig.mac>> /\ r.first = FALSE /\ r.unsigned = 0
      BY <2>1, <2>3, <2>6 DEF SequenceTakes
    <3>2. sent[i].tsig.some = TRUE
      <4>1. Refused /\ i = 1 => sent[i].tsig.some = TRUE
        BY DEF Refused
      <4>2. AnswerOK(i) => sent[i].tsig.some = TRUE
        BY <2>6 DEF AnswerOK, NoTsig
      <4> QED BY <1>2, <2>6, <4>1, <4>2, MessageIs
    <3>3. /\ client'.ctx = <<sent[i].tsig.mac>> /\ client'.first = FALSE
          /\ client'.unsigned = 0 /\ client'.accepted = Append(client.accepted, i)
          /\ client'.received = client.received + 1
      BY <1>6, <2>4, <3>1
    <3>4. UNCHANGED <<setting, server, request, sent>> /\ (setting.ordered => i = client.received + 1)
      BY <1>1
    <3> QED BY <1>2, <2>2, <3>1, <3>2, <3>3, <3>4, SignedTaken
  <2> QED BY <2>5, <2>6
<1>8. client'.st # "Init" /\ client'.st # "failed"
  BY <1>5, <1>6
<1>9. ClientOK'
  BY <1>6, <1>7, <1>8 DEF ClientOK
<1>10. AcceptedIsPrefix'
  BY <1>1, <1>4, <1>6, SMT DEF AcceptedIsPrefix
<1> QED BY <1>8, <1>9, <1>10

\* ClientSequence::done.
LEMMA DoneStep ==
    ASSUME RequestOK, ServerOK, ClientOK, AcceptedIsPrefix, Done
    PROVE  ClientOK' /\ AcceptedIsPrefix' /\ client'.st # "Init"
<1>1. PICK st, e :
        /\ client.st = "GetResponse" /\ setting.who[1] = "sequence"
        /\ st = IF client.unsigned # 0 THEN "failed" ELSE "Complete"
        /\ e = FirstError(IF client.unsigned # 0 THEN "TooManyUnsigned" ELSE "ok", 0)
        /\ client' = [client EXCEPT !.st = st, !.error = e]
        /\ UNCHANGED <<setting, time, server, request, sent>>
  BY DEF Done
<1>2. client \in [st : {"Init", "GetResponse", "Complete", "failed"}, ctx : {client.ctx},
                  first : BOOLEAN, unsigned : Nat, accepted : Seq(Nat), error : {client.error},
                  received : Nat]
  BY DEF ClientOK
<1>3. /\ client'.st = st /\ client'.error = e /\ client'.ctx = client.ctx
      /\ client'.accepted = client.accepted
  BY <1>1, <1>2
<1>4. client' \in [st : {"Init", "GetResponse", "Complete", "failed"}, ctx : {client.ctx},
                   first : BOOLEAN, unsigned : Nat, accepted : Seq(Nat), error : {e},
                   received : Nat]
  BY <1>1, <1>2
<1>5. st = "failed" => e # NoError
  <2> SUFFICES ASSUME st = "failed" PROVE e # NoError
    OBVIOUS
  <2>1. e = IF client.error = NoError THEN [what |-> "TooManyUnsigned", msg |-> 0, at |-> time]
            ELSE client.error
    BY <1>1 DEF FirstError
  <2> QED BY <2>1, ErrorIs
<1>6. ClientOK'
  BY <1>1, <1>3, <1>4, <1>5 DEF ClientOK
<1>7. ASSUME client'.st = "Complete", client'.error = NoError
      PROVE  client'.accepted = [i \in 1 .. Len(client'.accepted) |-> i]
  <2>1. client.unsigned = 0 /\ client.error = NoError
    <3>1. client.unsigned = 0
      BY <1>1, <1>3, <1>7, SMT
    <3>2. e = client.error
      BY <1>1, <3>1 DEF FirstError
    <3> QED BY <1>3, <1>7, <3>1, <3>2
  <2>2. Accepting
    BY <1>1, <2>1 DEF ClientOK
  <2>3. PICK a \in Seq(Nat), n \in Nat : a = client.accepted /\ n = Len(a)
    BY <1>2, SMT
  <2>4. n - client.unsigned = n
    BY <2>1, SMT
  <2>5. \A j \in 1 .. n : a[j] = j
    BY <2>2, <2>3, <2>4 DEF Accepting
  <2>6. a = [j \in 1 .. n |-> a[j]]
    BY <2>3, LenProperties
  <2>7. a = [j \in 1 .. n |-> j]
    BY <2>5, <2>6
  <2> QED BY <1>3, <2>3, <2>7
<1> QED BY <1>1, <1>3, <1>6, <1>7, SMT DEF AcceptedIsPrefix

\* A step of the server.
LEMMA ClientUnmoved ==
    ASSUME ClientOK, AcceptedIsPrefix, Extends, UNCHANGED client PROVE ClientOK' /\ AcceptedIsPrefix'
<1>1. Accepting => Accepting'
  BY AcceptingKept
<1>2. setting' = setting
  BY DEF Extends
<1> QED BY <1>1, <1>2 DEF ClientOK, AcceptedIsPrefix

\* ClientTransaction::request and ClientSequence::request.
LEMMA SignRequestStep ==
    ASSUME RequestOK, ServerOK, ClientOK, SignRequest
    PROVE  RequestOK' /\ ServerOK' /\ ClientOK' /\ AcceptedIsPrefix'
<1>1. PICK mac :
        /\ mac = Mac(<<RequestBody, Full(time, "NOERROR", 0)>>, setting.ckey.sign)
        /\ client.st = "Init"
        /\ request' = TsigRecord(time, "NOERROR", 0, mac)
        /\ client' = [client EXCEPT !.st = "GetResponse", !.ctx = <<mac>>]
        /\ UNCHANGED <<setting, time, server, sent>>
  BY DEF SignRequest
<1>2. /\ client.accepted = << >> /\ client.error = NoError /\ client.first = TRUE
      /\ client.unsigned = 0 /\ client.received = 0
  BY <1>1 DEF ClientOK
<1>3. server.st = "idle" /\ sent = << >> /\ setting \in Settings
  BY <1>1 DEF RequestOK, ServerOK
<1>4. request'.time = time /\ request'.mac = mac
  BY <1>1 DEF TsigRecord
<1>5. /\ client'.st = "GetResponse" /\ client'.ctx = <<mac>> /\ client'.accepted = << >>
      /\ client'.error = NoError /\ client'.first = TRUE
      /\ client'.unsigned = 0 /\ client'.received = 0
      /\ client' \in [st : {"Init", "GetResponse", "Complete", "failed"}, ctx : {client'.ctx},
                      first : BOOLEAN, unsigned : Nat, accepted : Seq(Nat), error : {client'.error},
                      received : Nat]
  <2>1. client \in [st : {"Init", "GetResponse", "Complete", "failed"}, ctx : {client.ctx},
                    first : BOOLEAN, unsigned : Nat, accepted : Seq(Nat), error : {client.error},
                    received : Nat]
    BY DEF ClientOK
  <2>2. PICK c : c = <<mac>>
    OBVIOUS
  <2>3. /\ client'.st = "GetResponse" /\ client'.ctx = c /\ client'.accepted = client.accepted
        /\ client'.error = client.error /\ client'.first = client.first
        /\ client'.unsigned = client.unsigned /\ client'.received = client.received
    BY <1>1, <2>1, <2>2
  <2>4. client' \in [st : {"Init", "GetResponse", "Complete", "failed"}, ctx : {c},
                     first : BOOLEAN, unsigned : Nat, accepted : Seq(Nat), error : {client.error},
                     received : Nat]
    BY <1>1, <2>1, <2>2
  <2> QED BY <1>2, <2>2, <2>3, <2>4
<1>6. RequestOK'
  <2>1. request' = TsigRecord(request'.time, "NOERROR", 0,
                     Mac(<<RequestBody, Full(request'.time, "NOERROR", 0)>>, setting'.ckey.sign))
    BY <1>1, <1>4
  <2> QED BY <1>1, <1>3, <1>5, <2>1 DEF RequestOK
<1>7. ServerOK'
  <2>1. Len(sent) = 0
    BY <1>3
  <2> QED BY <1>1, <1>3, <2>1 DEF ServerOK
<1>8. Accepting'
  <2>1. IsSeq(client'.ctx) /\ Len(client'.ctx) = 1 /\ client'.ctx[1] = request'.mac
    <3>1. IsSeq(<<mac>>) /\ Len(<<mac>>) = 1 /\ <<mac>>[1] = mac
      BY FewIs
    <3> QED BY <1>4, <1>5, <3>1
  <2>2. Len(client'.accepted) = 0 /\ Len(client'.accepted) - client'.unsigned = 0 /\ 1 .. 0 = {}
        /\ client'.unsigned <= Len(client'.accepted)
    BY <1>5, SMT
  <2> QED BY <1>5, <2>1, <2>2, SMT DEF Accepting
<1>9. ClientOK'
  BY <1>5, <1>8 DEF ClientOK
<1>10. AcceptedIsPrefix'
  BY <1>5 DEF AcceptedIsPrefix
<1> QED BY <1>6, <1>7, <1>9, <1>10

\* At the start.
LEMMA TSInitOK == TSInit => TSInv
<1> SUFFICES ASSUME TSInit PROVE TSInv
  OBVIOUS
<1>1. RequestOK
  BY DEF TSInit, RequestOK
<1>2. ServerOK
  <2>1. IsSeq(sent) /\ Len(sent) = 0
    BY SMT DEF TSInit, IsSeq
  <2> QED BY <2>1, SMT DEF TSInit, ServerOK
<1>3. ClientOK /\ AcceptedIsPrefix
  BY SMT DEF TSInit, ClientOK, AcceptedIsPrefix
<1> QED BY <1>1, <1>2, <1>3 DEF TSInv

\* Every step keeps the invariant.
LEMMA TSStep == TSInv /\ [TSNext]_tsvars => TSInv'
<1> SUFFICES ASSUME TSInv, [TSNext]_tsvars PROVE TSInv'
  OBVIOUS
<1>0. RequestOK /\ ServerOK /\ ClientOK /\ AcceptedIsPrefix
  BY DEF TSInv
<1>1. CASE SignRequest
  BY <1>0, <1>1, SignRequestStep DEF TSInv
<1>2. ASSUME Extends, ServerOK', UNCHANGED client PROVE TSInv'
  <2>1. setting' = setting /\ request' = request
    BY <1>2 DEF Extends
  <2>2. RequestOK'
    <3>1. client.st = "Init" => server'.st = "idle"
      <4>1. client.st = "Init" => request'.some = FALSE
        BY <1>0, <2>1, SMT DEF RequestOK, NoTsig
      <4> QED BY <1>2, <4>1 DEF ServerOK
    <3> QED BY <1>0, <1>2, <2>1, <3>1 DEF RequestOK
  <2>3. ClientOK' /\ AcceptedIsPrefix'
    BY <1>0, <1>2, ClientUnmoved
  <2> QED BY <1>2, <2>2, <2>3 DEF TSInv
<1>3. CASE ServerRequest
  BY <1>0, <1>2, <1>3, ServerRequestStep DEF ServerRequest
<1>4. CASE ServerAnswer
  BY <1>0, <1>2, <1>4, ServerAnswerStep DEF ServerAnswer
<1>5. ASSUME NEW sign \in BOOLEAN, SparseAnswer(sign) PROVE TSInv'
  BY <1>0, <1>2, <1>5, SparseStep DEF SparseAnswer
<1>6. CASE ServerEnds
  BY <1>0, <1>2, <1>6, ServerEndsStep DEF ServerEnds
<1>7. ASSUME GetResponse \/ Done PROVE TSInv'
  <2>1. UNCHANGED <<setting, server, request, sent>> /\ client.st # "Init"
    BY <1>7 DEF GetResponse, Done
  <2>2. ClientOK' /\ AcceptedIsPrefix' /\ client'.st # "Init"
    BY <1>0, <1>7, GetResponseStep, DoneStep
  <2>3. ServerOK'
    BY <1>0, <2>1, ServerUnmoved
  <2>4. RequestOK'
    BY <1>0, <2>1, <2>2 DEF RequestOK
  <2> QED BY <2>2, <2>3, <2>4 DEF TSInv
<1>8. CASE UNCHANGED <<setting, client, server, request, sent>>
  BY <1>0, <1>2, <1>8, ServerUnmoved
<1> QED BY <1>1, <1>3, <1>4, <1>5, <1>6, <1>7, <1>8 DEF TSNext, ClockTick, tsvars

\* However answers are lost, repeated or reordered, a sequence that ends without an
\* error has accepted the first so many answers in order (ClientSequence).
THEOREM SequencesWhole == TSSpec => []AcceptedIsPrefix
<1>1. TSInv => AcceptedIsPrefix
  BY DEF TSInv
<1> QED BY TSInitOK, TSStep, <1>1, PTL DEF TSSpec

-----------------------------------------------------------------------------
(* Faults the client finds, if answers arrive in order. *)

\* The context starts with the MAC as it was sent.
WholeMacs == \A k \in ServerKeys : k.sign = NativeLen

\* There is a reason to find fault w with answer i at time t.
Faulty(w, i, t) ==
    \/ w = "ServerBadKey" /\ setting.known = FALSE
    \/ w = "BadTrunc" /\ (setting.skey.sign < setting.ckey.min \/ setting.ckey.sign < setting.skey.min)
    \/ /\ w = "ServerBadTime" /\ i \in 1 .. Len(sent)
       /\ ~ is_valid_at(request.time, sent[i].tsig.other)
    \/ /\ w = "BadTime" /\ i \in 1 .. Len(sent)
       /\ ~ is_valid_at(sent[i].tsig.time, t) /\ sent[i].body # ErrorBody

RealError ==
    setting.ordered /\ client.error # NoError => Faulty(client.error.what, client.error.msg, client.error.at)

\* What is true of a client that takes the answers in order.
LEMMA InOrderIs ==
    ASSUME ServerOK, ClientOK, Accepting, setting.ordered, NEW n \in Nat, n = client.received,
           NEW u \in Nat, u = client.unsigned
    PROVE  /\ Len(client.accepted) = n /\ u <= n
           /\ client.first => n = 0
           /\ ~ client.first => /\ n - u > 0 /\ sent[n - u].tsig.some = TRUE
                                /\ \A j \in 1 .. u : sent[n - u + j].tsig = NoTsig
<1>1. Len(client.accepted) = n /\ u <= n /\ \A j \in 1 .. n : client.accepted[j] = j
  BY DEF Accepting
<1>2. ASSUME ~ client.first, NEW j \in 1 .. u PROVE sent[n - u + j].tsig = NoTsig
  <2>1. n - u > 0
    BY <1>1, <1>2 DEF Accepting
  <2>2. PICK k : k = n - u + j
    OBVIOUS
  <2>3. k \in 1 .. n
    BY <1>1, <2>1, <2>2, SMT
  <2>4. client.accepted[k] = k
    BY <1>1, <2>3
  <2>5. sent[client.accepted[n - u + j]].tsig = NoTsig
    BY <1>1, <1>2 DEF Accepting
  <2> QED BY <2>2, <2>4, <2>5
<1> QED BY <1>1, <1>2 DEF Accepting

\* The last signed answer is the same for both.
LEMMA SameLast ==
    ASSUME ServerOK, ClientOK, Accepting, setting.ordered, NEW n \in Nat, n = client.received,
           NEW u \in Nat, u = client.unsigned, NEW q \in 1 .. n, LastSigned(q, n + 1)
    PROVE  client.first = FALSE /\ q = n - u /\ q + u = n
<1>1. client.first = FALSE
  <2>1. client.first \in BOOLEAN
    BY DEF ClientOK
  <2>2. client.first => n = 0
    BY InOrderIs
  <2>3. n # 0
    BY SMT
  <2> QED BY <2>1, <2>2, <2>3
<1>2. /\ u <= n /\ n - u > 0 /\ sent[n - u].tsig.some = TRUE
      /\ \A j \in 1 .. u : sent[n - u + j].tsig = NoTsig
  BY <1>1, InOrderIs
<1>3. PICK p \in Nat : p = n - u
  BY <1>2, SMT
<1>4. p + u = n /\ p > 0
  BY <1>2, <1>3, SMT
<1>5. ~ (q < p)
  <2> SUFFICES ASSUME q < p PROVE FALSE
    OBVIOUS
  <2>1. p \in q + 1 .. n + 1 - 1
    BY <1>4, SMT
  <2> QED BY <1>2, <1>3, <2>1, SMT DEF LastSigned
<1>6. ~ (q > p)
  <2> SUFFICES ASSUME q > p PROVE FALSE
    OBVIOUS
  <2>1. PICK j : j = q - p
    OBVIOUS
  <2>2. j \in 1 .. u /\ p + j = q
    BY <1>4, <2>1, SMT
  <2>3. sent[q].tsig = NoTsig
    BY <1>2, <1>3, <2>2
  <2> QED BY <2>3, SMT DEF LastSigned, NoTsig
<1> QED BY <1>1, <1>3, <1>4, <1>5, <1>6, SMT

\* The digest the client computes for an answer is the one the server signed.
LEMMA SameDigest ==
    ASSUME WholeMacs, RequestOK, ServerOK, ClientOK, Accepting, setting.ordered,
           NEW i \in 1 .. Len(sent), i = client.received + 1, sent[i].tsig.some = TRUE,
           \A j \in 1 .. Len(sent) : AnswerOK(j)
    PROVE  Digest(client.ctx, client.first, sent[i].body, sent[i].tsig.time, sent[i].tsig.error,
                  sent[i].tsig.other) = sent[i].tsig.mac.tag
<1>1. client.received \in Nat /\ client.unsigned \in Nat /\ client.first \in BOOLEAN
  BY DEF ClientOK
<1>2. PICK n \in Nat : n = client.received
  BY <1>1
<1>3. PICK u \in Nat : u = client.unsigned
  BY <1>1
<1>4. PICK c, t, g : c = client.ctx /\ t = sent[i].tsig.time /\ g = sent[i].tsig.mac.tag
  OBVIOUS
<1>5. PICK x, d : /\ x = IF client.first THEN Full(t, "NOERROR", 0) ELSE Timers(t)
                  /\ d = c \o <<AnswerBody(i), x>>
  OBVIOUS
<1>6. /\ sent[i].body = AnswerBody(i)
      /\ sent[i].tsig.error = "NOERROR" /\ sent[i].tsig.other = 0 /\ SignedAs(i, t, g)
  BY <1>4, AnswerIs DEF AnswerSigned
<1>7. d = Digest(client.ctx, client.first, sent[i].body, sent[i].tsig.time, sent[i].tsig.error,
                 sent[i].tsig.other)
  BY <1>4, <1>5, <1>6 DEF Digest
<1>8. IsSeq(c)
  BY <1>4 DEF Accepting
<1>9. PICK l \in Nat : l = Len(c)
  BY <1>8 DEF IsSeq
<1>10. /\ IsSeq(d) /\ Len(d) = l + 2 /\ d[l + 1] = AnswerBody(i) /\ d[l + 2] = x
       /\ \A j \in 1 .. l : d[j] = c[j]
  <2>1. Fed(c, AnswerBody(i), x, d)
    BY <1>5, <1>8, DigestIs
  <2> QED BY <1>9, <2>1 DEF Fed
<1>11. i = n + 1 /\ i \in Nat /\ IsSeq(g) /\ Len(g) \in Nat /\ g[Len(g) - 1] = AnswerBody(i)
  BY <1>2, <1>6, SMT DEF SignedAs, IsSeq
<1>12. CASE i = 1
  <2>1. n = 0 /\ client.first = TRUE
    <3>1. n = 0
      BY <1>11, <1>12, SMT
    <3>2. ~ client.first => n - u > 0
      BY <1>2, <1>3, InOrderIs
    <3> QED BY <1>1, <3>1, <3>2, SMT
  <2>2. l = 1 /\ c[1] = request.mac
    BY <1>4, <1>9, <2>1 DEF Accepting
  <2>3. Len(g) = 3 /\ g[1] = request.mac /\ g[3] = Full(t, "NOERROR", 0)
    BY <1>6, <1>12 DEF SignedAs
  <2>4. g[2] = AnswerBody(i)
    <3>1. Len(g) - 1 = 2
      BY <2>3, SMT
    <3> QED BY <1>11, <3>1
  <2>5. Len(d) = 3 /\ d[1] = request.mac /\ d[2] = AnswerBody(i) /\ d[3] = Full(t, "NOERROR", 0)
    <3>1. l + 2 = 3 /\ l + 1 = 2 /\ 1 \in 1 .. l
      BY <2>2, SMT
    <3>2. x = Full(t, "NOERROR", 0)
      BY <1>5, <2>1
    <3> QED BY <1>10, <2>2, <3>1, <3>2
  <2>6. \A j \in 1 .. Len(d) : d[j] = g[j]
    <3>1. \A j \in 1 .. Len(d) : j = 1 \/ j = 2 \/ j = 3
      BY <2>5, SMT
    <3> QED BY <2>3, <2>4, <2>5, <3>1
  <2>7. d = g
    BY <1>10, <1>11, <2>3, <2>5, <2>6, SameSeq, SMT
  <2> QED BY <1>4, <1>7, <2>7
<1>13. CASE i # 1
  <2>1. PICK q \in 1 .. i - 1 : /\ LastSigned(q, i) /\ Len(g) = i - q + 2 /\ Chained(g, q, i)
                                /\ g[Len(g)] = Timers(t)
    BY <1>6, <1>13 DEF SignedAs
  <2>2. q \in 1 .. n /\ LastSigned(q, n + 1) /\ q \in Nat
    <3>1. i - 1 = n
      BY <1>11, SMT
    <3> QED BY <1>11, <2>1, <3>1, SMT
  <2>3. client.first = FALSE /\ q = n - u /\ q + u = n
    BY <1>2, <1>3, <2>2, SameLast
  <2>4. l = 1 + u /\ c[1] = sent[q].tsig.mac
    BY <1>2, <1>3, <1>4, <1>9, <2>3, InOrderIs DEF Accepting
  <2>5. /\ Len(d) = u + 3 /\ Len(g) = u + 3
        /\ d[u + 3] = Timers(t) /\ g[u + 3] = Timers(t)
        /\ d[u + 2] = AnswerBody(i) /\ g[u + 2] = AnswerBody(i)
    <3>1. l + 2 = u + 3 /\ l + 1 = u + 2
      BY <2>4, SMT
    <3>2. i - q + 2 = u + 3
      BY ONLY <1>11, <2>2, <2>3, n \in Nat, u \in Nat
    <3>3. Len(g) = u + 3 /\ Len(g) - 1 = u + 2
      <4>1. Len(g) = u + 3
        BY <2>1, <3>2
      <4> QED BY <4>1, SMT
    <3>4. x = Timers(t)
      BY <1>5, <2>3
    <3> QED BY <1>10, <1>11, <2>1, <3>1, <3>3, <3>4
  <2>6. d[1] = g[1]
    <3>1. d[1] = sent[q].tsig.mac
      <4>1. 1 \in 1 .. l
        BY <2>4, SMT
      <4> QED BY <1>10, <2>4, <4>1
    <3>2. g[1] = Mac(sent[q].tsig.mac.tag, ContextLen)
      BY <2>1 DEF Chained
    <3>3. ContextLen = setting.skey.sign
      BY WhoIs DEF ContextLen, WholeMacs
    <3>4. sent[q].tsig.mac = Mac(sent[q].tsig.mac.tag, setting.skey.sign)
      <4>1. q \in 1 .. Len(sent) /\ sent[q].tsig.some = TRUE
        <5>1. PICK k \in Nat : k = Len(sent)
          BY DEF ServerOK, IsSeq
        <5>2. i \in 1 .. k
          BY <5>1
        <5>3. q \in 1 .. k
          BY ONLY <1>11, <2>2, <5>2, k \in Nat, n \in Nat
        <5> QED BY <2>1, <5>1, <5>3 DEF LastSigned
      <4>2. AnswerSigned(q)
        BY <4>1, AnswerIs
      <4>3. PICK s, h : sent[q].tsig = TsigRecord(s, "NOERROR", 0, Mac(h, setting.skey.sign))
        BY <4>2 DEF AnswerSigned, SignedAs
      <4> QED BY <4>3, SMT DEF TsigRecord, Mac
    <3> QED BY <3>1, <3>2, <3>3, <3>4
  <2>7. ASSUME NEW j \in 1 .. u PROVE d[1 + j] = g[1 + j]
    <3>1. 1 + j \in 1 .. l /\ j \in 1 .. i - 1 - q /\ q + j \in 1 .. n
      <4>1. i = n + 1 /\ q \in Nat /\ q >= 1 /\ q + u = n /\ l = 1 + u
        BY <1>11, <2>2, <2>3, <2>4, SMT
      <4> QED BY ONLY <4>1, n \in Nat, u \in Nat, j \in 1 .. u
    <3>2. d[1 + j] = c[1 + j] /\ g[1 + j] = AnswerBody(q + j)
      BY <1>10, <2>1, <3>1 DEF Chained
    <3>3. PICK k : k = q + j
      OBVIOUS
    <3>4. client.accepted[k] = k /\ k \in 1 .. Len(sent) /\ c[1 + j] = sent[client.accepted[k]].body
      <4>1. /\ Len(client.accepted) = n
            /\ \A h \in 1 .. n : client.accepted[h] = h /\ client.accepted[h] \in 1 .. Len(sent)
        BY <1>2 DEF Accepting
      <4>2. Len(client.accepted) - client.unsigned = q
        BY <1>3, <2>3, <4>1
      <4>3. c[1 + j] = sent[client.accepted[q + j]].body
        BY <1>3, <1>4, <2>3, <4>2 DEF Accepting
      <4>4. client.accepted[k] = k /\ client.accepted[k] \in 1 .. Len(sent)
        BY <3>1, <3>3, <4>1
      <4> QED BY <3>3, <4>3, <4>4
    <3>5. sent[k].body = AnswerBody(k)
      BY <3>4, AnswerIs
    <3> QED BY <3>2, <3>3, <3>4, <3>5
  <2>8. \A j \in 1 .. Len(d) : d[j] = g[j]
    <3>0. Len(d) = u + 3
      BY <2>5
    <3> SUFFICES ASSUME NEW j \in 1 .. u + 3 PROVE d[j] = g[j]
      BY <3>0
    <3>1. j = 1 \/ j = u + 2 \/ j = u + 3 \/ (j - 1 \in 1 .. u /\ j = 1 + (j - 1))
      BY SMT
    <3>2. CASE j - 1 \in 1 .. u /\ j = 1 + (j - 1)
      <4>1. PICK k : k = j - 1
        OBVIOUS
      <4>2. k \in 1 .. u /\ j = 1 + k
        BY <3>2, <4>1
      <4> QED BY <2>7, <4>2
    <3> QED BY <2>5, <2>6, <3>1, <3>2
  <2>9. d = g
    BY <1>10, <1>11, <2>5, <2>8, SameSeq
  <2> QED BY <1>4, <1>7, <2>9
<1> QED BY <1>12, <1>13

\* The digest for the error that says the clocks are apart.
LEMMA SameErrorDigest ==
    ASSUME ServerOK, ClientOK, Accepting, setting.ordered, client.received = 0, Refused,
           sent[1].tsig.mac # Mac(<< >>, 0)
    PROVE  Digest(client.ctx, client.first, sent[1].body, sent[1].tsig.time, sent[1].tsig.error,
                  sent[1].tsig.other) = sent[1].tsig.mac.tag
<1>1. client.unsigned \in Nat /\ client.first \in BOOLEAN
  BY DEF ClientOK
<1>2. PICK u \in Nat : u = client.unsigned
  BY <1>1
<1>3. client.first = TRUE
  <2>1. PICK n \in Nat : n = 0 /\ n = client.received
    BY SMT
  <2>2. ~ client.first => n - u > 0
    BY <1>2, <2>1, InOrderIs
  <2> QED BY <1>1, <2>1, <2>2, SMT
<1>4. PICK c, s, g : c = client.ctx /\ s = sent[1].tsig /\ g = s.mac.tag
  OBVIOUS
<1>5. /\ IsSeq(g) /\ Len(g) = 3 /\ g[1] = request.mac /\ g[2] = ErrorBody
      /\ g[3] = Full(s.time, s.error, s.other) /\ sent[1].body = ErrorBody
  BY <1>4 DEF Refused
<1>6. PICK d : d = c \o <<ErrorBody, Full(s.time, s.error, s.other)>>
  OBVIOUS
<1>7. IsSeq(c) /\ Len(c) = 1 /\ c[1] = request.mac
  BY <1>3, <1>4 DEF Accepting
<1>8. IsSeq(d) /\ Len(d) = 3 /\ d[1] = g[1] /\ d[2] = g[2] /\ d[3] = g[3]
  <2>1. Fed(c, ErrorBody, Full(s.time, s.error, s.other), d)
    BY <1>6, <1>7, DigestIs
  <2>2. Len(c) + 1 = 2 /\ Len(c) + 2 = 3 /\ 1 \in 1 .. Len(c)
    BY <1>7, SMT
  <2> QED BY <1>5, <1>7, <2>1, <2>2 DEF Fed
<1>9. \A j \in 1 .. Len(d) : d[j] = g[j]
  <2>1. \A j \in 1 .. Len(d) : j = 1 \/ j = 2 \/ j = 3
    BY <1>8, SMT
  <2> QED BY <1>8, <2>1
<1>10. d = g
  BY <1>5, <1>8, <1>9, SameSeq, SMT
<1>11. d = Digest(client.ctx, client.first, sent[1].body, sent[1].tsig.time, sent[1].tsig.error,
                  sent[1].tsig.other)
  BY <1>3, <1>4, <1>5, <1>6 DEF Digest
<1> QED BY <1>4, <1>10, <1>11

\* The checks of a signed message find fault for a reason only.
LEMMA CheckedFaults ==
    ASSUME WholeMacs, RequestOK, ServerOK, ClientOK, Accepting, setting.ordered,
           NEW i \in 1 .. Len(sent), i = client.received + 1, sent[i].tsig.some = TRUE,
           ServerRefused(sent[i]) = "ok",
           NEW d, d = Digest(client.ctx, client.first, sent[i].body, sent[i].tsig.time,
                             sent[i].tsig.error, sent[i].tsig.other),
           Checked(sent[i], d) # "ok"
    PROVE  Faulty(Checked(sent[i], d), i, time)
<1>1. PICK m : m = sent[i]
  OBVIOUS
<1>2. client.received \in Nat
  BY DEF ClientOK
<1>3. m.tsig.mac.len < setting.ckey.min => Checked(m, d) = "BadTrunc"
  BY DEF Checked, compare_signatures
<1>4. ~ (m.tsig.mac.len < setting.ckey.min) /\ m.tsig.mac.tag = d => Checked(m, d) = check_answer_time(m)
  BY DEF Checked, compare_signatures
<1>5. CASE Refused
  <2>1. i = 1 /\ client.received = 0
    <3>1. i = 1
      BY <1>5, SMT DEF Refused
    <3> QED BY <1>2, <3>1, SMTT(30)
  <2>2. m.body = ErrorBody /\ m.tsig.error # "BADKEY"
    BY <1>1, <1>5, <2>1 DEF Refused, ServerRefused
  <2>3. CASE m.tsig.mac = Mac(<< >>, 0)
    <3>1. m.tsig.mac.len = 0
      BY <2>3, SMT DEF Mac
    <3>2. setting.ckey.min \in Nat /\ setting.ckey.min > 0
      BY WhoIs, MacLenAssumption, SMT
    <3>3. Checked(m, d) = "BadTrunc"
      BY <1>3, <3>1, <3>2
    <3>4. m.tsig.error = "BADTIME" =>  m.tsig.mac.len = setting.skey.sign
      BY <1>1, <1>5, <2>1, <2>2, <2>3 DEF Refused
    <3>5. setting.ckey.sign < setting.skey.min \/ setting.skey.sign < setting.ckey.min
      BY <1>1, <1>5, <2>1, <2>2, <3>1, <3>2, <3>4 DEF Refused
    <3> QED BY <1>1, <3>3, <3>5 DEF Faulty
  <2>4. CASE m.tsig.mac # Mac(<< >>, 0)
    <3>1. m.tsig.mac.tag = d
      BY <1>1, <1>5, <2>1, <2>4, SameErrorDigest
    <3>2. /\ m.tsig.error = "BADTIME" /\ m.tsig.mac.len = setting.skey.sign
          /\ ~ is_valid_at(request.time, m.tsig.other)
      BY <1>1, <1>5, <2>1, <2>4 DEF Refused
    <3>3. check_answer_time(m) = "ServerBadTime"
      BY <2>2, <3>2 DEF check_answer_time
    <3> QED BY <1>1, <1>3, <1>4, <3>1, <3>2, <3>3 DEF Faulty
  <2> QED BY <2>3, <2>4
<1>6. CASE ~ Refused
  <2>1. \A j \in 1 .. Len(sent) : AnswerOK(j)
    BY <1>6, MessageIs
  <2>2. m.body = AnswerBody(i) /\ AnswerBody(i) # ErrorBody /\ m.tsig.mac.len = setting.skey.sign
    BY <1>1, <2>1, AnswerIs
  <2>3. m.tsig.mac.tag = d
    BY <1>1, <2>1, SameDigest
  <2>4. check_answer_time(m) # "ok" =>
            check_answer_time(m) = "BadTime" /\ ~ is_valid_at(m.tsig.time, time)
    BY <2>2 DEF check_answer_time
  <2> QED BY <1>1, <1>3, <1>4, <2>2, <2>3, <2>4 DEF Faulty
<1> QED BY <1>5, <1>6

\* An answer that is not signed is one of those the client lets pass.
LEMMA UnsignedPasses ==
    ASSUME ServerOK, ClientOK, Accepting, setting.ordered,
           NEW i \in 1 .. Len(sent), i = client.received + 1, sent[i].tsig.some # TRUE
    PROVE  client.first = FALSE /\ client.unsigned < MaxUnsigned
<1>1. client.received \in Nat /\ client.unsigned \in Nat
  BY DEF ClientOK
<1>2. PICK n \in Nat : n = client.received
  BY <1>1
<1>3. PICK u \in Nat : u = client.unsigned
  BY <1>1
<1>4. ~ (Refused /\ i = 1)
  BY DEF Refused
<1>5. AnswerOK(i)
  BY <1>4, MessageIs
<1>6. PICK q \in 1 .. i - 1 : LastSigned(q, i) /\ i - q <= MaxUnsigned
  BY <1>5 DEF AnswerOK
<1>7. i = n + 1 /\ i - 1 = n
  BY <1>2, SMT
<1>8. q \in 1 .. n /\ LastSigned(q, n + 1)
  BY <1>6, <1>7
<1>9. client.first = FALSE /\ q + u = n
  BY <1>2, <1>3, <1>8, SameLast
<1>10. u < MaxUnsigned
  BY <1>6, <1>7, <1>8, <1>9, UnsignedAssumption, SMT
<1> QED BY <1>3, <1>9, <1>10

\* Errors the server does not sign.
LEMMA RefusedFault ==
    ASSUME RequestOK, ServerOK, NEW i \in 1 .. Len(sent), ServerRefused(sent[i]) # "ok"
    PROVE  Faulty(ServerRefused(sent[i]), i, time)
<1>1. PICK m : m = sent[i]
  OBVIOUS
<1>2. m.body = ErrorBody /\ m.tsig.error \in {"BADKEY", "BADSIG"}
  BY <1>1 DEF ServerRefused
<1>3. ~ AnswerOK(i)
  BY <1>1, <1>2, AnswerIs
<1>4. Refused /\ i = 1
  BY <1>3, MessageIs
<1>5. m.tsig.error = "BADKEY" /\ setting.known = FALSE
  BY <1>1, <1>2, <1>4 DEF Refused
<1>6. ServerRefused(m) = "ServerBadKey"
  BY <1>2, <1>5 DEF ServerRefused
<1> QED BY <1>1, <1>5, <1>6 DEF Faulty

\* What ClientTransaction::answer says of a message.
LEMMA TransactionVerdict ==
    ASSUME NEW m, NEW d, d = Digest(client.ctx, TRUE, m.body, m.tsig.time, m.tsig.error, m.tsig.other)
    PROVE  TransactionAnswer(m).res = IF ~ m.tsig.some THEN "ServerUnsigned"
                                      ELSE IF ServerRefused(m) # "ok" THEN ServerRefused(m)
                                      ELSE Checked(m, d)
BY DEF TransactionAnswer

\* What ClientSequence::answer says of a message without a TSIG record after the first.
LEMMA UnsignedVerdict ==
    ASSUME NEW m, ~ m.tsig.some, client.first = FALSE, ~ (client.unsigned >= MaxUnsigned)
    PROVE  SequenceAnswer(m).res = "ok"
BY SMT DEF SequenceAnswer

\* What it says of a message with one.
LEMMA SignedVerdict ==
    ASSUME NEW m, m.tsig.some = TRUE,
           NEW d, d = Digest(client.ctx, client.first, m.body, m.tsig.time, m.tsig.error, m.tsig.other)
    PROVE  SequenceAnswer(m).res = IF ServerRefused(m) # "ok" THEN ServerRefused(m) ELSE Checked(m, d)
<1>1. CASE ServerRefused(m) # "ok"
  BY <1>1, SMT DEF SequenceAnswer, Untouched
<1>2. CASE ServerRefused(m) = "ok"
  BY <1>2, SMT DEF SequenceAnswer
<1> QED BY <1>1, <1>2

\* An answer in its turn is accepted, or there is a reason.
LEMMA AnswerFaults ==
    ASSUME WholeMacs, RequestOK, ServerOK, ClientOK, Accepting, setting.ordered,
           NEW i \in 1 .. Len(sent), i = client.received + 1,
           NEW r, r = IF setting.who[1] = "transaction" THEN TransactionAnswer(sent[i])
                                                        ELSE SequenceAnswer(sent[i]),
           r.res # "ok"
    PROVE  Faulty(r.res, i, time)
<1>1. PICK m : m = sent[i]
  OBVIOUS
<1>2. PICK d : d = Digest(client.ctx, client.first, m.body, m.tsig.time, m.tsig.error, m.tsig.other)
  OBVIOUS
<1>3. setting.who[1] = "transaction" => client.first = TRUE
  BY DEF Accepting
<1>4. CASE m.tsig.some # TRUE
  <2>1. client.first = FALSE /\ client.unsigned < MaxUnsigned
    BY <1>1, <1>4, UnsignedPasses
  <2>2. ~ m.tsig.some
    <3>1. ~ (Refused /\ i = 1)
      BY <1>1, <1>4 DEF Refused
    <3>2. AnswerOK(i)
      BY <3>1, MessageIs
    <3>3. m.tsig = NoTsig
      BY <1>1, <1>4, <3>2, AnswerIs
    <3> QED BY <3>3, SMT DEF NoTsig
  <2>3. client.unsigned \in Nat /\ ~ (client.unsigned >= MaxUnsigned)
    BY <2>1, UnsignedAssumption, SMT DEF ClientOK
  <2>4. r = SequenceAnswer(m)
    BY <1>1, <1>3, <2>1
  <2>5. r.res = "ok"
    BY <2>1, <2>2, <2>3, <2>4, UnsignedVerdict
  <2> QED BY <2>5
<1>5. CASE m.tsig.some = TRUE
  <2>1. r.res = IF ServerRefused(m) # "ok" THEN ServerRefused(m) ELSE Checked(m, d)
    <3>1. CASE setting.who[1] = "transaction"
      <4>1. r = TransactionAnswer(m)
        BY <1>1, <3>1
      <4>2. d = Digest(client.ctx, TRUE, m.body, m.tsig.time, m.tsig.error, m.tsig.other)
        BY <1>2, <1>3, <3>1
      <4>3. r.res = IF ~ m.tsig.some THEN "ServerUnsigned"
                    ELSE IF ServerRefused(m) # "ok" THEN ServerRefused(m)
                    ELSE Checked(m, d)
        BY <4>1, <4>2, TransactionVerdict
      <4> QED BY <1>5, <4>3
    <3>2. CASE setting.who[1] # "transaction"
      <4>1. r = SequenceAnswer(m)
        BY <1>1, <3>2
      <4> QED BY <1>2, <1>5, <4>1, SignedVerdict
    <3> QED BY <3>1, <3>2
  <2>2. CASE ServerRefused(m) # "ok"
    BY <1>1, <2>1, <2>2, RefusedFault
  <2>3. CASE ServerRefused(m) = "ok"
    <3>1. r.res = Checked(sent[i], d)
      BY <1>1, <2>1, <2>3
    <3> QED BY <1>1, <1>2, <1>5, <2>3, <3>1, CheckedFaults
  <2> QED BY <2>2, <2>3
<1> QED BY <1>4, <1>5

\* All answers are signed up to the last.
LEMMA DoneWhole ==
    ASSUME ServerOK, ClientOK, Accepting, setting.ordered, server.st = "ended",
           client.received = Len(sent)
    PROVE  client.unsigned = 0
<1>1. client.received \in Nat /\ client.unsigned \in Nat
  BY DEF ClientOK
<1>2. PICK n \in Nat : n = client.received
  BY <1>1
<1>3. PICK u \in Nat : u = client.unsigned
  BY <1>1
<1>4. Len(client.accepted) = n
  BY <1>2, <1>3, InOrderIs
<1>5. ~ Refused
  <2> SUFFICES ASSUME Refused PROVE FALSE
    OBVIOUS
  <2>1. n = 1
    BY <1>2 DEF Refused
  <2> QED BY <1>4, <2>1, SMT DEF Accepting
<1>6. n # 0 /\ sent[n].tsig.some = TRUE
  BY <1>2, <1>5 DEF ServerOK
<1>7. ~ client.first => \A j \in 1 .. u : sent[n - u + j].tsig = NoTsig
  BY <1>2, <1>3, InOrderIs
<1>8. ~ client.first
  BY <1>2, <1>3, <1>6, InOrderIs
<1>9. u = 0
  <2> SUFFICES ASSUME u # 0 PROVE FALSE
    OBVIOUS
  <2>1. u \in 1 .. u /\ n - u + u = n
    BY SMT
  <2>2. sent[n].tsig = NoTsig
    BY <1>7, <1>8, <2>1
  <2> QED BY <1>6, <2>2, SMT DEF NoTsig
<1> QED BY <1>3, <1>9

\* An error is stored with its reason.
LEMMA FaultStep ==
    ASSUME WholeMacs, TSInv, RealError, [TSNext]_tsvars PROVE RealError'
<1>1. RequestOK /\ ServerOK /\ ClientOK
  BY DEF TSInv
<1>2. PICK e : e = client.error
  OBVIOUS
<1>3. ASSUME Extends, client'.error = client.error PROVE RealError'
  <2>1. setting' = setting /\ request' = request
    BY <1>3 DEF Extends
  <2>2. Faulty(e.what, e.msg, e.at) => Faulty(e.what, e.msg, e.at)'
    <3>1. Len(sent) \in Nat /\ Len(sent') \in Nat /\ Len(sent) <= Len(sent')
      BY <1>3 DEF Extends, IsSeq
    <3>2. \A j \in 1 .. Len(sent) : j \in 1 .. Len(sent') /\ sent'[j] = sent[j]
      BY <1>3, <3>1, SMT DEF Extends
    <3> QED BY <2>1, <3>2 DEF Faulty
  <2> QED BY <1>2, <1>3, <2>1, <2>2 DEF RealError, Faulty
<1>4. CASE SignRequest
  <2>1. client'.error = client.error /\ setting' = setting /\ client.st = "Init"
    BY <1>1, <1>4 DEF SignRequest, ClientOK
  <2>2. client'.error = NoError
    BY <1>1, <2>1 DEF ClientOK
  <2> QED BY <2>2 DEF RealError
<1>5. CASE ServerRequest
  BY <1>1, <1>3, <1>5, ServerRequestStep DEF ServerRequest
<1>6. CASE ServerAnswer
  BY <1>1, <1>3, <1>6, ServerAnswerStep DEF ServerAnswer
<1>7. ASSUME NEW sign \in BOOLEAN, SparseAnswer(sign) PROVE RealError'
  BY <1>1, <1>3, <1>7, SparseStep DEF SparseAnswer
<1>8. CASE ServerEnds
  BY <1>1, <1>3, <1>8, ServerEndsStep DEF ServerEnds
<1>9. CASE UNCHANGED <<setting, client, server, request, sent>>
  BY <1>1, <1>3, <1>9, ServerUnmoved
<1>10. CASE GetResponse
  <2>1. PICK i, r :
          /\ i \in DOMAIN sent /\ client.st = "GetResponse"
          /\ setting.ordered => i = client.received + 1
          /\ r = IF setting.who[1] = "transaction" THEN TransactionAnswer(sent[i]) ELSE SequenceAnswer(sent[i])
          /\ client' = [client EXCEPT
                 !.ctx = r.ctx, !.first = r.first, !.unsigned = r.unsigned, !.received = @ + 1,
                 !.accepted = IF r.res = "ok" THEN Append(@, i) ELSE @,
                 !.error = FirstError(r.res, i),
                 !.st = IF setting.who[1] = "transaction" /\ r.res = "ok" THEN "Complete" ELSE @]
          /\ UNCHANGED <<setting, time, server, request, sent>>
    BY <1>10 DEF GetResponse
  <2>2. client'.error = FirstError(r.res, i) /\ i \in 1 .. Len(sent)
    BY <1>1, <2>1 DEF ClientOK, ServerOK, IsSeq
  <2>3. Extends
    BY <1>1, <2>1, ServerUnmoved
  <2>4. CASE client.error # NoError \/ r.res = "ok"
    <3>1. client'.error = client.error
      BY <2>2, <2>4 DEF FirstError
    <3> QED BY <1>3, <2>3, <3>1
  <2>5. CASE client.error = NoError /\ r.res # "ok"
    <3> SUFFICES ASSUME setting.ordered PROVE RealError'
      BY <2>1 DEF RealError
    <3>1. client'.error = [what |-> r.res, msg |-> i, at |-> time]
      BY <2>2, <2>5 DEF FirstError
    <3>2. client'.error.what = r.res /\ client'.error.msg = i /\ client'.error.at = time
      BY <3>1, SMT
    <3>3. Accepting
      BY <1>1, <2>1, <2>5 DEF ClientOK
    <3>4. Faulty(r.res, i, time)
      BY <1>1, <2>1, <2>2, <2>5, <3>3, AnswerFaults
    <3>5. PICK w, t : w = r.res /\ t = time
      OBVIOUS
    <3>6. Faulty(w, i, t)'
      BY <2>1, <3>4, <3>5 DEF Faulty
    <3> QED BY <3>2, <3>5, <3>6 DEF RealError, Faulty
  <2> QED BY <2>4, <2>5
<1>11. CASE Done
  <2>1. /\ client.st = "GetResponse" /\ server.st = "ended"
        /\ setting.ordered => client.received = Len(sent)
        /\ client'.error = FirstError(IF client.unsigned # 0 THEN "TooManyUnsigned" ELSE "ok", 0)
        /\ UNCHANGED <<setting, time, server, request, sent>>
    BY <1>1, <1>11 DEF Done, ClientOK
  <2>2. Extends
    BY <1>1, <2>1, ServerUnmoved
  <2> SUFFICES ASSUME setting.ordered PROVE RealError'
    BY <2>1 DEF RealError
  <2>3. client.error = NoError => client.unsigned = 0
    BY <1>1, <2>1, DoneWhole DEF ClientOK
  <2>4. client'.error = client.error
    BY <2>1, <2>3 DEF FirstError
  <2> QED BY <1>3, <2>2, <2>4
<1> QED BY <1>4, <1>5, <1>6, <1>7, <1>8, <1>9, <1>10, <1>11 DEF TSNext, ClockTick, tsvars

\* If answers arrive in order and the server signs with the whole MAC, the client
\* finds fault with an answer only for a reason (Key::compare_signatures,
\* get_answer_tsig, check_answer_time, ClientSequence::answer and done).
THEOREM FaultsAreReal == ASSUME WholeMacs PROVE TSSpec => []OnlyRealFailures
<1>1. TSInit => RealError
  BY SMT DEF TSInit, RealError
<1>2. TSInv /\ RealError /\ [TSNext]_tsvars => RealError'
  BY FaultStep
<1>3. RealError => OnlyRealFailures
  <2> SUFFICES ASSUME setting.ordered, client.error # NoError, RealError PROVE OnlyRealFailures
    BY DEF OnlyRealFailures
  <2>1. Faulty(client.error.what, client.error.msg, client.error.at)
    BY DEF RealError
  <2> QED BY <2>1 DEF Faulty, OnlyRealFailures
<1> QED BY TSInitOK, TSStep, <1>1, <1>2, <1>3, PTL DEF TSSpec
============================================================================
