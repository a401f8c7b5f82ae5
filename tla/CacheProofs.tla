----------------------------- MODULE CacheProofs -----------------------------
(***************************************************************************)
(* The client's cache, for any keys, TTLs, configured limits and upstream  *)
(* responses.                                                              *)
(*                                                                         *)
(* The argument: a value, stored or carried by a request between two steps *)
(* of it, is sound for its key (Sound): it keeps the response as the       *)
(* upstream gave it and the time that was, its validity is that of the     *)
(* response, and its flags are ones the key may be given.  Everything that *)
(* is told follows from that and from the checks on the way out.           *)
(***************************************************************************)
EXTENDS Cache, TLAPS

\* A response with the question it answers, and a value of the cache.
Responses ==
    [rcode : STRING, class : {"answer", "SOA", "NS", "weird"}, tc : BOOLEAN, ttl : TtlSet,
     aa : BOOLEAN, sig : TtlSet, ad : BOOLEAN, rd : BOOLEAN,
     origin : [key : KeySet, at : Nat, ttl : TtlSet, sig : TtlSet]]

Values == [created : Nat, valid : Nat, resp : Responses]

\* Response m can be given to a request with key k.
Suits(m, k) ==
    /\ m.origin.key.q = k.q /\ m.origin.key.cd = k.cd
    /\ k.rd => m.origin.key.rd
    /\ Do(k) => Do(m.origin.key)
    /\ m.rcode # "error" =>
         /\ m.rd = k.rd
         /\ m.ad => Ad(k)
         /\ m.sig # NoTtl => Do(k) \/ k.q \in DnssecTypes

\* Its TTLs are those the upstream gave it.
Original(m) == m.ttl = m.origin.ttl /\ m.sig \in {NoTtl, m.origin.sig}

\* Response m is one the cache keeps.
Kept(m) ==
    m.rcode # "error" =>
        /\ ~ m.aa
        /\ m.tc => CacheTruncated
        /\ ~ (m.rcode = "NOERROR" /\ m.class = "weird")

\* A value for key k at time t, made from what the upstream responded when it says.
Sound(v, k, t) ==
    /\ v \in Values
    /\ v.valid = Validity(v.resp)
    /\ v.created = v.resp.origin.at /\ v.created <= t
    /\ Original(v.resp)
    /\ Suits(v.resp, k)

\* What of response m may be told at age a.
Fresh(m, a) ==
    /\ m.rcode = "error" => a <= FailureDuration
    /\ m.rcode # "error" =>
         /\ a <= Limit(m)
         /\ m.ttl # NoTtl => m.ttl >= 0 /\ m.ttl + a <= m.origin.ttl
         /\ m.sig # NoTtl => m.sig >= 0 /\ m.sig + a <= m.origin.sig

------------------------------------------------------------------------------

\* Leaves with arithmetic name SMT.
USE Zenon

\* The least of the TTLs and the configured limit.
LEMMA LeastOfFew ==
    ASSUME NEW a \in Nat, NEW b \in Nat, NEW x \in TtlSet, NEW y \in TtlSet,
           NEW S, S = {a, b} \cup ({x, y} \ {NoTtl})
    PROVE  Least(S) \in S /\ \A n \in S : Least(S) <= n
<1>1. S \subseteq Nat
  BY DEF TtlSet
<1>2. \E m \in S : \A n \in S : m <= n
  <2>1. PICK c \in {a, b} : c <= a /\ c <= b
    BY SMT
  <2>2. \E d \in S : d <= c /\ (x # NoTtl => d <= x)
    <3>1. CASE x # NoTtl /\ x < c  BY <3>1, <1>1, SMT
    <3>2. CASE ~ (x # NoTtl /\ x < c)  BY <3>2, <2>1, RepliesAssumption, SMT DEF TtlSet
    <3> QED BY <3>1, <3>2
  <2>3. PICK d \in S : d <= c /\ (x # NoTtl => d <= x)
    BY <2>2
  <2>4. \E e \in S : e <= d /\ (y # NoTtl => e <= y)
    <3>1. CASE y # NoTtl /\ y < d  BY <3>1, <1>1, SMT
    <3>2. CASE ~ (y # NoTtl /\ y < d)  BY <3>2, <2>3, <1>1, RepliesAssumption, SMT DEF TtlSet
    <3> QED BY <3>1, <3>2
  <2>5. PICK e \in S : e <= d /\ (y # NoTtl => e <= y)
    BY <2>4
  <2>6. \A n \in S : e <= n
    <3> SUFFICES ASSUME NEW n \in S PROVE e <= n
      OBVIOUS
    <3> {a, b, c, d, e, n} \subseteq Nat
      BY <1>1
    <3>1. CASE n \in {a, b}  BY <3>1, <2>1, <2>3, <2>5, SMT
    <3>2. CASE n \in {x, y} \ {NoTtl}  BY <3>2, <2>1, <2>3, <2>5, SMT
    <3> QED BY <3>1, <3>2
  <2> QED BY <2>6
<1> QED BY <1>2 DEF Least

\* The configured limit is a number.
LEMMA LimitIsNat ==
    ASSUME NEW m \in Responses
    PROVE  Limit(m) \in Nat
<1>1. m.class \in {"answer", "SOA", "NS", "weird"}
  BY DEF Responses
<1> QED BY <1>1, DurationAssumption DEF Limit

\* How long a response may be used.
LEMMA ValidityBounds ==
    ASSUME NEW m \in Responses
    PROVE  /\ Validity(m) \in Nat
           /\ m.rcode = "error" => Validity(m) = FailureDuration
           /\ m.rcode # "error" /\ Validity(m) # 0 =>
                /\ m.tc => CacheTruncated
                /\ ~ (m.rcode = "NOERROR" /\ m.class = "weird")
           /\ m.rcode # "error" =>
                /\ Validity(m) <= Limit(m)
                /\ m.ttl # NoTtl => Validity(m) <= m.ttl
                /\ m.sig # NoTtl => Validity(m) <= m.sig
<1> DEFINE S == {MaxValidity, Limit(m)} \cup Ttls(m)
<1>1. m.ttl \in TtlSet /\ m.sig \in TtlSet /\ m.tc \in BOOLEAN
  BY DEF Responses
<1>2. /\ MaxValidity \in Nat /\ FailureDuration \in Nat /\ CacheTruncated \in BOOLEAN
      /\ Limit(m) \in Nat
  BY DurationAssumption, LimitIsNat
<1>3. Least(S) \in S /\ \A n \in S : Least(S) <= n
  <2>1. S = {MaxValidity, Limit(m)} \cup ({m.ttl, m.sig} \ {NoTtl})
    BY DEF Ttls
  <2> HIDE DEF S
  <2> QED BY <2>1, <1>1, <1>2, LeastOfFew, SMT
<1>4. S \subseteq Nat
  BY <1>1, <1>2 DEF Ttls, TtlSet
<1>5. CASE m.rcode = "error"
  BY <1>5, <1>2 DEF Validity
<1>6. CASE m.rcode # "error" /\ m.tc /\ ~ CacheTruncated
  <2>1. Validity(m) = 0
    BY <1>6 DEF Validity
  <2> QED BY <1>1, <1>2, <1>6, <2>1, RepliesAssumption, SMT DEF TtlSet
<1>7. CASE m.rcode # "error" /\ ~ (m.tc /\ ~ CacheTruncated)
  <2>1. Validity(m) = Least(S)
    BY <1>7 DEF Validity
  <2>2. m.rcode = "NOERROR" /\ m.class = "weird" => Validity(m) = 0
    <3>1. m.rcode = "NOERROR" /\ m.class = "weird" => Limit(m) = 0
      BY DEF Limit
    <3> QED BY <3>1, <2>1, <1>3, <1>4, SMT
  <2>3. /\ Validity(m) <= Limit(m)
        /\ m.ttl # NoTtl => Validity(m) <= m.ttl
        /\ m.sig # NoTtl => Validity(m) <= m.sig
    BY <2>1, <1>3 DEF Ttls
  <2> QED BY <1>1, <1>2, <1>3, <1>4, <1>7, <2>1, <2>2, <2>3
<1> QED BY <1>1, <1>2, <1>5, <1>6, <1>7

\* new_from_value_and_response keeps the time the upstream responded.
LEMMA DerivedSound ==
    ASSUME NEW v, NEW k, NEW l, NEW t \in Nat, Sound(v, k, t), NEW m \in Responses,
           m.origin = v.resp.origin, Original(m), Suits(m, l)
    PROVE  Sound(Derived(v, m), l, t)
<1>1. Validity(m) \in Nat
  BY ValidityBounds
<1>2. v.created \in Nat /\ v.created = m.origin.at /\ v.created <= t
  BY DEF Sound, Values
<1>3. Derived(v, m) \in Values
  BY <1>1, <1>2 DEF Derived, Values
<1>4. /\ Derived(v, m).created = v.created
      /\ Derived(v, m).valid = Validity(m)
      /\ Derived(v, m).resp = m
  BY DEF Derived
<1> QED BY <1>2, <1>3, <1>4 DEF Sound

\* An error says the same whatever AD, DO and RD were.
LEMMA ErrorSound ==
    ASSUME NEW v, NEW k \in KeySet, NEW l \in KeySet, NEW t \in Nat, Sound(v, k, t),
           v.resp.rcode = "error", l.q = k.q, l.cd = k.cd, l.rd => k.rd, Do(l) => Do(k)
    PROVE  Sound(v, l, t)
BY DEF Sound, Suits

\* cache_lookup_rd_do_ad clears RD for a request without it.
LEMMA ClearRdSound ==
    ASSUME NEW v, NEW k \in KeySet, NEW l \in KeySet, NEW t \in Nat, Sound(v, k, t),
           l.q = k.q, l.cd = k.cd, l.addo = k.addo, l.rd = FALSE
    PROVE  /\ Sound(ClearRd(v), l, t)
           /\ Kept(v.resp) => Kept(ClearRd(v).resp)
<1>1. CASE v.resp.rcode = "error"
  <2>1. ClearRd(v) = v
    BY <1>1 DEF ClearRd
  <2> QED BY <1>1, <2>1, ErrorSound DEF Do
<1>2. CASE v.resp.rcode # "error"
  <2> DEFINE m == [v.resp EXCEPT !.rd = FALSE]
  <2>1. v.resp \in Responses
    BY DEF Sound, Values
  <2>2. m \in Responses
    BY <2>1 DEF Responses
  <2>3. /\ m.rcode = v.resp.rcode /\ m.class = v.resp.class /\ m.tc = v.resp.tc
        /\ m.ttl = v.resp.ttl /\ m.aa = v.resp.aa /\ m.sig = v.resp.sig /\ m.ad = v.resp.ad
        /\ m.origin = v.resp.origin /\ m.rd = FALSE
    BY <2>1 DEF Responses
  <2>4. ClearRd(v) = Derived(v, m)
    BY <1>2 DEF ClearRd
  <2> HIDE DEF m
  <2>5. Original(m) /\ Suits(m, l)
    BY <2>3 DEF Sound, Original, Suits, Do, Ad
  <2>6. Derived(v, m).resp = m
    BY DEF Derived
  <2> QED BY <2>2, <2>3, <2>4, <2>5, <2>6, DerivedSound DEF Kept
<1> QED BY <1>1, <1>2

\* cache_lookup_do_ad clears AD for a request that did not ask for it.
LEMMA ClearAdSound ==
    ASSUME NEW v, NEW k \in KeySet, NEW l \in KeySet, NEW t \in Nat, Sound(v, k, t),
           l.q = k.q, l.cd = k.cd, k.addo = "Ad", l.addo = "None", l.rd = k.rd
    PROVE  /\ Sound(ClearAd(v), l, t)
           /\ Kept(v.resp) => Kept(ClearAd(v).resp)
<1>1. CASE v.resp.rcode = "error"
  <2>1. ClearAd(v) = v
    BY <1>1 DEF ClearAd
  <2> QED BY <1>1, <2>1, ErrorSound DEF Do
<1>2. CASE v.resp.rcode # "error" /\ ~ v.resp.ad
  <2>1. ClearAd(v) = v
    BY <1>2 DEF ClearAd
  <2> QED BY <1>2, <2>1 DEF Sound, Suits, Do
<1>3. CASE v.resp.rcode # "error" /\ v.resp.ad
  <2> DEFINE m == [v.resp EXCEPT !.ad = FALSE]
  <2>1. v.resp \in Responses
    BY DEF Sound, Values
  <2>2. m \in Responses
    BY <2>1 DEF Responses
  <2>3. /\ m.rcode = v.resp.rcode /\ m.class = v.resp.class /\ m.tc = v.resp.tc
        /\ m.ttl = v.resp.ttl /\ m.aa = v.resp.aa /\ m.sig = v.resp.sig /\ m.ad = FALSE
        /\ m.origin = v.resp.origin /\ m.rd = v.resp.rd
    BY <2>1 DEF Responses
  <2>4. ClearAd(v) = Derived(v, m)
    BY <1>3 DEF ClearAd
  <2> HIDE DEF m
  <2>5. Original(m) /\ Suits(m, l)
    BY <2>3 DEF Sound, Original, Suits, Do, Ad
  <2>6. Derived(v, m).resp = m
    BY DEF Derived
  <2> QED BY <2>2, <2>3, <2>4, <2>5, <2>6, DerivedSound DEF Kept
<1> QED BY <1>1, <1>2, <1>3

\* prepare_for_insert clears AA; no AA is left in what is not an error.
LEMMA ClearAaSound ==
    ASSUME NEW v, NEW k \in KeySet, NEW t \in Nat, Sound(v, k, t), v.valid # 0
    PROVE  /\ Sound(ClearAa(v), k, t)
           /\ Kept(ClearAa(v).resp)
<1>0. v.resp \in Responses /\ Validity(v.resp) # 0
  BY DEF Sound, Values
<1>1. CASE v.resp.rcode = "error" \/ ~ v.resp.aa
  <2>1. ClearAa(v) = v
    BY <1>1 DEF ClearAa
  <2> QED BY <1>0, <1>1, <2>1, ValidityBounds DEF Kept
<1>2. CASE v.resp.rcode # "error" /\ v.resp.aa
  <2> DEFINE m == [v.resp EXCEPT !.aa = FALSE]
  <2>2. m \in Responses
    BY <1>0 DEF Responses
  <2>3. /\ m.rcode = v.resp.rcode /\ m.class = v.resp.class /\ m.tc = v.resp.tc
        /\ m.ttl = v.resp.ttl /\ m.aa = FALSE /\ m.sig = v.resp.sig /\ m.ad = v.resp.ad
        /\ m.origin = v.resp.origin /\ m.rd = v.resp.rd
    BY <1>0 DEF Responses
  <2>4. ClearAa(v) = Derived(v, m)
    BY <1>2 DEF ClearAa
  <2> HIDE DEF m
  <2>5. Original(m) /\ Suits(m, k)
    BY <2>3 DEF Sound, Original, Suits
  <2>6. Derived(v, m).resp = m
    BY DEF Derived
  <2>7. Kept(m)
    BY <1>0, <1>2, <2>3, ValidityBounds DEF Kept
  <2> QED BY <2>2, <2>3, <2>4, <2>5, <2>6, <2>7, DerivedSound
<1> QED BY <1>1, <1>2

\* remove_dnssec takes the DNSSEC records away, and AD unless it was asked for.
LEMMA RemoveDnssecSound ==
    ASSUME NEW v, NEW k \in KeySet, NEW l \in KeySet, NEW t \in Nat, Sound(v, k, t),
           l.q = k.q, l.cd = k.cd, k.addo = "Do", l.addo # "Do", l.rd = k.rd
    PROVE  /\ Sound(RemoveDnssec(v, Ad(l)), l, t)
           /\ Kept(v.resp) => Kept(RemoveDnssec(v, Ad(l)).resp)
<1>1. CASE v.resp.rcode = "error"
  <2>1. RemoveDnssec(v, Ad(l)) = v
    BY <1>1 DEF RemoveDnssec
  <2> QED BY <1>1, <2>1, ErrorSound DEF Do
<1>2. CASE v.resp.rcode # "error"
  <2> DEFINE m == [v.resp EXCEPT !.sig = NoTtl, !.ad = @ /\ Ad(l)]
  <2>1. v.resp \in Responses
    BY DEF Sound, Values
  <2>2. m \in Responses
    <3>1. (v.resp.ad /\ Ad(l)) \in BOOLEAN
      OBVIOUS
    <3> QED BY <2>1, <3>1 DEF Responses, TtlSet
  <2>3. /\ m.rcode = v.resp.rcode /\ m.class = v.resp.class /\ m.tc = v.resp.tc
        /\ m.ttl = v.resp.ttl /\ m.aa = v.resp.aa /\ m.sig = NoTtl
        /\ m.ad = (v.resp.ad /\ Ad(l))
        /\ m.origin = v.resp.origin /\ m.rd = v.resp.rd
    BY <2>1 DEF Responses
  <2>4. RemoveDnssec(v, Ad(l)) = Derived(v, m)
    BY <1>2 DEF RemoveDnssec
  <2> HIDE DEF m
  <2>5. Original(m) /\ Suits(m, l)
    BY <2>3 DEF Sound, Original, Suits, Do
  <2>6. Derived(v, m).resp = m
    BY DEF Derived
  <2> QED BY <2>2, <2>3, <2>4, <2>5, <2>6, DerivedSound DEF Kept
<1> QED BY <1>1, <1>2

------------------------------------------------------------------------------

\* Key j is one that is looked up for key k.
Covers(j, k) ==
    /\ j \in KeySet
    /\ j.q = k.q /\ j.cd = k.cd
    /\ j.rd = k.rd \/ (k.rd = FALSE /\ j.rd = TRUE)
    /\ \/ j.addo = k.addo
       \/ j.addo = "Ad" /\ k.addo = "None"
       \/ j.addo = "Do" /\ k.addo # "Do"

\* Elements of a concatenation are elements of its parts.
LEMMA InConcat ==
    ASSUME NEW S, NEW s \in Seq(S), NEW t \in Seq(S)
    PROVE  /\ s \o t \in Seq(S)
           /\ s # << >> => s \o t # << >>
           /\ \A i \in 1 .. Len(s \o t) :
                 \/ i \in 1 .. Len(s) /\ (s \o t)[i] = s[i]
                 \/ i - Len(s) \in 1 .. Len(t) /\ (s \o t)[i] = t[i - Len(s)]
BY SMT

\* The keys that cache_lookup tries cover the request.
LEMMA TriedCovers ==
    ASSUME NEW k \in KeySet
    PROVE  /\ Tried(k) \in Seq(KeySet) /\ Tried(k) # << >>
           /\ \A i \in 1 .. Len(Tried(k)) : Covers(Tried(k)[i], k) /\ Tried(k)[i].rd = k.rd
<1> DEFINE a == [k EXCEPT !.addo = "Ad"]
           d == [k EXCEPT !.addo = "Do"]
<1>0. k.addo \in AdDos /\ k.rd \in BOOLEAN
  BY DEF KeySet
<1>1. a \in KeySet /\ d \in KeySet
  BY DEF KeySet, AdDos
<1>2. /\ a.q = k.q /\ a.cd = k.cd /\ a.rd = k.rd /\ a.addo = "Ad"
      /\ d.q = k.q /\ d.cd = k.cd /\ d.rd = k.rd /\ d.addo = "Do"
  BY DEF KeySet
<1>3. Covers(k, k) /\ (~ Ad(k) => Covers(a, k)) /\ (~ Do(k) => Covers(d, k))
  BY <1>0, <1>1, <1>2 DEF Covers, Ad, Do, AdDos
<1> DEFINE p == IF Ad(k) THEN << >> ELSE <<a>>
           r == IF Do(k) \/ k.q \in DnssecTypes THEN << >> ELSE <<d>>
<1>4. Tried(k) = (<<k>> \o p) \o r
  BY DEF Tried
<1> HIDE DEF a, d
<1>5. <<k>> \in Seq(KeySet) /\ \A i \in 1 .. Len(<<k>>) : <<k>>[i] = k
  BY SMT
<1>6. p \in Seq(KeySet) /\ \A i \in 1 .. Len(p) : p[i] = a /\ ~ Ad(k)
  BY <1>1, SMT
<1>7. r \in Seq(KeySet) /\ \A i \in 1 .. Len(r) : r[i] = d /\ ~ Do(k)
  BY <1>1, SMT
<1> HIDE DEF p, r
<1>8. /\ <<k>> \o p \in Seq(KeySet) /\ <<k>> \o p # << >>
      /\ \A i \in 1 .. Len(<<k>> \o p) :
            (<<k>> \o p)[i] = k \/ ((<<k>> \o p)[i] = a /\ ~ Ad(k))
  BY <1>5, <1>6, InConcat, SMT
<1>9. /\ Tried(k) \in Seq(KeySet) /\ Tried(k) # << >>
      /\ \A i \in 1 .. Len(Tried(k)) :
            \/ Tried(k)[i] = k
            \/ Tried(k)[i] = a /\ ~ Ad(k)
            \/ Tried(k)[i] = d /\ ~ Do(k)
  <2> DEFINE s == <<k>> \o p
  <2>1. s \in Seq(KeySet) /\ s # << >> /\ Tried(k) = s \o r
    BY <1>4, <1>8
  <2>2. \A i \in 1 .. Len(s) : s[i] = k \/ (s[i] = a /\ ~ Ad(k))
    BY <1>8
  <2> HIDE DEF s
  <2> QED BY <2>1, <2>2, <1>7, InConcat, SMT
<1> QED BY <1>2, <1>3, <1>9

\* cache_lookup_rd_do_ad looks only at entries it can turn into an answer.
LEMMA LookupsCover ==
    ASSUME NEW k \in KeySet
    PROVE  /\ 1 \in 1 .. Len(Lookups(k)) /\ Len(Lookups(k)) \in Nat
           /\ \A i \in 1 .. Len(Lookups(k)) : Covers(Lookups(k)[i], k)
<1> DEFINE l == [k EXCEPT !.rd = TRUE]
<1>0. k.rd \in BOOLEAN
  BY DEF KeySet
<1>1. l \in KeySet
  BY DEF KeySet
<1>2. l.q = k.q /\ l.cd = k.cd /\ l.rd = TRUE /\ l.addo = k.addo
  BY DEF KeySet
<1>3. Lookups(k) = Tried(k) \o IF k.rd THEN << >> ELSE Tried(l)
  BY DEF Lookups
<1> HIDE DEF l
<1>4. /\ Tried(k) \in Seq(KeySet) /\ Tried(k) # << >>
      /\ \A i \in 1 .. Len(Tried(k)) : Covers(Tried(k)[i], k)
  BY TriedCovers
<1>5. /\ Tried(l) \in Seq(KeySet)
      /\ \A i \in 1 .. Len(Tried(l)) : Covers(Tried(l)[i], l) /\ Tried(l)[i].rd = l.rd
  BY <1>1, TriedCovers
<1>6. CASE k.rd
  <2>1. Lookups(k) = Tried(k)
    BY <1>3, <1>4, <1>6, SMT
  <2> QED BY <2>1, <1>4, SMT
<1>7. CASE ~ k.rd
  <2>1. Lookups(k) = Tried(k) \o Tried(l)
    BY <1>3, <1>7
  <2>2. \A i \in 1 .. Len(Tried(l)) : Covers(Tried(l)[i], k)
    BY <1>0, <1>2, <1>5, <1>7 DEF Covers
  <2> HIDE DEF Lookups
  <2>4. /\ Len(Lookups(k)) \in Nat /\ 1 \in 1 .. Len(Lookups(k))
        /\ \A i \in 1 .. Len(Lookups(k)) :
              \/ i \in 1 .. Len(Tried(k)) /\ Lookups(k)[i] = Tried(k)[i]
              \/ i - Len(Tried(k)) \in 1 .. Len(Tried(l)) /\ Lookups(k)[i] = Tried(l)[i - Len(Tried(k))]
    BY <2>1, <1>4, <1>5, InConcat, SMT
  <2> QED BY <2>2, <2>4, <1>4
<1> QED BY <1>0, <1>6, <1>7

\* What cache_lookup_do_ad makes of an entry for other AD and DO.
LEMMA AdaptSound ==
    ASSUME NEW j, NEW k \in KeySet, NEW l \in KeySet, Covers(j, k), NEW v, NEW t \in Nat,
           Sound(v, j, t), l = [k EXCEPT !.rd = j.rd]
    PROVE  /\ Sound(Adapt(j, k, v), l, t)
           /\ Kept(v.resp) => Kept(Adapt(j, k, v).resp)
<1>1. l.q = k.q /\ l.cd = k.cd /\ l.addo = k.addo /\ l.rd = j.rd
  BY DEF KeySet
<1>2. j \in KeySet /\ j.q = k.q /\ j.cd = k.cd
  BY DEF Covers
<1>3. Ad(l) = Ad(k)
  BY <1>1 DEF Ad
<1>4. CASE j.addo = k.addo
  <2>1. Adapt(j, k, v) = v
    BY <1>4 DEF Adapt
  <2>2. Sound(v, l, t)
    BY <1>1, <1>2, <1>4 DEF Sound, Suits, Do, Ad
  <2> QED BY <2>1, <2>2
<1>5. CASE j.addo = "Ad" /\ k.addo = "None"
  <2>1. Adapt(j, k, v) = ClearAd(v)
    BY <1>5 DEF Adapt
  <2> QED BY <2>1, <1>1, <1>2, <1>5, ClearAdSound
<1>6. CASE j.addo = "Do" /\ k.addo # "Do"
  <2>1. Adapt(j, k, v) = RemoveDnssec(v, Ad(l))
    BY <1>3, <1>6 DEF Adapt
  <2> QED BY <2>1, <1>1, <1>2, <1>6, RemoveDnssecSound
<1> QED BY <1>4, <1>5, <1>6 DEF Covers

\* The value a lookup returns, and those it stores on the way.
LEMMA FoundSound ==
    ASSUME NEW j, NEW k \in KeySet, Covers(j, k), NEW v, NEW t \in Nat, Sound(v, j, t), Kept(v.resp)
    PROVE  /\ Sound(Found(j, k, v), k, t) /\ Kept(Found(j, k, v).resp)
           /\ Inserts(j, k, v) \in Seq([key : KeySet, value : Values])
           /\ \A i \in 1 .. Len(Inserts(j, k, v)) :
                 Sound(Inserts(j, k, v)[i].value, Inserts(j, k, v)[i].key, t)
<1> DEFINE l == [k EXCEPT !.rd = j.rd]
           w == Adapt(j, k, v)
           a == [key |-> l, value |-> w]
           b == [key |-> k, value |-> ClearRd(w)]
<1>0. j.rd \in BOOLEAN
  BY DEF Covers, KeySet
<1>1. l \in KeySet
  BY <1>0 DEF KeySet
<1>2. l.q = k.q /\ l.cd = k.cd /\ l.addo = k.addo /\ l.rd = j.rd /\ (l.rd = k.rd => l = k)
  BY DEF KeySet
<1>3. Sound(w, l, t) /\ Kept(w.resp)
  BY <1>1, AdaptSound
<1>4. /\ Inserts(j, k, v) = (IF j.addo = k.addo THEN << >> ELSE <<a>>)
                            \o (IF j.rd = k.rd THEN << >> ELSE <<b>>)
      /\ Found(j, k, v) = IF j.rd = k.rd THEN w ELSE ClearRd(w)
  BY DEF Inserts, Found
<1>5. j.rd = k.rd \/ k.rd = FALSE
  BY DEF Covers
<1> HIDE DEF l, w
<1>6. j.rd # k.rd => Sound(ClearRd(w), k, t) /\ Kept(ClearRd(w).resp)
  BY <1>1, <1>2, <1>3, <1>5, ClearRdSound
<1>7. /\ a \in [key : KeySet, value : Values] /\ a.key = l /\ a.value = w
      /\ j.rd # k.rd => b \in [key : KeySet, value : Values]
      /\ b.key = k /\ b.value = ClearRd(w)
  BY <1>1, <1>3, <1>6 DEF Sound
<1> HIDE DEF a, b
<1>8. Sound(Found(j, k, v), k, t) /\ Kept(Found(j, k, v).resp)
  BY <1>2, <1>3, <1>4, <1>6
<1> DEFINE p == IF j.addo = k.addo THEN << >> ELSE <<a>>
           r == IF j.rd = k.rd THEN << >> ELSE <<b>>
           T == [key : KeySet, value : Values]
<1>13. a \in T /\ Sound(a.value, a.key, t)
  BY <1>3, <1>7
<1>14. j.rd # k.rd => b \in T /\ Sound(b.value, b.key, t)
  BY <1>6, <1>7
<1> HIDE DEF T
<1>9. p \in Seq(T) /\ \A i \in 1 .. Len(p) : Sound(p[i].value, p[i].key, t)
  <2>1. CASE j.addo = k.addo  BY <2>1, SMT
  <2>2. CASE j.addo # k.addo
    <3>1. p = <<a>>  BY <2>2
    <3>2. <<a>> \in Seq(T) /\ \A i \in 1 .. Len(<<a>>) : <<a>>[i] = a  BY <1>13, SMT
    <3> QED BY <3>1, <3>2, <1>13
  <2> QED BY <2>1, <2>2
<1>10. r \in Seq(T) /\ \A i \in 1 .. Len(r) : Sound(r[i].value, r[i].key, t)
  <2>1. CASE j.rd = k.rd  BY <2>1, SMT
  <2>2. CASE j.rd # k.rd
    <3>1. r = <<b>>  BY <2>2
    <3>2. <<b>> \in Seq(T) /\ \A i \in 1 .. Len(<<b>>) : <<b>>[i] = b  BY <1>14, <2>2, SMT
    <3> QED BY <3>1, <3>2, <2>2, <1>14
  <2> QED BY <2>1, <2>2
<1>11. Inserts(j, k, v) = p \o r
  BY <1>4
<1> HIDE DEF p, r, T
<1>12. /\ p \o r \in Seq(T)
       /\ \A i \in 1 .. Len(p \o r) : Sound((p \o r)[i].value, (p \o r)[i].key, t)
  BY <1>9, <1>10, InConcat, SMT
<1> QED BY <1>8, <1>11, <1>12 DEF T

------------------------------------------------------------------------------

\* What is still to be inserted.
Inserted == [key : KeySet, value : Values]

\* Where a request may be at time t, and what it has in its hands there.
UserOK(s, t) ==
    /\ s.st \in {"new", "forwarded", "lookup", "insert", "upstream", "done"}
    /\ s.st = "lookup" =>
         /\ s = [st |-> "lookup", key |-> s.key, at |-> s.at]
         /\ s.key \in KeySet /\ s.at \in 1 .. Len(Lookups(s.key))
    /\ s.st = "insert" =>
         /\ s \in [st : {"insert"}, key : KeySet, value : Values, todo : Seq(Inserted)]
         /\ Sound(s.value, s.key, t) /\ Kept(s.value.resp)
         /\ \A i \in 1 .. Len(s.todo) : Sound(s.todo[i].value, s.todo[i].key, t)
    /\ s.st = "upstream" => s.key \in KeySet
    /\ s.st = "done" /\ s.cached =>
         /\ Fresh(s.resp, s.when - s.resp.origin.at)
         /\ Suits(s.resp, s.key) /\ Kept(s.resp)

CacheOK(c, t) ==
    /\ DOMAIN c \subseteq KeySet
    /\ \A k \in DOMAIN c : Sound(c[k], k, t) /\ Kept(c[k].resp)

CInv ==
    /\ now \in Nat
    /\ CacheOK(cache, now)
    /\ DOMAIN user = User /\ \A u \in User : UserOK(user[u], now)

\* Time does no harm to what is stored: an age is only looked at when it is served.
LEMMA SoundLater ==
    ASSUME NEW v, NEW k, NEW t \in Nat, Sound(v, k, t)
    PROVE  Sound(v, k, t + 1)
BY SMT DEF Sound, Values

\* What a request carries stays sound.
LEMMA UserOKLater ==
    ASSUME NEW s, NEW t \in Nat, UserOK(s, t)
    PROVE  UserOK(s, t + 1)
BY SoundLater DEF UserOK

\* The value of a response that has just come.
LEMMA ResponseSound ==
    ASSUME NEW k \in KeySet, now \in Nat, NEW m \in ResponsesTo(k)
    PROVE  Sound(Value(m), k, now)
<1>1. PICK r \in Replies :
        m = [rcode |-> r.rcode, class |-> r.class, tc |-> r.tc, ttl |-> r.ttl, aa |-> r.aa,
             sig |-> IF Do(k) \/ k.q \in DnssecTypes THEN r.sig ELSE NoTtl,
             ad |-> r.ad /\ Ad(k), rd |-> k.rd,
             origin |-> [key |-> k, at |-> now, ttl |-> r.ttl, sig |-> r.sig]]
  BY DEF ResponsesTo
<1>2. /\ r.rcode \in STRING /\ r.class \in {"answer", "SOA", "NS", "weird"} /\ r.tc \in BOOLEAN
      /\ r.ttl \in TtlSet /\ r.sig \in TtlSet /\ r.aa \in BOOLEAN /\ r.ad \in BOOLEAN
  BY RepliesAssumption
<1>3. k.rd \in BOOLEAN /\ (r.ad /\ Ad(k)) \in BOOLEAN
  BY DEF KeySet
<1>4. NoTtl \in TtlSet
  BY DEF TtlSet
<1>5. /\ m.origin = [key |-> k, at |-> now, ttl |-> r.ttl, sig |-> r.sig]
      /\ m.rd = k.rd /\ m.ad = (r.ad /\ Ad(k)) /\ m.ttl = r.ttl
      /\ m.sig = IF Do(k) \/ k.q \in DnssecTypes THEN r.sig ELSE NoTtl
  BY <1>1
<1>6. m \in Responses
  BY <1>1, <1>2, <1>3, <1>4 DEF Responses
<1>7. m.origin.key = k /\ m.origin.at = now /\ m.origin.ttl = r.ttl /\ m.origin.sig = r.sig
  BY <1>5, SMT
<1>8. Original(m) /\ Suits(m, k)
  BY <1>5, <1>7 DEF Original, Suits
<1>9. Validity(m) \in Nat
  BY <1>6, ValidityBounds
<1>10. Value(m) \in Values
  BY <1>6, <1>9 DEF Value, Values
<1>11. Value(m).created = now /\ Value(m).valid = Validity(m) /\ Value(m).resp = m
  BY DEF Value
<1> QED BY <1>7, <1>8, <1>10, <1>11, SMT DEF Sound

\* cache_insert stores only what may be used.
LEMMA InsertOK ==
    ASSUME now \in Nat, CacheOK(cache, now), NEW k \in KeySet, NEW v, Sound(v, k, now),
           CacheInsert(k, v)
    PROVE  CacheOK(cache', now)
<1>1. CASE v.valid = 0
  BY <1>1 DEF CacheInsert
<1>2. CASE v.valid # 0
  <2>1. Sound(ClearAa(v), k, now) /\ Kept(ClearAa(v).resp)
    BY <1>2, ClearAaSound
  <2>2. cache' = [j \in DOMAIN cache \cup {k} |-> IF j = k THEN ClearAa(v) ELSE cache[j]]
    BY <1>2 DEF CacheInsert
  <2> QED BY <2>1, <2>2 DEF CacheOK
<1> QED BY <1>1, <1>2

\* What get_response and decrement_ttl make of a value that has not expired.
LEMMA ServedFresh ==
    ASSUME NEW v, NEW k \in KeySet, NEW t \in Nat, Sound(v, k, t), Kept(v.resp),
           ~ (t - v.created > v.valid), NEW a, a = t - v.created, NEW m,
           m = [v.resp EXCEPT !.ttl = Minus(@, a), !.sig = Minus(@, a)]
    PROVE  Fresh(m, t - m.origin.at) /\ Suits(m, k) /\ Kept(m)
<1>1. v.resp \in Responses /\ v.created \in Nat /\ v.valid \in Nat
  BY DEF Sound, Values
<1>2. /\ m.rcode = v.resp.rcode /\ m.class = v.resp.class /\ m.tc = v.resp.tc
      /\ m.ttl = Minus(v.resp.ttl, a) /\ m.aa = v.resp.aa /\ m.sig = Minus(v.resp.sig, a)
      /\ m.ad = v.resp.ad /\ m.origin = v.resp.origin /\ m.rd = v.resp.rd
  BY <1>1 DEF Responses
<1>3. v.resp.ttl \in TtlSet /\ v.resp.sig \in TtlSet
  BY <1>1 DEF Responses
<1>4. /\ a = t - m.origin.at /\ a \in Nat /\ a <= Validity(v.resp)
      /\ v.created = v.resp.origin.at
  BY <1>1, <1>2, SMT DEF Sound
<1>5. Limit(m) = Limit(v.resp) /\ Limit(m) \in Nat
  <2>1. Limit(v.resp) \in Nat
    BY <1>1, LimitIsNat
  <2> QED BY <2>1, <1>2 DEF Limit
<1>6. Validity(v.resp) \in Nat
  BY <1>1, ValidityBounds
<1>7. /\ m.ttl = NoTtl <=> v.resp.ttl = NoTtl
      /\ m.sig = NoTtl <=> v.resp.sig = NoTtl
  BY <1>2, <1>3, <1>4, RepliesAssumption, SMT DEF Minus, TtlSet
<1>8. m.rcode = "error" => a <= FailureDuration
  BY <1>1, <1>2, <1>4, ValidityBounds
<1>9. m.rcode # "error" =>
        /\ a <= Limit(m)
        /\ m.ttl # NoTtl => m.ttl >= 0 /\ m.ttl + a <= m.origin.ttl
        /\ m.sig # NoTtl => m.sig >= 0 /\ m.sig + a <= m.origin.sig
  <2> SUFFICES ASSUME m.rcode # "error"
               PROVE  /\ a <= Limit(m)
                      /\ m.ttl # NoTtl => m.ttl >= 0 /\ m.ttl + a <= m.origin.ttl
                      /\ m.sig # NoTtl => m.sig >= 0 /\ m.sig + a <= m.origin.sig
    OBVIOUS
  <2>1. /\ Validity(v.resp) <= Limit(v.resp)
        /\ v.resp.ttl # NoTtl => Validity(v.resp) <= v.resp.ttl
        /\ v.resp.sig # NoTtl => Validity(v.resp) <= v.resp.sig
    BY <1>1, <1>2, ValidityBounds
  <2>2. a <= Limit(m)
    BY <2>1, <1>4, <1>5, <1>6, SMT
  <2>3. v.resp.ttl = m.origin.ttl /\ v.resp.sig \in {NoTtl, m.origin.sig}
    BY <1>2 DEF Sound, Original
  <2>4. m.ttl # NoTtl => m.ttl >= 0 /\ m.ttl + a <= m.origin.ttl
    <3> SUFFICES ASSUME m.ttl # NoTtl PROVE m.ttl >= 0 /\ m.ttl + a <= m.origin.ttl
      OBVIOUS
    <3>1. v.resp.ttl \in Nat /\ v.resp.ttl # NoTtl
      BY <1>3, <1>7 DEF TtlSet
    <3>2. m.ttl = v.resp.ttl - a
      BY <1>2, <3>1 DEF Minus
    <3> QED BY <3>1, <3>2, <2>1, <2>3, <1>4, <1>6, SMT
  <2>5. m.sig # NoTtl => m.sig >= 0 /\ m.sig + a <= m.origin.sig
    <3> SUFFICES ASSUME m.sig # NoTtl PROVE m.sig >= 0 /\ m.sig + a <= m.origin.sig
      OBVIOUS
    <3>1. v.resp.sig \in Nat /\ v.resp.sig # NoTtl
      BY <1>3, <1>7 DEF TtlSet
    <3>2. m.sig = v.resp.sig - a
      BY <1>2, <3>1 DEF Minus
    <3> QED BY <3>1, <3>2, <2>1, <2>3, <1>4, <1>6, SMT
  <2> QED BY <2>2, <2>4, <2>5
<1>10. Fresh(m, a)
  BY <1>8, <1>9 DEF Fresh
<1>11. Suits(m, k)
  BY <1>2, <1>7 DEF Sound, Suits
<1>12. Kept(m)
  BY <1>2 DEF Kept
<1> QED BY <1>4, <1>10, <1>11, <1>12

\* A step of one request that gets into state s.
LEMMA StepOK ==
    ASSUME CInv, NEW u \in User, NEW s, Step(u, s), now' = now, CacheOK(cache', now), UserOK(s, now)
    PROVE  CInv'
BY DEF CInv, Step

\* A request comes in.
LEMMA AskOK ==
    ASSUME CInv, NEW u \in User, NEW k \in Keys[u], Ask(u, k)
    PROVE  CInv'
<1>1. k \in KeySet
  BY KeysAssumption
<1> DEFINE s == [st |-> "lookup", key |-> k, at |-> 1]
<1>2. s.st = "lookup" /\ s.key = k /\ s.at = 1
  OBVIOUS
<1>3. 1 \in 1 .. Len(Lookups(k))
  BY <1>1, LookupsCover
<1>4. UserOK(s, now)
  BY <1>1, <1>2, <1>3 DEF UserOK
<1>5. Step(u, s) /\ now' = now /\ CacheOK(cache', now)
  BY DEF Ask, CInv
<1> HIDE DEF s
<1> QED BY <1>4, <1>5, StepOK

\* cache_lookup.
LEMMA GetOK ==
    ASSUME CInv, NEW u \in User, Get(u)
    PROVE  CInv'
<1> DEFINE k == user[u].key
           i == user[u].at
           j == Lookups(k)[i]
<1>1. /\ user[u].st = "lookup"
      /\ user[u] = [st |-> "lookup", key |-> k, at |-> i]
      /\ k \in KeySet /\ i \in 1 .. Len(Lookups(k))
  BY DEF Get, CInv, UserOK
<1>2. now' = now /\ CacheOK(cache', now) /\ now \in Nat
  BY DEF Get, CInv
<1>3. Covers(j, k) /\ Len(Lookups(k)) \in Nat
  BY <1>1, LookupsCover
<1>4. CASE j \in DOMAIN cache
  <2> DEFINE s == [st |-> "insert", key |-> k, value |-> Found(j, k, cache[j]),
                   todo |-> Inserts(j, k, cache[j])]
  <2>1. Step(u, s)
    BY <1>4 DEF Get
  <2>2. Sound(cache[j], j, now) /\ Kept(cache[j].resp)
    BY <1>4 DEF CInv, CacheOK
  <2> HIDE DEF j, k, i
  <2>3. /\ Sound(Found(j, k, cache[j]), k, now) /\ Kept(Found(j, k, cache[j]).resp)
        /\ Inserts(j, k, cache[j]) \in Seq([key : KeySet, value : Values])
        /\ \A n \in 1 .. Len(Inserts(j, k, cache[j])) :
              Sound(Inserts(j, k, cache[j])[n].value, Inserts(j, k, cache[j])[n].key, now)
    BY <1>1, <1>2, <1>3, <2>2, FoundSound
  <2>4. /\ s.st = "insert" /\ s.key = k /\ s.value = Found(j, k, cache[j])
        /\ s.todo = Inserts(j, k, cache[j])
    OBVIOUS
  <2>5. s \in [st : {"insert"}, key : KeySet, value : Values, todo : Seq(Inserted)]
    BY <1>1, <2>3 DEF Sound, Inserted
  <2> HIDE DEF s
  <2>6. UserOK(s, now)
    BY <1>1, <2>3, <2>4, <2>5 DEF UserOK
  <2> QED BY <1>2, <2>1, <2>6, StepOK
<1>5. CASE j \notin DOMAIN cache /\ i < Len(Lookups(k))
  <2> DEFINE s == [user[u] EXCEPT !.at = @ + 1]
  <2>1. Step(u, s)
    BY <1>5 DEF Get
  <2>2. s = [st |-> "lookup", key |-> k, at |-> i + 1]
    BY <1>1, SMT
  <2>3. s.st = "lookup" /\ s.key = k /\ s.at = i + 1
    BY <2>2
  <2> HIDE DEF s
  <2>4. s.at \in 1 .. Len(Lookups(k))
    BY <1>1, <1>3, <1>5, <2>3, SMT
  <2>5. UserOK(s, now)
    BY <1>1, <2>2, <2>3, <2>4 DEF UserOK
  <2> QED BY <1>2, <2>1, <2>5, StepOK
<1>6. CASE j \notin DOMAIN cache /\ ~ (i < Len(Lookups(k)))
  <2> DEFINE s == [st |-> "upstream", key |-> k]
  <2>1. Step(u, s)
    BY <1>6 DEF Get
  <2>2. UserOK(s, now)
    BY <1>1 DEF UserOK
  <2> HIDE DEF s
  <2> QED BY <1>2, <2>1, <2>2, StepOK
<1> QED BY <1>4, <1>5, <1>6

\* A response for another key is stored for the key asked for.
LEMMA InsertDerivedOK ==
    ASSUME CInv, NEW u \in User, InsertDerived(u)
    PROVE  CInv'
<1> DEFINE td == user[u].todo
           s == [user[u] EXCEPT !.todo = Tail(@)]
<1>1. /\ user[u].st = "insert"
      /\ user[u] \in [st : {"insert"}, key : KeySet, value : Values, todo : Seq(Inserted)]
      /\ Sound(user[u].value, user[u].key, now) /\ Kept(user[u].value.resp)
      /\ td # << >>
      /\ \A i \in 1 .. Len(td) : Sound(td[i].value, td[i].key, now)
  BY DEF InsertDerived, CInv, UserOK
<1>2. now' = now /\ now \in Nat /\ Step(u, s) /\ CacheInsert(Head(td).key, Head(td).value)
  BY DEF InsertDerived, CInv
<1>3. td \in Seq(Inserted)
  BY <1>1
<1>4. s.st = "insert" /\ s.key = user[u].key /\ s.value = user[u].value /\ s.todo = Tail(td)
  BY <1>1
<1>5. /\ Head(td) = td[1] /\ 1 \in 1 .. Len(td) /\ td[1] \in Inserted /\ Tail(td) \in Seq(Inserted)
      /\ \A i \in 1 .. Len(Tail(td)) : i + 1 \in 1 .. Len(td) /\ Tail(td)[i] = td[i + 1]
  <2> HIDE DEF td
  <2> QED BY <1>1, <1>3, SMT
<1>9. s \in [st : {"insert"}, key : KeySet, value : Values, todo : Seq(Inserted)]
  BY <1>1, <1>5
<1> HIDE DEF td, s
<1>6. Head(td).key \in KeySet /\ Sound(Head(td).value, Head(td).key, now)
  BY <1>1, <1>5 DEF Inserted
<1>7. CacheOK(cache', now)
  BY <1>2, <1>6, InsertOK DEF CInv
<1>8. UserOK(s, now)
  BY <1>1, <1>4, <1>5, <1>9, SMT DEF UserOK
<1> QED BY <1>2, <1>7, <1>8, StepOK

\* A value is told.
LEMMA ServeOK ==
    ASSUME CInv, NEW u \in User, Serve(u)
    PROVE  CInv'
<1> DEFINE v == user[u].value
           k == user[u].key
           a == now - v.created
           m == [v.resp EXCEPT !.ttl = Minus(@, a), !.sig = Minus(@, a)]
<1>1. k \in KeySet /\ Sound(v, k, now) /\ Kept(v.resp) /\ now \in Nat
  BY DEF Serve, CInv, UserOK
<1>2. now' = now /\ CacheOK(cache', now)
  BY DEF Serve, CInv
<1>3. CASE now - v.created > v.valid
  <2> DEFINE s == [st |-> "upstream", key |-> k]
  <2>1. Step(u, s)
    BY <1>3 DEF Serve
  <2>2. UserOK(s, now)
    BY <1>1 DEF UserOK
  <2> HIDE DEF s
  <2> QED BY <1>2, <2>1, <2>2, StepOK
<1>4. CASE ~ (now - v.created > v.valid)
  <2> DEFINE s == [st |-> "done", key |-> k, cached |-> TRUE, when |-> now, resp |-> m]
  <2>1. Step(u, s)
    BY <1>4 DEF Serve
  <2> HIDE DEF v, k
  <2>2. Fresh(m, now - m.origin.at) /\ Suits(m, k) /\ Kept(m)
    BY <1>1, <1>4, ServedFresh
  <2>3. s.st = "done" /\ s.key = k /\ s.when = now /\ s.resp = m
    OBVIOUS
  <2> HIDE DEF s, m
  <2>4. UserOK(s, now)
    BY <2>2, <2>3 DEF UserOK
  <2> QED BY <1>2, <2>1, <2>4, StepOK
<1> QED BY <1>3, <1>4

\* The upstream responds.
LEMMA RespondOK ==
    ASSUME CInv, NEW u \in User, Respond(u)
    PROVE  CInv'
<1> DEFINE k == user[u].key
<1>1. k \in KeySet /\ now \in Nat /\ now' = now
  BY DEF Respond, CInv, UserOK
<1>2. PICK m \in ResponsesTo(k) :
        /\ CacheInsert(k, Value(m))
        /\ Step(u, [st |-> "done", key |-> k, cached |-> FALSE, when |-> now, resp |-> m])
  BY DEF Respond
<1> DEFINE s == [st |-> "done", key |-> k, cached |-> FALSE, when |-> now, resp |-> m]
<1> HIDE DEF k
<1>3. Sound(Value(m), k, now)
  BY <1>1, ResponseSound
<1>4. CacheOK(cache', now)
  BY <1>1, <1>2, <1>3, InsertOK DEF CInv
<1>5. s.st = "done" /\ s.cached = FALSE
  OBVIOUS
<1>6. Step(u, s)
  BY <1>2
<1> HIDE DEF s
<1>7. UserOK(s, now)
  BY <1>5 DEF UserOK
<1> QED BY <1>1, <1>4, <1>6, <1>7, StepOK

\* Every step keeps the invariant.
LEMMA CacheStep ==
    ASSUME CInv, [CNext]_cvars
    PROVE  CInv'
<1>1. ASSUME NEW u \in User, NEW k \in Keys[u], Ask(u, k) PROVE CInv'
  BY <1>1, AskOK
<1>2. ASSUME NEW u \in User, Get(u) PROVE CInv'
  BY <1>2, GetOK
<1>3. ASSUME NEW u \in User, InsertDerived(u) PROVE CInv'
  BY <1>3, InsertDerivedOK
<1>4. ASSUME NEW u \in User, Serve(u) PROVE CInv'
  BY <1>4, ServeOK
<1>5. ASSUME NEW u \in User, Respond(u) PROVE CInv'
  BY <1>5, RespondOK
<1>6. ASSUME NEW u \in User, Forward(u) PROVE CInv'
  <2> DEFINE s == [st |-> "forwarded"]
  <2>1. Step(u, s) /\ now' = now /\ CacheOK(cache', now)
    BY <1>6 DEF Forward, CInv
  <2>2. UserOK(s, now)
    BY DEF UserOK
  <2> HIDE DEF s
  <2> QED BY <2>1, <2>2, StepOK
<1>7. ASSUME NEW k \in DOMAIN cache, Evict(k) PROVE CInv'
  <2>1. cache' = [j \in DOMAIN cache \ {k} |-> cache[j]] /\ now' = now /\ user' = user
    BY <1>7 DEF Evict
  <2> QED BY <2>1 DEF CInv, CacheOK
<1>8. CASE CacheTick
  <2>1. now' = now + 1 /\ cache' = cache /\ user' = user
    BY <1>8 DEF CacheTick
  <2>2. \A k \in DOMAIN cache : Sound(cache[k], k, now + 1)
    BY SoundLater DEF CInv, CacheOK
  <2>3. \A u \in User : UserOK(user[u], now + 1)
    BY UserOKLater DEF CInv
  <2> QED BY <2>1, <2>2, <2>3, SMT DEF CInv, CacheOK
<1>9. CASE UNCHANGED cvars
  BY <1>9 DEF cvars, CInv
<1> QED BY <1>1, <1>2, <1>3, <1>4, <1>5, <1>6, <1>7, <1>8, <1>9 DEF CNext

\* What the cache holds and what requests carry has been received from the upstream
\* when it says and suits its key, for any requests, replies and durations.
THEOREM CacheInvariant == CSpec => []CInv
<1>1. CInit => CInv
  <2> SUFFICES ASSUME CInit PROVE CInv
    OBVIOUS
  <2>1. now = 0 /\ cache = << >> /\ DOMAIN cache = {}
    BY SMT DEF CInit
  <2>2. DOMAIN user = User /\ \A u \in User : user[u].st = "new"
    BY DEF CInit
  <2>3. \A u \in User : UserOK(user[u], now)
    BY <2>2 DEF UserOK
  <2> QED BY <2>1, <2>2, <2>3 DEF CInv, CacheOK
<1> QED BY <1>1, CacheStep, PTL DEF CSpec

\* Nothing is answered from the cache for longer than it may be (get_response,
\* decrement_ttl, new_from_value_and_response).
THEOREM NothingStale == CSpec => []CachedIsFresh
<1>1. CInv => CachedIsFresh
  <2> SUFFICES ASSUME CInv, NEW u \in User, FromCache(u)
               PROVE  Fresh(user[u].resp, Age(u))
    BY Zenon DEF CachedIsFresh, Fresh
  <2> QED BY DEF CInv, UserOK, FromCache, Age
<1> QED BY <1>1, CacheInvariant, PTL

\* An answer from the cache is one the upstream could have given to the request
\* (cache_lookup_rd_do_ad, update_message, prepare_for_insert).
THEOREM AlwaysSuits == CSpec => []CachedSuitsRequest
<1>1. CInv => CachedSuitsRequest
  <2> SUFFICES ASSUME CInv, NEW u \in User, FromCache(u)
               PROVE  Suits(user[u].resp, user[u].key) /\ Kept(user[u].resp)
    BY DEF CachedSuitsRequest, Suits, Kept
  <2> QED BY DEF CInv, UserOK, FromCache
<1> QED BY <1>1, CacheInvariant, PTL
=============================================================================
