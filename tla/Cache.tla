-------------------------------- MODULE Cache --------------------------------
(***************************************************************************)
(* A client that answers from a cache of responses (net/client/cache.rs).  *)
(*                                                                         *)
(* The cache is a map from the question and four flags to a response and   *)
(* the time it was received.  A request that finds no entry of its own     *)
(* looks for one made with other flags, turns it into one for itself and   *)
(* stores that too.  Requests run concurrently; each get and each insert   *)
(* of the map is one step, and the map may drop entries at any time.       *)
(*                                                                         *)
(* A response is its code, its flags, what classify_no_error makes of it,  *)
(* and the least TTLs of its DNSSEC records and of its other ones.         *)
(***************************************************************************)
EXTENDS Integers, Sequences

CONSTANTS
    NoTtl,            \* the TTL of records that are not there
    User,             \* the requests; each is used once
    Keys,             \* per request: the keys [q, addo, cd, rd] it may have
    DnssecTypes,      \* questions for RRSIG, NSEC or NSEC3
    Replies,          \* what the upstream can respond, without the flags of the question
    MaxValidity,      \* config.max_validity, and so on
    FailureDuration, MiscDuration, NxdomainValidity, NodataValidity, DelegationValidity,
    CacheTruncated,
    MaxNow            \* bound: the clock

VARIABLES
    now,      \* the clock, in seconds
    cache,    \* the map, a function on the keys it holds
    user      \* per request: RequestState and where its lookup is

cvars == <<now, cache, user>>

\* AdDo, and the keys of requests.
AdDos == {"Do", "Ad", "None"}
KeySet == [q : {k.q : k \in UNION {Keys[u] : u \in User}}, addo : AdDos, cd : BOOLEAN, rd : BOOLEAN]

\* The TTL of records, if there are any.
TtlSet == Nat \cup {NoTtl}

ASSUME KeysAssumption == \A u \in User : Keys[u] \subseteq KeySet

ASSUME RepliesAssumption ==
    /\ NoTtl \notin Int
    /\ Replies \subseteq [rcode : STRING, class : {"answer", "SOA", "NS", "weird"}, tc : BOOLEAN,
                        ttl : TtlSet, sig : TtlSet, aa : BOOLEAN, ad : BOOLEAN]

ASSUME DurationAssumption ==
    /\ {MaxValidity, FailureDuration, MiscDuration, NxdomainValidity, NodataValidity,
        DelegationValidity, MaxNow} \subseteq Nat
    /\ CacheTruncated \in BOOLEAN

Least(S) == CHOOSE m \in S : \A n \in S : m <= n
Ttls(m) == {m.ttl, m.sig} \ {NoTtl}

CInit ==
    /\ now = 0
    /\ cache = << >>
    /\ user = [u \in User |-> [st |-> "new"]]

------------------------------------------------------------------------------
(* Keys: AdDo. *)

Do(k) == k.addo = "Do"
Ad(k) == k.addo \in {"Ad", "Do"}

------------------------------------------------------------------------------
(* Values. *)

\* classify_no_error, by what the response has: an answer, a SOA or NS records.
Limit(m) ==
    CASE m.rcode = "NOERROR" /\ m.class = "answer"     -> MaxValidity
      [] m.rcode = "NOERROR" /\ m.class = "SOA"        -> NodataValidity
      [] m.rcode = "NOERROR" /\ m.class = "NS"         -> DelegationValidity
      [] m.rcode = "NOERROR" /\ m.class = "weird"      -> 0
      [] m.rcode = "NXDOMAIN"                          -> NxdomainValidity
      [] OTHER                                         -> MiscDuration

\* validity.
Validity(m) ==
    IF m.rcode = "error" THEN FailureDuration
    ELSE IF m.tc /\ ~ CacheTruncated THEN 0
    ELSE Least({MaxValidity, Limit(m)} \cup Ttls(m))

\* Value::new.
Value(m) == [created |-> now, valid |-> Validity(m), resp |-> m]

\* Mutant: the age of a response starts anew when its flags are changed.
MDerived(v, m) == [created |-> now, valid |-> Validity(m), resp |-> m]

\* Value::new_from_value_and_response.
Derived(v, m) == [created |-> v.created, valid |-> Validity(m), resp |-> m]

\* update_message and update_header: an error is left as it is.
ClearRd(v) == IF v.resp.rcode = "error" THEN v ELSE Derived(v, [v.resp EXCEPT !.rd = FALSE])

ClearAd(v) ==
    IF v.resp.rcode # "error" /\ v.resp.ad THEN Derived(v, [v.resp EXCEPT !.ad = FALSE]) ELSE v

ClearAa(v) ==
    IF v.resp.rcode # "error" /\ v.resp.aa THEN Derived(v, [v.resp EXCEPT !.aa = FALSE]) ELSE v

\* Mutant: the AD flag is kept.
MRemoveDnssec(v, ad) ==
    IF v.resp.rcode = "error" THEN v ELSE Derived(v, [v.resp EXCEPT !.sig = NoTtl])

\* remove_dnssec.
RemoveDnssec(v, ad) ==
    IF v.resp.rcode = "error" THEN v
    ELSE Derived(v, [v.resp EXCEPT !.sig = NoTtl, !.ad = @ /\ ad])

\* cache_insert with prepare_for_insert.
CacheInsert(k, v) ==
    cache' = IF v.valid = 0 THEN cache
             ELSE [j \in DOMAIN cache \cup {k} |-> IF j = k THEN ClearAa(v) ELSE cache[j]]

------------------------------------------------------------------------------
(* Lookups. *)

\* The keys cache_lookup_do_ad tries for k.
Tried(k) ==
    <<k>> \o (IF Ad(k) THEN << >> ELSE <<[k EXCEPT !.addo = "Ad"]>>)
          \o (IF Do(k) \/ k.q \in DnssecTypes THEN << >> ELSE <<[k EXCEPT !.addo = "Do"]>>)

\* cache_lookup_rd_do_ad: with RD clear, the same with RD set after that.
Lookups(k) == Tried(k) \o IF k.rd THEN << >> ELSE Tried([k EXCEPT !.rd = TRUE])

\* What the entry of key j is turned into for key k, if they differ in AD and DO.
Adapt(j, k, v) ==
    IF j.addo = k.addo THEN v
    ELSE IF j.addo = "Ad" THEN ClearAd(v)
    ELSE RemoveDnssec(v, Ad(k))

\* The inserts that follow when v is found under j: first with the RD flag of j,
\* then, if it differs, with that of k.
Inserts(j, k, v) ==
    LET a == [key |-> [k EXCEPT !.rd = j.rd], value |-> Adapt(j, k, v)]
    IN  (IF j.addo = k.addo THEN << >> ELSE <<a>>)
        \o (IF j.rd = k.rd THEN << >> ELSE <<[key |-> k, value |-> ClearRd(a.value)]>>)

\* The value the lookup returns.
Found(j, k, v) == IF j.rd = k.rd THEN Adapt(j, k, v) ELSE ClearRd(Adapt(j, k, v))

------------------------------------------------------------------------------
(* Requests. *)

Step(u, s) == user' = [user EXCEPT ![u] = s]

\* RequestState::Init up to the first get, for a question that can be cached.
Ask(u, k) ==
    /\ user[u].st = "new"
    /\ Step(u, [st |-> "lookup", key |-> k, at |-> 1])
    /\ UNCHANGED <<now, cache>>

\* cache.get of the next key.
Get(u) ==
    /\ user[u].st = "lookup"
    /\ LET k == user[u].key
           j == Lookups(k)[user[u].at]
       IN  IF j \in DOMAIN cache
           THEN Step(u, [st |-> "insert", key |-> k, value |-> Found(j, k, cache[j]),
                         todo |-> Inserts(j, k, cache[j])])
           ELSE IF user[u].at < Len(Lookups(k))
           THEN Step(u, [user[u] EXCEPT !.at = @ + 1])
           ELSE Step(u, [st |-> "upstream", key |-> k])
    /\ UNCHANGED <<now, cache>>

\* cache_insert of a value that was derived.
InsertDerived(u) ==
    /\ user[u].st = "insert" /\ user[u].todo # << >>
    /\ CacheInsert(Head(user[u].todo).key, Head(user[u].todo).value)
    /\ Step(u, [user[u] EXCEPT !.todo = Tail(@)])
    /\ UNCHANGED now

Minus(t, n) == IF t = NoTtl THEN NoTtl ELSE t - n

\* Value::get_response and decrement_ttl.
Serve(u) ==
    /\ user[u].st = "insert" /\ user[u].todo = << >>
    /\ LET v == user[u].value
           k == user[u].key
       IN  IF now - v.created > v.valid
           THEN Step(u, [st |-> "upstream", key |-> k])
           ELSE Step(u, [st |-> "done", key |-> k, cached |-> TRUE, when |-> now,
                         resp |-> [v.resp EXCEPT !.ttl = Minus(@, now - v.created),
                                                 !.sig = Minus(@, now - v.created)]])
    /\ UNCHANGED <<now, cache>>

(* The upstream (external).  It sets AD and adds DNSSEC records only for   *)
(* those who asked for them, and copies RD.                                *)
ResponsesTo(k) ==
    {[rcode |-> m.rcode, class |-> m.class, tc |-> m.tc, ttl |-> m.ttl, aa |-> m.aa,
      sig |-> IF Do(k) \/ k.q \in DnssecTypes THEN m.sig ELSE NoTtl,
      ad |-> m.ad /\ Ad(k), rd |-> k.rd,
      origin |-> [key |-> k, at |-> now, ttl |-> m.ttl, sig |-> m.sig]] : m \in Replies}

\* RequestState::GetResponse: the upstream responds, the response is cached.
Respond(u) ==
    /\ user[u].st = "upstream"
    /\ \E m \in ResponsesTo(user[u].key) :
         /\ CacheInsert(user[u].key, Value(m))
         /\ Step(u, [st |-> "done", key |-> user[u].key, cached |-> FALSE, when |-> now, resp |-> m])
    /\ UNCHANGED now

\* A question that cannot be cached (GetResponseNoCache).
Forward(u) ==
    /\ user[u].st = "new"
    /\ Step(u, [st |-> "forwarded"])
    /\ UNCHANGED <<now, cache>>

\* The map drops an entry to stay below max_cache_entries.
Evict(k) ==
    /\ k \in DOMAIN cache
    /\ cache' = [j \in DOMAIN cache \ {k} |-> cache[j]]
    /\ UNCHANGED <<now, user>>

CacheTick == now < MaxNow /\ now' = now + 1 /\ UNCHANGED <<cache, user>>

CNext ==
    \/ \E u \in User : (\E k \in Keys[u] : Ask(u, k)) \/ Get(u) \/ InsertDerived(u) \/ Serve(u)
                       \/ Respond(u) \/ Forward(u)
    \/ \E k \in DOMAIN cache : Evict(k)
    \/ CacheTick

CSpec == CInit /\ [][CNext]_cvars

------------------------------------------------------------------------------

FromCache(u) == user[u].st = "done" /\ user[u].cached

Age(u) == user[u].when - user[u].resp.origin.at

(* Nothing is answered from the cache for longer than its records or its   *)
(* kind allow, counted from the moment the upstream responded, however     *)
(* often the entry was turned into one for other flags; the TTLs say what  *)
(* is left of the original ones (cache.rs, get_response, decrement_ttl,    *)
(* new_from_value_and_response).                                           *)
CachedIsFresh ==
    \A u \in User : FromCache(u) =>
        LET m == user[u].resp
        IN  /\ m.rcode = "error" => Age(u) <= FailureDuration
            /\ m.rcode # "error" =>
                 /\ Age(u) <= Limit(m)
                 /\ m.ttl # NoTtl => m.ttl >= 0 /\ m.ttl + Age(u) <= m.origin.ttl
                 /\ m.sig # NoTtl => m.sig >= 0 /\ m.sig + Age(u) <= m.origin.sig

(* An answer from the cache is one the upstream could have given to this   *)
(* request: CD was the same, a request with RD or DO was made with it, the *)
(* AD flag and DNSSEC records are only there for those who asked, AA is    *)
(* clear, truncated responses are kept only if the configuration says so,  *)
(* weird ones never (cache.rs, the comments on the flags before Config).   *)
CachedSuitsRequest ==
    \A u \in User : FromCache(u) =>
        LET m == user[u].resp
            k == user[u].key
            o == m.origin.key
        IN  /\ o.q = k.q /\ o.cd = k.cd
            /\ k.rd => o.rd
            /\ Do(k) => Do(o)
            /\ m.rcode # "error" =>
                 /\ m.rd = k.rd
                 /\ m.ad => Ad(k)
                 /\ m.sig # NoTtl => Do(k) \/ k.q \in DnssecTypes
                 /\ ~ m.aa
                 /\ m.tc => CacheTruncated
                 /\ ~ (m.rcode = "NOERROR" /\ m.class = "weird")
==============================================================================
