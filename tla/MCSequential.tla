---------------------------- MODULE MCSequential ----------------------------
(***************************************************************************)
(* The components that one task at a time uses, one family of behaviours   *)
(* each: the table of outstanding queries of a stream connection, the      *)
(* client's cache, messages signed with TSIG, and the message builder.     *)
(***************************************************************************)
EXTENDS QueryTable, Cache, TsigExchange, MCBuilder

CONSTANTS u1, u2, u3

Key(q, addo, cd, rd) == [q |-> q, addo |-> addo, cd |-> cd, rd |-> rd]

AllKeys ==
    [q : {"A"}, addo : {"Do", "Ad", "None"}, cd : {FALSE}, rd : BOOLEAN]
    \cup {Key("A", "None", TRUE, FALSE), Key("RRSIG", "None", FALSE, TRUE), Key("RRSIG", "Do", FALSE, TRUE)}

(* The first request fills the cache, the second may be anything and leave *)
(* entries it derived, the third asks for the least.                       *)
Menu == [u \in User |-> CASE u = u1 -> {k \in AllKeys : Do(k) /\ k.rd}
                          [] u = u2 -> {k \in AllKeys : ~ k.rd \/ ~ Ad(k)}
                          [] u = u3 -> {Key("A", "None", FALSE, FALSE)}]

Msg(rcode, class, tc, ttl, sig) ==
    [rcode |-> rcode, class |-> class, tc |-> tc, ttl |-> ttl, sig |-> sig, aa |-> TRUE, ad |-> TRUE]

\* One reply per limit, with TTLs below and above it.
AllReplies ==
    {Msg("NOERROR", "answer", FALSE, 2, 1), Msg("NOERROR", "SOA", FALSE, 3, 2),
     Msg("NOERROR", "NS", FALSE, 3, 2), Msg("NOERROR", "weird", FALSE, NoTtl, NoTtl),
     Msg("NOERROR", "answer", TRUE, 2, NoTtl), Msg("NXDOMAIN", "weird", FALSE, NoTtl, 1),
     Msg("SERVFAIL", "weird", FALSE, NoTtl, NoTtl), Msg("error", "weird", FALSE, NoTtl, NoTtl)}

----------------------------------------------------------------------------
(* TSIG: keys that sign with, and insist on, the whole MAC or half of it.  *)
(* The server signs with the whole of it.                                  *)
TsigKeys(signs) == [min : {1, 2}, sign : signs]
AnyKey == TsigKeys({1, 2})
WholeMac == TsigKeys({2})
ClockSkews == -2 .. 2

----------------------------------------------------------------------------
\* Which of the four runs.
VARIABLE family

SequentialInit ==
    /\ QInit /\ CInit /\ TSInit /\ BInit
    /\ family \in {"queries", "cache", "tsig", "builder"}
    /\ family # "tsig" => setting = CHOOSE s \in Settings : TRUE
    /\ family # "builder" => /\ compressor = CHOOSE c \in Compressors : TRUE
                            /\ capacity = CHOOSE c \in Capacities : TRUE

SequentialNext ==
    \/ family = "queries" /\ QNext /\ UNCHANGED <<cvars, tsvars, bvars, family>>
    \/ family = "cache" /\ CNext /\ UNCHANGED <<query_vec, tsvars, bvars, family>>
    \/ family = "tsig" /\ TSNext /\ UNCHANGED <<query_vec, cvars, bvars, family>>
    \/ family = "builder" /\ BNext /\ UNCHANGED <<query_vec, cvars, tsvars, family>>

SequentialSpec ==
    SequentialInit /\ [][SequentialNext]_<<query_vec, cvars, tsvars, bvars, family>>
=============================================================================
