----------------------------- MODULE MCTransfer -----------------------------
(* Instances of ZoneTransfer: four versions of a zone of three keys.  From *)
(* the first to the second an RRset grows, from the second to the third it *)
(* loses a record and another one comes, and the fourth has a record that  *)
(* no message can hold.                                                    *)
EXTENDS ZoneTransfer, TLC

CONSTANTS k1, k2, k3, d1, d2

Zone(a, b, c) == k1 :> a @@ k2 :> b @@ k3 :> c

FourVersions ==
    <<Zone({d1}, {}, {}), Zone({d1, d2}, {}, {}), Zone({d2}, {d1}, {}), Zone({d2}, {d1}, {d1})>>

Q(t, u, c) == [qtype |-> t, udp |-> u, compat |-> c]

AllQueries == {Q("axfr", FALSE, FALSE), Q("axfr", FALSE, TRUE), Q("axfr", TRUE, FALSE),
               Q("ixfr", FALSE, FALSE), Q("ixfr", TRUE, FALSE)}

IxfrQueries == {Q("ixfr", FALSE, FALSE)}
=============================================================================
