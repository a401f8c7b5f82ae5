------------------------------ MODULE MCClients ------------------------------
(***************************************************************************)
(* The client transports that are built from others: a datagram transport  *)
(* with a multi-stream transport behind it, and a redundant transport over *)
(* upstreams that promise what the former was shown to.                    *)
(***************************************************************************)
EXTENDS DgramStream, Redundant

\* Nothing is deferred, errors only, replies only, everything.
AllConfigs == {{}, {"error"}, {"REFUSED", "SERVFAIL"}, {"error", "REFUSED", "SERVFAIL"}}

\* Which of the two runs.
VARIABLE family

ClientsInit ==
    /\ Init
    /\ RInit
    /\ \/ family = "dgram_stream" /\ config = {}
       \/ family = "redundant"

ClientsNext ==
    \/ family = "dgram_stream" /\ Next /\ UNCHANGED <<rvars, family>>
    \/ family = "redundant" /\ RNext /\ UNCHANGED <<vars, family>>

ClientsSpec ==
    /\ ClientsInit /\ [][ClientsNext]_<<vars, rvars, family>>
    /\ Fairness
    /\ RFairness
==============================================================================
