------------------------------ MODULE MCStream -------------------------------
(***************************************************************************)
(* The client stream transport with a few requests, short timers, channels *)
(* of one place and a table small enough for insert to refuse a request.   *)
(***************************************************************************)
EXTENDS StreamTransport

(* Three families of behaviours, one instance each: single requests only;  *)
(* a single request, one that cannot be sent and a stream request of a     *)
(* wrong type; and a zone transfer beside one single request, with longer  *)
(* timers and a server that also sends what it was not asked for.          *)
CONSTANTS Singles, Refused, Transfers

VARIABLE family

Single == INSTANCE StreamTransport WITH
    Req <- Singles, Multi <- {}, BadQtype <- {}, TooLong <- {},
    StreamTimeout <- 1, MaxBogus <- 0

Refusing == INSTANCE StreamTransport WITH
    Req <- Refused, StreamTimeout <- 1, MaxBogus <- 0

Transfer == INSTANCE StreamTransport WITH
    Req <- Transfers, BadQtype <- {}, TooLong <- {},
    Keepalives <- {}

FamilyInit ==
    /\ Init
    /\ family \in {"singles", "refused", "transfers"}

FamilyNext ==
    \/ family = "singles" /\ Single!Next /\ UNCHANGED family
    \/ family = "refused" /\ Refusing!Next /\ UNCHANGED family
    \/ family = "transfers" /\ Transfer!Next /\ UNCHANGED family

FamilySpec == FamilyInit /\ [][FamilyNext]_<<vars, family>>
==============================================================================
