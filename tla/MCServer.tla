------------------------------ MODULE MCServer ------------------------------
(* Instances of StreamServer: services that answer once, that change the   *)
(* idle timeout with their answer, and that answer in a transaction.       *)
EXTENDS StreamServer, TLC

Result(resp, fb) == [resp |-> resp, fb |-> fb, idle |-> 1]

Single == <<Result(TRUE, "none")>>
Keepalive == <<Result(TRUE, "idle")>>
Transfer == <<Result(FALSE, "begin"), Result(TRUE, "none"), Result(TRUE, "none"),
              Result(FALSE, "end")>>

CONSTANTS c1, c2

(* One busy connection: a transfer of two messages, or an answer that sets *)
(* the idle timeout, through a queue of one; then a reply, which is        *)
(* ignored.  The server is reconfigured and shut down.                     *)
BusySends == c1 :> <<"query", "reply">> @@ c2 :> <<>>
BusyScripts == c1 :> <<{Transfer, Keepalive}, {}>> @@ c2 :> <<>>

Busy == INSTANCE StreamServer WITH Conn <- {c1}

(* Two connections that compete for the only place: one with a query, one  *)
(* that is only opened.                                                    *)
TwoSends == c1 :> <<"query">> @@ c2 :> <<>>
TwoScripts == c1 :> <<{Single}>> @@ c2 :> <<>>

Two == INSTANCE StreamServer WITH Sends <- TwoSends, Scripts <- TwoScripts, MaxCommands <- 0

VARIABLE family

FamilyInit == Init /\ family \in {"busy", "two"}

FamilyNext ==
    \/ family = "busy" /\ Busy!Next /\ UNCHANGED family
    \/ family = "two" /\ Two!Next /\ UNCHANGED family

FamilySpec == FamilyInit /\ [][FamilyNext]_<<vars, family>> /\ Fairness
=============================================================================
