------------------------------ MODULE ZoneSpec -------------------------------
(***************************************************************************)
(* What a zone store promises (zonetree/traits.rs): readers see the zone   *)
(* as it was committed last when they came, for as long as they read; one  *)
(* writer at a time edits a copy nobody else sees, and the copy either     *)
(* replaces the zone as a whole or is forgotten.                           *)
(*                                                                         *)
(* The contents of a zone: the RRset, or None, for every name and type,    *)
(* and the role of every name.                                             *)
(***************************************************************************)
CONSTANTS
    Names, Apex,
    Types, SOA,
    Below,       \* per name: the name and all names below it
    Roles,       \* regular, or a delegation or an alias with its data
    RRsets,      \* RRsets, none of them empty
    Readers, Writers,
    None

VARIABLES
    zone,        \* the contents committed last
    owner,       \* the writer that holds the zone, or None
    copy,        \* the contents it edits, None if there is no writer
    snap         \* per reader: the contents it sees, None if it does not read

vars == <<zone, owner, copy, snap>>

Contents ==
    [rr : [Names \X Types -> {None} \cup RRsets], role : [Names -> Roles]]

Init ==
    /\ zone \in Contents
    /\ owner = None
    /\ copy = None
    /\ snap = [r \in Readers |-> None]

Read(r) ==
    /\ snap[r] = None
    /\ snap' = [snap EXCEPT ![r] = zone]
    /\ UNCHANGED <<zone, owner, copy>>

EndRead(r) ==
    /\ snap' = [snap EXCEPT ![r] = None]
    /\ UNCHANGED <<zone, owner, copy>>

Write(w) ==
    /\ owner = None
    /\ owner' = w
    /\ copy' = zone
    /\ UNCHANGED <<zone, snap>>

\* An edit: nothing but the copy changes.
Editing == owner # None /\ UNCHANGED <<zone, owner, snap>>

\* Contents c with RRset x for name n and type t, and with role x for name n.
WithRRset(c, n, t, x) == [rr |-> [c.rr EXCEPT ![<<n, t>>] = x], role |-> c.role]
WithRole(c, n, x) == [rr |-> c.rr, role |-> [c.role EXCEPT ![n] = x]]

SetRRset(n, t) ==
    /\ Editing
    /\ copy'.rr[<<n, t>>] \in {None} \cup RRsets
    /\ copy' = WithRRset(copy, n, t, copy'.rr[<<n, t>>])

SetRole(n) ==
    /\ Editing
    /\ copy'.role[n] \in Roles
    /\ copy' = WithRole(copy, n, copy'.role[n])

RemoveAll(n) ==
    /\ Editing
    /\ copy' = [rr   |-> [k \in Names \X Types |->
                              IF k[1] \in Below[n] THEN None ELSE copy.rr[k]],
                role |-> [m \in Names |->
                              IF m \in Below[n] THEN "regular" ELSE copy.role[m]]]

\* The copy becomes the zone.  If it has no SOA RRset of its own, the store may
\* give it a new one.
Commit ==
    /\ owner # None
    /\ UNCHANGED <<owner, snap>>
    /\ copy' = zone'
    /\ \/ zone' = copy
       \/ /\ copy.rr[<<Apex, SOA>>] \in {None, zone.rr[<<Apex, SOA>>]}
          /\ zone'.rr[<<Apex, SOA>>] # None /\ zone'.rr[<<Apex, SOA>>] \in RRsets
          /\ zone' = WithRRset(copy, Apex, SOA, zone'.rr[<<Apex, SOA>>])

EndWrite ==
    /\ owner # None
    /\ owner' = None
    /\ copy' = None
    /\ UNCHANGED <<zone, snap>>

Next ==
    \/ \E r \in Readers : Read(r) \/ EndRead(r)
    \/ \E w \in Writers : Write(w)
    \/ \E n \in Names, t \in Types : SetRRset(n, t)
    \/ \E n \in Names : SetRole(n) \/ RemoveAll(n)
    \/ Commit
    \/ EndWrite

Spec == Init /\ [][Next]_vars
==============================================================================
