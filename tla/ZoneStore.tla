------------------------------ MODULE ZoneStore ------------------------------
(***************************************************************************)
(* The in-memory zone store (zonetree/in_memory): a tree of nodes whose    *)
(* RRsets and special roles are kept by version, readers that look at the  *)
(* version that was current when they came, and writers that work on the   *)
(* next version one after the other.                                       *)
(*                                                                         *)
(* A writer drops the nodes it was given before it commits or goes, as     *)
(* update.rs does; a WriteNode holds no state but the node and version.    *)
(* Every operation takes the lock of one node's map and looks at one       *)
(* version, so each is one step.  The TTL of an RRset and the order of its *)
(* records are left out: an RRset is the set of its records.               *)
(***************************************************************************)
EXTENDS Versioned

CONSTANTS
    Labels,
    Names,       \* names in the zone, as labels from the apex downwards
    Types, SOA,
    Records,     \* records of types other than SOA
    Editable,    \* bound: the pairs of name and type whose RRsets are edited
    Specials,    \* bound: the roles names are given, beside being regular
    MaxVersion,  \* bound: the last version committed
    Bumps,       \* bound: values of commit's bump_soa_serial
    Diffs,       \* bound: values of open's create_diff
    Initial,     \* bound: the contents ZoneBuilder may start the zone with
    Readers, Writers

Apex == << >>

\* The name one label shorter.
Parent == [n \in Names \ {Apex} |-> Front1(n)]

\* All names on the way from the apex to n, without the apex.
Path == [n \in Names |-> {SubSeq(n, 1, i) : i \in 1 .. Len(n)}]

ASSUME NamesAssumption ==
    /\ Names \subseteq Seq(Labels)
    /\ Apex \in Names
    /\ \A n \in Names : Path[n] \subseteq Names
    /\ SOA \in Types
    /\ Editable \subseteq Names \X Types

ASSUME RoleAssumption == Specials \subseteq {"cut", "cut_with_DS", "cname"}

\* Fewer versions than serial numbers can tell apart.
ASSUME VersionAssumption == MaxVersion \in Nat /\ MaxVersion + 1 < Half

VARIABLES
    rr,        \* per name and type: the history of the RRset
    special,   \* per name: the history of the special role
    exists,    \* names that have a node
    current,   \* ZoneVersions::current
    lock,      \* the writer that holds update_lock, or None
    wz,        \* per writer: its WriteZone, or None
    reader     \* per reader: the version its ReadZone looks at, or None

vars == <<rr, special, exists, current, lock, wz, reader>>

------------------------------------------------------------------------------

Keys == Names \X Types

Below == [n \in Names |-> {m \in Names : m = n \/ n = Apex \/ n \in Path[m]}]

\* A non-empty RRset; the record of a SOA RRset is its serial.
SoaSets == {{s} : s \in Versions}
RRsets == SoaSets \cup ((SUBSET Records) \ {{}})

\* The RRsets a writer may store; an empty one is no RRset.
NewRRsets(t) == IF t = SOA THEN SoaSets ELSE SUBSET Records

\* Some(None), and the members of enum Special.
SpecialValues == {"none", "NxDomain"} \cup Specials

ASSUME NoneAssumption ==
    /\ \A x \in RRsets \cup SpecialValues : x # None
    /\ None \notin Writers \cup Versions

ASSUME InitialAssumption ==
    \A c \in Initial : /\ c.rr \in [Keys -> Option(RRsets)]
                       /\ c.rr[<<Apex, SOA>>] \in Option(SoaSets)
                       /\ c.role \in [Names -> {"none"} \cup Specials]

\* ZoneBuilder: nodes at version 0; it marks no name as NxDomain.
Init ==
    /\ \E c \in Initial :
          /\ rr = [k \in Keys |-> IF c.rr[k] = None THEN << >> ELSE <<Item(0, c.rr[k])>>]
          /\ special = [n \in Names |-> IF c.role[n] = "none" \/ n = Apex THEN << >>
                                        ELSE <<Item(0, c.role[n])>>]
          /\ exists = {n \in Names \ {Apex} :
                         \E m \in Below[n] : \/ special[m] # << >>
                                             \/ \E t \in Types : rr[<<m, t>>] # << >>}
    /\ current = 0
    /\ lock = None
    /\ wz = [w \in Writers |-> None]
    /\ reader = [r \in Readers |-> None]

------------------------------------------------------------------------------
(* Readers. *)

\* ZoneApex::read
Read(r) ==
    /\ reader[r] = None
    /\ reader' = [reader EXCEPT ![r] = current]
    /\ UNCHANGED <<rr, special, exists, current, lock, wz>>

\* The ReadZone is dropped.
EndRead(r) ==
    /\ reader[r] # None
    /\ reader' = [reader EXCEPT ![r] = None]
    /\ UNCHANGED <<rr, special, exists, current, lock, wz>>

------------------------------------------------------------------------------
(* Writers. *)

NewZone(v) == [new |-> NextVersion(v), dirty |-> FALSE, open |-> FALSE, diff |-> None]

\* Mutant: nobody waits for the lock.
MWrite(w) ==
    /\ wz[w] = None
    /\ lock' = w
    /\ wz' = [wz EXCEPT ![w] = NewZone(current)]
    /\ UNCHANGED <<rr, special, exists, current, reader>>

\* ZoneApex::write: once the lock is held, the next version is the one to write.
Write(w) ==
    /\ wz[w] = None
    /\ lock = None
    /\ lock' = w
    /\ wz' = [wz EXCEPT ![w] = NewZone(current)]
    /\ UNCHANGED <<rr, special, exists, current, reader>>

NoDiff == [added |-> [k \in Keys |-> None], removed |-> [k \in Keys |-> None]]

\* WriteZone::open
Open(w, create_diff) ==
    /\ lock = w
    /\ wz' = [wz EXCEPT ![w] = [new   |-> @.new, dirty |-> TRUE, open  |-> TRUE,
                                diff  |-> IF create_diff THEN NoDiff ELSE None]]
    /\ UNCHANGED <<rr, special, exists, current, lock, reader>>

\* Writer w has a WriteNode for name n.
HasNode(w, n) == lock = w /\ wz[w].open /\ n \in exists \cup {Apex}

\* NodeRrsets::is_empty
NoRRsets(f, n, v) == \A t \in Types : Get(f[<<n, t>>], v) = None

\* Mutant: a name that gets RRsets stays marked.
MCheckNxDomain(sp, f, n, v) ==
    IF n # Apex /\ Get(sp[n], v) \in {None, "none"} /\ NoRRsets(f, n, v)
    THEN [sp EXCEPT ![n] = Update(@, v, "NxDomain")]
    ELSE sp

\* check_nx_domain: the roles sp with name n marked or not marked as NxDomain,
\* for RRsets f.
CheckNxDomain(sp, f, n, v) ==
    LET s == Get(sp[n], v)
    IN  IF n # Apex /\ s = "NxDomain" /\ ~ NoRRsets(f, n, v)
        THEN [sp EXCEPT ![n] = Update(@, v, "none")]
        ELSE IF n # Apex /\ s \in {None, "none"} /\ NoRRsets(f, n, v)
        THEN [sp EXCEPT ![n] = Update(@, v, "NxDomain")]
        ELSE sp

\* WriteNode::update_child: a node that exists is only looked up.
UpdateChild(w, n) ==
    /\ n \in Names \ ({Apex} \cup exists)
    /\ HasNode(w, Parent[n])
    /\ exists' = exists \cup {n}
    /\ special' = CheckNxDomain([special EXCEPT ![n] = Update(@, wz[w].new, "none")],
                                rr, n, wz[w].new)
    /\ UNCHANGED <<rr, current, lock, wz, reader>>

\* The diff after k has been recorded as changed from one set of records to another.
Record(d, k, from, to) ==
    [added   |-> IF to # {} THEN [d.added EXCEPT ![k] = to] ELSE d.added,
     removed |-> IF from # {} THEN [d.removed EXCEPT ![k] = from] ELSE d.removed]

\* update_rrset: what it records in the diff for the new RRset x.
DiffUpdate(d, k, x) ==
    LET old == Get(rr[k], current)
    IN  IF d = None THEN None
        ELSE IF old = None \/ old = x THEN Record(d, k, {}, x)
        ELSE Record(d, k, old \ x, x \ old)

\* remove_rrset: what it records in the diff.
DiffRemove(d, k) ==
    LET old == Get(rr[k], current)
    IN  IF d = None \/ old = None THEN d ELSE Record(d, k, old, {})

\* WriteNode::update_rrset; an empty RRset removes the one there is.
UpdateRRset(w, n, t, x) ==
    LET v == wz[w].new
        f == [rr EXCEPT ![<<n, t>>] = IF x = {} THEN Remove(@, v) ELSE Update(@, v, x)]
    IN  /\ HasNode(w, n)
        /\ rr' = f
        /\ special' = CheckNxDomain(special, f, n, v)
        /\ wz' = [wz EXCEPT ![w].diff = DiffUpdate(@, <<n, t>>, x)]
        /\ UNCHANGED <<exists, current, lock, reader>>

\* WriteNode::remove_rrset
RemoveRRset(w, n, t) ==
    LET v == wz[w].new
        f == [rr EXCEPT ![<<n, t>>] = Remove(@, v)]
    IN  /\ HasNode(w, n)
        /\ rr' = f
        /\ special' = CheckNxDomain(special, f, n, v)
        /\ wz' = [wz EXCEPT ![w].diff = DiffRemove(@, <<n, t>>)]
        /\ UNCHANGED <<exists, current, lock, reader>>

\* WriteNode::make_regular
MakeRegular(w, n) ==
    /\ HasNode(w, n) /\ n # Apex
    /\ special' = CheckNxDomain([special EXCEPT ![n] = Update(@, wz[w].new, "none")],
                                rr, n, wz[w].new)
    /\ UNCHANGED <<rr, exists, current, lock, wz, reader>>

\* WriteNode::make_zone_cut, WriteNode::make_cname
MakeSpecial(w, n, s) ==
    /\ HasNode(w, n) /\ n # Apex
    /\ special' = [special EXCEPT ![n] = Update(@, wz[w].new, s)]
    /\ UNCHANGED <<rr, exists, current, lock, wz, reader>>

\* WriteNode::remove_all: at the node and at every node below it.
RemoveAll(w, n) ==
    LET v == wz[w].new
    IN  /\ HasNode(w, n)
        /\ rr' = [k \in Keys |-> IF k[1] \in Below[n] THEN Remove(rr[k], v) ELSE rr[k]]
        /\ special' = [m \in Names |-> IF m \in Below[n] THEN Remove(special[m], v)
                                       ELSE special[m]]
        /\ UNCHANGED <<exists, current, lock, wz, reader>>

\* get_soa
Soa(v) == Get(rr[<<Apex, SOA>>], v)

\* commit gives the new version a SOA RRset with the next serial.
Bumped(w, bump) ==
    bump /\ Soa(current) # None /\ Soa(wz[w].new) \in {None, Soa(current)}

NextSoa(old) == {NextVersion(s) : s \in old}

\* Mutant: the diff is copied and not taken.
MCommitDiff(w, bump) ==
    /\ lock = w
    /\ current < MaxVersion
    /\ rr' = IF Bumped(w, bump)
             THEN [rr EXCEPT ![<<Apex, SOA>>] = Update(@, wz[w].new, NextSoa(Soa(current)))]
             ELSE rr
    /\ current' = wz[w].new
    /\ wz' = [wz EXCEPT ![w] = [NewZone(@.new) EXCEPT !.diff = wz[w].diff]]
    /\ UNCHANGED <<special, exists, lock, reader>>

\* WriteZone::commit
Commit(w, bump) ==
    /\ lock = w
    /\ current < MaxVersion
    /\ rr' = IF Bumped(w, bump)
             THEN [rr EXCEPT ![<<Apex, SOA>>] = Update(@, wz[w].new, NextSoa(Soa(current)))]
             ELSE rr
    /\ current' = wz[w].new
    /\ wz' = [wz EXCEPT ![w] = NewZone(@.new)]
    /\ UNCHANGED <<special, exists, lock, reader>>

\* The WriteZone is dropped: what has not been committed is rolled back.
DropWriter(w) ==
    LET v == wz[w].new
    IN  /\ lock = w
        /\ rr' = IF wz[w].dirty THEN [k \in Keys |-> Rollback(rr[k], v)] ELSE rr
        /\ special' = IF wz[w].dirty THEN [n \in Names |-> Rollback(special[n], v)] ELSE special
        /\ lock' = None
        /\ wz' = [wz EXCEPT ![w] = None]
        /\ UNCHANGED <<exists, current, reader>>

------------------------------------------------------------------------------

ReaderNext == \E r \in Readers : Read(r) \/ EndRead(r)

EditNext(w) ==
    \/ \E n \in Names : UpdateChild(w, n) \/ RemoveAll(w, n) \/ MakeRegular(w, n)
    \/ \E n \in Names, s \in Specials : MakeSpecial(w, n, s)
    \/ \E k \in Editable : \/ RemoveRRset(w, k[1], k[2])
                           \/ \E x \in NewRRsets(k[2]) : UpdateRRset(w, k[1], k[2], x)

WriterNext ==
    \E w \in Writers :
        \/ Write(w)
        \/ \E d \in Diffs : Open(w, d)
        \/ EditNext(w)
        \/ \E b \in Bumps : Commit(w, b)
        \/ DropWriter(w)

Next == ReaderNext \/ WriterNext

Spec == Init /\ [][Next]_vars

------------------------------------------------------------------------------

DiffBuilders ==
    [added : [Keys -> Option(RRsets)], removed : [Keys -> Option(RRsets)]]

\* Only a zone that has been opened is changed before a commit.
WriteZones ==
    {z \in [new : 1 .. MaxVersion + 1, dirty : BOOLEAN, open : BOOLEAN,
            diff : Option(DiffBuilders)] : z.open => z.dirty}

\* Types; only the writer that holds update_lock has a WriteZone, for the version
\* after the current one; no reader is ahead of the current version.
TypeOK ==
    /\ rr \in [Keys -> Histories(RRsets)]
    /\ rr[<<Apex, SOA>>] \in Histories(SoaSets)
    /\ special \in [Names -> Histories(SpecialValues)]
    /\ exists \subseteq Names \ {Apex}
    /\ current \in 0 .. MaxVersion
    /\ lock \in Option(Writers)
    /\ wz \in [Writers -> Option(WriteZones)]
    /\ \A w \in Writers :
          IF w = lock THEN wz[w] \in WriteZones /\ wz[w].new = current + 1
          ELSE wz[w] = None
    /\ reader \in [Readers -> Option(0 .. MaxVersion)]
    /\ \A r \in Readers : reader[r] # None => reader[r] <= current

\* The contents of version v, without what marks a name as NxDomain.
Role(s) == IF s \in Specials THEN s ELSE "regular"

View(v) ==
    [rr   |-> [k \in Keys |-> Get(rr[k], v)],
     role |-> [n \in Names |-> Role(Get(special[n], v))]]

Store == INSTANCE ZoneSpec WITH
    Roles <- {"regular"} \cup Specials,
    zone  <- View(current),
    owner <- lock,
    copy  <- IF lock = None THEN None ELSE View(wz[lock].new),
    snap  <- [r \in Readers |-> IF reader[r] = None THEN None ELSE View(reader[r])]

\* The store keeps what WritableZone::commit and ReadableZone promise: readers
\* keep the contents they came for whatever is written, committed or rolled back,
\* and a commit is the only step that changes what later readers see.
IsZone == Store!Spec

\* A history grows at its end only: the items of a history are in the order of
\* their versions, and the last is no newer than the version being written, or than
\* the current one if nothing has been written since the last commit.
HistoriesInOrder ==
    LET top == IF lock # None /\ wz[lock].dirty THEN current + 1 ELSE current
    IN  /\ \A k \in Keys : UpTo(rr[k], top)
        /\ \A n \in Names : UpTo(special[n], top)

\* check_nx_domain keeps the mark and the RRsets of a node in step: a node that is
\* marked NxDomain in a version, published or being written, has no RRset in that
\* version, so that the mark hides nothing of the node's own.
NxDomainHidesNoRRset ==
    \A n \in Names, v \in 0 .. current + 1 :
        Get(special[n], v) = "NxDomain" => NoRRsets(rr, n, v)

\* A diff that is being recorded never removes a record that is not in the version
\* it starts from, however often RRsets are replaced, removed and added again.
DiffRemovesPublished ==
    lock # None /\ wz[lock].diff # None =>
        \A k \in Keys : wz[lock].diff.removed[k] # None =>
            /\ Get(rr[k], current) # None
            /\ wz[lock].diff.removed[k] \subseteq Get(rr[k], current)
==============================================================================
