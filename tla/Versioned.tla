------------------------------ MODULE Versioned ------------------------------
(***************************************************************************)
(* Versions of a zone and values kept by version                           *)
(* (zonetree/in_memory/versioned.rs, base/serial.rs).                      *)
(*                                                                         *)
(* A version is a serial number: an unsigned integer of which only half    *)
(* the range can be compared.  Half is 2^31 in the code.  A history is the *)
(* vector Versioned::data, a sequence of versions with their values, None  *)
(* where the value has been removed.                                       *)
(***************************************************************************)
EXTENDS Integers, Sequences

CONSTANTS Half, None

ASSUME HalfAssumption == Half \in Nat \ {0}

Versions == 0 .. 2 * Half - 1

\* Serial::partial_cmp: a is less than or equal to b.
Le(a, b) ==
    \/ a = b
    \/ a < b /\ b - a < Half
    \/ a > b /\ a - b > Half

\* Version::next, Serial::add(1).
NextVersion(v) == (v + 1) % (2 * Half)

Item(v, x) == [v |-> v, x |-> x]

\* The items get(v) may return the value of.
Visible(h, v) == {i \in 1 .. Len(h) : Le(h[i].v, v)}

\* Mutant: the value stored last, whatever its version.
MGet(h, v) == IF h = << >> THEN None ELSE h[Len(h)].x

\* get: the value of the last item that is not newer than v.
Get(h, v) ==
    IF Visible(h, v) = {} THEN None
    ELSE h[CHOOSE i \in Visible(h, v) : \A j \in Visible(h, v) : j <= i].x

LastIs(h, v) == h # << >> /\ h[Len(h)].v = v

Front1(h) == SubSeq(h, 1, Len(h) - 1)

\* update
Update(h, v, x) == Append(IF LastIs(h, v) THEN Front1(h) ELSE h, Item(v, x))

\* rollback
Rollback(h, v) == IF LastIs(h, v) THEN Front1(h) ELSE h

\* remove
Remove(h, v) ==
    IF h = << >> \/ h[Len(h)].x = None THEN h
    ELSE IF LastIs(h, v) /\ Len(h) = 1 THEN << >>
    ELSE Update(h, v, None)

------------------------------------------------------------------------------

\* A value in X, or none.
Option(X) == {None} \cup X

\* A history of values in X.
Items(X) == [v : Versions, x : Option(X)]
Histories(X) == Seq(Items(X))

\* Items are in the order of their versions, none newer than v.
UpTo(h, v) ==
    /\ \A i, j \in 1 .. Len(h) : i < j => h[i].v < h[j].v
    /\ \A i \in 1 .. Len(h) : h[i].v <= v
==============================================================================
