--------------------------- MODULE ZoneEditProofs ----------------------------
(***************************************************************************)
(* What an edit of a writer does to the histories of the zone store: it    *)
(* changes them in the version after the current one only, so that what    *)
(* get returns for the versions of readers is never touched (Edited).      *)
(* That is so because histories are in order and the version written is    *)
(* the last (HistoriesInOrder), which the lock and the flag dirty make     *)
(* sure of (TypeOK).  The last part is about names: what is on the path of *)
(* a name, and where a query that follows it stops first.                  *)
(***************************************************************************)
EXTENDS ZoneQuery, SequenceTheorems, WellFoundedInduction, TLAPS

-----------------------------------------------------------------------------
(* What get returns after update, remove and rollback, for histories whose *)
(* items are in order and whose versions a serial number can compare.      *)

\* Leaves with arithmetic name SMT.
USE Zenon

\* A non-empty set of positions in a sequence of length n has a last one.
LEMMA LastPosition ==
    ASSUME NEW n \in Nat, NEW S \in SUBSET (1 .. n), S # {}
    PROVE  \E i \in S : \A j \in S : j <= i
<1> DEFINE T == {n - i : i \in S}
           R == OpToRel(<, Nat)
<1>1. T \subseteq Nat
  BY SMT
<1>2. T # {}
  OBVIOUS
<1> HIDE DEF T
<1>3. PICK k \in T : \A l \in T : <<l, k>> \notin R
  BY <1>1, <1>2, NatLessThanWellFounded, WFMin
<1>4. PICK i \in S : k = n - i
  BY DEF T
<1>5. ASSUME NEW j \in S PROVE j <= i
  <2>1. n - j \in T
    BY DEF T
  <2>2. ~ (n - j < k)
    BY <1>1, <1>3, <2>1 DEF OpToRel
  <2> QED BY <2>2, <1>4, SMT
<1> QED BY <1>5

\* A history of values in X with its items in order, none newer than v, and a
\* version of which all older ones can be compared with it.
Good(h, X, v) == h \in Histories(X) /\ UpTo(h, v) /\ v \in Nat /\ v < Half

\* Versions in the lower half are compared as numbers are.
LEMMA LeIsLeq ==
    ASSUME NEW a \in Nat, NEW b \in Nat, a < Half, b < Half
    PROVE  Le(a, b) <=> a <= b
  BY HalfAssumption, SMT DEF Le

\* The items of a history.
LEMMA ItemType ==
    ASSUME NEW X, NEW v, NEW h, Good(h, X, v), NEW i \in 1 .. Len(h)
    PROVE  h[i] \in Items(X) /\ h[i].v \in Nat /\ h[i].v <= v
<1>1. h[i] \in Items(X)
  BY ElementOfSeq DEF Good, Histories
<1>2. h[i].v \in Nat
  BY <1>1, HalfAssumption, SMT DEF Items, Versions
<1> QED BY <1>1, <1>2 DEF Good, UpTo

\* A history that is not empty has a last item.
LEMMA LenGood ==
    ASSUME NEW X, NEW v, NEW h, Good(h, X, v)
    PROVE  /\ Len(h) \in Nat
           /\ h # << >> <=> Len(h) # 0
           /\ v \in Nat /\ v < Half
  BY LenProperties, EmptySeq DEF Good, Histories

\* get returns the value of the item that is last among the visible ones.
LEMMA GetAt ==
    ASSUME NEW h, NEW u, NEW i \in Visible(h, u), Len(h) \in Nat,
           \A j \in Visible(h, u) : j <= i
    PROVE  Get(h, u) = h[i].x
<1>1. \A j \in Visible(h, u) : j \in Int
  BY SMT DEF Visible
<1>2. \A k \in Visible(h, u) : (\A j \in Visible(h, u) : j <= k) => k = i
  BY <1>1, SMT
<1> QED BY <1>2 DEF Get

\* get returns the same for two histories that show the same.
LEMMA GetSame ==
    ASSUME NEW h, NEW g, NEW u, Len(h) \in Nat, Len(g) \in Nat,
           Visible(h, u) = Visible(g, u),
           \A i \in Visible(h, u) : h[i].x = g[i].x
    PROVE  Get(h, u) = Get(g, u)
<1>1. CASE Visible(h, u) = {}
  BY <1>1 DEF Get
<1>2. CASE Visible(h, u) # {}
  <2>1. Visible(h, u) \in SUBSET (1 .. Len(h))
    BY DEF Visible
  <2>2. PICK i \in Visible(h, u) : \A j \in Visible(h, u) : j <= i
    BY <1>2, <2>1, LastPosition
  <2>3. Get(h, u) = h[i].x
    BY <2>2, GetAt
  <2>4. Get(g, u) = g[i].x
    BY <2>2, GetAt
  <2> QED BY <2>3, <2>4
<1> QED BY <1>1, <1>2

\* The newest version sees the last item.
LEMMA GetLast ==
    ASSUME NEW X, NEW v, NEW h, Good(h, X, v)
    PROVE  Get(h, v) = IF h = << >> THEN None ELSE h[Len(h)].x
<1>1. CASE h = << >>
  BY <1>1, SMT DEF Get, Visible
<1>2. CASE h # << >>
  <2>1. Len(h) \in Nat /\ Len(h) \in 1 .. Len(h)
    BY <1>2, LenGood, SMT
  <2>2. h[Len(h)].v \in Nat /\ h[Len(h)].v <= v
    BY <2>1, ItemType
  <2>3. Le(h[Len(h)].v, v)
    BY <2>2, LeIsLeq, LenGood, HalfAssumption, SMT
  <2>5. Len(h) \in Visible(h, v)
    BY <2>1, <2>3 DEF Visible
  <2>4. \A j \in Visible(h, v) : j <= Len(h)
    BY <2>1, SMT DEF Visible
  <2> QED BY <1>2, <2>1, <2>4, <2>5, GetAt
<1> QED BY <1>1, <1>2

\* A new version starts as a copy of the one before.
LEMMA GetNext ==
    ASSUME NEW X, NEW v, NEW h, Good(h, X, v), v + 1 < Half
    PROVE  Good(h, X, v + 1) /\ Get(h, v + 1) = Get(h, v)
<1>0. \A i \in 1 .. Len(h) : h[i].v \in Nat
  BY ItemType
<1>1. Good(h, X, v + 1)
  BY <1>0, SMT DEF Good, UpTo
<1> QED BY <1>1, GetLast

\* A history without its last item.
LEMMA FrontGood ==
    ASSUME NEW X, NEW v, NEW h, Good(h, X, v), h # << >>
    PROVE  /\ Good(Front1(h), X, v)
           /\ Len(h) \in Nat \ {0}
           /\ Len(Front1(h)) = Len(h) - 1
           /\ \A i \in 1 .. Len(h) - 1 : Front1(h)[i] = h[i] /\ h[i].v < h[Len(h)].v
<1>1. Len(h) \in Nat \ {0}
  BY LenGood
<1>2. \A i \in 1 .. Len(h) - 1 : h[i] \in Items(X)
  BY <1>1, ItemType, SMT
<1>3. /\ Front1(h) \in Seq(Items(X))
      /\ Len(Front1(h)) = Len(h) - 1
      /\ \A i \in 1 .. Len(h) - 1 : Front1(h)[i] = h[i]
  <2> DEFINE n == Len(h) - 1
  <2>1. n \in Int /\ n >= 0
    BY <1>1, SMT
  <2> HIDE DEF n
  <2>2. \A i \in 1 .. n : h[i] \in Items(X)
    BY <1>2 DEF n
  <2>3. /\ SubSeq(h, 1, n) \in Seq(Items(X))
        /\ Len(SubSeq(h, 1, n)) = IF 1 <= n THEN n - 1 + 1 ELSE 0
        /\ \A i \in 1 .. n - 1 + 1 : SubSeq(h, 1, n)[i] = h[1 + i - 1]
    BY <2>1, <2>2, SubSeqProperties, SMT
  <2>4. Len(SubSeq(h, 1, n)) = n /\ \A i \in 1 .. n : SubSeq(h, 1, n)[i] = h[i]
    <3>1. \A i \in 1 .. n : i \in 1 .. n - 1 + 1 /\ 1 + i - 1 = i
      BY <2>1, SMT
    <3> QED BY <2>1, <2>3, <3>1, SMT
  <2> QED BY <2>3, <2>4 DEF n, Front1
<1>4. UpTo(Front1(h), v)
  BY <1>1, <1>3, SMT DEF Good, UpTo
<1>5. \A i \in 1 .. Len(h) - 1 : h[i].v < h[Len(h)].v
  BY <1>1, SMT DEF Good, UpTo
<1> QED BY <1>1, <1>3, <1>4, <1>5 DEF Good, Histories

\* rollback leaves nothing of the newest version, and older versions as they were.
LEMMA RollbackGood ==
    ASSUME NEW X, NEW v, NEW h, Good(h, X, v), v > 0
    PROVE  /\ Good(Rollback(h, v), X, v - 1)
           /\ \A u \in 0 .. v - 1 : Get(Rollback(h, v), u) = Get(h, u)
<1>1. CASE LastIs(h, v)
  <2>1. h # << >> /\ h[Len(h)].v = v /\ Rollback(h, v) = Front1(h)
    BY <1>1 DEF LastIs, Rollback
  <2>2. /\ Good(Front1(h), X, v)
        /\ Len(h) \in Nat \ {0}
        /\ Len(Front1(h)) = Len(h) - 1
        /\ \A i \in 1 .. Len(h) - 1 : Front1(h)[i] = h[i] /\ h[i].v < v
    BY <2>1, FrontGood, SMT
  <2>3. \A i \in 1 .. Len(h) - 1 : h[i].v \in Nat
    BY <2>2, ItemType
  <2>6. v \in Nat /\ v < Half
    BY LenGood
  <2>4. Good(Front1(h), X, v - 1)
    <3>1. \A i \in 1 .. Len(h) - 1 : Front1(h)[i].v <= v - 1
      BY <2>2, <2>3, <2>6, SMT
    <3> QED BY <2>2, <2>6, <3>1, HalfAssumption, SMT DEF Good, UpTo
  <2>5. ASSUME NEW u \in 0 .. v - 1
        PROVE  Get(Front1(h), u) = Get(h, u)
    <3>1. ~ Le(v, u)
      BY <2>6, LeIsLeq, HalfAssumption, SMT
    <3>2. Visible(h, u) = Visible(Front1(h), u)
      BY <2>1, <2>2, <3>1, SMT DEF Visible
    <3>3. \A i \in Visible(Front1(h), u) : Front1(h)[i].x = h[i].x
      BY <2>2 DEF Visible
    <3> QED BY <2>2, <3>2, <3>3, GetSame, SMT
  <2> QED BY <2>1, <2>4, <2>5
<1>2. CASE ~ LastIs(h, v)
  <2>1. Rollback(h, v) = h
    BY <1>2 DEF Rollback
  <2>2. \A i \in 1 .. Len(h) : h[i].v <= v - 1
    <3>1. CASE h = << >>
      BY <3>1, SMT
    <3>2. CASE h # << >>
      <4>1. h[Len(h)].v # v
        BY <1>2, <3>2 DEF LastIs
      <4>2. Len(h) \in Nat \ {0} /\ \A i \in 1 .. Len(h) - 1 : h[i].v < h[Len(h)].v
        BY <3>2, FrontGood
      <4>3. \A i \in 1 .. Len(h) : h[i].v \in Nat /\ h[i].v <= v
        BY ItemType
      <4> QED BY <4>1, <4>2, <4>3, SMT DEF Good
    <3> QED BY <3>1, <3>2
  <2>3. Good(h, X, v - 1)
    BY <2>2, HalfAssumption, SMT DEF Good, UpTo
  <2> QED BY <2>1, <2>3
<1> QED BY <1>1, <1>2

\* update gives the newest version its value, and leaves older versions as they were.
LEMMA UpdateGood ==
    ASSUME NEW X, NEW v, NEW h, Good(h, X, v), v > 0, NEW x \in Option(X)
    PROVE  /\ Good(Update(h, v, x), X, v)
           /\ Get(Update(h, v, x), v) = x
           /\ \A u \in Nat : u < v => Get(Update(h, v, x), u) = Get(h, u)
<1> DEFINE g == Rollback(h, v)
           k == Append(g, Item(v, x))
<1>0. v \in Nat /\ v < Half /\ Len(h) \in Nat
  BY LenGood
<1>2. Update(h, v, x) = k
  BY DEF Update, Rollback
<1> HIDE DEF k
<1>11. Good(g, X, v - 1) /\ \A u \in 0 .. v - 1 : Get(g, u) = Get(h, u)
  BY RollbackGood, SMT
<1> HIDE DEF g
<1>1. \A i \in 1 .. Len(g) : g[i].v \in Nat /\ g[i].v < v
  BY <1>0, <1>11, ItemType, SMT
<1>3. Item(v, x) \in Items(X)
  BY <1>0, HalfAssumption, SMT DEF Item, Items, Versions
<1>4. /\ k \in Seq(Items(X))
      /\ Len(k) = Len(g) + 1
      /\ \A i \in 1 .. Len(g) : k[i] = g[i]
      /\ k[Len(g) + 1] = Item(v, x)
  BY <1>11, <1>3, AppendProperties, SMT DEF k, Good, Histories
<1>5. Len(g) \in Nat
  BY <1>11, LenGood
<1>6. Item(v, x).v = v /\ Item(v, x).x = x
  BY DEF Item
<1>7. UpTo(k, v)
  <2>1. \A i, j \in 1 .. Len(g) : i < j => k[i].v < k[j].v
    BY <1>4, <1>11 DEF Good, UpTo
  <2>2. \A i \in 1 .. Len(g) : k[i].v \in Nat /\ k[i].v < v
    BY <1>1, <1>4
  <2>3. k[Len(g) + 1].v = v
    BY <1>4, <1>6
  <2> QED BY <1>0, <1>4, <1>5, <2>1, <2>2, <2>3, SMTT(30) DEF UpTo
<1>8. Good(k, X, v)
  BY <1>0, <1>4, <1>7 DEF Good, Histories
<1>9. Get(k, v) = x
  BY <1>4, <1>5, <1>6, <1>8, GetLast, LenGood, SMT
<1>10. ASSUME NEW u \in Nat, u < v PROVE Get(k, u) = Get(h, u)
  <2>1. ~ Le(v, u)
    BY <1>0, <1>10, LeIsLeq, HalfAssumption, SMT
  <2>2. Visible(k, u) = Visible(g, u)
    BY <1>4, <1>5, <1>6, <2>1, SMT DEF Visible
  <2>3. \A i \in Visible(k, u) : k[i].x = g[i].x
    BY <1>4, <2>2 DEF Visible
  <2>4. Get(k, u) = Get(g, u)
    BY <1>4, <1>5, <2>2, <2>3, GetSame, SMT
  <2>5. u \in 0 .. v - 1
    BY <1>0, <1>10, SMT
  <2> QED BY <1>11, <2>4, <2>5
<1> QED BY <1>2, <1>8, <1>9, <1>10

\* remove leaves no value in the newest version, and older versions as they were.
LEMMA RemoveGood ==
    ASSUME NEW X, NEW v, NEW h, Good(h, X, v), v > 0
    PROVE  /\ Good(Remove(h, v), X, v)
           /\ Get(Remove(h, v), v) = None
           /\ \A u \in Nat : u < v => Get(Remove(h, v), u) = Get(h, u)
<1>0. v \in Nat /\ v < Half /\ Len(h) \in Nat
  BY LenGood
<1>1. CASE h = << >> \/ h[Len(h)].x = None
  <2>1. Remove(h, v) = h
    BY <1>1 DEF Remove
  <2>2. Get(h, v) = None
    BY <1>1, GetLast
  <2> QED BY <2>1, <2>2
<1>2. CASE ~ (h = << >> \/ h[Len(h)].x = None) /\ LastIs(h, v) /\ Len(h) = 1
  <2>1. Remove(h, v) = << >>
    BY <1>2 DEF Remove
  <2>2. << >> \in Histories(X) /\ UpTo(<< >>, v)
    BY SMT DEF Histories, UpTo
  <2>3. Good(<< >>, X, v)
    BY <1>0, <2>2 DEF Good
  <2>4. \A u \in Nat : Get(<< >>, u) = None
    BY SMT DEF Get, Visible
  <2>5. ASSUME NEW u \in Nat, u < v PROVE Get(h, u) = None
    <3>1. ~ Le(v, u)
      BY <1>0, <2>5, LeIsLeq, HalfAssumption, SMT
    <3>2. Visible(h, u) = {}
      BY <1>2, <3>1, SMT DEF Visible, LastIs
    <3> QED BY <3>2 DEF Get
  <2> QED BY <1>0, <2>1, <2>3, <2>4, <2>5
<1>3. CASE ~ (h = << >> \/ h[Len(h)].x = None) /\ ~ (LastIs(h, v) /\ Len(h) = 1)
  <2>1. Remove(h, v) = Update(h, v, None)
    BY <1>3 DEF Remove
  <2>2. None \in Option(X)
    BY DEF Option
  <2> QED BY <2>1, <2>2, UpdateGood, SMT
<1> QED BY <1>1, <1>2, <1>3

\* get returns a value of the history, or none.
LEMMA GetType ==
    ASSUME NEW X, NEW h \in Histories(X), NEW u
    PROVE  Get(h, u) \in Option(X)
<1>1. Len(h) \in Nat
  BY LenProperties DEF Histories
<1>2. CASE Visible(h, u) = {}
  BY <1>2 DEF Get, Option
<1>3. CASE Visible(h, u) # {}
  <2>1. Visible(h, u) \in SUBSET (1 .. Len(h))
    BY DEF Visible
  <2>2. PICK i \in Visible(h, u) : \A j \in Visible(h, u) : j <= i
    BY <1>1, <1>3, <2>1, LastPosition
  <2>3. Get(h, u) = h[i].x
    BY <1>1, <2>2, GetAt
  <2>4. h[i] \in Items(X)
    BY <2>1, <2>2, ElementOfSeq DEF Histories
  <2> QED BY <2>3, <2>4 DEF Items
<1> QED BY <1>2, <1>3

-----------------------------------------------------------------------------
(* Edits                                                                   *)

\* History g is h after edits in version v, and holds for every older version what
\* h holds.
Edited(h, g, X, v) ==
    Good(g, X, v) /\ \A u \in Nat : u < v => Get(g, u) = Get(h, u)

IInv == TypeOK /\ HistoriesInOrder

\* Versions do not wrap.
LEMMA NextIsPlus ==
    ASSUME NEW v \in Nat, v + 1 < Half PROVE NextVersion(v) = v + 1
  BY HalfAssumption, SMT DEF NextVersion

\* The version being written is one that serial numbers tell apart.
LEMMA NewVersion ==
    ASSUME IInv
    PROVE  current \in Nat /\ current + 1 \in Nat /\ current + 1 > 0 /\ current + 1 < Half
<1>1. current \in 0 .. MaxVersion
  BY DEF IInv, TypeOK
<1> QED
  BY <1>1, VersionAssumption, HalfAssumption, SMT

\* All histories are good for the version being written; if nothing has been written
\* they are good for the current version.
LEMMA Goods ==
    ASSUME IInv
    PROVE  /\ current \in Nat /\ current + 1 < Half
           /\ \A k \in Keys : Good(rr[k], RRsets, current + 1)
           /\ \A n \in Names : Good(special[n], SpecialValues, current + 1)
           /\ ~ (lock # None /\ wz[lock].dirty) =>
                 /\ \A k \in Keys : Good(rr[k], RRsets, current)
                 /\ \A n \in Names : Good(special[n], SpecialValues, current)
<1>1. current \in Nat /\ current + 1 < Half /\ current < Half /\ current + 1 \in Nat
  BY VersionAssumption, HalfAssumption, SMT DEF IInv, TypeOK
<1>2. /\ \A k \in Keys : rr[k] \in Histories(RRsets)
      /\ \A n \in Names : special[n] \in Histories(SpecialValues)
  BY DEF IInv, TypeOK
<1>3. CASE lock # None /\ wz[lock].dirty
  <2>1. /\ \A k \in Keys : UpTo(rr[k], current + 1)
        /\ \A n \in Names : UpTo(special[n], current + 1)
    BY <1>3 DEF IInv, HistoriesInOrder
  <2> QED BY <1>1, <1>2, <1>3, <2>1 DEF Good
<1>4. CASE ~ (lock # None /\ wz[lock].dirty)
  <2>1. /\ \A k \in Keys : UpTo(rr[k], current)
        /\ \A n \in Names : UpTo(special[n], current)
    BY <1>4 DEF IInv, HistoriesInOrder
  <2>2. /\ \A k \in Keys : Good(rr[k], RRsets, current)
        /\ \A n \in Names : Good(special[n], SpecialValues, current)
    BY <1>1, <1>2, <2>1 DEF Good
  <2> QED BY <1>1, <2>2, GetNext
<1> QED BY <1>3, <1>4

\* The writer that holds the lock and what it writes.
LEMMA Owner ==
    ASSUME IInv, NEW w \in Writers, lock = w
    PROVE  /\ lock # None
           /\ wz[w] \in WriteZones
           /\ wz[w].new = current + 1
           /\ wz[w].open => wz[w].dirty
  BY NoneAssumption DEF IInv, TypeOK, WriteZones

\* Histories that are left alone, updated and removed are edited.
LEMMA EditedSame ==
    ASSUME NEW X, NEW v, NEW h, Good(h, X, v) PROVE Edited(h, h, X, v)
  BY DEF Edited

\* Versioned::update is an edit.
LEMMA EditedUpdate ==
    ASSUME NEW X, NEW v, NEW h, Good(h, X, v), v > 0, NEW x \in Option(X)
    PROVE  Edited(h, Update(h, v, x), X, v)
  BY UpdateGood, SMT DEF Edited

\* Versioned::remove is an edit.
LEMMA EditedRemove ==
    ASSUME NEW X, NEW v, NEW h, Good(h, X, v), v > 0
    PROVE  Edited(h, Remove(h, v), X, v)
  BY RemoveGood, SMT DEF Edited

\* An edit after an edit is an edit.
LEMMA EditedTwice ==
    ASSUME NEW X, NEW v, NEW h, NEW g, NEW k, Edited(h, g, X, v), Edited(g, k, X, v)
    PROVE  Edited(h, k, X, v)
  BY DEF Edited

\* A function of histories.
Edits(f, g, S, X, v) ==
    /\ g \in [S -> Histories(X)]
    /\ \A s \in S : Edited(f[s], g[s], X, v)

\* check_nx_domain edits roles, and changes no role but to and from NxDomain.
LEMMA CheckEdits ==
    ASSUME NEW v, v > 0, NEW sp \in [Names -> Histories(SpecialValues)],
           \A m \in Names : Good(sp[m], SpecialValues, v),
           NEW f, NEW n \in Names
    PROVE  /\ Edits(sp, CheckNxDomain(sp, f, n, v), Names, SpecialValues, v)
           /\ \A m \in Names : Role(Get(CheckNxDomain(sp, f, n, v)[m], v)) = Role(Get(sp[m], v))
<1> DEFINE s == Get(sp[n], v)
           c == CheckNxDomain(sp, f, n, v)
<1>1. \A m \in Names : Edited(sp[m], sp[m], SpecialValues, v)
  BY EditedSame
<1>2. ASSUME NEW x \in {"none", "NxDomain"}, s \in {None, "none", "NxDomain"},
             c = [sp EXCEPT ![n] = Update(@, v, x)]
      PROVE  /\ Edits(sp, c, Names, SpecialValues, v)
             /\ \A m \in Names : Role(Get(c[m], v)) = Role(Get(sp[m], v))
  <2>1. x \in Option(SpecialValues)
    BY DEF Option, SpecialValues
  <2>2. Edited(sp[n], Update(sp[n], v, x), SpecialValues, v)
        /\ Get(Update(sp[n], v, x), v) = x
    BY <2>1, EditedUpdate, UpdateGood, SMT
  <2>3. Update(sp[n], v, x) \in Histories(SpecialValues)
    BY <2>2 DEF Edited, Good
  <2>4. Role(x) = "regular" /\ Role(s) = "regular"
    BY <1>2, RoleAssumption, NoneAssumption DEF Role, SpecialValues
  <2>5. /\ c \in [Names -> Histories(SpecialValues)]
        /\ \A m \in Names : c[m] = IF m = n THEN Update(sp[n], v, x) ELSE sp[m]
    BY <1>2, <2>3
  <2> HIDE DEF c
  <2>6. Edits(sp, c, Names, SpecialValues, v)
    BY <1>1, <2>2, <2>5 DEF Edits
  <2> QED BY <2>2, <2>4, <2>5, <2>6
<1>3. CASE c = sp
  BY <1>1, <1>3 DEF Edits
<1>4. CASE n # Apex /\ s = "NxDomain" /\ ~ NoRRsets(f, n, v)
  BY <1>2, <1>4 DEF CheckNxDomain
<1>5. CASE n # Apex /\ s \in {None, "none"} /\ NoRRsets(f, n, v)
  BY <1>2, <1>5, NoneAssumption DEF CheckNxDomain, SpecialValues
<1>6. ~ (n # Apex /\ s = "NxDomain" /\ ~ NoRRsets(f, n, v))
      /\ ~ (n # Apex /\ s \in {None, "none"} /\ NoRRsets(f, n, v)) => c = sp
  BY DEF CheckNxDomain
<1> QED BY <1>3, <1>4, <1>5, <1>6

------------------------------------------------------------------------------
(* The diff. *)

\* What is left of an RRset when records are taken away is an RRset or empty.
LEMMA LeftOver ==
    ASSUME NEW x \in RRsets, NEW y PROVE x \ y \in {{}} \cup RRsets
<1>1. CASE x \in SoaSets
  <2>1. PICK s \in Versions : x = {s}
    BY <1>1 DEF SoaSets
  <2>2. x \ y = {} \/ x \ y = x
    BY <2>1
  <2> QED BY <2>2
<1>2. CASE x \in (SUBSET Records) \ {{}}
  <2> DEFINE z == x \ y
  <2>1. z \in SUBSET Records
    BY <1>2
  <2> HIDE DEF z
  <2>2. z # {} => z \in RRsets
    BY <2>1, Zenon DEF RRsets
  <2>3. z \in {{}} \cup RRsets
    BY <2>2
  <2> QED BY <2>3 DEF z
<1> QED BY <1>1, <1>2 DEF RRsets

\* A diff builder stays one when differences are recorded.
LEMMA RecordType ==
    ASSUME NEW d \in DiffBuilders, NEW k \in Keys,
           NEW from \in {{}} \cup RRsets, NEW to \in {{}} \cup RRsets
    PROVE  Record(d, k, from, to) \in DiffBuilders
<1>1. /\ d.added \in [Keys -> Option(RRsets)]
      /\ d.removed \in [Keys -> Option(RRsets)]
  BY DEF DiffBuilders
<1>2. ASSUME NEW x \in {{}} \cup RRsets, NEW f \in [Keys -> Option(RRsets)]
      PROVE  (IF x # {} THEN [f EXCEPT ![k] = x] ELSE f) \in [Keys -> Option(RRsets)]
  <2>1. x # {} => x \in Option(RRsets)
    BY DEF Option
  <2> QED BY <2>1
<1> QED BY <1>1, <1>2 DEF Record, DiffBuilders

\* So it does in update_rrset and remove_rrset.
LEMMA DiffType ==
    ASSUME IInv, NEW d \in Option(DiffBuilders), NEW k \in Keys,
           NEW x \in {{}} \cup RRsets
    PROVE  /\ DiffUpdate(d, k, x) \in Option(DiffBuilders)
           /\ DiffRemove(d, k) \in Option(DiffBuilders)
<1> DEFINE old == Get(rr[k], current)
<1>1. old \in Option(RRsets)
  BY GetType DEF IInv, TypeOK
<1> HIDE DEF old
<1>2. CASE d = None
  BY <1>2 DEF DiffUpdate, DiffRemove, Option
<1>3. CASE d # None
  <2>1. d \in DiffBuilders
    BY <1>3 DEF Option
  <2>2. CASE old = None
    <3>1. Record(d, k, {}, x) \in DiffBuilders
      BY <2>1, RecordType
    <3> QED BY <1>3, <2>1, <2>2, <3>1 DEF DiffUpdate, DiffRemove, Option, old
  <2>3. CASE old # None
    <3>1. old \in RRsets
      BY <1>1, <2>3 DEF Option
    <3>2. /\ old \ x \in {{}} \cup RRsets
          /\ x \ old \in {{}} \cup RRsets
      <4>1. old \ x \in {{}} \cup RRsets
        BY <3>1, LeftOver
      <4>2. x \in RRsets => x \ old \in {{}} \cup RRsets
        BY LeftOver
      <4>3. x = {} => x \ old = {}
        OBVIOUS
      <4> QED BY <4>1, <4>2, <4>3
    <3>3. /\ Record(d, k, {}, x) \in DiffBuilders
          /\ Record(d, k, old \ x, x \ old) \in DiffBuilders
          /\ Record(d, k, old, {}) \in DiffBuilders
      BY <2>1, <3>1, <3>2, RecordType
    <3> QED BY <1>3, <2>3, <3>3 DEF DiffUpdate, DiffRemove, Option, old
  <2> QED BY <2>2, <2>3
<1> QED BY <1>2, <1>3

------------------------------------------------------------------------------
(* Edits. *)

\* What every edit of a writer does.
EditStep(w) ==
    /\ lock = w /\ wz[w].dirty
    /\ UNCHANGED <<lock, current, reader>>
    /\ exists' \in SUBSET (Names \ {Apex})
    /\ wz' \in [Writers -> Option(WriteZones)]
    /\ wz'[w] \in WriteZones /\ wz'[w].dirty /\ wz'[w].new = wz[w].new
    /\ \A o \in Writers \ {w} : wz'[o] = wz[o]
    /\ Edits(rr, rr', Keys, RRsets, current + 1)
    /\ Edits(special, special', Names, SpecialValues, current + 1)
    /\ rr'[<<Apex, SOA>>] \in Histories(SoaSets)

\* An edit keeps the invariant, and shows nothing to readers.
LEMMA EditInv ==
    ASSUME IInv, NEW w \in Writers, EditStep(w)
    PROVE  /\ IInv'
           /\ \A u \in Nat : u < current + 1 => View(u)' = View(u)
<1>1. TypeOK'
  BY DEF EditStep, IInv, TypeOK, Edits
<1>2. current \in Nat /\ lock # None /\ wz[w].new = current + 1
  BY Goods, Owner DEF EditStep
<1>3. /\ \A k \in Keys : UpTo(rr'[k], current + 1)
      /\ \A n \in Names : UpTo(special'[n], current + 1)
  BY DEF EditStep, Edits, Edited, Good
<1>4. HistoriesInOrder'
  BY <1>2, <1>3 DEF HistoriesInOrder, EditStep
<1>5. ASSUME NEW u \in Nat, u < current + 1 PROVE View(u)' = View(u)
  <2>1. \A k \in Keys : Get(rr'[k], u) = Get(rr[k], u)
    BY <1>5 DEF EditStep, Edits, Edited
  <2>2. \A n \in Names : Get(special'[n], u) = Get(special[n], u)
    BY <1>5 DEF EditStep, Edits, Edited
  <2> QED BY <2>1, <2>2 DEF View
<1> QED BY <1>1, <1>4, <1>5 DEF IInv

\* The contents of a version have their type.
LEMMA ViewType ==
    ASSUME IInv, NEW u
    PROVE  /\ View(u).rr \in [Keys -> Option(RRsets)]
           /\ View(u).role \in [Names -> {"regular"} \cup Specials]
<1>1. \A k \in Keys : Get(rr[k], u) \in Option(RRsets)
  BY GetType DEF IInv, TypeOK
<1>2. \A n \in Names : Role(Get(special[n], u)) \in {"regular"} \cup Specials
  BY DEF Role
<1> QED BY <1>1, <1>2 DEF View

\* A role stored for one name.
LEMMA SetSpecial ==
    ASSUME IInv, NEW n \in Names, NEW x \in SpecialValues, NEW sp,
           sp = [special EXCEPT ![n] = Update(@, current + 1, x)]
    PROVE  /\ sp \in [Names -> Histories(SpecialValues)]
           /\ \A m \in Names : Good(sp[m], SpecialValues, current + 1)
           /\ Edits(special, sp, Names, SpecialValues, current + 1)
           /\ \A m \in Names \ {n} : sp[m] = special[m]
<1> DEFINE v == current + 1
<1>1. v > 0 /\ \A m \in Names : Good(special[m], SpecialValues, v)
  BY Goods, SMT
<1> HIDE DEF v
<1>2. x \in Option(SpecialValues)
  BY DEF Option
<1>3. \A m \in Names : Edited(special[m], special[m], SpecialValues, v)
  BY <1>1, EditedSame
<1>4. Edited(special[n], Update(special[n], v, x), SpecialValues, v)
  BY <1>1, <1>2, EditedUpdate
<1>5. Update(special[n], v, x) \in Histories(SpecialValues)
  BY <1>4 DEF Edited, Good
<1>6. special \in [Names -> Histories(SpecialValues)]
  BY DEF IInv, TypeOK
<1>7. sp = [special EXCEPT ![n] = Update(@, v, x)]
  BY DEF v
<1>8. /\ sp \in [Names -> Histories(SpecialValues)]
      /\ \A m \in Names : sp[m] = IF m = n THEN Update(special[n], v, x) ELSE special[m]
  BY <1>5, <1>6, <1>7
<1>9. \A m \in Names : Edited(special[m], sp[m], SpecialValues, v)
  BY <1>3, <1>4, <1>8
<1> QED BY <1>8, <1>9 DEF Edits, Edited, v

\* An edit of roles alone.
LEMMA SpecialStep ==
    ASSUME IInv, NEW w \in Writers, lock = w, wz[w].open,
           exists' \in SUBSET (Names \ {Apex}),
           UNCHANGED <<rr, current, lock, wz, reader>>,
           Edits(special, special', Names, SpecialValues, current + 1)
    PROVE  EditStep(w)
<1>1. wz[w] \in WriteZones /\ wz[w].dirty
  BY Owner
<1>2. Edits(rr, rr', Keys, RRsets, current + 1)
  BY Goods, EditedSame DEF IInv, TypeOK, Edits
<1> QED BY <1>1, <1>2 DEF EditStep, IInv, TypeOK

\* An edit of the role of name n is a step of the abstract store.
LEMMA RoleRefines ==
    ASSUME IInv, NEW w \in Writers, EditStep(w), NEW n \in Names, rr' = rr,
           \A m \in Names \ {n} :
               Role(Get(special'[m], current + 1)) = Role(Get(special[m], current + 1))
    PROVE  View(current + 1)' =
             [rr   |-> View(current + 1).rr,
              role |-> [View(current + 1).role EXCEPT ![n] = (View(current + 1)').role[n]]]
<1> DEFINE v == current + 1
<1>1. v' = v
  BY DEF EditStep
<1> HIDE DEF v
<1>2. View(v)' = [rr   |-> [k \in Keys |-> Get(rr[k], v)],
                  role |-> [m \in Names |-> Role(Get(special'[m], v))]]
  BY <1>1 DEF View
<1>3. View(v) = [rr   |-> [k \in Keys |-> Get(rr[k], v)],
                 role |-> [m \in Names |-> Role(Get(special[m], v))]]
  BY DEF View
<1>4. \A m \in Names \ {n} : Role(Get(special'[m], v)) = Role(Get(special[m], v))
  BY DEF v
<1> QED BY <1>2, <1>3, <1>4, SMT DEF v

\* A role is stored and the mark is brought up to date.
LEMMA RegularEdits ==
    ASSUME IInv, NEW n \in Names,
           special' = CheckNxDomain([special EXCEPT ![n] = Update(@, current + 1, "none")],
                                    rr, n, current + 1)
    PROVE  /\ Edits(special, special', Names, SpecialValues, current + 1)
           /\ \A m \in Names \ {n} :
                 Role(Get(special'[m], current + 1)) = Role(Get(special[m], current + 1))
<1> DEFINE v  == current + 1
           sp == [special EXCEPT ![n] = Update(@, v, "none")]
<1>1. "none" \in SpecialValues /\ v > 0
  BY Goods, SMT DEF SpecialValues
<1>2. /\ sp \in [Names -> Histories(SpecialValues)]
      /\ \A m \in Names : Good(sp[m], SpecialValues, v)
      /\ Edits(special, sp, Names, SpecialValues, v)
      /\ \A m \in Names \ {n} : sp[m] = special[m]
  BY <1>1, SetSpecial
<1>3. special' = CheckNxDomain(sp, rr, n, v)
  OBVIOUS
<1> HIDE DEF sp, v
<1>4. /\ Edits(sp, special', Names, SpecialValues, v)
      /\ \A m \in Names : Role(Get(special'[m], v)) = Role(Get(sp[m], v))
  <2> DEFINE c == CheckNxDomain(sp, rr, n, v)
  <2>1. /\ Edits(sp, c, Names, SpecialValues, v)
        /\ \A m \in Names : Role(Get(c[m], v)) = Role(Get(sp[m], v))
    BY <1>1, <1>2, CheckEdits
  <2>2. special' = c
    BY <1>3
  <2> HIDE DEF c
  <2> QED BY <2>1, <2>2
<1>5. Edits(special, special', Names, SpecialValues, v)
  BY <1>2, <1>4, EditedTwice DEF Edits
<1> QED BY <1>2, <1>4, <1>5 DEF v

\* The edits of the role of name n.
LEMMA RoleStep ==
    ASSUME IInv, NEW w \in Writers, NEW n \in Names,
           \/ UpdateChild(w, n)
           \/ MakeRegular(w, n)
           \/ \E s \in Specials : MakeSpecial(w, n, s)
    PROVE  /\ EditStep(w)
           /\ rr' = rr
           /\ \A m \in Names \ {n} :
                 Role(Get(special'[m], current + 1)) = Role(Get(special[m], current + 1))
<1>1. CASE UpdateChild(w, n)
  <2>1. lock = w /\ wz[w].open /\ n \in Names \ {Apex}
    BY <1>1 DEF UpdateChild, HasNode
  <2>2. wz[w].new = current + 1
    BY <2>1, Owner
  <2>3. /\ special' = CheckNxDomain([special EXCEPT ![n] = Update(@, current + 1, "none")],
                                    rr, n, current + 1)
        /\ UNCHANGED <<rr, current, lock, wz, reader>>
        /\ exists' = exists \cup {n}
    BY <1>1, <2>2 DEF UpdateChild
  <2>4. exists' \in SUBSET (Names \ {Apex})
    BY <2>1, <2>3 DEF IInv, TypeOK
  <2> QED BY <2>1, <2>3, <2>4, RegularEdits, SpecialStep
<1>2. CASE MakeRegular(w, n)
  <2>1. lock = w /\ wz[w].open
    BY <1>2 DEF MakeRegular, HasNode
  <2>2. wz[w].new = current + 1
    BY <2>1, Owner
  <2>3. /\ special' = CheckNxDomain([special EXCEPT ![n] = Update(@, current + 1, "none")],
                                    rr, n, current + 1)
        /\ UNCHANGED <<rr, exists, current, lock, wz, reader>>
    BY <1>2, <2>2 DEF MakeRegular
  <2>4. exists' \in SUBSET (Names \ {Apex})
    BY <2>3 DEF IInv, TypeOK
  <2> QED BY <2>1, <2>3, <2>4, RegularEdits, SpecialStep
<1>3. ASSUME NEW s \in Specials, MakeSpecial(w, n, s)
      PROVE  /\ EditStep(w)
             /\ rr' = rr
             /\ \A m \in Names \ {n} :
                   Role(Get(special'[m], current + 1)) = Role(Get(special[m], current + 1))
  <2>1. lock = w /\ wz[w].open
    BY <1>3 DEF MakeSpecial, HasNode
  <2>2. wz[w].new = current + 1
    BY <2>1, Owner
  <2>3. /\ special' = [special EXCEPT ![n] = Update(@, current + 1, s)]
        /\ UNCHANGED <<rr, exists, current, lock, wz, reader>>
    BY <1>3, <2>2 DEF MakeSpecial
  <2>4. exists' \in SUBSET (Names \ {Apex})
    BY <2>3 DEF IInv, TypeOK
  <2>5. s \in SpecialValues
    BY DEF SpecialValues
  <2>6. /\ Edits(special, special', Names, SpecialValues, current + 1)
        /\ \A m \in Names \ {n} : special'[m] = special[m]
    <3> DEFINE sp == [special EXCEPT ![n] = Update(@, current + 1, s)]
    <3>1. /\ Edits(special, sp, Names, SpecialValues, current + 1)
          /\ \A m \in Names \ {n} : sp[m] = special[m]
      BY <2>5, SetSpecial
    <3>2. special' = sp
      BY <2>3
    <3> HIDE DEF sp
    <3> QED BY <3>1, <3>2
  <2> QED BY <2>1, <2>3, <2>4, <2>6, SpecialStep
<1> QED BY <1>1, <1>2, <1>3

\* Two functions that differ at one point.
LEMMA DifferAt ==
    ASSUME NEW S, NEW a, NEW b, NEW k \in S,
           a = [l \in S |-> a[l]], b = [l \in S |-> b[l]],
           \A l \in S : l # k => b[l] = a[l]
    PROVE  b = [a EXCEPT ![k] = b[k]]
  OBVIOUS

\* An edit of the RRset of name n and type t.
LEMMA RRsetStep ==
    ASSUME IInv, NEW w \in Writers, lock = w, wz[w].open,
           NEW n \in Names, NEW t \in Types, NEW g, NEW d \in Option(DiffBuilders),
           Edited(rr[<<n, t>>], g, RRsets, current + 1),
           <<n, t>> = <<Apex, SOA>> => g \in Histories(SoaSets),
           rr' = [rr EXCEPT ![<<n, t>>] = g],
           special' = CheckNxDomain(special, rr', n, current + 1),
           wz' = [wz EXCEPT ![w].diff = d],
           UNCHANGED <<exists, current, lock, reader>>
    PROVE  /\ EditStep(w)
           /\ View(current + 1)' =
                [rr   |-> [View(current + 1).rr EXCEPT
                               ![<<n, t>>] = (View(current + 1)').rr[<<n, t>>]],
                 role |-> View(current + 1).role]
<1> DEFINE v == current + 1
           k == <<n, t>>
<1>1. v > 0 /\ v' = v /\ k \in Keys
  BY Goods, SMT DEF Keys
<1>2. /\ \A l \in Keys : Good(rr[l], RRsets, v)
      /\ \A m \in Names : Good(special[m], SpecialValues, v)
  BY Goods
<1>3. /\ rr \in [Keys -> Histories(RRsets)]
      /\ special \in [Names -> Histories(SpecialValues)]
      /\ rr[<<Apex, SOA>>] \in Histories(SoaSets)
      /\ exists' \in SUBSET (Names \ {Apex})
      /\ wz \in [Writers -> Option(WriteZones)]
  BY DEF IInv, TypeOK
<1> HIDE DEF v
<1>4. /\ rr' \in [Keys -> Histories(RRsets)]
      /\ \A l \in Keys : rr'[l] = IF l = k THEN g ELSE rr[l]
  <2>1. g \in Histories(RRsets)
    BY DEF Edited, Good
  <2> QED BY <1>1, <1>3, <2>1
<1>5. Edits(rr, rr', Keys, RRsets, v)
  <2>1. \A l \in Keys : Edited(rr[l], rr[l], RRsets, v)
    BY <1>2, EditedSame
  <2> QED BY <1>4, <2>1 DEF Edits, v
<1>6. /\ Edits(special, special', Names, SpecialValues, v)
      /\ \A m \in Names : Role(Get(special'[m], v)) = Role(Get(special[m], v))
  BY <1>1, <1>2, <1>3, CheckEdits, SMT DEF v
<1>7. rr'[<<Apex, SOA>>] \in Histories(SoaSets)
  BY <1>3, <1>4, NamesAssumption, SMT DEF Keys
<1>8. /\ wz' \in [Writers -> Option(WriteZones)]
      /\ wz'[w] \in WriteZones /\ wz'[w].dirty /\ wz'[w].new = wz[w].new
      /\ \A o \in Writers \ {w} : wz'[o] = wz[o]
  <2>1. wz[w] \in WriteZones /\ wz[w].dirty
    BY Owner
  <2>2. wz' = [wz EXCEPT ![w] = [wz[w] EXCEPT !.diff = d]]
    OBVIOUS
  <2>3. /\ [wz[w] EXCEPT !.diff = d] \in WriteZones
        /\ [wz[w] EXCEPT !.diff = d].dirty
        /\ [wz[w] EXCEPT !.diff = d].new = wz[w].new
    BY <2>1 DEF WriteZones
  <2> DEFINE z == [wz[w] EXCEPT !.diff = d]
  <2> HIDE DEF z
  <2>4. z \in WriteZones /\ z \in Option(WriteZones) /\ z.dirty /\ z.new = wz[w].new
    BY <2>3 DEF z, Option
  <2>5. wz' = [wz EXCEPT ![w] = z]
    BY <2>2 DEF z
  <2> QED BY <1>3, <2>4, <2>5
<1>9. EditStep(w)
  <2>1. wz[w].dirty
    BY Owner
  <2> QED BY <1>3, <1>5, <1>6, <1>7, <1>8, <2>1 DEF EditStep, v
<1>10. View(v)' = [rr   |-> [l \in Keys |-> Get(rr'[l], v)],
                   role |-> [m \in Names |-> Role(Get(special'[m], v))]]
  BY <1>1, SMT DEF View
<1>11. View(v) = [rr   |-> [l \in Keys |-> Get(rr[l], v)],
                  role |-> [m \in Names |-> Role(Get(special[m], v))]]
  BY DEF View
<1>12. \A l \in Keys : l # k => Get(rr'[l], v) = Get(rr[l], v)
  BY <1>4
<1>13. View(v)' = [rr   |-> [View(v).rr EXCEPT ![k] = (View(v)').rr[k]],
                   role |-> View(v).role]
  <2> HIDE DEF k
  <2> DEFINE a == [l \in Keys |-> Get(rr[l], v)]
             b == [l \in Keys |-> Get(rr'[l], v)]
             p == [m \in Names |-> Role(Get(special[m], v))]
             q == [m \in Names |-> Role(Get(special'[m], v))]
  <2>4. /\ a = [l \in Keys |-> a[l]] /\ b = [l \in Keys |-> b[l]]
        /\ \A l \in Keys : l # k => b[l] = a[l]
    BY <1>12, SMT
  <2>5. k \in Keys
    BY <1>1
  <2>2. q = p
    BY <1>6
  <2>3. View(v)' = [rr |-> b, role |-> q] /\ View(v) = [rr |-> a, role |-> p]
    BY <1>10, <1>11
  <2> HIDE DEF a, b, p, q
  <2>1. b = [a EXCEPT ![k] = b[k]]
    BY <2>4, <2>5, DifferAt
  <2>6. (View(v)').rr = b /\ View(v).rr = a /\ View(v).role = p
    BY <2>3, SMT
  <2>7. View(v)' = [rr |-> b, role |-> p]
    BY <2>2, <2>3
  <2> QED BY <2>1, <2>6, <2>7
<1> QED BY <1>9, <1>13 DEF v

\* The history of the SOA RRset of the apex.
LEMMA SoaGood ==
    ASSUME IInv
    PROVE  /\ <<Apex, SOA>> \in Keys
           /\ Good(rr[<<Apex, SOA>>], SoaSets, current + 1)
<1>1. <<Apex, SOA>> \in Keys
  BY NamesAssumption DEF Keys
<1>2. Good(rr[<<Apex, SOA>>], RRsets, current + 1)
  BY <1>1, Goods
<1>3. rr[<<Apex, SOA>>] \in Histories(SoaSets)
  BY DEF IInv, TypeOK
<1> QED BY <1>1, <1>2, <1>3 DEF Good

\* What update_rrset and remove_rrset leave in a history.
LEMMA NewHistory ==
    ASSUME IInv, NEW n \in Names, NEW t \in Types, NEW x \in NewRRsets(t) \cup {{}}, NEW g,
           g = IF x = {} THEN Remove(rr[<<n, t>>], current + 1)
               ELSE Update(rr[<<n, t>>], current + 1, x)
    PROVE  /\ Edited(rr[<<n, t>>], g, RRsets, current + 1)
           /\ <<n, t>> = <<Apex, SOA>> => g \in Histories(SoaSets)
           /\ x \in {{}} \cup RRsets
<1> DEFINE v == current + 1
           h == rr[<<n, t>>]
<1>1. Good(h, RRsets, v) /\ v > 0
  BY Goods, SMT DEF Keys
<1>2. <<n, t>> = <<Apex, SOA>> => Good(h, SoaSets, v) /\ t = SOA
  BY SoaGood
<1>3. x # {} => x \in RRsets /\ (t = SOA => x \in SoaSets)
  BY DEF NewRRsets, RRsets
<1>4. g = IF x = {} THEN Remove(h, v) ELSE Update(h, v, x)
  OBVIOUS
<1> HIDE DEF v, h
<1>5. CASE x = {}
  <2>1. g = Remove(h, v)
    BY <1>4, <1>5
  <2>2. Edited(h, g, RRsets, v)
    BY <1>1, <2>1, EditedRemove
  <2>3. <<n, t>> = <<Apex, SOA>> => g \in Histories(SoaSets)
    BY <1>1, <1>2, <2>1, RemoveGood DEF Good
  <2> QED BY <1>5, <2>2, <2>3 DEF v, h
<1>6. CASE x # {}
  <2>1. g = Update(h, v, x)
    BY <1>4, <1>6
  <2>2. x \in Option(RRsets) /\ (t = SOA => x \in Option(SoaSets))
    BY <1>3, <1>6 DEF Option
  <2>3. Edited(h, g, RRsets, v)
    BY <1>1, <2>1, <2>2, EditedUpdate, SMT
  <2>4. <<n, t>> = <<Apex, SOA>> => g \in Histories(SoaSets)
    BY <1>1, <1>2, <2>1, <2>2, UpdateGood, SMT DEF Good
  <2> QED BY <1>3, <1>6, <2>3, <2>4 DEF v, h
<1> QED BY <1>5, <1>6

\* Contents c with the RRset of name n and type t, or the role of name n, replaced.
PutRRset(c, n, t, x) == [rr |-> [c.rr EXCEPT ![<<n, t>>] = x], role |-> c.role]
PutRole(c, n, x) == [rr |-> c.rr, role |-> [c.role EXCEPT ![n] = x]]

\* Storing and removing one RRset.
LEMMA RRsetEdit ==
    ASSUME IInv, NEW w \in Writers, NEW n \in Names, NEW t \in Types,
           \/ RemoveRRset(w, n, t)
           \/ \E x \in NewRRsets(t) : UpdateRRset(w, n, t, x)
    PROVE  /\ EditStep(w)
           /\ View(current + 1)' =
                PutRRset(View(current + 1), n, t, (View(current + 1)').rr[<<n, t>>])
<1>1. <<n, t>> \in Keys
  BY DEF Keys
<1>2. ASSUME lock = w PROVE wz[w].new = current + 1 /\ wz[w].diff \in Option(DiffBuilders)
  BY <1>2, Owner DEF WriteZones
<1>3. CASE RemoveRRset(w, n, t)
  <2> DEFINE g == Remove(rr[<<n, t>>], current + 1)
             d == DiffRemove(wz[w].diff, <<n, t>>)
  <2>1. lock = w /\ wz[w].open
    BY <1>3 DEF RemoveRRset, HasNode
  <2>2. /\ rr' = [rr EXCEPT ![<<n, t>>] = g]
        /\ special' = CheckNxDomain(special, rr', n, current + 1)
        /\ wz' = [wz EXCEPT ![w].diff = d]
        /\ UNCHANGED <<exists, current, lock, reader>>
    BY <1>2, <1>3, <2>1 DEF RemoveRRset
  <2>3. /\ Edited(rr[<<n, t>>], g, RRsets, current + 1)
        /\ <<n, t>> = <<Apex, SOA>> => g \in Histories(SoaSets)
    <3>1. {} \in NewRRsets(t) \cup {{}} /\ g = IF {} = {} THEN g ELSE Update(rr[<<n, t>>], current + 1, {})
      OBVIOUS
    <3> QED BY <3>1, NewHistory
  <2>4. d \in Option(DiffBuilders)
    <3>1. wz[w].diff \in Option(DiffBuilders)
      BY <1>2, <2>1
    <3>2. {} \in {{}} \cup RRsets
      OBVIOUS
    <3> QED
      BY <1>1, <3>1, <3>2, DiffType
  <2> HIDE DEF g, d
  <2> QED BY <2>1, <2>2, <2>3, <2>4, RRsetStep DEF PutRRset
<1>4. ASSUME NEW x \in NewRRsets(t), UpdateRRset(w, n, t, x)
      PROVE  /\ EditStep(w)
             /\ View(current + 1)' =
                  PutRRset(View(current + 1), n, t, (View(current + 1)').rr[<<n, t>>])
  <2> DEFINE g == IF x = {} THEN Remove(rr[<<n, t>>], current + 1)
                  ELSE Update(rr[<<n, t>>], current + 1, x)
             d == DiffUpdate(wz[w].diff, <<n, t>>, x)
  <2>1. lock = w /\ wz[w].open
    BY <1>4 DEF UpdateRRset, HasNode
  <2>2. /\ rr' = [rr EXCEPT ![<<n, t>>] = g]
        /\ special' = CheckNxDomain(special, rr', n, current + 1)
        /\ wz' = [wz EXCEPT ![w].diff = d]
        /\ UNCHANGED <<exists, current, lock, reader>>
    BY <1>2, <1>4, <2>1 DEF UpdateRRset
  <2>3. /\ Edited(rr[<<n, t>>], g, RRsets, current + 1)
        /\ <<n, t>> = <<Apex, SOA>> => g \in Histories(SoaSets)
        /\ x \in {{}} \cup RRsets
    BY NewHistory
  <2>4. d \in Option(DiffBuilders)
    BY <1>1, <1>2, <2>1, <2>3, DiffType
  <2> HIDE DEF g, d
  <2> QED BY <2>1, <2>2, <2>3, <2>4, RRsetStep DEF PutRRset
<1> QED BY <1>3, <1>4

\* remove_all
LEMMA RemoveAllStep ==
    ASSUME IInv, NEW w \in Writers, NEW n \in Names, RemoveAll(w, n)
    PROVE  /\ EditStep(w)
           /\ View(current + 1)' =
                [rr   |-> [k \in Keys |-> IF k[1] \in Below[n] THEN None
                                          ELSE View(current + 1).rr[k]],
                 role |-> [m \in Names |-> IF m \in Below[n] THEN "regular"
                                           ELSE View(current + 1).role[m]]]
<1> DEFINE v == current + 1
<1>1. lock = w /\ wz[w].open /\ v' = v
  BY DEF RemoveAll, HasNode
<1>2. wz[w] \in WriteZones /\ wz[w].dirty /\ wz[w].new = v /\ v > 0
  BY <1>1, Owner, NewVersion
<1>3. /\ rr' = [k \in Keys |-> IF k[1] \in Below[n] THEN Remove(rr[k], v) ELSE rr[k]]
      /\ special' = [m \in Names |-> IF m \in Below[n] THEN Remove(special[m], v)
                                     ELSE special[m]]
      /\ UNCHANGED <<exists, current, lock, wz, reader>>
  BY <1>2 DEF RemoveAll
<1>4. /\ \A k \in Keys : Good(rr[k], RRsets, v)
      /\ \A m \in Names : Good(special[m], SpecialValues, v)
  BY Goods
<1>5. Good(rr[<<Apex, SOA>>], SoaSets, v) /\ <<Apex, SOA>> \in Keys
  BY SoaGood
<1> HIDE DEF v
<1>6. Edits(rr, rr', Keys, RRsets, v)
  <2>1. \A k \in Keys : /\ Edited(rr[k], rr[k], RRsets, v)
                        /\ Edited(rr[k], Remove(rr[k], v), RRsets, v)
    BY <1>2, <1>4, EditedSame, EditedRemove
  <2>2. \A k \in Keys : Edited(rr[k], rr'[k], RRsets, v)
    BY <1>3, <2>1
  <2>3. \A k \in Keys : rr'[k] \in Histories(RRsets)
    BY <2>2 DEF Edited, Good
  <2> QED BY <1>3, <2>2, <2>3 DEF Edits
<1>7. Edits(special, special', Names, SpecialValues, v)
  <2>1. \A m \in Names : /\ Edited(special[m], special[m], SpecialValues, v)
                         /\ Edited(special[m], Remove(special[m], v), SpecialValues, v)
    BY <1>2, <1>4, EditedSame, EditedRemove
  <2>2. \A m \in Names : Edited(special[m], special'[m], SpecialValues, v)
    BY <1>3, <2>1
  <2>3. \A m \in Names : special'[m] \in Histories(SpecialValues)
    BY <2>2 DEF Edited, Good
  <2> QED BY <1>3, <2>2, <2>3 DEF Edits
<1>8. rr'[<<Apex, SOA>>] \in Histories(SoaSets)
  <2>1. Remove(rr[<<Apex, SOA>>], v) \in Histories(SoaSets)
    BY <1>2, <1>5, RemoveGood DEF Good
  <2>2. rr[<<Apex, SOA>>] \in Histories(SoaSets)
    BY <1>5 DEF Good
  <2> QED BY <1>3, <1>5, <2>1, <2>2
<1>9. EditStep(w)
  <2>1. /\ exists \in SUBSET (Names \ {Apex})
        /\ wz \in [Writers -> Option(WriteZones)]
    BY DEF IInv, TypeOK
  <2> QED
    BY <1>1, <1>2, <1>3, <1>6, <1>7, <1>8, <2>1 DEF EditStep, v
<1>10. /\ \A k \in Keys : Get(Remove(rr[k], v), v) = None
       /\ \A m \in Names : Get(Remove(special[m], v), v) = None
  BY <1>2, <1>4, RemoveGood
<1>11. Role(None) = "regular"
  BY NoneAssumption DEF Role, SpecialValues
<1>12. View(v)' = [rr   |-> [k \in Keys |-> Get(rr'[k], v)],
                   role |-> [m \in Names |-> Role(Get(special'[m], v))]]
  BY <1>1 DEF View
<1>13. \A k \in Keys : Get(rr'[k], v) = IF k[1] \in Below[n] THEN None ELSE View(v).rr[k]
  BY <1>3, <1>10 DEF View
<1>14. \A m \in Names : Role(Get(special'[m], v))
                          = IF m \in Below[n] THEN "regular" ELSE View(v).role[m]
  BY <1>3, <1>10, <1>11 DEF View
<1>15. View(v)' = [rr   |-> [k \in Keys |-> IF k[1] \in Below[n] THEN None
                                            ELSE View(v).rr[k]],
                   role |-> [m \in Names |-> IF m \in Below[n] THEN "regular"
                                             ELSE View(v).role[m]]]
  BY <1>12, <1>13, <1>14
<1> QED BY <1>9, <1>15 DEF v

-----------------------------------------------------------------------------
(* The way of a query. *)

\* The names on the path of a name are its prefixes, and so are theirs.
LEMMA Prefixes ==
    ASSUME NEW q \in Names, NEW i \in 1 .. Len(q)
    PROVE  /\ SubSeq(q, 1, i) \in Path[q]
           /\ SubSeq(q, 1, i) \in Names
           /\ Len(SubSeq(q, 1, i)) = i
           /\ Path[SubSeq(q, 1, i)] = {SubSeq(q, 1, j) : j \in 1 .. i}
           /\ SubSeq(q, 1, Len(q)) = q
<1> DEFINE p == SubSeq(q, 1, i)
<1>1. q \in Seq(Labels) /\ Len(q) \in Nat
  BY NamesAssumption, LenProperties
<1>2. p \in Path[q]
  BY DEF Path
<1>3. p \in Names
  BY <1>2, NamesAssumption
<1>4. /\ p \in Seq(Labels)
      /\ Len(p) = i
      /\ \A j \in 1 .. i : p[j] = q[j]
  BY <1>1, SubSeqProperties, SMT
<1> HIDE DEF p
<1>5. ASSUME NEW j \in 1 .. i PROVE SubSeq(p, 1, j) = SubSeq(q, 1, j)
  <2>1. /\ SubSeq(p, 1, j) \in Seq(Labels) /\ Len(SubSeq(p, 1, j)) = j
        /\ \A l \in 1 .. j : SubSeq(p, 1, j)[l] = p[l]
    BY <1>4, SubSeqProperties, SMT
  <2>2. /\ SubSeq(q, 1, j) \in Seq(Labels) /\ Len(SubSeq(q, 1, j)) = j
        /\ \A l \in 1 .. j : SubSeq(q, 1, j)[l] = q[l]
    BY <1>1, SubSeqProperties, SMT
  <2> QED BY <1>4, <2>1, <2>2, SeqEqual, SMT
<1>6. Path[p] = {SubSeq(q, 1, j) : j \in 1 .. i}
  BY <1>3, <1>4, <1>5 DEF Path
<1>7. SubSeq(q, 1, Len(q)) = q
  <2>1. /\ SubSeq(q, 1, Len(q)) \in Seq(Labels) /\ Len(SubSeq(q, 1, Len(q))) = Len(q)
        /\ \A l \in 1 .. Len(q) : SubSeq(q, 1, Len(q))[l] = q[l]
    BY <1>1, SubSeqProperties, SMT
  <2> QED BY <1>1, <2>1, SeqEqual
<1> QED BY <1>2, <1>3, <1>4, <1>6, <1>7 DEF p

\* A name below the apex is on its own path.
LEMMA OnPath == ASSUME NEW q \in Names, q # Apex PROVE q \in Path[q]
<1>1. Len(q) \in Nat /\ Len(q) # 0
  BY NamesAssumption, LenProperties, EmptySeq DEF Apex
<1>2. Len(q) \in 1 .. Len(q)
  BY <1>1, SMT
<1> QED BY <1>2, Prefixes

\* A non-empty set of positive numbers has a least one.
LEMMA LeastOf ==
    ASSUME NEW S \in SUBSET Nat, S # {}
    PROVE  \E i \in S : \A j \in S : i <= j
<1> DEFINE R == {ss \in Nat \X Nat : ss[1] < ss[2]}
<1>1. IsWellFoundedOn(R, Nat)
  <2>1. R = OpToRel(<, Nat)
    BY DEF OpToRel
  <2> QED BY <2>1, NatLessThanWellFounded
<1> HIDE DEF R
<1>2. PICK i \in S : \A j \in S : <<j, i>> \notin R
  BY <1>1, WFMin
<1>3. ASSUME NEW j \in S PROVE i <= j
  <2>1. <<j, i>> \notin R
    BY <1>2
  <2> QED BY <2>1, SMT DEF R
<1> QED BY <1>3

\* The first name in S is the one with the fewest labels.
LEMMA FirstFound ==
    ASSUME NEW q \in Names, q # Apex, NEW S, q \in S
    PROVE  \E k \in 1 .. Len(q) :
              /\ FirstOn(q, S) = SubSeq(q, 1, k)
              /\ FirstOn(q, S) \in S /\ FirstOn(q, S) \in Path[q]
              /\ \A j \in 1 .. k - 1 : SubSeq(q, 1, j) \notin S
<1> DEFINE T == {i \in 1 .. Len(q) : SubSeq(q, 1, i) \in S}
<1>1. Len(q) \in Nat /\ Len(q) # 0
  BY NamesAssumption, LenProperties, EmptySeq DEF Apex
<1>2. Len(q) \in T
  <2>1. SubSeq(q, 1, Len(q)) = q /\ Len(q) \in 1 .. Len(q)
    BY <1>1, Prefixes, SMT
  <2> QED BY <2>1
<1>3. PICK i \in T : \A j \in T : i <= j
  <2>1. T \in SUBSET Nat /\ T # {}
    BY <1>1, <1>2, SMT
  <2> QED BY <2>1, LeastOf
<1>4. \E n \in Path[q] : n \in S /\ Path[n] \cap S = {n}
  <2>1. SubSeq(q, 1, i) \in Path[q] /\ SubSeq(q, 1, i) \in S
        /\ Path[SubSeq(q, 1, i)] = {SubSeq(q, 1, j) : j \in 1 .. i}
    BY Prefixes
  <2>2. \A j \in 1 .. i : SubSeq(q, 1, j) \in S => j = i
    BY <1>1, <1>3, SMT
  <2>3. i \in 1 .. i
    BY <1>1, SMT
  <2>4. \A n \in Path[SubSeq(q, 1, i)] : n \in S => n = SubSeq(q, 1, i)
    BY <2>1, <2>2
  <2>5. SubSeq(q, 1, i) \in Path[SubSeq(q, 1, i)]
    BY <2>1, <2>3
  <2>6. Path[SubSeq(q, 1, i)] \cap S = {SubSeq(q, 1, i)}
    BY <2>1, <2>4, <2>5
  <2> QED BY <2>1, <2>6
<1>5. /\ FirstOn(q, S) \in Path[q] /\ FirstOn(q, S) \in S
      /\ Path[FirstOn(q, S)] \cap S = {FirstOn(q, S)}
  BY <1>4 DEF FirstOn
<1>6. PICK k \in 1 .. Len(q) : FirstOn(q, S) = SubSeq(q, 1, k)
  BY <1>5 DEF Path
<1>7. ASSUME NEW j \in 1 .. k - 1 PROVE SubSeq(q, 1, j) \notin S
  <2>1. j \in 1 .. Len(q) /\ j \in 1 .. k /\ j # k
    BY <1>1, SMT
  <2>2. SubSeq(q, 1, j) # SubSeq(q, 1, k)
    <3>1. Len(SubSeq(q, 1, j)) = j
      BY <2>1, Prefixes
    <3>2. Len(SubSeq(q, 1, k)) = k
      BY Prefixes
    <3> QED BY <2>1, <3>1, <3>2
  <2>3. SubSeq(q, 1, j) \in Path[SubSeq(q, 1, k)]
    <3>1. Path[SubSeq(q, 1, k)] = {SubSeq(q, 1, l) : l \in 1 .. k}
      BY Prefixes
    <3> QED BY <2>1, <3>1
  <2> QED BY <1>5, <1>6, <2>2, <2>3
<1> QED BY <1>5, <1>6, <1>7

\* A first name of S that is also in a smaller set is the first one there.
LEMMA FirstOfFewer ==
    ASSUME NEW q \in Names, q # Apex, NEW S, q \in S, NEW U, q \in U,
           \A n \in Names : n \in U => n \in S, FirstOn(q, S) \in U
    PROVE  FirstOn(q, U) = FirstOn(q, S)
<1>1. PICK k \in 1 .. Len(q) :
              /\ FirstOn(q, S) = SubSeq(q, 1, k)
              /\ \A j \in 1 .. k - 1 : SubSeq(q, 1, j) \notin S
  BY FirstFound
<1>2. PICK l \in 1 .. Len(q) :
              /\ FirstOn(q, U) = SubSeq(q, 1, l) /\ FirstOn(q, U) \in U
              /\ \A j \in 1 .. l - 1 : SubSeq(q, 1, j) \notin U
  BY FirstFound
<1>3. Len(q) \in Nat
  BY NamesAssumption, LenProperties
<1>4. ~ (k < l)
  <2>1. k < l => k \in 1 .. l - 1
    BY <1>3, SMT
  <2> QED BY <1>1, <1>2, <2>1
<1>5. ~ (l < k)
  <2>1. l < k => l \in 1 .. k - 1
    BY <1>3, SMT
  <2>2. SubSeq(q, 1, l) \in S
    BY <1>2, Prefixes
  <2> QED BY <1>1, <2>1, <2>2
<1>6. k = l
  BY <1>3, <1>4, <1>5, SMT
<1> QED BY <1>1, <1>2, <1>6
==============================================================================
