----------------------------- MODULE ZoneProofs ------------------------------
(***************************************************************************)
(* The zone store keeps its histories in order and implements ZoneSpec,    *)
(* whatever the names, types, records, readers and writers are.  Edits are *)
(* those of ZoneEditProofs; here are the other steps, and the mapping of   *)
(* each to a step of the abstract store.  Then, in this order: the marks   *)
(* of the store agree with its RRsets (NxInv), names without a node have   *)
(* no history (NodesInv), so that queries and walks find what a version    *)
(* contains and go on doing so, and diffs remove only what was published.  *)
(***************************************************************************)
EXTENDS ZoneEditProofs

(* The abstract state. *)

Copy == IF lock = None THEN None ELSE View(wz[lock].new)
Snap == [r \in Readers |-> IF reader[r] = None THEN None ELSE View(reader[r])]

\* Leaves with arithmetic name SMT.
USE Zenon

\* Readers see what they saw if old versions are left alone.
LEMMA SnapSame ==
    ASSUME IInv, reader' = reader, \A u \in Nat : u <= current => View(u)' = View(u)
    PROVE  Snap' = Snap
<1>1. ASSUME NEW r \in Readers
      PROVE  (IF reader[r] = None THEN None ELSE View(reader[r]))'
               = IF reader[r] = None THEN None ELSE View(reader[r])
  <2>1. CASE reader[r] = None
    BY <2>1
  <2>2. CASE reader[r] # None
    <3>1. reader[r] \in Nat /\ reader[r] <= current
      BY <2>2, SMT DEF IInv, TypeOK, Option
    <3>2. PICK u \in Nat : u = reader[r] /\ u <= current
      BY <3>1
    <3>3. View(u)' = View(u)
      BY <3>2
    <3>4. View(reader[r])' = View(u)'
      BY <3>2 DEF View
    <3>5. View(reader[r]) = View(u)
      BY <3>2
    <3> QED BY <2>2, <3>3, <3>4, <3>5
  <2> QED BY <2>1, <2>2
<1> QED BY <1>1 DEF Snap

\* What an edit leaves alone, and what it does to the copy.
LEMMA EditFrame ==
    ASSUME IInv, NEW w \in Writers, EditStep(w)
    PROVE  /\ View(current)' = View(current)
           /\ lock' = lock /\ lock # None
           /\ Snap' = Snap
           /\ Copy = View(current + 1)
           /\ Copy' = View(current + 1)'
<1>1. current \in Nat /\ current' = current /\ lock' = lock /\ lock = w /\ reader' = reader
  BY Goods DEF EditStep
<1>2. lock # None /\ wz[lock].new = current + 1 /\ wz'[lock'].new = current + 1
  BY <1>1, Owner DEF EditStep
<1>3. \A u \in Nat : u <= current => View(u)' = View(u)
  <2>1. \A u \in Nat : u < current + 1 => View(u)' = View(u)
    BY EditInv
  <2> QED BY <1>1, <2>1, SMT
<1>4. View(current)' = View(current)
  <2>1. PICK u \in Nat : u = current /\ u <= current
    BY <1>1, SMT
  <2>2. View(u)' = View(u)
    BY <1>3, <2>1
  <2>3. View(current)' = View(u)'
    BY <1>1, <2>1 DEF View
  <2> QED BY <2>1, <2>2, <2>3
<1>5. Copy = View(current + 1)
  BY <1>2 DEF Copy
<1>6. Copy' = View(current + 1)'
  BY <1>1, <1>2 DEF Copy, View
<1> QED BY <1>1, <1>2, <1>3, <1>4, <1>5, <1>6, SnapSame

\* NewZone of the version before the one to write.
LEMMA NewZoneType ==
    ASSUME NEW v \in 0 .. MaxVersion
    PROVE  NewZone(v) \in WriteZones /\ NewZone(v).new = v + 1 /\ ~ NewZone(v).dirty
<1>1. NextVersion(v) = v + 1
  BY NextIsPlus, VersionAssumption, HalfAssumption, SMT
<1>2. v + 1 \in 1 .. MaxVersion + 1
  BY VersionAssumption, SMT
<1>3. NewZone(v) = [new |-> v + 1, dirty |-> FALSE, open |-> FALSE, diff |-> None]
  BY <1>1 DEF NewZone
<1> QED BY <1>2, <1>3, SMT DEF WriteZones, Option

\* A reader takes a snapshot of the abstract zone.
LEMMA ReadStep ==
    ASSUME IInv, NEW r \in Readers, Read(r)
    PROVE  IInv' /\ Store!Read(r)
<1>1. TypeOK'
  BY SMT DEF Read, IInv, TypeOK, Option
<1>2. HistoriesInOrder'
  BY DEF Read, IInv, HistoriesInOrder
<1>3. UNCHANGED <<View(current), lock, Copy>>
  BY DEF Read, View, Copy
<1>4. Snap[r] = None /\ Snap' = [Snap EXCEPT ![r] = View(current)]
  <2>1. Snap[r] = None
    BY DEF Read, Snap
  <2>2. reader' = [reader EXCEPT ![r] = current] /\ UNCHANGED <<rr, special>>
    BY DEF Read
  <2>3. current # None
    <3>1. current \in Versions
      BY VersionAssumption, HalfAssumption, SMT DEF IInv, TypeOK, Versions
    <3> QED BY <3>1, NoneAssumption
  <2>4. \A q \in Readers : reader'[q] = IF q = r THEN current ELSE reader[q]
    BY <2>2 DEF IInv, TypeOK
  <2>5. \A u : View(u)' = View(u)
    BY <2>2 DEF View
  <2>6. ASSUME NEW q \in Readers
        PROVE  (IF reader[q] = None THEN None ELSE View(reader[q]))'
                 = IF q = r THEN View(current)
                   ELSE IF reader[q] = None THEN None ELSE View(reader[q])
    <3>1. CASE q = r
      <4>1. View(reader[q])' = View(current)
        BY <2>2, <2>4, <3>1, SMT DEF View
      <4> QED BY <2>3, <2>4, <3>1, <4>1
    <3>2. CASE q # r
      <4>1. View(reader[q])' = View(reader[q])
        BY <2>2, <2>4, <3>2, SMT DEF View
      <4> QED BY <2>4, <3>2, <4>1
    <3> QED BY <3>1, <3>2
  <2>7. Snap = [q \in Readers |-> Snap[q]] /\ Snap' = [q \in Readers |-> Snap'[q]]
    BY DEF Snap
  <2>8. \A q \in Readers : Snap'[q] = IF q = r THEN View(current) ELSE Snap[q]
    BY <2>6 DEF Snap
  <2> DEFINE a == Snap
             b == Snap'
  <2>9. /\ a = [q \in Readers |-> a[q]] /\ b = [q \in Readers |-> b[q]]
        /\ \A q \in Readers : q # r => b[q] = a[q]
        /\ b[r] = View(current)
    BY <2>7, <2>8
  <2> HIDE DEF a, b
  <2>10. b = [a EXCEPT ![r] = b[r]]
    BY <2>9, DifferAt
  <2>11. b = [a EXCEPT ![r] = View(current)]
    BY <2>9, <2>10
  <2> QED BY <2>1, <2>11 DEF a, b
<1> QED BY <1>1, <1>2, <1>3, <1>4 DEF IInv, Store!Read, Copy, Snap

\* A reader forgets its snapshot.
LEMMA EndReadStep ==
    ASSUME IInv, NEW r \in Readers, EndRead(r)
    PROVE  IInv' /\ Store!EndRead(r)
<1>1. TypeOK'
  BY DEF EndRead, IInv, TypeOK, Option
<1>2. HistoriesInOrder'
  BY DEF EndRead, IInv, HistoriesInOrder
<1>3. UNCHANGED <<View(current), lock, Copy>>
  BY DEF EndRead, View, Copy
<1>4. Snap' = [Snap EXCEPT ![r] = None]
  BY DEF EndRead, Snap, View, IInv, TypeOK
<1> QED BY <1>1, <1>2, <1>3, <1>4 DEF IInv, Store!EndRead, Copy, Snap

\* The next version, as long as nothing has been written, is the current one.
LEMMA CleanView ==
    ASSUME IInv, ~ (lock # None /\ wz[lock].dirty)
    PROVE  View(current + 1) = View(current)
<1>1. /\ current + 1 < Half
      /\ \A k \in Keys : Good(rr[k], RRsets, current)
      /\ \A n \in Names : Good(special[n], SpecialValues, current)
  BY Goods
<1>2. /\ \A k \in Keys : Get(rr[k], current + 1) = Get(rr[k], current)
      /\ \A n \in Names : Get(special[n], current + 1) = Get(special[n], current)
  BY <1>1, GetNext
<1> QED BY <1>2 DEF View

\* A writer that gets the lock gets a copy of the zone.
LEMMA WriteStep ==
    ASSUME IInv, NEW w \in Writers, Write(w)
    PROVE  IInv' /\ Store!Write(w)
<1>1. /\ lock = None /\ lock' = w /\ w # None
      /\ wz' = [wz EXCEPT ![w] = NewZone(current)]
      /\ UNCHANGED <<rr, special, exists, current, reader>>
  BY NoneAssumption DEF Write
<1>2. current \in 0 .. MaxVersion /\ wz \in [Writers -> Option(WriteZones)]
  BY DEF IInv, TypeOK
<1>3. NewZone(current) \in WriteZones /\ NewZone(current).new = current + 1
      /\ ~ NewZone(current).dirty /\ NewZone(current) \in Option(WriteZones)
  BY <1>2, NewZoneType DEF Option
<1>4. /\ wz' \in [Writers -> Option(WriteZones)]
      /\ \A o \in Writers : wz'[o] = IF o = w THEN NewZone(current) ELSE wz[o]
  BY <1>1, <1>2, <1>3
<1>5. \A o \in Writers : wz[o] = None
  BY <1>1, NoneAssumption DEF IInv, TypeOK
<1>6. TypeOK'
  BY <1>1, <1>3, <1>4, <1>5 DEF IInv, TypeOK, Option
<1>7. HistoriesInOrder'
  BY <1>1, <1>3, <1>4 DEF IInv, HistoriesInOrder
<1>8. UNCHANGED <<View(current), Snap>>
  BY <1>1 DEF View, Snap
<1>9. Copy' = View(current)
  <2>1. wz'[lock'].new = current + 1
    BY <1>1, <1>3, <1>4
  <2>2. Copy' = View(current + 1)
    BY <1>1, <2>1, SMT DEF Copy, View
  <2> QED BY <1>1, <2>2, CleanView
<1> QED BY <1>1, <1>6, <1>7, <1>8, <1>9 DEF IInv, Store!Write, Copy, Snap

\* open changes neither the zone nor the copy.
LEMMA OpenStep ==
    ASSUME IInv, NEW w \in Writers, NEW d, Open(w, d)
    PROVE  IInv' /\ UNCHANGED <<View(current), lock, Copy, Snap>>
<1> DEFINE z == [new  |-> wz[w].new, dirty |-> TRUE, open |-> TRUE,
                 diff |-> IF d THEN NoDiff ELSE None]
<1>1. /\ lock = w /\ wz' = [wz EXCEPT ![w] = z]
      /\ UNCHANGED <<rr, special, exists, current, lock, reader>>
  BY DEF Open
<1>2. lock # None /\ wz[w] \in WriteZones /\ wz[w].new = current + 1
  BY <1>1, Owner
<1>3. NoDiff \in DiffBuilders
  BY DEF NoDiff, DiffBuilders, Option
<1>4. z \in WriteZones /\ z.new = current + 1 /\ z.dirty
  BY <1>2, <1>3 DEF WriteZones, Option
<1> HIDE DEF z
<1>5. wz \in [Writers -> Option(WriteZones)] /\ z \in Option(WriteZones)
  BY <1>4 DEF IInv, TypeOK, Option
<1>6. /\ wz' \in [Writers -> Option(WriteZones)]
      /\ \A o \in Writers : wz'[o] = IF o = w THEN z ELSE wz[o]
  BY <1>1, <1>5
<1>7. TypeOK'
  BY <1>1, <1>4, <1>6 DEF IInv, TypeOK
<1>8. HistoriesInOrder'
  <2>1. lock' # None /\ wz'[lock'].dirty
    BY <1>1, <1>2, <1>4, <1>6
  <2>2. /\ \A k \in Keys : UpTo(rr[k], current + 1)
        /\ \A n \in Names : UpTo(special[n], current + 1)
    BY Goods DEF Good
  <2> QED BY <1>1, <2>1, <2>2 DEF HistoriesInOrder
<1>9. UNCHANGED <<View(current), Snap>>
  BY <1>1 DEF View, Snap
<1>10. wz'[lock'].new = wz[lock].new
  BY <1>1, <1>2, <1>4, <1>6
<1>11. Copy' = Copy
  BY <1>1, <1>10 DEF Copy, View
<1> QED BY <1>1, <1>7, <1>8, <1>9, <1>11 DEF IInv

\* Rolling back the version after the current one leaves what older ones show.
LEMMA DropViews ==
    ASSUME IInv, NEW w \in Writers, DropWriter(w)
    PROVE  /\ \A k \in Keys : /\ Good(rr'[k], RRsets, current)
                              /\ \A u \in 0 .. current : Get(rr'[k], u) = Get(rr[k], u)
           /\ \A n \in Names : /\ Good(special'[n], SpecialValues, current)
                               /\ \A u \in 0 .. current : Get(special'[n], u) = Get(special[n], u)
           /\ rr'[<<Apex, SOA>>] \in Histories(SoaSets)
           /\ rr' = [k \in Keys |-> rr'[k]] /\ special' = [n \in Names |-> special'[n]]
<1> DEFINE v == current + 1
<1>1. lock = w /\ lock # None /\ wz[w].new = v
  BY Owner DEF DropWriter
<1>2. current \in Nat /\ v > 0 /\ v - 1 = current
  BY Goods, SMT
<1>3. /\ rr \in [Keys -> Histories(RRsets)]
      /\ special \in [Names -> Histories(SpecialValues)]
      /\ wz \in [Writers -> Option(WriteZones)]
  BY DEF IInv, TypeOK
<1>4. /\ lock' = None
      /\ wz' = [wz EXCEPT ![w] = None]
      /\ UNCHANGED <<exists, current, reader>>
      /\ rr' = IF wz[w].dirty THEN [k \in Keys |-> Rollback(rr[k], v)] ELSE rr
      /\ special' = IF wz[w].dirty THEN [n \in Names |-> Rollback(special[n], v)]
                    ELSE special
  BY <1>1 DEF DropWriter
<1>5. /\ \A k \in Keys : Good(rr[k], RRsets, v)
      /\ \A n \in Names : Good(special[n], SpecialValues, v)
      /\ Good(rr[<<Apex, SOA>>], SoaSets, v) /\ <<Apex, SOA>> \in Keys
  BY Goods, SoaGood
<1>6. ~ wz[w].dirty => /\ \A k \in Keys : Good(rr[k], RRsets, current)
                       /\ \A n \in Names : Good(special[n], SpecialValues, current)
  BY <1>1, Goods
<1> HIDE DEF v
<1>7. /\ \A k \in Keys : /\ Good(rr'[k], RRsets, current)
                         /\ \A u \in 0 .. current : Get(rr'[k], u) = Get(rr[k], u)
      /\ \A n \in Names : /\ Good(special'[n], SpecialValues, current)
                          /\ \A u \in 0 .. current : Get(special'[n], u) = Get(special[n], u)
      /\ rr'[<<Apex, SOA>>] \in Histories(SoaSets)
      /\ rr' = [k \in Keys |-> rr'[k]] /\ special' = [n \in Names |-> special'[n]]
  <2>1. CASE wz[w].dirty
    <3>1. /\ \A k \in Keys : /\ Good(Rollback(rr[k], v), RRsets, v - 1)
                             /\ \A u \in 0 .. v - 1 : Get(Rollback(rr[k], v), u) = Get(rr[k], u)
          /\ \A n \in Names : /\ Good(Rollback(special[n], v), SpecialValues, v - 1)
                              /\ \A u \in 0 .. v - 1 :
                                    Get(Rollback(special[n], v), u) = Get(special[n], u)
      <4>1. ASSUME NEW X, NEW h, Good(h, X, v)
            PROVE  /\ Good(Rollback(h, v), X, v - 1)
                   /\ \A u \in 0 .. v - 1 : Get(Rollback(h, v), u) = Get(h, u)
        BY <1>2, <4>1, RollbackGood, SMT
      <4> QED BY <1>5, <4>1
    <3>2. Rollback(rr[<<Apex, SOA>>], v) \in Histories(SoaSets)
      BY <1>2, <1>5, RollbackGood DEF Good
    <3> QED BY ONLY <1>2, <1>4, <1>5, <2>1, <3>1, <3>2
  <2>2. CASE ~ wz[w].dirty
    BY ONLY <1>3, <1>4, <1>5, <1>6, <2>2 DEF Good
  <2> QED BY ONLY <2>1, <2>2
<1> QED BY <1>7

\* Dropping the writer ends its copy.
LEMMA DropStep ==
    ASSUME IInv, NEW w \in Writers, DropWriter(w)
    PROVE  IInv' /\ Store!EndWrite
<1> DEFINE v == current + 1
<1>1. lock = w /\ lock # None /\ wz[w].new = v
  BY Owner DEF DropWriter
<1>2. current \in Nat /\ v > 0 /\ v - 1 = current
  BY Goods, SMT
<1>3. /\ rr \in [Keys -> Histories(RRsets)]
      /\ special \in [Names -> Histories(SpecialValues)]
      /\ wz \in [Writers -> Option(WriteZones)]
  BY DEF IInv, TypeOK
<1>4. /\ lock' = None
      /\ wz' = [wz EXCEPT ![w] = None]
      /\ UNCHANGED <<exists, current, reader>>
      /\ rr' = IF wz[w].dirty THEN [k \in Keys |-> Rollback(rr[k], v)] ELSE rr
      /\ special' = IF wz[w].dirty THEN [n \in Names |-> Rollback(special[n], v)]
                    ELSE special
  BY <1>1 DEF DropWriter
<1>5. /\ \A k \in Keys : Good(rr[k], RRsets, v)
      /\ \A n \in Names : Good(special[n], SpecialValues, v)
      /\ Good(rr[<<Apex, SOA>>], SoaSets, v) /\ <<Apex, SOA>> \in Keys
  BY Goods, SoaGood
<1>6. ~ wz[w].dirty => /\ \A k \in Keys : Good(rr[k], RRsets, current)
                       /\ \A n \in Names : Good(special[n], SpecialValues, current)
  BY <1>1, Goods
<1> HIDE DEF v
<1>7. /\ \A k \in Keys : /\ Good(rr'[k], RRsets, current)
                         /\ \A u \in 0 .. current : Get(rr'[k], u) = Get(rr[k], u)
      /\ \A n \in Names : /\ Good(special'[n], SpecialValues, current)
                          /\ \A u \in 0 .. current : Get(special'[n], u) = Get(special[n], u)
      /\ rr'[<<Apex, SOA>>] \in Histories(SoaSets)
      /\ rr' = [k \in Keys |-> rr'[k]] /\ special' = [n \in Names |-> special'[n]]
  BY DropViews
<1>8. \A k \in Keys : rr'[k] \in Histories(RRsets)
  BY <1>7 DEF Good
<1>9. \A n \in Names : special'[n] \in Histories(SpecialValues)
  BY <1>7 DEF Good
<1>10. /\ wz' \in [Writers -> Option(WriteZones)]
       /\ \A o \in Writers : wz'[o] = None
  <2>1. \A o \in Writers \ {w} : wz[o] = None
    BY <1>1 DEF IInv, TypeOK
  <2> QED BY <1>3, <1>4, <2>1 DEF Option
<1>11. TypeOK'
  BY <1>4, <1>7, <1>8, <1>9, <1>10, NoneAssumption DEF IInv, TypeOK, Option
<1>12. HistoriesInOrder'
  BY <1>4, <1>7 DEF HistoriesInOrder, Good
<1>13. \A u \in Nat : u <= current => View(u)' = View(u)
  BY <1>2, <1>7, SMT DEF View
<1>14. View(current)' = View(current)
  <2>1. \A k \in Keys : Get(rr'[k], current) = Get(rr[k], current)
    BY <1>2, <1>7, SMT
  <2>2. \A n \in Names : Get(special'[n], current) = Get(special[n], current)
    BY <1>2, <1>7, SMT
  <2> QED BY <1>4, <2>1, <2>2 DEF View
<1>15. Snap' = Snap
  BY <1>4, <1>13, SnapSame
<1>16. Copy' = None
  BY ONLY <1>4 DEF Copy
<1> QED BY ONLY <1>1, <1>4, <1>11, <1>12, <1>14, <1>15, <1>16 DEF IInv, Store!EndWrite, Copy, Snap

\* The SOA RRset commit adds is one of the version after the current one.
LEMMA BumpEdits ==
    ASSUME IInv, NEW w \in Writers, lock = w, NEW b, Bumped(w, b), NEW g,
           g = Update(rr[<<Apex, SOA>>], current + 1, NextSoa(Soa(current)))
    PROVE  /\ Edited(rr[<<Apex, SOA>>], g, RRsets, current + 1)
           /\ g \in Histories(SoaSets)
           /\ Get(g, current + 1) \in RRsets
           /\ Soa(current + 1) \in {None, Soa(current)}
<1> DEFINE v == current + 1
           h == rr[<<Apex, SOA>>]
           x == NextSoa(Soa(current))
<1>1. wz[w].new = v /\ v > 0
  BY Owner, NewVersion
<1>2. Soa(current) # None /\ Soa(v) \in {None, Soa(current)}
  BY <1>1 DEF Bumped
<1>3. Good(h, SoaSets, v) /\ Good(h, RRsets, v)
  BY SoaGood, Goods
<1>4. Soa(current) \in SoaSets
  BY <1>2, <1>3, GetType DEF Soa, Option, Good
<1>5. PICK s \in Versions : Soa(current) = {s}
  BY <1>4 DEF SoaSets
<1>6. NextVersion(s) \in Versions
  BY <1>5, HalfAssumption, SMT DEF Versions, NextVersion
<1>7. x = {NextVersion(s)}
  BY <1>5 DEF NextSoa
<1>8. x \in SoaSets
  BY ONLY <1>6, <1>7 DEF SoaSets
<1>9. x \in RRsets /\ x \in Option(RRsets) /\ x \in Option(SoaSets)
  BY <1>8 DEF RRsets, Option
<1>10. g = Update(h, v, x)
  OBVIOUS
<1> HIDE DEF v, h, x
<1>11. Edited(h, g, RRsets, v) /\ Get(g, v) = x
  <2>1. Edited(h, Update(h, v, x), RRsets, v)
    BY ONLY <1>1, <1>3, <1>9, EditedUpdate
  <2>2. Get(Update(h, v, x), v) = x
    BY ONLY <1>1, <1>3, <1>9, UpdateGood
  <2> QED
    BY ONLY <1>10, <2>1, <2>2
<1>12. g \in Histories(SoaSets)
  <2>1. Good(Update(h, v, x), SoaSets, v)
    BY ONLY <1>1, <1>3, <1>9, UpdateGood
  <2> QED
    BY ONLY <1>10, <2>1 DEF Good
<1> QED BY <1>2, <1>9, <1>11, <1>12 DEF v, h

\* What a commit does to the histories and to the version after the current one.
LEMMA CommitEdits ==
    ASSUME IInv, NEW w \in Writers, NEW b, Commit(w, b)
    PROVE  /\ Edits(rr, rr', Keys, RRsets, current + 1)
           /\ rr'[<<Apex, SOA>>] \in Histories(SoaSets)
           /\ \/ rr' = rr
              \/ /\ \A k \in Keys : k # <<Apex, SOA>> => rr'[k] = rr[k]
                 /\ Get(rr'[<<Apex, SOA>>], current + 1) \in RRsets
                 /\ Soa(current + 1) \in {None, Soa(current)}
<1>1. lock = w /\ wz[w].new = current + 1
  BY Owner DEF Commit
<1>2. rr \in [Keys -> Histories(RRsets)] /\ rr[<<Apex, SOA>>] \in Histories(SoaSets)
  BY DEF IInv, TypeOK
<1>3. \A k \in Keys : Edited(rr[k], rr[k], RRsets, current + 1)
  BY Goods, EditedSame
<1>4. CASE ~ Bumped(w, b)
  <2>1. rr' = rr
    BY <1>4 DEF Commit
  <2> QED BY <1>2, <1>3, <2>1 DEF Edits
<1>5. CASE Bumped(w, b)
  <2> DEFINE g == Update(rr[<<Apex, SOA>>], current + 1, NextSoa(Soa(current)))
  <2>1. /\ Edited(rr[<<Apex, SOA>>], g, RRsets, current + 1)
        /\ g \in Histories(SoaSets)
        /\ Get(g, current + 1) \in RRsets
        /\ Soa(current + 1) \in {None, Soa(current)}
    BY <1>1, <1>5, BumpEdits
  <2>2. rr' = [rr EXCEPT ![<<Apex, SOA>>] = g]
    BY <1>1, <1>5 DEF Commit
  <2> HIDE DEF g
  <2>3. g \in Histories(RRsets)
    BY <2>1 DEF Edited, Good
  <2>4. <<Apex, SOA>> \in Keys
    BY SoaGood
  <2>5. /\ rr' \in [Keys -> Histories(RRsets)]
        /\ \A k \in Keys : rr'[k] = IF k = <<Apex, SOA>> THEN g ELSE rr[k]
    BY <1>2, <2>2, <2>3
  <2> QED BY <1>3, <2>1, <2>4, <2>5 DEF Edits
<1> QED BY <1>4, <1>5

\* commit replaces the zone by the writer's copy at once, the SOA it bumps included.
LEMMA CommitStep ==
    ASSUME IInv, NEW w \in Writers, NEW b, Commit(w, b)
    PROVE  IInv' /\ Store!Commit
<1> DEFINE v == current + 1
<1>1. lock = w /\ lock # None /\ wz[w].new = v
  BY Owner DEF Commit
<1>2. current \in Nat /\ v \in 0 .. MaxVersion /\ v < Half /\ v + 1 < Half
  BY VersionAssumption, HalfAssumption, SMT DEF IInv, TypeOK, Commit
<1>3. /\ lock' = lock /\ current' = v /\ reader' = reader /\ special' = special
      /\ exists' = exists /\ wz' = [wz EXCEPT ![w] = NewZone(v)]
  BY <1>1 DEF Commit
<1>4. NewZone(v) \in WriteZones /\ NewZone(v).new = v + 1 /\ ~ NewZone(v).dirty
      /\ NewZone(v) \in Option(WriteZones)
  BY <1>2, NewZoneType DEF Option
<1>5. wz \in [Writers -> Option(WriteZones)]
      /\ special \in [Names -> Histories(SpecialValues)]
  BY DEF IInv, TypeOK
<1>6. /\ wz' \in [Writers -> Option(WriteZones)]
      /\ \A o \in Writers : wz'[o] = IF o = w THEN NewZone(v) ELSE wz[o]
  BY <1>3, <1>4, <1>5
<1>7. /\ Edits(rr, rr', Keys, RRsets, v)
      /\ rr'[<<Apex, SOA>>] \in Histories(SoaSets)
      /\ \/ rr' = rr
         \/ /\ \A k \in Keys : k # <<Apex, SOA>> => rr'[k] = rr[k]
            /\ Get(rr'[<<Apex, SOA>>], v) \in RRsets
            /\ Soa(v) \in {None, Soa(current)}
  BY CommitEdits
<1>8. \A n \in Names : Good(special[n], SpecialValues, v)
  BY Goods
<1>9. TypeOK'
  <2>1. \A r \in Readers : reader'[r] # None => reader'[r] <= current'
    <3>1. \A r \in Readers : reader[r] # None => reader[r] \in 0 .. MaxVersion /\ reader[r] <= current
      BY DEF IInv, TypeOK, Option
    <3> QED
      BY <1>2, <1>3, <3>1, SMT
  <2>2. \A o \in Writers : IF o = lock' THEN wz'[o] \in WriteZones /\ wz'[o].new = current' + 1
                           ELSE wz'[o] = None
    BY <1>1, <1>3, <1>4, <1>6 DEF IInv, TypeOK
  <2>3. /\ rr' \in [Keys -> Histories(RRsets)]
        /\ current' \in 0 .. MaxVersion
        /\ special' \in [Names -> Histories(SpecialValues)]
    BY ONLY <1>2, <1>3, <1>5, <1>7 DEF Edits
  <2> QED BY <1>3, <1>6, <1>7, <2>1, <2>2, <2>3 DEF IInv, TypeOK
<1>10. \A k \in Keys : Good(rr'[k], RRsets, v)
  BY <1>7 DEF Edits, Edited
<1>11. HistoriesInOrder'
  <2>1. ~ (lock' # None /\ wz'[lock'].dirty)
    BY <1>1, <1>3, <1>4, <1>6
  <2> QED BY <1>3, <1>8, <1>10, <2>1 DEF HistoriesInOrder, Good
<1> HIDE DEF v
<1>12. \A u \in Nat : u <= current => View(u)' = View(u)
  <2>1. \A u \in Nat, k \in Keys : u <= current => Get(rr'[k], u) = Get(rr[k], u)
    BY <1>2, <1>7, SMT DEF Edits, Edited, v
  <2> QED BY <1>3, <2>1 DEF View
<1>13. Snap' = Snap
  BY <1>3, <1>12, SnapSame
<1>14. View(current)' = [rr   |-> [k \in Keys |-> Get(rr'[k], v)],
                         role |-> [n \in Names |-> Role(Get(special[n], v))]]
  BY ONLY <1>3 DEF View
<1>15. Copy' = View(current)'
  <2>1. lock' # None /\ wz'[lock'].new = v + 1
    BY ONLY <1>1, <1>3, <1>4, <1>6
  <2>2. Copy' = [rr   |-> [k \in Keys |-> Get(rr'[k], v + 1)],
                 role |-> [n \in Names |-> Role(Get(special[n], v + 1))]]
    BY ONLY <1>3, <2>1 DEF Copy, View
  <2>3. /\ \A k \in Keys : Get(rr'[k], v + 1) = Get(rr'[k], v)
        /\ \A n \in Names : Get(special[n], v + 1) = Get(special[n], v)
    BY <1>2, <1>8, <1>10, GetNext
  <2> QED BY <1>14, <2>2, <2>3
<1>16. Copy = View(v)
  BY <1>1 DEF Copy
<1>17. CASE rr' = rr
  <2>1. View(current)' = Copy
    BY <1>14, <1>16, <1>17 DEF View
  <2> QED BY ONLY <1>1, <1>3, <1>9, <1>11, <1>13, <1>15, <2>1 DEF IInv, Store!Commit, Copy, Snap
<1>18. CASE /\ \A k \in Keys : k # <<Apex, SOA>> => rr'[k] = rr[k]
            /\ Get(rr'[<<Apex, SOA>>], v) \in RRsets
            /\ Soa(v) \in {None, Soa(current)}
  <2> DEFINE a == [k \in Keys |-> Get(rr[k], v)]
             c == [k \in Keys |-> Get(rr'[k], v)]
             p == [n \in Names |-> Role(Get(special[n], v))]
             l == <<Apex, SOA>>
  <2>1. l \in Keys
    BY SoaGood
  <2>2. /\ a = [k \in Keys |-> a[k]] /\ c = [k \in Keys |-> c[k]]
        /\ \A k \in Keys : k # l => c[k] = a[k]
    BY <1>18
  <2>3. c[l] \in RRsets /\ c[l] # None
    <3>1. c[l] \in RRsets
      BY ONLY <1>18, <2>1
    <3> QED BY <3>1, NoneAssumption
  <2>4. View(v) = [rr |-> a, role |-> p] /\ View(current)' = [rr |-> c, role |-> p]
    BY ONLY <1>14 DEF View
  <2>5. a[l] \in {None, View(current).rr[l]}
    BY <1>18, <2>1 DEF View, Soa
  <2> HIDE DEF a, c, p, l
  <2>6. c = [a EXCEPT ![l] = c[l]]
    BY <2>1, <2>2, DifferAt
  <2>7. (View(current)').rr = c /\ Copy.rr = a /\ Copy.role = p
    BY <1>16, <2>4, SMT
  <2>8. /\ Copy.rr[l] \in {None, View(current).rr[l]}
        /\ (View(current)').rr[l] # None /\ (View(current)').rr[l] \in RRsets
        /\ View(current)' = [rr |-> [Copy.rr EXCEPT ![l] = (View(current)').rr[l]],
                             role |-> Copy.role]
    BY <2>3, <2>4, <2>5, <2>6, <2>7
  <2> QED BY <1>1, <1>3, <1>9, <1>11, <1>13, <1>15, <2>8
          DEF IInv, Store!Commit, Store!WithRRset, Copy, Snap, l
<1> QED BY <1>7, <1>17, <1>18

\* Every edit is an edit of the copy.
LEMMA EditRefines ==
    ASSUME IInv, NEW w \in Writers, EditNext(w)
    PROVE  /\ IInv'
           /\ Store!Next
<1>1. ASSUME NEW n \in Names,
             \/ UpdateChild(w, n)
             \/ MakeRegular(w, n)
             \/ \E s \in Specials : MakeSpecial(w, n, s)
      PROVE  IInv' /\ Store!SetRole(n)
  <2>1. /\ EditStep(w)
        /\ rr' = rr
        /\ \A m \in Names \ {n} :
              Role(Get(special'[m], current + 1)) = Role(Get(special[m], current + 1))
    BY <1>1, RoleStep
  <2>2. IInv'
    BY <2>1, EditInv
  <2>3. /\ View(current)' = View(current)
        /\ lock' = lock /\ lock # None
        /\ Snap' = Snap
        /\ Copy = View(current + 1)
        /\ Copy' = View(current + 1)'
    BY <2>1, EditFrame
  <2>4. Copy' = PutRole(Copy, n, (Copy').role[n])
    BY <2>1, <2>3, RoleRefines DEF PutRole
  <2>5. (Copy').role[n] \in {"regular"} \cup Specials
    <3>1. View(current + 1)' = [rr   |-> [k \in Keys |-> Get(rr'[k], current' + 1)],
                                role |-> [m \in Names |-> Role(Get(special'[m], current' + 1))]]
      BY DEF View
    <3> QED BY <2>3, <3>1, SMT DEF Role
  <2> QED BY ONLY <2>2, <2>3, <2>4, <2>5
          DEF Store!SetRole, Store!Editing, Store!WithRole, PutRole, Copy, Snap
<1>2. ASSUME NEW n \in Names, NEW t \in Types,
             \/ RemoveRRset(w, n, t)
             \/ \E x \in NewRRsets(t) : UpdateRRset(w, n, t, x)
      PROVE  IInv' /\ Store!SetRRset(n, t)
  <2>1. /\ EditStep(w)
        /\ View(current + 1)' =
             PutRRset(View(current + 1), n, t, (View(current + 1)').rr[<<n, t>>])
    BY <1>2, RRsetEdit
  <2>2. IInv'
    BY <2>1, EditInv
  <2>3. /\ View(current)' = View(current)
        /\ lock' = lock /\ lock # None
        /\ Snap' = Snap
        /\ Copy = View(current + 1)
        /\ Copy' = View(current + 1)'
    BY <2>1, EditFrame
  <2>4. Copy' = PutRRset(Copy, n, t, (Copy').rr[<<n, t>>])
    BY ONLY <2>1, <2>3
  <2>5. (Copy').rr[<<n, t>>] \in {None} \cup RRsets
    <3>1. View(current + 1)' = [rr   |-> [k \in Keys |-> Get(rr'[k], current' + 1)],
                                role |-> [m \in Names |-> Role(Get(special'[m], current' + 1))]]
      BY DEF View
    <3>2. <<n, t>> \in Keys
      BY DEF Keys
    <3>3. rr'[<<n, t>>] \in Histories(RRsets)
      BY <2>2, <3>2 DEF IInv, TypeOK
    <3>4. Get(rr'[<<n, t>>], current' + 1) \in Option(RRsets)
      BY <3>3, GetType
    <3> QED BY <2>3, <3>1, <3>2, <3>4, SMT DEF Option
  <2> QED BY ONLY <2>2, <2>3, <2>4, <2>5
          DEF Store!SetRRset, Store!Editing, Store!WithRRset, PutRRset, Copy, Snap
<1>3. ASSUME NEW n \in Names, RemoveAll(w, n) PROVE IInv' /\ Store!RemoveAll(n)
  <2>1. /\ EditStep(w)
        /\ View(current + 1)' =
             [rr   |-> [k \in Keys |-> IF k[1] \in Below[n] THEN None
                                       ELSE View(current + 1).rr[k]],
              role |-> [m \in Names |-> IF m \in Below[n] THEN "regular"
                                        ELSE View(current + 1).role[m]]]
    BY <1>3, RemoveAllStep
  <2>2. IInv'
    BY <2>1, EditInv
  <2>3. /\ View(current)' = View(current)
        /\ lock' = lock /\ lock # None
        /\ Snap' = Snap
        /\ Copy = View(current + 1)
        /\ Copy' = View(current + 1)'
    BY <2>1, EditFrame
  <2>4. Copy' = [rr   |-> [k \in Names \X Types |-> IF k[1] \in Below[n] THEN None
                                                    ELSE Copy.rr[k]],
                 role |-> [m \in Names |-> IF m \in Below[n] THEN "regular"
                                           ELSE Copy.role[m]]]
    BY <2>1, <2>3 DEF Keys
  <2> QED BY ONLY <2>2, <2>3, <2>4 DEF Store!RemoveAll, Store!Editing, Copy, Snap
<1>4. ASSUME NEW k \in Editable PROVE k[1] \in Names /\ k[2] \in Types
  BY NamesAssumption
<1> QED BY <1>1, <1>2, <1>3, <1>4 DEF EditNext, Store!Next

------------------------------------------------------------------------------

\* The zone ZoneBuilder makes.
LEMMA InitOK == Init => IInv
<1> SUFFICES ASSUME Init PROVE IInv
  OBVIOUS
<1>1. PICK c \in Initial :
        /\ rr = [k \in Keys |-> IF c.rr[k] = None THEN << >> ELSE <<Item(0, c.rr[k])>>]
        /\ special = [n \in Names |-> IF c.role[n] = "none" \/ n = Apex THEN << >>
                                      ELSE <<Item(0, c.role[n])>>]
        /\ exists \in SUBSET (Names \ {Apex})
  BY DEF Init
<1>2. /\ c.rr \in [Keys -> Option(RRsets)]
      /\ c.rr[<<Apex, SOA>>] \in Option(SoaSets)
      /\ c.role \in [Names -> {"none"} \cup Specials]
  BY InitialAssumption
<1>3. ASSUME NEW X, NEW x \in X
      PROVE  <<Item(0, x)>> \in Histories(X) /\ UpTo(<<Item(0, x)>>, 0)
  <2>1. Item(0, x) \in Items(X)
    BY HalfAssumption, SMT DEF Item, Items, Versions, Option
  <2>2. <<Item(0, x)>> \in Histories(X)
    BY <2>1, SMT DEF Histories
  <2>3. UpTo(<<Item(0, x)>>, 0)
    BY SMT DEF UpTo, Item
  <2> QED BY <2>2, <2>3
<1>4. ASSUME NEW X PROVE << >> \in Histories(X) /\ UpTo(<< >>, 0)
  BY SMT DEF Histories, UpTo
<1>5. \A k \in Keys : rr[k] \in Histories(RRsets) /\ UpTo(rr[k], 0)
  <2>1. \A k \in Keys : c.rr[k] = None \/ c.rr[k] \in RRsets
    BY <1>2 DEF Option
  <2> QED BY <1>1, <1>3, <1>4, <2>1
<1>6. rr[<<Apex, SOA>>] \in Histories(SoaSets)
  <2>1. c.rr[<<Apex, SOA>>] = None \/ c.rr[<<Apex, SOA>>] \in SoaSets
    BY <1>2 DEF Option
  <2>2. <<Apex, SOA>> \in Keys
    BY NamesAssumption DEF Keys
  <2> QED BY <1>1, <1>3, <1>4, <2>1, <2>2
<1>7. \A n \in Names : special[n] \in Histories(SpecialValues) /\ UpTo(special[n], 0)
  <2>1. \A n \in Names : c.role[n] = "none" \/ c.role[n] \in SpecialValues
    BY <1>2 DEF SpecialValues
  <2> QED BY <1>1, <1>3, <1>4, <2>1
<1>8. /\ rr \in [Keys -> Histories(RRsets)]
      /\ special \in [Names -> Histories(SpecialValues)]
  BY ONLY <1>1, <1>5, <1>7
<1>9. TypeOK
  BY <1>1, <1>6, <1>8, VersionAssumption, NoneAssumption, SMT DEF TypeOK, Init, Option
<1>10. HistoriesInOrder
  BY <1>5, <1>7 DEF HistoriesInOrder, Init
<1> QED BY <1>9, <1>10 DEF IInv

\* The initial zone is one.
LEMMA InitRefines ==
    ASSUME Init PROVE Store!Init
<1>1. IInv
  BY InitOK
<1>2. /\ View(current).rr \in [Keys -> Option(RRsets)]
      /\ View(current).role \in [Names -> {"regular"} \cup Specials]
  BY <1>1, ViewType
<1>3. View(current) = [rr |-> View(current).rr, role |-> View(current).role]
  BY DEF View
<1>4. View(current) \in [rr   : [Names \X Types -> {None} \cup RRsets],
                         role : [Names -> {"regular"} \cup Specials]]
  BY <1>2, <1>3 DEF Keys, Option
<1>5. lock = None /\ Copy = None /\ Snap = [r \in Readers |-> None]
  BY DEF Init, Copy, Snap
<1> QED BY <1>4, <1>5 DEF Store!Init, Store!Contents, Copy, Snap

\* Every step keeps the invariant and is a step, or no step, of the abstract store.
LEMMA StepOK ==
    IInv /\ [Next]_vars => IInv' /\ [Store!Next]_<<View(current), lock, Copy, Snap>>
<1> SUFFICES ASSUME IInv, [Next]_vars
             PROVE  IInv' /\ [Store!Next]_<<View(current), lock, Copy, Snap>>
  OBVIOUS
<1>1. ASSUME NEW r \in Readers, Read(r) PROVE IInv' /\ Store!Next
  BY <1>1, ReadStep DEF Store!Next
<1>2. ASSUME NEW r \in Readers, EndRead(r) PROVE IInv' /\ Store!Next
  BY <1>2, EndReadStep DEF Store!Next
<1>3. ASSUME NEW w \in Writers, Write(w) PROVE IInv' /\ Store!Next
  BY <1>3, WriteStep DEF Store!Next
<1>4. ASSUME NEW w \in Writers, NEW d \in Diffs, Open(w, d)
      PROVE  IInv' /\ UNCHANGED <<View(current), lock, Copy, Snap>>
  BY <1>4, OpenStep
<1>5. ASSUME NEW w \in Writers, EditNext(w) PROVE IInv' /\ Store!Next
  BY <1>5, EditRefines
<1>6. ASSUME NEW w \in Writers, NEW b \in Bumps, Commit(w, b) PROVE IInv' /\ Store!Next
  BY <1>6, CommitStep DEF Store!Next
<1>7. ASSUME NEW w \in Writers, DropWriter(w) PROVE IInv' /\ Store!Next
  BY <1>7, DropStep DEF Store!Next
<1>8. CASE UNCHANGED vars
  <2>1. IInv'
    BY <1>8 DEF vars, IInv, TypeOK, HistoriesInOrder
  <2>2. UNCHANGED <<View(current), lock, Copy, Snap>>
    BY <1>8 DEF vars, View, Copy, Snap
  <2> QED BY ONLY <2>1, <2>2
<1> QED BY <1>1, <1>2, <1>3, <1>4, <1>5, <1>6, <1>7, <1>8 DEF Next, ReaderNext, WriterNext

\* Types are kept, one writer at a time holds the lock and writes the version after
\* the current one, and no reader has a version that is not yet committed.
THEOREM StoreTypeCorrect == Spec => []TypeOK
<1>1. IInv => TypeOK
  BY DEF IInv
<1> QED BY <1>1, InitOK, StepOK, PTL DEF Spec

\* Histories are in order: Versioned::update and rollback only ever look at the last
\* item, which this makes right.
THEOREM StoreHistoriesInOrder == Spec => []HistoriesInOrder
<1>1. IInv => HistoriesInOrder
  BY DEF IInv
<1> QED BY <1>1, InitOK, StepOK, PTL DEF Spec

\* The store implements the abstract one: snapshots for readers, a copy for the
\* writer that replaces the zone at once or is forgotten.
THEOREM StoreIsZone == Spec => IsZone
<1>1. Init => Store!Init
  BY InitRefines
<1>2. IInv /\ [Next]_vars => [Store!Next]_(Store!vars)
  BY StepOK DEF Store!vars, Copy, Snap
<1>3. IInv /\ [Next]_vars => IInv'
  BY StepOK
<1> QED BY <1>1, <1>2, <1>3, InitOK, PTL DEF Spec, IsZone, Store!Spec

------------------------------------------------------------------------------
(* Marks and RRsets: a name marked NXDOMAIN has no RRset, in any version. *)

\* The apex has no special role, and is never marked.
NxInv == NxDomainHidesNoRRset /\ special[Apex] = << >>

\* RRsets f and roles sp agree for name n and version v.
Agree(sp, f, n, v) == Get(sp[n], v) = "NxDomain" => NoRRsets(f, n, v)

\* After check_nx_domain they agree for the name it looks at; others are left alone.
LEMMA CheckAgrees ==
    ASSUME NEW v, v > 0, NEW sp \in [Names -> Histories(SpecialValues)],
           \A m \in Names : Good(sp[m], SpecialValues, v),
           NEW f, NEW n \in Names \ {Apex}
    PROVE  /\ Agree(CheckNxDomain(sp, f, n, v), f, n, v)
           /\ \A m \in Names \ {n} : CheckNxDomain(sp, f, n, v)[m] = sp[m]
<1> DEFINE s == Get(sp[n], v)
           c == CheckNxDomain(sp, f, n, v)
<1>1. CASE s = "NxDomain" /\ ~ NoRRsets(f, n, v)
  <2>1. c = [sp EXCEPT ![n] = Update(@, v, "none")]
    BY <1>1 DEF CheckNxDomain
  <2>2. "none" \in Option(SpecialValues)
    BY DEF Option, SpecialValues
  <2>3. Get(Update(sp[n], v, "none"), v) = "none"
    BY <2>2, UpdateGood, SMT
  <2>4. c[n] = Update(sp[n], v, "none") /\ \A m \in Names \ {n} : c[m] = sp[m]
    BY <2>1
  <2> HIDE DEF c
  <2>5. Get(c[n], v) # "NxDomain"
    BY <2>3, <2>4
  <2> QED BY <2>4, <2>5 DEF Agree, c
<1>2. CASE s \in {None, "none"} /\ NoRRsets(f, n, v)
  <2>1. c = [sp EXCEPT ![n] = Update(@, v, "NxDomain")]
    BY <1>2, NoneAssumption DEF CheckNxDomain, SpecialValues
  <2>2. \A m \in Names \ {n} : c[m] = sp[m]
    BY <2>1
  <2> QED BY <1>2, <2>2 DEF Agree
<1>3. CASE ~ (s = "NxDomain" /\ ~ NoRRsets(f, n, v)) /\ ~ (s \in {None, "none"} /\ NoRRsets(f, n, v))
  <2>1. c = sp
    BY <1>3 DEF CheckNxDomain
  <2> QED BY <1>3, <2>1 DEF Agree
<1> QED BY <1>1, <1>2, <1>3

\* Old versions agree as before; it is enough to look at the newest.
LEMMA OldAgree ==
    ASSUME IInv, NxInv, current' = current,
           \A k \in Keys, u \in Nat : u <= current => Get(rr'[k], u) = Get(rr[k], u),
           \A n \in Names, u \in Nat : u <= current => Get(special'[n], u) = Get(special[n], u),
           \A n \in Names : Agree(special', rr', n, current + 1)
    PROVE  NxDomainHidesNoRRset'
<1>1. current \in Nat
  BY Goods
<1>2. ASSUME NEW n \in Names, NEW u \in 0 .. current + 1, Get(special'[n], u) = "NxDomain"
      PROVE  NoRRsets(rr', n, u)
  <2>1. CASE u = current + 1
    BY <1>2, <2>1 DEF Agree
  <2>2. CASE u # current + 1
    <3>1. u \in Nat /\ u <= current
      BY <1>1, <2>2, SMT
    <3>2. NoRRsets(rr, n, u)
      BY <1>1, <1>2, <3>1 DEF NxInv, NxDomainHidesNoRRset
    <3>3. \A t \in Types : <<n, t>> \in Keys
      BY DEF Keys
    <3> QED BY <3>1, <3>2, <3>3 DEF NoRRsets
  <2> QED BY <2>1, <2>2
<1> QED BY <1>2 DEF NxDomainHidesNoRRset, NoRRsets

\* None and the apex are not marked.
LEMMA Unmarked ==
    ASSUME NxInv, NEW v
    PROVE  None # "NxDomain" /\ Get(special[Apex], v) # "NxDomain"
<1>1. None # "NxDomain"
  BY NoneAssumption DEF SpecialValues
<1>2. Get(<< >>, v) = None
  BY SMT DEF Get, Visible
<1> QED BY <1>1, <1>2 DEF NxInv

\* In the version being written the marks agree with the RRsets.
LEMMA NewAgree ==
    ASSUME IInv, NxInv PROVE \A n \in Names : Agree(special, rr, n, current + 1)
<1>1. current + 1 \in 0 .. current + 1
  BY Goods, SMT
<1> QED BY <1>1 DEF NxInv, NxDomainHidesNoRRset, Agree

\* An edit of the role of a name.
LEMMA RoleAgree ==
    ASSUME IInv, NxInv, NEW w \in Writers, NEW n \in Names,
           \/ UpdateChild(w, n)
           \/ MakeRegular(w, n)
           \/ \E s \in Specials : MakeSpecial(w, n, s)
    PROVE  /\ special'[Apex] = << >>
           /\ \A m \in Names : Agree(special', rr', m, current + 1)
<1> DEFINE v == current + 1
<1>1. EditStep(w) /\ rr' = rr
  BY RoleStep
<1>2. lock = w /\ wz[w].new = v /\ v > 0
  <2>1. lock = w
    BY ONLY <1>1 DEF EditStep
  <2> QED
    BY <2>1, Owner, NewVersion
<1>3. n # Apex
  BY DEF UpdateChild, MakeRegular, MakeSpecial
<1>4. \A m \in Names : Agree(special, rr, m, v)
  BY NewAgree
<1> HIDE DEF v
<1>5. \A m \in Names \ {n} : special'[m] = special[m] => Agree(special', rr', m, v)
  BY ONLY <1>1, <1>4 DEF Agree
<1>6. CASE UpdateChild(w, n) \/ MakeRegular(w, n)
  <2> DEFINE sp == [special EXCEPT ![n] = Update(@, v, "none")]
             c  == CheckNxDomain(sp, rr, n, v)
  <2>1. special' = c
    BY <1>2, <1>6 DEF UpdateChild, MakeRegular
  <2>2. "none" \in SpecialValues
    BY DEF SpecialValues
  <2>3. /\ sp \in [Names -> Histories(SpecialValues)]
        /\ \A m \in Names : Good(sp[m], SpecialValues, v)
        /\ \A m \in Names \ {n} : sp[m] = special[m]
    BY <2>2, SetSpecial DEF v
  <2> HIDE DEF sp
  <2>4. /\ Agree(c, rr, n, v)
        /\ \A m \in Names \ {n} : c[m] = sp[m]
    <3>1. v > 0 /\ n \in Names \ {Apex}
      BY <1>2, <1>3
    <3>2. /\ sp \in [Names -> Histories(SpecialValues)]
          /\ \A m \in Names : Good(sp[m], SpecialValues, v)
      BY ONLY <2>3
    <3>3. ASSUME NEW f
          PROVE  /\ Agree(CheckNxDomain(sp, f, n, v), f, n, v)
                 /\ \A m \in Names \ {n} : CheckNxDomain(sp, f, n, v)[m] = sp[m]
      BY ONLY <3>1, <3>2, CheckAgrees
    <3> QED
      BY ONLY <3>3
  <2> HIDE DEF c
  <2>5. \A m \in Names \ {n} : special'[m] = special[m]
    BY ONLY <2>1, <2>3, <2>4
  <2>6. Agree(special', rr', n, v)
    BY ONLY <1>1, <2>1, <2>4
  <2> QED BY <1>3, <1>5, <2>5, <2>6, NamesAssumption DEF NxInv, v
<1>7. ASSUME NEW s \in Specials, MakeSpecial(w, n, s)
      PROVE  /\ special'[Apex] = << >>
             /\ \A m \in Names : Agree(special', rr', m, v)
  <2>1. special' = [special EXCEPT ![n] = Update(@, v, s)]
    BY ONLY <1>2, <1>7 DEF MakeSpecial
  <2>2. special \in [Names -> Histories(SpecialValues)] /\ Good(special[n], SpecialValues, v)
    BY Goods DEF IInv, TypeOK, v
  <2>3. s \in Option(SpecialValues) /\ s # "NxDomain"
    BY ONLY RoleAssumption DEF SpecialValues, Option
  <2>4. Get(Update(special[n], v, s), v) = s
    <3>1. v > 0
      BY <1>2
    <3> QED
      BY ONLY <2>2, <2>3, <3>1, UpdateGood
  <2>5. \A m \in Names : special'[m] = IF m = n THEN Update(special[n], v, s) ELSE special[m]
    BY ONLY <2>1, <2>2
  <2>6. Agree(special', rr', n, v)
    BY ONLY <2>3, <2>4, <2>5 DEF Agree
  <2> QED BY <1>3, <1>5, <2>5, <2>6, NamesAssumption DEF NxInv
<1> QED BY <1>6, <1>7 DEF v

\* An edit of an RRset.
LEMMA RRsetAgree ==
    ASSUME IInv, NxInv, NEW w \in Writers, NEW n \in Names, NEW t \in Types,
           \/ RemoveRRset(w, n, t)
           \/ \E x \in NewRRsets(t) : UpdateRRset(w, n, t, x)
    PROVE  /\ special'[Apex] = << >>
           /\ \A m \in Names : Agree(special', rr', m, current + 1)
<1> DEFINE v == current + 1
           c == CheckNxDomain(special, rr', n, v)
<1>1. EditStep(w)
  BY RRsetEdit
<1>2. lock = w /\ wz[w].new = v /\ v > 0
  <2>1. lock = w
    BY <1>1 DEF EditStep
  <2> QED
    BY <2>1, Owner, NewVersion
<1>3. /\ special \in [Names -> Histories(SpecialValues)]
      /\ \A m \in Names : Good(special[m], SpecialValues, v)
      /\ rr \in [Keys -> Histories(RRsets)]
  BY Goods DEF IInv, TypeOK
<1>4. \A m \in Names : Agree(special, rr, m, v)
  BY NewAgree
<1> HIDE DEF v
<1>5. special' = c /\ \E g : rr' = [rr EXCEPT ![<<n, t>>] = g]
  BY <1>2 DEF RemoveRRset, UpdateRRset
<1>6. \A m \in Names \ {n}, y \in Types : rr'[<<m, y>>] = rr[<<m, y>>]
  <2>1. PICK g : rr' = [rr EXCEPT ![<<n, t>>] = g]
    BY <1>5
  <2>2. \A m \in Names \ {n}, y \in Types : <<m, y>> \in Keys /\ <<m, y>> # <<n, t>>
    BY DEF Keys
  <2> QED BY <1>3, <2>1, <2>2
<1>7. \A m \in Names \ {n} : special'[m] = special[m] => Agree(special', rr', m, v)
  BY ONLY <1>4, <1>6 DEF Agree, NoRRsets
<1>8. CASE n # Apex
  <2>1. Agree(c, rr', n, v) /\ \A m \in Names \ {n} : c[m] = special[m]
    <3>1. v > 0 /\ n \in Names \ {Apex}
      BY <1>2, <1>8
    <3> QED
      BY ONLY <1>3, <3>1, CheckAgrees
  <2> HIDE DEF c
  <2> QED BY <1>5, <1>7, <1>8, <2>1, NamesAssumption DEF NxInv, v
<1>9. CASE n = Apex
  <2>1. special' = special
    BY <1>5, <1>9 DEF CheckNxDomain
  <2>2. Agree(special', rr', n, v)
    BY <1>9, <2>1, Unmarked DEF Agree
  <2> QED BY <1>7, <2>1, <2>2 DEF NxInv, v
<1> QED BY ONLY <1>8, <1>9

\* remove_all leaves no mark and no RRset that disagree.
LEMMA RemoveAllAgree ==
    ASSUME IInv, NxInv, NEW w \in Writers, NEW n \in Names, RemoveAll(w, n)
    PROVE  /\ special'[Apex] = << >>
           /\ \A m \in Names : Agree(special', rr', m, current + 1)
<1> DEFINE v == current + 1
<1>1. EditStep(w)
  BY RemoveAllStep
<1>2. lock = w /\ wz[w].new = v /\ v > 0
  <2>1. lock = w
    BY <1>1 DEF EditStep
  <2> QED
    BY <2>1, Owner, NewVersion
<1>3. \A m \in Names : Good(special[m], SpecialValues, v) /\ Agree(special, rr, m, v)
  BY Goods, NewAgree
<1> HIDE DEF v
<1>4. /\ rr' = [k \in Keys |-> IF k[1] \in Below[n] THEN Remove(rr[k], v) ELSE rr[k]]
      /\ special' = [m \in Names |-> IF m \in Below[n] THEN Remove(special[m], v)
                                     ELSE special[m]]
  BY <1>2 DEF RemoveAll
<1>5. ASSUME NEW m \in Names PROVE Agree(special', rr', m, v)
  <2>1. CASE m \in Below[n]
    <3>1. Get(special'[m], v) = None
      BY ONLY <1>2, <1>3, <1>4, <2>1, RemoveGood, ZenonT(30)
    <3> QED BY <3>1, Unmarked DEF Agree
  <2>2. CASE m \notin Below[n]
    <3>1. \A y \in Types : <<m, y>> \in Keys /\ <<m, y>>[1] = m
      BY DEF Keys
    <3>2. \A y \in Types : rr'[<<m, y>>] = rr[<<m, y>>]
      BY <1>4, <2>2, <3>1
    <3>3. special'[m] = special[m]
      BY <1>4, <2>2
    <3> QED BY <1>3, <3>2, <3>3 DEF Agree, NoRRsets
  <2> QED BY <2>1, <2>2
<1>6. Remove(<< >>, v) = << >>
  BY DEF Remove
<1>7. special'[Apex] = << >>
  BY <1>4, <1>6, NamesAssumption DEF NxInv
<1> QED BY ONLY <1>5, <1>7 DEF v

\* Every step keeps marks and RRsets in step.
LEMMA NxStep == IInv /\ NxInv /\ [Next]_vars => NxInv'
<1> SUFFICES ASSUME IInv, NxInv, [Next]_vars PROVE NxInv'
  OBVIOUS
<1>1. ASSUME NEW w \in Writers, EditNext(w) PROVE NxInv'
  <2>1. ASSUME EditStep(w), special'[Apex] = << >>,
               \A m \in Names : Agree(special', rr', m, current + 1)
        PROVE  NxInv'
    <3>1. current \in Nat /\ current' = current
      BY <2>1, Goods DEF EditStep
    <3>2. /\ \A k \in Keys, u \in Nat : u <= current => Get(rr'[k], u) = Get(rr[k], u)
          /\ \A n \in Names, u \in Nat : u <= current => Get(special'[n], u) = Get(special[n], u)
      BY ONLY <2>1, <3>1 DEF EditStep, Edits, Edited
    <3>3. \A n \in Names : Agree(special', rr', n, current + 1)
      BY ONLY <2>1
    <3>4. NxDomainHidesNoRRset'
      BY <3>1, <3>2, <3>3, OldAgree
    <3> QED BY ONLY <2>1, <3>4 DEF NxInv
  <2>2. ASSUME NEW n \in Names,
               \/ UpdateChild(w, n)
               \/ MakeRegular(w, n)
               \/ \E s \in Specials : MakeSpecial(w, n, s)
        PROVE  NxInv'
    BY <2>1, <2>2, RoleStep, RoleAgree
  <2>3. ASSUME NEW n \in Names, NEW t \in Types,
               \/ RemoveRRset(w, n, t)
               \/ \E x \in NewRRsets(t) : UpdateRRset(w, n, t, x)
        PROVE  NxInv'
    BY <2>1, <2>3, RRsetEdit, RRsetAgree
  <2>4. ASSUME NEW n \in Names, RemoveAll(w, n) PROVE NxInv'
    BY <2>1, <2>4, RemoveAllStep, RemoveAllAgree
  <2>5. ASSUME NEW k \in Editable PROVE k[1] \in Names /\ k[2] \in Types
    BY NamesAssumption
  <2> QED BY ONLY <1>1, <2>2, <2>3, <2>4, <2>5 DEF EditNext
<1>2. ASSUME UNCHANGED <<rr, special, current>> PROVE NxInv'
  BY <1>2 DEF NxInv, NxDomainHidesNoRRset, NoRRsets
<1>3. ASSUME NEW w \in Writers, NEW b \in Bumps, Commit(w, b) PROVE NxInv'
  <2> DEFINE v == current + 1
  <2>1. /\ Edits(rr, rr', Keys, RRsets, v)
        /\ \A k \in Keys : k # <<Apex, SOA>> => rr'[k] = rr[k]
    BY <1>3, CommitEdits
  <2>2. current \in Nat /\ v \in Nat /\ v + 1 < Half /\ special' = special /\ current' = v
    <3>1. lock = w /\ current < MaxVersion /\ special' = special /\ current' = wz[w].new
      BY <1>3 DEF Commit
    <3>2. current \in Nat /\ current' = v
      BY <3>1, Owner, NewVersion
    <3> QED
      BY <3>1, <3>2, VersionAssumption, HalfAssumption, SMT
  <2>3. /\ \A k \in Keys : Good(rr'[k], RRsets, v)
        /\ \A n \in Names : Good(special[n], SpecialValues, v)
    BY <2>1, Goods DEF Edits, Edited
  <2> HIDE DEF v
  <2>4. ASSUME NEW n \in Names, NEW u \in 0 .. v PROVE Agree(special', rr', n, u)
    <3>1. CASE n = Apex
      BY <2>2, <3>1, Unmarked DEF Agree
    <3>2. CASE n # Apex
      <4>1. \A t \in Types : rr'[<<n, t>>] = rr[<<n, t>>]
        BY <2>1, <3>2 DEF Keys
      <4>2. Agree(special, rr, n, u)
        BY DEF NxInv, NxDomainHidesNoRRset, Agree, v
      <4> QED BY ONLY <2>2, <4>1, <4>2 DEF Agree, NoRRsets
    <3> QED BY <3>1, <3>2
  <2>5. ASSUME NEW n \in Names PROVE Agree(special', rr', n, v + 1)
    <3>1. Get(special[n], v + 1) = Get(special[n], v)
      BY ONLY <2>2, <2>3, GetNext
    <3>2. \A t \in Types : Get(rr'[<<n, t>>], v + 1) = Get(rr'[<<n, t>>], v)
      <4>1. ASSUME NEW t \in Types
            PROVE  Get(rr'[<<n, t>>], v + 1) = Get(rr'[<<n, t>>], v)
        <5>1. <<n, t>> \in Keys
          BY DEF Keys
        <5>2. Good(rr'[<<n, t>>], RRsets, v)
          BY ONLY <2>3, <5>1
        <5> QED
          BY ONLY <2>2, <5>2, GetNext
      <4> QED
        BY ONLY <4>1
    <3>3. Agree(special', rr', n, v)
      BY <2>2, <2>4, SMT
    <3> QED BY ONLY <2>2, <3>1, <3>2, <3>3 DEF Agree, NoRRsets
  <2>6. \A n \in Names, u \in 0 .. v + 1 : Agree(special', rr', n, u)
    BY <2>2, <2>4, <2>5, SMT
  <2> QED BY <2>2, <2>6 DEF NxInv, NxDomainHidesNoRRset, Agree, NoRRsets
<1>4. ASSUME NEW w \in Writers, DropWriter(w) PROVE NxInv'
  <2> DEFINE v == current + 1
  <2>1. current \in Nat /\ current' = current /\ current + 1 < Half
    BY <1>4, Goods, VersionAssumption DEF DropWriter, IInv, TypeOK
  <2>2. /\ \A k \in Keys : /\ Good(rr'[k], RRsets, current)
                           /\ \A u \in 0 .. current : Get(rr'[k], u) = Get(rr[k], u)
        /\ \A n \in Names : /\ Good(special'[n], SpecialValues, current)
                            /\ \A u \in 0 .. current : Get(special'[n], u) = Get(special[n], u)
    BY <1>4, DropViews
  <2>3. ASSUME NEW n \in Names PROVE Agree(special', rr', n, v)
    <3>1. Get(special'[n], v) = Get(special[n], current)
      BY ONLY <2>1, <2>2, GetNext
    <3>2. \A t \in Types : Get(rr'[<<n, t>>], v) = Get(rr[<<n, t>>], current)
      <4>1. ASSUME NEW t \in Types
            PROVE  Get(rr'[<<n, t>>], v) = Get(rr[<<n, t>>], current)
        <5>1. <<n, t>> \in Keys
          BY DEF Keys
        <5>2. Good(rr'[<<n, t>>], RRsets, current)
              /\ Get(rr'[<<n, t>>], current) = Get(rr[<<n, t>>], current)
          BY ONLY <2>1, <2>2, <5>1
        <5> QED
          BY ONLY <2>1, <5>2, GetNext
      <4> QED
        BY ONLY <4>1
    <3>3. Agree(special, rr, n, current)
      BY <2>1, SMT DEF NxInv, NxDomainHidesNoRRset, Agree
    <3> QED BY ONLY <3>1, <3>2, <3>3 DEF Agree, NoRRsets
  <2>4. NxDomainHidesNoRRset'
    BY <2>1, <2>2, <2>3, OldAgree, SMT
  <2>5. Rollback(<< >>, wz[w].new) = << >>
    BY DEF Rollback, LastIs
  <2>6. special'[Apex] = << >>
    BY <1>4, <2>5, NamesAssumption DEF DropWriter, NxInv
  <2> QED BY ONLY <2>4, <2>6 DEF NxInv
<1>5. ASSUME NEW r \in Readers, Read(r) \/ EndRead(r) PROVE NxInv'
  BY <1>2, <1>5 DEF Read, EndRead
<1>6. ASSUME NEW w \in Writers, Write(w) \/ \E d \in Diffs : Open(w, d) PROVE NxInv'
  BY <1>2, <1>6 DEF Write, Open
<1>7. CASE UNCHANGED vars
  BY <1>2, <1>7 DEF vars
<1> QED BY <1>1, <1>3, <1>4, <1>5, <1>6, <1>7 DEF Next, ReaderNext, WriterNext

\* ZoneBuilder marks no name.
LEMMA NxInit == Init => NxInv
<1> SUFFICES ASSUME Init PROVE NxInv
  OBVIOUS
<1>1. PICK c \in Initial :
        special = [n \in Names |-> IF c.role[n] = "none" \/ n = Apex THEN << >>
                                   ELSE <<Item(0, c.role[n])>>]
  BY DEF Init
<1>2. \A n \in Names : c.role[n] = "none" \/ c.role[n] \in Specials
  BY InitialAssumption
<1>3. None # "NxDomain" /\ "NxDomain" \notin Specials
  BY NoneAssumption, RoleAssumption DEF SpecialValues
<1>4. \A v : Get(<< >>, v) = None
  BY SMT DEF Get, Visible
<1>5. \A x, v : Get(<<Item(0, x)>>, v) \in {None, x}
  <2> SUFFICES ASSUME NEW x, NEW v PROVE Get(<<Item(0, x)>>, v) \in {None, x}
    OBVIOUS
  <2> DEFINE h == <<Item(0, x)>>
  <2>1. Len(h) = 1 /\ h[1].x = x
    BY DEF Item
  <2> HIDE DEF h
  <2>2. Get(h, v) \in {None, x}
    <3>1. CASE Visible(h, v) = {}
      BY <3>1 DEF Get
    <3>2. CASE Visible(h, v) # {}
      <4>1. Visible(h, v) = {1}
        BY <2>1, <3>2, SMT DEF Visible
      <4>2. (CHOOSE i \in {1} : \A j \in {1} : j <= i) = 1
        BY SMT
      <4> QED BY <2>1, <4>1, <4>2 DEF Get
    <3> QED BY <3>1, <3>2
  <2> QED BY <2>2 DEF h
<1>6. \A n \in Names, v \in 0 .. current + 1 : Get(special[n], v) # "NxDomain"
  BY ONLY <1>1, <1>2, <1>3, <1>4, <1>5
<1>7. special[Apex] = << >>
  BY <1>1, NamesAssumption
<1> QED BY ONLY <1>6, <1>7 DEF NxInv, NxDomainHidesNoRRset

\* A name marked NXDOMAIN has no RRset in any version a reader or the writer sees:
\* check_nx_domain after every edit, and nothing else, keeps the two in step.
THEOREM StoreMarksHideNothing == Spec => []NxDomainHidesNoRRset
<1>1. NxInv => NxDomainHidesNoRRset
  BY DEF NxInv
<1> QED BY <1>1, InitOK, StepOK, NxInit, NxStep, PTL DEF Spec

-----------------------------------------------------------------------------
(* What a step leaves to the readers of committed versions. *)

\* Every edit is one of those ZoneEditProofs is about.
LEMMA EditIsStep ==
    ASSUME IInv, NEW w \in Writers, EditNext(w)
    PROVE  EditStep(w)
<1>1. ASSUME NEW n \in Names,
             \/ UpdateChild(w, n)
             \/ MakeRegular(w, n)
             \/ \E s \in Specials : MakeSpecial(w, n, s)
      PROVE  EditStep(w)
  BY <1>1, RoleStep
<1>2. ASSUME NEW n \in Names, NEW t \in Types,
             \/ RemoveRRset(w, n, t)
             \/ \E x \in NewRRsets(t) : UpdateRRset(w, n, t, x)
      PROVE  EditStep(w)
  BY <1>2, RRsetEdit
<1>3. ASSUME NEW n \in Names, RemoveAll(w, n) PROVE EditStep(w)
  BY <1>3, RemoveAllStep
<1>4. ASSUME NEW k \in Editable PROVE k[1] \in Names /\ k[2] \in Types
  BY NamesAssumption
<1> QED BY <1>1, <1>2, <1>3, <1>4 DEF EditNext

\* What version u shows is left alone, and nodes are kept.
Kept(u) ==
    /\ \A k \in Keys : Get(rr'[k], u) = Get(rr[k], u)
    /\ \A n \in Names : Get(special'[n], u) = Get(special[n], u)
    /\ exists \subseteq exists'

\* No step touches what a committed version shows.
LEMMA CommittedKept ==
    ASSUME IInv, [Next]_vars, NEW u \in Nat, u <= current
    PROVE  Kept(u)
<1>1. current \in Nat
  BY Goods
<1>2. ASSUME UNCHANGED <<rr, special, exists>> PROVE Kept(u)
  BY <1>2 DEF Kept
<1>3. ASSUME NEW w \in Writers, EditNext(w) PROVE Kept(u)
  <2>1. EditStep(w)
    BY <1>3, EditIsStep
  <2>2. exists \subseteq exists'
    BY <1>3 DEF EditNext, UpdateChild, RemoveAll, MakeRegular, MakeSpecial,
                RemoveRRset, UpdateRRset
  <2>3. u < current + 1
    BY <1>1, SMT
  <2>4. /\ \A k \in Keys : Get(rr'[k], u) = Get(rr[k], u)
        /\ \A n \in Names : Get(special'[n], u) = Get(special[n], u)
    BY <2>1, <2>3 DEF EditStep, Edits, Edited
  <2> QED BY <2>2, <2>4 DEF Kept
<1>4. ASSUME NEW w \in Writers, NEW b \in Bumps, Commit(w, b) PROVE Kept(u)
  <2>1. u < current + 1
    BY <1>1, SMT
  <2>2. \A k \in Keys : Get(rr'[k], u) = Get(rr[k], u)
    BY <1>4, <2>1, CommitEdits DEF Edits, Edited
  <2> QED BY <1>4, <2>2 DEF Kept, Commit
<1>5. ASSUME NEW w \in Writers, DropWriter(w) PROVE Kept(u)
  <2>1. u \in 0 .. current
    BY <1>1, SMT
  <2> QED BY <1>5, <2>1, DropViews DEF Kept, DropWriter
<1>6. ASSUME NEW r \in Readers, Read(r) \/ EndRead(r) PROVE Kept(u)
  BY <1>2, <1>6 DEF Read, EndRead
<1>7. ASSUME NEW w \in Writers, Write(w) \/ \E d \in Diffs : Open(w, d) PROVE Kept(u)
  BY <1>2, <1>7 DEF Write, Open
<1>8. CASE UNCHANGED vars
  BY <1>2, <1>8 DEF vars
<1> QED BY <1>3, <1>4, <1>5, <1>6, <1>7, <1>8 DEF Next, ReaderNext, WriterNext

\* Nodes are asked the same.
LEMMA SameHere ==
    ASSUME NEW u, Kept(u), NEW n \in Names, NEW t \in Types
    PROVE  QueryHere(n, t, u)' = QueryHere(n, t, u)
<1>1. Get(special'[n], u) = Get(special[n], u) /\ Get(rr'[<<n, t>>], u) = Get(rr[<<n, t>>], u)
  BY DEF Kept, Keys
<1>2. Special(n, u)' = Special(n, u)
  BY <1>1 DEF Special
<1>3. QueryRRsets(n, t, u)' = QueryRRsets(n, t, u)
  BY <1>1 DEF QueryRRsets
<1> QED BY <1>2, <1>3 DEF QueryHere

\* A query ends where it ended if no node has been added, or if it ended at a node.
LEMMA SameEnd ==
    ASSUME NEW u, Kept(u), NEW q \in Names, q # Apex,
           exists' = exists \/ EndOf(q, u) \in exists
    PROVE  EndOf(q, u)' = EndOf(q, u) /\ EndOf(q, u) \in Names
<1> DEFINE S == Stops(q, u)
           U == Stops(q, u)'
<1>1. Stops(q, u)' = {n \in Path[q] : n = q \/ n \notin exists' \/ Get(special[n], u) \in Cuts \cup {"NxDomain"}}
  BY NamesAssumption DEF Stops, Special, Kept
<1>2. Stops(q, u) = {n \in Path[q] : n = q \/ n \notin exists \/ Get(special[n], u) \in Cuts \cup {"NxDomain"}}
  BY DEF Stops, Special
<1>3. EndOf(q, u) = FirstOn(q, S) /\ EndOf(q, u)' = FirstOn(q, U)
  BY DEF EndOf
<1>4. q \in S /\ q \in U
  BY OnPath DEF Stops
<1>5. CASE exists' = exists
  <2>1. U = S
    BY <1>1, <1>2, <1>5
  <2> HIDE DEF U, S
  <2>2. EndOf(q, u) \in Path[q]
    BY <1>3, <1>4, FirstFound, SMT
  <2> QED BY <1>3, <2>1, <2>2, NamesAssumption
<1>6. CASE EndOf(q, u) \in exists
  <2>1. \A n \in Names : n \in U => n \in S
    BY <1>1, <1>2 DEF Kept
  <2>2. \A n \in Names : n \in S /\ n \in exists => n \in U
    BY <1>1, <1>2
  <2> HIDE DEF U, S
  <2>3. EndOf(q, u) \in Path[q] /\ EndOf(q, u) \in S
    BY <1>3, <1>4, FirstFound, SMT
  <2>4. EndOf(q, u) \in Names
    BY <2>3, NamesAssumption
  <2>5. FirstOn(q, S) \in U
    BY <1>3, <1>6, <2>2, <2>3, <2>4
  <2> QED BY <1>3, <1>4, <2>1, <2>4, <2>5, FirstOfFewer
<1> QED BY <1>5, <1>6

\* A query that ends where it did is answered as it was.
LEMMA SameAnswer ==
    ASSUME NEW u, Kept(u), exists' \subseteq Names, NEW q \in Names, q # Apex, NEW t \in Types,
           exists' = exists \/ EndOf(q, u) \in exists
    PROVE  Query(q, t, u)' = Query(q, t, u)
<1> DEFINE e == EndOf(q, u)
<1>1. e' = e /\ e \in Names
  BY SameEnd
<1>2. e \in exists' <=> e \in exists
  BY DEF Kept
<1>3. Special(e, u)' = Special(e, u)
  BY <1>1 DEF Special, Kept
<1>4. QueryHere(q, t, u)' = QueryHere(q, t, u)
  BY SameHere
<1>5. e \notin exists => QueryWild(Parent[e], t, u)' = QueryWild(Parent[e], t, u)
  <2> SUFFICES ASSUME e \notin exists
               PROVE  QueryWild(Parent[e], t, u)' = QueryWild(Parent[e], t, u)
    OBVIOUS
  <2>1. exists' = exists
    OBVIOUS
  <2>2. PICK p : p = Parent[e]
    OBVIOUS
  <2>3. QueryWild(p, t, u)' = QueryWild(p, t, u)
    <3>1. Append(p, Star) \in exists => QueryHere(Append(p, Star), t, u)' = QueryHere(Append(p, Star), t, u)
      BY <2>1, SameHere
    <3> QED BY <2>1, <3>1 DEF QueryWild
  <2>4. QueryWild(Parent[e], t, u)' = QueryWild(p, t, u)'
    BY <1>1, <2>2
  <2> QED BY <2>2, <2>3, <2>4
<1> HIDE DEF e
<1>6. Query(q, t, u) = CASE e \notin exists       -> QueryWild(Parent[e], t, u)
                         [] e \in exists /\ e = q -> QueryHere(q, t, u)
                         [] OTHER -> IF Special(e, u) = "NxDomain" THEN NxDomain
                                     ELSE Answer("referral", None)
  BY DEF Query, e
<1>7. Query(q, t, u)' = CASE e \notin exists'       -> QueryWild(Parent[e], t, u)'
                          [] e \in exists' /\ e = q -> QueryHere(q, t, u)'
                          [] OTHER -> IF Special(e, u)' = "NxDomain" THEN NxDomain
                                      ELSE Answer("referral", None)
  BY <1>1 DEF Query, e
<1> QED BY <1>2, <1>3, <1>4, <1>5, <1>6, <1>7

\* A reader is told the same for as long as it reads, unless update_child makes a node:
\* what ReadZone::query finds in a committed version is never edited or rolled back.
THEOREM StoreAnswersStable == Spec => AnswersStable
<1> DEFINE Same == \A r \in Readers :
               reader[r] # None /\ reader'[r] = reader[r] =>
                   \A q \in Names \ {Apex} :
                       exists' = exists \/ EndOf(q, reader[r]) \in exists =>
                           \A t \in Types \ {SOA} :
                               Query(q, t, reader[r])' = Query(q, t, reader[r])
<1>1. IInv /\ [Next]_vars => IInv'
  BY StepOK
<1>2. IInv /\ IInv' /\ [Next]_vars => Same
  <2> SUFFICES ASSUME IInv, IInv', [Next]_vars, NEW r \in Readers,
                      reader[r] # None, reader'[r] = reader[r],
                      NEW q \in Names \ {Apex},
                      exists' = exists \/ EndOf(q, reader[r]) \in exists,
                      NEW t \in Types \ {SOA}
               PROVE  Query(q, t, reader[r])' = Query(q, t, reader[r])
    OBVIOUS
  <2>1. PICK u \in Nat : u = reader[r] /\ u <= current
    BY SMT DEF IInv, TypeOK, Option
  <2>2. Kept(u)
    BY <2>1, CommittedKept
  <2>3. exists' \subseteq Names
    BY DEF IInv, TypeOK
  <2>4. exists' = exists \/ EndOf(q, u) \in exists
    BY <2>1
  <2>5. Query(q, t, u)' = Query(q, t, u)
    BY <2>2, <2>3, <2>4, SameAnswer
  <2>6. Query(q, t, reader[r])' = Query(q, t, u)'
    BY <2>1
  <2> QED BY <2>1, <2>5, <2>6
<1>3. IInv /\ IInv' /\ [Next]_vars => [UNCHANGED <<rr, special, exists>> \/ Same]_vars
  BY <1>2
<1> QED BY <1>1, <1>3, InitOK, PTL DEF Spec, AnswersStable

-----------------------------------------------------------------------------
(* What a version contains is found. *)

\* A name without a node has no history.
NodesInv ==
    \A n \in Names \ {Apex} : n \notin exists =>
        special[n] = << >> /\ \A t \in Types : rr[<<n, t>>] = << >>

\* check_nx_domain looks at one name.
LEMMA CheckOthers ==
    ASSUME NEW sp, NEW f, NEW n \in Names, NEW v, NEW m \in Names, m # n,
           sp = [l \in Names |-> sp[l]]
    PROVE  CheckNxDomain(sp, f, n, v)[m] = sp[m]
  BY DEF CheckNxDomain

\* Only names with a node get a history.
LEMMA NodesStep == IInv /\ NodesInv /\ [Next]_vars => NodesInv'
<1> SUFFICES ASSUME IInv, NodesInv, [Next]_vars PROVE NodesInv'
  OBVIOUS
<1>0. /\ rr \in [Keys -> Histories(RRsets)]
      /\ special \in [Names -> Histories(SpecialValues)]
      /\ special = [l \in Names |-> special[l]]
  BY DEF IInv, TypeOK
<1>1. ASSUME UNCHANGED <<rr, special, exists>> PROVE NodesInv'
  BY <1>1 DEF NodesInv
<1>2. ASSUME NEW w \in Writers, NEW n \in Names, UpdateChild(w, n) PROVE NodesInv'
  <2> DEFINE sp == [special EXCEPT ![n] = Update(@, wz[w].new, "none")]
  <2>1. exists' = exists \cup {n} /\ rr' = rr /\ special' = CheckNxDomain(sp, rr, n, wz[w].new)
    BY <1>2 DEF UpdateChild
  <2>2. sp = [l \in Names |-> sp[l]] /\ \A m \in Names \ {n} : sp[m] = special[m]
    BY <1>0
  <2> HIDE DEF sp
  <2>3. \A m \in Names \ {n} : special'[m] = special[m]
    BY <2>1, <2>2, CheckOthers, SMT
  <2> QED BY <2>1, <2>3 DEF NodesInv
<1>3. ASSUME NEW w \in Writers, NEW n \in Names, MakeRegular(w, n) PROVE NodesInv'
  <2> DEFINE sp == [special EXCEPT ![n] = Update(@, wz[w].new, "none")]
  <2>1. exists' = exists /\ rr' = rr /\ special' = CheckNxDomain(sp, rr, n, wz[w].new)
        /\ n \in exists
    BY <1>3 DEF MakeRegular, HasNode
  <2>2. sp = [l \in Names |-> sp[l]] /\ \A m \in Names \ {n} : sp[m] = special[m]
    BY <1>0
  <2> HIDE DEF sp
  <2>3. \A m \in Names \ {n} : special'[m] = special[m]
    BY <2>1, <2>2, CheckOthers, SMT
  <2> QED BY <2>1, <2>3 DEF NodesInv
<1>4. ASSUME NEW w \in Writers, NEW n \in Names, NEW s \in Specials, MakeSpecial(w, n, s)
      PROVE  NodesInv'
  <2>1. exists' = exists /\ rr' = rr /\ n \in exists
        /\ special' = [special EXCEPT ![n] = Update(@, wz[w].new, s)]
    BY <1>4 DEF MakeSpecial, HasNode
  <2>2. \A m \in Names \ {n} : special'[m] = special[m]
    BY <1>0, <2>1
  <2> QED BY <2>1, <2>2 DEF NodesInv
<1>5. ASSUME NEW w \in Writers, NEW n \in Names, NEW t \in Types, NEW x,
             RemoveRRset(w, n, t) \/ UpdateRRset(w, n, t, x)
      PROVE  NodesInv'
  <2>1. PICK g : rr' = [rr EXCEPT ![<<n, t>>] = g]
    BY <1>5 DEF RemoveRRset, UpdateRRset
  <2>2. exists' = exists /\ n \in exists \cup {Apex}
        /\ special' = CheckNxDomain(special, rr', n, wz[w].new)
    BY <1>5 DEF RemoveRRset, UpdateRRset, HasNode
  <2>3. \A m \in Names \ {n} : special'[m] = special[m]
    BY <1>0, <2>2, CheckOthers, SMT
  <2>4. \A m \in Names \ {n}, s \in Types : rr'[<<m, s>>] = rr[<<m, s>>]
    BY <1>0, <2>1 DEF Keys
  <2> QED BY <2>2, <2>3, <2>4, SMT DEF NodesInv
<1>6. ASSUME NEW w \in Writers, NEW n \in Names, RemoveAll(w, n) PROVE NodesInv'
  <2>1. ASSUME NEW v PROVE Remove(<< >>, v) = << >>
    BY DEF Remove
  <2>2. /\ \A m \in Names : special'[m] \in {special[m], Remove(special[m], wz[w].new)}
        /\ \A k \in Keys : rr'[k] \in {rr[k], Remove(rr[k], wz[w].new)}
        /\ exists' = exists
    BY <1>6 DEF RemoveAll
  <2> QED BY <2>1, <2>2, SMT DEF NodesInv, Keys
<1>7. ASSUME NEW w \in Writers, NEW b \in Bumps, Commit(w, b) PROVE NodesInv'
  <2>1. \A k \in Keys : k # <<Apex, SOA>> => rr'[k] = rr[k]
    BY <1>7, CommitEdits
  <2>2. UNCHANGED <<special, exists>>
    BY <1>7 DEF Commit
  <2>3. \A n \in Names \ {Apex}, t \in Types : <<n, t>> \in Keys /\ <<n, t>> # <<Apex, SOA>>
    BY DEF Keys
  <2> QED BY <2>1, <2>2, <2>3 DEF NodesInv
<1>8. ASSUME NEW w \in Writers, DropWriter(w) PROVE NodesInv'
  <2>1. ASSUME NEW v PROVE Rollback(<< >>, v) = << >>
    BY DEF Rollback, LastIs
  <2>2. /\ \A m \in Names : special'[m] \in {special[m], Rollback(special[m], wz[w].new)}
        /\ \A k \in Keys : rr'[k] \in {rr[k], Rollback(rr[k], wz[w].new)}
        /\ exists' = exists
    BY <1>8 DEF DropWriter
  <2> QED BY <2>1, <2>2, SMT DEF NodesInv, Keys
<1>9. ASSUME NEW r \in Readers, Read(r) \/ EndRead(r) PROVE NodesInv'
  BY <1>1, <1>9 DEF Read, EndRead
<1>10. ASSUME NEW w \in Writers, Write(w) \/ \E d \in Diffs : Open(w, d) PROVE NodesInv'
  BY <1>1, <1>10 DEF Write, Open
<1>11. CASE UNCHANGED vars
  BY <1>1, <1>11 DEF vars
<1>12. ASSUME NEW w \in Writers, EditNext(w) PROVE NodesInv'
  <2>1. ASSUME NEW k \in Editable PROVE k[1] \in Names /\ k[2] \in Types
    BY NamesAssumption
  <2> QED BY <1>2, <1>3, <1>4, <1>5, <1>6, <1>12, <2>1 DEF EditNext
<1> QED BY <1>7, <1>8, <1>9, <1>10, <1>11, <1>12 DEF Next, ReaderNext, WriterNext

\* ZoneBuilder makes a node for every name it stores something for.
LEMMA NodesInit == Init => NodesInv
<1> SUFFICES ASSUME Init, NEW n \in Names \ {Apex}, n \notin exists
             PROVE  special[n] = << >> /\ \A t \in Types : rr[<<n, t>>] = << >>
  BY DEF NodesInv
<1>1. n \in Below[n]
  BY DEF Below
<1>2. exists = {l \in Names \ {Apex} :
                  \E m \in Below[l] : \/ special[m] # << >>
                                      \/ \E t \in Types : rr[<<m, t>>] # << >>}
  BY DEF Init
<1> QED BY <1>1, <1>2

\* A name with a role or with RRsets in version v.
HasContents(n, v) == Special(n, v) \in Specials \/ ~ NoRRsets(rr, n, v)

\* Versions somebody looks at are committed.
LEMMA ReadCommitted ==
    ASSUME IInv, NEW v \in ReadVersions PROVE v \in 0 .. current + 1
<1>1. current \in Nat
  BY Goods
<1>2. CASE v = current
  BY <1>1, <1>2, SMT
<1>3. ASSUME NEW r \in Readers, v = reader[r], v # None PROVE v \in 0 .. current + 1
  <2>1. v \in Nat /\ v <= current
    BY <1>3, SMT DEF IInv, TypeOK, Option
  <2> QED BY <1>1, <2>1, SMT
<1> QED BY <1>2, <1>3 DEF ReadVersions

\* The values roles have.
LEMMA SpecialType ==
    ASSUME IInv, NEW n \in Names, NEW v
    PROVE  Special(n, v) \in {None, "none", "NxDomain"} \cup Specials
<1>1. special[n] \in Histories(SpecialValues)
  BY DEF IInv, TypeOK
<1>2. Get(special[n], v) \in Option(SpecialValues)
  BY <1>1, GetType
<1> QED BY <1>2 DEF Special, Option, SpecialValues

\* Such a name has a node, which is not marked.
LEMMA ContentsReached ==
    ASSUME IInv, NxInv, NodesInv, NEW v \in 0 .. current + 1, NEW n \in Names,
           HasContents(n, v)
    PROVE  (n = Apex \/ n \in exists) /\ Special(n, v) # "NxDomain"
<1>1. ASSUME n # Apex, n \notin exists PROVE FALSE
  <2>1. special[n] = << >> /\ \A t \in Types : rr[<<n, t>>] = << >>
    BY <1>1 DEF NodesInv
  <2>2. Get(<< >>, v) = None
    BY SMT DEF Get, Visible
  <2>3. Special(n, v) = None /\ NoRRsets(rr, n, v)
    BY <2>1, <2>2 DEF Special, NoRRsets
  <2>4. None \notin Specials
    BY NoneAssumption DEF SpecialValues
  <2> QED BY <2>3, <2>4 DEF HasContents
<1>2. Special(n, v) = "NxDomain" => NoRRsets(rr, n, v)
  BY DEF NxInv, NxDomainHidesNoRRset, Special
<1>3. "NxDomain" \notin Specials
  BY RoleAssumption
<1> QED BY <1>1, <1>2, <1>3 DEF HasContents

\* walk visits them.
LEMMA WalkFinds ==
    ASSUME IInv, NxInv, NodesInv PROVE WalkFindsContents
<1> SUFFICES ASSUME NEW n \in Names \ {Apex}, NEW t \in Types \ {SOA}, NEW v \in ReadVersions,
                    Get(rr[<<n, t>>], v) # None,
                    \A m \in Path[n] \ {n} : Special(m, v) \in Specials \ Cuts \/ ~ NoRRsets(rr, m, v),
                    \A m \in Path[n] \ {n} : Special(m, v) \notin Cuts
             PROVE  n \in Walked(v)
  BY DEF WalkFindsContents
<1>1. v \in 0 .. current + 1
  BY ReadCommitted
<1>2. HasContents(n, v)
  BY DEF HasContents, NoRRsets
<1>3. n \in exists
  BY <1>1, <1>2, ContentsReached
<1>4. ASSUME NEW m \in Path[n] \ {n} PROVE Special(m, v) \notin Cuts \cup {"NxDomain"}
  <2>1. m \in Names
    BY NamesAssumption
  <2>2. HasContents(m, v)
    BY DEF HasContents
  <2> QED BY <1>1, <2>1, <2>2, ContentsReached
<1> QED BY <1>3, <1>4 DEF Walked

\* A node is asked what the contents say.
LEMMA HereFinds ==
    ASSUME IInv, NEW q \in Names, NEW t \in Types, NEW v, Special(q, v) # "NxDomain",
           \A n \in Path[q] \ {q} : View(v).role[n] \notin Cuts
    PROVE  QueryHere(q, t, v) = Reference(q, t, View(v))
<1> DEFINE s == Special(q, v)
           c == View(v)
<1>1. /\ c.role[q] = (IF s \in Specials THEN s ELSE "regular")
      /\ c.rr[<<q, t>>] = Get(rr[<<q, t>>], v)
  BY DEF View, Role, Special, Keys
<1>2. s \in {None, "none", "NxDomain"} \cup Specials
  BY SpecialType
<1>3. QueryHere(q, t, v) = CASE s \in Cuts     -> QueryAtCut(s, t)
                             [] s = "cname"    -> Answer("cname", None)
                             [] s = "NxDomain" -> NxDomain
                             [] OTHER          -> QueryRRsets(q, t, v)
  BY DEF QueryHere
<1>4. Reference(q, t, c) = CASE c.role[q] \in Cuts    -> QueryAtCut(c.role[q], t)
                             [] c.role[q] = "cname"   -> Answer("cname", None)
                             [] c.role[q] = "regular" -> IF c.rr[<<q, t>>] = None THEN NoData
                                                         ELSE Answer("data", c.rr[<<q, t>>])
  BY DEF Reference
<1>5. QueryRRsets(q, t, v) = IF c.rr[<<q, t>>] = None THEN NoData ELSE Answer("data", c.rr[<<q, t>>])
  BY <1>1 DEF QueryRRsets
<1>6. s # "NxDomain"
  OBVIOUS
<1> HIDE DEF s, c
<1>7. CASE s \in Specials
  <2>1. c.role[q] = s /\ s \in {"cut", "cut_with_DS", "cname"}
    BY <1>1, <1>7, RoleAssumption
  <2>2. "cname" \notin Cuts /\ "NxDomain" \notin Cuts
    BY DEF Cuts
  <2>3. CASE s \in Cuts
    <3>1. s # "cname" /\ s # "NxDomain" /\ s # "regular"
      BY <2>2, <2>3 DEF Cuts
    <3>2. QueryHere(q, t, v) = QueryAtCut(s, t)
      BY <1>3, <2>3, <3>1
    <3>3. Reference(q, t, c) = QueryAtCut(s, t)
      BY <1>4, <2>1, <2>3, <3>1
    <3> QED BY <3>2, <3>3 DEF c
  <2>4. CASE s = "cname"
    <3>1. QueryHere(q, t, v) = Answer("cname", None)
      BY <1>3, <2>2, <2>4
    <3>2. Reference(q, t, c) = Answer("cname", None)
      BY <1>4, <2>1, <2>2, <2>4
    <3> QED BY <3>1, <3>2 DEF c
  <2> QED BY <2>1, <2>3, <2>4 DEF Cuts
<1>8. CASE s \notin Specials
  <2>1. c.role[q] = "regular"
    BY <1>1, <1>8
  <2>2. s \notin Cuts /\ s # "cname"
    BY <1>2, <1>6, <1>8, CutsAssumption DEF Cuts
  <2>3. QueryHere(q, t, v) = Reference(q, t, c)
    BY <1>3, <1>4, <1>5, <1>6, <2>1, <2>2 DEF Cuts
  <2> QED BY <2>3 DEF c
<1> QED BY <1>7, <1>8

\* Queries find them.
LEMMA QueriesFind ==
    ASSUME IInv, NxInv, NodesInv PROVE QueriesFindContents
<1> SUFFICES ASSUME NEW q \in Names \ {Apex}, NEW t \in Types \ {SOA}, NEW v \in ReadVersions,
                    \A n \in Path[q] : Special(n, v) \in Specials \/ ~ NoRRsets(rr, n, v)
             PROVE  Query(q, t, v) = Reference(q, t, View(v))
  BY DEF QueriesFindContents
<1> DEFINE e == EndOf(q, v)
           S == Stops(q, v)
<1>1. v \in 0 .. current + 1
  BY ReadCommitted
<1>2. ASSUME NEW n \in Path[q] PROVE n \in Names /\ n \in exists /\ Special(n, v) # "NxDomain"
  <2>1. n \in Names
    BY NamesAssumption
  <2>2. PICK i \in 1 .. Len(q) : n = SubSeq(q, 1, i)
    BY DEF Path
  <2>3. n # Apex
    <3>1. Len(n) = i
      BY <2>2, Prefixes
    <3>2. Len(<< >>) = 0
      OBVIOUS
    <3> QED BY <3>1, <3>2, SMT DEF Apex
  <2>4. HasContents(n, v)
    BY DEF HasContents
  <2> QED BY <1>1, <2>1, <2>3, <2>4, ContentsReached
<1>3. PICK k \in 1 .. Len(q) :
        /\ e = SubSeq(q, 1, k) /\ e \in S /\ e \in Path[q]
        /\ \A j \in 1 .. k - 1 : SubSeq(q, 1, j) \notin S
  <2>1. q \in S /\ e = FirstOn(q, S)
    BY OnPath DEF EndOf, Stops
  <2> HIDE DEF S, e
  <2> QED BY <2>1, FirstFound
<1>4. e \in exists /\ Special(e, v) # "NxDomain" /\ e \in Names
  BY <1>2, <1>3
<1>5. e = q \/ Special(e, v) \in Cuts
  BY <1>3, <1>4 DEF Stops
<1>6. Query(q, t, v) = CASE e \notin exists       -> QueryWild(Parent[e], t, v)
                         [] e \in exists /\ e = q -> QueryHere(q, t, v)
                         [] OTHER -> IF Special(e, v) = "NxDomain" THEN NxDomain
                                     ELSE Answer("referral", None)
  BY DEF Query
<1>7. CASE e = q
  <2>1. Len(q) \in Nat /\ k = Len(q)
    BY <1>3, <1>7, Prefixes, NamesAssumption, LenProperties, SMTT(30)
  <2>2. ASSUME NEW n \in Path[q] \ {q} PROVE View(v).role[n] \notin Cuts
    <3>1. PICK j \in 1 .. Len(q) : n = SubSeq(q, 1, j)
      BY DEF Path
    <3>2. j # Len(q)
      BY <3>1, Prefixes
    <3>3. n \notin S
      BY <1>3, <2>1, <3>1, <3>2, SMT
    <3>4. Special(n, v) \notin Cuts /\ n \in Names
      BY <1>2, <3>3 DEF Stops
    <3> QED BY <3>4 DEF View, Role, Special, Cuts
  <2>3. Query(q, t, v) = QueryHere(q, t, v)
    BY <1>4, <1>6, <1>7
  <2>4. Special(q, v) # "NxDomain"
    BY <1>4, <1>7
  <2> QED BY <2>2, <2>3, <2>4, HereFinds
<1>8. CASE e # q
  <2>1. Query(q, t, v) = Answer("referral", None)
    BY <1>4, <1>6, <1>8
  <2>2. Special(e, v) \in Specials
    <3>1. Special(e, v) \in {None, "none", "NxDomain"} \cup Specials
      BY <1>4, SpecialType
    <3> QED BY <1>5, <1>8, <3>1, CutsAssumption DEF Cuts
  <2>3. View(v).role[e] \in Cuts
    BY <1>4, <1>5, <1>8, <2>2 DEF View, Role, Special
  <2>4. e \in Path[q] \ {q}
    BY <1>3, <1>8
  <2> HIDE DEF e
  <2>5. Reference(q, t, View(v)) = Answer("referral", None)
    BY <2>3, <2>4 DEF Reference
  <2> QED BY <2>1, <2>5
<1> QED BY <1>7, <1>8

\* Queries and walks find what a version contains: no mark that check_nx_domain left and
\* no missing node hides a name whose path has RRsets or roles.
THEOREM StoreContentsFound == Spec => []ReadersFindContents
<1>1. IInv /\ NxInv /\ NodesInv => ReadersFindContents
  BY WalkFinds, QueriesFind DEF ReadersFindContents
<1>2. IInv /\ [Next]_vars => IInv'
  BY StepOK
<1> QED BY <1>1, <1>2, NodesStep, NodesInit, NxStep, NxInit, InitOK, PTL DEF Spec

-----------------------------------------------------------------------------
(* Diffs. *)

\* What a diff records as removed.
LEMMA RecordRemoved ==
    ASSUME NEW d \in DiffBuilders, NEW k \in Keys, NEW from, NEW to, NEW l \in Keys
    PROVE  \/ Record(d, k, from, to).removed[l] = d.removed[l]
           \/ l = k /\ from # {} /\ Record(d, k, from, to).removed[l] = from
<1>1. d.removed \in [Keys -> Option(RRsets)]
  BY DEF DiffBuilders
<1> QED BY <1>1 DEF Record

\* The diff an edit leaves removes only records of the current version, if the diff
\* before did.
Removes(d) ==
    d # None => \A k \in Keys : d.removed[k] # None =>
        /\ Get(rr[k], current) # None
        /\ d.removed[k] \subseteq Get(rr[k], current)

\* Recording an edit keeps removals to what was published.
LEMMA DiffRemoves ==
    ASSUME IInv, NEW d \in Option(DiffBuilders), Removes(d), NEW k \in Keys, NEW x
    PROVE  Removes(DiffUpdate(d, k, x)) /\ Removes(DiffRemove(d, k))
<1> DEFINE old == Get(rr[k], current)
<1>1. CASE d = None
  BY <1>1 DEF DiffUpdate, DiffRemove, Removes
<1>2. CASE d # None
  <2>1. d \in DiffBuilders
    BY <1>2 DEF Option
  <2>2. ASSUME NEW from, NEW to, from # {} => old # None /\ from \subseteq old
        PROVE  Removes(Record(d, k, from, to))
    <3>1. ASSUME NEW l \in Keys, Record(d, k, from, to).removed[l] # None
          PROVE  /\ Get(rr[l], current) # None
                 /\ Record(d, k, from, to).removed[l] \subseteq Get(rr[l], current)
      BY <1>2, <2>1, <2>2, <3>1, RecordRemoved, SMTT(30) DEF Removes
    <3> QED BY <3>1 DEF Removes
  <2> HIDE DEF old
  <2>3. DiffUpdate(d, k, x) = IF old = None \/ old = x THEN Record(d, k, {}, x)
                              ELSE Record(d, k, old \ x, x \ old)
    BY <1>2 DEF DiffUpdate, old
  <2>4. DiffRemove(d, k) = IF old = None THEN d ELSE Record(d, k, old, {})
    BY <1>2 DEF DiffRemove, old
  <2>5. Removes(Record(d, k, {}, x))
    BY <2>2
  <2>6. old # None => Removes(Record(d, k, old \ x, x \ old)) /\ Removes(Record(d, k, old, {}))
    BY <2>2
  <2> QED BY <2>3, <2>4, <2>5, <2>6
<1> QED BY <1>1, <1>2

\* Every step keeps it.
LEMMA DiffStep == IInv /\ DiffRemovesPublished /\ [Next]_vars => DiffRemovesPublished'
<1> SUFFICES ASSUME IInv, DiffRemovesPublished, [Next]_vars, lock' # None, wz'[lock'].diff # None,
                    NEW k \in Keys, wz'[lock'].diff.removed[k] # None
             PROVE  /\ Get(rr'[k], current') # None
                    /\ wz'[lock'].diff.removed[k] \subseteq Get(rr'[k], current')
  BY DEF DiffRemovesPublished
<1>1. current \in Nat /\ wz \in [Writers -> Option(WriteZones)]
  BY Goods DEF IInv, TypeOK
<1>2. PICK u \in Nat : u = current
  BY <1>1
<1>3. Get(rr'[k], u) = Get(rr[k], u)
  BY <1>2, CommittedKept, SMT DEF Kept
<1>4. ASSUME NEW d, Removes(d), d = wz'[lock'].diff, current' = current
      PROVE  /\ Get(rr'[k], current') # None
             /\ wz'[lock'].diff.removed[k] \subseteq Get(rr'[k], current')
  BY <1>2, <1>3, <1>4 DEF Removes
<1>5. lock # None => Removes(wz[lock].diff)
  BY DEF DiffRemovesPublished, Removes
<1>6. CASE UNCHANGED <<wz, lock, current>>
  BY <1>4, <1>5, <1>6
<1>7. ASSUME NEW w \in Writers, NEW n \in Names, NEW t \in Types,
             RemoveRRset(w, n, t) \/ \E x : UpdateRRset(w, n, t, x)
      PROVE  /\ Get(rr'[k], current') # None
             /\ wz'[lock'].diff.removed[k] \subseteq Get(rr'[k], current')
  <2>1. lock = w /\ lock' = lock /\ current' = current
    BY <1>7 DEF RemoveRRset, UpdateRRset, HasNode
  <2>2. wz[w].diff \in Option(DiffBuilders) /\ Removes(wz[w].diff) /\ wz[w] \in WriteZones
    BY <1>5, <2>1, Owner DEF WriteZones
  <2>3. <<n, t>> \in Keys
    BY DEF Keys
  <2>4. PICK d : Removes(d) /\ wz' = [wz EXCEPT ![w].diff = d]
    <3>1. CASE RemoveRRset(w, n, t)
      BY <2>2, <2>3, <3>1, DiffRemoves DEF RemoveRRset
    <3>2. ASSUME NEW x, UpdateRRset(w, n, t, x)
          PROVE  \E d : Removes(d) /\ wz' = [wz EXCEPT ![w].diff = d]
      BY <2>2, <2>3, <3>2, DiffRemoves DEF UpdateRRset
    <3> QED BY <1>7, <3>1, <3>2
  <2>5. wz'[w].diff = d
    <3>1. wz' = [wz EXCEPT ![w] = [wz[w] EXCEPT !.diff = d]]
      BY <2>4
    <3>2. [wz[w] EXCEPT !.diff = d].diff = d
      BY <2>2 DEF WriteZones
    <3> QED BY <1>1, <3>1, <3>2
  <2> QED BY <1>4, <2>1, <2>4, <2>5
<1>8. ASSUME NEW w \in Writers, EditNext(w)
      PROVE  /\ Get(rr'[k], current') # None
             /\ wz'[lock'].diff.removed[k] \subseteq Get(rr'[k], current')
  <2>1. ASSUME NEW e \in Editable PROVE e[1] \in Names /\ e[2] \in Types
    BY NamesAssumption
  <2> QED BY <1>6, <1>7, <1>8, <2>1 DEF EditNext, UpdateChild, RemoveAll, MakeRegular, MakeSpecial
<1>9. ASSUME NEW w \in Writers, NEW d \in Diffs, Open(w, d)
      PROVE  /\ Get(rr'[k], current') # None
             /\ wz'[lock'].diff.removed[k] \subseteq Get(rr'[k], current')
  <2>1. lock = w /\ lock' = w /\ wz'[w].diff = IF d THEN NoDiff ELSE None
    BY <1>1, <1>9 DEF Open
  <2>2. NoDiff.removed[k] = None
    BY DEF NoDiff
  <2> QED BY <2>1, <2>2
<1>10. ASSUME NEW w \in Writers, Write(w) \/ \E b \in Bumps : Commit(w, b) PROVE FALSE
  <2>1. PICK v : lock' = w /\ wz' = [wz EXCEPT ![w] = NewZone(v)]
    BY <1>10 DEF Write, Commit
  <2>2. wz'[w].diff = None
    BY <1>1, <2>1 DEF NewZone
  <2> QED BY <2>1, <2>2
<1>11. ASSUME NEW w \in Writers, DropWriter(w) PROVE FALSE
  BY <1>11 DEF DropWriter
<1>12. ASSUME NEW r \in Readers, Read(r) \/ EndRead(r) PROVE UNCHANGED <<wz, lock, current>>
  BY <1>12 DEF Read, EndRead
<1>13. CASE UNCHANGED vars
  BY <1>6, <1>13 DEF vars
<1> QED BY <1>6, <1>8, <1>9, <1>10, <1>11, <1>12, <1>13 DEF Next, ReaderNext, WriterNext

\* A diff never removes a record that is not in the version it starts from: update_rrset
\* and remove_rrset record against the last committed version, however often they run.
THEOREM StoreDiffsRemovePublished == Spec => []DiffRemovesPublished
<1>1. Init => DiffRemovesPublished
  BY DEF Init, DiffRemovesPublished
<1>2. IInv /\ [Next]_vars => IInv'
  BY StepOK
<1> QED BY <1>1, <1>2, DiffStep, InitOK, PTL DEF Spec
==============================================================================
