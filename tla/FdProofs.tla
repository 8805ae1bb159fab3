------------------------------ MODULE FdProofs ------------------------------
(***************************************************************************)
(* Descriptors point at objects that are there, for every number of        *)
(* processes, objects and descriptors, and every sequence of calls; and    *)
(* moving a table to a larger one never changes an open descriptor.        *)
(***************************************************************************)
EXTENDS FdTable, FiniteSetTheorems, TLAPS

(* A nonempty set of natural numbers has a least element, which Min        *)
(* returns.                                                                *)
LEMMA MinIsLeast ==
    ASSUME NEW S \in SUBSET Nat, S # {}
    PROVE  Min(S) \in S
<1> DEFINE R == {ss \in Nat \X Nat : ss[1] < ss[2]}
<1>1. IsWellFoundedOn(R, Nat)
  BY NatLessThanWellFounded, Zenon DEF OpToRel
<1>2. PICK x \in S : \A y \in S : ~(<<y, x>> \in R)
  <2> HIDE DEF R
  <2>. QED  BY <1>1, WFMin, Zenon
<1>3. ASSUME NEW y \in S PROVE x <= y
  <2>1. x \in Nat /\ y \in Nat
    OBVIOUS
  <2>2. <<y, x>> \in R <=> y < x
    BY <2>1, Zenon
  <2>. QED  BY <2>1, <2>2, <1>2
<1>. QED
  BY <1>3, Zenon DEF Min

(* Max of two numbers is one of them, and not below either.                *)
LEMMA MaxOfTwo ==
    ASSUME NEW m \in Nat, NEW n \in Nat
    PROVE  /\ Max({m, n}) \in Nat /\ Max({m, n}) \in {m, n}
           /\ Max({m, n}) >= m /\ Max({m, n}) >= n
<1>1. \E x \in {m, n} : \A y \in {m, n} : x >= y
  OBVIOUS
<1>2. /\ Max({m, n}) \in {m, n}
      /\ \A y \in {m, n} : Max({m, n}) >= y
  BY <1>1, Zenon DEF Max
<1>. QED  BY <1>2, Zenon
-----------------------------------------------------------------------------
(* What the tables and the counts range over.                              *)
Entries ==
    {e \in [kind : {"closed", "console", "shared", "pair", "own", "torn"},
            obj : Objs \cup {None}, end : {"a", "b"}, cloexec : BOOLEAN] :
       e.kind = "own" => e.end = "a"}

Rows == [Fds -> Entries]

Tables == [ent : Rows, cap : Nat, limit : Nat]

Objects == [kind : {"none", "shared", "pair", "own"}, a : Nat, b : Nat]

(* The entries of all processes, and those that point at an end of o.      *)
Ents == [p \in Procs |-> table[p].ent]

HoldersOf(en, o, end) ==
    {h \in Procs \X Fds : en[h[1]][h[2]].obj = o /\ en[h[1]][h[2]].end = end}

(* An entry agrees with the object it points at.                           *)
Fits(r, e) ==
    e.obj # None => /\ e.kind = r[e.obj].kind
                    /\ e.kind \in {"shared", "pair", "own"}
                    /\ e.kind # "pair" => e.end = "a"

(* The counts of an object, given how many entries point at its two ends.  *)
(* The first end of a pair may have been leaked by the creation of the     *)
(* pair, so its count is only not too small.                               *)
Counts(x, na, nb) ==
    /\ x.a >= na /\ x.b = nb
    /\ x.kind # "pair" => x.a = na /\ x.b = 0
    /\ x.kind = "own" => x.a = 1
    /\ x.kind = "none" => x = NoObject

Agree(en, r) ==
    /\ en \in [Procs -> Rows] /\ r \in [Objs -> Objects]
    /\ \A p \in Procs, fd \in Fds : Fits(r, en[p][fd])
    /\ \A o \in Objs : Counts(r[o], Cardinality(HoldersOf(en, o, "a")),
                                    Cardinality(HoldersOf(en, o, "b")))

(* Finitely many descriptors point at an end, so they can be counted.      *)
LEMMA HoldersFinite ==
    ASSUME NEW en, NEW o, NEW end
    PROVE  /\ IsFiniteSet(HoldersOf(en, o, end))
           /\ Cardinality(HoldersOf(en, o, end)) \in Nat
           /\ Cardinality(HoldersOf(en, o, end)) = 0 <=> HoldersOf(en, o, end) = {}
<1>1. IsFiniteSet(Fds)
  <2>1. 0 \in Int /\ HardLimit - 1 \in Int
    BY FdAssumption
  <2>. QED  BY <2>1, FS_Interval, Zenon DEF Fds
<1>2. IsFiniteSet(Procs \X Fds)
  BY <1>1, FdAssumption, FS_Product, Zenon
<1>3. HoldersOf(en, o, end) \subseteq Procs \X Fds
  BY Zenon DEF HoldersOf
<1>4. IsFiniteSet(HoldersOf(en, o, end))
  BY <1>2, <1>3, FS_Subset, Zenon
<1>. QED  BY <1>4, FS_CardinalityType, FS_EmptySet, Zenon

(* So do those of one process.                                             *)
LEMMA PointingFinite ==
    ASSUME NEW ent, NEW S \in SUBSET Fds, NEW o, NEW end
    PROVE  /\ IsFiniteSet(Pointing(ent, S, o, end))
           /\ Cardinality(Pointing(ent, S, o, end)) \in Nat
           /\ Cardinality(Pointing(ent, S, o, end)) = 0 <=> Pointing(ent, S, o, end) = {}
<1>1. IsFiniteSet(Fds)
  <2>1. 0 \in Int /\ HardLimit - 1 \in Int
    BY FdAssumption
  <2>. QED  BY <2>1, FS_Interval, Zenon DEF Fds
<1>2. Pointing(ent, S, o, end) \subseteq Fds
  BY Zenon DEF Pointing
<1>3. IsFiniteSet(Pointing(ent, S, o, end))
  BY <1>1, <1>2, FS_Subset, Zenon
<1>. QED  BY <1>3, FS_CardinalityType, FS_EmptySet, Zenon

(* The entries that point at o are those of p with numbers in S and the    *)
(* rest.                                                                   *)
Rest(en, p, S, o, end) == {h \in HoldersOf(en, o, end) : ~(h[1] = p /\ h[2] \in S)}

Split(en, p, S, o, end) ==
    /\ Cardinality(Rest(en, p, S, o, end)) \in Nat
    /\ Cardinality(HoldersOf(en, o, end)) =
          Cardinality(Rest(en, p, S, o, end)) + Cardinality(Pointing(en[p], S, o, end))

(* The holders of an end are those among the entries S of process p and    *)
(* the rest.                                                               *)
LEMMA HoldersSplit ==
    ASSUME NEW en, NEW p \in Procs, NEW S \in SUBSET Fds, NEW o, NEW end
    PROVE  Split(en, p, S, o, end)
<1> DEFINE A == Rest(en, p, S, o, end)
           P == Pointing(en[p], S, o, end)
           B == {p} \X P
<1>1. IsFiniteSet(A)
  <2>1. A \subseteq HoldersOf(en, o, end)
    BY Zenon DEF Rest
  <2>. QED  BY <2>1, HoldersFinite, FS_Subset, Zenon
<1>2. IsFiniteSet(P) /\ Cardinality(P) \in Nat
  BY PointingFinite, Zenon
<1>3. IsFiniteSet({p}) /\ Cardinality({p}) = 1
  BY FS_Singleton, Zenon
<1>4. IsFiniteSet(B) /\ Cardinality(B) = 1 * Cardinality(P)
  <2> HIDE DEF P
  <2>. QED  BY <1>2, <1>3, FS_Product, Zenon
<1>5. A \cap B = {}
  BY Zenon DEF Rest, Pointing
<1>6. HoldersOf(en, o, end) = A \cup B
  <2>1. ASSUME NEW h \in HoldersOf(en, o, end), h \notin A PROVE h \in B
    <3>1. h[1] = p /\ h[2] \in S /\ h \in Procs \X Fds
      BY <2>1, Zenon DEF Rest, HoldersOf
    <3>2. en[p][h[2]].obj = o /\ en[p][h[2]].end = end
      BY <3>1, Zenon DEF HoldersOf
    <3>3. h[2] \in P /\ h = <<p, h[2]>>
      BY <3>1, <3>2 DEF Pointing
    <3> HIDE DEF P
    <3>. QED  BY <3>3
  <2>2. ASSUME NEW h \in B PROVE h \in HoldersOf(en, o, end)
    <3>1. PICK fd \in P : h = <<p, fd>>
      <4> HIDE DEF P
      <4>. QED  BY <2>2
    <3>2. fd \in Fds /\ en[p][fd].obj = o /\ en[p][fd].end = end
      BY Zenon DEF Pointing
    <3>3. h[1] = p /\ h[2] = fd /\ h \in Procs \X Fds
      BY <3>1, <3>2
    <3>. QED  BY <3>2, <3>3, Zenon DEF HoldersOf
  <2>3. A \subseteq HoldersOf(en, o, end)
    BY Zenon DEF Rest
  <2>. QED  BY <2>1, <2>2, <2>3, Zenon
<1>7. Cardinality(A) \in Nat
  BY <1>1, FS_CardinalityType, Zenon
<1>8. Cardinality(A \cup B) = Cardinality(A) + Cardinality(B)
  <2> HIDE DEF A, B
  <2>1. Cardinality(A \cup B) = Cardinality(A) + Cardinality(B) - Cardinality(A \cap B)
    BY <1>1, <1>4, FS_Union, Zenon
  <2>2. Cardinality(A \cap B) = 0
    BY <1>5, FS_EmptySet, Zenon
  <2>3. Cardinality(B) \in Nat
    BY <1>4, FS_CardinalityType, Zenon
  <2>. QED  BY <2>1, <2>2, <2>3, <1>7
<1>9. Cardinality(B) = Cardinality(P)
  <2> HIDE DEF P, B
  <2>. QED  BY <1>2, <1>4
<1>. QED  BY <1>6, <1>7, <1>8, <1>9, Zenon DEF Split

(* How the number of entries that point at o changes with the entries of p *)
(* in S.                                                                   *)
Moved(en, e2, p, ent, S, o, end) ==
    LET new == Cardinality(HoldersOf(e2, o, end))
        old == Cardinality(HoldersOf(en, o, end))
        lost == Cardinality(Pointing(en[p], S, o, end))
        won == Cardinality(Pointing(ent, S, o, end))
    IN  /\ new \in Nat /\ old \in Nat /\ lost \in Nat /\ won \in Nat
        /\ new + lost = old + won /\ lost <= old

(* When the entries S of p change, the number of holders changes by what S *)
(* lost and won.                                                           *)
LEMMA HoldersChange ==
    ASSUME NEW en \in [Procs -> Rows], NEW p \in Procs, NEW ent \in Rows,
           NEW S \in SUBSET Fds, \A fd \in Fds \ S : ent[fd] = en[p][fd],
           NEW o, NEW end, NEW e2, e2 = [en EXCEPT ![p] = ent]
    PROVE  Moved(en, e2, p, ent, S, o, end)
<1>1. e2[p] = ent /\ \A q \in Procs : q # p => e2[q] = en[q]
  OBVIOUS
<1>2. Rest(e2, p, S, o, end) = Rest(en, p, S, o, end)
  <2>1. ASSUME NEW h \in Procs \X Fds, ~(h[1] = p /\ h[2] \in S)
        PROVE  e2[h[1]][h[2]] = en[h[1]][h[2]]
    <3>1. h[1] \in Procs /\ h[2] \in Fds
      OBVIOUS
    <3>. QED  BY <3>1, <2>1, <1>1, Zenon
  <2>. QED  BY <2>1, Zenon DEF Rest, HoldersOf
<1> DEFINE rest == Cardinality(Rest(en, p, S, o, end))
           new == Cardinality(HoldersOf(e2, o, end))
           old == Cardinality(HoldersOf(en, o, end))
           lost == Cardinality(Pointing(en[p], S, o, end))
           won == Cardinality(Pointing(ent, S, o, end))
<1>3. rest \in Nat /\ old = rest + lost
  <2>1. Split(en, p, S, o, end)
    BY HoldersSplit, Zenon
  <2>. QED  BY <2>1, Zenon DEF Split
<1>4. new = rest + won
  <2>1. Split(e2, p, S, o, end)
    BY HoldersSplit, Zenon
  <2>. QED  BY <2>1, <1>1, <1>2, Zenon DEF Split
<1>5. new \in Nat /\ old \in Nat /\ lost \in Nat /\ won \in Nat
  BY HoldersFinite, PointingFinite, Zenon
<1>6. new + lost = old + won /\ lost <= old
  <2> HIDE DEF new, old, lost, won, rest
  <2>. QED  BY <1>3, <1>4, <1>5
<1>. QED  BY <1>5, <1>6, Zenon DEF Moved

-----------------------------------------------------------------------------
FewerLeft(xa, xb, la, lb, ma, mb) ==
    /\ xa - la \in Nat /\ xa - la >= ma /\ xb - lb = mb
    /\ xa - la = 0 /\ xb - lb = 0 => ma = 0 /\ mb = 0
    /\ xa = ma + la => xa - la = ma
    /\ xa = 1 /\ la # 0 => ma = 0
    /\ xa = 0 => la = 0
    /\ xb = 0 => lb = 0 /\ mb = 0

(* The arithmetic of giving references back.                               *)
LEMMA FewerNumbers ==
    ASSUME NEW xa \in Nat, NEW xb \in Nat, NEW la \in Nat, NEW lb \in Nat,
           NEW ma \in Nat, NEW mb \in Nat, xa >= ma + la, xb = mb + lb
    PROVE  FewerLeft(xa, xb, la, lb, ma, mb)
  BY DEF FewerLeft

(* The counts of one object when la and lb entries stop pointing at it.    *)
Fewer(x, n, la, lb, ma, mb) ==
    /\ n.a = 0 /\ n.b = 0 => ma = 0 /\ mb = 0
    /\ la # 0 /\ x.kind = "own" => ma = 0 /\ mb = 0
    /\ ~(la # 0 /\ x.kind = "own") => n \in Objects /\ Counts(n, ma, mb)
    /\ n.kind = x.kind

(* Counts that agreed with the holders still do when both go down by the   *)
(* same numbers; the last reference of an object without two ends is the   *)
(* last holder.                                                            *)
LEMMA FewerCounts ==
    ASSUME NEW x \in Objects, NEW la \in Nat, NEW lb \in Nat, NEW ma \in Nat, NEW mb \in Nat,
           Counts(x, ma + la, mb + lb),
           NEW n, n = [x EXCEPT !.a = @ - la, !.b = @ - lb]
    PROVE  Fewer(x, n, la, lb, ma, mb)
<1>1. x.a \in Nat /\ x.b \in Nat /\ x.kind \in {"none", "shared", "pair", "own"}
  BY DEF Objects
<1>2. n = [kind |-> x.kind, a |-> x.a - la, b |-> x.b - lb]
  BY DEF Objects
<1>3. n.a = x.a - la /\ n.b = x.b - lb /\ n.kind = x.kind
  BY <1>2
<1>4. /\ x.a >= ma + la /\ x.b = mb + lb
      /\ x.kind # "pair" => x.a = ma + la /\ x.b = 0
      /\ x.kind = "own" => x.a = 1
      /\ x.kind = "none" => x = NoObject
  BY Zenon DEF Counts
<1>5. FewerLeft(x.a, x.b, la, lb, ma, mb)
  BY <1>1, <1>4, FewerNumbers, Zenon
<1>6. x.kind = "own" => x.kind # "pair"
  OBVIOUS
<1>7. ASSUME ~(la # 0 /\ x.kind = "own") PROVE n \in Objects /\ Counts(n, ma, mb)
  <2>1. n.a \in Nat /\ n.b \in Nat /\ n.a >= ma /\ n.b = mb
    BY <1>3, <1>5, Zenon DEF FewerLeft
  <2>2. n \in Objects
    BY <2>1, <1>1, <1>2, <1>3, Zenon DEF Objects
  <2>3. n.kind # "pair" => n.a = ma /\ n.b = 0
    BY <1>3, <1>4, <1>5, Zenon DEF FewerLeft
  <2>4. n.kind = "own" => n.a = 1
    <3>1. ASSUME n.kind = "own" PROVE n.a = 1
      <4>1. x.a = 1 /\ la = 0
        BY <1>3, <1>4, <1>7, <3>1, Zenon
      <4>. QED  BY <4>1, <1>3
    <3>. QED  BY <3>1, Zenon
  <2>5. n.kind = "none" => n = NoObject
    <3>1. ASSUME n.kind = "none" PROVE n = NoObject
      <4>1. x = NoObject
        BY <3>1, <1>3, <1>4, Zenon
      <4>2. x.a = 0 /\ x.b = 0 /\ x.kind = "none"
        BY <4>1, Zenon DEF NoObject
      <4>3. la = 0 /\ lb = 0
        BY <4>2, <1>5, Zenon DEF FewerLeft
      <4>4. 0 - 0 = 0
        OBVIOUS
      <4>. QED  BY <4>2, <4>3, <4>4, <1>2, Zenon DEF NoObject
    <3>. QED  BY <3>1, Zenon
  <2>. QED  BY <2>1, <2>2, <2>3, <2>4, <2>5, Zenon DEF Counts
<1>. QED  BY <1>3, <1>4, <1>5, <1>6, <1>7, Zenon DEF FewerLeft, Fewer

(* Closing the entries of p in S, with one release for each of them, keeps *)
(* tables and counts in agreement.                                         *)
LEMMA LoseAll ==
    ASSUME NEW en, NEW r, Agree(en, r), NEW p \in Procs, NEW S \in SUBSET Fds
    PROVE  Agree([en EXCEPT ![p] = [fd \in Fds |-> IF fd \in S THEN Closed ELSE en[p][fd]]],
                 ReleaseAll(r, en[p], S))
<1> DEFINE ent == [fd \in Fds |-> IF fd \in S THEN Closed ELSE en[p][fd]]
           e2 == [en EXCEPT ![p] = ent]
           r2 == ReleaseAll(r, en[p], S)
           as(o) == Pointing(en[p], S, o, "a")
           bs(o) == Pointing(en[p], S, o, "b")
           n(o) == [r[o] EXCEPT !.a = @ - Cardinality(as(o)), !.b = @ - Cardinality(bs(o))]
           ma(o) == Cardinality(HoldersOf(e2, o, "a"))
           mb(o) == Cardinality(HoldersOf(e2, o, "b"))
<1>1. /\ en \in [Procs -> Rows] /\ r \in [Objs -> Objects]
      /\ \A q \in Procs, fd \in Fds : Fits(r, en[q][fd])
      /\ \A o \in Objs : Counts(r[o], Cardinality(HoldersOf(en, o, "a")),
                                      Cardinality(HoldersOf(en, o, "b")))
  BY Zenon DEF Agree
<1>2. Closed \in Entries /\ Closed.obj = None
  BY DEF Closed, FdEntry, Entries
<1>3. ent \in Rows /\ \A fd \in Fds \ S : ent[fd] = en[p][fd]
  <2>1. en[p] \in Rows
    BY <1>1, Zenon
  <2>. QED  BY <2>1, <1>2, Zenon DEF Rows
<1>4. e2 \in [Procs -> Rows] /\ e2[p] = ent /\ \A q \in Procs : q # p => e2[q] = en[q]
  <2> HIDE DEF ent
  <2>. QED  BY <1>1, <1>3
<1>5. ASSUME NEW o \in Objs, NEW end
      PROVE  Cardinality(Pointing(ent, S, o, end)) = 0
  <2>1. Pointing(ent, S, o, end) = {}
    BY <1>2, FdAssumption, Zenon DEF Pointing
  <2>. QED  BY <2>1, FS_EmptySet, Zenon
<1>6. ASSUME NEW o \in Objs
      PROVE  /\ r2[o] \in Objects /\ Counts(r2[o], ma(o), mb(o))
             /\ r2[o].kind = r[o].kind \/ (ma(o) = 0 /\ mb(o) = 0)
  <2> DEFINE na == Cardinality(HoldersOf(en, o, "a"))
             nb == Cardinality(HoldersOf(en, o, "b"))
             la == Cardinality(as(o))
             lb == Cardinality(bs(o))
             m == ma(o)
             k == mb(o)
  <2>1. na \in Nat /\ la \in Nat /\ m \in Nat /\ m + la = na
    <3>1. na \in Nat /\ la \in Nat /\ m \in Nat
          /\ m + la = na + Cardinality(Pointing(ent, S, o, "a"))
      <4>1. Moved(en, e2, p, ent, S, o, "a")
        <5>1. e2 = [en EXCEPT ![p] = ent]
          OBVIOUS
        <5> HIDE DEF ent, e2
        <5>. QED  BY <1>1, <1>3, <5>1, HoldersChange, Zenon
      <4>. QED  BY <4>1, Zenon DEF Moved
    <3> HIDE DEF na, la, m
    <3>. QED  BY <3>1, <1>5
  <2>2. nb \in Nat /\ lb \in Nat /\ k \in Nat /\ k + lb = nb
    <3>1. nb \in Nat /\ lb \in Nat /\ k \in Nat
          /\ k + lb = nb + Cardinality(Pointing(ent, S, o, "b"))
      <4>1. Moved(en, e2, p, ent, S, o, "b")
        <5>1. e2 = [en EXCEPT ![p] = ent]
          OBVIOUS
        <5> HIDE DEF ent, e2
        <5>. QED  BY <1>1, <1>3, <5>1, HoldersChange, Zenon
      <4>. QED  BY <4>1, Zenon DEF Moved
    <3> HIDE DEF nb, lb, k
    <3>. QED  BY <3>1, <1>5
  <2>3. Counts(r[o], na, nb) /\ r[o] \in Objects
    BY <1>1, Zenon
  <2>4. (la = 0 <=> as(o) = {}) /\ (lb = 0 <=> bs(o) = {})
    BY PointingFinite, Zenon
  <2>5. (\E fd \in as(o) : en[p][fd].kind = "own") <=> la # 0 /\ r[o].kind = "own"
    <3>1. ASSUME NEW fd \in as(o) PROVE en[p][fd].kind = r[o].kind
      <4>1. fd \in Fds /\ en[p][fd].obj = o /\ o # None
        BY FdAssumption, Zenon DEF Pointing
      <4>. QED  BY <4>1, <1>1, Zenon DEF Fits
    <3> HIDE DEF as, la
    <3>. QED  BY <3>1, <2>4, Zenon
  <2>6. r2[o] = IF as(o) \cup bs(o) = {} THEN r[o]
                ELSE IF (\E fd \in as(o) : en[p][fd].kind = "own")
                        \/ (n(o).a = 0 /\ n(o).b = 0) THEN NoObject ELSE n(o)
    BY Zenon DEF ReleaseAll
  <2>7. Fewer(r[o], n(o), la, lb, m, k)
    <3> HIDE DEF na, nb, la, lb, m, k, as, bs, ma, mb, e2
    <3>1. n(o) = [r[o] EXCEPT !.a = @ - la, !.b = @ - lb]
      BY Zenon DEF la, lb
    <3>2. Counts(r[o], m + la, k + lb)
      BY <2>1, <2>2, <2>3, Zenon
    <3> HIDE DEF n
    <3>. QED  BY <3>1, <3>2, <2>1, <2>2, <2>3, FewerCounts, Zenon
  <2> HIDE DEF na, nb, la, lb, m, k, n, as, bs, r2
  <2>8. m = ma(o) /\ k = mb(o)
    BY DEF m, k
  <2> HIDE DEF ma, mb
  <2>9. CASE as(o) \cup bs(o) = {}
    <3>1. r2[o] = r[o]
      BY <2>6, <2>9, Zenon
    <3>2. la = 0 /\ lb = 0
      BY <2>4, <2>9, Zenon
    <3>3. m = na /\ k = nb
      BY <3>2, <2>1, <2>2
    <3>. QED  BY <3>1, <3>3, <2>3, <2>8, Zenon
  <2>10. CASE as(o) \cup bs(o) # {} /\ ((la # 0 /\ r[o].kind = "own")
                                      \/ (n(o).a = 0 /\ n(o).b = 0))
    <3>1. r2[o] = NoObject /\ m = 0 /\ k = 0
      BY <2>5, <2>6, <2>7, <2>10, Zenon DEF Fewer
    <3>2. NoObject \in Objects /\ Counts(NoObject, 0, 0)
      BY DEF NoObject, Objects, Counts
    <3>. QED  BY <3>1, <3>2, <2>8, Zenon
  <2>11. CASE as(o) \cup bs(o) # {} /\ ~((la # 0 /\ r[o].kind = "own")
                                      \/ (n(o).a = 0 /\ n(o).b = 0))
    <3>1. r2[o] = n(o)
      BY <2>5, <2>6, <2>11, Zenon
    <3>. QED  BY <3>1, <2>7, <2>8, <2>11, Zenon DEF Fewer
  <2>. QED  BY <2>9, <2>10, <2>11, Zenon
<1>7. r2 \in [Objs -> Objects]
  <2>1. r2 = [o \in Objs |-> r2[o]]
    BY Zenon DEF ReleaseAll
  <2> HIDE DEF r2
  <2>. QED  BY <2>1, <1>6, Zenon
<1>8. ASSUME NEW q \in Procs, NEW fd \in Fds PROVE Fits(r2, e2[q][fd])
  <2> DEFINE e == e2[q][fd]
  <2> SUFFICES ASSUME e.obj # None
               PROVE  /\ e.kind = r2[e.obj].kind
                      /\ e.kind \in {"shared", "pair", "own"}
                      /\ e.kind # "pair" => e.end = "a"
    BY Zenon DEF Fits
  <2>1. e \in Entries
    BY <1>4, Zenon DEF Rows
  <2>2. e.obj \in Objs /\ e.end \in {"a", "b"}
    BY <2>1 DEF Entries
  <2>3. e = en[q][fd]
    BY <1>2, <1>4, Zenon
  <2>4. Fits(r, e)
    BY <2>3, <1>1, Zenon
  <2>5. <<q, fd>> \in HoldersOf(e2, e.obj, e.end)
    <3> HIDE DEF e2
    <3>. QED  BY DEF HoldersOf
  <2>6. ~(ma(e.obj) = 0 /\ mb(e.obj) = 0)
    <3> HIDE DEF e2, e
    <3>. QED  BY <2>2, <2>5, HoldersFinite, Zenon
  <2>7. r2[e.obj].kind = r[e.obj].kind
    <3> HIDE DEF e2, e, r2, ma, mb
    <3>. QED  BY <2>2, <2>6, <1>6, Zenon
  <2>. QED  BY <2>4, <2>7, Zenon DEF Fits
<1> HIDE DEF e2, r2
<1>9. Agree(e2, r2)
  BY <1>4, <1>6, <1>7, <1>8, Zenon DEF Agree
<1>. QED  BY <1>9, Zenon DEF e2, r2

(* The counts of one object when la and lb more entries point at it.       *)
More(x, n, na, nb) == n \in Objects /\ n.kind = x.kind /\ Counts(n, na, nb)

(* Counts that agreed with the holders still do when both go up by the     *)
(* same numbers.                                                           *)
LEMMA MoreCounts ==
    ASSUME NEW x \in Objects, NEW la \in Nat, NEW lb \in Nat, NEW na \in Nat, NEW nb \in Nat,
           Counts(x, na, nb),
           x.kind \in {"none", "own"} => la = 0,
           x.kind # "pair" => lb = 0,
           NEW n, n = [x EXCEPT !.a = @ + la, !.b = @ + lb]
    PROVE  More(x, n, na + la, nb + lb)
<1>1. n = [kind |-> x.kind, a |-> x.a + la, b |-> x.b + lb]
  BY DEF Objects
<1>2. x.a \in Nat /\ x.b \in Nat /\ x.kind \in {"none", "shared", "pair", "own"}
  BY DEF Objects
<1>3. /\ x.a >= na /\ x.b = nb
      /\ x.kind # "pair" => x.a = na /\ x.b = 0
      /\ x.kind = "own" => x.a = 1
      /\ x.kind = "none" => x = NoObject
  BY Zenon DEF Counts
<1>4. n.a = x.a + la /\ n.b = x.b + lb /\ n.kind = x.kind
  BY <1>1, Zenon
<1>5. x.a + la \in Nat /\ x.b + lb \in Nat /\ x.a + la >= na + la
  <2>1. \A u, v, w \in Nat : u >= v => u + w >= v + w
    OBVIOUS
  <2>2. \A u, v \in Nat : u + v \in Nat
    OBVIOUS
  <2>. QED  BY <2>1, <2>2, <1>2, <1>3, Zenon
<1>6. x.a + 0 = x.a /\ x.b + 0 = x.b /\ 0 + 0 = 0
  <2>1. \A u \in Nat : u + 0 = u
    OBVIOUS
  <2>. QED  BY <2>1, <1>2
<1>7. x.kind = "none" => n = NoObject
  <2>1. ASSUME x.kind = "none" PROVE n = NoObject
    <3>1. x = NoObject /\ la = 0 /\ lb = 0
      BY <1>3, <2>1
    <3>2. x.a = 0 /\ x.b = 0
      BY <3>1, Zenon DEF NoObject
    <3>. QED  BY <3>1, <3>2, <2>1, <1>1, <1>6, Zenon DEF NoObject
  <2>. QED  BY <2>1, Zenon
<1>8. x.kind # "pair" => n.a = na + la /\ n.b = 0
  BY <1>3, <1>4, <1>6, Zenon
<1>9. x.kind = "own" => n.a = 1
  BY <1>3, <1>4, <1>6, Zenon
<1>10. n \in Objects
  BY <1>1, <1>2, <1>5, Zenon DEF Objects
<1>11. Counts(n, na + la, nb + lb)
  BY <1>3, <1>4, <1>5, <1>7, <1>8, <1>9, Zenon DEF Counts
<1>. QED  BY <1>4, <1>10, <1>11, Zenon DEF More

(* What the entries of p in S are replaced by, when none of them pointed   *)
(* at anything.                                                            *)
Replaced(en, p, S, ent) ==
    /\ ent \in Rows
    /\ \A fd \in Fds \ S : ent[fd] = en[p][fd]
    /\ \A fd \in S : en[p][fd].obj = None

Won(en, e2, ent, S, o, end) ==
    /\ Cardinality(HoldersOf(en, o, end)) \in Nat
    /\ Cardinality(Pointing(ent, S, o, end)) \in Nat
    /\ Cardinality(HoldersOf(e2, o, end))
          = Cardinality(HoldersOf(en, o, end)) + Cardinality(Pointing(ent, S, o, end))

(* Entries that pointed at nothing lose no holder when they are replaced.  *)
LEMMA ReplacedCounts ==
    ASSUME NEW en \in [Procs -> Rows], NEW p \in Procs, NEW S \in SUBSET Fds, NEW ent,
           Replaced(en, p, S, ent), NEW o \in Objs, NEW end,
           NEW e2, e2 = [en EXCEPT ![p] = ent]
    PROVE  Won(en, e2, ent, S, o, end)
<1>1. Moved(en, e2, p, ent, S, o, end)
  BY HoldersChange, Zenon DEF Replaced
<1>2. Pointing(en[p], S, o, end) = {}
  BY FdAssumption, Zenon DEF Pointing, Replaced
<1>3. Cardinality(Pointing(en[p], S, o, end)) = 0
  BY <1>2, FS_EmptySet, Zenon
<1> DEFINE new == Cardinality(HoldersOf(e2, o, end))
           old == Cardinality(HoldersOf(en, o, end))
           lost == Cardinality(Pointing(en[p], S, o, end))
           won == Cardinality(Pointing(ent, S, o, end))
<1>4. new \in Nat /\ old \in Nat /\ won \in Nat /\ new + lost = old + won /\ lost = 0
  BY <1>1, <1>3, Zenon DEF Moved
<1>5. new = old + won
  <2> HIDE DEF new, old, lost, won
  <2>. QED  BY <1>4
<1>. QED  BY <1>4, <1>5, Zenon DEF Won

(* Filling entries of p in S, with one retain for each of them, keeps      *)
(* tables and counts in agreement.                                         *)
LEMMA GainAll ==
    ASSUME NEW en, NEW r, Agree(en, r), NEW p \in Procs, NEW S \in SUBSET Fds, NEW ent,
           Replaced(en, p, S, ent),
           \A fd \in S : Fits(r, ent[fd]) /\ (ent[fd].obj # None => ent[fd].kind # "own")
    PROVE  Agree([en EXCEPT ![p] = ent], RetainAll(r, ent, S))
<1> DEFINE e2 == [en EXCEPT ![p] = ent]
           r2 == RetainAll(r, ent, S)
<1>1. /\ en \in [Procs -> Rows] /\ r \in [Objs -> Objects]
      /\ \A q \in Procs, fd \in Fds : Fits(r, en[q][fd])
      /\ \A o \in Objs : Counts(r[o], Cardinality(HoldersOf(en, o, "a")),
                                      Cardinality(HoldersOf(en, o, "b")))
  BY Zenon DEF Agree
<1>2. e2 \in [Procs -> Rows] /\ e2[p] = ent /\ \A q \in Procs : q # p => e2[q] = en[q]
  BY <1>1 DEF Replaced
<1>3. ASSUME NEW o \in Objs
      PROVE  /\ r2[o] \in Objects /\ r2[o].kind = r[o].kind
             /\ Counts(r2[o], Cardinality(HoldersOf(e2, o, "a")),
                               Cardinality(HoldersOf(e2, o, "b")))
  <2> DEFINE la == Cardinality(Pointing(ent, S, o, "a"))
             lb == Cardinality(Pointing(ent, S, o, "b"))
             na == Cardinality(HoldersOf(en, o, "a"))
             nb == Cardinality(HoldersOf(en, o, "b"))
  <2>1. e2 = [en EXCEPT ![p] = ent]
    OBVIOUS
  <2>2. na \in Nat /\ la \in Nat /\ Cardinality(HoldersOf(e2, o, "a")) = na + la
    <3> HIDE DEF e2
    <3>1. Won(en, e2, ent, S, o, "a")
      BY <1>1, <2>1, ReplacedCounts, Zenon
    <3>. QED  BY <3>1, Zenon DEF Won
  <2>3. nb \in Nat /\ lb \in Nat /\ Cardinality(HoldersOf(e2, o, "b")) = nb + lb
    <3> HIDE DEF e2
    <3>1. Won(en, e2, ent, S, o, "b")
      BY <1>1, <2>1, ReplacedCounts, Zenon
    <3>. QED  BY <3>1, Zenon DEF Won
  <2>4. r2[o] = [r[o] EXCEPT !.a = @ + la, !.b = @ + lb]
    BY Zenon DEF RetainAll
  <2>5. ASSUME NEW fd \in S, ent[fd].obj = o
        PROVE  /\ ent[fd].kind = r[o].kind
               /\ r[o].kind \notin {"none", "own"}
               /\ r[o].kind # "pair" => ent[fd].end = "a"
    <3>1. o # None
      BY FdAssumption, Zenon
    <3>2. /\ ent[fd].kind = r[o].kind /\ ent[fd].kind # "own"
          /\ ent[fd].kind \in {"shared", "pair", "own"}
          /\ ent[fd].kind # "pair" => ent[fd].end = "a"
      BY <2>5, <3>1, Zenon DEF Fits
    <3>. QED  BY <3>2
  <2>6. r[o].kind \in {"none", "own"} => la = 0
    <3>1. r[o].kind \in {"none", "own"} => Pointing(ent, S, o, "a") = {}
      BY <2>5, Zenon DEF Pointing
    <3>. QED  BY <3>1, FS_EmptySet, Zenon
  <2>7. r[o].kind # "pair" => lb = 0
    <3>1. r[o].kind # "pair" => Pointing(ent, S, o, "b") = {}
      <4>1. "a" # "b"
        OBVIOUS
      <4>. QED  BY <4>1, <2>5, Zenon DEF Pointing
    <3>. QED  BY <3>1, FS_EmptySet, Zenon
  <2>8. Counts(r[o], na, nb) /\ r[o] \in Objects
    BY <1>1, Zenon
  <2> HIDE DEF la, lb, na, nb, e2, r2
  <2>9. More(r[o], r2[o], na + la, nb + lb)
    BY <2>2, <2>3, <2>4, <2>6, <2>7, <2>8, MoreCounts, Zenon
  <2>. QED  BY <2>2, <2>3, <2>9, Zenon DEF More
<1>4. r2 \in [Objs -> Objects]
  <2>1. r2 = [o \in Objs |-> r2[o]]
    BY Zenon DEF RetainAll
  <2> HIDE DEF r2
  <2>. QED  BY <2>1, <1>3, Zenon
<1>5. ASSUME NEW q \in Procs, NEW fd \in Fds PROVE Fits(r2, e2[q][fd])
  <2>1. Fits(r, e2[q][fd])
    BY <1>1, <1>2, Zenon DEF Replaced
  <2>2. e2[q][fd].obj \in Objs \cup {None}
    <3>1. e2[q][fd] \in Entries
      BY <1>2, Zenon DEF Rows
    <3>. QED  BY <3>1 DEF Entries
  <2> HIDE DEF e2, r2
  <2>. QED  BY <2>1, <2>2, <1>3, Zenon DEF Fits
<1> HIDE DEF e2, r2
<1>6. Agree(e2, r2)
  BY <1>2, <1>3, <1>4, <1>5, Zenon DEF Agree
<1>. QED  BY <1>6, Zenon DEF e2, r2

(* The entries S of ent are those of a new object x at o.                  *)
Held(ent, S, o, x) ==
    /\ \A fd \in S : ent[fd].obj \in {None, o}
    /\ \A fd \in S : ent[fd].obj = o =>
          /\ ent[fd].kind = x.kind /\ x.kind \in {"shared", "pair", "own"}
          /\ x.kind # "pair" => ent[fd].end = "a"
    /\ Counts(x, Cardinality(Pointing(ent, S, o, "a")),
                 Cardinality(Pointing(ent, S, o, "b")))

(* A new object, and entries of p in S that point at nothing or at it.     *)
LEMMA NewObject ==
    ASSUME NEW en, NEW r, Agree(en, r), NEW p \in Procs, NEW S \in SUBSET Fds, NEW ent,
           Replaced(en, p, S, ent), NEW o \in Objs, r[o] = NoObject, NEW x \in Objects,
           Held(ent, S, o, x)
    PROVE  Agree([en EXCEPT ![p] = ent], [r EXCEPT ![o] = x])
<1> DEFINE e2 == [en EXCEPT ![p] = ent]
           r2 == [r EXCEPT ![o] = x]
<1>0. /\ \A fd \in S : ent[fd].obj \in {None, o}
      /\ \A fd \in S : ent[fd].obj = o =>
            /\ ent[fd].kind = x.kind /\ x.kind \in {"shared", "pair", "own"}
            /\ x.kind # "pair" => ent[fd].end = "a"
      /\ Counts(x, Cardinality(Pointing(ent, S, o, "a")),
                   Cardinality(Pointing(ent, S, o, "b")))
  BY Zenon DEF Held
<1>1. /\ en \in [Procs -> Rows] /\ r \in [Objs -> Objects]
      /\ \A q \in Procs, fd \in Fds : Fits(r, en[q][fd])
      /\ \A u \in Objs : Counts(r[u], Cardinality(HoldersOf(en, u, "a")),
                                      Cardinality(HoldersOf(en, u, "b")))
  BY Zenon DEF Agree
<1>2. e2 \in [Procs -> Rows] /\ e2[p] = ent /\ \A q \in Procs : q # p => e2[q] = en[q]
  BY <1>1 DEF Replaced
<1>3. r2 \in [Objs -> Objects] /\ r2[o] = x /\ \A u \in Objs : u # o => r2[u] = r[u]
  BY <1>1
<1>4. e2 = [en EXCEPT ![p] = ent]
  OBVIOUS
<1> HIDE DEF e2, r2
<1>5. \A n \in Nat : n + 0 = n /\ 0 + n = n /\ (0 >= n => n = 0)
  OBVIOUS
<1>6. ASSUME NEW u \in Objs
      PROVE  Counts(r2[u], Cardinality(HoldersOf(e2, u, "a")),
                           Cardinality(HoldersOf(e2, u, "b")))
  <2> DEFINE la == Cardinality(Pointing(ent, S, u, "a"))
             lb == Cardinality(Pointing(ent, S, u, "b"))
             na == Cardinality(HoldersOf(en, u, "a"))
             nb == Cardinality(HoldersOf(en, u, "b"))
  <2>1. na \in Nat /\ la \in Nat /\ Cardinality(HoldersOf(e2, u, "a")) = na + la
    <3>1. Won(en, e2, ent, S, u, "a")
      BY <1>1, <1>4, ReplacedCounts, Zenon
    <3>. QED  BY <3>1, Zenon DEF Won
  <2>2. nb \in Nat /\ lb \in Nat /\ Cardinality(HoldersOf(e2, u, "b")) = nb + lb
    <3>1. Won(en, e2, ent, S, u, "b")
      BY <1>1, <1>4, ReplacedCounts, Zenon
    <3>. QED  BY <3>1, Zenon DEF Won
  <2>3. CASE u = o
    <3>1. na = 0 /\ nb = 0
      <4>1. Counts(NoObject, na, nb)
        BY <1>1, <2>3, Zenon
      <4>2. NoObject.a = 0 /\ NoObject.b = 0
        BY Zenon DEF NoObject
      <4>3. 0 >= na /\ 0 = nb
        BY <4>1, <4>2, Zenon DEF Counts
      <4> HIDE DEF na, nb
      <4>. QED  BY <4>3, <2>1, <1>5, Zenon
    <3>2. Counts(x, la, lb)
      BY <1>0, <2>3, Zenon
    <3>3. na + la = la /\ nb + lb = lb
      <4> HIDE DEF na, nb, la, lb
      <4>. QED  BY <3>1, <2>1, <2>2, <1>5, Zenon
    <3> HIDE DEF na, nb, la, lb
    <3>. QED  BY <3>2, <3>3, <2>1, <2>2, <2>3, <1>3, Zenon
  <2>4. CASE u # o
    <3>1. Pointing(ent, S, u, "a") = {} /\ Pointing(ent, S, u, "b") = {}
      BY <1>0, <2>4, FdAssumption, Zenon DEF Pointing
    <3>2. la = 0 /\ lb = 0
      BY <3>1, FS_EmptySet, Zenon
    <3>3. na + la = na /\ nb + lb = nb
      <4> HIDE DEF na, nb, la, lb
      <4>. QED  BY <3>2, <2>1, <2>2, <1>5, Zenon
    <3>. QED  BY <3>3, <2>1, <2>2, <2>4, <1>1, <1>3, Zenon
  <2>. QED  BY <2>3, <2>4, Zenon
<1>7. ASSUME NEW q \in Procs, NEW fd \in Fds PROVE Fits(r2, e2[q][fd])
  <2>1. e2[q][fd].obj \in Objs \cup {None}
    <3>1. e2[q][fd] \in Entries
      BY <1>2, Zenon DEF Rows
    <3>. QED  BY <3>1 DEF Entries
  <2>2. CASE q = p /\ fd \in S
    <3>1. e2[q][fd] = ent[fd] /\ ent[fd].obj \in {None, o}
      BY <1>0, <1>2, <2>2, Zenon
    <3>. QED  BY <1>0, <3>1, <2>2, <1>3, Zenon DEF Fits
  <2>3. CASE ~(q = p /\ fd \in S)
    <3>1. e2[q][fd] = en[q][fd]
      BY <2>3, <1>2, Zenon DEF Replaced
    <3>2. Fits(r, e2[q][fd])
      BY <3>1, <1>1, Zenon
    <3>3. e2[q][fd].obj # o
      <4>1. r[o].kind = "none"
        BY DEF NoObject
      <4>2. "none" \notin {"shared", "pair", "own"}
        OBVIOUS
      <4>. QED  BY <3>2, <4>1, <4>2, FdAssumption, Zenon DEF Fits
    <3>. QED  BY <3>2, <3>3, <2>1, <1>3, Zenon DEF Fits
  <2>. QED  BY <2>2, <2>3, Zenon
<1>8. Agree(e2, r2)
  BY <1>2, <1>3, <1>6, <1>7, Zenon DEF Agree
<1>. QED  BY <1>8, Zenon DEF e2, r2

(* Two rows that point at the same ends.                                   *)
Alike(old, ent) ==
    \A fd \in Fds : /\ ent[fd].obj = old[fd].obj
                    /\ ent[fd].obj # None => ent[fd].kind = old[fd].kind /\ ent[fd].end = old[fd].end

(* A change of entries of p after which the same ones point at the same.   *)
LEMMA SamePointers ==
    ASSUME NEW en, NEW r, Agree(en, r), NEW p \in Procs, NEW ent \in Rows,
           Alike(en[p], ent)
    PROVE  Agree([en EXCEPT ![p] = ent], r)
<1> DEFINE e2 == [en EXCEPT ![p] = ent]
<1>0. \A fd \in Fds :
         /\ ent[fd].obj = en[p][fd].obj
         /\ ent[fd].obj # None => ent[fd].kind = en[p][fd].kind /\ ent[fd].end = en[p][fd].end
  BY Zenon DEF Alike
<1>1. /\ en \in [Procs -> Rows] /\ r \in [Objs -> Objects]
      /\ \A q \in Procs, fd \in Fds : Fits(r, en[q][fd])
      /\ \A u \in Objs : Counts(r[u], Cardinality(HoldersOf(en, u, "a")),
                                      Cardinality(HoldersOf(en, u, "b")))
  BY Zenon DEF Agree
<1>2. e2 \in [Procs -> Rows] /\ e2[p] = ent /\ \A q \in Procs : q # p => e2[q] = en[q]
  BY <1>1
<1> HIDE DEF e2
<1>3. ASSUME NEW q \in Procs, NEW fd \in Fds
      PROVE  /\ e2[q][fd].obj = en[q][fd].obj
             /\ e2[q][fd].obj # None => /\ e2[q][fd].kind = en[q][fd].kind
                                        /\ e2[q][fd].end = en[q][fd].end
  <2>1. CASE q = p
    BY <2>1, <1>0, <1>2, Zenon
  <2>2. CASE q # p
    <3>1. e2[q] = en[q]
      BY <2>2, <1>2, Zenon
    <3>. QED  BY <3>1, Zenon
  <2>. QED  BY <2>1, <2>2, Zenon
<1>4. ASSUME NEW o \in Objs, NEW end PROVE HoldersOf(e2, o, end) = HoldersOf(en, o, end)
  <2>1. o # None
    BY FdAssumption, Zenon
  <2>2. ASSUME NEW q \in Procs, NEW fd \in Fds
        PROVE  (e2[q][fd].obj = o /\ e2[q][fd].end = end)
               <=> (en[q][fd].obj = o /\ en[q][fd].end = end)
    <3>1. /\ e2[q][fd].obj = en[q][fd].obj
          /\ e2[q][fd].obj # None => e2[q][fd].end = en[q][fd].end
      BY <1>3, Zenon
    <3>. QED  BY <3>1, <2>1, Zenon
  <2>3. \A h \in Procs \X Fds : h[1] \in Procs /\ h[2] \in Fds
    OBVIOUS
  <2>. QED  BY <2>2, <2>3, Zenon DEF HoldersOf
<1>5. ASSUME NEW q \in Procs, NEW fd \in Fds PROVE Fits(r, e2[q][fd])
  <2>1. Fits(r, en[q][fd])
    BY <1>1, Zenon
  <2>. QED  BY <2>1, <1>3, Zenon DEF Fits
<1>6. Agree(e2, r)
  BY <1>1, <1>2, <1>4, <1>5, Zenon DEF Agree
<1>. QED  BY <1>6, Zenon DEF e2

-----------------------------------------------------------------------------
(* One descriptor is a set of one.                                         *)
One(ent, fd, o, end) ==
    /\ ent[fd].obj = o /\ ent[fd].end = end =>
         /\ Pointing(ent, {fd}, o, end) = {fd}
         /\ Cardinality(Pointing(ent, {fd}, o, end)) = 1
    /\ ~(ent[fd].obj = o /\ ent[fd].end = end) =>
         /\ Pointing(ent, {fd}, o, end) = {}
         /\ Cardinality(Pointing(ent, {fd}, o, end)) = 0

(* A single entry points at an end or does not.                            *)
LEMMA OnePointing ==
    ASSUME NEW ent, NEW fd, NEW o, NEW end
    PROVE  One(ent, fd, o, end)
<1>1. ent[fd].obj = o /\ ent[fd].end = end => Pointing(ent, {fd}, o, end) = {fd}
  BY Zenon DEF Pointing
<1>2. ~(ent[fd].obj = o /\ ent[fd].end = end) => Pointing(ent, {fd}, o, end) = {}
  BY Zenon DEF Pointing
<1>. QED  BY <1>1, <1>2, FS_Singleton, FS_EmptySet, Zenon DEF One

(* The fields of a changed object.                                         *)
LEMMA ObjectFields ==
    ASSUME NEW x \in Objects
    PROVE  /\ [x EXCEPT !.a = @ - 1] = [x EXCEPT !.a = @ - 1, !.b = @ - 0]
           /\ [x EXCEPT !.b = @ - 1] = [x EXCEPT !.a = @ - 0, !.b = @ - 1]
           /\ [x EXCEPT !.a = @ + 1] = [x EXCEPT !.a = @ + 1, !.b = @ + 0]
           /\ [x EXCEPT !.b = @ + 1] = [x EXCEPT !.a = @ + 0, !.b = @ + 1]
           /\ x = [x EXCEPT !.a = @ + 0, !.b = @ + 0]
<1>1. x.a \in Nat /\ x.b \in Nat
  BY DEF Objects
<1>2. x.a - 0 = x.a /\ x.b - 0 = x.b /\ x.a + 0 = x.a /\ x.b + 0 = x.b
  BY <1>1
<1>3. [x EXCEPT !.a = x.a, !.b = x.b] = x
  BY DEF Objects
<1>4. [x EXCEPT !.a = x.a - 1, !.b = x.b] = [x EXCEPT !.a = x.a - 1]
  BY DEF Objects
<1>5. [x EXCEPT !.a = x.a + 1, !.b = x.b] = [x EXCEPT !.a = x.a + 1]
  BY DEF Objects
<1>6. [x EXCEPT !.a = x.a, !.b = x.b - 1] = [x EXCEPT !.b = x.b - 1]
  BY DEF Objects
<1>7. [x EXCEPT !.a = x.a, !.b = x.b + 1] = [x EXCEPT !.b = x.b + 1]
  BY DEF Objects
<1>. QED  BY <1>2, <1>3, <1>4, <1>5, <1>6, <1>7, Zenon

(* process_fd_close is the closing loop of exec and exit for one           *)
(* descriptor.                                                             *)
LEMMA ReleaseOne ==
    ASSUME NEW r \in [Objs -> Objects], NEW ent \in Rows, NEW fd \in Fds, Fits(r, ent[fd])
    PROVE  Release(r, ent[fd]) = ReleaseAll(r, ent, {fd})
<1> DEFINE e == ent[fd]
           as(o) == Pointing(ent, {fd}, o, "a")
           bs(o) == Pointing(ent, {fd}, o, "b")
           n(o) == [r[o] EXCEPT !.a = @ - Cardinality(as(o)), !.b = @ - Cardinality(bs(o))]
           new(o) == IF as(o) \cup bs(o) = {} THEN r[o]
                     ELSE IF (\E i \in as(o) : ent[i].kind = "own")
                             \/ (n(o).a = 0 /\ n(o).b = 0)
                     THEN NoObject ELSE n(o)
<1>0. \A o : One(ent, fd, o, "a") /\ One(ent, fd, o, "b")
  BY OnePointing, Zenon
<1>1. ReleaseAll(r, ent, {fd}) = [o \in Objs |-> new(o)]
  BY Zenon DEF ReleaseAll
<1>2. e \in Entries
  BY Zenon DEF Rows
<1>3. e.obj \in Objs \cup {None} /\ e.end \in {"a", "b"} /\ None \notin Objs
  BY <1>2, FdAssumption DEF Entries
<1>4. ASSUME NEW o \in Objs, e.obj # o PROVE new(o) = r[o]
  BY <1>4, <1>0, Zenon DEF One
<1>5. CASE e.obj = None
  <2>1. \A o \in Objs : new(o) = r[o]
    BY <1>3, <1>4, <1>5, Zenon
  <2>2. [o \in Objs |-> new(o)] = r
    <3> HIDE DEF new
    <3>. QED  BY <2>1
  <2>. QED  BY <2>2, <1>1, <1>5, Zenon DEF Release
<1>6. CASE e.obj # None
  <2> DEFINE o == e.obj
             x == r[o]
             m == IF e.end = "a" THEN [x EXCEPT !.a = @ - 1] ELSE [x EXCEPT !.b = @ - 1]
  <2>1. o \in Objs /\ x \in Objects
    BY <1>3, <1>6, Zenon
  <2>2. Release(r, e) = [r EXCEPT ![o] = IF e.kind = "own" \/ (m.a = 0 /\ m.b = 0)
                                         THEN NoObject ELSE m]
    BY <1>6, Zenon DEF Release
  <2>3. e.kind # "pair" => e.end = "a"
    BY <1>6, Zenon DEF Fits
  <2>4. m = n(o) /\ as(o) \cup bs(o) # {}
        /\ ((\E i \in as(o) : ent[i].kind = "own") <=> e.kind = "own")
    <3>1. CASE e.end = "a"
      <4>1. "a" # "b"
        OBVIOUS
      <4>2. as(o) = {fd} /\ Cardinality(as(o)) = 1 /\ Cardinality(bs(o)) = 0
        BY <3>1, <4>1, <1>0, Zenon DEF One
      <4>3. m = [x EXCEPT !.a = @ - 1, !.b = @ - 0]
        <5> HIDE DEF x
        <5>. QED  BY <3>1, <2>1, ObjectFields, Zenon
      <4>4. m = n(o)
        BY <4>2, <4>3, Zenon
      <4>. QED  BY <4>2, <4>4, Zenon
    <3>2. CASE e.end = "b"
      <4>1. "a" # "b" /\ "pair" # "own"
        OBVIOUS
      <4>2. as(o) = {} /\ bs(o) = {fd} /\ Cardinality(as(o)) = 0 /\ Cardinality(bs(o)) = 1
        BY <3>2, <4>1, <1>0, Zenon DEF One
      <4>3. m = [x EXCEPT !.a = @ - 0, !.b = @ - 1]
        <5> HIDE DEF x
        <5>. QED  BY <3>2, <4>1, <2>1, ObjectFields, Zenon
      <4>4. m = n(o)
        BY <4>2, <4>3, Zenon
      <4>. QED  BY <4>1, <4>2, <4>4, <3>2, <2>3, Zenon
    <3>. QED  BY <3>1, <3>2, <1>3, Zenon
  <2>5. new(o) = IF e.kind = "own" \/ (m.a = 0 /\ m.b = 0) THEN NoObject ELSE m
    <3> HIDE DEF as, bs, n, m, e
    <3>. QED  BY <2>4, Zenon
  <2>6. [r EXCEPT ![o] = new(o)] = [u \in Objs |-> new(u)]
    <3>1. \A u \in Objs : u # o => new(u) = r[u]
      BY <1>4, Zenon
    <3> HIDE DEF new, o
    <3>. QED  BY <3>1, <2>1
  <2> HIDE DEF new, m, o
  <2>. QED  BY <2>2, <2>5, <2>6, <1>1, Zenon
<1>. QED  BY <1>5, <1>6, Zenon

(* process_fd_share_ref is the copying loop of fork for one descriptor.    *)
LEMMA RetainOne ==
    ASSUME NEW r \in [Objs -> Objects], NEW ent \in Rows, NEW fd \in Fds,
           ent[fd].obj # None => ent[fd].kind # "own"
    PROVE  Retain(r, ent[fd]) = RetainAll(r, ent, {fd})
<1> DEFINE e == ent[fd]
           as(o) == Pointing(ent, {fd}, o, "a")
           bs(o) == Pointing(ent, {fd}, o, "b")
           new(o) == [r[o] EXCEPT !.a = @ + Cardinality(as(o)), !.b = @ + Cardinality(bs(o))]
<1>0. \A o : One(ent, fd, o, "a") /\ One(ent, fd, o, "b")
  BY OnePointing, Zenon
<1>1. RetainAll(r, ent, {fd}) = [o \in Objs |-> new(o)]
  BY Zenon DEF RetainAll
<1>2. e \in Entries
  BY Zenon DEF Rows
<1>3. e.obj \in Objs \cup {None} /\ e.end \in {"a", "b"} /\ None \notin Objs
  BY <1>2, FdAssumption DEF Entries
<1>4. ASSUME NEW o \in Objs, e.obj # o PROVE new(o) = r[o]
  <2>1. Cardinality(as(o)) = 0 /\ Cardinality(bs(o)) = 0
    BY <1>4, <1>0, Zenon DEF One
  <2>2. r[o] \in Objects
    OBVIOUS
  <2>3. r[o] = [r[o] EXCEPT !.a = @ + 0, !.b = @ + 0]
    BY <2>2, ObjectFields, Zenon
  <2>. QED  BY <2>1, <2>3, Zenon
<1>5. CASE e.obj = None
  <2>1. \A o \in Objs : new(o) = r[o]
    BY <1>3, <1>4, <1>5, Zenon
  <2>2. [o \in Objs |-> new(o)] = r
    <3> HIDE DEF new
    <3>. QED  BY <2>1
  <2>. QED  BY <2>2, <1>1, <1>5, Zenon DEF Retain
<1>6. CASE e.obj # None
  <2> DEFINE o == e.obj
             x == r[o]
             m == IF e.end = "a" THEN [x EXCEPT !.a = @ + 1] ELSE [x EXCEPT !.b = @ + 1]
  <2>1. o \in Objs /\ x \in Objects /\ e.kind # "own"
    BY <1>3, <1>6, Zenon
  <2>2. Retain(r, e) = [r EXCEPT ![o] = m]
    <3>1. CASE e.end = "a"
      BY <2>1, <1>6, <3>1, Zenon DEF Retain
    <3>2. CASE e.end # "a"
      BY <2>1, <1>6, <3>2, Zenon DEF Retain
    <3>. QED  BY <3>1, <3>2, Zenon
  <2>3. m = new(o)
    <3>0. "a" # "b"
      OBVIOUS
    <3>1. CASE e.end = "a"
      <4>1. Cardinality(as(o)) = 1 /\ Cardinality(bs(o)) = 0
        BY <3>0, <3>1, <1>0, Zenon DEF One
      <4>2. m = [x EXCEPT !.a = @ + 1, !.b = @ + 0]
        <5> HIDE DEF x
        <5>. QED  BY <3>1, <2>1, ObjectFields, Zenon
      <4>. QED  BY <4>1, <4>2, Zenon
    <3>2. CASE e.end = "b"
      <4>1. Cardinality(as(o)) = 0 /\ Cardinality(bs(o)) = 1
        BY <3>0, <3>2, <1>0, Zenon DEF One
      <4>2. m = [x EXCEPT !.a = @ + 0, !.b = @ + 1]
        <5> HIDE DEF x
        <5>. QED  BY <3>0, <3>2, <2>1, ObjectFields, Zenon
      <4>. QED  BY <4>1, <4>2, Zenon
    <3>. QED  BY <3>1, <3>2, <1>3, Zenon
  <2>4. [r EXCEPT ![o] = new(o)] = [u \in Objs |-> new(u)]
    <3>1. \A u \in Objs : u # o => new(u) = r[u]
      BY <1>4, Zenon
    <3> HIDE DEF new, o
    <3>. QED  BY <3>1, <2>1
  <2> HIDE DEF new, m, o
  <2>. QED  BY <2>2, <2>3, <2>4, <1>1, Zenon
<1>. QED  BY <1>5, <1>6, Zenon

(* process_fd_close on one entry.                                          *)
LEMMA CloseOne ==
    ASSUME NEW en, NEW r, Agree(en, r), NEW p \in Procs, NEW fd \in Fds
    PROVE  Agree([en EXCEPT ![p] = [en[p] EXCEPT ![fd] = Closed]], Release(r, en[p][fd]))
<1>1. /\ en \in [Procs -> Rows] /\ r \in [Objs -> Objects] /\ Fits(r, en[p][fd])
  BY Zenon DEF Agree
<1>2. en[p] \in Rows
  BY <1>1, Zenon
<1>3. Release(r, en[p][fd]) = ReleaseAll(r, en[p], {fd})
  BY <1>1, <1>2, ReleaseOne, Zenon
<1>4. [en[p] EXCEPT ![fd] = Closed]
        = [i \in Fds |-> IF i \in {fd} THEN Closed ELSE en[p][i]]
  BY <1>2 DEF Rows
<1>5. {fd} \in SUBSET Fds
  OBVIOUS
<1>6. Agree([en EXCEPT ![p] = [i \in Fds |-> IF i \in {fd} THEN Closed ELSE en[p][i]]],
            ReleaseAll(r, en[p], {fd}))
  BY <1>5, LoseAll, Zenon
<1>. QED  BY <1>3, <1>4, <1>6, Zenon

(* A reference more, in an entry that pointed at nothing.                  *)
LEMMA AddOne ==
    ASSUME NEW en, NEW r, Agree(en, r), NEW p \in Procs, NEW fd \in Fds,
           en[p][fd].obj = None, NEW e \in Entries, Fits(r, e),
           e.obj # None => e.kind # "own"
    PROVE  Agree([en EXCEPT ![p] = [en[p] EXCEPT ![fd] = e]], Retain(r, e))
<1> DEFINE ent == [en[p] EXCEPT ![fd] = e]
<1>1. en \in [Procs -> Rows] /\ r \in [Objs -> Objects]
  BY Zenon DEF Agree
<1>2. en[p] \in Rows
  BY <1>1, Zenon
<1>3. ent \in Rows /\ ent[fd] = e /\ \A i \in Fds \ {fd} : ent[i] = en[p][i]
  BY <1>2 DEF Rows
<1> HIDE DEF ent
<1>4. Replaced(en, p, {fd}, ent)
  BY <1>3, Zenon DEF Replaced
<1>5. \A i \in {fd} : Fits(r, ent[i]) /\ (ent[i].obj # None => ent[i].kind # "own")
  BY <1>3, Zenon
<1>6. {fd} \in SUBSET Fds
  OBVIOUS
<1>7. Agree([en EXCEPT ![p] = ent], RetainAll(r, ent, {fd}))
  BY <1>4, <1>5, <1>6, GainAll, Zenon
<1>8. Retain(r, ent[fd]) = RetainAll(r, ent, {fd})
  BY <1>1, <1>3, RetainOne, Zenon
<1>. QED  BY <1>3, <1>7, <1>8, Zenon DEF ent

(* The copy of an entry that dup, fork and spawn make.                     *)
LEMMA SharedFits ==
    ASSUME NEW r, NEW e \in Entries, Fits(r, e), NEW cl \in BOOLEAN
    PROVE  /\ Shared(e, cl) \in Entries /\ Fits(r, Shared(e, cl))
           /\ Shared(e, cl).obj # None => Shared(e, cl).kind # "own"
<1> DEFINE c == Shared(e, cl)
<1>1. /\ c \in Entries /\ c.kind = e.kind /\ c.end = e.end
      /\ c.obj = IF e.kind = "own" THEN None ELSE e.obj
  BY DEF Shared, Entries
<1> HIDE DEF c
<1>2. c.obj # None => c.obj = e.obj /\ c.kind # "own"
  BY <1>1, Zenon
<1>. QED  BY <1>1, <1>2, Zenon DEF Fits, c

-----------------------------------------------------------------------------
(* What process_fd_table_is_valid asks of one table.                       *)
Sound(T) ==
    /\ T \in Tables
    /\ T.cap <= T.limit /\ T.limit <= HardLimit
    /\ \A fd \in Fds : fd >= T.cap => T.ent[fd] = Closed

(* The larger table holds the same entries.                                *)
Larger(T, G, min) ==
    /\ Sound(G) /\ G.ent = T.ent /\ G.limit = T.limit
    /\ G.cap >= min /\ G.cap >= T.cap

(* process_fd_table_grow keeps the entries and makes room for min.         *)
LEMMA Grown ==
    ASSUME NEW T, Sound(T), NEW min \in Nat, CanGrow(T, min)
    PROVE  Larger(T, Grow(T, min), min)
<1> DEFINE want == Max({2 * T.cap, min})
           G == [T EXCEPT !.cap = IF want > T.limit THEN T.limit ELSE want]
<1>1. T \in Tables /\ T.cap \in Nat /\ T.limit \in Nat
  BY DEF Sound, Tables
<1>2. 2 * T.cap \in Nat
  BY <1>1
<1>3. want \in Nat /\ want >= 2 * T.cap /\ want >= min
  BY <1>2, MaxOfTwo, Zenon
<1>4. T.cap < T.limit /\ min <= T.limit
  BY Zenon DEF CanGrow
<1> HIDE DEF want
<1> DEFINE c == IF want > T.limit THEN T.limit ELSE want
<1>5. c \in Nat /\ c >= min /\ c >= T.cap /\ c <= T.limit
  BY <1>1, <1>3, <1>4
<1>6. G \in Tables /\ G.ent = T.ent /\ G.limit = T.limit /\ G.cap = c
  <2> HIDE DEF c
  <2>. QED  BY <1>1, <1>5 DEF Tables, c
<1> HIDE DEF c, G
<1>7. Sound(G)
  <2>1. ASSUME NEW fd \in Fds, fd >= G.cap PROVE T.ent[fd] = Closed
    <3>1. fd >= T.cap
      BY <2>1, <1>1, <1>5, <1>6 DEF Fds
    <3>. QED  BY <3>1, Zenon DEF Sound
  <2>2. T.limit <= HardLimit
    BY Zenon DEF Sound
  <2>. QED  BY <2>1, <2>2, <1>5, <1>6, Zenon DEF Sound
<1>8. Larger(T, G, min)
  BY <1>5, <1>6, <1>7, Zenon DEF Larger
<1>. QED  BY <1>8, Zenon DEF Grow, G, want

(* process_fd_alloc_entry finds room.                                      *)
Roomy(T, R) ==
    /\ Sound(R) /\ R.ent = T.ent /\ R.limit = T.limit /\ R.cap >= T.cap
    /\ Lowest(R) \in Fds /\ First <= Lowest(R) /\ Lowest(R) < R.cap
    /\ R.ent[Lowest(R)] = Closed

(* The scan for the lowest free number from min up finds a closed entry of *)
(* the table.                                                              *)
LEMMA LowestFree ==
    ASSUME NEW T, NEW min, FreeFrom(T, min) # {}
    PROVE  /\ Min(FreeFrom(T, min)) \in Fds /\ min <= Min(FreeFrom(T, min))
           /\ Min(FreeFrom(T, min)) < T.cap /\ T.ent[Min(FreeFrom(T, min))] = Closed
<1>1. FreeFrom(T, min) \in SUBSET Nat
  BY DEF FreeFrom, Fds
<1>2. Min(FreeFrom(T, min)) \in FreeFrom(T, min)
  BY <1>1, MinIsLeast, Zenon
<1>. QED  BY <1>2, Zenon DEF FreeFrom

(* A table that grew by one entry or more has a free one.                  *)
LEMMA GrownFree ==
    ASSUME NEW T, Sound(T), NEW min \in Nat, min <= T.cap, CanGrow(T, T.cap + 1)
    PROVE  /\ Larger(T, Grow(T, T.cap + 1), T.cap + 1)
           /\ FreeFrom(Grow(T, T.cap + 1), min) # {}
<1> DEFINE G == Grow(T, T.cap + 1)
<1>1. T.cap \in Nat /\ T.limit \in Nat /\ T.limit <= HardLimit
  BY DEF Sound, Tables
<1>2. T.cap + 1 \in Nat
  BY <1>1
<1>3. Larger(T, G, T.cap + 1)
  BY <1>2, Grown, Zenon
<1>4. G.cap \in Nat /\ G.ent = T.ent /\ G.cap >= T.cap + 1
  <2> HIDE DEF G
  <2>. QED  BY <1>3 DEF Larger, Sound, Tables
<1>5. T.cap < T.limit
  BY Zenon DEF CanGrow
<1> HIDE DEF G
<1>6. T.cap \in Fds /\ T.cap < G.cap /\ T.cap >= T.cap
  BY <1>1, <1>4, <1>5, FdAssumption DEF Fds
<1>7. G.ent[T.cap] = Closed
  BY <1>4, <1>6, Zenon DEF Sound
<1>8. T.cap \in FreeFrom(G, min)
  BY <1>6, <1>7, Zenon DEF FreeFrom
<1>. QED  BY <1>3, <1>8, Zenon DEF G

(* process_fd_alloc_entry finds a closed entry above the standard ones, in *)
(* the table or in the one it grew.                                        *)
LEMMA Readied ==
    ASSUME NEW T, Sound(T), InitialCap <= T.cap, CanAlloc(T)
    PROVE  Roomy(T, Ready(T))
<1> DEFINE R == Ready(T)
<1>0. First \in Nat /\ First <= T.cap /\ T.cap \in Nat /\ T.cap >= T.cap
  <2>1. T.cap \in Nat
    BY DEF Sound, Tables
  <2>. QED  BY <2>1, FdAssumption
<1>1. Sound(R) /\ R.ent = T.ent /\ R.limit = T.limit /\ R.cap >= T.cap /\ FreeFrom(R, First) # {}
  <2>1. CASE FreeFrom(T, First) # {}
    <3>1. R = T
      BY <2>1, Zenon DEF Ready
    <3> HIDE DEF R
    <3>. QED  BY <2>1, <3>1, <1>0, Zenon
  <2>2. CASE FreeFrom(T, First) = {}
    <3>1. R = Grow(T, T.cap + 1) /\ CanGrow(T, T.cap + 1)
      BY <2>2, Zenon DEF Ready, CanAlloc
    <3>2. Larger(T, Grow(T, T.cap + 1), T.cap + 1) /\ FreeFrom(Grow(T, T.cap + 1), First) # {}
      BY <3>1, <1>0, GrownFree, Zenon
    <3> HIDE DEF R
    <3>. QED  BY <3>1, <3>2, Zenon DEF Larger
  <2>. QED  BY <2>1, <2>2, Zenon
<1> HIDE DEF R
<1>2. Ready(R) = R
  BY <1>1, Zenon DEF Ready
<1>3. Lowest(R) = Min(FreeFrom(R, First))
  BY <1>2, Zenon DEF Lowest
<1>4. /\ Lowest(R) \in Fds /\ First <= Lowest(R) /\ Lowest(R) < R.cap
      /\ R.ent[Lowest(R)] = Closed
  BY <1>1, <1>3, LowestFree, Zenon
<1>. QED  BY <1>1, <1>4, Zenon DEF Roomy, R

(* A table with one entry written.                                         *)
Written(T, P, fd, e) ==
    /\ Sound(P) /\ P.cap = T.cap /\ P.limit = T.limit
    /\ P.ent = [T.ent EXCEPT ![fd] = e]
    /\ P.ent[fd] = e /\ \A i \in Fds : i # fd => P.ent[i] = T.ent[i]

(* Writing an entry inside the capacity keeps the table sound.             *)
LEMMA PutOK ==
    ASSUME NEW T, Sound(T), NEW fd \in Fds, fd < T.cap, NEW e \in Entries
    PROVE  Written(T, PutEntry(T, fd, e), fd, e)
<1> DEFINE P == [T EXCEPT !.ent[fd] = e]
<1>1. T \in Tables /\ T.ent \in Rows /\ T.cap \in Nat
  BY DEF Sound, Tables
<1>2. P = [T EXCEPT !.ent = [T.ent EXCEPT ![fd] = e]]
  OBVIOUS
<1>3. [T.ent EXCEPT ![fd] = e] \in Rows
  BY <1>1 DEF Rows
<1> DEFINE n == [T.ent EXCEPT ![fd] = e]
<1>4. n[fd] = e /\ \A i \in Fds : i # fd => n[i] = T.ent[i]
  BY <1>1 DEF Rows
<1> HIDE DEF n
<1>5. P \in Tables /\ P.cap = T.cap /\ P.limit = T.limit /\ P.ent = n
  <2>1. P = [T EXCEPT !.ent = n]
    BY <1>2, Zenon DEF n
  <2> HIDE DEF P
  <2>. QED  BY <1>1, <1>3, <2>1 DEF Tables, n
<1> HIDE DEF P
<1>6. ASSUME NEW i \in Fds, i >= T.cap PROVE n[i] = Closed
  <2>1. i # fd
    BY <1>1, <1>6 DEF Fds
  <2>. QED  BY <2>1, <1>4, <1>6, Zenon DEF Sound
<1>7. Sound(P)
  BY <1>5, <1>6, Zenon DEF Sound
<1>8. Written(T, P, fd, e)
  BY <1>4, <1>5, <1>7, Zenon DEF Written, n
<1>. QED  BY <1>8, Zenon DEF PutEntry, P

(* process_fd_table_init makes a sound table that points at nothing.       *)
LEMMA FreshTables ==
    /\ Sound(NewTable) /\ NewTable.cap = InitialCap /\ Sound(NoTable)
    /\ \A fd \in Fds : NewTable.ent[fd].obj = None /\ NoTable.ent[fd].obj = None
<1>1. Console \in Entries /\ Closed \in Entries /\ Console.obj = None /\ Closed.obj = None
  BY DEF Console, Closed, FdEntry, Entries
<1> HIDE DEF Console, Closed
<1>2. NewTable \in Tables /\ NoTable \in Tables
  BY <1>1, FdAssumption DEF NewTable, NoTable, Tables, Rows
<1>3. \A fd \in Fds : NewTable.ent[fd].obj = None /\ NoTable.ent[fd].obj = None
  BY <1>1 DEF NewTable, NoTable
<1>4. \A fd \in Fds : fd >= InitialCap => NewTable.ent[fd] = Closed
  BY FdAssumption DEF NewTable, Fds
<1>5. \A fd \in Fds : NoTable.ent[fd] = Closed
  BY DEF NoTable
<1>6. NewTable.cap = InitialCap /\ NewTable.limit = DefaultLimit /\ NoTable.cap = 0 /\ NoTable.limit = 0
  BY DEF NewTable, NoTable
<1> HIDE DEF NewTable, NoTable
<1>. QED  BY <1>2, <1>3, <1>4, <1>5, <1>6, FdAssumption DEF Sound

-----------------------------------------------------------------------------
(* One descriptor for a new file, socket or frame.                         *)
LEMMA NewOne ==
    ASSUME NEW en, NEW r, Agree(en, r), NEW p \in Procs, NEW fd \in Fds,
           en[p][fd].obj = None, NEW o \in Objs, r[o] = NoObject,
           NEW e \in Entries, e.obj = o, e.end = "a", e.kind \in {"shared", "own"}
    PROVE  Agree([en EXCEPT ![p] = [en[p] EXCEPT ![fd] = e]],
                 [r EXCEPT ![o] = [kind |-> e.kind, a |-> 1, b |-> 0]])
<1> DEFINE ent == [en[p] EXCEPT ![fd] = e]
           x == [kind |-> e.kind, a |-> 1, b |-> 0]
<1>1. en[p] \in Rows
  BY Zenon DEF Agree
<1>2. ent \in Rows /\ ent[fd] = e /\ \A i \in Fds \ {fd} : ent[i] = en[p][i]
  BY <1>1 DEF Rows
<1>3. x \in Objects /\ x.kind = e.kind /\ Counts(x, 1, 0)
  BY DEF Objects, Counts, NoObject
<1>4. e.kind \in {"shared", "pair", "own"} /\ "a" # "b" /\ {fd} \in SUBSET Fds
  OBVIOUS
<1> HIDE DEF ent, x
<1>5. One(ent, fd, o, "a") /\ One(ent, fd, o, "b")
  BY OnePointing, Zenon
<1>6. /\ Cardinality(Pointing(ent, {fd}, o, "a")) = 1
      /\ Cardinality(Pointing(ent, {fd}, o, "b")) = 0
  BY <1>2, <1>4, <1>5, Zenon DEF One
<1>7. Counts(x, Cardinality(Pointing(ent, {fd}, o, "a")),
                Cardinality(Pointing(ent, {fd}, o, "b")))
  BY <1>3, <1>6, Zenon
<1>8. Replaced(en, p, {fd}, ent)
  BY <1>2, Zenon DEF Replaced
<1>9. \A i \in {fd} : /\ ent[i].obj \in {None, o}
                      /\ ent[i].kind = x.kind /\ x.kind \in {"shared", "pair", "own"}
                      /\ ent[i].end = "a"
  BY <1>2, <1>3, <1>4, Zenon
<1>10. Held(ent, {fd}, o, x)
  BY <1>7, <1>9, Zenon DEF Held
<1>11. Agree([en EXCEPT ![p] = ent], [r EXCEPT ![o] = x])
  BY <1>3, <1>4, <1>8, <1>10, NewObject, Zenon
<1>. QED  BY <1>11, Zenon DEF ent, x

(* Two descriptors for a new pipe or pseudo-terminal, or one when the      *)
(* table moved between them.                                               *)
LEMMA NewPair ==
    ASSUME NEW en, NEW r, Agree(en, r), NEW p \in Procs, NEW fd \in Fds, NEW gd \in Fds,
           fd # gd, en[p][fd].obj = None, en[p][gd].obj = None,
           NEW o \in Objs, r[o] = NoObject,
           NEW e \in Entries, NEW f \in Entries,
           e.obj = None \/ (e.obj = o /\ e.kind = "pair" /\ e.end = "a"),
           f.obj = o, f.kind = "pair", f.end = "b"
    PROVE  Agree([en EXCEPT ![p] = [[en[p] EXCEPT ![fd] = e] EXCEPT ![gd] = f]],
                 [r EXCEPT ![o] = [kind |-> "pair", a |-> 1, b |-> 1]])
<1> DEFINE ent == [[en[p] EXCEPT ![fd] = e] EXCEPT ![gd] = f]
           x == [kind |-> "pair", a |-> 1, b |-> 1]
           as == Pointing(ent, {fd, gd}, o, "a")
           bs == Pointing(ent, {fd, gd}, o, "b")
<1>1. en[p] \in Rows
  BY Zenon DEF Agree
<1>2. ent \in Rows /\ ent[fd] = e /\ ent[gd] = f /\ \A i \in Fds \ {fd, gd} : ent[i] = en[p][i]
  BY <1>1 DEF Rows
<1>3. x \in Objects /\ x.kind = "pair" /\ Counts(x, 1, 1) /\ Counts(x, 0, 1)
  BY DEF Objects, Counts, NoObject
<1>4. "pair" \in {"shared", "pair", "own"} /\ "a" # "b" /\ {fd, gd} \in SUBSET Fds
  OBVIOUS
<1>5. o # None
  BY FdAssumption, Zenon
<1> HIDE DEF ent, x
<1>6. bs = {gd}
  BY <1>2, <1>4, <1>5, Zenon DEF Pointing
<1>7. as = {} \/ as = {fd}
  <2>1. as = IF e.obj = o /\ e.end = "a" THEN {fd} ELSE {}
    BY <1>2, <1>4, Zenon DEF Pointing
  <2>. QED  BY <2>1, Zenon
<1> HIDE DEF as, bs
<1>8. Cardinality(bs) = 1 /\ (Cardinality(as) = 0 \/ Cardinality(as) = 1)
  BY <1>6, <1>7, FS_Singleton, FS_EmptySet, Zenon
<1>9. Counts(x, Cardinality(as), Cardinality(bs))
  BY <1>3, <1>8, Zenon
<1>10. Replaced(en, p, {fd, gd}, ent)
  BY <1>2, Zenon DEF Replaced
<1>11. \A i \in {fd, gd} : ent[i].obj \in {None, o}
  BY <1>2, Zenon
<1>12. \A i \in {fd, gd} : ent[i].obj = o =>
               /\ ent[i].kind = x.kind /\ x.kind \in {"shared", "pair", "own"}
               /\ x.kind # "pair" => ent[i].end = "a"
  BY <1>2, <1>3, <1>4, <1>5, Zenon
<1>13. Held(ent, {fd, gd}, o, x)
  BY <1>9, <1>11, <1>12, Zenon DEF Held, as, bs
<1>14. Agree([en EXCEPT ![p] = ent], [r EXCEPT ![o] = x])
  BY <1>3, <1>4, <1>10, <1>13, NewObject, Zenon
<1>. QED  BY <1>14, Zenon DEF ent, x

-----------------------------------------------------------------------------
(* The inductive invariant.  A table is sound whatever the state of its    *)
(* process, the table of one that has not been created or has exited       *)
(* points at nothing, and the counts agree with all the tables together.   *)
FdInv ==
    /\ state \in [Procs -> {"unused", "live", "zombie"}]
    /\ table \in [Procs -> Tables]
    /\ \A p \in Procs :
          /\ Sound(table[p])
          /\ state[p] # "unused" => InitialCap <= table[p].cap
          /\ state[p] # "live" => \A fd \in Fds : table[p].ent[fd].obj = None
    /\ Agree(Ents, refs)

Growth ==
    \A p \in Procs :
         state[p] = "live" /\ table'[p].cap > table[p].cap
            => \A fd \in Fds : Open(table[p], fd) => table'[p].ent[fd] = table[p].ent[fd]

Stepped == FdInv' /\ Growth

(* A step that gives process p the table T and the state s.                *)
LEMMA StepInv ==
    ASSUME FdInv, NEW p \in Procs, NEW T, NEW s \in {"unused", "live", "zombie"},
           table' = [table EXCEPT ![p] = T], state' = [state EXCEPT ![p] = s],
           Sound(T), s # "unused" => InitialCap <= T.cap,
           s # "live" => \A fd \in Fds : T.ent[fd].obj = None,
           Agree([Ents EXCEPT ![p] = T.ent], refs'),
           state[p] = "live" /\ T.cap > table[p].cap
              => \A fd \in Fds : Open(table[p], fd) => T.ent[fd] = table[p].ent[fd]
    PROVE  Stepped
<1>1. /\ state \in [Procs -> {"unused", "live", "zombie"}] /\ table \in [Procs -> Tables]
      /\ \A q \in Procs :
            /\ Sound(table[q])
            /\ state[q] # "unused" => InitialCap <= table[q].cap
            /\ state[q] # "live" => \A fd \in Fds : table[q].ent[fd].obj = None
  BY Zenon DEF FdInv
<1>2. T \in Tables
  BY Zenon DEF Sound
<1>3. /\ table' \in [Procs -> Tables] /\ table'[p] = T
      /\ \A q \in Procs : q # p => table'[q] = table[q]
  BY <1>1, <1>2
<1>4. /\ state' \in [Procs -> {"unused", "live", "zombie"}] /\ state'[p] = s
      /\ \A q \in Procs : q # p => state'[q] = state[q]
  BY <1>1
<1>5. Ents' = [Ents EXCEPT ![p] = T.ent]
  <2>1. \A q \in Procs : table'[q].ent = IF q = p THEN T.ent ELSE table[q].ent
    BY <1>3, Zenon
  <2>. QED  BY <2>1 DEF Ents
<1>6. Agree(Ents', refs')
  BY <1>5, Zenon
<1>7. \A q \in Procs :
         /\ Sound(table'[q])
         /\ state'[q] # "unused" => InitialCap <= table'[q].cap
         /\ state'[q] # "live" => \A fd \in Fds : table'[q].ent[fd].obj = None
  BY <1>1, <1>3, <1>4, Zenon
<1>8. FdInv'
  BY <1>3, <1>4, <1>6, <1>7, Zenon DEF FdInv
<1>9. ASSUME NEW q \in Procs, table'[q].cap > table[q].cap, q # p PROVE FALSE
  <2>1. table'[q] = table[q] /\ table[q].cap \in Nat
    BY <1>1, <1>3, <1>9 DEF Tables
  <2>. QED  BY <2>1, <1>9
<1>10. Growth
  BY <1>3, <1>9, Zenon DEF Growth
<1>. QED  BY <1>8, <1>10, Zenon DEF Stepped

(* What the table of a running process satisfies.                          *)
LEMMA LiveFacts ==
    ASSUME FdInv, NEW p \in Procs, Live(p)
    PROVE  /\ Sound(table[p]) /\ InitialCap <= table[p].cap
           /\ table[p] \in Tables /\ table[p].cap \in Nat /\ table[p].limit \in Nat
           /\ table[p].ent \in Rows
           /\ Agree(Ents, refs) /\ Ents[p] = table[p].ent
<1>1. /\ Sound(table[p]) /\ Agree(Ents, refs) /\ Ents[p] = table[p].ent
      /\ state[p] = "live" /\ (state[p] # "unused" => InitialCap <= table[p].cap)
  BY Zenon DEF FdInv, Live, Ents
<1>2. state[p] # "unused"
  BY <1>1
<1>3. table[p] \in Tables
  BY <1>1, Zenon DEF Sound
<1>. QED  BY <1>1, <1>2, <1>3 DEF Tables

(* A call of a running process.                                            *)
LEMMA LiveStep ==
    ASSUME FdInv, NEW p \in Procs, Live(p), NEW T,
           table' = [table EXCEPT ![p] = T], state' = state,
           Sound(T), InitialCap <= T.cap,
           Agree([Ents EXCEPT ![p] = T.ent], refs'),
           T.cap > table[p].cap
              => \A fd \in Fds : Open(table[p], fd) => T.ent[fd] = table[p].ent[fd]
    PROVE  Stepped
<1>1. state \in [Procs -> {"unused", "live", "zombie"}] /\ state[p] = "live"
  BY Zenon DEF FdInv, Live
<1>2. [state EXCEPT ![p] = "live"] = state
  BY <1>1
<1>3. "live" \in {"unused", "live", "zombie"}
  OBVIOUS
<1>4. state' = [state EXCEPT ![p] = "live"]
  BY <1>2, Zenon
<1>. QED  BY <1>3, <1>4, StepInv, Zenon

-----------------------------------------------------------------------------
(* The entries of a process that is not running point at nothing.          *)
LEMMA IdleFacts ==
    ASSUME FdInv, NEW p \in Procs, state[p] # "live"
    PROVE  /\ Agree(Ents, refs) /\ Ents[p] = table[p].ent
           /\ \A fd \in Fds : Ents[p][fd].obj = None
  BY Zenon DEF FdInv, Ents

(* process_create keeps the invariant.                                     *)
LEMMA CreateStep ==
    ASSUME FdInv, NEW p \in Procs, Create(p)
    PROVE  Stepped
<1>1. /\ state[p] = "unused" /\ table' = [table EXCEPT ![p] = NewTable]
      /\ state' = [state EXCEPT ![p] = "live"] /\ refs' = refs
  BY Zenon DEF Create, SetTable
<1>2. state[p] # "live" /\ "live" \in {"unused", "live", "zombie"}
  BY <1>1
<1>3. /\ Agree(Ents, refs) /\ \A fd \in Fds : Ents[p][fd].obj = None
  BY <1>2, IdleFacts, Zenon
<1>4. /\ Sound(NewTable) /\ NewTable.cap = InitialCap
      /\ \A fd \in Fds : NewTable.ent[fd].obj = None
  BY FreshTables, Zenon
<1>5. NewTable.ent \in Rows
  BY <1>4 DEF Sound, Tables
<1>6. InitialCap <= NewTable.cap
  BY <1>4, FdAssumption
<1>7. Agree([Ents EXCEPT ![p] = NewTable.ent], refs')
  <2>1. Alike(Ents[p], NewTable.ent)
    BY <1>3, <1>4, Zenon DEF Alike
  <2>. QED  BY <2>1, <1>1, <1>3, <1>5, SamePointers, Zenon
<1>. QED  BY <1>1, <1>2, <1>4, <1>6, <1>7, StepInv, Zenon

(* process_destroy frees a table that points at nothing.                   *)
LEMMA ReapStep ==
    ASSUME FdInv, NEW p \in Procs, Reap(p)
    PROVE  Stepped
<1>1. /\ state[p] = "zombie" /\ table' = [table EXCEPT ![p] = NoTable]
      /\ state' = [state EXCEPT ![p] = "unused"] /\ refs' = refs
  BY Zenon DEF Reap, SetTable
<1>2. state[p] # "live" /\ "unused" \in {"unused", "live", "zombie"}
  BY <1>1
<1>3. /\ Agree(Ents, refs) /\ \A fd \in Fds : Ents[p][fd].obj = None
  BY <1>2, IdleFacts, Zenon
<1>4. Sound(NoTable) /\ \A fd \in Fds : NoTable.ent[fd].obj = None
  BY FreshTables, Zenon
<1>5. NoTable.ent \in Rows
  BY <1>4 DEF Sound, Tables
<1>6. Agree([Ents EXCEPT ![p] = NoTable.ent], refs')
  <2>1. Alike(Ents[p], NoTable.ent)
    BY <1>3, <1>4, Zenon DEF Alike
  <2>. QED  BY <2>1, <1>1, <1>3, <1>5, SamePointers, Zenon
<1>. QED  BY <1>1, <1>2, <1>4, <1>6, StepInv, Zenon

(* A table whose entries S are closed.                                     *)
Emptied(T, P, S) ==
    /\ Sound(P) /\ P.cap = T.cap /\ P.limit = T.limit
    /\ P.ent = [fd \in Fds |-> IF fd \in S THEN Closed ELSE T.ent[fd]]

(* Closing entries keeps a table sound.                                    *)
LEMMA ClosedAll ==
    ASSUME NEW T, Sound(T), NEW S
    PROVE  Emptied(T, CloseAll(T, S), S)
<1> DEFINE n == [fd \in Fds |-> IF fd \in S THEN Closed ELSE T.ent[fd]]
           P == [T EXCEPT !.ent = n]
<1>1. T \in Tables /\ T.ent \in Rows
  BY DEF Sound, Tables
<1>2. Closed \in Entries
  BY DEF Closed, FdEntry, Entries
<1>3. n \in Rows
  <2> HIDE DEF Closed
  <2>. QED  BY <1>1, <1>2 DEF Rows
<1>4. \A fd \in Fds : fd >= T.cap => n[fd] = Closed
  BY Zenon DEF Sound
<1> HIDE DEF n
<1>5. P \in Tables /\ P.cap = T.cap /\ P.limit = T.limit /\ P.ent = n
  BY <1>1, <1>3 DEF Tables
<1> HIDE DEF P
<1>6. Sound(P)
  BY <1>4, <1>5, Zenon DEF Sound
<1>7. Emptied(T, P, S)
  BY <1>5, <1>6, Zenon DEF Emptied, n
<1>. QED  BY <1>7, Zenon DEF CloseAll, P, n

(* What closing the entries S of process p comes to.                       *)
LEMMA EmptiedAgree ==
    ASSUME FdInv, NEW p \in Procs, Live(p), NEW S \in SUBSET Fds
    PROVE  /\ Emptied(table[p], CloseAll(table[p], S), S)
           /\ Agree([Ents EXCEPT ![p] = CloseAll(table[p], S).ent],
                    ReleaseAll(refs, table[p].ent, S))
<1>1. Sound(table[p]) /\ Agree(Ents, refs) /\ Ents[p] = table[p].ent
  BY LiveFacts, Zenon
<1>2. Emptied(table[p], CloseAll(table[p], S), S)
  BY <1>1, ClosedAll, Zenon
<1>3. CloseAll(table[p], S).ent = [fd \in Fds |-> IF fd \in S THEN Closed ELSE Ents[p][fd]]
  BY <1>1, <1>2, Zenon DEF Emptied
<1>4. Agree([Ents EXCEPT ![p] = [fd \in Fds |-> IF fd \in S THEN Closed ELSE Ents[p][fd]]],
            ReleaseAll(refs, Ents[p], S))
  BY <1>1, LoseAll, Zenon
<1>. QED  BY <1>1, <1>2, <1>3, <1>4, Zenon

(* A successful execve gives back one reference for each close-on-exec     *)
(* descriptor.                                                             *)
LEMMA ExecStep ==
    ASSUME FdInv, NEW p \in Procs, Exec(p)
    PROVE  Stepped
<1> DEFINE S == {fd \in OpenFds(table[p]) : table[p].ent[fd].cloexec}
           P == CloseAll(table[p], S)
<1>1. /\ Live(p) /\ table' = [table EXCEPT ![p] = P] /\ state' = state
      /\ refs' = ReleaseAll(refs, table[p].ent, S)
  BY Zenon DEF Exec, SetTable
<1>2. S \in SUBSET Fds
  BY Zenon DEF OpenFds
<1> HIDE DEF S
<1>3. Emptied(table[p], P, S) /\ Agree([Ents EXCEPT ![p] = P.ent], refs')
  BY <1>1, <1>2, EmptiedAgree, Zenon
<1>4. InitialCap <= table[p].cap /\ table[p].cap \in Nat
  BY <1>1, LiveFacts, Zenon
<1>5. Sound(P) /\ P.cap = table[p].cap
  BY <1>3, Zenon DEF Emptied
<1> HIDE DEF P
<1>6. InitialCap <= P.cap /\ ~(P.cap > table[p].cap)
  BY <1>4, <1>5
<1>. QED  BY <1>1, <1>3, <1>5, <1>6, LiveStep, Zenon

(* process_release_exit_resources gives back every reference, so the table *)
(* of a zombie points at nothing.                                          *)
LEMMA ExitStep ==
    ASSUME FdInv, NEW p \in Procs, Exit(p)
    PROVE  Stepped
<1> DEFINE S == OpenFds(table[p])
           P == CloseAll(table[p], S)
<1>1. /\ Live(p) /\ table' = [table EXCEPT ![p] = P]
      /\ state' = [state EXCEPT ![p] = "zombie"]
      /\ refs' = ReleaseAll(refs, table[p].ent, S)
  BY Zenon DEF Exit, SetTable
<1>2. S \in SUBSET Fds
  BY Zenon DEF OpenFds
<1>3. Emptied(table[p], P, S) /\ Agree([Ents EXCEPT ![p] = P.ent], refs')
  <2> HIDE DEF S
  <2>. QED  BY <1>1, <1>2, EmptiedAgree, Zenon
<1>4. Sound(table[p]) /\ InitialCap <= table[p].cap /\ table[p].cap \in Nat
  BY <1>1, LiveFacts, Zenon
<1>5. /\ Sound(P) /\ P.cap = table[p].cap
      /\ P.ent = [fd \in Fds |-> IF fd \in S THEN Closed ELSE table[p].ent[fd]]
  <2> HIDE DEF S
  <2>. QED  BY <1>3, Zenon DEF Emptied
<1>6. Closed.obj = None
  BY DEF Closed, FdEntry
<1> HIDE DEF P
<1>7. ASSUME NEW fd \in Fds PROVE P.ent[fd].obj = None
  <2>1. CASE fd \in S
    BY <2>1, <1>5, <1>6, Zenon
  <2>2. CASE fd \notin S
    <3>1. ~(fd < table[p].cap) \/ table[p].ent[fd] = Closed
      BY <2>2, Zenon DEF OpenFds, Open
    <3>2. ~(fd < table[p].cap) => fd >= table[p].cap
      BY <1>4 DEF Fds
    <3>3. table[p].ent[fd] = Closed
      BY <3>1, <3>2, <1>4, Zenon DEF Sound
    <3>. QED  BY <2>2, <3>3, <1>5, <1>6, Zenon
  <2>. QED  BY <2>1, <2>2, Zenon
<1>8. /\ InitialCap <= P.cap /\ ~(P.cap > table[p].cap)
      /\ "zombie" \in {"unused", "live", "zombie"}
  BY <1>4, <1>5
<1> HIDE DEF S
<1>. QED  BY <1>1, <1>3, <1>5, <1>7, <1>8, StepInv, Zenon

(* A call that leaves what the descriptors of p point at.                  *)
LEMMA QuietStep ==
    ASSUME FdInv, NEW p \in Procs, Live(p), NEW T, Sound(T), table[p].cap <= T.cap,
           table' = [table EXCEPT ![p] = T], state' = state, refs' = refs,
           Alike(table[p].ent, T.ent),
           T.cap > table[p].cap
              => \A fd \in Fds : Open(table[p], fd) => T.ent[fd] = table[p].ent[fd]
    PROVE  Stepped
<1>1. /\ InitialCap <= table[p].cap /\ table[p].cap \in Nat
      /\ Agree(Ents, refs) /\ Ents[p] = table[p].ent
  BY LiveFacts, Zenon
<1>2. T.ent \in Rows /\ T.cap \in Nat
  BY DEF Sound, Tables
<1>3. InitialCap <= T.cap
  BY <1>1, <1>2, FdAssumption
<1>4. Alike(Ents[p], T.ent)
  BY <1>1, Zenon
<1>5. Agree([Ents EXCEPT ![p] = T.ent], refs')
  BY <1>1, <1>2, <1>4, SamePointers, Zenon
<1>. QED  BY <1>3, <1>5, LiveStep, Zenon

(* setrlimit moves the limit of a table, never below its capacity.         *)
LEMMA SetLimitStep ==
    ASSUME FdInv, NEW p \in Procs, NEW limit \in Limits, SetLimit(p, limit)
    PROVE  Stepped
<1> DEFINE T == [table[p] EXCEPT !.limit = limit]
<1>1. /\ Live(p) /\ table[p].cap <= limit /\ limit <= HardLimit
      /\ table' = [table EXCEPT ![p] = T] /\ state' = state /\ refs' = refs
  BY Zenon DEF SetLimit
<1>2. Sound(table[p]) /\ table[p] \in Tables /\ table[p].cap \in Nat
  BY <1>1, LiveFacts, Zenon
<1>3. limit \in Nat
  BY FdAssumption
<1>4. T \in Tables /\ T.cap = table[p].cap /\ T.ent = table[p].ent /\ T.limit = limit
  BY <1>2, <1>3 DEF Tables
<1> HIDE DEF T
<1>5. Sound(T)
  BY <1>1, <1>2, <1>4, Zenon DEF Sound
<1>6. table[p].cap <= T.cap
  BY <1>2, <1>4
<1>7. Alike(table[p].ent, T.ent)
  BY <1>4, Zenon DEF Alike
<1>. QED  BY <1>1, <1>4, <1>5, <1>6, <1>7, QuietStep, Zenon

(* Writing an entry e in place of one that points at the same end.         *)
LEMMA AlikePut ==
    ASSUME NEW T, NEW P, NEW fd \in Fds, NEW e, Written(T, P, fd, e), e.obj = T.ent[fd].obj,
           e.obj # None => e.kind = T.ent[fd].kind /\ e.end = T.ent[fd].end
    PROVE  Alike(T.ent, P.ent)
  BY Zenon DEF Alike, Written

(* F_SETFD changes no pointer.                                             *)
LEMMA SetCloexecStep ==
    ASSUME FdInv, NEW p \in Procs, NEW fd \in Fds, NEW cl \in BOOLEAN, SetCloexec(p, fd, cl)
    PROVE  Stepped
<1> DEFINE e == [table[p].ent[fd] EXCEPT !.cloexec = cl]
           T == PutEntry(table[p], fd, e)
<1>1. /\ Live(p) /\ fd < table[p].cap /\ state' = state /\ refs' = refs
      /\ table' = [table EXCEPT ![p].ent[fd].cloexec = cl]
  BY Zenon DEF SetCloexec, Open
<1>2. table' = [table EXCEPT ![p] = T]
  BY <1>1, Zenon DEF PutEntry
<1>3. /\ Sound(table[p]) /\ table[p] \in Tables /\ table[p].cap \in Nat
      /\ table[p].ent \in Rows
  BY <1>1, LiveFacts, Zenon
<1>4. table[p].ent[fd] \in Entries
  BY <1>3 DEF Rows
<1>5. e \in Entries /\ e.obj = table[p].ent[fd].obj /\ e.kind = table[p].ent[fd].kind
      /\ e.end = table[p].ent[fd].end
  BY <1>4 DEF Entries
<1> HIDE DEF e
<1>6. Written(table[p], T, fd, e)
  BY <1>1, <1>3, <1>5, PutOK, Zenon
<1> HIDE DEF T
<1>7. Alike(table[p].ent, T.ent)
  BY <1>5, <1>6, AlikePut, Zenon
<1>8. Sound(T) /\ T.cap = table[p].cap
  BY <1>6, Zenon DEF Written
<1>9. table[p].cap <= T.cap /\ ~(T.cap > table[p].cap)
  BY <1>3, <1>8
<1>. QED  BY <1>1, <1>2, <1>7, <1>8, <1>9, QuietStep, Zenon

(* close gives back one reference.                                         *)
LEMMA CloseStep ==
    ASSUME FdInv, NEW p \in Procs, NEW fd \in Fds, Close(p, fd)
    PROVE  Stepped
<1> DEFINE T == PutEntry(table[p], fd, Closed)
<1>1. /\ Live(p) /\ fd < table[p].cap /\ state' = state
      /\ table' = [table EXCEPT ![p] = T] /\ refs' = Release(refs, table[p].ent[fd])
  BY Zenon DEF Close, Open, SetTable
<1>2. /\ Sound(table[p]) /\ InitialCap <= table[p].cap /\ table[p].cap \in Nat
      /\ Agree(Ents, refs) /\ Ents[p] = table[p].ent
  BY <1>1, LiveFacts, Zenon
<1>3. Closed \in Entries
  BY DEF Closed, FdEntry, Entries
<1>4. Written(table[p], T, fd, Closed)
  BY <1>1, <1>2, <1>3, PutOK, Zenon
<1> HIDE DEF T
<1>5. Sound(T) /\ T.cap = table[p].cap /\ T.ent = [Ents[p] EXCEPT ![fd] = Closed]
  BY <1>2, <1>4, Zenon DEF Written
<1>6. Agree([Ents EXCEPT ![p] = [Ents[p] EXCEPT ![fd] = Closed]], Release(refs, Ents[p][fd]))
  BY <1>2, CloseOne, Zenon
<1>7. Agree([Ents EXCEPT ![p] = T.ent], refs')
  BY <1>1, <1>2, <1>5, <1>6, Zenon
<1>8. InitialCap <= T.cap /\ ~(T.cap > table[p].cap)
  BY <1>2, <1>5
<1>. QED  BY <1>1, <1>5, <1>7, <1>8, LiveStep, Zenon

-----------------------------------------------------------------------------
(* Calls that take the lowest free number.                                 *)

(* The table with room, and then with e at the lowest free number.         *)
Placed(T, P, fd, e) ==
    /\ fd \in Fds /\ First <= fd /\ T.ent[fd] = Closed
    /\ Sound(P) /\ P.limit = T.limit /\ P.cap >= T.cap
    /\ P.ent = [T.ent EXCEPT ![fd] = e]
    /\ P.ent[fd] = e /\ \A i \in Fds : i # fd => P.ent[i] = T.ent[i]

(* process_fd_alloc_entry, and the entry written at the number it returns. *)
LEMMA PlaceLowest ==
    ASSUME NEW T, Sound(T), InitialCap <= T.cap, CanAlloc(T), NEW e \in Entries
    PROVE  /\ Roomy(T, Ready(T))
           /\ Written(Ready(T), PutEntry(Ready(T), Lowest(Ready(T)), e), Lowest(Ready(T)), e)
           /\ Placed(T, PutEntry(Ready(T), Lowest(Ready(T)), e), Lowest(Ready(T)), e)
<1>1. Roomy(T, Ready(T))
  BY Readied, Zenon
<1> DEFINE R == Ready(T)
           fd == Lowest(R)
           P == PutEntry(R, fd, e)
<1> HIDE DEF R
<1>2. /\ Sound(R) /\ R.ent = T.ent /\ R.limit = T.limit /\ R.cap >= T.cap
      /\ fd \in Fds /\ First <= fd /\ fd < R.cap /\ R.ent[fd] = Closed
  BY <1>1, Zenon DEF Roomy, R
<1> HIDE DEF fd
<1>3. Written(R, P, fd, e)
  BY <1>2, PutOK, Zenon
<1> HIDE DEF P
<1>4. Placed(T, P, fd, e)
  BY <1>2, <1>3, Zenon DEF Placed, Written
<1>. QED  BY <1>1, <1>3, <1>4, Zenon DEF R, fd, P

(* Nothing that was open is overwritten.                                   *)
LEMMA PlacedKeeps ==
    ASSUME NEW T, NEW P, NEW fd, NEW e, Placed(T, P, fd, e)
    PROVE  \A i \in Fds : Open(T, i) => P.ent[i] = T.ent[i]
  BY Zenon DEF Placed, Open

(* A table at least as large as one of a running process.                  *)
LEMMA CapOrder ==
    ASSUME NEW T, NEW P, Sound(T), Sound(P), InitialCap <= T.cap, P.cap >= T.cap
    PROVE  T.cap <= P.cap /\ InitialCap <= P.cap
<1>1. T.cap \in Nat /\ P.cap \in Nat
  BY DEF Sound, Tables
<1>. QED  BY <1>1, FdAssumption

(* process_fd_open_special takes a number and no object.                   *)
LEMMA OpenSpecialStep ==
    ASSUME FdInv, NEW p \in Procs, OpenSpecial(p)
    PROVE  Stepped
<1> DEFINE T == table[p]
           e == FdEntry("own", None, "a", FALSE)
           fd == Lowest(Ready(T))
           P == PutEntry(Ready(T), fd, e)
<1>1. /\ Live(p) /\ CanAlloc(T) /\ state' = state /\ refs' = refs
      /\ table' = [table EXCEPT ![p] = P]
  BY Zenon DEF OpenSpecial, SetTable
<1>2. e \in Entries /\ e.obj = None /\ Closed.obj = None
  BY DEF FdEntry, Entries, Closed
<1>3. Sound(T) /\ InitialCap <= T.cap
  BY <1>1, LiveFacts, Zenon
<1> HIDE DEF e
<1>4. Placed(T, P, fd, e)
  BY <1>1, <1>2, <1>3, PlaceLowest, Zenon
<1> HIDE DEF P, fd
<1>5. Sound(P) /\ P.cap >= T.cap
  BY <1>4, Zenon DEF Placed
<1>6. T.cap <= P.cap
  BY <1>3, <1>5, CapOrder, Zenon
<1>7. Alike(T.ent, P.ent)
  <2>1. \A i \in Fds : P.ent[i] = T.ent[i] \/ (P.ent[i] = e /\ T.ent[i] = Closed)
    BY <1>4, Zenon DEF Placed
  <2>. QED  BY <2>1, <1>2, Zenon DEF Alike
<1>8. \A i \in Fds : Open(T, i) => P.ent[i] = T.ent[i]
  BY <1>4, PlacedKeeps, Zenon
<1>. QED  BY <1>1, <1>5, <1>6, <1>7, <1>8, QuietStep, Zenon

(* open takes a number and an object with one reference; when the object   *)
(* cannot be made, only the table may have grown.                          *)
LEMMA OpenSharedStep ==
    ASSUME FdInv, NEW p \in Procs, NEW o \in Objs, NEW made \in BOOLEAN, OpenShared(p, o, made)
    PROVE  Stepped
<1> DEFINE T == table[p]
           e == FdEntry("shared", o, "a", FALSE)
           R == Ready(T)
           fd == Lowest(R)
           P == PutEntry(R, fd, e)
<1>1. Live(p) /\ refs[o] = NoObject /\ CanAlloc(T) /\ state' = state
  BY Zenon DEF OpenShared, Unallocated
<1>2. /\ e \in Entries /\ e.obj = o /\ e.kind = "shared" /\ e.end = "a"
      /\ e.kind \in {"shared", "own"} /\ Closed.obj = None
  BY DEF FdEntry, Entries, Closed
<1>3. Sound(T) /\ InitialCap <= T.cap /\ Agree(Ents, refs) /\ Ents[p] = T.ent
  BY <1>1, LiveFacts, Zenon
<1>4. CASE made
  <2>1. /\ table' = [table EXCEPT ![p] = P]
        /\ refs' = [refs EXCEPT ![o] = [kind |-> "shared", a |-> 1, b |-> 0]]
    BY <1>4, Zenon DEF OpenShared, SetTable
  <2> HIDE DEF e
  <2>2. Placed(T, P, fd, e)
    BY <1>1, <1>2, <1>3, PlaceLowest, Zenon
  <2> HIDE DEF P, fd
  <2>3. Sound(P) /\ P.cap >= T.cap /\ fd \in Fds /\ Ents[p][fd].obj = None
        /\ P.ent = [Ents[p] EXCEPT ![fd] = e]
    BY <2>2, <1>2, <1>3, Zenon DEF Placed
  <2>4. InitialCap <= P.cap
    BY <1>3, <2>3, CapOrder, Zenon
  <2>5. Agree([Ents EXCEPT ![p] = [Ents[p] EXCEPT ![fd] = e]],
              [refs EXCEPT ![o] = [kind |-> e.kind, a |-> 1, b |-> 0]])
    BY <1>1, <1>2, <1>3, <2>3, NewOne, Zenon
  <2>6. Agree([Ents EXCEPT ![p] = P.ent], refs')
    BY <2>1, <2>3, <2>5, <1>2, Zenon
  <2>7. \A i \in Fds : Open(T, i) => P.ent[i] = T.ent[i]
    BY <2>2, PlacedKeeps, Zenon
  <2>. QED  BY <1>1, <2>1, <2>3, <2>4, <2>6, <2>7, LiveStep, Zenon
<1>5. CASE ~made
  <2>1. table' = [table EXCEPT ![p] = R] /\ refs' = refs
    BY <1>5, Zenon DEF OpenShared, SetTable
  <2>2. Roomy(T, R)
    BY <1>1, <1>3, Readied, Zenon
  <2> HIDE DEF R
  <2>3. Sound(R) /\ R.ent = T.ent /\ R.cap >= T.cap
    BY <2>2, Zenon DEF Roomy
  <2>4. T.cap <= R.cap
    BY <1>3, <2>3, CapOrder, Zenon
  <2>5. Alike(T.ent, R.ent)
    BY <2>3, Zenon DEF Alike
  <2>. QED  BY <1>1, <2>1, <2>3, <2>4, <2>5, QuietStep, Zenon
<1>. QED  BY <1>4, <1>5, Zenon

(* special_wait_object gives the descriptor a frame nobody else points at. *)
LEMMA UseSpecialStep ==
    ASSUME FdInv, NEW p \in Procs, NEW fd \in Fds, NEW o \in Objs, UseSpecial(p, fd, o)
    PROVE  Stepped
<1> DEFINE e == [table[p].ent[fd] EXCEPT !.obj = o]
           T == PutEntry(table[p], fd, e)
<1>1. /\ Live(p) /\ fd < table[p].cap /\ state' = state /\ refs[o] = NoObject
      /\ table[p].ent[fd].kind = "own" /\ table[p].ent[fd].obj = None
      /\ table' = [table EXCEPT ![p].ent[fd].obj = o]
      /\ refs' = [refs EXCEPT ![o] = [kind |-> "own", a |-> 1, b |-> 0]]
  BY Zenon DEF UseSpecial, Open, Unallocated
<1>2. table' = [table EXCEPT ![p] = T]
  BY <1>1, Zenon DEF PutEntry
<1>3. /\ Sound(table[p]) /\ InitialCap <= table[p].cap /\ table[p].cap \in Nat
      /\ table[p].ent \in Rows /\ Agree(Ents, refs) /\ Ents[p] = table[p].ent
  BY <1>1, LiveFacts, Zenon
<1>4. table[p].ent[fd] \in Entries
  BY <1>3 DEF Rows
<1>5. /\ e \in Entries /\ e.obj = o /\ e.kind = "own" /\ e.end = "a"
      /\ e.kind \in {"shared", "own"}
  BY <1>1, <1>4 DEF Entries
<1> HIDE DEF e
<1>6. Written(table[p], T, fd, e)
  BY <1>1, <1>3, <1>5, PutOK, Zenon
<1> HIDE DEF T
<1>7. Sound(T) /\ T.cap = table[p].cap /\ T.ent = [Ents[p] EXCEPT ![fd] = e]
  BY <1>3, <1>6, Zenon DEF Written
<1>8. Agree([Ents EXCEPT ![p] = [Ents[p] EXCEPT ![fd] = e]],
            [refs EXCEPT ![o] = [kind |-> e.kind, a |-> 1, b |-> 0]])
  BY <1>1, <1>3, <1>5, NewOne, Zenon
<1>9. Agree([Ents EXCEPT ![p] = T.ent], refs')
  BY <1>1, <1>5, <1>7, <1>8, Zenon
<1>10. InitialCap <= T.cap /\ ~(T.cap > table[p].cap)
  BY <1>3, <1>7
<1>. QED  BY <1>1, <1>2, <1>7, <1>9, <1>10, LiveStep, Zenon

(* process_fd_dup takes a reference for the copy, which goes where nothing *)
(* was open.                                                               *)
LEMMA DupStep ==
    ASSUME FdInv, NEW p \in Procs, NEW old \in Fds, NEW min \in Fds, NEW cl \in BOOLEAN,
           Dup(p, old, min, cl)
    PROVE  Stepped
<1> DEFINE T0 == table[p]
           T1 == IF min >= T0.cap THEN Grow(T0, min + 1) ELSE T0
           T2 == IF FreeFrom(T1, min) = {} THEN Grow(T1, T1.cap + 1) ELSE T1
           fd == Min(FreeFrom(T2, min))
           e == Shared(T0.ent[old], cl)
           P == PutEntry(T2, fd, e)
<1>1. /\ Live(p) /\ state' = state
      /\ min >= T0.cap => CanGrow(T0, min + 1)
      /\ FreeFrom(T1, min) = {} => CanGrow(T1, T1.cap + 1)
      /\ table' = [table EXCEPT ![p] = P] /\ refs' = Retain(refs, e)
  BY Zenon DEF Dup, SetTable
<1>2. /\ Sound(T0) /\ InitialCap <= T0.cap /\ T0.cap \in Nat /\ T0.ent \in Rows
      /\ Agree(Ents, refs) /\ Ents[p] = T0.ent
  BY <1>1, LiveFacts, Zenon
<1>3. min \in Nat /\ min + 1 \in Nat
  BY DEF Fds
<1>4. e \in Entries /\ Fits(refs, e) /\ (e.obj # None => e.kind # "own")
  <2>1. T0.ent[old] \in Entries /\ Fits(refs, T0.ent[old])
    BY <1>2, Zenon DEF Rows, Agree
  <2>. QED  BY <2>1, SharedFits, Zenon
<1>5. Sound(T1) /\ T1.ent = T0.ent /\ T1.cap >= T0.cap /\ T1.cap > min
  <2>1. CASE min >= T0.cap
    <3>1. T1 = Grow(T0, min + 1)
      BY <2>1, Zenon
    <3>2. Larger(T0, Grow(T0, min + 1), min + 1)
      BY <2>1, <1>1, <1>2, <1>3, Grown, Zenon
    <3> HIDE DEF T1
    <3>3. Sound(T1) /\ T1.ent = T0.ent /\ T1.cap >= T0.cap /\ T1.cap >= min + 1
      BY <3>1, <3>2, Zenon DEF Larger
    <3>4. T1.cap \in Nat
      BY <3>3 DEF Sound, Tables
    <3>. QED  BY <3>3, <3>4, <1>3
  <2>2. CASE ~(min >= T0.cap)
    <3>1. T1 = T0
      BY <2>2, Zenon
    <3>2. T0.cap >= T0.cap /\ T0.cap > min
      BY <2>2, <1>2, <1>3
    <3>. QED  BY <3>1, <3>2, <1>2, Zenon
  <2>. QED  BY <2>1, <2>2, Zenon
<1> HIDE DEF T1
<1>6. T1.cap \in Nat
  BY <1>5 DEF Sound, Tables
<1>7. Sound(T2) /\ T2.ent = T0.ent /\ T2.cap >= T0.cap /\ FreeFrom(T2, min) # {}
  <2>1. CASE FreeFrom(T1, min) = {}
    <3>1. T2 = Grow(T1, T1.cap + 1) /\ CanGrow(T1, T1.cap + 1)
      BY <2>1, <1>1, Zenon
    <3>2. min <= T1.cap
      BY <1>3, <1>5, <1>6
    <3>3. /\ Larger(T1, Grow(T1, T1.cap + 1), T1.cap + 1)
          /\ FreeFrom(Grow(T1, T1.cap + 1), min) # {}
      BY <3>1, <3>2, <1>3, <1>5, GrownFree, Zenon
    <3> HIDE DEF T2
    <3>4. Sound(T2) /\ T2.ent = T0.ent /\ T2.cap >= T1.cap /\ FreeFrom(T2, min) # {}
      BY <3>1, <3>3, <1>5, Zenon DEF Larger
    <3>5. T2.cap \in Nat
      BY <3>4 DEF Sound, Tables
    <3>6. T2.cap >= T0.cap
      BY <3>4, <3>5, <1>2, <1>5, <1>6
    <3>. QED  BY <3>4, <3>6, Zenon
  <2>2. CASE FreeFrom(T1, min) # {}
    <3>1. T2 = T1
      BY <2>2, Zenon
    <3> HIDE DEF T2
    <3>. QED  BY <2>2, <3>1, <1>5, Zenon
  <2>. QED  BY <2>1, <2>2, Zenon
<1> HIDE DEF T2, e
<1>8. fd \in Fds /\ fd < T2.cap /\ T2.ent[fd] = Closed
  BY <1>7, LowestFree, Zenon
<1> HIDE DEF fd
<1>9. Written(T2, P, fd, e)
  BY <1>4, <1>7, <1>8, PutOK, Zenon
<1> HIDE DEF P
<1>10. /\ Sound(P) /\ P.cap = T2.cap /\ P.ent = [Ents[p] EXCEPT ![fd] = e]
       /\ \A i \in Fds : i # fd => P.ent[i] = T0.ent[i]
  BY <1>2, <1>7, <1>9, Zenon DEF Written
<1>11. Closed.obj = None
  BY DEF Closed, FdEntry
<1>12. Ents[p][fd].obj = None
  BY <1>2, <1>7, <1>8, <1>11, Zenon
<1>13. Agree([Ents EXCEPT ![p] = [Ents[p] EXCEPT ![fd] = e]], Retain(refs, e))
  BY <1>2, <1>4, <1>8, <1>12, AddOne, Zenon
<1>14. Agree([Ents EXCEPT ![p] = P.ent], refs')
  BY <1>1, <1>10, <1>13, Zenon
<1>15. P.cap >= T0.cap
  BY <1>7, <1>10, Zenon
<1>16. InitialCap <= P.cap
  BY <1>2, <1>10, <1>15, CapOrder, Zenon
<1>17. \A i \in Fds : Open(T0, i) => P.ent[i] = T0.ent[i]
  BY <1>7, <1>8, <1>10, Zenon DEF Open
<1>. QED  BY <1>1, <1>10, <1>14, <1>16, <1>17, LiveStep, Zenon

(* process_fd_dup2 gives back what was open at the new number before the   *)
(* copy takes its reference; they are different entries, so the object     *)
(* copied is still there.                                                  *)
LEMMA Dup2Step ==
    ASSUME FdInv, NEW p \in Procs, NEW old \in Fds, NEW new \in Fds, NEW cl \in BOOLEAN,
           Dup2(p, old, new, cl)
    PROVE  Stepped
<1> DEFINE T0 == table[p]
           T1 == IF new >= T0.cap THEN Grow(T0, new + 1) ELSE T0
           e == Shared(T0.ent[old], cl)
           P == PutEntry(T1, new, e)
<1>1. /\ Live(p) /\ state' = state /\ new # old
      /\ new >= T0.cap => CanGrow(T0, new + 1)
      /\ table' = [table EXCEPT ![p] = P] /\ refs' = Retain(Release(refs, T1.ent[new]), e)
  BY Zenon DEF Dup2, SetTable
<1>2. /\ Sound(T0) /\ InitialCap <= T0.cap /\ T0.cap \in Nat /\ T0.ent \in Rows
      /\ Agree(Ents, refs) /\ Ents[p] = T0.ent /\ Ents \in [Procs -> Rows]
  BY <1>1, LiveFacts, Zenon DEF Agree
<1>3. new \in Nat /\ new + 1 \in Nat
  BY DEF Fds
<1>4. /\ Sound(T1) /\ T1.ent = T0.ent /\ T1.cap >= T0.cap /\ new < T1.cap
      /\ T1.cap > T0.cap => new >= T0.cap
  <2>1. CASE new >= T0.cap
    <3>1. T1 = Grow(T0, new + 1)
      BY <2>1, Zenon
    <3>2. Larger(T0, Grow(T0, new + 1), new + 1)
      BY <2>1, <1>1, <1>2, <1>3, Grown, Zenon
    <3> HIDE DEF T1
    <3>3. Sound(T1) /\ T1.ent = T0.ent /\ T1.cap >= T0.cap /\ T1.cap >= new + 1
      BY <3>1, <3>2, Zenon DEF Larger
    <3>4. T1.cap \in Nat
      BY <3>3 DEF Sound, Tables
    <3>. QED  BY <2>1, <3>3, <3>4, <1>3
  <2>2. CASE ~(new >= T0.cap)
    <3>1. T1 = T0
      BY <2>2, Zenon
    <3>2. T0.cap >= T0.cap /\ new < T0.cap /\ ~(T0.cap > T0.cap)
      BY <2>2, <1>2, <1>3
    <3>. QED  BY <3>1, <3>2, <1>2, Zenon
  <2>. QED  BY <2>1, <2>2, Zenon
<1> HIDE DEF T1
<1> DEFINE r1 == Release(refs, Ents[p][new])
           en1 == [Ents EXCEPT ![p] = [Ents[p] EXCEPT ![new] = Closed]]
<1>5. Agree(en1, r1)
  BY <1>2, CloseOne, Zenon
<1>6. /\ en1[p] = [Ents[p] EXCEPT ![new] = Closed] /\ en1[p][new] = Closed
      /\ en1[p][old] = T0.ent[old]
      /\ [en1[p] EXCEPT ![new] = e] = [Ents[p] EXCEPT ![new] = e]
      /\ \A x : [en1 EXCEPT ![p] = x] = [Ents EXCEPT ![p] = x]
  <2>1. en1[p] = [Ents[p] EXCEPT ![new] = Closed] /\ \A x : [en1 EXCEPT ![p] = x] = [Ents EXCEPT ![p] = x]
    BY <1>2
  <2> HIDE DEF en1, e
  <2>2. Ents[p] \in Rows
    BY <1>2, Zenon
  <2>3. /\ en1[p][new] = Closed /\ en1[p][old] = Ents[p][old]
        /\ [en1[p] EXCEPT ![new] = e] = [Ents[p] EXCEPT ![new] = e]
    <3> HIDE DEF Closed
    <3>. QED  BY <2>1, <2>2, <1>1 DEF Rows
  <2>. QED  BY <2>1, <2>3, <1>2, Zenon
<1> HIDE DEF en1, r1
<1>7. e \in Entries /\ Fits(r1, e) /\ (e.obj # None => e.kind # "own")
  <2>1. T0.ent[old] \in Entries
    BY <1>2, Zenon DEF Rows
  <2>2. Fits(r1, T0.ent[old])
    BY <1>5, <1>6, Zenon DEF Agree
  <2>. QED  BY <2>1, <2>2, SharedFits, Zenon
<1> HIDE DEF e
<1>8. Closed.obj = None
  BY DEF Closed, FdEntry
<1>9. en1[p][new].obj = None
  BY <1>6, <1>8, Zenon
<1>10. Agree([en1 EXCEPT ![p] = [en1[p] EXCEPT ![new] = e]], Retain(r1, e))
  BY <1>5, <1>7, <1>9, AddOne, Zenon
<1>11. Written(T1, P, new, e)
  BY <1>4, <1>7, PutOK, Zenon
<1> HIDE DEF P
<1>12. /\ Sound(P) /\ P.cap = T1.cap /\ P.ent = [Ents[p] EXCEPT ![new] = e]
       /\ \A i \in Fds : i # new => P.ent[i] = T0.ent[i]
  BY <1>2, <1>4, <1>11, Zenon DEF Written
<1>13. refs' = Retain(r1, e)
  BY <1>1, <1>2, <1>4, Zenon DEF r1
<1>14. Agree([Ents EXCEPT ![p] = P.ent], refs')
  BY <1>6, <1>10, <1>12, <1>13, Zenon
<1>15. P.cap >= T0.cap
  BY <1>4, <1>12, Zenon
<1>16. InitialCap <= P.cap
  BY <1>2, <1>12, <1>15, CapOrder, Zenon
<1>17. ASSUME P.cap > T0.cap, NEW i \in Fds, Open(T0, i) PROVE P.ent[i] = T0.ent[i]
  <2>1. T0.ent[new] = Closed
    BY <1>2, <1>4, <1>12, <1>17, Zenon DEF Sound
  <2>. QED  BY <2>1, <1>12, <1>17, Zenon DEF Open
<1>. QED  BY <1>1, <1>12, <1>14, <1>16, <1>17, LiveStep, Zenon

(* A closed entry fits any counts.                                         *)
LEMMA ClosedFits ==
    /\ Closed \in Entries /\ Console \in Entries /\ Torn \in Entries
    /\ Closed.obj = None /\ Console.obj = None /\ Torn.obj = None /\ Torn # Closed
    /\ \A r : Fits(r, Closed)
<1>1. /\ Closed \in Entries /\ Console \in Entries /\ Torn \in Entries
      /\ Closed.obj = None /\ Console.obj = None /\ Torn.obj = None /\ Torn # Closed
  BY DEF Closed, Console, Torn, FdEntry, Entries
<1>. QED  BY <1>1, Zenon DEF Fits

(* process_fd_pipe and process_fd_pty: both ends counted once, although    *)
(* the first entry is lost when the table moves for the second.            *)
LEMMA OpenPairStep ==
    ASSUME FdInv, NEW p \in Procs, NEW o \in Objs, NEW cl \in BOOLEAN, NEW mem \in BOOLEAN,
           OpenPair(p, o, cl, mem)
    PROVE  Stepped
<1> DEFINE T == table[p]
           T1 == Ready(T)
           fd == Lowest(T1)
           V == PutEntry(T1, fd, Torn)
           T2 == Ready(V)
           gd == Lowest(T2)
           moved == T2.cap # T1.cap
           e == IF moved THEN Torn ELSE FdEntry("pair", o, "a", cl)
           f == FdEntry("pair", o, "b", cl)
           Q == PutEntry(T2, fd, e)
           P == PutEntry(Q, gd, f)
           done == CanAlloc(V) /\ (moved => mem)
<1>1. Live(p) /\ refs[o] = NoObject /\ CanAlloc(T) /\ state' = state
  BY Zenon DEF OpenPair, Unallocated
<1>2. /\ Sound(T) /\ InitialCap <= T.cap /\ Agree(Ents, refs) /\ Ents[p] = T.ent
      /\ T.ent \in Rows
  BY <1>1, LiveFacts, Zenon
<1>3. /\ done => /\ table' = [table EXCEPT ![p] = P]
                 /\ refs' = [refs EXCEPT ![o] = [kind |-> "pair", a |-> 1, b |-> 1]]
      /\ ~done => table' = [table EXCEPT ![p] = T1] /\ refs' = refs
  BY Zenon DEF OpenPair, SetTable
<1>4. /\ e \in Entries /\ f \in Entries
      /\ e.obj = None \/ (e.obj = o /\ e.kind = "pair" /\ e.end = "a")
      /\ f.obj = o /\ f.kind = "pair" /\ f.end = "b"
  <2> DEFINE g == FdEntry("pair", o, "a", cl)
  <2>1. /\ g \in Entries /\ g.obj = o /\ g.kind = "pair" /\ g.end = "a"
        /\ f \in Entries /\ f.obj = o /\ f.kind = "pair" /\ f.end = "b"
    BY DEF FdEntry, Entries
  <2>2. e = Torn \/ e = g
    BY Zenon
  <2> HIDE DEF e, f, g
  <2>. QED  BY <2>1, <2>2, ClosedFits, Zenon
<1> HIDE DEF e, f, moved, done
<1>5. CASE done
  <2>1. Placed(T, V, fd, Torn) /\ Roomy(T, T1) /\ Written(T1, V, fd, Torn)
    BY <1>1, <1>2, ClosedFits, PlaceLowest, Zenon
  <2> HIDE DEF V, fd
  <2>2. /\ Sound(V) /\ V.cap >= T.cap /\ V.ent[fd] = Torn /\ fd \in Fds
        /\ T.ent[fd] = Closed /\ \A i \in Fds : i # fd => V.ent[i] = T.ent[i]
    BY <2>1, Zenon DEF Placed
  <2>3. fd < V.cap
    BY <2>1, Zenon DEF Roomy, Written, fd
  <2>4. InitialCap <= V.cap
    BY <1>2, <2>2, CapOrder, Zenon
  <2>5. CanAlloc(V)
    BY <1>5, Zenon DEF done
  <2>6. Roomy(V, T2)
    BY <2>2, <2>4, <2>5, Readied, Zenon
  <2> HIDE DEF T2
  <2>7. /\ Sound(T2) /\ T2.ent = V.ent /\ T2.cap >= V.cap
        /\ gd \in Fds /\ gd < T2.cap /\ T2.ent[gd] = Closed
    BY <2>6, Zenon DEF Roomy
  <2> HIDE DEF gd
  <2>8. fd < T2.cap /\ T2.cap >= T.cap
    <3>1. V.cap \in Nat /\ T2.cap \in Nat /\ T.cap \in Nat
      BY <1>2, <2>2, <2>7 DEF Sound, Tables
    <3>. QED  BY <3>1, <2>2, <2>3, <2>7 DEF Fds
  <2>9. fd # gd /\ T.ent[gd] = Closed
    BY <2>2, <2>7, ClosedFits, Zenon
  <2>10. Written(T2, Q, fd, e)
    BY <2>2, <2>7, <2>8, <1>4, PutOK, Zenon
  <2> HIDE DEF Q
  <2>11. Sound(Q) /\ Q.cap = T2.cap
    BY <2>10, Zenon DEF Written
  <2>12. Written(Q, P, gd, f)
    BY <2>7, <2>11, <1>4, PutOK, Zenon
  <2> HIDE DEF P
  <2>13. Sound(P) /\ P.cap >= T.cap
    BY <2>8, <2>11, <2>12, Zenon DEF Written
  <2>14. /\ P.ent[fd] = e /\ P.ent[gd] = f
         /\ \A i \in Fds : i # fd /\ i # gd => P.ent[i] = T.ent[i]
    <3>1. P.ent[gd] = f /\ \A i \in Fds : i # gd => P.ent[i] = Q.ent[i]
      BY <2>12, Zenon DEF Written
    <3>2. Q.ent[fd] = e /\ \A i \in Fds : i # fd => Q.ent[i] = V.ent[i]
      BY <2>7, <2>10, Zenon DEF Written
    <3>3. P.ent[fd] = e
      BY <3>1, <3>2, <2>2, <2>9, Zenon
    <3>4. ASSUME NEW i \in Fds, i # fd, i # gd PROVE P.ent[i] = T.ent[i]
      BY <3>1, <3>2, <3>4, <2>2, Zenon
    <3>. QED  BY <3>1, <3>3, <3>4, Zenon
  <2>15. P.ent = [[Ents[p] EXCEPT ![fd] = e] EXCEPT ![gd] = f]
    <3>1. P.ent \in Rows
      BY <2>13 DEF Sound, Tables
    <3>. QED  BY <3>1, <2>2, <2>7, <2>9, <2>14, <1>2 DEF Rows
  <2>16. Ents[p][fd].obj = None /\ Ents[p][gd].obj = None
    BY <2>2, <2>9, <1>2, ClosedFits, Zenon
  <2>17. Agree([Ents EXCEPT ![p] = [[Ents[p] EXCEPT ![fd] = e] EXCEPT ![gd] = f]],
               [refs EXCEPT ![o] = [kind |-> "pair", a |-> 1, b |-> 1]])
    BY <2>2, <2>7, <2>9, <2>16, <1>1, <1>2, <1>4, NewPair, Zenon
  <2>18. Agree([Ents EXCEPT ![p] = P.ent], refs')
    BY <2>15, <2>17, <1>3, <1>5, Zenon
  <2>19. InitialCap <= P.cap
    BY <1>2, <2>13, CapOrder, Zenon
  <2>20. \A i \in Fds : Open(T, i) => P.ent[i] = T.ent[i]
    BY <2>2, <2>9, <2>14, Zenon DEF Open
  <2>21. table' = [table EXCEPT ![p] = P]
    BY <1>3, <1>5, Zenon
  <2>. QED  BY <1>1, <2>13, <2>18, <2>19, <2>20, <2>21, LiveStep, Zenon
<1>6. CASE ~done
  <2>1. table' = [table EXCEPT ![p] = T1] /\ refs' = refs
    BY <1>3, <1>6, Zenon
  <2>2. Roomy(T, T1)
    BY <1>1, <1>2, Readied, Zenon
  <2> HIDE DEF T1
  <2>3. Sound(T1) /\ T1.ent = T.ent /\ T1.cap >= T.cap
    BY <2>2, Zenon DEF Roomy
  <2>4. T.cap <= T1.cap
    BY <1>2, <2>3, CapOrder, Zenon
  <2>5. Alike(T.ent, T1.ent)
    BY <2>3, Zenon DEF Alike
  <2>. QED  BY <1>1, <2>1, <2>3, <2>4, <2>5, QuietStep, Zenon
<1>. QED  BY <1>5, <1>6, Zenon

-----------------------------------------------------------------------------
(* process_copy_fd_table takes a reference for every descriptor of the     *)
(* parent that it shares, and its growth holds them all.                   *)
LEMMA ForkStep ==
    ASSUME FdInv, NEW p \in Procs, NEW q \in Procs, Fork(p, q)
    PROVE  Stepped
<1> DEFINE T == table[p]
           C == IF NewTable.cap < T.cap THEN Grow(NewTable, T.cap) ELSE NewTable
           ent == [fd \in Fds |->
                     IF Open(T, fd) THEN Shared(T.ent[fd], T.ent[fd].cloexec) ELSE Closed]
           P == [C EXCEPT !.ent = ent]
<1>1. /\ Live(p) /\ state[q] = "unused" /\ (NewTable.cap < T.cap => CanGrow(NewTable, T.cap))
      /\ table' = [table EXCEPT ![q] = P] /\ state' = [state EXCEPT ![q] = "live"]
      /\ refs' = RetainAll(refs, P.ent, Fds)
  BY Zenon DEF Fork, SetTable
<1>2. /\ Sound(T) /\ InitialCap <= T.cap /\ T.cap \in Nat /\ Agree(Ents, refs)
      /\ Ents[p] = T.ent /\ T.ent \in Rows
  BY <1>1, LiveFacts, Zenon
<1>3. state[q] # "live" /\ "live" \in {"unused", "live", "zombie"}
  BY <1>1
<1>4. \A fd \in Fds : Ents[q][fd].obj = None
  BY <1>3, IdleFacts, Zenon
<1>5. Sound(C) /\ C.cap >= T.cap
  <2>1. Sound(NewTable) /\ NewTable.cap = InitialCap
    BY FreshTables, Zenon
  <2>2. CASE NewTable.cap < T.cap
    <3>1. Larger(NewTable, Grow(NewTable, T.cap), T.cap)
      BY <2>1, <2>2, <1>1, <1>2, Grown, Zenon
    <3>2. C = Grow(NewTable, T.cap)
      BY <2>2, Zenon
    <3>. QED  BY <3>1, <3>2, Zenon DEF Larger
  <2>3. CASE ~(NewTable.cap < T.cap)
    <3>1. C = NewTable
      BY <2>3, Zenon
    <3>2. NewTable.cap >= T.cap
      <4> HIDE DEF NewTable
      <4>. QED  BY <2>1, <2>3, <1>2, FdAssumption
    <3>. QED  BY <3>1, <3>2, <2>1, Zenon
  <2>. QED  BY <2>2, <2>3, Zenon
<1> HIDE DEF C
<1>6. ASSUME NEW fd \in Fds
      PROVE  /\ ent[fd] \in Entries /\ Fits(refs, ent[fd])
             /\ ent[fd].obj # None => ent[fd].kind # "own"
             /\ ~Open(T, fd) => ent[fd] = Closed
  <2>1. T.ent[fd] \in Entries /\ Fits(refs, T.ent[fd])
    BY <1>2, Zenon DEF Rows, Agree
  <2>2. T.ent[fd].cloexec \in BOOLEAN
    BY <2>1 DEF Entries
  <2>3. LET c == Shared(T.ent[fd], T.ent[fd].cloexec)
        IN  c \in Entries /\ Fits(refs, c) /\ (c.obj # None => c.kind # "own")
    BY <2>1, <2>2, SharedFits, Zenon
  <2>. QED  BY <2>3, ClosedFits, Zenon
<1>7. ent \in Rows
  <2>1. \A fd \in Fds : ent[fd] \in Entries
    BY <1>6, Zenon
  <2>2. ent = [fd \in Fds |-> ent[fd]]
    BY Zenon
  <2> HIDE DEF ent
  <2>. QED  BY <2>1, <2>2, Zenon DEF Rows
<1> HIDE DEF ent
<1>8. P \in Tables /\ P.ent = ent /\ P.cap = C.cap /\ P.limit = C.limit /\ C.cap \in Nat
  BY <1>5, <1>7 DEF Sound, Tables
<1> HIDE DEF P
<1>9. Sound(P)
  <2>1. ASSUME NEW fd \in Fds, fd >= P.cap PROVE P.ent[fd] = Closed
    <3>1. ~(fd < T.cap)
      BY <2>1, <1>2, <1>5, <1>8 DEF Fds
    <3>. QED  BY <3>1, <1>6, <1>8, Zenon DEF Open
  <2>. QED  BY <2>1, <1>5, <1>8, Zenon DEF Sound
<1>10. InitialCap <= P.cap
  BY <1>2, <1>5, <1>8, FdAssumption
<1>11. Replaced(Ents, q, Fds, ent) /\ Fds \in SUBSET Fds
  BY <1>4, <1>7, Zenon DEF Replaced
<1>12. \A fd \in Fds : Fits(refs, ent[fd]) /\ (ent[fd].obj # None => ent[fd].kind # "own")
  BY <1>6, Zenon
<1>13. Agree([Ents EXCEPT ![q] = ent], RetainAll(refs, ent, Fds))
  BY <1>2, <1>11, <1>12, GainAll, Zenon
<1>14. Agree([Ents EXCEPT ![q] = P.ent], refs')
  BY <1>1, <1>8, <1>13, Zenon
<1>. QED  BY <1>1, <1>3, <1>9, <1>10, <1>14, StepInv, Zenon

(* elf_inherit_launch_context shares the standard descriptors with the new *)
(* process.                                                                *)
LEMMA SpawnStep ==
    ASSUME FdInv, NEW p \in Procs, NEW q \in Procs, Spawn(p, q)
    PROVE  Stepped
<1> DEFINE T == table[p]
           S == {fd \in 0 .. First - 1 : Open(T, fd)}
           ent == [fd \in Fds |-> IF fd \in S THEN Shared(T.ent[fd], T.ent[fd].cloexec)
                                  ELSE NewTable.ent[fd]]
           P == [NewTable EXCEPT !.ent = ent]
           en1 == [Ents EXCEPT ![q] = NewTable.ent]
<1>1. /\ Live(p) /\ state[q] = "unused"
      /\ table' = [table EXCEPT ![q] = P] /\ state' = [state EXCEPT ![q] = "live"]
      /\ refs' = RetainAll(refs, ent, S)
  BY Zenon DEF Spawn, SetTable
<1>2. /\ Sound(T) /\ Agree(Ents, refs) /\ Ents[p] = T.ent /\ T.ent \in Rows
      /\ Ents \in [Procs -> Rows]
  BY <1>1, LiveFacts, Zenon DEF Agree
<1>3. state[q] # "live" /\ "live" \in {"unused", "live", "zombie"}
  BY <1>1
<1>4. \A fd \in Fds : Ents[q][fd].obj = None
  BY <1>3, IdleFacts, Zenon
<1>5. /\ Sound(NewTable) /\ NewTable.cap = InitialCap
      /\ \A fd \in Fds : NewTable.ent[fd].obj = None
  BY FreshTables, Zenon
<1>6. NewTable \in Tables /\ NewTable.ent \in Rows
  BY <1>5 DEF Sound, Tables
<1>7. S \in SUBSET Fds /\ \A fd \in S : ~(fd >= InitialCap)
  BY FdAssumption DEF Fds
<1> HIDE DEF S
<1>8. Agree(en1, refs) /\ en1[q] = NewTable.ent /\ [en1 EXCEPT ![q] = ent] = [Ents EXCEPT ![q] = ent]
  <2>1. Alike(Ents[q], NewTable.ent)
    BY <1>4, <1>5, Zenon DEF Alike
  <2>2. Agree(en1, refs)
    BY <2>1, <1>2, <1>6, SamePointers, Zenon
  <2>3. en1[q] = NewTable.ent /\ [en1 EXCEPT ![q] = ent] = [Ents EXCEPT ![q] = ent]
    <3> HIDE DEF NewTable, ent
    <3>. QED  BY <1>2
  <2>. QED  BY <2>2, <2>3, Zenon
<1> HIDE DEF en1
<1>9. ASSUME NEW fd \in S
      PROVE  /\ ent[fd] \in Entries /\ Fits(refs, ent[fd])
             /\ ent[fd].obj # None => ent[fd].kind # "own"
  <2>0. fd \in Fds
    BY <1>7, Zenon
  <2>1. T.ent[fd] \in Entries /\ Fits(refs, T.ent[fd])
    BY <2>0, <1>2, Zenon DEF Rows, Agree
  <2>2. T.ent[fd].cloexec \in BOOLEAN
    BY <2>1 DEF Entries
  <2>3. LET c == Shared(T.ent[fd], T.ent[fd].cloexec)
        IN  c \in Entries /\ Fits(refs, c) /\ (c.obj # None => c.kind # "own")
    BY <2>1, <2>2, SharedFits, Zenon
  <2>. QED  BY <2>0, <2>3, Zenon
<1>10. \A fd \in Fds : fd \notin S => ent[fd] = NewTable.ent[fd]
  BY Zenon
<1>11. ent \in Rows
  <2>1. \A fd \in Fds : ent[fd] \in Entries
    BY <1>6, <1>9, <1>10, Zenon DEF Rows
  <2>2. ent = [fd \in Fds |-> ent[fd]]
    BY Zenon
  <2> HIDE DEF ent
  <2>. QED  BY <2>1, <2>2, Zenon DEF Rows
<1> HIDE DEF ent
<1>12. P \in Tables /\ P.ent = ent /\ P.cap = InitialCap /\ P.limit = NewTable.limit
  <2> HIDE DEF NewTable
  <2>. QED  BY <1>5, <1>6, <1>11 DEF Tables
<1> HIDE DEF P
<1>13. Sound(P)
  <2>1. ASSUME NEW fd \in Fds, fd >= P.cap PROVE P.ent[fd] = Closed
    BY <2>1, <1>5, <1>7, <1>10, <1>12, Zenon DEF Sound
  <2>. QED  BY <2>1, <1>5, <1>12, Zenon DEF Sound
<1>14. InitialCap <= P.cap
  BY <1>12, FdAssumption
<1>15. Replaced(en1, q, S, ent)
  BY <1>5, <1>7, <1>8, <1>10, <1>11, Zenon DEF Replaced
<1>16. \A fd \in S : Fits(refs, ent[fd]) /\ (ent[fd].obj # None => ent[fd].kind # "own")
  BY <1>9, Zenon
<1>17. Agree([en1 EXCEPT ![q] = ent], RetainAll(refs, ent, S))
  BY <1>7, <1>8, <1>15, <1>16, GainAll, Zenon
<1>18. Agree([Ents EXCEPT ![q] = P.ent], refs')
  BY <1>1, <1>8, <1>12, <1>17, Zenon
<1>. QED  BY <1>1, <1>3, <1>13, <1>14, <1>18, StepInv, Zenon

-----------------------------------------------------------------------------
(* At boot there are no tables and no objects.                             *)
LEMMA InitInv ==
    ASSUME FdInit
    PROVE  FdInv
<1>1. /\ state = [p \in Procs |-> "unused"] /\ table = [p \in Procs |-> NoTable]
      /\ refs = [o \in Objs |-> NoObject]
  BY Zenon DEF FdInit
<1>2. Sound(NoTable) /\ \A fd \in Fds : NoTable.ent[fd].obj = None
  BY FreshTables, Zenon
<1>3. NoTable \in Tables /\ NoTable.ent \in Rows
  BY <1>2 DEF Sound, Tables
<1>4. state \in [Procs -> {"unused", "live", "zombie"}] /\ \A p \in Procs : state[p] = "unused"
  BY <1>1
<1> HIDE DEF NoTable
<1>5. table \in [Procs -> Tables] /\ \A p \in Procs : table[p] = NoTable
  BY <1>1, <1>3
<1>6. Ents \in [Procs -> Rows] /\ \A p \in Procs : Ents[p] = NoTable.ent
  BY <1>3, <1>5 DEF Ents
<1>7. /\ NoObject \in Objects /\ Counts(NoObject, 0, 0)
      /\ refs \in [Objs -> Objects] /\ \A o \in Objs : refs[o] = NoObject
  BY <1>1 DEF NoObject, Objects, Counts
<1>8. ASSUME NEW o \in Objs, NEW end PROVE Cardinality(HoldersOf(Ents, o, end)) = 0
  <2>1. o # None
    BY FdAssumption, Zenon
  <2>2. \A h \in Procs \X Fds : h[1] \in Procs /\ h[2] \in Fds
    OBVIOUS
  <2>3. HoldersOf(Ents, o, end) = {}
    BY <2>1, <2>2, <1>2, <1>6, Zenon DEF HoldersOf
  <2>. QED  BY <2>3, FS_EmptySet, Zenon
<1>9. \A p \in Procs, fd \in Fds : Fits(refs, Ents[p][fd])
  BY <1>2, <1>6, Zenon DEF Fits
<1>10. \A o \in Objs : Counts(refs[o], Cardinality(HoldersOf(Ents, o, "a")),
                                       Cardinality(HoldersOf(Ents, o, "b")))
  BY <1>7, <1>8, Zenon
<1>11. Agree(Ents, refs)
  BY <1>6, <1>7, <1>9, <1>10, Zenon DEF Agree
<1>. QED  BY <1>2, <1>4, <1>5, <1>11, Zenon DEF FdInv

(* Every call keeps the invariant, and none that grows a table changes an  *)
(* open descriptor.                                                        *)
LEMMA NextStep ==
    ASSUME FdInv, FdNext
    PROVE  Stepped
<1>1. PICK p \in Procs :
       \/ Create(p) \/ Exec(p) \/ Exit(p) \/ Reap(p)
       \/ \E q \in Procs : Spawn(p, q)
       \/ \E q \in Procs : Fork(p, q)
       \/ \E o \in Objs, made \in BOOLEAN : OpenShared(p, o, made)
       \/ OpenSpecial(p)
       \/ \E fd \in Fds, o \in Objs : UseSpecial(p, fd, o)
       \/ \E o \in Objs, cl \in BOOLEAN, mem \in BOOLEAN : OpenPair(p, o, cl, mem)
       \/ \E old \in Fds, min \in Fds, cl \in BOOLEAN : Dup(p, old, min, cl)
       \/ \E old \in Fds, new \in Fds, cl \in BOOLEAN : Dup2(p, old, new, cl)
       \/ \E fd \in Fds, cl \in BOOLEAN : SetCloexec(p, fd, cl)
       \/ \E fd \in Fds : Close(p, fd)
       \/ \E limit \in Limits : SetLimit(p, limit)
  BY Zenon DEF FdNext
<1>2. CASE Create(p) \/ Exec(p) \/ Exit(p) \/ Reap(p) \/ OpenSpecial(p)
  BY <1>2, CreateStep, ExecStep, ExitStep, ReapStep, OpenSpecialStep, Zenon
<1>3. CASE \E q \in Procs : Spawn(p, q)
  BY <1>3, SpawnStep, Zenon
<1>4. CASE \E q \in Procs : Fork(p, q)
  BY <1>4, ForkStep, Zenon
<1>5. CASE \E o \in Objs, made \in BOOLEAN : OpenShared(p, o, made)
  BY <1>5, OpenSharedStep, Zenon
<1>6. CASE \E fd \in Fds, o \in Objs : UseSpecial(p, fd, o)
  BY <1>6, UseSpecialStep, Zenon
<1>7. CASE \E o \in Objs, cl \in BOOLEAN, mem \in BOOLEAN : OpenPair(p, o, cl, mem)
  BY <1>7, OpenPairStep, Zenon
<1>8. CASE \E old \in Fds, min \in Fds, cl \in BOOLEAN : Dup(p, old, min, cl)
  BY <1>8, DupStep, Zenon
<1>9. CASE \E old \in Fds, new \in Fds, cl \in BOOLEAN : Dup2(p, old, new, cl)
  BY <1>9, Dup2Step, Zenon
<1>10. CASE \E fd \in Fds, cl \in BOOLEAN : SetCloexec(p, fd, cl)
  BY <1>10, SetCloexecStep, Zenon
<1>11. CASE \E fd \in Fds : Close(p, fd)
  BY <1>11, CloseStep, Zenon
<1>12. CASE \E limit \in Limits : SetLimit(p, limit)
  BY <1>12, SetLimitStep, Zenon
<1>. QED
  BY <1>1, <1>2, <1>3, <1>4, <1>5, <1>6, <1>7, <1>8, <1>9, <1>10, <1>11, <1>12, Zenon

(* A step that changes nothing.                                            *)
LEMMA StutterStep ==
    ASSUME FdInv, UNCHANGED fdVars
    PROVE  FdInv'
<1>1. state' = state /\ table' = table /\ refs' = refs
  BY Zenon DEF fdVars
<1>2. Ents' = Ents
  BY <1>1, Zenon DEF Ents
<1>3. Agree(Ents', refs')
  BY <1>1, <1>2, Zenon DEF FdInv
<1>4. /\ state' \in [Procs -> {"unused", "live", "zombie"}]
      /\ table' \in [Procs -> Tables]
      /\ \A p \in Procs :
            /\ Sound(table'[p])
            /\ state'[p] # "unused" => InitialCap <= table'[p].cap
            /\ state'[p] # "live" => \A fd \in Fds : table'[p].ent[fd].obj = None
  BY <1>1, Zenon DEF FdInv
<1>. QED  BY <1>3, <1>4, Zenon DEF FdInv

(* The invariant contains what TablesSound promises.                       *)
LEMMA InvImplies ==
    ASSUME FdInv
    PROVE  TablesSound
<1>1. /\ state \in [Procs -> {"unused", "live", "zombie"}] /\ table \in [Procs -> Tables]
      /\ \A p \in Procs :
            /\ Sound(table[p])
            /\ state[p] # "unused" => InitialCap <= table[p].cap
      /\ Ents \in [Procs -> Rows] /\ refs \in [Objs -> Objects]
      /\ \A p \in Procs, fd \in Fds : Fits(refs, Ents[p][fd])
      /\ \A o \in Objs : Counts(refs[o], Cardinality(HoldersOf(Ents, o, "a")),
                                       Cardinality(HoldersOf(Ents, o, "b")))
  BY Zenon DEF FdInv, Agree
<1>2. \A p \in Procs : Ents[p] = table[p].ent
  BY Zenon DEF Ents
<1>3. ASSUME NEW p \in Procs, NEW fd \in Fds PROVE table[p].ent[fd] \in Entries
  BY <1>1, <1>2, Zenon DEF Rows
<1>4. FdTypeOK
  <2>1. ASSUME NEW p \in Procs, NEW fd \in Fds
        PROVE table[p].ent[fd] \in
                [kind : {"closed", "console", "shared", "pair", "own", "torn"},
                 obj : Objs \cup {None}, end : {"a", "b"}, cloexec : BOOLEAN]
    BY <1>3, Zenon DEF Entries
  <2>2. ASSUME NEW o \in Objs
        PROVE /\ refs[o].kind \in {"none", "shared", "pair", "own"}
              /\ refs[o].a \in Nat /\ refs[o].b \in Nat
    <3>1. refs[o] \in Objects
      BY <1>1, Zenon
    <3>. QED  BY <3>1 DEF Objects
  <2>. QED  BY <2>1, <2>2, <1>1, Zenon DEF FdTypeOK
<1>5. TablesValid
  <2>1. ASSUME NEW p \in Procs, state[p] # "unused" PROVE table[p].cap >= InitialCap
    <3>1. table[p] \in Tables /\ InitialCap <= table[p].cap
      BY <2>1, <1>1, Zenon
    <3>2. table[p].cap \in Nat
      BY <3>1 DEF Tables
    <3>. QED  BY <3>1, <3>2, FdAssumption
  <2>. QED  BY <2>1, <1>1, Zenon DEF TablesValid, Sound
<1>6. ASSUME NEW o, NEW end PROVE Holders(o, end) = HoldersOf(Ents, o, end)
  <2>1. \A h \in Procs \X Fds : h[1] \in Procs /\ h[2] \in Fds
    OBVIOUS
  <2>. QED  BY <2>1, <1>2, Zenon DEF Holders, HoldersOf
<1>7. \A o \in Objs : Counts(refs[o], Cardinality(Holders(o, "a")), Cardinality(Holders(o, "b")))
  BY <1>1, <1>6, Zenon
<1>8. NoDangling
  <2>1. ASSUME NEW o \in Objs PROVE refs[o].a >= Cardinality(Holders(o, "a"))
    BY <1>7, Zenon DEF Counts
  <2>2. ASSUME NEW o \in Objs PROVE refs[o].b >= Cardinality(Holders(o, "b"))
    <3>1. refs[o].b = Cardinality(Holders(o, "b")) /\ refs[o] \in Objects
      BY <1>1, <1>7, Zenon DEF Counts
    <3>2. refs[o].b >= refs[o].b
      BY <3>1 DEF Objects
    <3>. QED  BY <3>1, <3>2, Zenon
  <2>3. ASSUME NEW o \in Objs, NEW p \in Procs, NEW fd \in Fds, table[p].ent[fd].obj = o
        PROVE  table[p].ent[fd].kind = refs[o].kind
    <3>1. Fits(refs, table[p].ent[fd]) /\ o # None
      BY <1>1, <1>2, FdAssumption, Zenon
    <3>. QED  BY <3>1, <2>3, Zenon DEF Fits
  <2>. QED  BY <2>1, <2>2, <2>3, Zenon DEF NoDangling
<1>9. LastCloseReleases
  <2>1. ASSUME NEW o \in Objs, refs[o].kind \in {"shared", "own"}
        PROVE  refs[o].a = Cardinality(Holders(o, "a"))
    <3>1. refs[o].kind # "pair"
      BY <2>1
    <3>. QED  BY <3>1, <1>7, Zenon DEF Counts
  <2>2. ASSUME NEW o \in Objs PROVE refs[o].b = Cardinality(Holders(o, "b"))
    BY <1>7, Zenon DEF Counts
  <2>. QED  BY <2>1, <2>2, Zenon DEF LastCloseReleases
<1>. QED  BY <1>4, <1>5, <1>8, <1>9, Zenon DEF TablesSound

(* The inductive invariant holds in every state.                           *)
THEOREM FdInvariant == FdSpec => []FdInv
<1>1. FdInit => FdInv
  BY InitInv, Zenon
<1>2. FdInv /\ [FdNext]_fdVars => FdInv'
  BY NextStep, StutterStep, Zenon DEF Stepped
<1>. QED  BY <1>1, <1>2, PTL DEF FdSpec

(* Whatever calls the processes make, every descriptor points at an object *)
(* that is there and of its own kind, an object without two ends is freed  *)
(* by the close of its last descriptor and by no other, and every table    *)
(* passes process_fd_table_is_valid.                                       *)
THEOREM TablesTheorem == FdSpec => []TablesSound
<1>1. FdInv => TablesSound
  BY InvImplies, Zenon
<1>. QED  BY <1>1, FdInvariant, PTL

(* process_fd_table_grow never changes a descriptor that was open.         *)
THEOREM GrowthTheorem == FdSpec => GrowthKeepsDescriptors
<1>1. FdInv /\ [FdNext]_fdVars => [Growth]_fdVars
  BY NextStep, Zenon DEF Stepped
<1>. QED  BY <1>1, FdInvariant, PTL DEF FdSpec, GrowthKeepsDescriptors, Growth
=============================================================================
