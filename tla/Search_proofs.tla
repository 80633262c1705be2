--------------------------- MODULE Search_proofs ---------------------------
(***************************************************************************)
(* Machine-checked proofs about the store as its readers see it, for any   *)
(* database an earlier version left, any events and page size: the         *)
(* full-text index holds exactly the rows, and a walk through the pages    *)
(* of a search is exact under appends and purges.  And about what a query  *)
(* means, for any texts and tables of their conversions: to a live tail    *)
(* what it means to a search.                                              *)
(***************************************************************************)
EXTENDS Search, Query, FiniteSetTheorems, TLAPS

-----------------------------------------------------------------------------
(* Finite sets: a greatest number, and a listing in the order of a search.   *)

\* The order of the naturals, as a set of pairs, is well founded.
LEMMA NatOrder == IsWellFoundedOn({p \in Nat \X Nat : p[1] < p[2]}, Nat)
<1>1. OpToRel(<, Nat) = {p \in Nat \X Nat : p[1] < p[2]}
  BY DEF OpToRel
<1> QED BY <1>1, NatLessThanWellFounded

\* A set of naturals has a least element.
LEMMA Least ==
    ASSUME NEW S \in SUBSET Nat, S # {}
    PROVE  \E m \in S : \A x \in S : m <= x
<1> DEFINE R == {p \in Nat \X Nat : p[1] < p[2]}
<1>1. IsWellFoundedOn(R, Nat)
  BY NatOrder
<1>2. \A x, y \in Nat : x < y => <<x, y>> \in R
  OBVIOUS
<1> HIDE DEF R
<1>3. PICK m \in S : \A y \in S : ~(<<y, m>> \in R)
  BY <1>1, WFMin
<1>4. ASSUME NEW x \in S PROVE m <= x
  <2>1. x \in Nat /\ m \in Nat /\ ~(<<x, m>> \in R)
    BY <1>3
  <2>2. ~(x < m)
    BY <2>1, <1>2
  <2> QED BY <2>1, <2>2
<1> QED BY <1>4

\* The finite sets of one size.
Sized(U, n) == {S \in SUBSET U : IsFiniteSet(S) /\ Cardinality(S) = n}

\* One element less.
LEMMA OneLess ==
    ASSUME NEW U, NEW n \in Nat, NEW S \in Sized(U, n), n # 0, NEW x \in S
    PROVE  n - 1 \in Nat /\ S \ {x} \in Sized(U, n - 1)
<1>1. IsFiniteSet(S) /\ Cardinality(S) = n /\ S \in SUBSET U
  BY DEF Sized
<1>2. IsFiniteSet(S \ {x}) /\ Cardinality(S \ {x}) = n - 1
  BY <1>1, FS_RemoveElement
<1> QED BY <1>1, <1>2 DEF Sized

\* No number reaches all elements of an unbounded set.
Bounded(S) == \E b \in Nat : \A x \in S : x <= b

\* A finite set of numbers is bounded: a smallest that is not would be one
\* element larger than one that is.
LEMMA FiniteIsBounded ==
    ASSUME NEW S \in SUBSET Nat, IsFiniteSet(S)
    PROVE  Bounded(S)
<1> DEFINE Bad == {k \in Nat : \E T \in Sized(Nat, k) : ~Bounded(T)}
<1>1. SUFFICES Bad = {}
  <2>1. Cardinality(S) \in Nat /\ S \in Sized(Nat, Cardinality(S))
    BY FS_CardinalityType DEF Sized
  <2> QED BY <2>1
<1>2. SUFFICES ASSUME Bad # {} PROVE FALSE
  OBVIOUS
<1>3. PICK k \in Bad : \A x \in Bad : k <= x
  <2>1. Bad \in SUBSET Nat
    OBVIOUS
  <2> HIDE DEF Bad
  <2> QED BY <1>2, <2>1, Least
<1>4. PICK T \in Sized(Nat, k) : ~Bounded(T)
  BY <1>3
<1>5. k \in Nat /\ T \in SUBSET Nat /\ IsFiniteSet(T) /\ Cardinality(T) = k
  BY <1>3 DEF Sized
<1>6. PICK x \in T : TRUE
  BY <1>4 DEF Bounded
<1>7. k # 0
  BY <1>5, <1>6, FS_EmptySet
<1>8. k - 1 \in Nat /\ T \ {x} \in Sized(Nat, k - 1)
  BY <1>5, <1>7, OneLess
<1>9. k - 1 \notin Bad
  <2>1. ~(k <= k - 1)
    BY <1>5
  <2> QED BY <1>3, <2>1
<1>10. PICK b \in Nat : \A y \in T \ {x} : y <= b
  BY <1>8, <1>9 DEF Bounded
<1>11. \A y \in T : y <= b + x
  BY <1>5, <1>10
<1> QED BY <1>4, <1>5, <1>6, <1>11 DEF Bounded

\* The rowid of a new row is in use nowhere.
LEMMA NextIsFree ==
    ASSUME DOMAIN rows \subseteq Nat \ {0}, IsFiniteSet(DOMAIN rows)
    PROVE  NextRowid \in Nat \ {0} /\ NextRowid \notin DOMAIN rows
<1> DEFINE D == {0} \cup DOMAIN rows
<1>1. D \in SUBSET Nat /\ Bounded(D)
  <2>1. Bounded(DOMAIN rows)
    BY FiniteIsBounded
  <2>2. PICK b \in Nat : \A x \in DOMAIN rows : x <= b
    BY <2>1 DEF Bounded
  <2>3. \A x \in D : x <= b
    BY <2>2
  <2> QED BY <2>2, <2>3 DEF Bounded
<1>2. \E m \in D : \A x \in D : m >= x
  <2> DEFINE Bounds == {n \in Nat : \A x \in D : x <= n}
  <2>1. Bounds \in SUBSET Nat /\ Bounds # {}
    BY <1>1 DEF Bounded
  <2>2. PICK m \in Bounds : \A n \in Bounds : m <= n
    <3> HIDE DEF Bounds
    <3> QED BY <2>1, Least
  <2>3. m \in D
    <3>1. SUFFICES ASSUME m \notin D PROVE FALSE
      OBVIOUS
    <3>2. m \in Nat /\ \A x \in D : x \in Nat /\ x <= m /\ x # m
      BY <1>1, <2>2, <3>1
    <3>3. m - 1 \in Nat /\ \A x \in D : x <= m - 1
      <4>1. 0 \in D
        OBVIOUS
      <4> HIDE DEF D
      <4> QED BY <3>2, <4>1
    <3>4. m - 1 \in Bounds /\ ~(m <= m - 1)
      BY <3>2, <3>3
    <3> QED BY <2>2, <3>4
  <2> QED BY <1>1, <2>2, <2>3
<1> HIDE DEF D
<1>3. Max(D) \in D /\ \A x \in D : Max(D) >= x
  BY <1>2 DEF Max
<1>4. Max(D) + 1 \in Nat \ {0} /\ Max(D) + 1 \notin D
  <2> DEFINE m == Max(D)
  <2>1. m \in Nat /\ \A x \in D : m >= x
    BY <1>1, <1>3
  <2> HIDE DEF m
  <2>2. m + 1 \in Nat \ {0} /\ ~(m >= m + 1)
    BY <2>1
  <2>3. m + 1 \notin D
    BY <2>1, <2>2
  <2> QED BY <2>2, <2>3 DEF m
<1> QED BY <1>4 DEF NextRowid, D

-----------------------------------------------------------------------------
(* The order of a search. *)

\* Newest or oldest first: by time, then by ID.
LEMMA AfterOrders ==
    /\ \A e \in LogIds : ~After(e, e)
    /\ \A e, f \in LogIds : e = f \/ After(e, f) \/ After(f, e)
    /\ \A e, f, g \in LogIds : After(e, f) /\ After(f, g) => After(e, g)
<1>1. \A e \in LogIds : e \in Nat /\ LogTime[e] \in Nat
  BY SearchAssumption DEF SearchAssumption
<1>2. CASE order = "oldest"
  BY <1>1, <1>2 DEF After
<1>3. CASE order # "oldest"
  BY <1>1, <1>3 DEF After
<1> QED BY <1>2, <1>3

HasLast(S) == \E m \in S : \A x \in S \ {m} : After(m, x)

\* A finite set of events has one that comes last.
LEMMA LastOne ==
    ASSUME NEW n \in Nat, NEW S \in Sized(LogIds, n), S # {}
    PROVE  HasLast(S)
<1> DEFINE Bad == {k \in Nat : \E T \in Sized(LogIds, k) : T # {} /\ ~HasLast(T)}
<1>1. SUFFICES ASSUME Bad # {} PROVE FALSE
  OBVIOUS
<1>2. PICK k \in Bad : \A x \in Bad : k <= x
  <2>1. Bad \in SUBSET Nat
    OBVIOUS
  <2> HIDE DEF Bad
  <2> QED BY <1>1, <2>1, Least
<1>3. PICK T \in Sized(LogIds, k) : T # {} /\ ~HasLast(T)
  BY <1>2
<1>4. k \in Nat /\ k # 0 /\ T \in SUBSET LogIds
  <2>1. IsFiniteSet(T) /\ Cardinality(T) = k /\ T \in SUBSET LogIds
    BY DEF Sized
  <2> QED BY <1>2, <1>3, <2>1, FS_EmptySet
<1>5. PICK x \in T : TRUE
  BY <1>3
<1>6. k - 1 \in Nat /\ T \ {x} \in Sized(LogIds, k - 1)
  BY <1>4, OneLess
<1>7. k - 1 \notin Bad
  <2>1. ~(k <= k - 1)
    BY <1>4
  <2> QED BY <1>2, <2>1
<1>8. CASE T \ {x} = {}
  BY <1>3, <1>8 DEF HasLast
<1>9. CASE T \ {x} # {}
  <2>1. HasLast(T \ {x})
    BY <1>6, <1>7, <1>9
  <2>2. PICK m \in T \ {x} : \A y \in (T \ {x}) \ {m} : After(m, y)
    BY <2>1 DEF HasLast
  <2>3. CASE After(x, m)
    <3>1. \A y \in T \ {x} : After(x, y)
      BY <1>4, <2>2, <2>3, AfterOrders
    <3> QED BY <1>3, <3>1 DEF HasLast
  <2>4. CASE ~After(x, m)
    <3>1. After(m, x)
      BY <1>4, <2>2, <2>4, AfterOrders
    <3>2. \A y \in T \ {m} : After(m, y)
      BY <2>2, <3>1
    <3> QED BY <1>3, <3>2 DEF HasLast
  <2> QED BY <2>3, <2>4
<1> QED BY <1>8, <1>9

Sorted(s) == \A i, j \in DOMAIN s : i < j => After(s[j], s[i])
Lists(s, S) == s \in [1..Cardinality(S) -> S] /\ ToSet(s) = S /\ Sorted(s)

\* A finite set of events can be put in order.
LEMMA Listable ==
    ASSUME NEW n \in Nat, NEW S \in Sized(LogIds, n)
    PROVE  \E s : Lists(s, S)
<1> DEFINE Bad == {k \in Nat : \E T \in Sized(LogIds, k) : ~\E s : Lists(s, T)}
<1>1. SUFFICES ASSUME Bad # {} PROVE FALSE
  OBVIOUS
<1>2. PICK k \in Bad : \A x \in Bad : k <= x
  <2>1. Bad \in SUBSET Nat
    OBVIOUS
  <2> HIDE DEF Bad
  <2> QED BY <1>1, <2>1, Least
<1>3. PICK T \in Sized(LogIds, k) : ~\E s : Lists(s, T)
  BY <1>2
<1>4. k \in Nat /\ T \in SUBSET LogIds /\ IsFiniteSet(T) /\ Cardinality(T) = k
  BY <1>2 DEF Sized
<1>5. k # 0
  <2>1. SUFFICES ASSUME k = 0 PROVE FALSE
    OBVIOUS
  <2>2. T = {}
    BY <1>4, <2>1, FS_EmptySet
  <2>3. Lists([i \in 1..0 |-> 0], T)
    BY <1>4, <2>1, <2>2 DEF Lists, Sorted, ToSet
  <2> QED BY <1>3, <2>3
<1>6. T # {}
  BY <1>4, <1>5, FS_EmptySet
<1>7. PICK m \in T : \A x \in T \ {m} : After(m, x)
  BY <1>4, <1>6, LastOne DEF HasLast
<1>8. k - 1 \in Nat /\ T \ {m} \in Sized(LogIds, k - 1)
  BY <1>4, <1>5, OneLess
<1>9. k - 1 \notin Bad
  <2>1. ~(k <= k - 1)
    BY <1>4
  <2> QED BY <1>2, <2>1
<1>10. PICK t : Lists(t, T \ {m})
  BY <1>8, <1>9
<1>11. /\ t \in [1..(k - 1) -> T \ {m}] /\ ToSet(t) = T \ {m}
       /\ \A i, j \in 1..(k - 1) : i < j => After(t[j], t[i])
  <2>1. Cardinality(T \ {m}) = k - 1
    BY <1>8 DEF Sized
  <2>2. t \in [1..(k - 1) -> T \ {m}]
    BY <1>10, <2>1 DEF Lists
  <2> QED BY <1>10, <2>2 DEF Lists, Sorted
<1> DEFINE s == [i \in 1..k |-> IF i = k THEN m ELSE t[i]]
<1>12. /\ \A i \in 1..k : i = k \/ i \in 1..(k - 1)
       /\ \A i, j \in 1..k : i < j => i \in 1..(k - 1)
       /\ \A i \in 1..(k - 1) : i \in 1..k /\ i # k
       /\ k \in 1..k
  BY <1>4, <1>5
<1>13. s \in [1..k -> T]
  BY <1>11, <1>12
<1>14. ASSUME NEW i \in 1..k, NEW j \in 1..k, i < j PROVE After(s[j], s[i])
  <2>1. i \in 1..(k - 1) /\ i # k /\ s[i] = t[i] /\ t[i] \in T \ {m}
    BY <1>4, <1>11, <1>12, <1>14
  <2>2. CASE j = k
    BY <1>7, <2>1, <2>2
  <2>3. CASE j # k
    <3>1. j \in 1..(k - 1) /\ s[j] = t[j]
      BY <1>12, <2>3
    <3> QED BY <1>11, <1>14, <2>1, <3>1
  <2> QED BY <2>2, <2>3
<1>15. ToSet(s) = T
  <2>1. ASSUME NEW x \in T PROVE x \in ToSet(s)
    <3>1. CASE x = m
      BY <1>12, <3>1 DEF ToSet
    <3>2. CASE x # m
      <4>1. PICK i \in 1..(k - 1) : x = t[i]
        BY <1>11, <3>2 DEF ToSet
      <4>2. s[i] = x /\ i \in DOMAIN s
        BY <1>12, <4>1
      <4> HIDE DEF s
      <4> QED BY <4>2 DEF ToSet
    <3> QED BY <3>1, <3>2
  <2>2. ToSet(s) \subseteq T
    BY <1>13 DEF ToSet
  <2> QED BY <2>1, <2>2
<1>16. Lists(s, T)
  BY <1>4, <1>13, <1>14, <1>15 DEF Lists, Sorted
<1> QED BY <1>3, <1>16

\* InOrder lists a finite set of events in the order of the search.
LEMMA InOrderLists ==
    ASSUME NEW S, S \subseteq LogIds, IsFiniteSet(S)
    PROVE  /\ Lists(InOrder(S), S)
           /\ InOrder(S) \in Seq(LogIds) /\ DOMAIN InOrder(S) = 1..Len(InOrder(S))
<1>1. Cardinality(S) \in Nat
  BY FS_CardinalityType
<1>2. \E s : Lists(s, S)
  BY <1>1, Listable DEF Sized
<1>3. \E s \in [1..Cardinality(S) -> S] :
         ToSet(s) = S /\ \A i, j \in DOMAIN s : i < j => After(s[j], s[i])
  BY <1>2 DEF Lists, Sorted
<1>4. Lists(InOrder(S), S)
  BY <1>3 DEF InOrder, Lists, Sorted
<1>5. InOrder(S) \in [1..Cardinality(S) -> S]
  BY <1>4 DEF Lists
<1>6. InOrder(S) \in Seq(LogIds)
  BY <1>1, <1>5
<1> QED BY <1>4, <1>6

\* What a page is of the events it is taken from: their beginning, as long as
\* the limit allows; what it leaves out comes after it.
LEMMA PageOf ==
    ASSUME NEW S, S \subseteq LogIds, IsFiniteSet(S)
    PROVE  LET p == AtMost(InOrder(S), PageSize) IN
           /\ p \in Seq(LogIds) /\ Len(p) <= PageSize /\ ToSet(p) \subseteq S /\ Sorted(p)
           /\ \A e \in S : \/ e \in ToSet(p)
                           \/ Len(p) = PageSize /\ After(e, p[Len(p)])
<1> DEFINE s == InOrder(S)
           p == AtMost(s, PageSize)
<1>1. s \in Seq(LogIds) /\ Lists(s, S) /\ DOMAIN s = 1..Len(s) /\ Len(s) \in Nat
  BY InOrderLists
<1>2. PageSize \in Nat \ {0}
  BY SearchAssumption DEF SearchAssumption
<1> HIDE DEF s
<1> DEFINE n == IF Len(s) < PageSize THEN Len(s) ELSE PageSize
<1>3. n \in Nat /\ n <= Len(s) /\ n <= PageSize /\ (n < Len(s) => n = PageSize)
  <2>1. Len(s) \in Nat /\ PageSize \in Nat
    BY <1>1, <1>2
  <2>2. CASE Len(s) < PageSize
    BY <2>1, <2>2
  <2>3. CASE ~(Len(s) < PageSize)
    BY <2>1, <2>3
  <2> QED BY <2>2, <2>3
<1>4. p = SubSeq(s, 1, n)
  BY DEF AtMost
<1> HIDE DEF n, p
<1>5. p \in Seq(LogIds) /\ Len(p) = n /\ DOMAIN p = 1..n /\ \A i \in 1..n : p[i] = s[i] /\ i \in 1..Len(s)
  BY <1>1, <1>3, <1>4
<1>6. ToSet(p) \subseteq S
  <2>1. \A i \in 1..n : p[i] \in ToSet(s)
    BY <1>1, <1>5 DEF ToSet
  <2> QED BY <1>1, <1>5, <2>1 DEF ToSet, Lists
<1>7. Sorted(p)
  BY <1>1, <1>5 DEF Sorted, Lists
<1>8. ASSUME NEW e \in S, e \notin ToSet(p) PROVE n = PageSize /\ After(e, p[n])
  <2>1. PICK i \in 1..Len(s) : e = s[i]
    BY <1>1 DEF Lists, ToSet
  <2>2. ~(i <= n)
    BY <1>5, <1>8, <2>1 DEF ToSet
  <2>3. n < i /\ n < Len(s) /\ n = PageSize /\ n \in 1..Len(s) /\ n \in 1..n
    BY <1>1, <1>2, <1>3, <2>2
  <2>4. After(s[i], s[n])
    BY <1>1, <2>1, <2>3 DEF Lists, Sorted
  <2> QED BY <1>5, <2>1, <2>3, <2>4
<1>9. /\ p \in Seq(LogIds) /\ Len(p) <= PageSize /\ ToSet(p) \subseteq S /\ Sorted(p)
      /\ \A e \in S : e \in ToSet(p) \/ (Len(p) = PageSize /\ After(e, p[Len(p)]))
  BY <1>3, <1>5, <1>6, <1>7, <1>8
<1> QED BY <1>9 DEF p, s

-----------------------------------------------------------------------------
(* The table and its index. *)

\* A row per event, and from the rebuild on, an index row per row.
TableInv ==
    /\ SearchTypeOK
    /\ IsFiniteSet(DOMAIN rows)
    /\ IsInjective(rows)
    /\ version >= RebuildVersion => index = rows
    /\ opened \/ search # "idle" \/ cursor # FirstPage => version = Latest

\* A database, and nothing asked of it.
LEMMA TableInit == SearchInit => TableInv
<1> SUFFICES ASSUME SearchInit PROVE TableInv
  OBVIOUS
<1>0. /\ Latest \in Nat /\ Latest >= 2 /\ MaxRestarts \in Nat /\ PageSize \in Nat \ {0}
      /\ \A f \in {OldRows} \cup OldIndexes : DOMAIN f \subseteq Nat \ {0} /\ Range(f) \subseteq LogIds
      /\ IsFiniteSet(DOMAIN OldRows) /\ IsInjective(OldRows)
  BY SearchAssumption DEF SearchAssumption
<1>1. DOMAIN NoRows = {} /\ Range(NoRows) = {} /\ IsInjective(NoRows)
  BY DEF NoRows, Range, IsInjective
<1>2. rows \in {NoRows, OldRows} /\ index \in OldIndexes \cup {rows}
  BY DEF SearchInit
<1>3. /\ \A f \in {rows, index} : DOMAIN f \subseteq Nat \ {0} /\ Range(f) \subseteq LogIds
      /\ IsInjective(rows)
  BY <1>0, <1>1, <1>2
<1>4. IsFiniteSet(DOMAIN rows)
  BY <1>0, <1>1, <1>2, FS_EmptySet
<1>5. version >= RebuildVersion => index = rows
  <2>1. version \in Nat
    BY <1>0 DEF SearchInit
  <2> QED BY <2>1 DEF SearchInit, RebuildVersion
<1>6. SearchTypeOK
  <2>1. version \in 0..(Latest + 1) /\ restarts = 0 /\ 0 \in 0..MaxRestarts
    BY <1>0 DEF SearchInit
  <2>2. /\ opened \in BOOLEAN /\ search \in {"idle", "asked", "read", "done"}
        /\ order \in {"newest", "oldest"} /\ cursor \in LogIds \cup {FirstPage}
        /\ owed \in SUBSET LogIds /\ streaming \subseteq Exporters
    BY DEF SearchInit
  <2>3. page \in Seq(LogIds) /\ Len(page) <= PageSize /\ walked \in Seq(LogIds)
    BY <1>0 DEF SearchInit
  <2> QED BY <1>3, <2>1, <2>2, <2>3 DEF SearchTypeOK
<1> QED BY <1>3, <1>4, <1>5, <1>6 DEF TableInv, SearchInit

\* The rowid of an event: the one it has, or a free one.
LEMMA RowidIs ==
    ASSUME TableInv, NEW e \in LogIds
    PROVE  /\ RowidOf(e) \in Nat \ {0}
           /\ e \in Range(rows) => RowidOf(e) \in DOMAIN rows /\ rows[RowidOf(e)] = e
           /\ e \notin Range(rows) => RowidOf(e) \notin DOMAIN rows
<1>1. DOMAIN rows \subseteq Nat \ {0} /\ IsFiniteSet(DOMAIN rows)
  BY DEF TableInv, SearchTypeOK
<1>2. CASE e \in Range(rows)
  <2>1. \E r \in DOMAIN rows : rows[r] = e
    BY <1>2 DEF Range
  <2>2. RowidOf(e) = CHOOSE r \in DOMAIN rows : rows[r] = e
    BY <1>2 DEF RowidOf
  <2>3. RowidOf(e) \in DOMAIN rows /\ rows[RowidOf(e)] = e
    BY <2>1, <2>2
  <2> QED BY <1>1, <1>2, <2>3
<1>3. CASE e \notin Range(rows)
  <2>1. RowidOf(e) = NextRowid
    BY <1>3 DEF RowidOf
  <2> QED BY <1>1, <1>3, <2>1, NextIsFree
<1> QED BY <1>2, <1>3

\* A row put where the event is, or where none is.
LEMMA PutKeeps ==
    ASSUME NEW t, NEW k \in Nat \ {0}, NEW e \in LogIds,
           DOMAIN t \subseteq Nat \ {0}, Range(t) \subseteq LogIds, IsFiniteSet(DOMAIN t), IsInjective(t),
           e \in Range(t) => k \in DOMAIN t /\ t[k] = e,
           e \notin Range(t) => k \notin DOMAIN t
    PROVE  LET u == Put(t, k, e) IN
           /\ DOMAIN u \subseteq Nat \ {0} /\ Range(u) \subseteq LogIds
           /\ IsFiniteSet(DOMAIN u) /\ IsInjective(u)
           /\ DOMAIN t \subseteq DOMAIN u /\ \A i \in DOMAIN t : u[i] = t[i]
<1> DEFINE u == Put(t, k, e)
<1>1. DOMAIN u = DOMAIN t \cup {k} /\ \A i \in DOMAIN u : u[i] = IF i = k THEN e ELSE t[i]
  BY DEF Put
<1> HIDE DEF u
<1>2. IsFiniteSet(DOMAIN u)
  BY <1>1, FS_AddElement
<1>3. \A i \in DOMAIN t : u[i] = t[i] /\ t[i] \in Range(t)
  BY <1>1 DEF Range
<1>4. IsInjective(u)
  <2>1. SUFFICES ASSUME NEW i \in DOMAIN u, NEW j \in DOMAIN u, u[i] = u[j] PROVE i = j
    BY DEF IsInjective
  <2>2. CASE i \in DOMAIN t /\ j \in DOMAIN t
    BY <1>3, <2>1, <2>2 DEF IsInjective
  <2>3. CASE i \notin DOMAIN t \/ j \notin DOMAIN t
    <3>1. e \notin Range(t) /\ k \notin DOMAIN t
      BY <1>1, <2>1, <2>3
    <3>2. \A x \in DOMAIN t : u[x] # e
      BY <1>3, <3>1
    <3> QED BY <1>1, <2>1, <2>3, <3>2
  <2> QED BY <2>2, <2>3
<1>5. Range(u) \subseteq LogIds
  <2>1. \A i \in DOMAIN u : u[i] \in LogIds
    BY <1>1, <1>3
  <2> QED BY <2>1 DEF Range
<1> QED BY <1>1, <1>2, <1>3, <1>4, <1>5 DEF u

\* An append keeps the index equal to the rows, and every row that is there.
LEMMA AppendKeeps ==
    ASSUME TableInv, NEW e \in LogIds, AppendRow(e)
    PROVE  /\ \A f \in {rows', index'} : DOMAIN f \subseteq Nat \ {0} /\ Range(f) \subseteq LogIds
           /\ IsFiniteSet(DOMAIN rows') /\ IsInjective(rows') /\ index' = rows'
           /\ DOMAIN rows \subseteq DOMAIN rows' /\ \A i \in DOMAIN rows : rows'[i] = rows[i]
           /\ index = rows
<1>1. index = rows
  <2>1. version = Latest /\ Latest >= 2
    BY SearchAssumption DEF TableInv, AppendRow, SearchAssumption
  <2> QED BY <2>1 DEF TableInv, RebuildVersion
<1>2. rows' = Put(rows, RowidOf(e), e) /\ index' = rows'
  BY <1>1 DEF AppendRow
<1>3. /\ DOMAIN rows \subseteq Nat \ {0} /\ Range(rows) \subseteq LogIds
      /\ IsFiniteSet(DOMAIN rows) /\ IsInjective(rows)
  BY DEF TableInv, SearchTypeOK
<1> QED BY <1>1, <1>2, <1>3, RowidIs, PutKeeps

\* A purge removes the same rows from both, and no others.
LEMMA PurgeKeeps ==
    ASSUME TableInv, opened, NEW old, PurgeBoth(old)
    PROVE  /\ \A f \in {rows', index'} : DOMAIN f \subseteq Nat \ {0} /\ Range(f) \subseteq LogIds
           /\ IsFiniteSet(DOMAIN rows') /\ IsInjective(rows') /\ index' = rows'
           /\ DOMAIN rows' = DOMAIN rows \ old /\ \A i \in DOMAIN rows' : rows'[i] = rows[i]
           /\ index = rows
<1>1. index = rows
  <2>1. version = Latest /\ Latest >= 2
    BY SearchAssumption DEF TableInv, SearchAssumption
  <2> QED BY <2>1 DEF TableInv, RebuildVersion
<1>2. index' = rows' /\ DOMAIN rows' = DOMAIN rows \ old /\ \A i \in DOMAIN rows' : rows'[i] = rows[i]
  BY <1>1 DEF PurgeBoth
<1>3. /\ DOMAIN rows \subseteq Nat \ {0} /\ Range(rows) \subseteq LogIds
      /\ IsFiniteSet(DOMAIN rows) /\ IsInjective(rows)
  BY DEF TableInv, SearchTypeOK
<1>4. IsFiniteSet(DOMAIN rows')
  BY <1>2, <1>3, FS_Subset
<1>5. IsInjective(rows')
  BY <1>2, <1>3 DEF IsInjective
<1>6. Range(rows') \subseteq LogIds
  BY <1>2, <1>3 DEF Range
<1> QED BY <1>1, <1>2, <1>3, <1>4, <1>5, <1>6

\* What a search finds are stored events, finitely many.
LEMMA FoundIs ==
    ASSUME TableInv
    PROVE  Found \subseteq LogIds /\ IsFiniteSet(Found)
<1>1. DOMAIN rows \subseteq Nat \ {0} /\ Range(rows) \subseteq LogIds /\ IsFiniteSet(DOMAIN rows)
  BY DEF TableInv, SearchTypeOK
<1> DEFINE D == {i \in DOMAIN rows \cap DOMAIN index : index[i] \in Hits}
           f == [i \in D |-> rows[i]]
<1>2. IsFiniteSet(D)
  BY <1>1, FS_Subset
<1>3. Found \subseteq Range(rows) /\ f \in Surjection(D, Found)
  BY DEF Found, Range, Surjection
<1> HIDE DEF D, f
<1>4. IsFiniteSet(Found)
  BY <1>2, <1>3, FS_Surjection
<1> QED BY <1>1, <1>3, <1>4

\* Every step keeps the table and its index.
LEMMA TableStep == TableInv /\ [SearchNext]_searchVars => TableInv'
<1> SUFFICES ASSUME TableInv, [SearchNext]_searchVars PROVE TableInv'
  OBVIOUS
<1>0. /\ Latest \in Nat /\ Latest >= 2 /\ MaxRestarts \in Nat /\ PageSize \in Nat \ {0}
      /\ LogIds \subseteq Nat \ {0}
  BY SearchAssumption DEF SearchAssumption
<1>1. /\ SearchTypeOK /\ IsFiniteSet(DOMAIN rows) /\ IsInjective(rows)
      /\ version \in Nat /\ (version >= RebuildVersion => index = rows)
      /\ opened \/ search # "idle" \/ cursor # FirstPage => version = Latest
  BY <1>0 DEF TableInv, SearchTypeOK
<1>10. \A p \in {page, <<>>} : p \in Seq(LogIds) /\ Len(p) <= PageSize
  <2>1. page \in Seq(LogIds) /\ Len(page) <= PageSize
    BY <1>1 DEF SearchTypeOK
  <2>2. <<>> \in Seq(LogIds) /\ Len(<<>>) <= PageSize
    BY <1>0
  <2> QED BY <2>1, <2>2
<1>2. ASSUME version' = version, restarts' = restarts, UNCHANGED walkVars,
             opened' = opened, streaming' \subseteq Exporters,
             \A f \in {rows', index'} : DOMAIN f \subseteq Nat \ {0} /\ Range(f) \subseteq LogIds,
             IsFiniteSet(DOMAIN rows'), IsInjective(rows'), version >= RebuildVersion => index' = rows'
      PROVE  TableInv'
  <2>1. SearchTypeOK'
    BY <1>1, <1>2 DEF SearchTypeOK, walkVars
  <2> QED BY <1>1, <1>2, <2>1 DEF TableInv, walkVars
<1>3. CASE Migrate
  <2>1. version' = version + 1 /\ version < Latest /\ rows' = rows /\ index' \in {index, rows}
        /\ UNCHANGED <<opened, restarts, walkVars, streaming>>
    BY <1>3 DEF Migrate, RebuildIndex
  <2>2. version' >= RebuildVersion => index' = rows'
    <3>1. CASE version' = RebuildVersion
      BY <1>3, <3>1 DEF Migrate, RebuildIndex
    <3>2. CASE version' # RebuildVersion
      <4>1. version' >= RebuildVersion => version >= RebuildVersion
        BY <1>1, <2>1, <3>2 DEF RebuildVersion
      <4> QED BY <1>1, <1>3, <3>2, <4>1 DEF Migrate
    <3> QED BY <3>1, <3>2
  <2>3. version' \in 0..(Latest + 1)
    BY <1>0, <1>1, <2>1
  <2>4. SearchTypeOK'
    BY <1>1, <2>1, <2>3 DEF SearchTypeOK, walkVars
  <2> QED BY <1>0, <1>1, <2>1, <2>2, <2>4 DEF TableInv, walkVars
<1>4. CASE Open \/ Restart
  <2>1. /\ UNCHANGED <<version, rows, index, order, cursor, walked, owed>>
        /\ opened' \in BOOLEAN /\ (opened' => version = Latest)
        /\ restarts' \in 0..MaxRestarts
        /\ search' \in {search, "idle"} /\ page' \in {page, <<>>} /\ streaming' \subseteq streaming
    <3>1. CASE Open
      BY <1>1, <3>1 DEF Open, dbVars, walkVars, SearchTypeOK
    <3>2. CASE Restart
      <4>1. restarts' \in 0..MaxRestarts
        BY <1>0, <1>1, <3>2 DEF Restart, SearchTypeOK
      <4> QED BY <3>2, <4>1 DEF Restart, dbVars
    <3> QED BY <1>4, <3>1, <3>2
  <2>2. search' \in {"idle", "asked", "read", "done"}
    BY <1>1, <2>1 DEF SearchTypeOK
  <2>3. page' \in Seq(LogIds) /\ Len(page') <= PageSize
    BY <1>10, <2>1
  <2>4. SearchTypeOK'
    BY <1>1, <2>1, <2>2, <2>3 DEF SearchTypeOK
  <2> QED BY <1>1, <2>1, <2>4 DEF TableInv
<1>5. ASSUME NEW e \in LogIds, AppendRow(e) PROVE TableInv'
  BY <1>1, <1>2, <1>5, AppendKeeps DEF AppendRow, SearchTypeOK
<1>6. ASSUME NEW cutoff, Purge(cutoff) PROVE TableInv'
  <2>1. PICK old : PurgeBoth(old) /\ owed' = owed \ {rows[r] : r \in old}
    BY <1>6 DEF Purge
  <2>2. opened /\ UNCHANGED <<version, opened, restarts, search, order, cursor, page, walked, streaming>>
    BY <1>6 DEF Purge
  <2>3. /\ \A f \in {rows', index'} : DOMAIN f \subseteq Nat \ {0} /\ Range(f) \subseteq LogIds
        /\ IsFiniteSet(DOMAIN rows') /\ IsInjective(rows') /\ index' = rows'
    BY <2>1, <2>2, PurgeKeeps
  <2>4. SearchTypeOK'
    BY <1>1, <2>1, <2>2, <2>3 DEF SearchTypeOK
  <2> QED BY <1>1, <2>2, <2>3, <2>4 DEF TableInv
<1>7. CASE (\E o \in {"newest", "oldest"} : StartWalk(o)) \/ NextPage \/ SearchFails
  <2>1. /\ UNCHANGED <<version, rows, index, opened, restarts, cursor, walked, streaming>>
        /\ search' \in {"idle", "asked"} /\ order' \in {"newest", "oldest"}
        /\ page' \in {page, <<>>} /\ owed' \subseteq LogIds
        /\ version = Latest
    BY <1>1, <1>7, FoundIs DEF StartWalk, NextPage, SearchFails, dbVars, SearchTypeOK
  <2>2. page' \in Seq(LogIds) /\ Len(page') <= PageSize
    BY <1>10, <2>1
  <2>3. SearchTypeOK'
    BY <1>1, <2>1, <2>2 DEF SearchTypeOK
  <2> QED BY <1>1, <2>1, <2>3 DEF TableInv
<1>8. CASE ReadPage
  <2> DEFINE S == {e \in Found : Keyset(e)}
  <2>1. S \subseteq LogIds /\ IsFiniteSet(S)
    <3>1. Found \subseteq LogIds /\ IsFiniteSet(Found)
      BY FoundIs
    <3> QED BY <3>1, FS_Subset
  <2>2. page' = AtMost(InOrder(S), PageSize) /\ search' = "read"
        /\ UNCHANGED <<version, rows, index, opened, restarts, order, cursor, walked, owed, streaming>>
        /\ version = Latest
    BY <1>1, <1>8 DEF ReadPage, dbVars
  <2> HIDE DEF S
  <2>3. page' \in Seq(LogIds) /\ Len(page') <= PageSize
    BY <2>1, <2>2, PageOf
  <2>4. SearchTypeOK'
    BY <1>1, <2>2, <2>3 DEF SearchTypeOK
  <2> QED BY <1>1, <2>2, <2>4 DEF TableInv
<1>9. CASE CountMatches
  <2>1. /\ UNCHANGED <<version, rows, index, opened, restarts, order, owed, streaming>>
        /\ page' = <<>> /\ walked' = walked \o page /\ search' \in {"idle", "done"}
        /\ version = Latest
        /\ cursor' = cursor \/ (cursor' = page[Len(page)] /\ Len(page) = PageSize)
    BY <1>1, <1>9 DEF CountMatches, dbVars, Last
  <2>2. page \in Seq(LogIds) /\ walked \in Seq(LogIds) /\ cursor \in LogIds \cup {FirstPage}
    BY <1>1 DEF SearchTypeOK
  <2>3. walked' \in Seq(LogIds) /\ page' \in Seq(LogIds) /\ Len(page') <= PageSize
    BY <1>0, <2>1, <2>2
  <2>4. cursor' \in LogIds \cup {FirstPage}
    BY <1>0, <2>1, <2>2
  <2>5. SearchTypeOK'
    BY <1>1, <2>1, <2>3, <2>4 DEF SearchTypeOK
  <2> QED BY <1>1, <2>1, <2>5 DEF TableInv
<1>11. CASE (\E x \in Exporters : StartExport(x) \/ EndExport(x)) \/ UNCHANGED searchVars
  <2>1. UNCHANGED <<dbVars, opened, restarts, walkVars>> /\ streaming' \subseteq Exporters
    BY <1>1, <1>11 DEF StartExport, EndExport, searchVars, SearchTypeOK
  <2> QED BY <1>1, <1>2, <2>1 DEF dbVars, SearchTypeOK
<1> QED BY <1>3, <1>4, <1>5, <1>6, <1>7, <1>8, <1>9, <1>11 DEF SearchNext, Searching

-----------------------------------------------------------------------------
(* The walk. *)

\* A client has asked for its first page, or has got one and not the last.
Walking == search \in {"asked", "read"} \/ (search = "idle" /\ cursor # FirstPage)

\* The cursor is the last event received.  What is still owed has been received,
\* or is found and lies past the cursor; a page that was read takes the first of
\* that.
WalkInv ==
    /\ search # "read" => page = <<>>
    /\ search # "done" => cursor = IF walked = <<>> THEN FirstPage ELSE walked[Len(walked)]
    /\ Sorted(walked)
    /\ Sorted(page) /\ \A e \in ToSet(page) : Keyset(e)
    /\ Walking => \A e \in owed : e \in ToSet(walked) \/ (e \in Found /\ Keyset(e))
    /\ search = "read" =>
          \A e \in owed : \/ e \in ToSet(walked) \cup ToSet(page)
                          \/ e \in Found /\ Len(page) = PageSize /\ After(e, page[Len(page)])
    /\ search = "done" => owed \subseteq ToSet(walked)

\* The order of a search that goes on.
LEMMA SameOrder ==
    ASSUME order' = order
    PROVE  /\ \A e, f : After(e, f)' <=> After(e, f)
           /\ \A s : Sorted(s)' <=> Sorted(s)
           /\ cursor' = cursor => \A e : Keyset(e)' <=> Keyset(e)
<1>1. \A e, f : After(e, f)' <=> After(e, f)
  BY DEF After
<1>2. \A s : Sorted(s)' <=> Sorted(s)
  BY <1>1 DEF Sorted
<1>3. ASSUME cursor' = cursor PROVE \A e : Keyset(e)' <=> Keyset(e)
  BY <1>1, <1>3 DEF Keyset
<1> QED BY <1>1, <1>2, <1>3

\* The walk stands still, and what it is owed stays where it can be found.
LEMMA WalkFrame ==
    ASSUME WalkInv, UNCHANGED <<search, order, cursor, page, walked>>, owed' \subseteq owed,
           Walking => \A e \in owed' : e \in Found => e \in Found'
    PROVE  WalkInv'
<1>1. /\ \A e, f : After(e, f)' <=> After(e, f)
      /\ \A s : Sorted(s)' <=> Sorted(s)
      /\ \A e : Keyset(e)' <=> Keyset(e)
  BY SameOrder
<1>2. Walking' <=> Walking
  BY DEF Walking
<1>3. /\ search' # "read" => page' = <<>>
      /\ search' # "done" => cursor' = IF walked' = <<>> THEN FirstPage ELSE walked'[Len(walked')]
      /\ search' = "done" => owed' \subseteq ToSet(walked')
  BY DEF WalkInv
<1>4. /\ Sorted(walked)' /\ Sorted(page)'
      /\ (\A e \in ToSet(page) : Keyset(e))'
  BY <1>1 DEF WalkInv
<1>5. Walking' => \A e \in owed' : e \in ToSet(walked') \/ (e \in Found' /\ Keyset(e)')
  BY <1>1, <1>2 DEF WalkInv
<1>6. search' = "read" =>
          \A e \in owed' : \/ e \in ToSet(walked') \cup ToSet(page')
                           \/ e \in Found' /\ Len(page') = PageSize /\ After(e, page[Len(page)])'
  <2>1. search' = "read" => Walking
    BY DEF Walking
  <2> QED BY <1>1, <2>1 DEF WalkInv
<1> QED BY <1>3, <1>4, <1>5, <1>6 DEF WalkInv

\* Writers do not disturb a walk: what is appended replaces nothing, and what is
\* purged is owed no more.
LEMMA WritersStep ==
    ASSUME TableInv, WalkInv,
           \/ Migrate \/ Open
           \/ \E e \in LogIds : AppendRow(e)
           \/ \E cutoff \in {LogTime[e] : e \in LogIds} : Purge(cutoff)
           \/ \E x \in Exporters : StartExport(x) \/ EndExport(x)
           \/ UNCHANGED searchVars
    PROVE  WalkInv'
<1>1. CASE Migrate
  <2>1. ~Walking
    <3>1. Latest \in Nat /\ version \in Nat /\ version < Latest
      BY <1>1, SearchAssumption DEF Migrate, TableInv, SearchTypeOK, SearchAssumption
    <3>2. version # Latest
      BY <3>1
    <3> QED BY <3>2 DEF TableInv, Walking
  <2> QED BY <1>1, <2>1, WalkFrame DEF Migrate, walkVars
<1>2. CASE Open \/ (\E x \in Exporters : StartExport(x) \/ EndExport(x)) \/ UNCHANGED searchVars
  <2>1. UNCHANGED <<rows, index, walkVars>>
    BY <1>2 DEF Open, StartExport, EndExport, searchVars, dbVars
  <2>2. Found' = Found
    BY <2>1 DEF Found
  <2> QED BY <2>1, <2>2, WalkFrame DEF walkVars
<1>3. ASSUME NEW e \in LogIds, AppendRow(e) PROVE WalkInv'
  <2>1. UNCHANGED walkVars
    BY <1>3 DEF AppendRow
  <2>2. /\ index = rows /\ index' = rows' /\ DOMAIN rows \subseteq DOMAIN rows'
        /\ \A i \in DOMAIN rows : rows'[i] = rows[i]
    BY <1>3, AppendKeeps
  <2>3. ASSUME NEW f \in Found PROVE f \in Found'
    <3>1. PICK i \in DOMAIN rows : rows[i] = f /\ f \in Hits
      BY <2>2, <2>3 DEF Found
    <3>2. i \in DOMAIN rows' /\ rows'[i] = f
      BY <2>2, <3>1
    <3> QED BY <2>2, <3>1, <3>2 DEF Found
  <2> QED BY <2>1, <2>3, WalkFrame DEF walkVars
<1>4. ASSUME NEW cutoff, Purge(cutoff) PROVE WalkInv'
  <2>1. PICK old : PurgeBoth(old) /\ owed' = owed \ {rows[r] : r \in old}
    BY <1>4 DEF Purge
  <2>2. opened /\ UNCHANGED <<search, order, cursor, page, walked>>
    BY <1>4 DEF Purge
  <2>3. /\ index = rows /\ index' = rows' /\ DOMAIN rows' = DOMAIN rows \ old
        /\ \A i \in DOMAIN rows' : rows'[i] = rows[i]
    BY <2>1, <2>2, PurgeKeeps
  <2>4. ASSUME NEW f \in owed', f \in Found PROVE f \in Found'
    <3>1. PICK i \in DOMAIN rows : rows[i] = f /\ f \in Hits
      BY <2>3, <2>4 DEF Found
    <3>2. i \notin old
      BY <2>1, <2>4, <3>1
    <3>3. i \in DOMAIN rows' /\ rows'[i] = f
      BY <2>3, <3>1, <3>2
    <3> QED BY <2>3, <3>1, <3>3 DEF Found
  <2> QED BY <2>1, <2>2, <2>4, WalkFrame
<1> QED BY <1>1, <1>2, <1>3, <1>4

\* A search that is given up is asked again from the same cursor.
LEMMA GivenUpStep ==
    ASSUME WalkInv, Restart \/ SearchFails
    PROVE  WalkInv'
<1>1. /\ UNCHANGED <<rows, index, order, cursor, walked, owed>> /\ page' = <<>>
      /\ \/ search' = search /\ search \notin {"asked", "read"}
         \/ search' = "idle" /\ search \in {"asked", "read"}
  BY DEF Restart, SearchFails, dbVars
<1>2. /\ \A e, f : After(e, f)' <=> After(e, f)
      /\ \A s : Sorted(s)' <=> Sorted(s)
      /\ \A e : Keyset(e)' <=> Keyset(e)
  BY <1>1, SameOrder
<1>3. Found' = Found
  BY <1>1 DEF Found
<1>4. (Walking' => Walking) /\ search' # "read" /\ (search' = "done" <=> search = "done")
  BY <1>1 DEF Walking
<1>5. ToSet(page') = {} /\ Sorted(page)'
  BY <1>1 DEF ToSet, Sorted
<1>6. /\ search' # "done" => cursor' = IF walked' = <<>> THEN FirstPage ELSE walked'[Len(walked')]
      /\ search' = "done" => owed' \subseteq ToSet(walked')
      /\ Sorted(walked)'
  BY <1>1, <1>2, <1>4 DEF WalkInv
<1>7. Walking' => \A e \in owed' : e \in ToSet(walked') \/ (e \in Found' /\ Keyset(e)')
  BY <1>1, <1>2, <1>3, <1>4 DEF WalkInv
<1> QED BY <1>1, <1>4, <1>5, <1>6, <1>7 DEF WalkInv

\* A walk begins with all that is found, and goes on from its cursor.
LEMMA AskStep ==
    ASSUME TableInv, WalkInv, (\E o \in {"newest", "oldest"} : StartWalk(o)) \/ NextPage
    PROVE  WalkInv'
<1>1. CASE \E o \in {"newest", "oldest"} : StartWalk(o)
  <2>1. /\ UNCHANGED <<rows, index, cursor, page, walked>> /\ owed' = Found /\ search' = "asked"
        /\ search = "idle" /\ cursor = FirstPage
    BY <1>1 DEF StartWalk, dbVars
  <2>2. page' = <<>> /\ Found' = Found /\ \A e : Keyset(e)'
    BY <2>1 DEF WalkInv, Found, Keyset
  <2>3. walked = <<>>
    <3>1. walked \in Seq(LogIds) /\ FirstPage \notin LogIds
      BY SearchAssumption DEF TableInv, SearchTypeOK, SearchAssumption, FirstPage
    <3>2. walked # <<>> => walked[Len(walked)] \in LogIds
      BY <3>1
    <3> QED BY <2>1, <3>1, <3>2 DEF WalkInv
  <2>4. Sorted(walked)' /\ Sorted(page)' /\ ToSet(page') = {}
    BY <2>1, <2>2, <2>3 DEF Sorted, ToSet
  <2> QED BY <2>1, <2>2, <2>3, <2>4 DEF WalkInv
<1>2. CASE NextPage
  <2>1. /\ UNCHANGED <<rows, index, order, cursor, page, walked, owed>> /\ search' = "asked"
        /\ search = "idle" /\ cursor # FirstPage
    BY <1>2 DEF NextPage, dbVars
  <2>2. /\ \A e, f : After(e, f)' <=> After(e, f)
        /\ \A s : Sorted(s)' <=> Sorted(s)
        /\ \A e : Keyset(e)' <=> Keyset(e)
    BY <2>1, SameOrder
  <2>3. Found' = Found
    BY <2>1 DEF Found
  <2>4. Walking
    BY <2>1 DEF Walking
  <2> QED BY <2>1, <2>2, <2>3, <2>4 DEF WalkInv
<1> QED BY <1>1, <1>2

\* A page begins what is found past the cursor.
LEMMA ReadStep ==
    ASSUME TableInv, WalkInv, ReadPage
    PROVE  WalkInv'
<1> DEFINE S == {e \in Found : Keyset(e)}
<1>1. S \subseteq LogIds /\ IsFiniteSet(S)
  <2>1. Found \subseteq LogIds /\ IsFiniteSet(Found)
    BY FoundIs
  <2> QED BY <2>1, FS_Subset
<1>2. /\ page' = AtMost(InOrder(S), PageSize) /\ search = "asked" /\ search' = "read"
      /\ UNCHANGED <<rows, index, order, cursor, walked, owed>>
  BY DEF ReadPage, dbVars
<1>3. /\ \A e, f : After(e, f)' <=> After(e, f)
      /\ \A s : Sorted(s)' <=> Sorted(s)
      /\ \A e : Keyset(e)' <=> Keyset(e)
  BY <1>2, SameOrder
<1>4. Found' = Found
  BY <1>2 DEF Found
<1>5. \A e \in S : e \in Found /\ Keyset(e)
  OBVIOUS
<1>6. \A e \in owed : e \in ToSet(walked) \/ e \in S
  BY <1>2 DEF WalkInv, Walking
<1> HIDE DEF S
<1>7. /\ ToSet(page') \subseteq S /\ Sorted(page')
      /\ \A e \in S : e \in ToSet(page') \/ (Len(page') = PageSize /\ After(e, page'[Len(page')]))
  BY <1>1, <1>2, PageOf
<1>8. Sorted(walked)' /\ Sorted(page)' /\ (\A e \in ToSet(page) : Keyset(e))'
  BY <1>2, <1>3, <1>5, <1>7 DEF WalkInv
<1>9. \A e \in owed' : e \in ToSet(walked') \/ (e \in Found' /\ Keyset(e)')
  BY <1>2, <1>3, <1>4, <1>5, <1>6
<1>10. \A e \in owed' : \/ e \in ToSet(walked') \cup ToSet(page')
                        \/ e \in Found' /\ Len(page') = PageSize /\ After(e, page[Len(page)])'
  BY <1>2, <1>3, <1>4, <1>5, <1>6, <1>7
<1>11. /\ search' # "read" => page' = <<>>
       /\ search' # "done" => cursor' = IF walked' = <<>> THEN FirstPage ELSE walked'[Len(walked')]
       /\ search' # "done"
  BY <1>2 DEF WalkInv
<1> QED BY <1>8, <1>9, <1>10, <1>11 DEF WalkInv

\* A page goes on where the walk was.
LEMMA PageFollows ==
    ASSUME TableInv, WalkInv, search = "read"
    PROVE  /\ Sorted(walked \o page) /\ ToSet(walked \o page) = ToSet(walked) \cup ToSet(page)
           /\ page # <<>> => walked \o page # <<>> /\ (walked \o page)[Len(walked \o page)] = page[Len(page)]
<1> DEFINE q == walked \o page
           m == Len(walked)
           n == Len(page)
<1>1. walked \in Seq(LogIds) /\ page \in Seq(LogIds)
  BY DEF TableInv, SearchTypeOK
<1>2. /\ m \in Nat /\ n \in Nat /\ Len(q) = m + n /\ DOMAIN q = 1..(m + n) /\ DOMAIN walked = 1..m
      /\ DOMAIN page = 1..n
      /\ \A i \in 1..m : q[i] = walked[i]
      /\ \A i \in 1..n : q[m + i] = page[i]
  BY <1>1
<1>3. (page # <<>> => n > 0) /\ (q = <<>> => m + n = 0) /\ (walked = <<>> <=> m = 0)
  BY <1>1, <1>2
<1>4. /\ \A i \in 1..m : walked[i] \in LogIds
      /\ \A i \in 1..n : page[i] \in LogIds
  BY <1>1
<1> HIDE DEF q, m, n
<1>5. \A i \in 1..(m + n) : i \in 1..m \/ (~(i <= m) /\ i - m \in 1..n /\ m + (i - m) = i)
  BY <1>2
<1>6. /\ \A i \in 1..m : i \in 1..(m + n)
      /\ \A i \in 1..n : m + i \in 1..(m + n)
  BY <1>2
<1>7. Sorted(walked) /\ Sorted(page) /\ (\A i \in 1..n : Keyset(page[i]))
      /\ cursor = IF walked = <<>> THEN FirstPage ELSE walked[m]
  BY <1>2 DEF WalkInv, ToSet, m
<1>8. ASSUME NEW i \in 1..m, NEW j \in 1..n PROVE After(page[j], walked[i])
  <2>1. m # 0 /\ m \in 1..m /\ walked # <<>>
    BY <1>2, <1>3
  <2>2. cursor = walked[m] /\ walked[m] \in LogIds
    BY <1>4, <1>7, <2>1
  <2>3. cursor # FirstPage
    BY <2>2, SearchAssumption DEF SearchAssumption, FirstPage
  <2>4. After(page[j], walked[m])
    BY <1>7, <2>2, <2>3 DEF Keyset
  <2>5. CASE i = m
    BY <2>4, <2>5
  <2>6. CASE i # m
    <3>1. i < m
      BY <1>2, <2>6
    <3>2. After(walked[m], walked[i])
      BY <1>2, <1>7, <2>1, <3>1 DEF Sorted
    <3> QED BY <1>4, <2>1, <2>4, <3>2, AfterOrders
  <2> QED BY <2>5, <2>6
<1>9. Sorted(q)
  <2>1. SUFFICES ASSUME NEW i \in 1..(m + n), NEW j \in 1..(m + n), i < j PROVE After(q[j], q[i])
    BY <1>2 DEF Sorted
  <2>2. CASE i \in 1..m /\ j \in 1..m
    BY <1>2, <1>7, <2>1, <2>2 DEF Sorted
  <2>3. CASE i \in 1..m /\ j \notin 1..m
    <3>1. j - m \in 1..n /\ q[j] = page[j - m] /\ q[i] = walked[i]
      BY <1>2, <1>5, <2>3
    <3> QED BY <1>8, <2>3, <3>1
  <2>4. CASE i \notin 1..m
    <3>1. j \notin 1..m
      BY <1>2, <2>1, <2>4
    <3>2. i - m \in 1..n /\ q[i] = page[i - m] /\ j - m \in 1..n /\ q[j] = page[j - m]
      BY <1>2, <1>5, <2>4, <3>1
    <3>3. i - m < j - m
      BY <1>2, <2>1
    <3> QED BY <1>2, <1>7, <3>2, <3>3 DEF Sorted
  <2> QED BY <2>2, <2>3, <2>4
<1>10. ToSet(q) = ToSet(walked) \cup ToSet(page)
  <2>1. ASSUME NEW x \in ToSet(q) PROVE x \in ToSet(walked) \cup ToSet(page)
    <3>1. PICK i \in 1..(m + n) : x = q[i]
      BY <1>2, <2>1 DEF ToSet
    <3>2. CASE i \in 1..m
      BY <1>2, <3>1, <3>2 DEF ToSet
    <3>3. CASE i \notin 1..m
      <4>1. i - m \in 1..n /\ x = page[i - m]
        BY <1>2, <1>5, <3>1, <3>3
      <4> QED BY <1>2, <4>1 DEF ToSet
    <3> QED BY <3>2, <3>3
  <2>2. ASSUME NEW x \in ToSet(walked) PROVE x \in ToSet(q)
    BY <1>2, <1>6, <2>2 DEF ToSet
  <2>3. ASSUME NEW x \in ToSet(page) PROVE x \in ToSet(q)
    <3>1. PICK i \in 1..n : x = page[i]
      BY <1>2, <2>3 DEF ToSet
    <3>2. x = q[m + i] /\ m + i \in DOMAIN q
      BY <1>2, <1>6, <3>1
    <3> QED BY <3>2 DEF ToSet
  <2> QED BY <2>1, <2>2, <2>3
<1>11. page # <<>> => q # <<>> /\ q[Len(q)] = page[n]
  <2>1. SUFFICES ASSUME page # <<>> PROVE q # <<>> /\ q[Len(q)] = page[n]
    OBVIOUS
  <2>2. n \in 1..n /\ m + n # 0
    BY <1>2, <1>3, <2>1
  <2> QED BY <1>2, <1>3, <2>2
<1> QED BY <1>9, <1>10, <1>11 DEF q, n

\* The client has the page; a page that is not full was the last.
LEMMA CountStep ==
    ASSUME TableInv, WalkInv, CountMatches
    PROVE  WalkInv'
<1>1. /\ UNCHANGED <<rows, index, order, owed>> /\ search = "read"
      /\ walked' = walked \o page /\ page' = <<>>
  BY DEF CountMatches, dbVars
<1>2. /\ \A e, f : After(e, f)' <=> After(e, f)
      /\ \A s : Sorted(s)' <=> Sorted(s)
      /\ Found' = Found
  BY <1>1, SameOrder DEF Found
<1>3. /\ Sorted(walked') /\ ToSet(walked') = ToSet(walked) \cup ToSet(page)
      /\ page # <<>> => walked' # <<>> /\ walked'[Len(walked')] = page[Len(page)]
  BY <1>1, PageFollows
<1>4. \A e \in owed : \/ e \in ToSet(walked')
                      \/ e \in Found /\ Len(page) = PageSize /\ After(e, page[Len(page)])
  BY <1>1, <1>3 DEF WalkInv
<1>5. Sorted(walked)' /\ Sorted(page)' /\ ToSet(page') = {}
  BY <1>1, <1>2, <1>3 DEF Sorted, ToSet
<1>6. CASE Len(page) = PageSize
  <2>1. search' = "idle" /\ cursor' = page[Len(page)]
    BY <1>6 DEF CountMatches, Last
  <2>2. page # <<>>
    BY <1>6, SearchAssumption DEF SearchAssumption
  <2>3. cursor' = IF walked' = <<>> THEN FirstPage ELSE walked'[Len(walked')]
    BY <1>3, <2>1, <2>2
  <2>4. \A e \in owed' : e \in ToSet(walked') \/ (e \in Found' /\ Keyset(e)')
    BY <1>1, <1>2, <1>4, <2>1 DEF Keyset
  <2> QED BY <1>1, <1>5, <2>1, <2>3, <2>4 DEF WalkInv
<1>7. CASE Len(page) # PageSize
  <2>1. search' = "done"
    BY <1>7 DEF CountMatches
  <2>2. owed' \subseteq ToSet(walked')
    BY <1>1, <1>4, <1>7
  <2> QED BY <1>1, <1>5, <2>1, <2>2 DEF WalkInv, Walking
<1> QED BY <1>6, <1>7

-----------------------------------------------------------------------------
(* The theorems. *)

SearchInv == TableInv /\ WalkInv

\* The invariant holds in every state the server reaches.
THEOREM SearchInvariance == SearchSpec => []SearchInv
<1>1. SearchInit => SearchInv
  <2>1. SearchInit => WalkInv
    BY DEF SearchInit, WalkInv, Walking, Sorted, ToSet, FirstPage
  <2> QED BY <2>1, TableInit DEF SearchInv
<1>2. SearchInv /\ [SearchNext]_searchVars => SearchInv'
  <2>1. SUFFICES ASSUME TableInv, WalkInv, [SearchNext]_searchVars PROVE WalkInv'
    BY TableStep DEF SearchInv
  <2> QED BY <2>1, WritersStep, GivenUpStep, AskStep, ReadStep, CountStep DEF SearchNext, Searching
<1> QED BY <1>1, <1>2, PTL DEF SearchSpec

\* Every variable of the database, the walk and the exports stays in its type.
THEOREM SearchTyped == SearchSpec => []SearchTypeOK
<1>1. SearchInv => SearchTypeOK
  BY DEF SearchInv, TableInv
<1> QED BY <1>1, SearchInvariance, PTL

\* The index and the rows agree whatever version wrote the database, and a walk
\* through the pages repeats nothing, follows one order and misses nothing that
\* was there when it began and is there still (migrate.go:54-57, query.go:67-69).
THEOREM WalksAreExact == SearchSpec => []SearchIsExact
<1>1. SearchInv => IndexMatchesRows
  <2>1. Latest >= RebuildVersion
    BY SearchAssumption DEF SearchAssumption, RebuildVersion
  <2> QED BY <2>1 DEF SearchInv, TableInv, IndexMatchesRows
<1>2. SearchInv => WalkIsExact
  <2>1. SUFFICES ASSUME SearchInv PROVE WalkIsExact
    OBVIOUS
  <2>2. walked \in Seq(LogIds) /\ Sorted(walked)
    BY <2>1 DEF SearchInv, TableInv, WalkInv, SearchTypeOK
  <2>3. ASSUME NEW i \in 1..(Len(walked) - 1) PROVE After(walked[i + 1], walked[i])
    <3>1. i \in DOMAIN walked /\ i + 1 \in DOMAIN walked /\ i < i + 1
      BY <2>2
    <3> QED BY <2>2, <3>1 DEF Sorted
  <2>4. search = "done" => owed \subseteq ToSet(walked)
    BY <2>1 DEF SearchInv, WalkInv
  <2> QED BY <2>3, <2>4 DEF WalkIsExact
<1> QED BY <1>1, <1>2, SearchInvariance, PTL DEF SearchIsExact

-----------------------------------------------------------------------------
(* The query: live tail and search, for any texts, tables, filters and     *)
(* events.                                                                 *)

\* The filter and the value it looks at.
AsksOne ==
    /\ filter.op # "term"
    /\ FilterShape(filter) /\ ValueShape(value)
    /\ ~IsAttr(filter) => value.kind = "text"

\* What was said is what the evaluation gives, in some order of the attributes.
TailMeans ==
    tailSays # "unknown" =>
        IF filter.op = "term"
        THEN \E perm \in SetToSeqs(value.attrs) :
               tailSays = Verdict(TermMatches(value, perm, filter.value))
        ELSE tailSays = Verdict(Matches(filter, value))

StoreMeans ==
    storeSays # "unknown" =>
        IF filter.op = "term"
        THEN \E perm \in SetToSeqs(value.attrs) :
               storeSays = Verdict(TermFound(value, perm, filter.value))
        ELSE storeSays = Verdict(FilterCond(filter, value))

RangeMeans ==
    /\ written \in RangeBounds /\ asked \in RangeBounds
    /\ range # NoRange => range = BuildRange(written, asked)

QueryInv == (filter.op = "term" \/ AsksOne) /\ TailMeans /\ StoreMeans /\ RangeMeans

-----------------------------------------------------------------------------
\* The numeric and the textual comparisons of both sides agree on equal arguments,
\* and so do all evaluations of a value that is a text to both.
LEMMA TextsAgree ==
    ASSUME NEW f, NEW v, FilterShape(f), ValueShape(v), ~Parts(f, v)
    PROVE  /\ v.kind # "null"
           /\ v.kind # "absent" => CompareString(v) \in Texts /\ SqlText(v) \in Texts
           /\ v.kind \in {"text", "bool"} => CompareString(v) = SqlText(v)
           /\ v.kind \in {"number", "nested"} /\ f.op # "exists" /\ (f.op \in Orderings => GoNumber[f.value] = NaN)
                => CompareString(v) = SqlText(v)
           /\ IsNull(v) <=> v.kind = "absent"
BY QueryAssumption DEF ValueShape, Parts, CompareString, SqlText, IsNull

\* The filter's text in either case.
LEMMA WantedIn ==
    ASSUME NEW f, f.value \in Texts
    PROVE  /\ Norm(f, f.value) \in Texts
           /\ Lower[f.value] \in Texts
           /\ Lower[Norm(f, f.value)] = Lower[f.value]
           /\ IsAttr(f) => Norm(f, f.value) = f.value
BY QueryAssumption DEF Norm, IsAttr

\* A text that is a boolean in lower case is one to EqualFold, and the same one.
LEMMA BoolsFold ==
    ASSUME NEW t \in Texts
    PROVE  /\ \A b \in BoolLiterals : SqlLower[t] = b <=> Lower[t] = b
           /\ Lower[t] \in BoolLiterals =>
                /\ IsBoolLiteral(t)
                /\ Lower[t] = IF Folded[t] = Folded["true"] THEN "true" ELSE "false"
<1>1. \A u \in Texts, b \in BoolLiterals : SqlLower[u] = b <=> Lower[u] = b
  BY QueryAssumption
<1>2. \A b \in BoolLiterals : b \in Texts /\ Lower[b] = b
  BY QueryAssumption DEF BoolLiterals
<1>3. ASSUME NEW b \in BoolLiterals, Lower[t] = b PROVE Folded[t] = Folded[b]
  <2>1. SqlLower[t] = b /\ SqlLower[b] = b /\ b \in Texts
    BY <1>1, <1>2, <1>3
  <2> QED BY <2>1, QueryAssumption
<1>4. Folded["true"] # Folded["false"]
  BY QueryAssumption
<1> QED BY <1>1, <1>3, <1>4 DEF IsBoolLiteral, BoolLiterals

\* A value equals the text of a filter for both or for neither.
LEMMA EqualsAgree ==
    ASSUME NEW f, NEW v, FilterShape(f), ValueShape(v), ~Parts(f, v),
           f.op \in {"=", "!="}, v.kind # "absent"
    PROVE  LET want == Norm(f, f.value) IN
           (BoolEqual(CompareString(v), want) \/ CompareString(v) = want)
           <=> (IF IsAttr(f) /\ IsBoolLiteral(f.value)
                THEN AttrBoolCond(v, f.value) ELSE SqlText(v) = want)
<1> DEFINE want == Norm(f, f.value)
<1>1. f.value \in Texts /\ f.op \notin Orderings /\ f.op # "exists"
  BY DEF FilterShape, Orderings
<1>2. /\ want \in Texts /\ Lower[f.value] \in Texts /\ Lower[want] = Lower[f.value]
      /\ IsAttr(f) => want = f.value
  BY <1>1, WantedIn
<1>3. CompareString(v) = SqlText(v) /\ SqlText(v) \in Texts /\ ~IsNull(v)
  BY <1>1, TextsAgree DEF ValueShape
<1>4. CASE Lower[f.value] \notin BoolLiterals
  <2>1. ~(IsAttr(f) /\ IsBoolLiteral(f.value))
    BY <1>4 DEF Parts
  <2> QED BY <1>2, <1>3, <1>4, <2>1 DEF BoolEqual, BoolLiterals
<1>5. CASE Lower[f.value] \in BoolLiterals
  <2>1. IsAttr(f) /\ (v.kind = "bool" \/ SqlText(v) \notin {"0", "1"})
    BY <1>3, <1>5 DEF Parts
  <2>2. /\ IsBoolLiteral(f.value)
        /\ Lower[f.value] = IF Folded[f.value] = Folded["true"] THEN "true" ELSE "false"
        /\ SqlLower[SqlText(v)] = Lower[f.value] <=> Lower[SqlText(v)] = Lower[f.value]
    BY <1>1, <1>3, <1>5, BoolsFold
  <2>3. AttrBoolCond(v, f.value) <=>
          \/ v.kind = "bool" /\ Lower[f.value] = IF v.is THEN "true" ELSE "false"
          \/ Lower[SqlText(v)] = Lower[f.value]
    BY <1>3, <2>2 DEF AttrBoolCond
  <2>4. CASE v.kind = "bool"
    <3>1. /\ v.is \in BOOLEAN /\ SqlText(v) = (IF v.is THEN "1" ELSE "0")
      BY <2>4 DEF ValueShape, SqlText
    <3>2. Lower["1"] = "1" /\ Lower["0"] = "0" /\ Lower["true"] = "true" /\ Lower["false"] = "false"
      BY QueryAssumption
    <3> QED
      BY <1>2, <1>3, <1>5, <2>1, <2>2, <2>3, <2>4, <3>1, <3>2 DEF BoolEqual, BoolLiterals
  <2>5. CASE v.kind # "bool"
    <3>1. Lower[SqlText(v)] \notin {"0", "1"}
      BY <1>3, <2>1, <2>5, QueryAssumption
    <3> QED
      BY <1>2, <1>3, <1>5, <2>1, <2>2, <2>3, <2>5, <3>1 DEF BoolEqual, BoolLiterals
  <2> QED BY <2>4, <2>5
<1> QED BY <1>4, <1>5

\* A glob takes a text for both or for neither.
LEMMA GlobsAgree ==
    ASSUME NEW p \in DOMAIN Globs, NEW t \in Texts, ~GlobsPart(p, t)
    PROVE  GlobMatch(p, t) <=> SqlLike(p, t)
<1>1. Globs[p].inLine \subseteq Globs[p].all /\ Globs[p].all \subseteq Texts
  BY QueryAssumption
<1>2. ASSUME NEW u \in Globs[p].inLine, Folded[u] = Folded[t]
      PROVE  SqlLower[u] = SqlLower[t]
  BY <1>2 DEF GlobsPart
<1>3. ASSUME NEW u \in Globs[p].all, SqlLower[u] = SqlLower[t]
      PROVE  u \in Globs[p].inLine /\ Folded[u] = Folded[t]
  BY <1>1, <1>3, QueryAssumption DEF GlobsPart
<1> QED BY <1>1, <1>2, <1>3 DEF GlobMatch, SqlLike

\* And so it is with every operator: the matcher and the condition agree.
LEMMA FiltersAgree ==
    ASSUME NEW f, NEW v, FilterShape(f), ValueShape(v), ~IsAttr(f) => v.kind = "text", ~Parts(f, v)
    PROVE  Matches(f, v) <=> FilterCond(f, v)
<1>1. /\ v.kind # "null"
      /\ v.kind # "absent" => CompareString(v) \in Texts /\ SqlText(v) \in Texts
      /\ v.kind \in {"text", "bool"} => CompareString(v) = SqlText(v)
      /\ v.kind \in {"number", "nested"} /\ f.op # "exists" /\ (f.op \in Orderings => GoNumber[f.value] = NaN)
           => CompareString(v) = SqlText(v)
      /\ IsNull(v) <=> v.kind = "absent"
      /\ v.kind \in {"text", "number", "nested", "bool", "absent"}
  BY TextsAgree DEF ValueShape
<1>2. CASE f.op = "exists"
  BY <1>1, <1>2 DEF Matches, FilterCond
<1>3. CASE f.op = "!="
  BY <1>1, <1>3, EqualsAgree DEF Matches, FilterCond
<1>4. CASE f.op = "="
  BY <1>1, <1>4, EqualsAgree DEF Matches, FilterCond, AttrBoolCond
<1>5. CASE f.op = "in"
  BY <1>1, <1>5 DEF Matches, FilterCond, Orderings
<1>6. CASE f.op = "like"
  <2>1. f.value \in DOMAIN Globs
    BY <1>6 DEF FilterShape, Orderings
  <2>2. v.kind # "absent" => CompareString(v) = SqlText(v)
    BY <1>1, <1>6 DEF Orderings
  <2>3. v.kind # "absent" => ~GlobsPart(f.value, CompareString(v))
    BY <1>6 DEF Parts
  <2>4. /\ Matches(f, v) <=> v.kind # "absent" /\ GlobMatch(f.value, CompareString(v))
        /\ FilterCond(f, v) <=> ~IsNull(v) /\ SqlLike(f.value, SqlText(v))
    BY <1>6 DEF Matches, FilterCond
  <2>5. v.kind # "absent" => (GlobMatch(f.value, CompareString(v)) <=> SqlLike(f.value, SqlText(v)))
    BY <1>1, <2>1, <2>2, <2>3, GlobsAgree
  <2> QED BY <1>1, <2>4, <2>5
<1>7. CASE f.op = "regex"
  BY <1>1, <1>7 DEF Matches, FilterCond, Orderings
<1>8. CASE f.op \in Orderings
  <2> DEFINE want == Norm(f, f.value)
  <2>1. GoNumber[want] = GoNumber[f.value]
    BY <1>8 DEF Parts
  <2>2. f.op \notin {"exists", "!=", "=", "in", "like", "regex"}
    BY <1>8 DEF Orderings
  <2>3. /\ Matches(f, v) <=> v.kind # "absent" /\ CompareMatch(f.op, CompareString(v), want)
        /\ FilterCond(f, v) <=>
             /\ ~IsNull(v)
             /\ IF GoNumber[f.value] # NaN
                THEN Compares(f.op, SqlNumber[SqlText(v)], GoNumber[f.value])
                ELSE Compares(f.op, ByteOrder[SqlText(v)], ByteOrder[want])
    BY <2>2 DEF Matches, FilterCond
  <2>4. CASE GoNumber[f.value] # NaN
    BY <1>1, <1>8, <2>1, <2>3, <2>4 DEF CompareMatch, Parts
  <2>5. CASE GoNumber[f.value] = NaN
    <3>1. v.kind # "absent" => CompareString(v) = SqlText(v)
      BY <1>1, <2>2, <2>5
    <3>2. CompareMatch(f.op, CompareString(v), want)
          <=> Compares(f.op, ByteOrder[CompareString(v)], ByteOrder[want])
      BY <2>1, <2>5 DEF CompareMatch
    <3>3. FilterCond(f, v) <=> ~IsNull(v) /\ Compares(f.op, ByteOrder[SqlText(v)], ByteOrder[want])
      BY <2>3, <2>5
    <3>4. CASE v.kind = "absent"
      BY <1>1, <2>3, <3>3, <3>4
    <3>5. CASE v.kind # "absent"
      <4>1. CompareString(v) = SqlText(v)
        BY <3>1, <3>5
      <4>2. Matches(f, v) <=> Compares(f.op, ByteOrder[SqlText(v)], ByteOrder[want])
        BY <2>3, <3>2, <3>5, <4>1
      <4> QED BY <1>1, <3>3, <3>5, <4>2
    <3> QED BY <3>4, <3>5
  <2> QED BY <2>4, <2>5
<1> QED BY <1>2, <1>3, <1>4, <1>5, <1>6, <1>7, <1>8 DEF FilterShape

\* The range that two sets of bounds make.
LEMMA RangeOfNumbers ==
    ASSUME NEW w \in RangeBounds, NEW a \in RangeBounds
    PROVE  BuildRange(w, a) \in [to : Int, from : Int]
<1> DEFINE to == IF w.to # 0 THEN w.to ELSE a.to
<1> DEFINE lower == LowerSource(w, a)
<1> DEFINE from == IF lower.from # 0 THEN lower.from
                   ELSE IF lower.last # 0 THEN (IF to = 0 THEN QueryNow ELSE to) - lower.last
                   ELSE 0
<1>1. to \in Nat /\ lower \in RangeBounds /\ QueryNow \in Nat
  BY QueryAssumption DEF LowerSource, RangeBounds
<1>2. lower.from \in Nat /\ lower.last \in Nat
  BY <1>1 DEF RangeBounds
<1>3. BuildRange(w, a) = [to |-> to, from |-> from]
  BY DEF BuildRange
<1> HIDE DEF to, lower
<1>4. from \in Int
  BY <1>1, <1>2
<1> HIDE DEF from
<1> QED BY <1>1, <1>3, <1>4

\* An order of a set holds members of it.
LEMMA OrderOf ==
    ASSUME NEW S, NEW perm \in SetToSeqs(S)
    PROVE  \A i \in DOMAIN perm : perm[i] \in S
BY DEF SetToSeqs

\* Words that are the same to both tokenizers make the same tokens.
LEMMA SameTokens ==
    ASSUME NEW words, \A w \in Range(words) : GoTokens[w] = SqlTokens[w]
    PROVE  Tokenize(SqlTokens, words) = Tokenize(GoTokens, words)
<1>1. \A i \in DOMAIN words : SqlTokens[words[i]] = GoTokens[words[i]]
  BY DEF Range
<1>2. [i \in DOMAIN words |-> SqlTokens[words[i]]] = [i \in DOMAIN words |-> GoTokens[words[i]]]
  BY <1>1
<1> QED BY <1>2 DEF Tokenize

\* Without a null attribute the text that the store indexes has the tokens of the event.
LEMMA SameWords ==
    ASSUME NEW event, NEW term, NEW perm \in SetToSeqs(event.attrs),
           \A a \in event.attrs : a.value # NoWords,
           \A w \in WordsOf(term, event) : GoTokens[w] = SqlTokens[w]
    PROVE  TermFound(event, perm, term) = TermMatches(event, perm, term)
<1> DEFINE read(tokens, null) ==
      [i \in DOMAIN perm |-> Tokenize(tokens, perm[i].key)
          \o IF perm[i].value = NoWords THEN null ELSE Tokenize(tokens, perm[i].value)]
<1>1. \A i \in DOMAIN perm : perm[i] \in event.attrs /\ perm[i].value # NoWords
  BY OrderOf
<1>2. ASSUME NEW a \in event.attrs
      PROVE  /\ Tokenize(SqlTokens, a.key) = Tokenize(GoTokens, a.key)
             /\ Tokenize(SqlTokens, a.value) = Tokenize(GoTokens, a.value)
  <2>1. Range(a.key) \subseteq WordsOf(term, event) /\ Range(a.value) \subseteq WordsOf(term, event)
    BY DEF WordsOf
  <2>2. \A w \in Range(a.key) : GoTokens[w] = SqlTokens[w]
    BY <2>1
  <2>3. \A w \in Range(a.value) : GoTokens[w] = SqlTokens[w]
    BY <2>1
  <2> QED BY <2>2, <2>3, SameTokens
<1>3. /\ Tokenize(SqlTokens, event.head) = Tokenize(GoTokens, event.head)
      /\ Tokenize(SqlTokens, term) = Tokenize(GoTokens, term)
  <2>1. Range(event.head) \subseteq WordsOf(term, event) /\ Range(term) \subseteq WordsOf(term, event)
    BY DEF WordsOf
  <2>2. \A w \in Range(event.head) : GoTokens[w] = SqlTokens[w]
    BY <2>1
  <2>3. \A w \in Range(term) : GoTokens[w] = SqlTokens[w]
    BY <2>1
  <2> QED BY <2>2, <2>3, SameTokens
<1>4. read(SqlTokens, <<"nil">>) = read(GoTokens, <<>>)
  BY <1>1, <1>2
<1>5. FtsText(event, perm) = FtsTokens(event, perm)
  BY <1>3, <1>4 DEF FtsText, FtsTokens, Words
<1> QED BY <1>3, <1>5 DEF TermFound, TermMatches

-----------------------------------------------------------------------------
\* Nobody has been asked.
LEMMA QueryInitInv == QueryInit => QueryInv
<1> SUFFICES ASSUME QueryInit PROVE QueryInv
  OBVIOUS
<1>1. TailMeans /\ StoreMeans
  BY DEF QueryInit, TailMeans, StoreMeans
<1>2. RangeMeans
  <2>1. Written \cup Asked \subseteq RangeBounds
    BY QueryAssumption
  <2>2. NoBounds \in RangeBounds
    BY DEF NoBounds, RangeBounds
  <2>3. range = NoRange /\ written \in RangeBounds /\ asked \in RangeBounds
    BY <2>1, <2>2 DEF QueryInit
  <2> QED BY <2>3 DEF RangeMeans
<1>3. filter.op = "term" \/ AsksOne
  <2>1. \/ /\ filter \in FilterOps /\ value \in Values
           /\ ~IsAttr(filter) => value.kind = "text"
        \/ filter \in [field : {"text"}, op : {"term"}, value : Terms]
        \/ /\ filter = [field |-> "message", op |-> "exists", value |-> NoText]
           /\ value = [kind |-> "text", is |-> NoText]
    BY DEF QueryInit
  <2>2. CASE /\ filter \in FilterOps /\ value \in Values
             /\ ~IsAttr(filter) => value.kind = "text"
    <3>1. FilterShape(filter) /\ ValueShape(value)
      BY <2>2, QueryAssumption
    <3> QED BY <2>2, <3>1 DEF AsksOne
  <2>3. CASE /\ filter = [field |-> "message", op |-> "exists", value |-> NoText]
             /\ value = [kind |-> "text", is |-> NoText]
    <3>1. FilterShape(filter) /\ ValueShape(value)
      BY <2>3, QueryAssumption DEF FilterShape, ValueShape
    <3> QED BY <2>3, <3>1 DEF AsksOne
  <2>4. CASE filter \in [field : {"text"}, op : {"term"}, value : Terms]
    BY <2>4
  <2> QED BY <2>1, <2>2, <2>3, <2>4
<1> QED BY <1>1, <1>2, <1>3 DEF QueryInv

\* A verdict is one of two.
LEMMA VerdictKnown == \A b : Verdict(b) \in {"yes", "no"}
BY DEF Verdict

\* Each question is answered once.
LEMMA QueryNextInv == QueryInv /\ [QueryNext]_queryVars => QueryInv'
<1> SUFFICES ASSUME QueryInv, [QueryNext]_queryVars PROVE QueryInv'
  OBVIOUS
<1>1. CASE AskTail
  <2>1. UNCHANGED <<filter, value, storeSays, written, asked, range>>
    BY <1>1 DEF AskTail
  <2>2. TailMeans'
    BY <1>1, <2>1 DEF AskTail, TailMeans
  <2> QED BY <2>1, <2>2 DEF QueryInv, AsksOne, StoreMeans, RangeMeans
<1>2. CASE AskStore
  <2>1. UNCHANGED <<filter, value, tailSays, written, asked, range>>
    BY <1>2 DEF AskStore
  <2>2. StoreMeans'
    BY <1>2, <2>1 DEF AskStore, StoreMeans
  <2> QED BY <2>1, <2>2 DEF QueryInv, AsksOne, TailMeans, RangeMeans
<1>3. CASE Build
  <2>1. UNCHANGED <<filter, value, tailSays, storeSays, written, asked>> /\ range' = BuildRange(written, asked)
    BY <1>3 DEF Build
  <2> QED BY <2>1 DEF QueryInv, AsksOne, TailMeans, StoreMeans, RangeMeans
<1>4. CASE UNCHANGED queryVars
  BY <1>4 DEF queryVars, QueryInv, AsksOne, TailMeans, StoreMeans, RangeMeans
<1> QED BY <1>1, <1>2, <1>3, <1>4 DEF QueryNext

\* What was said is what the evaluations give, whoever is asked first.
THEOREM QueryInvariance == QuerySpec => []QueryInv
<1> QED BY QueryInitInv, QueryNextInv, PTL DEF QuerySpec

\* A verdict is given once, and the range of an expression and a request is one
\* of numbers.
THEOREM QueryTyped == QuerySpec => []QueryTypeOK
<1>1. QueryInv => range \in [to : Int, from : Int]
  <2> SUFFICES ASSUME QueryInv PROVE range \in [to : Int, from : Int]
    OBVIOUS
  <2>1. BuildRange(written, asked) \in [to : Int, from : Int]
    BY RangeOfNumbers DEF QueryInv, RangeMeans
  <2>2. NoRange \in [to : Int, from : Int]
    BY DEF NoRange, NaN
  <2> QED BY <2>1, <2>2 DEF QueryInv, RangeMeans
<1>2. QueryInv => tailSays \in {"unknown", "yes", "no"}
  BY VerdictKnown DEF QueryInv, TailMeans
<1>3. QueryInv => storeSays \in {"unknown", "yes", "no"}
  BY VerdictKnown DEF QueryInv, StoreMeans
<1> QED BY <1>1, <1>2, <1>3, QueryInvariance, PTL DEF QueryTypeOK

\* Live tail and search never disagree, but where Parts says so; and a lower bound in
\* the expression is not touched by the request.
THEOREM QueryMeansOne == QuerySpec => []QueryMeansOneThing
<1>1. QueryInv => TailAgreesWithSearch
  <2> SUFFICES ASSUME QueryInv, "unknown" \notin {tailSays, storeSays},
                      ~(IF filter.op = "term" THEN PartsInText(filter.value, value) ELSE Parts(filter, value))
               PROVE  tailSays = storeSays
    BY DEF TailAgreesWithSearch
  <2>1. CASE filter.op = "term"
    <3>1. PICK o \in SetToSeqs(value.attrs) : tailSays = Verdict(TermMatches(value, o, filter.value))
      BY <2>1 DEF QueryInv, TailMeans
    <3>2. PICK p \in SetToSeqs(value.attrs) : storeSays = Verdict(TermFound(value, p, filter.value))
      BY <2>1 DEF QueryInv, StoreMeans
    <3>3. /\ \A a \in value.attrs : a.value # NoWords
          /\ \A w \in WordsOf(filter.value, value) : GoTokens[w] = SqlTokens[w]
          /\ TermMatches(value, o, filter.value) = TermMatches(value, p, filter.value)
      BY <2>1 DEF PartsInText
    <3>4. TermFound(value, p, filter.value) = TermMatches(value, p, filter.value)
      BY <3>3, SameWords
    <3> QED BY <3>1, <3>2, <3>3, <3>4
  <2>2. CASE filter.op # "term"
    <3>1. /\ tailSays = Verdict(Matches(filter, value))
          /\ storeSays = Verdict(FilterCond(filter, value))
          /\ AsksOne /\ ~Parts(filter, value)
      BY <2>2 DEF QueryInv, TailMeans, StoreMeans
    <3>2. Matches(filter, value) <=> FilterCond(filter, value)
      BY <3>1, FiltersAgree DEF AsksOne
    <3> QED BY <3>1, <3>2 DEF Verdict
  <2> QED BY <2>1, <2>2
<1>2. QueryInv => ExpressionWins
  BY DEF QueryInv, RangeMeans, ExpressionWins, BuildRange, LowerSource
<1> QED BY <1>1, <1>2, QueryInvariance, PTL DEF QueryMeansOneThing
=============================================================================
