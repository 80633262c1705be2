----------------------------- MODULE Wal_proofs -----------------------------
(***************************************************************************)
(* Machine-checked proofs about the segment write-ahead log, for every     *)
(* segment size and every bound on appends, crashes, power losses and I/O  *)
(* errors.  Inv, defined in Wal, is inductive; the safety properties       *)
(* follow from it.                                                         *)
(***************************************************************************)
EXTENDS Wal, FiniteSetTheorems, TLAPS

-----------------------------------------------------------------------------
(* Sets of numbers: least and greatest elements, and the sorted listing.     *)

\* The order of the naturals, as a set of pairs, is well founded.
LEMMA NatOrder == IsWellFoundedOn({p \in Nat \X Nat : p[1] < p[2]}, Nat)
<1>1. OpToRel(<, Nat) = {p \in Nat \X Nat : p[1] < p[2]}
  BY DEF OpToRel
<1> QED BY <1>1, NatLessThanWellFounded

\* A set of naturals has a least element.
LEMMA Least ==
    ASSUME NEW S \in SUBSET Nat, S # {}
    PROVE  \E m \in S : \A x \in S : m <= x
<1> DEFINE R == {p \in Nat \X Nat : p[1] < p[2]}
<1>1. IsWellFoundedOn(R, Nat)
  BY NatOrder
<1>2. \A x, y \in Nat : x < y => <<x, y>> \in R
  OBVIOUS
<1> HIDE DEF R
<1>3. PICK m \in S : \A y \in S : ~(<<y, m>> \in R)
  BY <1>1, WFMin
<1>4. ASSUME NEW x \in S PROVE m <= x
  <2>1. x \in Nat /\ m \in Nat /\ ~(<<x, m>> \in R)
    BY <1>3
  <2>2. ~(x < m)
    BY <2>1, <1>2
  <2> QED BY <2>1, <2>2
<1> QED BY <1>4

\* A bounded set of naturals has a greatest element.
LEMMA Greatest ==
    ASSUME NEW S \in SUBSET Nat, S # {}, NEW b \in Nat, \A x \in S : x <= b
    PROVE  \E m \in S : \A x \in S : x <= m
<1> DEFINE U == {n \in Nat : \A x \in S : x <= n}
<1>1. U \in SUBSET Nat /\ U # {}
  OBVIOUS
<1>2. PICK u \in U : \A n \in U : u <= n
  BY <1>1, Least
<1>3. u \in S
  <2>1. SUFFICES ASSUME u \notin S PROVE FALSE
    OBVIOUS
  <2>2. \A x \in S : x <= u - 1
    BY <2>1
  <2>3. PICK x \in S : TRUE
    OBVIOUS
  <2>4. u - 1 \in Nat
    BY <2>2, <2>3
  <2>5. u - 1 \in U
    BY <2>2, <2>4
  <2> QED BY <1>2, <2>5
<1> QED BY <1>3

\* q lists the elements of S in increasing order.
Lists(q, S) ==
    /\ q \in [1..Cardinality(S) -> S]
    /\ \A i, j \in 1..Cardinality(S) : i < j => q[i] < q[j]

\* Every finite set of naturals can be listed: a smallest one that cannot be
\* would be one element larger than one that can.
LEMMA ListExists ==
    ASSUME NEW S \in SUBSET Nat, IsFiniteSet(S)
    PROVE  \E q : Lists(q, S)
<1> DEFINE Bad == {T \in SUBSET S : ~ \E q : Lists(q, T)}
           Sizes == {Cardinality(T) : T \in Bad}
<1>1. SUFFICES ASSUME Bad # {} PROVE FALSE
  OBVIOUS
<1>2. \A T \in SUBSET S : IsFiniteSet(T) /\ Cardinality(T) \in Nat
  BY FS_Subset, FS_CardinalityType
<1>3. Sizes \in SUBSET Nat /\ Sizes # {}
  BY <1>1, <1>2
<1>4. PICK n \in Sizes : \A m \in Sizes : n <= m
  BY <1>3, Least
<1>5. PICK T \in Bad : Cardinality(T) = n
  OBVIOUS
<1>6. IsFiniteSet(T) /\ T \in SUBSET Nat /\ n \in Nat
  BY <1>2, <1>5
<1>7. CASE T = {}
  <2>1. Cardinality(T) = 0
    BY <1>7, FS_EmptySet
  <2>2. Lists([i \in 1..0 |-> 0], T)
    BY <2>1 DEF Lists
  <2> QED BY <2>2
<1>8. CASE T # {}
  <2>1. PICK m \in T : \A x \in T : m <= x
    BY <1>6, <1>8, Least
  <2> DEFINE U == T \ {m}
  <2>2. IsFiniteSet(U) /\ Cardinality(U) = n - 1
    BY <1>5, <1>6, FS_RemoveElement
  <2>3. U \in SUBSET S /\ Cardinality(U) \in Nat
    BY <1>2
  <2>4. U \notin Bad
    <3>1. U \in Bad => n - 1 \in Sizes
      BY <2>2
    <3> QED BY <3>1, <1>4, <1>6
  <2>5. PICK q : Lists(q, U)
    BY <2>3, <2>4
  <2> DEFINE p == [i \in 1..n |-> IF i = 1 THEN m ELSE q[i - 1]]
  <2>6. n - 1 \in Nat /\ \A i \in 1..(n - 1) : q[i] \in T /\ q[i] > m /\ q[i] \in Nat
    <3>1. n - 1 \in Nat
      BY <2>2, <2>3
    <3>2. ASSUME NEW i \in 1..(n - 1) PROVE q[i] \in U
      BY <2>5, <2>2 DEF Lists
    <3>3. \A x \in U : x \in T /\ x > m /\ x \in Nat
      BY <2>1, <1>6
    <3> HIDE DEF U
    <3> QED BY <3>1, <3>2, <3>3
  <2>7. p \in [1..n -> T]
    BY <2>6, <1>6
  <2>8. ASSUME NEW i \in 1..n, NEW j \in 1..n, i < j
        PROVE  p[i] < p[j]
    <3>1. j - 1 \in 1..(n - 1) /\ j # 1
      BY <2>8, <1>6
    <3>2. CASE i = 1
      BY <3>1, <3>2, <2>6, <2>1, <1>6
    <3>3. CASE i # 1
      <4>1. i - 1 \in 1..(n - 1) /\ i - 1 < j - 1
        BY <3>3, <2>8, <1>6
      <4>2. q[i - 1] < q[j - 1]
        BY <4>1, <3>1, <2>5, <2>2 DEF Lists
      <4> QED BY <4>2, <3>1, <3>3
    <3> QED BY <3>2, <3>3
  <2>9. Lists(p, T)
    <3> HIDE DEF p
    <3> QED BY <2>7, <2>8, <1>5 DEF Lists
  <2> QED BY <2>9
<1> QED BY <1>7, <1>8

\* Different places of a listing hold different elements, and every element has one.
LEMMA ListIsOnto ==
    ASSUME NEW S \in SUBSET Nat, IsFiniteSet(S), NEW q, Lists(q, S)
    PROVE  /\ Cardinality(S) \in Nat
           /\ \A i, j \in 1..Cardinality(S) : q[i] = q[j] => i = j
           /\ {q[i] : i \in 1..Cardinality(S)} = S
<1> DEFINE n == Cardinality(S)
           T == {q[i] : i \in 1..n}
<1>1. n \in Nat
  BY FS_CardinalityType
<1>2. \A i, j \in 1..n : q[i] = q[j] => i = j
  <2>1. SUFFICES ASSUME NEW i \in 1..n, NEW j \in 1..n, q[i] = q[j], i # j PROVE FALSE
    OBVIOUS
  <2>2. i < j \/ j < i
    BY <2>1, <1>1
  <2>3. q[i] < q[j] \/ q[j] < q[i]
    BY <2>2 DEF Lists
  <2>4. q[i] \in Nat
    BY DEF Lists
  <2> QED BY <2>1, <2>3, <2>4
<1>3. T \subseteq S
  BY DEF Lists
<1>4. q \in [1..n -> T]
  BY DEF Lists
<1>5. q \in Bijection(1..n, T)
  BY <1>2, <1>4 DEF Bijection, Injection, Surjection, IsInjective
<1>6. Cardinality(T) = n
  BY <1>1, <1>5, FS_CountingElements DEF ExistsBijection
<1>7. T = S
  BY <1>3, <1>6, FS_Subset
<1> QED BY <1>1, <1>2, <1>7

\* The element that has k - 1 below it is the k-th of the listing, and no other.
LEMMA KthOfList ==
    ASSUME NEW S \in SUBSET Nat, IsFiniteSet(S), NEW q, Lists(q, S),
           NEW k \in 1..Cardinality(S)
    PROVE  /\ q[k] \in S
           /\ (CHOOSE i \in S : Cardinality({j \in S : j <= i}) = k) = q[k]
<1> DEFINE n == Cardinality(S)
           Upto(i) == {j \in S : j <= i}
<1>1. /\ n \in Nat /\ \A i \in 1..n : q[i] \in S
      /\ \A i, j \in 1..n : (q[i] = q[j] => i = j) /\ (i < j => q[i] < q[j])
      /\ S = {q[i] : i \in 1..n}
  <2>1. n \in Nat /\ (\A i, j \in 1..n : q[i] = q[j] => i = j) /\ S = {q[i] : i \in 1..n}
    BY ListIsOnto
  <2>2. (\A i \in 1..n : q[i] \in S) /\ \A i, j \in 1..n : i < j => q[i] < q[j]
    BY DEF Lists
  <2> HIDE DEF n
  <2> QED BY <2>1, <2>2
<1>2. ASSUME NEW m \in 1..n
      PROVE  Cardinality(Upto(q[m])) = m
  <2>1. \A i \in 1..m : i \in 1..n
    BY <1>1
  <2>2. ASSUME NEW i \in 1..n PROVE q[i] <= q[m] <=> i \in 1..m
    <3>1. q[i] \in Nat /\ q[m] \in Nat
      BY <1>1
    <3>2. i < m \/ i = m \/ m < i
      BY <1>1
    <3>3. (i < m => q[i] < q[m]) /\ (m < i => q[m] < q[i])
      BY <1>1
    <3>4. CASE i < m
      BY <3>1, <3>3, <3>4, <1>1
    <3>5. CASE i = m
      BY <3>1, <3>5, <1>1
    <3>6. CASE m < i
      BY <3>1, <3>3, <3>6, <1>1
    <3> QED BY <3>2, <3>4, <3>5, <3>6
  <2>3. Upto(q[m]) = {q[i] : i \in 1..m}
    BY <1>1, <2>1, <2>2
  <2> DEFINE f == [i \in 1..m |-> q[i]]
  <2>4. f \in [1..m -> Upto(q[m])]
    BY <2>3
  <2>5. \A i, j \in 1..m : f[i] = f[j] => i = j
    BY <2>1, <1>1
  <2>6. \A x \in Upto(q[m]) : \E i \in 1..m : f[i] = x
    BY <2>3
  <2>7. f \in Bijection(1..m, Upto(q[m]))
    BY <2>4, <2>5, <2>6 DEF Bijection, Injection, Surjection, IsInjective
  <2>8. ExistsBijection(1..m, Upto(q[m]))
    BY <2>7 DEF ExistsBijection
  <2>9. m \in Nat
    OBVIOUS
  <2> HIDE DEF Upto
  <2> QED BY <2>8, <2>9, FS_CountingElements
<1>3. \A i \in S : Cardinality(Upto(i)) = k <=> i = q[k]
  <2>1. ASSUME NEW i \in S PROVE Cardinality(Upto(i)) = k <=> i = q[k]
    <3>1. PICK m \in 1..n : i = q[m]
      BY <1>1
    <3>2. Cardinality(Upto(i)) = m
      BY <3>1, <1>2
    <3> QED BY <3>1, <3>2, <1>1, <1>2
  <2> QED BY <2>1
<1> HIDE DEF Upto
<1>4. (CHOOSE i \in S : Cardinality(Upto(i)) = k) = q[k]
  BY <1>1, <1>3
<1> QED BY <1>1, <1>4 DEF Upto

\* pruneSegmentsLocked keeps the others in their order (wal.go:239-253).
LEMMA WithoutKeepsOrder ==
    ASSUME NEW X, NEW sq \in Seq(X), NEW gone \in SUBSET (1..Len(sq))
    PROVE  \E q : /\ Lists(q, (1..Len(sq)) \ gone)
                  /\ Without(sq, gone) \in Seq(X)
                  /\ Len(Without(sq, gone)) = Cardinality((1..Len(sq)) \ gone)
                  /\ \A k \in 1..Len(Without(sq, gone)) : Without(sq, gone)[k] = sq[q[k]]
<1> DEFINE keep == (1..Len(sq)) \ gone
           n == Cardinality(keep)
           w == Without(sq, gone)
<1>1. keep \in SUBSET Nat /\ IsFiniteSet(keep)
  <2>1. IsFiniteSet(1..Len(sq))
    BY FS_Interval
  <2> QED BY <2>1, FS_Subset
<1>2. PICK q : Lists(q, keep)
  <2> HIDE DEF keep
  <2> QED BY <1>1, ListExists
<1>3. n \in Nat
  BY <1>1, FS_CardinalityType
<1>4. \A k \in 1..n :
        q[k] \in keep /\ (CHOOSE i \in keep : Cardinality({j \in keep : j <= i}) = k) = q[k]
  <2> HIDE DEF keep
  <2> QED BY <1>1, <1>2, KthOfList
<1>5. w = [k \in 1..n |->
             sq[CHOOSE i \in keep : Cardinality({j \in keep : j <= i}) = k]]
  BY DEF Without
<1>6. w = [k \in 1..n |-> sq[q[k]]]
  BY <1>4, <1>5
<1>7. ASSUME NEW k \in 1..n PROVE sq[q[k]] \in X
  <2>1. q[k] \in keep
    BY <1>4
  <2>2. q[k] \in 1..Len(sq)
    BY <2>1
  <2> QED BY <2>2
<1>8. w \in Seq(X) /\ Len(w) = n /\ \A k \in 1..n : w[k] = sq[q[k]]
  <2> HIDE DEF w, keep, n
  <2> QED BY <1>3, <1>6, <1>7
<1> QED BY <1>2, <1>8

\* listSegments returns the files in order (wal.go:92-101, 343-365).
LEMMA SortedLists ==
    ASSUME NEW S \in SUBSET Nat, IsFiniteSet(S)
    PROVE  /\ Lists(Sorted(S), S) /\ Sorted(S) \in Seq(S) /\ Len(Sorted(S)) = Cardinality(S)
<1> DEFINE n == Cardinality(S)
<1>1. n \in Nat
  BY FS_CardinalityType
<1>2. PICK q : Lists(q, S)
  BY ListExists
<1>3. \A p \in [1..n -> S] : DOMAIN p = 1..n
  OBVIOUS
<1>4. q \in [1..n -> S] /\ \A i, j \in DOMAIN q : i < j => q[i] < q[j]
  BY <1>2 DEF Lists
<1>5. Sorted(S) \in [1..n -> S] /\ \A i, j \in DOMAIN Sorted(S) : i < j => Sorted(S)[i] < Sorted(S)[j]
  BY <1>4 DEF Sorted
<1> HIDE DEF n
<1>6. Sorted(S) \in Seq(S) /\ Len(Sorted(S)) = n
  BY <1>1, <1>5
<1> QED BY <1>5, <1>6 DEF Lists, n

-----------------------------------------------------------------------------
(* Entries of a segment file. *)

\* A record is written at the end of a file.
LEMMA EntryAppend ==
    ASSUME NEW f \in Seq(Entry), NEW e \in Entry
    PROVE  /\ Append(f, e) \in Seq(Entry) /\ Len(Append(f, e)) = Len(f) + 1
           /\ Append(f, e)[Len(f) + 1] = e
           /\ \A i \in 1..Len(f) : Append(f, e)[i] = f[i]
  OBVIOUS

\* Truncation keeps the entries before the cut.
LEMMA EntryPrefix ==
    ASSUME NEW f \in Seq(Entry), NEW n \in 0..Len(f)
    PROVE  /\ SubSeq(f, 1, n) \in Seq(Entry) /\ Len(SubSeq(f, 1, n)) = n
           /\ \A i \in 1..n : SubSeq(f, 1, n)[i] = f[i] /\ i \in 1..Len(f)
<1>1. \A i \in 1..n : i \in 1..Len(f)
  OBVIOUS
<1> QED BY <1>1

\* What was written of a record goes away with the truncation before it.
LEMMA TruncateAppended ==
    ASSUME NEW f \in Seq(Entry), NEW e \in Entry, NEW n \in 0..Len(f)
    PROVE  SubSeq(Append(f, e), 1, n) = SubSeq(f, 1, n)
  OBVIOUS

\* A scan reaches every entry before the first that does not decode.
LEMMA ScanEndIs ==
    ASSUME NEW f \in Seq(Entry)
    PROVE  /\ ScanEnd(f) \in 0..Len(f) /\ ValidTo(f, ScanEnd(f))
           /\ ScanEnd(f) = Len(f) \/ f[ScanEnd(f) + 1] = Torn
<1> DEFINE V == {n \in 0..Len(f) : ValidTo(f, n)}
<1>1. 0 \in V /\ V \in SUBSET Nat /\ \A n \in V : n <= Len(f)
  BY DEF ValidTo
<1>2. PICK n \in V : \A m \in V : m <= n
  <2>1. Len(f) \in Nat
    OBVIOUS
  <2> HIDE DEF V
  <2> QED BY <1>1, <2>1, Greatest
<1>3. n = Len(f) \/ f[n + 1] = Torn
  <2>1. SUFFICES ASSUME n # Len(f), f[n + 1] # Torn PROVE FALSE
    OBVIOUS
  <2>2. n + 1 \in 0..Len(f) /\ \A j \in 1..(n + 1) : j \in 1..n \/ j = n + 1
    BY <2>1
  <2>3. ValidTo(f, n + 1)
    BY <2>1, <2>2 DEF ValidTo
  <2> QED BY <1>2, <2>2, <2>3
<1>4. \E m \in 0..Len(f) : ValidTo(f, m) /\ (m = Len(f) \/ f[m + 1] = Torn)
  BY <1>2, <1>3
<1> QED BY <1>4 DEF ScanEnd

\* The files of a directory have a newest one.
LEMMA LastSegmentIs ==
    ASSUME DOMAIN files \in SUBSET Nat, FilesFinite, DOMAIN files # {}
    PROVE  LastSegment \in DOMAIN files /\ \A t \in DOMAIN files : t <= LastSegment
<1> DEFINE S == DOMAIN files
           n == Cardinality(S)
<1>1. S \in SUBSET Nat /\ IsFiniteSet(S) /\ S # {}
  BY DEF FilesFinite
<1> HIDE DEF S
<1>2. PICK q : Lists(q, S)
  BY <1>1, ListExists
<1>3. /\ n \in Nat /\ S = {q[i] : i \in 1..n}
      /\ \A i, j \in 1..n : i < j => q[i] < q[j]
      /\ \A i \in 1..n : q[i] \in Nat
  <2>1. n \in Nat /\ S = {q[i] : i \in 1..n}
    BY <1>1, <1>2, ListIsOnto
  <2>2. (\A i \in 1..n : q[i] \in S) /\ \A i, j \in 1..n : i < j => q[i] < q[j]
    BY <1>2 DEF Lists
  <2> HIDE DEF n
  <2> QED BY <1>1, <2>1, <2>2
<1>4. n \in 1..n
  BY <1>1, <1>3
<1>5. ASSUME NEW i \in 1..n PROVE q[i] <= q[n]
  <2>1. i = n \/ i < n
    BY <1>3
  <2> QED BY <2>1, <1>3, <1>4
<1>6. q[n] \in S /\ \A t \in S : t <= q[n]
  BY <1>3, <1>4, <1>5
<1> QED BY <1>6 DEF S, LastSegment

-----------------------------------------------------------------------------
(* What each action does to the files, and types. *)

\* Every entry is a pair of numbers.
LEMMA EntryFields ==
    /\ \A e \in Entry : e.seq \in Nat /\ e.val \in Nat
    /\ \A e \in Entry : e # Torn => e \in Record /\ e.seq > 0
    /\ Torn \in Entry /\ Torn.seq = 0 /\ Torn.val = 0
  BY DEF Entry, Record, Torn

\* The files as Append has them once its segment is open (wal.go:136-147).
LEMMA OpenedFacts ==
    ASSUME TypeOK, FilesFinite, HandleBacked, up
    PROVE  /\ Target \in Nat \ {0} /\ StartSize \in Nat
           /\ StartsOpened \subseteq Nat \ {0} /\ IsFiniteSet(StartsOpened)
           /\ DOMAIN FilesOpened = StartsOpened /\ DOMAIN SyncedOpened = StartsOpened
           /\ \A s \in StartsOpened : /\ FilesOpened[s] \in Seq(Entry)
                                      /\ SyncedOpened[s] \in 0..Len(FilesOpened[s])
           /\ DOMAIN files \subseteq StartsOpened
           /\ \A s \in DOMAIN files : FilesOpened[s] = files[s]
           /\ \A s \in StartsOpened : s \notin DOMAIN files => FilesOpened[s] = <<>>
           /\ Target \in StartsOpened => StartSize <= Len(FilesOpened[Target])
           /\ SegmentsOpened \in Seq(Nat \ {0})
           /\ NewRecord \in Record /\ NewRecord \in Entry /\ NewRecord # Torn
<1>1. Target \in Nat \ {0} /\ StartSize \in Nat
  BY DEF TypeOK, HandleBacked, Target, StartSize, NeedOpen, NoSegment
<1>2. DOMAIN files \subseteq StartsOpened /\ StartsOpened \subseteq DOMAIN files \cup {Target}
  BY DEF StartsOpened
<1>3. StartsOpened \subseteq Nat \ {0}
  BY <1>1, <1>2 DEF TypeOK
<1>4. IsFiniteSet(StartsOpened)
  <2>1. IsFiniteSet(DOMAIN files \cup {Target})
    BY FS_AddElement DEF FilesFinite
  <2> QED BY <2>1, <1>2, FS_Subset
<1>5. DOMAIN FilesOpened = StartsOpened /\ DOMAIN SyncedOpened = StartsOpened
  BY DEF FilesOpened, SyncedOpened
<1>6. /\ \A s \in DOMAIN files : FilesOpened[s] = files[s]
      /\ \A s \in StartsOpened : s \notin DOMAIN files => FilesOpened[s] = <<>>
  BY <1>2 DEF FilesOpened
<1>7. ASSUME NEW s \in StartsOpened
      PROVE  FilesOpened[s] \in Seq(Entry) /\ SyncedOpened[s] \in 0..Len(FilesOpened[s])
  <2>1. CASE s \in DOMAIN files
    <3>1. FilesOpened[s] = files[s] /\ files[s] \in Seq(Entry) /\ synced[s] \in 0..Len(files[s])
      BY <2>1, <1>6 DEF TypeOK
    <3>2. SyncedOpened[s] = Len(files[s]) \/ SyncedOpened[s] = synced[s]
      BY <2>1 DEF SyncedOpened, SyncedRotated
    <3> QED BY <3>1, <3>2
  <2>2. CASE s \notin DOMAIN files
    <3>1. FilesOpened[s] = <<>> /\ SyncedOpened[s] = 0
      BY <2>2, <1>6 DEF SyncedOpened
    <3> QED BY <3>1
  <2> QED BY <2>1, <2>2
<1>8. Target \in StartsOpened => StartSize <= Len(FilesOpened[Target])
  <2>1. CASE NeedOpen
    BY <2>1, <1>7 DEF StartSize
  <2>2. CASE ~NeedOpen
    <3>1. Target = active /\ StartsOpened = DOMAIN files /\ StartSize = activeSize
      BY <2>2 DEF Target, StartsOpened, StartSize
    <3> QED BY <3>1, <1>6 DEF HandleBacked
  <2> QED BY <2>1, <2>2
<1>9. SegmentsOpened \in Seq(Nat \ {0})
  BY <1>1 DEF SegmentsOpened, TypeOK
<1>10. NewRecord \in Record
  BY DEF NewRecord, Record, Payload, TypeOK, HandleBacked
<1>11. NewRecord \in Entry /\ NewRecord # Torn
  BY <1>10 DEF Entry, Record, Torn
<1> QED BY <1>1, <1>2, <1>3, <1>4, <1>5, <1>6, <1>7, <1>8, <1>9, <1>10, <1>11

\* A failed write or fsync leaves every other file as it was opened and cuts
\* the target back to its size before the record (wal.go:149-166).
LEMMA RolledBack ==
    ASSUME TypeOK, FilesFinite, HandleBacked, WriteFails \/ AppendSyncFails
    PROVE  /\ up /\ DOMAIN files' = StartsOpened /\ DOMAIN synced' = StartsOpened
           /\ \A s \in StartsOpened :
                 /\ files'[s] = IF s = Target THEN SubSeq(FilesOpened[s], 1, StartSize)
                                ELSE FilesOpened[s]
                 /\ synced'[s] = IF s = Target THEN LoweredTo(SyncedOpened[s], StartSize)
                                 ELSE SyncedOpened[s]
<1>1. up
  BY DEF WriteFails, AppendSyncFails, Called
<1>2. synced' = [SyncedOpened EXCEPT ![Target] = LoweredTo(@, StartSize)]
  BY DEF WriteFails, AppendSyncFails
<1>3. DOMAIN FilesOpened = StartsOpened /\ DOMAIN SyncedOpened = StartsOpened
  BY DEF FilesOpened, SyncedOpened
<1>4. CASE WriteFails
  <2>1. files' = [FilesOpened EXCEPT ![Target] = SubSeq(@, 1, StartSize)]
    BY <1>4 DEF WriteFails, RollBack
  <2> QED BY <1>1, <1>2, <1>3, <2>1
<1>5. CASE AppendSyncFails
  <2> DEFINE written == [FilesOpened EXCEPT ![Target] = Append(@, NewRecord)]
  <2>1. files' = [written EXCEPT ![Target] = SubSeq(@, 1, StartSize)]
    BY <1>5 DEF AppendSyncFails, RollBack
  <2>2. DOMAIN files' = StartsOpened /\ \A s \in StartsOpened :
          files'[s] = IF s = Target THEN SubSeq(Append(FilesOpened[s], NewRecord), 1, StartSize)
                      ELSE FilesOpened[s]
    BY <2>1, <1>3
  <2>3. Target \in StartsOpened =>
          SubSeq(Append(FilesOpened[Target], NewRecord), 1, StartSize)
            = SubSeq(FilesOpened[Target], 1, StartSize)
    <3>1. SUFFICES ASSUME Target \in StartsOpened
                   PROVE  /\ FilesOpened[Target] \in Seq(Entry) /\ NewRecord \in Entry
                          /\ StartSize \in 0..Len(FilesOpened[Target])
      BY TruncateAppended
    <3> QED BY <3>1, <1>1, OpenedFacts
  <2> QED BY <1>1, <1>2, <1>3, <2>2, <2>3
<1> QED BY <1>4, <1>5

\* A write that reaches the file puts what it has written of the record at its end.
LEMMA WrittenTo ==
    ASSUME TypeOK, FilesFinite, HandleBacked, AppendOk \/ CrashInAppend
    PROVE  /\ up /\ DOMAIN files' = StartsOpened /\ DOMAIN synced' = StartsOpened
           /\ \E tail \in {<<>>, <<Torn>>, <<NewRecord>>} :
                 /\ AppendOk => tail = <<NewRecord>>
                 /\ \A s \in StartsOpened :
                       files'[s] = IF s = Target THEN FilesOpened[s] \o tail ELSE FilesOpened[s]
           /\ \A s \in StartsOpened : \/ synced'[s] = SyncedOpened[s]
                                      \/ AppendOk /\ s = Target /\ synced'[s] = Len(FilesOpened[s]) + 1
<1>1. up
  BY DEF AppendOk, CrashInAppend, Called
<1>2. DOMAIN FilesOpened = StartsOpened /\ DOMAIN SyncedOpened = StartsOpened
  BY DEF FilesOpened, SyncedOpened
<1>3. CASE AppendOk
  <2>1. files' = [FilesOpened EXCEPT ![Target] = Append(@, NewRecord)]
    BY <1>3 DEF AppendOk
  <2>2. DOMAIN files' = StartsOpened /\ \A s \in StartsOpened :
          files'[s] = IF s = Target THEN Append(FilesOpened[s], NewRecord) ELSE FilesOpened[s]
    BY <2>1, <1>2
  <2>3. DOMAIN synced' = StartsOpened /\ \A s \in StartsOpened :
          synced'[s] = SyncedOpened[s] \/ (s = Target /\ synced'[s] = Len(FilesOpened[s]) + 1)
    <3>1. \/ synced' = [SyncedOpened EXCEPT ![Target] = Len(FilesOpened[Target]) + 1]
          \/ synced' = SyncedOpened
      BY <1>3 DEF AppendOk
    <3> QED BY <3>1, <1>2
  <2>4. \A s \in StartsOpened : FilesOpened[s] \in Seq(Entry)
    BY <1>1, OpenedFacts
  <2>5. \A s \in StartsOpened : Append(FilesOpened[s], NewRecord) = FilesOpened[s] \o <<NewRecord>>
    BY <2>4
  <2> QED BY <1>1, <1>3, <2>2, <2>3, <2>5
<1>4. CASE CrashInAppend
  <2>1. ~AppendOk
    BY <1>4 DEF AppendOk, CrashInAppend, ProcessStops, Stops, Called
  <2>2. PICK tail \in {<<>>, <<Torn>>, <<NewRecord>>} :
           files' = [FilesOpened EXCEPT ![Target] = @ \o tail]
    BY <1>4 DEF CrashInAppend
  <2>3. synced' = SyncedOpened
    BY <1>4 DEF CrashInAppend
  <2> QED BY <1>1, <1>2, <2>1, <2>2, <2>3
<1> QED BY <1>3, <1>4

\* What every step leaves in the files: typed entries, each an old one, a torn
\* one, or the record of a write that went through.
FilesStep ==
    /\ DOMAIN files' \subseteq Nat \ {0} /\ IsFiniteSet(DOMAIN files')
    /\ DOMAIN synced' = DOMAIN files'
    /\ \A s \in DOMAIN files' :
          /\ files'[s] \in Seq(Entry) /\ synced'[s] \in 0..Len(files'[s])
          /\ \A i \in 1..Len(files'[s]) :
                \/ files'[s][i] = Torn
                \/ files'[s][i] = NewRecord /\ (AppendOk \/ CrashInAppend)
                \/ s \in DOMAIN files /\ i \in 1..Len(files[s]) /\ files'[s][i] = files[s][i]

\* A write adds at most its record.
LEMMA WriteFiles ==
    ASSUME TypeOK, FilesFinite, HandleBacked, AppendOk \/ CrashInAppend
    PROVE  FilesStep
<1>1. up /\ DOMAIN files' = StartsOpened /\ DOMAIN synced' = StartsOpened
  BY WrittenTo
<1>2. PICK tail \in {<<>>, <<Torn>>, <<NewRecord>>} :
         /\ AppendOk => tail = <<NewRecord>>
         /\ \A s \in StartsOpened :
               files'[s] = IF s = Target THEN FilesOpened[s] \o tail ELSE FilesOpened[s]
  BY WrittenTo
<1>3. \A s \in StartsOpened : \/ synced'[s] = SyncedOpened[s]
                              \/ AppendOk /\ s = Target /\ synced'[s] = Len(FilesOpened[s]) + 1
  BY WrittenTo
<1>4. /\ StartsOpened \subseteq Nat \ {0} /\ IsFiniteSet(StartsOpened)
      /\ \A s \in StartsOpened : /\ FilesOpened[s] \in Seq(Entry)
                                 /\ SyncedOpened[s] \in 0..Len(FilesOpened[s])
      /\ \A s \in DOMAIN files : FilesOpened[s] = files[s]
      /\ \A s \in StartsOpened : s \notin DOMAIN files => FilesOpened[s] = <<>>
      /\ NewRecord \in Entry
  BY <1>1, OpenedFacts
<1>5. /\ tail \in Seq(Entry) /\ Len(tail) \in 0..1
      /\ Len(tail) = 1 => tail[1] = Torn \/ tail[1] = NewRecord
      /\ AppendOk => Len(tail) = 1
  <2>1. tail = <<>> \/ tail = <<Torn>> \/ tail = <<NewRecord>>
    BY <1>2
  <2>2. <<Torn>> # <<>> /\ (AppendOk => tail = <<NewRecord>>) /\ Torn \in Entry
    BY <1>2, EntryFields
  <2>3. CASE tail = <<>>
    <3>1. ~AppendOk
      BY <2>2, <2>3
    <3> QED BY <2>3, <3>1
  <2>4. CASE tail = <<Torn>>
    BY <2>2, <2>4
  <2>5. CASE tail = <<NewRecord>>
    BY <1>4, <2>5
  <2> QED BY <2>1, <2>3, <2>4, <2>5
<1>6. ASSUME NEW s \in StartsOpened
      PROVE  /\ files'[s] \in Seq(Entry) /\ synced'[s] \in 0..Len(files'[s])
             /\ \A i \in 1..Len(files'[s]) :
                   \/ files'[s][i] = Torn
                   \/ files'[s][i] = NewRecord
                   \/ s \in DOMAIN files /\ i \in 1..Len(files[s]) /\ files'[s][i] = files[s][i]
  <2>1. CASE s = Target
    <3>1. files'[s] = FilesOpened[s] \o tail
      BY <1>2, <2>1
    <3>2. /\ files'[s] \in Seq(Entry) /\ Len(files'[s]) = Len(FilesOpened[s]) + Len(tail)
          /\ \A i \in 1..Len(FilesOpened[s]) : files'[s][i] = FilesOpened[s][i]
          /\ Len(tail) = 1 => files'[s][Len(FilesOpened[s]) + 1] = tail[1]
      BY <3>1, <1>4, <1>5
    <3>3. synced'[s] \in 0..Len(files'[s])
      BY <3>2, <1>3, <1>4, <1>5
    <3>4. ASSUME NEW i \in 1..Len(files'[s])
          PROVE  \/ files'[s][i] = Torn
                 \/ files'[s][i] = NewRecord
                 \/ s \in DOMAIN files /\ i \in 1..Len(files[s]) /\ files'[s][i] = files[s][i]
      <4>1. i \in 1..Len(FilesOpened[s]) \/ (Len(tail) = 1 /\ i = Len(FilesOpened[s]) + 1)
        <5>1. FilesOpened[s] \in Seq(Entry) /\ Len(tail) \in 0..1
          BY <1>4, <1>5
        <5>2. Len(FilesOpened[s]) \in Nat /\ i \in 1..(Len(FilesOpened[s]) + Len(tail))
          BY <5>1, <3>2
        <5>3. CASE Len(tail) = 0
          BY <5>2, <5>3
        <5>4. CASE Len(tail) = 1
          BY <5>2, <5>4
        <5>5. Len(tail) = 0 \/ Len(tail) = 1
          BY <5>1
        <5> QED BY <5>3, <5>4, <5>5
      <4>2. CASE i \in 1..Len(FilesOpened[s])
        <5>1. files'[s][i] = FilesOpened[s][i]
          BY <4>2, <3>2
        <5>2. s \in DOMAIN files
          BY <4>2, <1>4
        <5>3. FilesOpened[s] = files[s]
          BY <5>2, <1>4
        <5> QED BY <4>2, <5>1, <5>2, <5>3
      <4>3. CASE Len(tail) = 1 /\ i = Len(FilesOpened[s]) + 1
        BY <4>3, <3>2, <1>5
      <4> QED BY <4>1, <4>2, <4>3
    <3> QED BY <3>2, <3>3, <3>4
  <2>2. CASE s # Target
    <3>1. files'[s] = FilesOpened[s] /\ synced'[s] = SyncedOpened[s]
      BY <1>2, <1>3, <2>2
    <3>2. CASE s \in DOMAIN files
      BY <3>1, <3>2, <1>4
    <3>3. CASE s \notin DOMAIN files
      BY <3>1, <3>3, <1>4
    <3> QED BY <3>2, <3>3
  <2> QED BY <2>1, <2>2
<1> QED BY <1>1, <1>4, <1>6 DEF FilesStep

\* A write that is rolled back adds nothing.
LEMMA RollBackFiles ==
    ASSUME TypeOK, FilesFinite, HandleBacked, WriteFails \/ AppendSyncFails
    PROVE  FilesStep
<1>1. /\ up /\ DOMAIN files' = StartsOpened /\ DOMAIN synced' = StartsOpened
      /\ \A s \in StartsOpened :
            /\ files'[s] = IF s = Target THEN SubSeq(FilesOpened[s], 1, StartSize)
                           ELSE FilesOpened[s]
            /\ synced'[s] = IF s = Target THEN LoweredTo(SyncedOpened[s], StartSize)
                            ELSE SyncedOpened[s]
  BY RolledBack
<1>2. /\ StartsOpened \subseteq Nat \ {0} /\ IsFiniteSet(StartsOpened) /\ StartSize \in Nat
      /\ \A s \in StartsOpened : /\ FilesOpened[s] \in Seq(Entry)
                                 /\ SyncedOpened[s] \in 0..Len(FilesOpened[s])
      /\ \A s \in DOMAIN files : FilesOpened[s] = files[s]
      /\ \A s \in StartsOpened : s \notin DOMAIN files => FilesOpened[s] = <<>>
      /\ Target \in StartsOpened => StartSize <= Len(FilesOpened[Target])
  BY <1>1, OpenedFacts
<1>3. ASSUME NEW s \in StartsOpened
      PROVE  /\ files'[s] \in Seq(Entry) /\ synced'[s] \in 0..Len(files'[s])
             /\ Len(files'[s]) <= Len(FilesOpened[s])
             /\ \A i \in 1..Len(files'[s]) : files'[s][i] = FilesOpened[s][i]
  <2>1. CASE s = Target
    <3>1. StartSize \in 0..Len(FilesOpened[s])
      BY <2>1, <1>2
    <3>2. files'[s] = SubSeq(FilesOpened[s], 1, StartSize)
      BY <1>1, <2>1
    <3>3. /\ files'[s] \in Seq(Entry) /\ Len(files'[s]) = StartSize
          /\ \A i \in 1..StartSize : files'[s][i] = FilesOpened[s][i]
      BY <3>1, <3>2, <1>2, EntryPrefix
    <3>4. synced'[s] \in 0..StartSize
      BY <1>1, <1>2, <2>1, <3>1 DEF LoweredTo
    <3> QED BY <3>1, <3>3, <3>4
  <2>2. CASE s # Target
    BY <1>1, <1>2, <2>2
  <2> QED BY <2>1, <2>2
<1>4. ASSUME NEW s \in StartsOpened, NEW i \in 1..Len(files'[s])
      PROVE  s \in DOMAIN files /\ i \in 1..Len(files[s]) /\ files'[s][i] = files[s][i]
  <2>1. i \in 1..Len(FilesOpened[s]) /\ files'[s][i] = FilesOpened[s][i]
    BY <1>2, <1>3
  <2>2. s \in DOMAIN files
    BY <2>1, <1>2
  <2> QED BY <2>1, <2>2, <1>2
<1> QED BY <1>1, <1>2, <1>3, <1>4 DEF FilesStep

\* Rotation, Sync and everything that does not touch the entries.
LEMMA SyncFiles ==
    ASSUME TypeOK, FilesFinite, UNCHANGED files,
           \/ UNCHANGED synced
           \/ RotateFails \/ OpenSegmentFails \/ SyncActive
    PROVE  FilesStep
<1>1. /\ DOMAIN synced' = DOMAIN files
      /\ \A s \in DOMAIN files : synced'[s] = synced[s] \/ synced'[s] = Len(files[s])
  <2>1. /\ DOMAIN SyncedRotated = DOMAIN files
        /\ \A s \in DOMAIN files : SyncedRotated[s] = synced[s] \/ SyncedRotated[s] = Len(files[s])
    BY DEF SyncedRotated
  <2>2. CASE UNCHANGED synced
    BY <2>2 DEF TypeOK
  <2>3. CASE RotateFails
    BY <2>1, <2>3 DEF TypeOK, RotateFails
  <2>4. CASE OpenSegmentFails
    BY <2>1, <2>4 DEF OpenSegmentFails
  <2>5. CASE SyncActive
    BY <2>5 DEF TypeOK, SyncActive
  <2> QED BY <2>2, <2>3, <2>4, <2>5
<1>2. \A s \in DOMAIN files : files[s] \in Seq(Entry) /\ synced[s] \in 0..Len(files[s])
  BY DEF TypeOK
<1>3. \A s \in DOMAIN files : synced'[s] \in 0..Len(files[s])
  BY <1>1, <1>2
<1> QED BY <1>1, <1>2, <1>3 DEF FilesStep, TypeOK, FilesFinite

\* Pruning removes whole files.
LEMMA PruneFiles ==
    ASSUME TypeOK, FilesFinite, NEW gone, Remove(gone)
    PROVE  FilesStep
<1> DEFINE left == DOMAIN files \ {segments[i] : i \in gone}
<1>1. DOMAIN files' = left /\ DOMAIN synced' = left
  BY DEF Remove
<1>2. \A s \in left : files'[s] = files[s] /\ synced'[s] = synced[s]
  BY DEF Remove
<1>3. left \subseteq DOMAIN files /\ IsFiniteSet(left)
  BY FS_Subset DEF FilesFinite
<1> QED BY <1>1, <1>2, <1>3 DEF FilesStep, TypeOK

\* A power loss leaves each file a prefix of it, perhaps torn where it was cut,
\* and never cuts what is synced.
LEMMA LossCuts ==
    ASSUME TypeOK, PowerLoss
    PROVE  /\ DOMAIN files' = DOMAIN files /\ DOMAIN synced' = DOMAIN files
           /\ \A s \in DOMAIN files : synced'[s] = Len(files'[s])
           /\ \A s \in DOMAIN files :
                 \/ files'[s] = files[s]
                 \/ \E n \in synced[s]..Len(files[s]) :
                       /\ n < Len(files[s])
                       /\ \/ files'[s] = SubSeq(files[s], 1, n)
                          \/ files'[s] = Append(SubSeq(files[s], 1, n), Torn)
<1>1. PICK cut \in [DOMAIN files -> {"whole", "short", "torn"}],
           at \in [DOMAIN files -> 0..MaxSegment] :
             /\ \A s \in DOMAIN files :
                   IF cut[s] = "whole" THEN at[s] = 0
                   ELSE synced[s] <= at[s] /\ at[s] < Len(files[s])
             /\ files' = [s \in DOMAIN files |->
                   CASE cut[s] = "whole" -> files[s]
                     [] cut[s] = "short" -> SubSeq(files[s], 1, at[s])
                     [] cut[s] = "torn"  -> Append(SubSeq(files[s], 1, at[s]), Torn)]
  BY DEF PowerLoss
<1>2. DOMAIN files' = DOMAIN files
  BY <1>1
<1>3. DOMAIN synced' = DOMAIN files /\ \A s \in DOMAIN files : synced'[s] = Len(files'[s])
  BY DEF PowerLoss
<1>4. ASSUME NEW s \in DOMAIN files
      PROVE  \/ files'[s] = files[s]
             \/ \E n \in synced[s]..Len(files[s]) :
                   /\ n < Len(files[s])
                   /\ \/ files'[s] = SubSeq(files[s], 1, n)
                      \/ files'[s] = Append(SubSeq(files[s], 1, n), Torn)
  <2>1. files'[s] = CASE cut[s] = "whole" -> files[s]
                      [] cut[s] = "short" -> SubSeq(files[s], 1, at[s])
                      [] cut[s] = "torn"  -> Append(SubSeq(files[s], 1, at[s]), Torn)
    BY <1>1
  <2>2. cut[s] \in {"whole", "short", "torn"} /\ at[s] \in 0..MaxSegment
    BY <1>1
  <2>3. CASE cut[s] = "whole"
    BY <2>1, <2>3
  <2>4. CASE cut[s] # "whole"
    <3>1. synced[s] <= at[s] /\ at[s] < Len(files[s])
      BY <1>1, <2>4
    <3>2. at[s] \in synced[s]..Len(files[s])
      BY <2>2, <3>1, WalAssumption DEF TypeOK
    <3>3. \/ files'[s] = SubSeq(files[s], 1, at[s])
          \/ files'[s] = Append(SubSeq(files[s], 1, at[s]), Torn)
      BY <2>1, <2>2, <2>4
    <3> QED BY <3>1, <3>2, <3>3
  <2> QED BY <2>3, <2>4
<1> QED BY <1>2, <1>3, <1>4

\* So nothing new comes out of it but the torn ends.
LEMMA LossFiles ==
    ASSUME TypeOK, FilesFinite, PowerLoss
    PROVE  FilesStep
<1>1. /\ DOMAIN files' = DOMAIN files /\ DOMAIN synced' = DOMAIN files
      /\ \A s \in DOMAIN files : synced'[s] = Len(files'[s])
  BY LossCuts
<1>2. ASSUME NEW s \in DOMAIN files
      PROVE  /\ files'[s] \in Seq(Entry)
             /\ \A i \in 1..Len(files'[s]) :
                   \/ files'[s][i] = Torn
                   \/ i \in 1..Len(files[s]) /\ files'[s][i] = files[s][i]
  <2>1. files[s] \in Seq(Entry) /\ synced[s] \in Nat
    BY DEF TypeOK
  <2>2. CASE files'[s] = files[s]
    BY <2>1, <2>2
  <2>3. ASSUME NEW n \in synced[s]..Len(files[s]),
               \/ files'[s] = SubSeq(files[s], 1, n)
               \/ files'[s] = Append(SubSeq(files[s], 1, n), Torn)
        PROVE  /\ files'[s] \in Seq(Entry)
               /\ \A i \in 1..Len(files'[s]) :
                     \/ files'[s][i] = Torn
                     \/ i \in 1..Len(files[s]) /\ files'[s][i] = files[s][i]
    <3> DEFINE f == SubSeq(files[s], 1, n)
    <3>1. n \in 0..Len(files[s])
      BY <2>1
    <3>2. /\ f \in Seq(Entry) /\ Len(f) = n
          /\ \A i \in 1..n : f[i] = files[s][i] /\ i \in 1..Len(files[s])
      BY <2>1, <3>1, EntryPrefix
    <3> HIDE DEF f
    <3>3. CASE files'[s] = f
      BY <3>2, <3>3
    <3>4. CASE files'[s] = Append(f, Torn)
      <4>1. /\ files'[s] \in Seq(Entry) /\ Len(files'[s]) = n + 1 /\ files'[s][n + 1] = Torn
            /\ \A i \in 1..n : files'[s][i] = f[i]
        BY <3>2, <3>4, EntryAppend, EntryFields
      <4>2. \A i \in 1..Len(files'[s]) : i \in 1..n \/ i = n + 1
        BY <4>1, <3>1
      <4> QED BY <3>2, <4>1, <4>2
    <3> QED BY <2>3, <3>3, <3>4 DEF f
  <2>4. \/ files'[s] = files[s]
        \/ \E n \in synced[s]..Len(files[s]) :
              \/ files'[s] = SubSeq(files[s], 1, n)
              \/ files'[s] = Append(SubSeq(files[s], 1, n), Torn)
    BY LossCuts
  <2> QED BY <2>2, <2>3, <2>4
<1>3. \A s \in DOMAIN files : synced'[s] \in 0..Len(files'[s])
  BY <1>1, <1>2
<1> QED BY <1>1, <1>2, <1>3 DEF FilesStep, TypeOK, FilesFinite

\* Open cuts the torn end of the newest file, and nothing else.
LEMMA OpenCuts ==
    ASSUME TypeOK, FilesFinite, Open
    PROVE  /\ DOMAIN files' = DOMAIN files /\ DOMAIN synced' = DOMAIN files
           /\ DOMAIN files # {} =>
                 LET end == ScanEnd(files[LastSegment])
                 IN /\ LastSegment \in DOMAIN files
                    /\ \A t \in DOMAIN files : t <= LastSegment
                    /\ end \in 0..Len(files[LastSegment]) /\ ValidTo(files[LastSegment], end)
                    /\ end = Len(files[LastSegment]) \/ files[LastSegment][end + 1] = Torn
                    /\ active' = LastSegment /\ activeSize' = end
                    /\ files'[LastSegment] = SubSeq(files[LastSegment], 1, end)
                    /\ synced'[LastSegment] = LoweredTo(synced[LastSegment], end)
           /\ \A s \in DOMAIN files : s # LastSegment =>
                 files'[s] = files[s] /\ synced'[s] = synced[s]
           /\ DOMAIN files = {} => active' = NoSegment /\ activeSize' = 0
<1>1. DOMAIN synced = DOMAIN files /\ DOMAIN files \in SUBSET Nat
  BY DEF TypeOK
<1>2. CASE DOMAIN files = {}
  <2>1. UNCHANGED <<files, synced>> /\ active' = NoSegment /\ activeSize' = 0
    BY <1>2 DEF Open
  <2> QED BY <1>1, <1>2, <2>1
<1>3. CASE DOMAIN files # {}
  <2> DEFINE end == ScanEnd(files[LastSegment])
  <2>1. LastSegment \in DOMAIN files /\ \A t \in DOMAIN files : t <= LastSegment
    BY <1>1, <1>3, LastSegmentIs
  <2>2. files[LastSegment] \in Seq(Entry)
    BY <2>1 DEF TypeOK
  <2>3. /\ end \in 0..Len(files[LastSegment]) /\ ValidTo(files[LastSegment], end)
        /\ end = Len(files[LastSegment]) \/ files[LastSegment][end + 1] = Torn
    BY <2>2, ScanEndIs
  <2>4. /\ active' = LastSegment /\ activeSize' = end
        /\ files' = [files EXCEPT ![LastSegment] = SubSeq(@, 1, end)]
        /\ synced' = [synced EXCEPT ![LastSegment] = LoweredTo(@, end)]
    BY <1>3 DEF Open
  <2> HIDE DEF end
  <2>5. /\ DOMAIN files' = DOMAIN files /\ DOMAIN synced' = DOMAIN files
        /\ files'[LastSegment] = SubSeq(files[LastSegment], 1, end)
        /\ synced'[LastSegment] = LoweredTo(synced[LastSegment], end)
        /\ \A s \in DOMAIN files : s # LastSegment =>
              files'[s] = files[s] /\ synced'[s] = synced[s]
    BY <1>1, <2>1, <2>4
  <2> QED BY <1>3, <2>1, <2>3, <2>4, <2>5 DEF end
<1> QED BY <1>2, <1>3

\* Open adds no entry.
LEMMA OpenFiles ==
    ASSUME TypeOK, FilesFinite, Open
    PROVE  FilesStep
<1>1. /\ DOMAIN files' = DOMAIN files /\ DOMAIN synced' = DOMAIN files
      /\ \A s \in DOMAIN files : s # LastSegment =>
            files'[s] = files[s] /\ synced'[s] = synced[s]
  BY OpenCuts
<1>2. ASSUME NEW s \in DOMAIN files
      PROVE  /\ files'[s] \in Seq(Entry) /\ synced'[s] \in 0..Len(files'[s])
             /\ \A i \in 1..Len(files'[s]) : i \in 1..Len(files[s]) /\ files'[s][i] = files[s][i]
  <2>1. files[s] \in Seq(Entry) /\ synced[s] \in 0..Len(files[s])
    BY DEF TypeOK
  <2>2. CASE s # LastSegment
    BY <1>1, <2>1, <2>2
  <2>3. CASE s = LastSegment
    <3> DEFINE end == ScanEnd(files[s])
    <3>1. /\ end \in 0..Len(files[s])
          /\ files'[s] = SubSeq(files[s], 1, end) /\ synced'[s] = LoweredTo(synced[s], end)
      BY <2>3, OpenCuts
    <3> HIDE DEF end
    <3>2. /\ files'[s] \in Seq(Entry) /\ Len(files'[s]) = end
          /\ \A i \in 1..end : i \in 1..Len(files[s]) /\ files'[s][i] = files[s][i]
      BY <2>1, <3>1, EntryPrefix
    <3>3. synced'[s] \in 0..end
      BY <2>1, <3>1 DEF LoweredTo
    <3> QED BY <3>2, <3>3
  <2> QED BY <2>2, <2>3
<1> QED BY <1>1, <1>2 DEF FilesStep, TypeOK, FilesFinite

\* Every step.
LEMMA FilesStepAlways ==
    ASSUME TypeOK, FilesFinite, HandleBacked, [Next]_vars
    PROVE  FilesStep
<1>1. CASE AppendOk \/ CrashInAppend
  BY <1>1, WriteFiles
<1>2. CASE WriteFails \/ AppendSyncFails
  BY <1>2, RollBackFiles
<1>3. CASE RotateFails
  <2>1. UNCHANGED files
    BY <1>3 DEF RotateFails
  <2> QED BY <1>3, <2>1, SyncFiles
<1>4. CASE OpenSegmentFails
  <2>1. UNCHANGED files
    BY <1>4 DEF OpenSegmentFails
  <2> QED BY <1>4, <2>1, SyncFiles
<1>5. CASE SyncActive
  <2>1. UNCHANGED files
    BY <1>5 DEF SyncActive
  <2> QED BY <1>5, <2>1, SyncFiles
<1>6. CASE Crash \/ UNCHANGED vars \/ \E seq \in 1..(nextSeq - 1) : CheckpointFails(seq)
  <2>1. UNCHANGED <<files, synced>>
    BY <1>6 DEF Crash, CheckpointFails, vars, disk
  <2> QED BY <2>1, SyncFiles
<1>7. CASE \E seq \in 1..(nextSeq - 1) : SetCheckpoint(seq) \/ CrashInCheckpoint(seq)
  <2>1. \E gone : Remove(gone)
    BY <1>7 DEF SetCheckpoint, CrashInCheckpoint
  <2> QED BY <2>1, PruneFiles
<1>8. CASE PowerLoss
  BY <1>8, LossFiles
<1>9. CASE Open
  BY <1>9, OpenFiles
<1> QED BY <1>1, <1>2, <1>3, <1>4, <1>5, <1>6, <1>7, <1>8, <1>9 DEF Next

-----------------------------------------------------------------------------
(* The unconditional part of the invariant. *)

\* What Open finds are records of the files.
LEMMA OnDiskIs ==
    ASSUME TypeOK
    PROVE  /\ \A r : r \in OnDisk <=> \E s \in DOMAIN files : \E i \in 1..Len(files[s]) :
                                         r = files[s][i] /\ ValidTo(files[s], i)
           /\ \A r \in OnDisk : r \in Record /\ r # Torn /\ r.seq \in Nat \ {0}
<1>1. \A r : r \in OnDisk <=> \E s \in DOMAIN files : \E i \in 1..Len(files[s]) :
                                 r = files[s][i] /\ ValidTo(files[s], i)
  BY DEF OnDisk, Scanned
<1>2. ASSUME NEW s \in DOMAIN files, NEW i \in 1..Len(files[s]), ValidTo(files[s], i)
      PROVE  files[s][i] \in Record /\ files[s][i] # Torn /\ files[s][i].seq \in Nat \ {0}
  <2>1. files[s][i] \in Entry
    BY DEF TypeOK
  <2>2. files[s][i] # Torn
    BY <1>2 DEF ValidTo
  <2> QED BY <2>1, <2>2 DEF Entry, Record
<1> QED BY <1>1, <1>2

\* The highest number on disk, zero where there is none.
LEMMA HighestIs ==
    ASSUME TypeOK, PayloadsAccounted
    PROVE  /\ HighestSeq \in Nat /\ HighestSeq <= appends
           /\ \A r \in OnDisk : r.seq <= HighestSeq
           /\ HighestSeq > 0 => \E r \in OnDisk : r.seq = HighestSeq
<1> DEFINE S == {r.seq : r \in OnDisk}
<1>1. \A r \in OnDisk : r.seq \in Nat \ {0} /\ r.seq <= appends
  BY OnDiskIs DEF PayloadsAccounted
<1>2. appends \in Nat
  BY DEF TypeOK
<1>3. CASE OnDisk = {}
  BY <1>2, <1>3 DEF HighestSeq
<1>4. CASE OnDisk # {}
  <2>1. S \in SUBSET Nat /\ S # {} /\ \A x \in S : x <= appends
    BY <1>1, <1>4
  <2> HIDE DEF S
  <2>2. PICK m \in S : \A x \in S : x <= m
    BY <1>2, <2>1, Greatest
  <2>3. \E n \in {r.seq : r \in OnDisk} : \A r \in OnDisk : r.seq <= n
    BY <2>2 DEF S
  <2>4. HighestSeq \in {r.seq : r \in OnDisk} /\ \A r \in OnDisk : r.seq <= HighestSeq
    BY <1>4, <2>3 DEF HighestSeq
  <2> QED BY <1>1, <2>4
<1> QED BY <1>3, <1>4

\* The number Open resumes at (wal.go:123-126).
LEMMA NextNumberIs ==
    ASSUME TypeOK, PayloadsAccounted, HandleBacked
    PROVE  /\ NextNumber \in Nat /\ NextNumber > 0 /\ NextNumber <= appends + 1
           /\ NextNumber > ckptFile /\ \A r \in OnDisk : r.seq < NextNumber
           /\ NextNumber = ckptFile + 1 \/ \E r \in OnDisk : r.seq = NextNumber - 1
<1>1. /\ HighestSeq \in Nat /\ HighestSeq <= appends /\ ckptFile \in Nat /\ ckptFile <= appends
      /\ appends \in Nat /\ \A r \in OnDisk : r.seq \in Nat
  BY HighestIs, OnDiskIs DEF TypeOK, HandleBacked
<1>2. /\ NextNumber \in Nat /\ NextNumber > 0 /\ NextNumber <= appends + 1
      /\ NextNumber > ckptFile /\ NextNumber > HighestSeq
      /\ NextNumber = ckptFile + 1 \/ NextNumber = HighestSeq + 1
  BY <1>1 DEF NextNumber
<1>3. \A r \in OnDisk : r.seq < NextNumber
  BY <1>1, <1>2, HighestIs
<1>4. NextNumber = ckptFile + 1 \/ \E r \in OnDisk : r.seq = NextNumber - 1
  <2>1. CASE NextNumber = ckptFile + 1
    BY <2>1
  <2>2. CASE NextNumber # ckptFile + 1
    <3>1. NextNumber - 1 = HighestSeq /\ HighestSeq > 0
      BY <1>1, <1>2, <2>2
    <3> QED BY <3>1, HighestIs
  <2> QED BY <2>1, <2>2
<1> QED BY <1>2, <1>3, <1>4

\* The variables a step leaves within their types.
LEMMA TypeStep ==
    ASSUME TypeOK, FilesFinite, HandleBacked, PayloadsAccounted, [Next]_vars
    PROVE  TypeOK'
<1>1. FilesStep
  BY FilesStepAlways
<1>2. /\ DOMAIN files' \subseteq Nat \ {0}
      /\ \A s \in DOMAIN files' : files'[s] \in Seq(Entry)
      /\ DOMAIN synced' = DOMAIN files'
      /\ \A s \in DOMAIN synced' : synced'[s] \in 0..Len(files'[s])
  BY <1>1 DEF FilesStep
<1>3. /\ ckptFile \in Nat /\ active \in Nat /\ activeSize \in Nat /\ nextSeq \in Nat
      /\ checkpoint \in Nat /\ appends \in Nat /\ owed \subseteq Record /\ refused \subseteq Nat
      /\ crashes \in Nat /\ losses \in Nat /\ faults \in Nat
      /\ segments \in Seq(Nat \ {0})
  BY DEF TypeOK
<1>4. up' \in BOOLEAN
  <2>1. UNCHANGED up \/ up' = TRUE \/ up' = FALSE
    BY DEF Next, vars, mem, bounds, Open, AppendOk, RotateFails, OpenSegmentFails, WriteFails,
           AppendSyncFails, Refuse, SyncActive, SetCheckpoint, CheckpointFails,
           CrashInCheckpoint, Crash, CrashInAppend, PowerLoss, ProcessStops, Stops
  <2> QED BY <2>1 DEF TypeOK
<1>5. appends' \in Nat /\ crashes' \in Nat /\ losses' \in Nat /\ faults' \in Nat
  <2>1. UNCHANGED appends \/ appends' = appends + 1
    BY DEF Next, vars, hist, Open, AppendOk, RotateFails, OpenSegmentFails, WriteFails,
         AppendSyncFails, SyncActive, SetCheckpoint, CheckpointFails, Called, Payload,
         CrashInCheckpoint, Crash, CrashInAppend, PowerLoss
  <2>2. UNCHANGED crashes \/ crashes' = crashes + 1
    BY DEF Next, vars, bounds, Open, AppendOk, RotateFails, OpenSegmentFails, WriteFails,
         AppendSyncFails, Refuse, SyncActive, SetCheckpoint, CheckpointFails,
         CrashInCheckpoint, Crash, CrashInAppend, PowerLoss, ProcessStops
  <2>3. UNCHANGED losses \/ losses' = losses + 1
    BY DEF Next, vars, bounds, Open, AppendOk, RotateFails, OpenSegmentFails, WriteFails,
         AppendSyncFails, Refuse, SyncActive, SetCheckpoint, CheckpointFails,
         CrashInCheckpoint, Crash, CrashInAppend, PowerLoss, ProcessStops
  <2>4. UNCHANGED faults \/ faults' = faults + 1
    BY DEF Next, vars, bounds, Open, AppendOk, RotateFails, OpenSegmentFails, WriteFails,
         AppendSyncFails, Refuse, SyncActive, SetCheckpoint, CheckpointFails,
         CrashInCheckpoint, Crash, CrashInAppend, PowerLoss, ProcessStops, Stops
  <2> QED BY <1>3, <2>1, <2>2, <2>3, <2>4
<1>6. refused' \subseteq Nat
  BY <1>3 DEF Next, vars, hist, bounds, Open, AppendOk, RotateFails, OpenSegmentFails, WriteFails,
         AppendSyncFails, Refuse, SyncActive, SetCheckpoint, CheckpointFails, Payload,
         CrashInCheckpoint, Crash, CrashInAppend, PowerLoss
<1>7. owed' \subseteq Record
  <2>1. CASE AppendOk
    <3>1. NewRecord \in Record
      BY <2>1, OpenedFacts DEF AppendOk, Called
    <3> QED BY <1>3, <2>1, <3>1 DEF AppendOk
  <2>2. CASE ~AppendOk
    <3>1. owed' \subseteq owed
      BY <2>2 DEF Next, vars, hist, Open, RotateFails, OpenSegmentFails, WriteFails,
         AppendSyncFails, Refuse, SyncActive, SetCheckpoint, CheckpointFails, Settles,
         CrashInCheckpoint, Crash, CrashInAppend, PowerLoss
    <3> QED BY <1>3, <3>1
  <2> QED BY <2>1, <2>2
<1>8. ckptFile' \in Nat /\ checkpoint' \in Nat
  <2>1. ckptFile' \in Nat
    BY <1>3 DEF Next, vars, disk, mem, hist, bounds, Open, AppendOk, RotateFails, OpenSegmentFails,
           WriteFails, AppendSyncFails, Refuse, SyncActive, SetCheckpoint, CheckpointFails,
           CrashInCheckpoint, Crash, CrashInAppend, PowerLoss, ProcessStops, Stops
  <2>2. checkpoint' \in Nat
    BY <1>3 DEF Next, vars, disk, mem, hist, bounds, Open, AppendOk, RotateFails, OpenSegmentFails,
           WriteFails, AppendSyncFails, Refuse, SyncActive, SetCheckpoint, CheckpointFails,
           CrashInCheckpoint, Crash, CrashInAppend, PowerLoss, ProcessStops, Stops
  <2> QED BY <2>1, <2>2
<1>9. nextSeq' \in Nat
  <2>1. NextNumber \in Nat
    BY NextNumberIs
  <2>2. UNCHANGED nextSeq \/ nextSeq' = nextSeq + 1 \/ nextSeq' = 0 \/ nextSeq' = NextNumber
    BY DEF Next, vars, mem, Open, AppendOk, RotateFails, OpenSegmentFails,
         WriteFails, AppendSyncFails, Refuse, SyncActive, SetCheckpoint, CheckpointFails,
         CrashInCheckpoint, Crash, CrashInAppend, PowerLoss, ProcessStops, Stops
  <2> QED BY <1>3, <2>1, <2>2
<1>10. active' \in Nat /\ activeSize' \in Nat
  <2>1. CASE Open
    <3>1. ASSUME DOMAIN files # {}
          PROVE  /\ LastSegment \in Nat /\ ScanEnd(files[LastSegment]) \in Nat
                 /\ active' = LastSegment /\ activeSize' = ScanEnd(files[LastSegment])
      <4>1. /\ LastSegment \in DOMAIN files
            /\ ScanEnd(files[LastSegment]) \in 0..Len(files[LastSegment])
            /\ active' = LastSegment /\ activeSize' = ScanEnd(files[LastSegment])
        BY <2>1, <3>1, OpenCuts
      <4> QED BY <4>1 DEF TypeOK
    <3>2. DOMAIN files = {} => active' = NoSegment /\ activeSize' = 0
      BY <2>1, OpenCuts
    <3> QED BY <3>1, <3>2 DEF NoSegment
  <2>2. CASE AppendOk \/ WriteFails \/ AppendSyncFails
    <3>1. Target \in Nat /\ StartSize \in Nat
      BY <2>2, OpenedFacts DEF AppendOk, WriteFails, AppendSyncFails, Called
    <3> QED BY <2>2, <3>1 DEF AppendOk, WriteFails, AppendSyncFails
  <2>3. CASE ~(Open \/ AppendOk \/ WriteFails \/ AppendSyncFails)
    BY <1>3, <2>3 DEF Next, vars, mem, RotateFails, OpenSegmentFails,
         Refuse, SyncActive, SetCheckpoint, CheckpointFails, NoSegment,
         CrashInCheckpoint, Crash, CrashInAppend, PowerLoss, ProcessStops, Stops
  <2> QED BY <2>1, <2>2, <2>3
<1>11. segments' \in Seq(Nat \ {0})
  <2>1. CASE Open
    <3>1. DOMAIN files \in SUBSET Nat /\ DOMAIN files \subseteq Nat \ {0}
      BY DEF TypeOK
    <3>2. Sorted(DOMAIN files) \in Seq(DOMAIN files)
      BY <3>1, SortedLists DEF FilesFinite
    <3> QED BY <2>1, <3>1, <3>2 DEF Open
  <2>2. CASE AppendOk \/ WriteFails \/ AppendSyncFails
    <3>1. SegmentsOpened \in Seq(Nat \ {0})
      BY <2>2, OpenedFacts DEF AppendOk, WriteFails, AppendSyncFails, Called
    <3> QED BY <2>2, <3>1 DEF AppendOk, WriteFails, AppendSyncFails
  <2>3. ASSUME NEW seq \in 1..(nextSeq - 1), SetCheckpoint(seq)
        PROVE  segments' \in Seq(Nat \ {0})
    <3>1. Covered(seq) \in SUBSET (1..Len(segments))
      BY <1>3 DEF Covered
    <3>2. Without(segments, Covered(seq)) \in Seq(Nat \ {0})
      BY <1>3, <3>1, WithoutKeepsOrder
    <3> QED BY <2>3, <3>2 DEF SetCheckpoint
  <2>4. CASE ~(Open \/ AppendOk \/ WriteFails \/ AppendSyncFails
               \/ \E seq \in 1..(nextSeq - 1) : SetCheckpoint(seq))
    <3>1. UNCHANGED segments \/ segments' = <<>>
      BY <2>4 DEF Next, vars, mem, RotateFails, OpenSegmentFails,
         Refuse, SyncActive, CheckpointFails,
         CrashInCheckpoint, Crash, CrashInAppend, PowerLoss, ProcessStops, Stops
    <3>2. <<>> \in Seq(Nat \ {0})
      OBVIOUS
    <3> QED BY <1>3, <3>1, <3>2
  <2> QED BY <2>1, <2>2, <2>3, <2>4
<1> QED BY <1>2, <1>4, <1>5, <1>6, <1>7, <1>8, <1>9, <1>10, <1>11 DEF TypeOK

\* Calls only grow in number, and a refusal is of the call being made.
LEMMA CallsGrow ==
    ASSUME TypeOK, [Next]_vars
    PROVE  /\ appends' \in Nat /\ appends <= appends'
           /\ AppendOk \/ CrashInAppend => appends' = appends + 1 /\ refused' = refused
           /\ refused' = refused \/ (refused' = refused \cup {appends + 1} /\ appends' = appends + 1)
<1>1. appends \in Nat
  BY DEF TypeOK
<1>2. UNCHANGED appends \/ appends' = appends + 1
  BY DEF Next, vars, hist, Open, AppendOk, RotateFails, OpenSegmentFails, WriteFails,
         AppendSyncFails, SyncActive, SetCheckpoint, CheckpointFails, Called, Payload,
         CrashInCheckpoint, Crash, CrashInAppend, PowerLoss
<1>3. AppendOk \/ CrashInAppend => appends' = appends + 1 /\ refused' = refused
  BY DEF AppendOk, CrashInAppend, Called, Payload
<1>4. refused' = refused \/ (refused' = refused \cup {appends + 1} /\ appends' = appends + 1)
  BY DEF Next, vars, hist, Open, AppendOk, RotateFails, OpenSegmentFails, WriteFails,
         AppendSyncFails, Refuse, SyncActive, SetCheckpoint, CheckpointFails, Called, Payload,
         CrashInCheckpoint, Crash, CrashInAppend, PowerLoss
<1> QED BY <1>1, <1>2, <1>3, <1>4

\* Nothing refused comes back into a file: a refused call is rolled back, and
\* later calls carry later payloads.
LEMMA PayloadsStep ==
    ASSUME TypeOK, FilesFinite, HandleBacked, PayloadsAccounted, [Next]_vars
    PROVE  PayloadsAccounted'
<1>1. FilesStep
  BY FilesStepAlways
<1>2. /\ appends \in Nat /\ appends' \in Nat /\ appends <= appends' /\ refused \subseteq Nat
      /\ AppendOk \/ CrashInAppend => appends' = appends + 1 /\ refused' = refused
      /\ refused' = refused \/ (refused' = refused \cup {appends + 1} /\ appends' = appends + 1)
  <2>1. /\ appends' \in Nat /\ appends <= appends'
        /\ AppendOk \/ CrashInAppend => appends' = appends + 1 /\ refused' = refused
        /\ refused' = refused \/ (refused' = refused \cup {appends + 1} /\ appends' = appends + 1)
    BY CallsGrow
  <2> QED BY <2>1 DEF TypeOK
<1>3. \A n \in refused : 1 <= n /\ n <= appends
  BY DEF PayloadsAccounted
<1>4. ASSUME NEW n \in refused' PROVE 1 <= n /\ n <= appends'
  <2>1. n \in refused \/ (n = appends + 1 /\ appends' = appends + 1)
    BY <1>2
  <2>2. CASE n \in refused
    <3>1. n \in Nat /\ 1 <= n /\ n <= appends
      BY <2>2, <1>2, <1>3
    <3> QED BY <3>1, <1>2
  <2>3. CASE n = appends + 1 /\ appends' = appends + 1
    BY <2>3, <1>2
  <2> QED BY <2>1, <2>2, <2>3
<1>5. ASSUME NEW s \in DOMAIN files', NEW i \in 1..Len(files'[s])
      PROVE  /\ files'[s][i].seq <= appends'
             /\ files'[s][i].val <= appends'
             /\ files'[s][i].val \notin refused'
  <2> DEFINE e == files'[s][i]
  <2>1. CASE e = Torn
    <3>1. e.seq = 0 /\ e.val = 0
      BY <2>1, EntryFields
    <3> QED BY <3>1, <1>2, <1>4
  <2>2. CASE e = NewRecord /\ (AppendOk \/ CrashInAppend)
    <3>1. e.seq = nextSeq /\ e.val = appends + 1
      BY <2>2 DEF NewRecord, Payload
    <3>2. nextSeq <= appends + 1
      BY DEF HandleBacked
    <3>3. appends' = appends + 1 /\ refused' = refused
      BY <2>2, <1>2
    <3> HIDE DEF e
    <3>4. e.val \notin refused'
      BY <3>1, <3>3, <1>2, <1>3
    <3> QED BY <3>1, <3>2, <3>3, <3>4, <1>2 DEF e
  <2>3. CASE s \in DOMAIN files /\ i \in 1..Len(files[s]) /\ e = files[s][i]
    <3>1. e \in Entry /\ e.seq <= appends /\ e.val <= appends /\ e.val \notin refused
      BY <2>3 DEF PayloadsAccounted, TypeOK
    <3>2. e.seq \in Nat /\ e.val \in Nat
      BY <3>1, EntryFields
    <3> HIDE DEF e
    <3> QED BY <3>1, <3>2, <1>2 DEF e
  <2> QED BY <1>1, <2>1, <2>2, <2>3 DEF FilesStep
<1> QED BY <1>4, <1>5 DEF PayloadsAccounted

\* The rollbacks keep cutting to a length the active file has.
LEMMA HandleStep ==
    ASSUME TypeOK, FilesFinite, HandleBacked, PayloadsAccounted, [Next]_vars
    PROVE  HandleBacked'
<1>1. FilesStep /\ TypeOK'
  BY FilesStepAlways, TypeStep
<1>2. active' \in DOMAIN files' => activeSize' <= Len(files'[active'])
  <2>1. CASE AppendOk
    <3>1. /\ active' = Target /\ activeSize' = StartSize + 1
          /\ files' = [FilesOpened EXCEPT ![Target] = Append(@, NewRecord)]
      BY <2>1 DEF AppendOk
    <3>2. /\ DOMAIN FilesOpened = StartsOpened
          /\ Target \in StartsOpened =>
                /\ FilesOpened[Target] \in Seq(Entry)
                /\ StartSize <= Len(FilesOpened[Target])
          /\ StartSize \in Nat /\ NewRecord \in Entry
      BY <2>1, OpenedFacts DEF AppendOk, Called
    <3>3. SUFFICES ASSUME Target \in StartsOpened
                   PROVE  StartSize + 1 <= Len(Append(FilesOpened[Target], NewRecord))
      BY <3>1, <3>2
    <3> QED BY <3>2, <3>3
  <2>2. CASE WriteFails \/ AppendSyncFails
    <3>1. active' = Target /\ activeSize' = StartSize
      BY <2>2 DEF WriteFails, AppendSyncFails
    <3>2. /\ DOMAIN files' = StartsOpened
          /\ Target \in StartsOpened => files'[Target] = SubSeq(FilesOpened[Target], 1, StartSize)
      BY <2>2, RolledBack
    <3>3. up
      BY <2>2, RolledBack
    <3>4. Target \in StartsOpened =>
             FilesOpened[Target] \in Seq(Entry) /\ StartSize \in 0..Len(FilesOpened[Target])
      BY <3>3, OpenedFacts
    <3>5. Target \in StartsOpened => Len(files'[Target]) = StartSize
      BY <3>2, <3>4, EntryPrefix
    <3> QED BY <3>1, <3>2, <3>4, <3>5
  <2>3. CASE Open
    <3>1. CASE DOMAIN files = {}
      BY <2>3, <3>1, OpenCuts
    <3>2. CASE DOMAIN files # {}
      <4>1. LET end == ScanEnd(files[LastSegment])
            IN /\ LastSegment \in DOMAIN files /\ end \in 0..Len(files[LastSegment])
               /\ active' = LastSegment /\ activeSize' = end
               /\ files'[LastSegment] = SubSeq(files[LastSegment], 1, end)
        BY <2>3, <3>2, OpenCuts
      <4>2. files[LastSegment] \in Seq(Entry)
        BY <4>1 DEF TypeOK
      <4> QED BY <4>1, <4>2, EntryPrefix
    <3> QED BY <3>1, <3>2
  <2>4. CASE RotateFails \/ OpenSegmentFails \/ Crash \/ CrashInAppend \/ PowerLoss
             \/ \E seq \in 1..(nextSeq - 1) : CrashInCheckpoint(seq)
    <3>1. active' = 0
      BY <2>4 DEF RotateFails, OpenSegmentFails, Crash, CrashInAppend, PowerLoss,
                  CrashInCheckpoint, ProcessStops, Stops, NoSegment
    <3> QED BY <3>1, <1>1 DEF TypeOK
  <2>5. CASE \E seq \in 1..(nextSeq - 1) : SetCheckpoint(seq)
    <3>1. active' = active /\ activeSize' = activeSize
      BY <2>5 DEF SetCheckpoint
    <3>2. \A s \in DOMAIN files' : s \in DOMAIN files /\ files'[s] = files[s]
      BY <2>5 DEF SetCheckpoint, Remove
    <3> QED BY <3>1, <3>2 DEF HandleBacked
  <2>6. CASE SyncActive \/ UNCHANGED vars \/ \E seq \in 1..(nextSeq - 1) : CheckpointFails(seq)
    BY <2>6 DEF SyncActive, CheckpointFails, vars, mem, disk, HandleBacked
  <2> QED BY <2>1, <2>2, <2>3, <2>4, <2>5, <2>6 DEF Next
<1>3. (up' => nextSeq' > 0) /\ nextSeq' <= appends' + 1
  <2>1. /\ nextSeq \in Nat /\ appends \in Nat /\ appends' \in Nat /\ appends <= appends'
        /\ nextSeq <= appends + 1
    BY CallsGrow DEF TypeOK, HandleBacked
  <2>2. CASE Open
    <3>1. nextSeq' = NextNumber /\ UNCHANGED appends
      BY <2>2 DEF Open, hist
    <3> QED BY <3>1, NextNumberIs
  <2>3. CASE AppendOk
    <3>1. nextSeq' = nextSeq + 1 /\ appends' = appends + 1
      BY <2>3 DEF AppendOk, Called, Payload
    <3> QED BY <3>1, <2>1
  <2>4. CASE ~(Open \/ AppendOk)
    <3>1. (UNCHANGED nextSeq /\ UNCHANGED up) \/ (up' = FALSE /\ nextSeq' = 0)
      BY <2>4 DEF Next, vars, mem, bounds, RotateFails, OpenSegmentFails, WriteFails,
           AppendSyncFails, Refuse, SyncActive, SetCheckpoint, CheckpointFails,
           CrashInCheckpoint, Crash, CrashInAppend, PowerLoss, ProcessStops, Stops
    <3> QED BY <3>1, <2>1 DEF HandleBacked
  <2> QED BY <2>2, <2>3, <2>4
<1>4. ckptFile' <= appends'
  <2>1. /\ ckptFile \in Nat /\ nextSeq \in Nat /\ appends \in Nat /\ appends' \in Nat
        /\ appends <= appends' /\ nextSeq <= appends + 1 /\ ckptFile <= appends
    BY CallsGrow DEF TypeOK, HandleBacked
  <2>2. UNCHANGED ckptFile \/ ckptFile' = 0 \/ ckptFile' \in 1..(nextSeq - 1)
    BY DEF Next, vars, disk, Open, AppendOk, RotateFails, OpenSegmentFails,
         WriteFails, AppendSyncFails, Refuse, SyncActive, SetCheckpoint, CheckpointFails,
         CrashInCheckpoint, Crash, CrashInAppend, PowerLoss
  <2> QED BY <2>1, <2>2
<1> QED BY <1>2, <1>3, <1>4 DEF HandleBacked

-----------------------------------------------------------------------------
(* The part that needs Sound: what the files look like before a step.        *)

\* What holds whatever fails.
Base ==
    /\ TypeOK
    /\ FilesFinite
    /\ HandleBacked
    /\ PayloadsAccounted

\* What holds as long as the disk is Sound.
Order ==
    /\ TornAtEnd
    /\ RetiredSynced
    /\ Numbered
    /\ StartsFollow
    /\ ActiveIsLast
    /\ SegmentsListFiles
    /\ NextIsFree
    /\ NoGap
    /\ AckedReplayable

\* Where only the end can be torn, a scan delivers everything that decodes.
LEMMA ScannedMembers ==
    ASSUME NEW f \in Seq(Entry), \A i \in 1..Len(f) : f[i] = Torn => i = Len(f)
    PROVE  \A r : r \in Scanned(f) <=> \E i \in 1..Len(f) : r = f[i] /\ r # Torn
<1>1. ASSUME NEW i \in 1..Len(f) PROVE ValidTo(f, i) <=> f[i] # Torn
  <2>1. i \in 1..i /\ \A j \in 1..i : j \in 1..Len(f) /\ (j = Len(f) => j = i)
    OBVIOUS
  <2>2. f[i] # Torn => \A j \in 1..i : f[j] # Torn
    BY <2>1
  <2> QED BY <2>1, <2>2 DEF ValidTo
<1> QED BY <1>1 DEF Scanned

\* Before a step.
LEMMA OnDiskEntries ==
    ASSUME TypeOK, TornAtEnd
    PROVE  /\ \A s \in DOMAIN files : \A r :
                 r \in Scanned(files[s]) <=> \E i \in 1..Len(files[s]) : r = files[s][i] /\ r # Torn
           /\ \A r : r \in OnDisk <=> \E s \in DOMAIN files : r \in Scanned(files[s])
           /\ \A r : r \in OnDisk <=> \E s \in DOMAIN files : \E i \in 1..Len(files[s]) :
                                         r = files[s][i] /\ r # Torn
<1>1. ASSUME NEW s \in DOMAIN files
      PROVE  \A r : r \in Scanned(files[s]) <=> \E i \in 1..Len(files[s]) : r = files[s][i] /\ r # Torn
  <2>1. files[s] \in Seq(Entry) /\ \A i \in 1..Len(files[s]) : files[s][i] = Torn => i = Len(files[s])
    BY DEF TypeOK, TornAtEnd
  <2> QED BY <2>1, ScannedMembers
<1>2. \A r : r \in OnDisk <=> \E s \in DOMAIN files : r \in Scanned(files[s])
  BY DEF OnDisk
<1> QED BY <1>1, <1>2

\* After it.
LEMMA OnDiskEntriesNext ==
    ASSUME TypeOK', TornAtEnd'
    PROVE  /\ \A s \in DOMAIN files' : \A r :
                 r \in Scanned(files'[s]) <=> \E i \in 1..Len(files'[s]) : r = files'[s][i] /\ r # Torn
           /\ \A r : r \in OnDisk' <=> \E s \in DOMAIN files' : r \in Scanned(files'[s])
           /\ \A r : r \in OnDisk' <=> \E s \in DOMAIN files' : \E i \in 1..Len(files'[s]) :
                                          r = files'[s][i] /\ r # Torn
<1>1. ASSUME NEW s \in DOMAIN files'
      PROVE  \A r : r \in Scanned(files'[s]) <=> \E i \in 1..Len(files'[s]) : r = files'[s][i] /\ r # Torn
  <2>1. files'[s] \in Seq(Entry) /\ \A i \in 1..Len(files'[s]) : files'[s][i] = Torn => i = Len(files'[s])
    BY DEF TypeOK, TornAtEnd
  <2> QED BY <2>1, ScannedMembers
<1>2. \A r : r \in OnDisk' <=> \E s \in DOMAIN files' : r \in Scanned(files'[s])
  BY DEF OnDisk
<1> QED BY <1>1, <1>2

\* A new file gets a name no file has, above every name; otherwise the record
\* goes to the end of the newest file.
LEMMA TargetIs ==
    ASSUME Base, Order, up
    PROVE  /\ NeedOpen => Target = nextSeq /\ \A s \in DOMAIN files : s < nextSeq
           /\ ~NeedOpen => active # NoSegment /\ Target = active /\ active \in DOMAIN files
           /\ Target \in StartsOpened /\ Target <= nextSeq
           /\ \A s \in StartsOpened : s <= Target
           /\ \A s \in StartsOpened : s \in DOMAIN files \/ s = Target
           /\ \A s \in DOMAIN files : s # Target => s < Target
           /\ StartSize = Len(FilesOpened[Target])
<1> USE DEF Base, Order
<1>1. /\ DOMAIN files \subseteq Nat \ {0} /\ nextSeq \in Nat /\ ckptFile \in Nat
      /\ \A s \in DOMAIN files : files[s] \in Seq(Entry)
  BY DEF TypeOK
<1>2. /\ \A r \in OnDisk : r.seq \in Nat /\ r.seq < nextSeq
      /\ ckptFile < nextSeq
  <2>1. ckptFile <= checkpoint /\ checkpoint < nextSeq /\ \A r \in OnDisk : r.seq < nextSeq
    BY DEF NextIsFree
  <2>2. checkpoint \in Nat /\ \A r \in OnDisk : r.seq \in Nat
    BY OnDiskIs DEF TypeOK
  <2> QED BY <1>1, <2>1, <2>2
<1>3. CASE NeedOpen
  <2>1. Target = nextSeq /\ StartSize = 0 /\ StartsOpened = DOMAIN files \cup {nextSeq}
    BY <1>3 DEF Target, StartSize, StartsOpened
  <2>2. \A s \in DOMAIN files : s < nextSeq
    <3>1. CASE active = NoSegment
      BY <3>1 DEF ActiveIsLast
    <3>2. CASE active # NoSegment
      <4>1. activeSize > 0
        BY <3>2, <1>3 DEF NeedOpen, NeedRotate
      <4>2. /\ active \in DOMAIN files /\ activeSize = Len(files[active])
            /\ \A s \in DOMAIN files : s <= active
        BY <3>2 DEF ActiveIsLast
      <4>3. 1 \in 1..Len(files[active]) /\ files[active] \in Seq(Entry)
        BY <1>1, <4>1, <4>2
      <4>4. files[active][1] # Torn
        BY <4>2, <4>3 DEF TornAtEnd
      <4>5. active <= files[active][1].seq
        BY <4>2, <4>3, <4>4 DEF Numbered
      <4>6. files[active][1] \in OnDisk
        BY <4>2, <4>3, <4>4, OnDiskEntries
      <4>7. active < nextSeq /\ active \in Nat
        BY <4>2, <4>5, <4>6, <1>1, <1>2
      <4> QED BY <1>1, <4>2, <4>7
    <3> QED BY <3>1, <3>2
  <2>3. nextSeq \notin DOMAIN files
    BY <1>1, <2>2
  <2>4. FilesOpened[Target] = <<>>
    BY <2>1, <2>3 DEF FilesOpened
  <2> QED BY <1>1, <1>3, <2>1, <2>2, <2>3, <2>4
<1>4. CASE ~NeedOpen
  <2>1. active # NoSegment /\ Target = active /\ StartSize = activeSize /\ StartsOpened = DOMAIN files
    BY <1>4 DEF Target, StartSize, StartsOpened, NeedOpen
  <2>2. /\ active \in DOMAIN files /\ activeSize = Len(files[active])
        /\ \A s \in DOMAIN files : s <= active
    BY <2>1 DEF ActiveIsLast
  <2>3. active <= nextSeq
    <3>1. CASE active <= ckptFile + 1
      BY <3>1, <1>1, <1>2, <2>2
    <3>2. CASE ~(active <= ckptFile + 1)
      <4>1. PICK t \in DOMAIN files : \E r \in Scanned(files[t]) : r.seq = active - 1
        BY <2>2, <3>2 DEF StartsFollow
      <4>2. PICK r \in OnDisk : r.seq = active - 1
        BY <4>1 DEF OnDisk
      <4> QED BY <4>2, <1>1, <1>2, <2>2
    <3> QED BY <3>1, <3>2
  <2>4. FilesOpened[Target] = files[active]
    BY <2>1, <2>2 DEF FilesOpened
  <2>5. \A s \in DOMAIN files : s # active => s < active
    BY <1>1, <2>2
  <2> QED BY <1>4, <2>1, <2>2, <2>3, <2>4, <2>5
<1> QED BY <1>3, <1>4

\* The four ways a call can touch the files come down to one: a tail is put at
\* the end of the target, and none by a call that returns an error.
LEMMA WriteEffect ==
    ASSUME Base, Order, AppendOk \/ CrashInAppend \/ WriteFails \/ AppendSyncFails
    PROVE  /\ up /\ DOMAIN files' = StartsOpened /\ DOMAIN synced' = StartsOpened
           /\ \A s \in StartsOpened : s # Target => files'[s] = files[s] /\ synced'[s] = SyncedOpened[s]
           /\ \E tail \in {<<>>, <<Torn>>, <<NewRecord>>} :
                 /\ files'[Target] = FilesOpened[Target] \o tail
                 /\ AppendOk => tail = <<NewRecord>>
                 /\ ~CrashInAppend /\ ~AppendOk => tail = <<>>
<1> USE DEF Base, Order
<1>1. up
  BY DEF AppendOk, CrashInAppend, WriteFails, AppendSyncFails, Called
<1>2. /\ \A s \in StartsOpened : s \in DOMAIN files \/ s = Target
      /\ Target \in StartsOpened /\ StartSize = Len(FilesOpened[Target])
      /\ \A s \in DOMAIN files : FilesOpened[s] = files[s]
      /\ FilesOpened[Target] \in Seq(Entry)
  BY <1>1, TargetIs, OpenedFacts
<1>3. CASE AppendOk \/ CrashInAppend
  <2>1. /\ DOMAIN files' = StartsOpened /\ DOMAIN synced' = StartsOpened
        /\ \E tail \in {<<>>, <<Torn>>, <<NewRecord>>} :
              /\ AppendOk => tail = <<NewRecord>>
              /\ \A s \in StartsOpened :
                    files'[s] = IF s = Target THEN FilesOpened[s] \o tail ELSE FilesOpened[s]
        /\ \A s \in StartsOpened : \/ synced'[s] = SyncedOpened[s]
                                   \/ AppendOk /\ s = Target /\ synced'[s] = Len(FilesOpened[s]) + 1
    BY <1>3, WrittenTo
  <2>2. PICK tail \in {<<>>, <<Torn>>, <<NewRecord>>} :
              /\ AppendOk => tail = <<NewRecord>>
              /\ \A s \in StartsOpened :
                    files'[s] = IF s = Target THEN FilesOpened[s] \o tail ELSE FilesOpened[s]
    BY <2>1
  <2>3. files'[Target] = FilesOpened[Target] \o tail
    BY <1>2, <2>2
  <2>4. \A s \in StartsOpened : s # Target => files'[s] = files[s] /\ synced'[s] = SyncedOpened[s]
    BY <1>2, <2>1, <2>2
  <2> QED BY <1>1, <1>3, <2>1, <2>2, <2>3, <2>4
<1>4. CASE WriteFails \/ AppendSyncFails
  <2>1. ~AppendOk
    BY <1>4 DEF WriteFails, AppendSyncFails, AppendOk, Refuse, bounds, TypeOK
  <2>2. /\ DOMAIN files' = StartsOpened /\ DOMAIN synced' = StartsOpened
        /\ \A s \in StartsOpened :
              /\ files'[s] = IF s = Target THEN SubSeq(FilesOpened[s], 1, StartSize)
                             ELSE FilesOpened[s]
              /\ synced'[s] = IF s = Target THEN LoweredTo(SyncedOpened[s], StartSize)
                              ELSE SyncedOpened[s]
    BY <1>4, RolledBack
  <2>3. SubSeq(FilesOpened[Target], 1, StartSize) = FilesOpened[Target] \o <<>>
    BY <1>2
  <2>4. \A s \in StartsOpened : s # Target => files'[s] = files[s] /\ synced'[s] = SyncedOpened[s]
    BY <1>2, <2>2
  <2> QED BY <1>1, <1>2, <2>1, <2>2, <2>3, <2>4
<1> QED BY <1>3, <1>4

\* Entry by entry: the old ones stay, and at most one is added at the end.
LEMMA WriteEntries ==
    ASSUME Base, Order, AppendOk \/ CrashInAppend \/ WriteFails \/ AppendSyncFails
    PROVE  /\ up /\ DOMAIN files' = StartsOpened /\ Target \in StartsOpened
           /\ \A s \in StartsOpened : \A i \in 1..Len(files'[s]) :
                 \/ s \in DOMAIN files /\ i \in 1..Len(files[s]) /\ files'[s][i] = files[s][i]
                 \/ s = Target /\ i = Len(files'[s]) /\ files'[s][i] = Torn /\ CrashInAppend
                 \/ s = Target /\ i = Len(files'[s]) /\ files'[s][i] = NewRecord
                       /\ (AppendOk \/ CrashInAppend)
           /\ \A s \in DOMAIN files : s \in StartsOpened /\ \A i \in 1..Len(files[s]) :
                 i \in 1..Len(files'[s]) /\ files'[s][i] = files[s][i]
           /\ AppendOk => /\ Len(files'[Target]) = StartSize + 1
                          /\ files'[Target][StartSize + 1] = NewRecord
           /\ ~CrashInAppend /\ ~AppendOk => Len(files'[Target]) = StartSize
<1> USE DEF Base, Order
<1>1. /\ up /\ DOMAIN files' = StartsOpened
      /\ \A s \in StartsOpened : s # Target => files'[s] = files[s]
  BY WriteEffect
<1>2. PICK tail \in {<<>>, <<Torn>>, <<NewRecord>>} :
         /\ files'[Target] = FilesOpened[Target] \o tail
         /\ AppendOk => tail = <<NewRecord>>
         /\ ~CrashInAppend /\ ~AppendOk => tail = <<>>
  BY WriteEffect
<1>3. /\ Target \in StartsOpened /\ StartSize = Len(FilesOpened[Target])
      /\ \A s \in StartsOpened : s \in DOMAIN files \/ s = Target
      /\ DOMAIN files \subseteq StartsOpened
      /\ \A s \in DOMAIN files : FilesOpened[s] = files[s]
      /\ Target \notin DOMAIN files => FilesOpened[Target] = <<>>
      /\ FilesOpened[Target] \in Seq(Entry) /\ NewRecord \in Entry /\ NewRecord # Torn
      /\ \A s \in DOMAIN files : files[s] \in Seq(Entry)
  BY <1>1, TargetIs, OpenedFacts DEF TypeOK
<1>4. /\ StartSize \in Nat
      /\ \A i \in 1..StartSize : files'[Target][i] = FilesOpened[Target][i]
      /\ \/ tail = <<>> /\ Len(files'[Target]) = StartSize
         \/ /\ tail = <<Torn>> /\ Len(files'[Target]) = StartSize + 1
            /\ files'[Target][StartSize + 1] = Torn
         \/ /\ tail = <<NewRecord>> /\ Len(files'[Target]) = StartSize + 1
            /\ files'[Target][StartSize + 1] = NewRecord
  <2>1. StartSize \in Nat
    BY <1>3
  <2>2. CASE tail = <<>>
    BY <1>2, <1>3, <2>2
  <2>3. CASE tail = <<Torn>>
    <3>1. /\ files'[Target] = FilesOpened[Target] \o <<Torn>> /\ Torn \in Entry
          /\ FilesOpened[Target] \in Seq(Entry) /\ StartSize = Len(FilesOpened[Target])
      BY <1>2, <1>3, <2>3, EntryFields
    <3>2. /\ Len(files'[Target]) = StartSize + 1 /\ files'[Target][StartSize + 1] = Torn
          /\ \A i \in 1..StartSize : files'[Target][i] = FilesOpened[Target][i]
      BY <3>1
    <3> QED BY <2>1, <2>3, <3>2
  <2>4. CASE tail = <<NewRecord>>
    BY <1>2, <1>3, <2>4
  <2> QED BY <1>2, <2>1, <2>2, <2>3, <2>4
<1>5. /\ <<NewRecord>> # <<Torn>> /\ <<NewRecord>> # <<>> /\ <<Torn>> # <<>>
  BY <1>3
<1>6. ASSUME NEW i \in 1..Len(files'[Target])
      PROVE  \/ Target \in DOMAIN files /\ i \in 1..Len(files[Target]) /\ files'[Target][i] = files[Target][i]
             \/ i = Len(files'[Target]) /\ files'[Target][i] = Torn /\ CrashInAppend
             \/ i = Len(files'[Target]) /\ files'[Target][i] = NewRecord
                   /\ (AppendOk \/ CrashInAppend)
  <2>1. CASE i \in 1..StartSize
    <3>1. Target \in DOMAIN files
      BY <2>1, <1>3
    <3> QED BY <3>1, <2>1, <1>3, <1>4
  <2>2. CASE i \notin 1..StartSize
    <3>1. i = StartSize + 1 /\ Len(files'[Target]) = StartSize + 1 /\ tail # <<>>
      <4>1. CASE tail = <<>>
        BY <4>1, <2>2, <1>4, <1>5
      <4>2. CASE tail # <<>>
        BY <4>2, <2>2, <1>4
      <4> QED BY <4>1, <4>2
    <3>2. AppendOk \/ CrashInAppend
      BY <1>2, <3>1
    <3>3. CASE tail = <<Torn>>
      <4>1. CrashInAppend
        BY <3>2, <3>3, <1>2, <1>5
      <4> QED BY <4>1, <3>1, <3>3, <1>4, <1>5
    <3>4. CASE tail = <<NewRecord>>
      BY <3>1, <3>2, <3>4, <1>4, <1>5
    <3> QED BY <3>1, <3>3, <3>4, <1>2
  <2> QED BY <2>1, <2>2
<1>7. \A s \in StartsOpened : \A i \in 1..Len(files'[s]) :
         \/ s \in DOMAIN files /\ i \in 1..Len(files[s]) /\ files'[s][i] = files[s][i]
         \/ s = Target /\ i = Len(files'[s]) /\ files'[s][i] = Torn /\ CrashInAppend
         \/ s = Target /\ i = Len(files'[s]) /\ files'[s][i] = NewRecord
               /\ (AppendOk \/ CrashInAppend)
  BY <1>1, <1>3, <1>6
<1>8. ASSUME NEW s \in DOMAIN files, NEW i \in 1..Len(files[s])
      PROVE  i \in 1..Len(files'[s]) /\ files'[s][i] = files[s][i]
  <2>1. CASE s # Target
    BY <2>1, <1>1, <1>3
  <2>2. CASE s = Target
    <3>1. FilesOpened[s] = files[s] /\ i \in 1..StartSize
      BY <2>2, <1>3
    <3> QED BY <2>2, <3>1, <1>4
  <2> QED BY <2>1, <2>2
<1>9. AppendOk => Len(files'[Target]) = StartSize + 1 /\ files'[Target][StartSize + 1] = NewRecord
  BY <1>2, <1>4, <1>5
<1>10. ~CrashInAppend /\ ~AppendOk => Len(files'[Target]) = StartSize
  BY <1>2, <1>4, <1>5
<1> QED BY <1>1, <1>3, <1>7, <1>8, <1>9, <1>10

\* A write leaves a torn end only with a crash.
LEMMA WriteTorn ==
    ASSUME Base, Order, AppendOk \/ CrashInAppend \/ WriteFails \/ AppendSyncFails
    PROVE  TornAtEnd'
<1>1. ASSUME NEW s \in DOMAIN files', NEW i \in 1..Len(files'[s]), files'[s][i] = Torn
      PROVE  ~up' /\ i = Len(files'[s]) /\ \A t \in DOMAIN files' : t <= s
  <2>1. up /\ DOMAIN files' = StartsOpened /\ NewRecord # Torn
        /\ \A t \in StartsOpened : t <= Target
    BY WriteEntries, TargetIs, OpenedFacts DEF Base
  <2>2. ~(s \in DOMAIN files /\ i \in 1..Len(files[s]) /\ files'[s][i] = files[s][i])
    BY <1>1, <2>1 DEF Order, TornAtEnd
  <2>3. s = Target /\ i = Len(files'[s]) /\ CrashInAppend
    BY <1>1, <2>1, <2>2, WriteEntries
  <2>4. ~up'
    BY <2>3 DEF CrashInAppend, ProcessStops, Stops
  <2> QED BY <2>1, <2>3, <2>4
<1> QED BY <1>1 DEF TornAtEnd

\* What a write adds to the records on disk.
LEMMA WriteOnDisk ==
    ASSUME Base, Order, AppendOk \/ CrashInAppend \/ WriteFails \/ AppendSyncFails, TypeOK'
    PROVE  /\ OnDisk' = OnDisk \/ OnDisk' = OnDisk \cup {NewRecord}
           /\ AppendOk => OnDisk' = OnDisk \cup {NewRecord}
           /\ ~CrashInAppend /\ ~AppendOk => OnDisk' = OnDisk
           /\ \A s \in DOMAIN files : s \in DOMAIN files' /\ Scanned(files[s]) \subseteq Scanned(files'[s])
<1>1. TypeOK /\ TornAtEnd /\ TypeOK' /\ TornAtEnd'
  BY WriteTorn DEF Base, Order
<1>2. \A r : r \in OnDisk <=> \E s \in DOMAIN files : \E i \in 1..Len(files[s]) :
                                 r = files[s][i] /\ r # Torn
  BY <1>1, OnDiskEntries
<1>3. \A r : r \in OnDisk' <=> \E s \in DOMAIN files' : \E i \in 1..Len(files'[s]) :
                                  r = files'[s][i] /\ r # Torn
  BY <1>1, OnDiskEntriesNext
<1>4. /\ DOMAIN files' = StartsOpened /\ Target \in StartsOpened
      /\ \A s \in StartsOpened : \A i \in 1..Len(files'[s]) :
            \/ s \in DOMAIN files /\ i \in 1..Len(files[s]) /\ files'[s][i] = files[s][i]
            \/ files'[s][i] = Torn
            \/ files'[s][i] = NewRecord /\ (AppendOk \/ CrashInAppend)
      /\ \A s \in DOMAIN files : s \in StartsOpened /\ \A i \in 1..Len(files[s]) :
            i \in 1..Len(files'[s]) /\ files'[s][i] = files[s][i]
  BY WriteEntries
<1>5. OnDisk \subseteq OnDisk'
  BY <1>2, <1>3, <1>4
<1>6. OnDisk' \subseteq OnDisk \cup {NewRecord}
  BY <1>2, <1>3, <1>4
<1>7. ~CrashInAppend /\ ~AppendOk => OnDisk' \subseteq OnDisk
  BY <1>2, <1>3, <1>4
<1>8. AppendOk => NewRecord \in OnDisk'
  <2>1. SUFFICES ASSUME AppendOk PROVE NewRecord \in OnDisk'
    OBVIOUS
  <2>2. Len(files'[Target]) = StartSize + 1 /\ files'[Target][StartSize + 1] = NewRecord
    BY <2>1, WriteEntries
  <2>3. StartSize \in Nat /\ NewRecord # Torn
    BY <2>1, OpenedFacts DEF Base, AppendOk, Called
  <2>4. StartSize + 1 \in 1..Len(files'[Target])
    BY <2>2, <2>3
  <2> QED BY <2>2, <2>3, <2>4, <1>3, <1>4
<1>9. ASSUME NEW s \in DOMAIN files
      PROVE  s \in DOMAIN files' /\ Scanned(files[s]) \subseteq Scanned(files'[s])
  <2>1. \A r : r \in Scanned(files[s]) <=> \E i \in 1..Len(files[s]) : r = files[s][i] /\ r # Torn
    BY <1>1, OnDiskEntries
  <2>2. s \in DOMAIN files'
    BY <1>4
  <2>3. \A r : r \in Scanned(files'[s]) <=> \E i \in 1..Len(files'[s]) : r = files'[s][i] /\ r # Torn
    BY <1>1, <2>2, OnDiskEntriesNext
  <2> QED BY <2>1, <2>2, <2>3, <1>4
<1> QED BY <1>5, <1>6, <1>7, <1>8, <1>9

\* The variables of the calls that write.
LEMMA WriteFrame ==
    ASSUME AppendOk \/ CrashInAppend \/ WriteFails \/ AppendSyncFails
    PROVE  /\ UNCHANGED ckptFile
           /\ CrashInAppend => up' = FALSE /\ owed' = owed
           /\ ~CrashInAppend => /\ UNCHANGED <<up, checkpoint>> /\ segments' = SegmentsOpened
                                /\ active' = Target
           /\ AppendOk => /\ activeSize' = StartSize + 1 /\ nextSeq' = nextSeq + 1
                          /\ owed' = owed \cup {NewRecord} /\ UNCHANGED <<faults, losses>>
           /\ ~CrashInAppend /\ ~AppendOk => /\ activeSize' = StartSize /\ UNCHANGED <<nextSeq, owed, losses>>
                                             /\ faults' = faults + 1
           /\ CrashInAppend => UNCHANGED <<faults, losses>>
  BY DEF AppendOk, CrashInAppend, WriteFails, AppendSyncFails, Refuse, ProcessStops, Stops, bounds

\* A call that writes keeps the files in order.
LEMMA WriteStep ==
    ASSUME Base, Order, Base', AppendOk \/ CrashInAppend \/ WriteFails \/ AppendSyncFails
    PROVE  Order'
<1>1. /\ up /\ DOMAIN files' = StartsOpened /\ Target \in StartsOpened
      /\ \A s \in StartsOpened : \A i \in 1..Len(files'[s]) :
            \/ s \in DOMAIN files /\ i \in 1..Len(files[s]) /\ files'[s][i] = files[s][i]
            \/ s = Target /\ i = Len(files'[s]) /\ files'[s][i] = Torn /\ CrashInAppend
            \/ s = Target /\ i = Len(files'[s]) /\ files'[s][i] = NewRecord
                  /\ (AppendOk \/ CrashInAppend)
      /\ \A s \in DOMAIN files : s \in StartsOpened /\ \A i \in 1..Len(files[s]) :
            i \in 1..Len(files'[s]) /\ files'[s][i] = files[s][i]
  BY WriteEntries
<1>2. /\ NeedOpen => Target = nextSeq /\ \A s \in DOMAIN files : s < nextSeq
      /\ ~NeedOpen => active # NoSegment /\ Target = active /\ active \in DOMAIN files
      /\ Target <= nextSeq
      /\ \A s \in StartsOpened : s <= Target
      /\ \A s \in StartsOpened : s \in DOMAIN files \/ s = Target
      /\ \A s \in DOMAIN files : s # Target => s < Target
      /\ StartSize = Len(FilesOpened[Target])
  BY <1>1, TargetIs
<1>3. TornAtEnd'
  BY WriteTorn
<1>4. /\ TypeOK /\ TypeOK' /\ TornAtEnd /\ NextIsFree /\ Numbered /\ StartsFollow /\ RetiredSynced
      /\ ActiveIsLast /\ SegmentsListFiles /\ NoGap /\ AckedReplayable
  BY DEF Base, Order
<1>5. /\ OnDisk' = OnDisk \/ OnDisk' = OnDisk \cup {NewRecord}
      /\ AppendOk => OnDisk' = OnDisk \cup {NewRecord}
      /\ ~CrashInAppend /\ ~AppendOk => OnDisk' = OnDisk
      /\ \A s \in DOMAIN files : s \in DOMAIN files' /\ Scanned(files[s]) \subseteq Scanned(files'[s])
  BY <1>4, WriteOnDisk
<1>6. /\ nextSeq \in Nat \ {0} /\ ckptFile \in Nat /\ ckptFile <= checkpoint /\ checkpoint < nextSeq
      /\ checkpoint \in Nat
      /\ \A r \in OnDisk : r.seq \in Nat \ {0} /\ r.seq < nextSeq
      /\ nextSeq = ckptFile + 1 \/ \E r \in OnDisk : r.seq = nextSeq - 1
      /\ NewRecord.seq = nextSeq /\ NewRecord # Torn
  <2>1. /\ ckptFile <= checkpoint /\ checkpoint < nextSeq /\ \A r \in OnDisk : r.seq < nextSeq
        /\ nextSeq = ckptFile + 1 \/ \E r \in OnDisk : r.seq = nextSeq - 1
    BY <1>1, <1>4 DEF NextIsFree
  <2>2. /\ nextSeq \in Nat /\ ckptFile \in Nat /\ checkpoint \in Nat
        /\ \A r \in OnDisk : r.seq \in Nat \ {0}
    BY <1>4, OnDiskIs DEF TypeOK
  <2>3. NewRecord.seq = nextSeq /\ NewRecord # Torn
    BY <1>1, OpenedFacts DEF Base, NewRecord
  <2> QED BY <2>1, <2>2, <2>3
<1>7. RetiredSynced'
  <2>1. SUFFICES ASSUME faults' = 0
                 PROVE  /\ \A s, t \in DOMAIN files' : s < t => synced'[s] = Len(files'[s])
                        /\ up' /\ active' = NoSegment => DOMAIN files' = {}
    BY DEF RetiredSynced
  <2>2. faults = 0 /\ (AppendOk \/ CrashInAppend)
    <3>1. faults \in Nat
      BY <1>4 DEF TypeOK
    <3>2. ~CrashInAppend /\ ~AppendOk => faults' = faults + 1
      BY WriteFrame
    <3>3. CrashInAppend \/ AppendOk => faults' = faults
      BY WriteFrame
    <3> QED BY <2>1, <3>1, <3>2, <3>3
  <2>3. /\ \A s, t \in DOMAIN files : s < t => synced[s] = Len(files[s])
        /\ active = NoSegment => DOMAIN files = {}
    BY <2>2, <1>1, <1>4 DEF RetiredSynced
  <2>4. ASSUME NEW s \in DOMAIN files', NEW t \in DOMAIN files', s < t
        PROVE  synced'[s] = Len(files'[s])
    <3>1. s \in DOMAIN files /\ s # Target /\ t <= Target
      <4>1. s \in Nat /\ t \in Nat /\ Target \in Nat
        BY <1>1, <1>4 DEF TypeOK
      <4>2. t <= Target
        BY <1>1, <1>2
      <4> QED BY <4>1, <4>2, <2>4, <1>1, <1>2
    <3>2. files'[s] = files[s] /\ synced'[s] = SyncedOpened[s]
      BY <3>1, <1>1, WriteEffect
    <3>3. SyncedOpened[s] = IF NeedRotate /\ s = active THEN Len(files[s]) ELSE synced[s]
      BY <3>1, <1>1 DEF SyncedOpened, SyncedRotated
    <3>4. CASE NeedOpen
      <4>1. active # NoSegment
        BY <3>1, <2>3
      <4>2. NeedRotate /\ active \in DOMAIN files /\ \A u \in DOMAIN files : u <= active
        BY <4>1, <3>4, <1>1, <1>4 DEF ActiveIsLast, NeedOpen
      <4>3. s = active \/ s < active
        <5>1. s \in Nat /\ active \in Nat /\ s <= active
          BY <4>2, <3>1, <1>4 DEF TypeOK
        <5> QED BY <5>1
      <4> QED BY <4>2, <4>3, <3>1, <3>2, <3>3, <2>3
    <3>5. CASE ~NeedOpen
      <4>1. Target \in DOMAIN files /\ s < Target /\ ~NeedRotate
        BY <3>1, <3>5, <1>2 DEF NeedOpen
      <4> QED BY <4>1, <3>1, <3>2, <3>3, <2>3
    <3> QED BY <3>4, <3>5
  <2>5. up' => active' # NoSegment
    <3>1. Target # NoSegment
      BY <1>1, OpenedFacts DEF Base, NoSegment
    <3> QED BY <3>1, WriteFrame
  <2> QED BY <2>4, <2>5
<1>8. Numbered'
  <2>1. ASSUME NEW s \in DOMAIN files', NEW i \in 1..Len(files'[s]), files'[s][i] # Torn
        PROVE  /\ s <= files'[s][i].seq
               /\ \A j \in 1..Len(files'[s]) : j < i => files'[s][j].seq < files'[s][i].seq
               /\ \A t \in DOMAIN files' : s < t => files'[s][i].seq < t
    <3>1. CASE s \in DOMAIN files /\ i \in 1..Len(files[s]) /\ files'[s][i] = files[s][i]
      <4>1. /\ s <= files[s][i].seq
            /\ \A j \in 1..Len(files[s]) : j < i => files[s][j].seq < files[s][i].seq
            /\ \A t \in DOMAIN files : s < t => files[s][i].seq < t
        BY <2>1, <3>1, <1>4 DEF Numbered
      <4>2. ASSUME NEW j \in 1..Len(files'[s]), j < i PROVE j \in 1..Len(files[s]) /\ files'[s][j] = files[s][j]
        <5>1. files[s] \in Seq(Entry)
          BY <3>1, <1>4 DEF TypeOK
        <5>2. j \in 1..Len(files[s])
          BY <5>1, <4>2, <3>1
        <5> QED BY <5>2, <3>1, <1>1
      <4>3. files[s][i] \in OnDisk
        BY <3>1, <2>1, <1>4, OnDiskEntries
      <4>4. ASSUME NEW t \in DOMAIN files', s < t PROVE files[s][i].seq < t
        <5>1. CASE t \in DOMAIN files
          BY <5>1, <4>1, <4>4
        <5>2. CASE t \notin DOMAIN files
          <6>1. t = Target /\ NeedOpen /\ t = nextSeq
            BY <5>2, <1>1, <1>2
          <6> QED BY <6>1, <4>3, <1>6
        <5> QED BY <5>1, <5>2
      <4> QED BY <3>1, <4>1, <4>2, <4>4
    <3>2. CASE s = Target /\ i = Len(files'[s]) /\ files'[s][i] = NewRecord
      <4>1. s <= files'[s][i].seq
        BY <3>2, <1>2, <1>6
      <4>2. ASSUME NEW j \in 1..Len(files'[s]), j < i PROVE files'[s][j].seq < files'[s][i].seq
        <5>1. j # Len(files'[s])
          BY <3>2, <4>2
        <5>2. s \in DOMAIN files /\ j \in 1..Len(files[s]) /\ files'[s][j] = files[s][j]
          BY <5>1, <1>1
        <5>3. files'[s][j] # Torn
          BY <5>2, <1>1, <1>4 DEF TornAtEnd
        <5>4. files[s][j] \in OnDisk
          BY <5>2, <5>3, <1>4, OnDiskEntries
        <5> QED BY <5>2, <5>4, <3>2, <1>6
      <4>3. \A t \in DOMAIN files' : ~(s < t)
        <5>1. \A t \in DOMAIN files' : t \in Nat /\ t <= s
          BY <3>2, <1>1, <1>2, <1>4 DEF TypeOK
        <5>2. s \in Nat
          BY <1>4 DEF TypeOK
        <5> QED BY <5>1, <5>2
      <4> QED BY <4>1, <4>2, <4>3
    <3> QED BY <2>1, <3>1, <3>2, <1>1
  <2> QED BY <2>1 DEF Numbered
<1>9. StartsFollow'
  <2>1. ckptFile' = ckptFile
    BY WriteFrame
  <2>2. ASSUME NEW s \in DOMAIN files'
        PROVE  s <= ckptFile + 1 \/ \E t \in DOMAIN files' : t < s /\ \E r \in Scanned(files'[t]) : r.seq = s - 1
    <3>1. CASE s \in DOMAIN files
      BY <3>1, <1>4, <1>5 DEF StartsFollow
    <3>2. CASE s \notin DOMAIN files
      <4>1. s = nextSeq /\ \A t \in DOMAIN files : t < s
        BY <3>2, <1>1, <1>2
      <4>2. CASE nextSeq = ckptFile + 1
        BY <4>1, <4>2, <1>6
      <4>3. CASE \E r \in OnDisk : r.seq = nextSeq - 1
        BY <4>1, <4>3, <1>5 DEF OnDisk
      <4> QED BY <4>2, <4>3, <1>6
    <3> QED BY <3>1, <3>2
  <2> QED BY <2>1, <2>2 DEF StartsFollow
<1>10. ActiveIsLast'
  <2>1. SUFFICES ASSUME up'
                 PROVE  /\ active' # NoSegment /\ active' \in DOMAIN files'
                        /\ \A s \in DOMAIN files' : s <= active'
                        /\ activeSize' = Len(files'[active'])
    BY DEF ActiveIsLast
  <2>2. ~CrashInAppend /\ active' = Target
    BY <2>1, WriteFrame
  <2>3. Target # NoSegment
    BY <1>1, OpenedFacts DEF Base, NoSegment
  <2>4. activeSize' = Len(files'[Target])
    BY <2>2, WriteFrame, WriteEntries
  <2> QED BY <2>2, <2>3, <2>4, <1>1, <1>2
<1>11. SegmentsListFiles'
  <2>1. SUFFICES ASSUME up' PROVE /\ {segments'[i] : i \in 1..Len(segments')} = DOMAIN files'
                                  /\ \A i, j \in 1..Len(segments') : i < j => segments'[i] < segments'[j]
    BY DEF SegmentsListFiles
  <2>2. segments' = SegmentsOpened
    BY <2>1, WriteFrame
  <2>3. /\ {segments[i] : i \in 1..Len(segments)} = DOMAIN files
        /\ \A i, j \in 1..Len(segments) : i < j => segments[i] < segments[j]
        /\ segments \in Seq(Nat \ {0})
    BY <1>1, <1>4 DEF SegmentsListFiles, TypeOK
  <2>4. CASE ~NeedOpen
    BY <2>2, <2>3, <2>4, <1>1 DEF SegmentsOpened, StartsOpened
  <2>5. CASE NeedOpen
    <3>1. segments' = Append(segments, Target) /\ DOMAIN files' = DOMAIN files \cup {Target}
      BY <2>2, <2>5, <1>1 DEF SegmentsOpened, StartsOpened
    <3>2. /\ Len(segments') = Len(segments) + 1 /\ segments'[Len(segments) + 1] = Target
          /\ \A i \in 1..Len(segments) : segments'[i] = segments[i]
          /\ Len(segments) \in Nat
      BY <3>1, <2>3
    <3>3. \A i \in 1..Len(segments') : i \in 1..Len(segments) \/ i = Len(segments) + 1
      BY <3>2
    <3>4. {segments'[i] : i \in 1..Len(segments')} = DOMAIN files'
      <4>1. \A i \in 1..Len(segments) : i \in 1..Len(segments')
        BY <3>2
      <4>2. Len(segments) + 1 \in 1..Len(segments')
        BY <3>2
      <4> QED BY <3>1, <3>2, <3>3, <4>1, <4>2, <2>3
    <3>5. ASSUME NEW i \in 1..Len(segments'), NEW j \in 1..Len(segments'), i < j
          PROVE  segments'[i] < segments'[j]
      <4>1. i \in 1..Len(segments)
        BY <3>2, <3>5
      <4>2. segments[i] \in DOMAIN files /\ segments[i] < nextSeq /\ Target = nextSeq
        BY <4>1, <2>3, <2>5, <1>2
      <4> QED BY <4>1, <4>2, <3>2, <3>3, <3>5, <2>3
    <3> QED BY <3>4, <3>5
  <2> QED BY <2>4, <2>5
<1>12. NextIsFree'
  <2>1. SUFFICES ASSUME up'
                 PROVE  /\ ckptFile' <= checkpoint' /\ checkpoint' < nextSeq'
                        /\ \A r \in OnDisk' : r.seq < nextSeq'
                        /\ nextSeq' = ckptFile' + 1 \/ \E r \in OnDisk' : r.seq = nextSeq' - 1
    BY DEF NextIsFree
  <2>2. ~CrashInAppend /\ UNCHANGED <<ckptFile, checkpoint>>
    BY <2>1, WriteFrame
  <2>3. CASE AppendOk
    <3>1. nextSeq' = nextSeq + 1 /\ OnDisk' = OnDisk \cup {NewRecord}
      BY <2>3, <1>5, WriteFrame
    <3>2. \A r \in OnDisk' : r.seq < nextSeq'
      BY <3>1, <1>6
    <3>3. NewRecord \in OnDisk' /\ NewRecord.seq = nextSeq' - 1
      BY <3>1, <1>6
    <3> QED BY <2>2, <3>1, <3>2, <3>3, <1>6
  <2>4. CASE ~AppendOk
    <3>1. nextSeq' = nextSeq /\ OnDisk' = OnDisk
      BY <2>2, <2>4, <1>5, WriteFrame
    <3> QED BY <2>2, <3>1, <1>6
  <2> QED BY <2>3, <2>4
<1>13. NoGap'
  <2>1. ckptFile' = ckptFile
    BY WriteFrame
  <2>2. ASSUME NEW r \in OnDisk', NEW n \in (ckptFile + 1)..r.seq PROVE \E q \in OnDisk' : q.seq = n
    <3>1. CASE r \in OnDisk
      BY <3>1, <1>4, <1>5 DEF NoGap
    <3>2. CASE r \notin OnDisk
      <4>1. r = NewRecord /\ r.seq = nextSeq
        BY <3>2, <1>5, <1>6
      <4>2. CASE n = nextSeq
        BY <4>1, <4>2
      <4>3. CASE n # nextSeq
        <5>1. n \in (ckptFile + 1)..(nextSeq - 1)
          BY <4>1, <4>3, <1>6
        <5>2. PICK q \in OnDisk : q.seq = nextSeq - 1
          BY <5>1, <1>6
        <5> QED BY <5>1, <5>2, <1>4, <1>5 DEF NoGap
      <4> QED BY <4>2, <4>3
    <3> QED BY <3>1, <3>2
  <2> QED BY <2>1, <2>2 DEF NoGap
<1>14. AckedReplayable'
  <2>1. owed \subseteq {r \in OnDisk : r.seq > ckptFile}
    BY <1>4 DEF AckedReplayable, Replayable
  <2>2. ckptFile' = ckptFile /\ OnDisk \subseteq OnDisk'
    BY <1>5, WriteFrame
  <2>3. owed' \subseteq {r \in OnDisk' : r.seq > ckptFile}
    <3>1. CASE AppendOk
      <4>1. owed' = owed \cup {NewRecord} /\ NewRecord \in OnDisk' /\ NewRecord.seq > ckptFile
        BY <3>1, <1>5, <1>6, WriteFrame
      <4> QED BY <4>1, <2>1, <2>2
    <3>2. CASE ~AppendOk
      BY <3>2, <2>1, <2>2, WriteFrame
    <3> QED BY <3>1, <3>2
  <2> QED BY <2>2, <2>3 DEF AckedReplayable, Replayable
<1> QED BY <1>3, <1>7, <1>8, <1>9, <1>10, <1>11, <1>12, <1>13, <1>14 DEF Order

\* A step that writes no record keeps the numbers in order.
LEMMA NumberedStays ==
    ASSUME Base, Order, TypeOK', TornAtEnd', FilesStep, ~AppendOk, ~CrashInAppend,
           DOMAIN files' \subseteq DOMAIN files
    PROVE  Numbered'
<1>1. \A s \in DOMAIN files' : \A i \in 1..Len(files'[s]) :
         files'[s][i] # Torn => i \in 1..Len(files[s]) /\ files'[s][i] = files[s][i]
  BY DEF FilesStep
<1>2. ASSUME NEW s \in DOMAIN files', NEW i \in 1..Len(files'[s]), files'[s][i] # Torn
      PROVE  /\ s <= files'[s][i].seq
             /\ \A j \in 1..Len(files'[s]) : j < i => files'[s][j].seq < files'[s][i].seq
             /\ \A t \in DOMAIN files' : s < t => files'[s][i].seq < t
  <2>1. i \in 1..Len(files[s]) /\ files'[s][i] = files[s][i]
    BY <1>1, <1>2
  <2>2. /\ s <= files[s][i].seq
        /\ \A j \in 1..Len(files[s]) : j < i => files[s][j].seq < files[s][i].seq
        /\ \A t \in DOMAIN files : s < t => files[s][i].seq < t
    BY <1>2, <2>1 DEF Order, Numbered
  <2>3. ASSUME NEW j \in 1..Len(files'[s]), j < i
        PROVE  files'[s][j].seq < files'[s][i].seq
    <3>1. files'[s] \in Seq(Entry)
      BY DEF TypeOK
    <3>2. j # Len(files'[s])
      BY <2>3, <3>1
    <3>3. files'[s][j] # Torn
      BY <3>2 DEF TornAtEnd
    <3>4. j \in 1..Len(files[s]) /\ files'[s][j] = files[s][j]
      BY <3>3, <1>1
    <3> QED BY <3>4, <2>1, <2>2, <2>3
  <2> QED BY <2>1, <2>2, <2>3
<1> QED BY <1>2 DEF Numbered

\* A step that leaves every file and every number as it is.
LEMMA SameFilesStep ==
    ASSUME Base, Order, Base',
           \/ RotateFails \/ OpenSegmentFails \/ SyncActive \/ Crash \/ UNCHANGED vars
           \/ \E seq \in 1..(nextSeq - 1) : CheckpointFails(seq)
    PROVE  Order'
<1>1. /\ UNCHANGED <<files, ckptFile>>
      /\ UNCHANGED owed
      /\ up' = FALSE \/ (UNCHANGED <<up, nextSeq, segments>>)
      /\ OnDisk' = OnDisk
  <2>1. UNCHANGED files
    BY DEF RotateFails, OpenSegmentFails, SyncActive, Crash, CheckpointFails, vars, disk
  <2>2. OnDisk' = OnDisk
    BY <2>1 DEF OnDisk
  <2>3. UNCHANGED ckptFile /\ UNCHANGED owed
    BY DEF RotateFails, OpenSegmentFails, SyncActive, Crash, CheckpointFails, Refuse, vars, disk, hist
  <2>4. up' = FALSE \/ (UNCHANGED <<up, nextSeq, segments>>)
    BY DEF RotateFails, OpenSegmentFails, SyncActive, Crash, CheckpointFails, Refuse, vars, mem,
           ProcessStops, Stops
  <2> QED BY <2>1, <2>2, <2>3, <2>4
<1>2. Base /\ Base' /\ TypeOK /\ TypeOK'
  BY DEF Base
<1>3. up' => up
  BY <1>1, <1>2 DEF TypeOK
<1>4. TornAtEnd'
  BY <1>1, <1>3 DEF Order, TornAtEnd
<1>5. RetiredSynced'
  <2>1. SUFFICES ASSUME faults' = 0
                 PROVE  /\ \A s, t \in DOMAIN files' : s < t => synced'[s] = Len(files'[s])
                        /\ up' /\ active' = NoSegment => DOMAIN files' = {}
    BY DEF RetiredSynced
  <2>2. faults = 0 /\ (SyncActive \/ Crash \/ UNCHANGED vars)
    <3>1. faults \in Nat
      BY <1>2 DEF TypeOK
    <3>2. SyncActive \/ Crash \/ UNCHANGED vars
      BY <2>1, <3>1 DEF RotateFails, OpenSegmentFails, CheckpointFails, Refuse
    <3>3. faults' = faults
      BY <3>2 DEF SyncActive, Crash, vars, bounds, ProcessStops, Stops
    <3> QED BY <2>1, <3>2, <3>3
  <2>3. /\ \A s, t \in DOMAIN files : s < t => synced[s] = Len(files[s])
        /\ up /\ active = NoSegment => DOMAIN files = {}
    BY <2>2 DEF Order, RetiredSynced
  <2>4. \A s \in DOMAIN files : synced'[s] = synced[s] \/ synced'[s] = Len(files[s])
    BY <2>2, <1>2 DEF SyncActive, Crash, vars, disk, TypeOK
  <2>5. up' => active' = active
    BY <2>2 DEF SyncActive, Crash, vars, mem, ProcessStops, Stops
  <2> QED BY <2>3, <2>4, <2>5, <1>1, <1>3
<1>6. Numbered' /\ StartsFollow' /\ NoGap' /\ AckedReplayable'
  <2>1. Numbered' /\ StartsFollow'
    BY <1>1 DEF Order, Numbered, StartsFollow
  <2>2. NoGap' /\ AckedReplayable'
    BY <1>1 DEF Order, NoGap, AckedReplayable, Replayable
  <2> QED BY <2>1, <2>2
<1>7. ActiveIsLast'
  <2>1. SUFFICES ASSUME up'
                 PROVE  IF active' = NoSegment THEN \A s \in DOMAIN files : s < nextSeq'
                        ELSE /\ active' \in DOMAIN files
                             /\ \A s \in DOMAIN files : s <= active'
                             /\ activeSize' = Len(files[active'])
    BY <1>1 DEF ActiveIsLast
  <2>2. up /\ nextSeq' = nextSeq
    BY <2>1, <1>1, <1>3
  <2>3. CASE RotateFails \/ OpenSegmentFails
    <3>1. NeedOpen /\ active' = NoSegment
      BY <2>3 DEF RotateFails, OpenSegmentFails, NeedOpen
    <3> QED BY <3>1, <2>2, TargetIs
  <2>4. CASE ~(RotateFails \/ OpenSegmentFails)
    <3>1. UNCHANGED <<active, activeSize>>
      BY <2>1, <2>4 DEF SyncActive, Crash, CheckpointFails, vars, mem, ProcessStops, Stops
    <3> QED BY <3>1, <2>2 DEF Order, ActiveIsLast
  <2> QED BY <2>3, <2>4
<1>8. SegmentsListFiles'
  BY <1>1, <1>3 DEF Order, SegmentsListFiles
<1>9. NextIsFree'
  <2>1. SUFFICES ASSUME up'
                 PROVE  /\ ckptFile <= checkpoint' /\ checkpoint' < nextSeq
                        /\ \A r \in OnDisk : r.seq < nextSeq
                        /\ nextSeq = ckptFile + 1 \/ \E r \in OnDisk : r.seq = nextSeq - 1
    BY <1>1 DEF NextIsFree
  <2>2. /\ ckptFile <= checkpoint /\ checkpoint < nextSeq
        /\ \A r \in OnDisk : r.seq < nextSeq
        /\ nextSeq = ckptFile + 1 \/ \E r \in OnDisk : r.seq = nextSeq - 1
    BY <2>1, <1>3 DEF Order, NextIsFree
  <2>3. ckptFile \in Nat /\ checkpoint \in Nat /\ nextSeq \in Nat
    BY <1>2 DEF TypeOK
  <2>4. checkpoint' = checkpoint \/ (checkpoint < checkpoint' /\ checkpoint' \in 1..(nextSeq - 1))
    BY <2>1 DEF RotateFails, OpenSegmentFails, SyncActive, Crash, CheckpointFails, Refuse, vars, mem,
         ProcessStops, Stops, Advances
  <2> QED BY <2>2, <2>3, <2>4
<1> QED BY <1>4, <1>5, <1>6, <1>7, <1>8, <1>9 DEF Order

-----------------------------------------------------------------------------
(* Pruning. *)

\* A removed file is followed by one that begins at most just past the
\* checkpoint, so it holds nothing above it; the newest file stays.
LEMMA PruneEffect ==
    ASSUME Base, Order, NEW seq \in Nat, Advances(seq),
           NEW gone \in SUBSET Covered(seq), Remove(gone)
    PROVE  /\ DOMAIN files' \subseteq DOMAIN files
           /\ \A s \in DOMAIN files' : files'[s] = files[s] /\ synced'[s] = synced[s]
           /\ DOMAIN files' = DOMAIN files \ {segments[i] : i \in gone}
           /\ \A s \in DOMAIN files : s \notin DOMAIN files' =>
                 /\ \A r \in Scanned(files[s]) : r.seq <= seq
                 /\ \E t \in DOMAIN files : s < t
           /\ OnDisk' \subseteq OnDisk
           /\ \A r \in OnDisk : r.seq > seq => r \in OnDisk'
<1>1. /\ up /\ TypeOK /\ TornAtEnd /\ SegmentsListFiles /\ Numbered
      /\ segments \in Seq(Nat \ {0})
      /\ {segments[i] : i \in 1..Len(segments)} = DOMAIN files
      /\ \A i, j \in 1..Len(segments) : i < j => segments[i] < segments[j]
  BY DEF Advances, Base, Order, SegmentsListFiles, TypeOK
<1>2. /\ DOMAIN files' = DOMAIN files \ {segments[i] : i \in gone}
      /\ \A s \in DOMAIN files' : files'[s] = files[s] /\ synced'[s] = synced[s]
  BY DEF Remove
<1>3. ASSUME NEW s \in DOMAIN files, s \notin DOMAIN files'
      PROVE  /\ \A r \in Scanned(files[s]) : r.seq <= seq
             /\ \E t \in DOMAIN files : s < t
  <2>1. PICK i \in gone : s = segments[i]
    BY <1>2, <1>3
  <2>2. i \in 1..(Len(segments) - 1) /\ segments[i + 1] - 1 <= seq
    BY DEF Covered
  <2>3. i \in 1..Len(segments) /\ i + 1 \in 1..Len(segments) /\ i < i + 1
    BY <1>1, <2>2
  <2>4. s < segments[i + 1] /\ segments[i + 1] \in DOMAIN files /\ segments[i + 1] \in Nat
    BY <1>1, <2>1, <2>3
  <2>5. ASSUME NEW r \in Scanned(files[s]) PROVE r.seq <= seq
    <3>1. PICK j \in 1..Len(files[s]) : r = files[s][j] /\ r # Torn
      BY <1>1, OnDiskEntries
    <3>2. r.seq < segments[i + 1]
      BY <3>1, <2>4, <1>1 DEF Numbered
    <3>3. r.seq \in Nat
      BY <3>1, <1>1, EntryFields DEF TypeOK
    <3> QED BY <3>2, <3>3, <2>2, <2>4
  <2> QED BY <2>4, <2>5
<1>4. \A r : r \in OnDisk' <=> \E s \in DOMAIN files' : r \in Scanned(files[s])
  BY <1>2 DEF OnDisk
<1>5. \A r : r \in OnDisk <=> \E s \in DOMAIN files : r \in Scanned(files[s])
  BY DEF OnDisk
<1>6. \A r \in OnDisk : r.seq > seq => r \in OnDisk'
  <2>1. SUFFICES ASSUME NEW r \in OnDisk, r.seq > seq, r \notin OnDisk' PROVE FALSE
    OBVIOUS
  <2>2. PICK s \in DOMAIN files : r \in Scanned(files[s])
    BY <1>5
  <2>3. s \notin DOMAIN files'
    BY <1>4, <2>1, <2>2
  <2>4. r.seq <= seq /\ r.seq \in Nat
    BY <1>1, <1>3, <2>2, <2>3, OnDiskIs
  <2> QED BY <2>1, <2>4
<1>7. OnDisk' \subseteq OnDisk
  BY <1>2, <1>4, <1>5
<1> QED BY <1>2, <1>3, <1>6, <1>7

\* What SetCheckpoint changes, whether it returns or the process dies in it.
LEMMA PruneFrame ==
    ASSUME Base, NEW seq \in 1..(nextSeq - 1), SetCheckpoint(seq) \/ CrashInCheckpoint(seq)
    PROVE  /\ seq \in Nat /\ up /\ Advances(seq) /\ ckptFile' = seq
           /\ owed' = {r \in owed : r.seq > seq}
           /\ \E gone \in SUBSET Covered(seq) : Remove(gone) /\ (SetCheckpoint(seq) => gone = Covered(seq))
           /\ CrashInCheckpoint(seq) => up' = FALSE
           /\ SetCheckpoint(seq) => /\ UNCHANGED <<up, active, activeSize, nextSeq, faults>>
                                    /\ checkpoint' = seq
                                    /\ segments' = Without(segments, Covered(seq))
           /\ UNCHANGED faults
<1>1. seq \in Nat /\ up /\ Advances(seq)
  BY DEF SetCheckpoint, CrashInCheckpoint, Advances
<1>2. ckptFile' = seq /\ owed' = {r \in owed : r.seq > seq}
  BY DEF SetCheckpoint, CrashInCheckpoint, Settles
<1>3. CrashInCheckpoint(seq) => up' = FALSE /\ ~SetCheckpoint(seq) /\ UNCHANGED faults
  BY <1>1 DEF CrashInCheckpoint, SetCheckpoint, ProcessStops, Stops
<1>4. SetCheckpoint(seq) => /\ UNCHANGED <<up, active, activeSize, nextSeq, faults>>
                            /\ checkpoint' = seq
                            /\ segments' = Without(segments, Covered(seq))
  BY DEF SetCheckpoint, bounds
<1>5. \E gone \in SUBSET Covered(seq) : Remove(gone) /\ (SetCheckpoint(seq) => gone = Covered(seq))
  <2>1. CASE SetCheckpoint(seq)
    BY <2>1 DEF SetCheckpoint
  <2>2. CASE CrashInCheckpoint(seq)
    <3>1. \E n \in 0..Len(segments) : Remove({i \in Covered(seq) : i <= n})
      BY <2>2 DEF CrashInCheckpoint
    <3>2. ~SetCheckpoint(seq)
      BY <2>2, <1>3
    <3> QED BY <3>1, <3>2
  <2> QED BY <2>1, <2>2
<1> QED BY <1>1, <1>2, <1>3, <1>4, <1>5

\* A checkpoint keeps the rest in order.
LEMMA PruneStep ==
    ASSUME Base, Order, Base', FilesStep, NEW seq \in 1..(nextSeq - 1),
           SetCheckpoint(seq) \/ CrashInCheckpoint(seq)
    PROVE  Order'
<1>1. /\ seq \in Nat /\ up /\ Advances(seq) /\ ckptFile' = seq
      /\ owed' = {r \in owed : r.seq > seq}
  BY PruneFrame
<1>2. PICK gone \in SUBSET Covered(seq) : Remove(gone) /\ (SetCheckpoint(seq) => gone = Covered(seq))
  BY PruneFrame
<1>3. /\ DOMAIN files' \subseteq DOMAIN files
      /\ \A s \in DOMAIN files' : files'[s] = files[s] /\ synced'[s] = synced[s]
      /\ DOMAIN files' = DOMAIN files \ {segments[i] : i \in gone}
      /\ \A s \in DOMAIN files : s \notin DOMAIN files' =>
            /\ \A r \in Scanned(files[s]) : r.seq <= seq
            /\ \E t \in DOMAIN files : s < t
      /\ OnDisk' \subseteq OnDisk
      /\ \A r \in OnDisk : r.seq > seq => r \in OnDisk'
  BY <1>1, <1>2, PruneEffect
<1>4. /\ TypeOK /\ TypeOK' /\ TornAtEnd /\ NextIsFree /\ Numbered /\ StartsFollow /\ RetiredSynced
      /\ ActiveIsLast /\ SegmentsListFiles /\ NoGap /\ AckedReplayable
  BY DEF Base, Order
<1>5. /\ nextSeq \in Nat /\ ckptFile \in Nat /\ seq < nextSeq /\ ckptFile < seq
      /\ DOMAIN files \subseteq Nat
      /\ \A r \in OnDisk : r.seq \in Nat /\ r.seq < nextSeq
      /\ nextSeq = ckptFile + 1 \/ \E r \in OnDisk : r.seq = nextSeq - 1
  <2>1. /\ nextSeq \in Nat /\ ckptFile \in Nat /\ checkpoint \in Nat /\ DOMAIN files \subseteq Nat
        /\ \A r \in OnDisk : r.seq \in Nat
    BY <1>4, OnDiskIs DEF TypeOK
  <2>2. /\ seq > checkpoint /\ ckptFile <= checkpoint
        /\ \A r \in OnDisk : r.seq < nextSeq
        /\ nextSeq = ckptFile + 1 \/ \E r \in OnDisk : r.seq = nextSeq - 1
    BY <1>1, <1>4 DEF Advances, NextIsFree
  <2> QED BY <2>1, <2>2
<1>6. TornAtEnd'
  BY <1>1, <1>3, <1>4 DEF TornAtEnd
<1>7. RetiredSynced'
  <2>1. SetCheckpoint(seq) \/ up' = FALSE
    BY PruneFrame
  <2>2. faults' = faults /\ (SetCheckpoint(seq) => active' = active)
    BY PruneFrame
  <2> QED BY <2>1, <2>2, <1>1, <1>3, <1>4 DEF RetiredSynced
<1>8. Numbered'
  <2>1. ~AppendOk /\ ~CrashInAppend
    <3>1. AppendOk \/ CrashInAppend => ckptFile' = ckptFile
      BY WriteFrame
    <3>2. ckptFile' # ckptFile
      BY <1>1, <1>5
    <3> QED BY <3>1, <3>2
  <2> QED BY <2>1, <1>3, <1>4, <1>6, NumberedStays
<1>9. StartsFollow'
  <2>1. ASSUME NEW s \in DOMAIN files'
        PROVE  s <= seq + 1 \/ \E t \in DOMAIN files' : t < s /\ \E r \in Scanned(files'[t]) : r.seq = s - 1
    <3>1. s \in DOMAIN files /\ s \in Nat
      BY <1>3, <1>5
    <3>2. CASE s <= ckptFile + 1
      BY <3>1, <3>2, <1>1, <1>5
    <3>3. CASE ~(s <= ckptFile + 1)
      <4>1. PICK t \in DOMAIN files : t < s /\ \E r \in Scanned(files[t]) : r.seq = s - 1
        BY <3>1, <3>3, <1>4 DEF StartsFollow
      <4>2. PICK r \in Scanned(files[t]) : r.seq = s - 1
        BY <4>1
      <4>3. CASE t \in DOMAIN files'
        BY <4>1, <4>3, <1>3
      <4>4. CASE t \notin DOMAIN files'
        <5>1. r.seq <= seq
          BY <4>4, <1>3
        <5> QED BY <5>1, <4>2, <3>1, <1>1
      <4> QED BY <4>3, <4>4
    <3> QED BY <3>2, <3>3
  <2> QED BY <2>1, <1>1 DEF StartsFollow
<1>10. ActiveIsLast'
  <2>1. SUFFICES ASSUME up'
                 PROVE  IF active' = NoSegment
                        THEN \A s \in DOMAIN files' : s < nextSeq'
                        ELSE /\ active' \in DOMAIN files'
                             /\ \A s \in DOMAIN files' : s <= active'
                             /\ activeSize' = Len(files'[active'])
    BY DEF ActiveIsLast
  <2>2. UNCHANGED <<active, activeSize, nextSeq>>
    BY <2>1, PruneFrame
  <2>3. CASE active = NoSegment
    BY <2>2, <2>3, <1>1, <1>3, <1>4 DEF ActiveIsLast
  <2>4. CASE active # NoSegment
    <3>1. /\ active \in DOMAIN files
          /\ \A s \in DOMAIN files : s <= active
          /\ activeSize = Len(files[active])
      BY <2>4, <1>1, <1>4 DEF ActiveIsLast
    <3>2. ~ \E t \in DOMAIN files : active < t
      BY <3>1, <1>5
    <3>3. active \in DOMAIN files'
      BY <3>1, <3>2, <1>3
    <3> QED BY <2>2, <2>4, <3>1, <3>3, <1>3
  <2> QED BY <2>3, <2>4
<1>11. SegmentsListFiles'
  <2>1. SUFFICES ASSUME up' PROVE /\ {segments'[i] : i \in 1..Len(segments')} = DOMAIN files'
                                  /\ \A i, j \in 1..Len(segments') : i < j => segments'[i] < segments'[j]
    BY DEF SegmentsListFiles
  <2>2. SetCheckpoint(seq)
    BY <2>1, PruneFrame
  <2>3. segments' = Without(segments, gone)
    BY <2>2, <1>2, PruneFrame
  <2>4. /\ {segments[i] : i \in 1..Len(segments)} = DOMAIN files
        /\ \A i, j \in 1..Len(segments) : i < j => segments[i] < segments[j]
        /\ segments \in Seq(Nat \ {0})
    BY <1>1, <1>4 DEF SegmentsListFiles, TypeOK
  <2> DEFINE keep == (1..Len(segments)) \ gone
  <2>5. gone \in SUBSET (1..Len(segments))
    BY <2>4 DEF Covered
  <2>6. PICK q : /\ Lists(q, keep) /\ Len(segments') = Cardinality(keep)
                 /\ \A k \in 1..Len(segments') : segments'[k] = segments[q[k]]
    BY <2>3, <2>4, <2>5, WithoutKeepsOrder
  <2>7. keep \in SUBSET Nat /\ IsFiniteSet(keep)
    <3>1. IsFiniteSet(1..Len(segments))
      BY <2>4, FS_Interval
    <3> QED BY <3>1, FS_Subset
  <2>8. \A i \in keep : i \in 1..Len(segments) /\ i \notin gone
    OBVIOUS
  <2>9. \A i \in 1..Len(segments) : i \notin gone => i \in keep
    OBVIOUS
  <2> HIDE DEF keep
  <2>10. {q[k] : k \in 1..Cardinality(keep)} = keep
    BY <2>6, <2>7, ListIsOnto
  <2>11. /\ \A k \in 1..Cardinality(keep) : q[k] \in keep
         /\ \A i, j \in 1..Cardinality(keep) : i < j => q[i] < q[j]
    BY <2>6 DEF Lists
  <2>12. \A i, j \in 1..Len(segments') : i < j => segments'[i] < segments'[j]
    BY <2>4, <2>6, <2>8, <2>11
  <2>13. {segments'[i] : i \in 1..Len(segments')} = {segments[i] : i \in keep}
    BY <2>6, <2>10
  <2>14. \A i, j \in 1..Len(segments) : segments[i] = segments[j] => i = j
    <3>1. \A i, j \in 1..Len(segments) : i < j \/ i = j \/ j < i
      BY <2>4
    <3>2. \A i \in 1..Len(segments) : segments[i] \in Nat
      BY <2>4
    <3> QED BY <3>1, <3>2, <2>4
  <2>15. {segments[i] : i \in keep} = DOMAIN files \ {segments[i] : i \in gone}
    BY <2>4, <2>5, <2>8, <2>9, <2>14
  <2> QED BY <2>12, <2>13, <2>15, <1>3
<1>12. NextIsFree'
  <2>1. SUFFICES ASSUME up'
                 PROVE  /\ ckptFile' <= checkpoint' /\ checkpoint' < nextSeq'
                        /\ \A r \in OnDisk' : r.seq < nextSeq'
                        /\ nextSeq' = ckptFile' + 1 \/ \E r \in OnDisk' : r.seq = nextSeq' - 1
    BY DEF NextIsFree
  <2>2. nextSeq' = nextSeq /\ checkpoint' = seq
    BY <2>1, PruneFrame
  <2>3. nextSeq = seq + 1 \/ \E r \in OnDisk' : r.seq = nextSeq - 1
    <3>1. PICK r \in OnDisk : r.seq = nextSeq - 1
      BY <1>1, <1>5
    <3>2. CASE nextSeq - 1 = seq
      BY <3>2, <1>5
    <3>3. CASE nextSeq - 1 # seq
      <4>1. r.seq > seq
        BY <3>1, <3>3, <1>1, <1>5
      <4> QED BY <4>1, <3>1, <1>3
    <3> QED BY <3>2, <3>3
  <2> QED BY <2>2, <2>3, <1>1, <1>3, <1>5
<1>13. NoGap'
  <2>1. ASSUME NEW r \in OnDisk', NEW n \in (seq + 1)..r.seq PROVE \E q \in OnDisk' : q.seq = n
    <3>1. r \in OnDisk /\ n \in (ckptFile + 1)..r.seq /\ n > seq
      BY <1>1, <1>3, <1>5
    <3>2. PICK q \in OnDisk : q.seq = n
      BY <3>1, <1>4 DEF NoGap
    <3> QED BY <3>1, <3>2, <1>3
  <2> QED BY <2>1, <1>1 DEF NoGap
<1>14. AckedReplayable'
  <2>1. owed \subseteq OnDisk
    BY <1>4 DEF AckedReplayable, Replayable
  <2> QED BY <2>1, <1>1, <1>3 DEF AckedReplayable, Replayable
<1> QED BY <1>6, <1>7, <1>8, <1>9, <1>10, <1>11, <1>12, <1>13, <1>14 DEF Order

-----------------------------------------------------------------------------
(* Power losses and restarts. *)

\* A power loss that no I/O error preceded cuts only the newest file, and not
\* below what is synced.
LEMMA LossEffect ==
    ASSUME Base, Order, PowerLoss, faults = 0
    PROVE  /\ DOMAIN files' = DOMAIN files
           /\ \A s \in DOMAIN files : synced'[s] = Len(files'[s])
           /\ \A s \in DOMAIN files : \E n \in Nat :
                 /\ synced[s] <= n /\ n <= Len(files[s]) /\ n <= Len(files'[s])
                 /\ \/ n = Len(files[s]) /\ files'[s] = files[s]
                    \/ n < Len(files[s]) /\ \A t \in DOMAIN files : t <= s
                 /\ \A i \in 1..n : files'[s][i] = files[s][i]
                 /\ \A i \in 1..Len(files'[s]) : i > n => i = Len(files'[s]) /\ files'[s][i] = Torn
<1>1. /\ TypeOK /\ RetiredSynced
      /\ DOMAIN files' = DOMAIN files
      /\ \A s \in DOMAIN files : synced'[s] = Len(files'[s])
  BY LossCuts DEF Base, Order
<1>2. ASSUME NEW s \in DOMAIN files
      PROVE  \E n \in Nat :
                 /\ synced[s] <= n /\ n <= Len(files[s]) /\ n <= Len(files'[s])
                 /\ \/ n = Len(files[s]) /\ files'[s] = files[s]
                    \/ n < Len(files[s]) /\ \A t \in DOMAIN files : t <= s
                 /\ \A i \in 1..n : files'[s][i] = files[s][i]
                 /\ \A i \in 1..Len(files'[s]) : i > n => i = Len(files'[s]) /\ files'[s][i] = Torn
  <2>1. files[s] \in Seq(Entry) /\ synced[s] \in 0..Len(files[s]) /\ Len(files[s]) \in Nat
    BY <1>1 DEF TypeOK
  <2>2. CASE files'[s] = files[s]
    BY <2>1, <2>2
  <2>3. CASE files'[s] # files[s]
    <3>1. PICK n \in synced[s]..Len(files[s]) :
            /\ n < Len(files[s])
            /\ \/ files'[s] = SubSeq(files[s], 1, n)
               \/ files'[s] = Append(SubSeq(files[s], 1, n), Torn)
      BY <2>3, <1>1, LossCuts
    <3>2. n \in Nat /\ n \in 0..Len(files[s]) /\ synced[s] <= n
      BY <2>1, <3>1
    <3>3. \A t \in DOMAIN files : t <= s
      <4>1. synced[s] # Len(files[s])
        BY <2>1, <3>1, <3>2
      <4>2. \A t \in DOMAIN files : ~(s < t)
        BY <4>1, <1>1 DEF RetiredSynced
      <4>3. \A t \in DOMAIN files : t \in Nat /\ s \in Nat
        BY <1>1 DEF TypeOK
      <4> QED BY <4>2, <4>3
    <3> DEFINE f == SubSeq(files[s], 1, n)
    <3>4. f \in Seq(Entry) /\ Len(f) = n /\ \A i \in 1..n : f[i] = files[s][i]
      BY <2>1, <3>2, EntryPrefix
    <3> HIDE DEF f
    <3>5. /\ n <= Len(files'[s])
          /\ \A i \in 1..n : files'[s][i] = files[s][i]
          /\ \A i \in 1..Len(files'[s]) : i > n => i = Len(files'[s]) /\ files'[s][i] = Torn
      <4>1. CASE files'[s] = f
        BY <4>1, <3>2, <3>4
      <4>2. CASE files'[s] = Append(f, Torn)
        <5>1. /\ Len(files'[s]) = n + 1 /\ files'[s][n + 1] = Torn
              /\ \A i \in 1..n : files'[s][i] = f[i]
          BY <4>2, <3>4, EntryAppend, EntryFields
        <5> QED BY <5>1, <3>2, <3>4
      <4> QED BY <3>1, <4>1, <4>2 DEF f
    <3> QED BY <3>1, <3>2, <3>3, <3>5
  <2> QED BY <2>2, <2>3
<1> QED BY <1>1, <1>2

\* The torn end it can leave is the end of the newest file.
LEMMA LossTorn ==
    ASSUME Base, Order, Base', PowerLoss, faults = 0
    PROVE  TornAtEnd'
<1>1. up' = FALSE /\ DOMAIN files' = DOMAIN files
  BY LossEffect DEF PowerLoss, Stops
<1>2. ASSUME NEW s \in DOMAIN files, NEW i \in 1..Len(files'[s]), files'[s][i] = Torn
      PROVE  i = Len(files'[s]) /\ \A t \in DOMAIN files : t <= s
  <2>1. PICK n \in Nat :
           /\ n <= Len(files[s]) /\ n <= Len(files'[s])
           /\ \/ n = Len(files[s]) /\ files'[s] = files[s]
              \/ n < Len(files[s]) /\ \A t \in DOMAIN files : t <= s
           /\ \A j \in 1..n : files'[s][j] = files[s][j]
           /\ \A j \in 1..Len(files'[s]) : j > n => j = Len(files'[s]) /\ files'[s][j] = Torn
    BY LossEffect
  <2>2. files[s] \in Seq(Entry) /\ files'[s] \in Seq(Entry)
    BY <1>1 DEF Base, TypeOK
  <2>3. \A j \in 1..Len(files[s]) : files[s][j] = Torn =>
           j = Len(files[s]) /\ \A t \in DOMAIN files : t <= s
    BY DEF Order, TornAtEnd
  <2>4. CASE n = Len(files[s]) /\ files'[s] = files[s]
    BY <1>2, <2>3, <2>4
  <2>5. CASE n < Len(files[s]) /\ \A t \in DOMAIN files : t <= s
    <3>1. Len(files[s]) \in Nat
      BY <2>2
    <3>2. i > n
      <4>1. SUFFICES ASSUME i <= n PROVE FALSE
        BY <2>1
      <4>2. i \in 1..n /\ i \in 1..Len(files[s]) /\ i # Len(files[s])
        BY <4>1, <2>5, <3>1
      <4> QED BY <4>2, <1>2, <2>1, <2>3
    <3> QED BY <3>2, <2>1, <2>5
  <2> QED BY <2>1, <2>4, <2>5
<1> QED BY <1>1, <1>2 DEF TornAtEnd

\* What is on disk afterwards is a beginning of what was, with all that is stable.
LEMMA LossOnDisk ==
    ASSUME Base, Order, Base', PowerLoss, faults = 0
    PROVE  /\ OnDisk' \subseteq OnDisk
           /\ Stable \subseteq OnDisk'
           /\ \A r \in OnDisk', q \in OnDisk : q.seq < r.seq => q \in OnDisk'
<1>1. TornAtEnd' /\ TypeOK /\ TypeOK' /\ TornAtEnd /\ Numbered /\ DOMAIN files' = DOMAIN files
  BY LossTorn, LossEffect DEF Base, Order
<1>2. \A r : r \in OnDisk <=> \E s \in DOMAIN files : \E i \in 1..Len(files[s]) :
                                 r = files[s][i] /\ r # Torn
  BY <1>1, OnDiskEntries
<1>3. \A r : r \in OnDisk' <=> \E s \in DOMAIN files : \E i \in 1..Len(files'[s]) :
                                  r = files'[s][i] /\ r # Torn
  BY <1>1, OnDiskEntriesNext
<1>4. \A s \in DOMAIN files : \E n \in Nat :
         /\ synced[s] <= n /\ n <= Len(files[s]) /\ n <= Len(files'[s])
         /\ \/ n = Len(files[s]) /\ files'[s] = files[s]
            \/ n < Len(files[s]) /\ \A t \in DOMAIN files : t <= s
         /\ \A i \in 1..n : files'[s][i] = files[s][i]
         /\ \A i \in 1..Len(files'[s]) : i > n => i = Len(files'[s]) /\ files'[s][i] = Torn
  BY LossEffect
<1>5. \A s \in DOMAIN files : Len(files[s]) \in Nat /\ Len(files'[s]) \in Nat /\ s \in Nat
                              /\ synced[s] \in Nat
  <2>1. ASSUME NEW s \in DOMAIN files
        PROVE  Len(files[s]) \in Nat /\ s \in Nat /\ synced[s] \in Nat
    <3>1. files[s] \in Seq(Entry) /\ s \in Nat
      BY <1>1 DEF TypeOK
    <3>2. synced[s] \in Nat
      BY <1>1 DEF TypeOK
    <3> QED BY <3>1, <3>2
  <2>2. ASSUME NEW s \in DOMAIN files PROVE files'[s] \in Seq(Entry)
    <3>1. s \in DOMAIN files'
      BY <1>1
    <3> QED BY <3>1, <1>1 DEF TypeOK
  <2>3. \A s \in DOMAIN files : Len(files'[s]) \in Nat
    BY <2>2
  <2> QED BY <2>1, <2>3
<1>6. ASSUME NEW r \in OnDisk'
      PROVE  \E s \in DOMAIN files : \E i \in 1..Len(files[s]) :
                i \in 1..Len(files'[s]) /\ r = files[s][i] /\ r = files'[s][i] /\ r # Torn
  <2>1. PICK s \in DOMAIN files : \E i \in 1..Len(files'[s]) : r = files'[s][i] /\ r # Torn
    BY <1>3
  <2>2. PICK i \in 1..Len(files'[s]) : r = files'[s][i] /\ r # Torn
    BY <2>1
  <2>3. PICK n \in Nat :
           /\ n <= Len(files[s])
           /\ \A j \in 1..n : files'[s][j] = files[s][j]
           /\ \A j \in 1..Len(files'[s]) : j > n => files'[s][j] = Torn
    BY <1>4
  <2>4. i \in 1..n
    BY <2>2, <2>3, <1>5
  <2>5. i \in 1..Len(files[s])
    BY <2>3, <2>4, <1>5
  <2> QED BY <2>2, <2>3, <2>4, <2>5
<1>7. OnDisk' \subseteq OnDisk
  BY <1>2, <1>6
<1>8. ASSUME NEW r \in Stable PROVE r \in OnDisk'
  <2>1. PICK s \in DOMAIN files : \E i \in 1..synced[s] : r = files[s][i] /\ ValidTo(files[s], i)
    BY DEF Stable
  <2>2. PICK i \in 1..synced[s] : r = files[s][i] /\ ValidTo(files[s], i)
    BY <2>1
  <2>3. r # Torn
    <3>1. i \in 1..i
      BY <1>5
    <3> QED BY <3>1, <2>2 DEF ValidTo
  <2>4. PICK n \in Nat :
           /\ synced[s] <= n /\ n <= Len(files'[s])
           /\ \A j \in 1..n : files'[s][j] = files[s][j]
    BY <1>4
  <2>5. i \in 1..n /\ i \in 1..Len(files'[s])
    BY <2>4, <1>5
  <2> QED BY <2>2, <2>3, <2>4, <2>5, <1>3
<1>9. ASSUME NEW r \in OnDisk', NEW q \in OnDisk, q.seq < r.seq PROVE q \in OnDisk'
  <2>1. PICK s \in DOMAIN files : \E i \in 1..Len(files[s]) :
           i \in 1..Len(files'[s]) /\ r = files[s][i] /\ r = files'[s][i] /\ r # Torn
    BY <1>6
  <2>2. PICK i \in 1..Len(files[s]) : i \in 1..Len(files'[s]) /\ r = files[s][i] /\ r = files'[s][i] /\ r # Torn
    BY <2>1
  <2>3. PICK t \in DOMAIN files : \E j \in 1..Len(files[t]) : q = files[t][j] /\ q # Torn
    BY <1>2
  <2>4. PICK j \in 1..Len(files[t]) : q = files[t][j] /\ q # Torn
    BY <2>3
  <2>5. q.seq \in Nat /\ r.seq \in Nat /\ s \in Nat /\ t \in Nat /\ i \in Nat /\ j \in Nat
    <3>1. r \in OnDisk /\ \A x \in OnDisk : x.seq \in Nat
      BY <1>1, <1>7, OnDiskIs
    <3>2. q.seq \in Nat /\ r.seq \in Nat
      BY <3>1
    <3> QED BY <3>2, <1>5
  <2>6. PICK n \in Nat :
         /\ n <= Len(files[t]) /\ n <= Len(files'[t])
         /\ \/ n = Len(files[t]) /\ files'[t] = files[t]
            \/ n < Len(files[t]) /\ \A u \in DOMAIN files : u <= t
         /\ \A k \in 1..n : files'[t][k] = files[t][k]
         /\ \A k \in 1..Len(files'[t]) : k > n => files'[t][k] = Torn
    BY <1>4
  <2>7. CASE files'[t] = files[t]
    BY <2>4, <2>7, <1>3
  <2>8. CASE \A u \in DOMAIN files : u <= t
    <3>1. s = t
      <4>1. s <= t
        BY <2>8
      <4>2. s < t => r.seq < t
        BY <2>2, <1>1 DEF Numbered
      <4>3. t <= q.seq
        BY <2>4, <1>1 DEF Numbered
      <4> QED BY <4>1, <4>2, <4>3, <1>9, <2>5
    <3>2. i \in 1..n
      BY <3>1, <2>2, <2>5, <2>6
    <3>3. ~(i < j) /\ i # j
      <4>1. i < j => r.seq < q.seq
        BY <3>1, <2>2, <2>4, <1>1 DEF Numbered
      <4>2. i = j => r = q
        BY <3>1, <2>2, <2>4
      <4> QED BY <4>1, <4>2, <1>9, <2>5
    <3>4. j \in 1..n /\ j \in 1..Len(files'[t])
      BY <3>2, <3>3, <2>4, <2>5, <2>6, <1>5
    <3> QED BY <3>4, <2>4, <2>6, <1>3
  <2> QED BY <2>6, <2>7, <2>8
<1> QED BY <1>7, <1>8, <1>9

\* A power loss keeps the files in order.
LEMMA LossStep ==
    ASSUME Base, Order, Base', FilesStep, PowerLoss, faults = 0, ~CkptLossy
    PROVE  Order'
<1>1. /\ up' = FALSE /\ ckptFile' = ckptFile /\ owed' = owed \cap Stable
      /\ faults' = faults
  BY DEF PowerLoss, Stops
<1>2. /\ DOMAIN files' = DOMAIN files
      /\ \A s \in DOMAIN files : synced'[s] = Len(files'[s])
      /\ \A s \in DOMAIN files : files'[s] = files[s] \/ \A t \in DOMAIN files : t <= s
  BY LossEffect
<1>3. /\ OnDisk' \subseteq OnDisk
      /\ Stable \subseteq OnDisk'
      /\ \A r \in OnDisk', q \in OnDisk : q.seq < r.seq => q \in OnDisk'
  BY LossOnDisk
<1>4. /\ TypeOK /\ TypeOK' /\ StartsFollow /\ NoGap /\ AckedReplayable
  BY DEF Base, Order
<1>5. TornAtEnd'
  BY LossTorn
<1>6. RetiredSynced'
  BY <1>1, <1>2 DEF RetiredSynced
<1>7. Numbered'
  <2>1. ~AppendOk
    <3>1. AppendOk => up /\ up' = up
      BY DEF AppendOk, Called
    <3> QED BY <3>1, <1>1
  <2>2. ~CrashInAppend
    <3>1. CrashInAppend => appends' = appends + 1
      BY DEF CrashInAppend, Called, Payload
    <3>2. appends' = appends /\ appends \in Nat
      BY <1>4 DEF PowerLoss, TypeOK
    <3> QED BY <3>1, <3>2
  <2> QED BY <2>1, <2>2, <1>2, <1>4, <1>5, NumberedStays
<1>8. StartsFollow'
  <2>1. ASSUME NEW s \in DOMAIN files
        PROVE  s <= ckptFile + 1 \/ \E t \in DOMAIN files : t < s /\ \E r \in Scanned(files'[t]) : r.seq = s - 1
    <3>1. CASE s <= ckptFile + 1
      BY <3>1
    <3>2. CASE ~(s <= ckptFile + 1)
      <4>1. PICK t \in DOMAIN files : t < s /\ \E r \in Scanned(files[t]) : r.seq = s - 1
        BY <3>2, <1>4 DEF StartsFollow
      <4>2. s \in Nat /\ t \in Nat
        BY <1>4 DEF TypeOK
      <4>3. files'[t] = files[t]
        BY <4>1, <4>2, <1>2
      <4> QED BY <4>1, <4>3
    <3> QED BY <3>1, <3>2
  <2> QED BY <2>1, <1>1, <1>2 DEF StartsFollow
<1>9. ActiveIsLast' /\ SegmentsListFiles' /\ NextIsFree'
  BY <1>1 DEF ActiveIsLast, SegmentsListFiles, NextIsFree
<1>10. NoGap'
  <2>1. ASSUME NEW r \in OnDisk', NEW n \in (ckptFile + 1)..r.seq PROVE \E q \in OnDisk' : q.seq = n
    <3>1. r \in OnDisk /\ r.seq \in Nat /\ ckptFile \in Nat
      BY <1>3, <1>4, OnDiskIs DEF TypeOK
    <3>2. PICK q \in OnDisk : q.seq = n
      BY <3>1, <1>4 DEF NoGap
    <3>3. CASE n = r.seq
      BY <3>3
    <3>4. CASE n # r.seq
      BY <3>1, <3>2, <3>4, <1>3
    <3> QED BY <3>3, <3>4
  <2> QED BY <2>1, <1>1 DEF NoGap
<1>11. AckedReplayable'
  BY <1>1, <1>3, <1>4 DEF AckedReplayable, Replayable
<1> QED BY <1>5, <1>6, <1>7, <1>8, <1>9, <1>10, <1>11 DEF Order

\* Open takes the torn end away and leaves every record where it was.
LEMMA OpenEffect ==
    ASSUME Base, Order, Open
    PROVE  /\ DOMAIN files' = DOMAIN files
           /\ \A s \in DOMAIN files :
                 /\ \A i \in 1..Len(files'[s]) : files'[s][i] # Torn
                 /\ Scanned(files'[s]) = Scanned(files[s])
           /\ OnDisk' = OnDisk
           /\ \A s \in DOMAIN files : (\E t \in DOMAIN files : s < t) =>
                 files'[s] = files[s] /\ synced'[s] = synced[s]
           /\ DOMAIN files # {} => /\ active' \in DOMAIN files /\ \A s \in DOMAIN files : s <= active'
                                   /\ activeSize' = Len(files'[active'])
           /\ DOMAIN files = {} => active' = NoSegment
<1>1. /\ TypeOK /\ FilesFinite /\ TornAtEnd /\ DOMAIN files' = DOMAIN files
      /\ \A s \in DOMAIN files : s # LastSegment => files'[s] = files[s] /\ synced'[s] = synced[s]
      /\ \A s \in DOMAIN files : files[s] \in Seq(Entry) /\ s \in Nat
      /\ DOMAIN files = {} => active' = NoSegment
  BY OpenCuts DEF Base, Order, TypeOK
<1> DEFINE L == LastSegment
           end == ScanEnd(files[L])
<1>2. ASSUME NEW s \in DOMAIN files
      PROVE  /\ L \in DOMAIN files /\ \A t \in DOMAIN files : t <= L
             /\ end \in 0..Len(files[L]) /\ ValidTo(files[L], end)
             /\ end = Len(files[L]) \/ files[L][end + 1] = Torn
             /\ active' = L /\ activeSize' = end
             /\ files'[L] = SubSeq(files[L], 1, end)
  BY <1>1, OpenCuts DEF Base
<1>3. \A s \in DOMAIN files : \A r :
         r \in Scanned(files[s]) <=> \E i \in 1..Len(files[s]) : r = files[s][i] /\ r # Torn
  BY <1>1, OnDiskEntries
<1>4. ASSUME NEW s \in DOMAIN files
      PROVE  /\ files'[s] \in Seq(Entry)
             /\ \A i \in 1..Len(files'[s]) : files'[s][i] # Torn
             /\ Scanned(files'[s]) = Scanned(files[s])
  <2>1. CASE s # L
    <3>1. files'[s] = files[s]
      BY <1>1, <2>1
    <3>2. \A i \in 1..Len(files[s]) : files[s][i] # Torn
      <4>1. ~(L <= s)
        BY <1>1, <1>2, <2>1
      <4> QED BY <4>1, <1>1, <1>2 DEF TornAtEnd
    <3> QED BY <3>1, <3>2, <1>1
  <2>2. CASE s = L
    <3>1. /\ end \in 0..Len(files[s]) /\ ValidTo(files[s], end)
          /\ end = Len(files[s]) \/ files[s][end + 1] = Torn
          /\ files'[s] = SubSeq(files[s], 1, end) /\ files[s] \in Seq(Entry)
      BY <1>1, <1>2, <2>2
    <3> HIDE DEF end, L
    <3>2. /\ files'[s] \in Seq(Entry) /\ Len(files'[s]) = end
          /\ \A i \in 1..end : files'[s][i] = files[s][i] /\ i \in 1..Len(files[s])
      BY <3>1, EntryPrefix
    <3>3. \A i \in 1..Len(files'[s]) : files'[s][i] # Torn
      BY <3>1, <3>2 DEF ValidTo
    <3>4. ASSUME NEW i \in 1..Len(files[s]), files[s][i] # Torn PROVE i \in 1..end
      <4>1. CASE end = Len(files[s])
        BY <4>1
      <4>2. CASE end # Len(files[s])
        <5>1. end + 1 \in 1..Len(files[s]) /\ files[s][end + 1] = Torn
          BY <4>2, <3>1
        <5>2. end + 1 = Len(files[s])
          BY <5>1, <1>1 DEF TornAtEnd
        <5>3. i # end + 1
          BY <5>1, <3>4
        <5> QED BY <5>2, <5>3, <3>1
      <4> QED BY <4>1, <4>2
    <3>5. \A r : r \in Scanned(files'[s]) <=> \E i \in 1..Len(files'[s]) : r = files'[s][i] /\ r # Torn
      BY <3>2, <3>3, ScannedMembers
    <3>6. \A r : r \in Scanned(files[s]) <=> \E i \in 1..Len(files[s]) : r = files[s][i] /\ r # Torn
      BY <1>3
    <3>7. \A r : r \in Scanned(files'[s]) <=> r \in Scanned(files[s])
      BY <3>2, <3>4, <3>5, <3>6
    <3> QED BY <3>2, <3>3, <3>7
  <2> QED BY <2>1, <2>2
<1>5. OnDisk' = OnDisk
  <2>1. \A r : r \in OnDisk' <=> \E s \in DOMAIN files : r \in Scanned(files'[s])
    BY <1>1 DEF OnDisk
  <2>2. \A r : r \in OnDisk <=> \E s \in DOMAIN files : r \in Scanned(files[s])
    BY DEF OnDisk
  <2>3. \A r : r \in OnDisk' <=> r \in OnDisk
    BY <2>1, <2>2, <1>4
  <2> QED BY <2>3
<1>6. ASSUME NEW s \in DOMAIN files, NEW t \in DOMAIN files, s < t
      PROVE  files'[s] = files[s] /\ synced'[s] = synced[s]
  <2>1. s # L
    BY <1>1, <1>2, <1>6
  <2> QED BY <2>1, <1>1
<1>7. ASSUME DOMAIN files # {}
      PROVE  /\ active' \in DOMAIN files /\ \A s \in DOMAIN files : s <= active'
             /\ activeSize' = Len(files'[active'])
  <2>1. /\ L \in DOMAIN files /\ \A t \in DOMAIN files : t <= L
        /\ end \in 0..Len(files[L]) /\ active' = L /\ activeSize' = end
        /\ files'[L] = SubSeq(files[L], 1, end) /\ files[L] \in Seq(Entry)
    BY <1>1, <1>2, <1>7
  <2> HIDE DEF end, L
  <2>2. Len(files'[L]) = end
    BY <2>1, EntryPrefix
  <2> QED BY <2>1, <2>2
<1> QED BY <1>1, <1>4, <1>5, <1>6, <1>7

\* Open resumes in order.
LEMMA OpenStep ==
    ASSUME Base, Order, Base', FilesStep, Open
    PROVE  Order'
<1>1. /\ DOMAIN files' = DOMAIN files
      /\ \A s \in DOMAIN files :
            /\ \A i \in 1..Len(files'[s]) : files'[s][i] # Torn
            /\ Scanned(files'[s]) = Scanned(files[s])
      /\ OnDisk' = OnDisk
      /\ \A s \in DOMAIN files : (\E t \in DOMAIN files : s < t) =>
            files'[s] = files[s] /\ synced'[s] = synced[s]
      /\ DOMAIN files # {} => /\ active' \in DOMAIN files /\ \A s \in DOMAIN files : s <= active'
                              /\ activeSize' = Len(files'[active'])
      /\ DOMAIN files = {} => active' = NoSegment
  BY OpenEffect
<1>2. /\ UNCHANGED <<ckptFile, owed, faults, appends>> /\ up' = TRUE
      /\ segments' = Sorted(DOMAIN files) /\ checkpoint' = ckptFile /\ nextSeq' = NextNumber
  BY DEF Open, hist, bounds
<1>3. /\ TypeOK /\ TypeOK' /\ RetiredSynced /\ StartsFollow /\ NoGap /\ AckedReplayable
      /\ HandleBacked /\ PayloadsAccounted /\ DOMAIN files \subseteq Nat \ {0}
      /\ IsFiniteSet(DOMAIN files)
  BY DEF Base, Order, TypeOK, FilesFinite
<1>4. TornAtEnd'
  BY <1>1 DEF TornAtEnd
<1>5. RetiredSynced'
  BY <1>1, <1>2, <1>3 DEF RetiredSynced, NoSegment
<1>6. Numbered'
  <2>1. ~AppendOk /\ ~CrashInAppend
    <3>1. AppendOk \/ CrashInAppend => appends' = appends + 1
      BY DEF AppendOk, CrashInAppend, Called, Payload
    <3>2. appends \in Nat
      BY <1>3 DEF TypeOK
    <3> QED BY <3>1, <3>2, <1>2
  <2> QED BY <2>1, <1>1, <1>3, <1>4, NumberedStays
<1>7. StartsFollow'
  BY <1>1, <1>2, <1>3 DEF StartsFollow
<1>8. NextNumber > ckptFile /\ (\A r \in OnDisk : r.seq < NextNumber)
      /\ (NextNumber = ckptFile + 1 \/ \E r \in OnDisk : r.seq = NextNumber - 1)
  BY <1>3, NextNumberIs
<1>9. ActiveIsLast'
  <2>1. CASE DOMAIN files = {}
    BY <2>1, <1>1 DEF ActiveIsLast
  <2>2. CASE DOMAIN files # {}
    <3>1. active' # NoSegment
      BY <2>2, <1>1, <1>3 DEF NoSegment
    <3> QED BY <2>2, <3>1, <1>1 DEF ActiveIsLast
  <2> QED BY <2>1, <2>2
<1>10. SegmentsListFiles'
  <2> DEFINE S == DOMAIN files
             n == Cardinality(S)
  <2>1. S \in SUBSET Nat /\ IsFiniteSet(S)
    BY <1>3
  <2> HIDE DEF S
  <2>2. Lists(Sorted(S), S) /\ Len(Sorted(S)) = n
    BY <2>1, SortedLists
  <2>3. {Sorted(S)[i] : i \in 1..n} = S
    BY <2>1, <2>2, ListIsOnto
  <2>4. \A i, j \in 1..n : i < j => Sorted(S)[i] < Sorted(S)[j]
    BY <2>2 DEF Lists
  <2>5. segments' = Sorted(S) /\ DOMAIN files' = S
    BY <1>1, <1>2 DEF S
  <2> HIDE DEF n
  <2> QED BY <2>2, <2>3, <2>4, <2>5 DEF SegmentsListFiles
<1>11. NextIsFree'
  <2>1. ckptFile <= ckptFile /\ ckptFile < NextNumber
    BY <1>3, <1>8, NextNumberIs DEF TypeOK
  <2> QED BY <2>1, <1>1, <1>2, <1>8 DEF NextIsFree
<1>12. NoGap' /\ AckedReplayable'
  BY <1>1, <1>2, <1>3 DEF NoGap, AckedReplayable, Replayable
<1> QED BY <1>4, <1>5, <1>6, <1>7, <1>9, <1>10, <1>11, <1>12 DEF Order

-----------------------------------------------------------------------------
(* The theorems. *)

\* The log starts empty.
LEMMA InitInv == Init => Inv
<1>1. SUFFICES ASSUME Init PROVE Inv
  OBVIOUS
<1>2. DOMAIN files = {} /\ OnDisk = {}
  BY <1>1 DEF Init, OnDisk
<1>3. TypeOK
  <2>1. DOMAIN synced = {} /\ segments \in Seq(Nat \ {0})
    BY <1>1 DEF Init
  <2> QED BY <1>1, <1>2, <2>1 DEF Init, TypeOK, NoSegment
<1>4. FilesFinite
  BY <1>2, FS_EmptySet DEF FilesFinite
<1>5. HandleBacked /\ PayloadsAccounted
  BY <1>1, <1>2 DEF Init, HandleBacked, PayloadsAccounted
<1>6. TornAtEnd /\ RetiredSynced /\ Numbered /\ StartsFollow
  BY <1>2 DEF TornAtEnd, RetiredSynced, Numbered, StartsFollow
<1>7. ActiveIsLast /\ SegmentsListFiles /\ NextIsFree
  BY <1>1 DEF Init, ActiveIsLast, SegmentsListFiles, NextIsFree
<1>8. NoGap /\ AckedReplayable
  BY <1>1, <1>2 DEF Init, NoGap, AckedReplayable
<1> QED BY <1>3, <1>4, <1>5, <1>6, <1>7, <1>8 DEF Inv

\* Faults and losses are counted and never taken back.
LEMMA SoundBefore ==
    ASSUME TypeOK, [Next]_vars
    PROVE  Sound' => Sound /\ (PowerLoss => faults = 0)
<1>1. faults \in Nat /\ losses \in Nat
  BY DEF TypeOK
<1>2. UNCHANGED faults \/ faults' = faults + 1
  BY DEF Next, vars, bounds, Open, AppendOk, RotateFails, OpenSegmentFails, WriteFails,
         AppendSyncFails, Refuse, SyncActive, SetCheckpoint, CheckpointFails,
         CrashInCheckpoint, Crash, CrashInAppend, PowerLoss, ProcessStops, Stops
<1>3. UNCHANGED losses \/ losses' = losses + 1
  BY DEF Next, vars, bounds, Open, AppendOk, RotateFails, OpenSegmentFails, WriteFails,
         AppendSyncFails, Refuse, SyncActive, SetCheckpoint, CheckpointFails,
         CrashInCheckpoint, Crash, CrashInAppend, PowerLoss, ProcessStops
<1>4. PowerLoss => losses' = losses + 1 /\ faults' = faults
  BY DEF PowerLoss, Stops
<1> QED BY <1>1, <1>2, <1>3, <1>4 DEF Sound

\* Every step keeps the order.
LEMMA OrderStep ==
    ASSUME Base, Order, Base', [Next]_vars, Sound'
    PROVE  Order'
<1>1. FilesStep /\ ~CkptLossy /\ (PowerLoss => faults = 0)
  BY FilesStepAlways, SoundBefore DEF Base, Sound
<1>2. CASE AppendOk \/ CrashInAppend \/ WriteFails \/ AppendSyncFails
  BY <1>2, WriteStep
<1>3. CASE RotateFails \/ OpenSegmentFails \/ SyncActive \/ Crash \/ UNCHANGED vars
           \/ \E seq \in 1..(nextSeq - 1) : CheckpointFails(seq)
  BY <1>3, SameFilesStep
<1>4. ASSUME NEW seq \in 1..(nextSeq - 1), SetCheckpoint(seq) \/ CrashInCheckpoint(seq)
      PROVE  Order'
  BY <1>1, <1>4, PruneStep
<1>5. CASE PowerLoss
  BY <1>1, <1>5, LossStep
<1>6. CASE Open
  BY <1>1, <1>6, OpenStep
<1> QED BY <1>2, <1>3, <1>4, <1>5, <1>6 DEF Next

\* The inductive invariant.
LEMMA InvIs == Inv <=> Base /\ (Sound => Order)
  BY DEF Inv, Base, Order

\* Every step keeps the invariant.
LEMMA NextInv ==
    ASSUME Inv, [Next]_vars
    PROVE  Inv'
<1>1. Base /\ (Sound => Order)
  BY InvIs
<1>2. TypeOK' /\ FilesFinite' /\ HandleBacked' /\ PayloadsAccounted'
  <2>1. TypeOK' /\ HandleBacked' /\ PayloadsAccounted'
    BY <1>1, TypeStep, HandleStep, PayloadsStep DEF Base
  <2>2. FilesFinite'
    BY <1>1, FilesStepAlways DEF Base, FilesStep, FilesFinite
  <2> QED BY <2>1, <2>2
<1>3. Base'
  BY <1>2 DEF Base
<1>4. Sound' => Order'
  BY <1>1, <1>3, SoundBefore, OrderStep DEF Base
<1> QED BY <1>3, <1>4 DEF Inv, Base, Order

\* For every segment size and every number of calls, crashes, power losses and
\* I/O errors, the log stays within Inv.
THEOREM Invariance == Spec => []Inv
<1>1. Init => Inv
  BY InitInv
<1>2. Inv /\ [Next]_vars => Inv'
  BY NextInv
<1> QED BY <1>1, <1>2, PTL DEF Spec

-----------------------------------------------------------------------------
(* The log its callers see. *)

\* In the files, a record is stable when it lies below the synced length.
StableIs ==
    \A r : r \in Stable <=> \E s \in DOMAIN files : \E i \in 1..Len(files[s]) :
                               i <= synced[s] /\ r = files[s][i] /\ r # Torn

\* It follows from torn records being at the end alone.
LEMMA StableEntries == TypeOK /\ TornAtEnd => StableIs
<1>1. SUFFICES ASSUME TypeOK, TornAtEnd PROVE StableIs
  OBVIOUS
<1>2. ASSUME NEW s \in DOMAIN files, NEW i \in 1..Len(files[s])
      PROVE  ValidTo(files[s], i) <=> files[s][i] # Torn
  <2>1. i \in 1..i /\ \A j \in 1..i : j \in 1..Len(files[s]) /\ (j = Len(files[s]) => j = i)
    BY <1>1 DEF TypeOK
  <2>2. files[s][i] # Torn => \A j \in 1..i : files[s][j] # Torn
    BY <2>1, <1>1 DEF TornAtEnd
  <2> QED BY <2>1, <2>2 DEF ValidTo
<1>3. \A s \in DOMAIN files : \A i : i \in 1..synced[s] <=> i \in 1..Len(files[s]) /\ i <= synced[s]
  BY <1>1 DEF TypeOK
<1>4. \A r : r \in Stable <=> \E s \in DOMAIN files : \E i \in 1..synced[s] :
                                 r = files[s][i] /\ ValidTo(files[s], i)
  BY DEF Stable
<1> QED BY <1>2, <1>3, <1>4 DEF StableIs

\* The records a power loss could take.
Unstable == Replayable(ckptFile) \ Stable

\* What Log's variables are in a state whose files are in order.
LogView ==
    /\ ckptFile \in Nat /\ LastRecord \in Nat /\ ckptFile <= LastRecord
    /\ up => nextSeq = LastRecord + 1
    /\ Stable \subseteq OnDisk
    /\ \A r \in OnDisk : r.seq \in Nat \ {0} /\ r.val \in 1..appends /\ r.seq <= LastRecord
    /\ \A s \in (ckptFile + 1)..LastRecord : \E r \in OnDisk : r.seq = s
    /\ \A r \in OnDisk : PayloadAt(r.seq) = r.val
    /\ StableTo \in ckptFile..LastRecord
    /\ \A r \in Unstable : StableTo < r.seq
    /\ StableTo < LastRecord => \E r \in Unstable : r.seq = StableTo + 1

\* No number is used twice.
LEMMA NumbersUnique ==
    ASSUME Base, Order, NEW r \in OnDisk, NEW q \in OnDisk, r.seq = q.seq
    PROVE  r = q
<1>1. TypeOK /\ TornAtEnd /\ Numbered
  BY DEF Base, Order
<1>2. PICK s \in DOMAIN files : \E i \in 1..Len(files[s]) : r = files[s][i] /\ r # Torn
  BY <1>1, OnDiskEntries
<1>3. PICK i \in 1..Len(files[s]) : r = files[s][i] /\ r # Torn
  BY <1>2
<1>4. PICK t \in DOMAIN files : \E j \in 1..Len(files[t]) : q = files[t][j] /\ q # Torn
  BY <1>1, OnDiskEntries
<1>5. PICK j \in 1..Len(files[t]) : q = files[t][j] /\ q # Torn
  BY <1>4
<1>6. r.seq \in Nat /\ q.seq \in Nat /\ s \in Nat /\ t \in Nat /\ i \in Nat /\ j \in Nat
  <2>1. \A x \in OnDisk : x.seq \in Nat
    BY <1>1, OnDiskIs
  <2>2. s \in Nat /\ t \in Nat
    BY <1>1 DEF TypeOK
  <2> QED BY <2>1, <2>2
<1>7. (s < t => r.seq < t) /\ t <= q.seq /\ (t < s => q.seq < s) /\ s <= r.seq
  BY <1>1, <1>3, <1>5 DEF Numbered
<1>8. s = t
  BY <1>6, <1>7
<1>9. (i < j => r.seq < q.seq) /\ (j < i => q.seq < r.seq)
  BY <1>1, <1>3, <1>5, <1>8 DEF Numbered
<1>10. i = j
  BY <1>6, <1>9
<1> QED BY <1>3, <1>5, <1>8, <1>10

\* The view follows from the invariant.
LEMMA ViewHolds == Base /\ Order => LogView
<1>1. SUFFICES ASSUME Base, Order PROVE LogView
  OBVIOUS
<1>2. /\ TypeOK /\ TornAtEnd /\ PayloadsAccounted /\ NextIsFree /\ NoGap
      /\ ckptFile \in Nat /\ nextSeq \in Nat /\ checkpoint \in Nat /\ appends \in Nat
  BY <1>1 DEF Base, Order, TypeOK
<1>3. /\ HighestSeq \in Nat /\ \A r \in OnDisk : r.seq <= HighestSeq
      /\ HighestSeq > 0 => \E r \in OnDisk : r.seq = HighestSeq
  BY <1>2, HighestIs
<1>4. LastRecord \in Nat /\ ckptFile <= LastRecord /\ HighestSeq <= LastRecord
      /\ LastRecord \in {ckptFile, HighestSeq}
  BY <1>2, <1>3 DEF LastRecord
<1>5. \A r \in OnDisk : r \in Record /\ r.seq \in Nat \ {0}
  BY <1>2, OnDiskIs
<1>6. ASSUME NEW r \in OnDisk
      PROVE  r.seq \in Nat \ {0} /\ r.val \in 1..appends /\ r.seq <= LastRecord
  <2>1. r.val \in Nat \ {0}
    BY <1>5 DEF Record
  <2>2. r.val <= appends
    BY <1>2, OnDiskIs DEF PayloadsAccounted
  <2> QED BY <2>1, <2>2, <1>2, <1>3, <1>4, <1>5
<1>7. up => nextSeq = LastRecord + 1
  <2>1. SUFFICES ASSUME up PROVE nextSeq = LastRecord + 1
    OBVIOUS
  <2>2. /\ ckptFile < nextSeq /\ \A r \in OnDisk : r.seq < nextSeq
        /\ nextSeq = ckptFile + 1 \/ \E r \in OnDisk : r.seq = nextSeq - 1
    BY <2>1, <1>2 DEF NextIsFree
  <2>3. HighestSeq < nextSeq
    BY <2>2, <1>2, <1>3
  <2>4. LastRecord < nextSeq
    BY <2>2, <2>3, <1>4
  <2>5. LastRecord >= nextSeq - 1
    BY <2>2, <1>2, <1>4, <1>6
  <2> QED BY <2>4, <2>5, <1>2, <1>4
<1>8. Stable \subseteq OnDisk
  <2>1. StableIs
    BY <1>2, StableEntries
  <2>2. \A r : r \in OnDisk <=> \E s \in DOMAIN files : \E i \in 1..Len(files[s]) :
                                 r = files[s][i] /\ r # Torn
    BY <1>2, OnDiskEntries
  <2> QED BY <2>1, <2>2 DEF StableIs
<1>9. ASSUME NEW s \in (ckptFile + 1)..LastRecord PROVE \E r \in OnDisk : r.seq = s
  <2>1. LastRecord = HighestSeq /\ HighestSeq > 0
    BY <1>2, <1>4
  <2>2. PICK r \in OnDisk : r.seq = LastRecord
    BY <2>1, <1>3
  <2> QED BY <2>2, <1>2 DEF NoGap
<1>10. ASSUME NEW r \in OnDisk PROVE PayloadAt(r.seq) = r.val
  <2> DEFINE q == CHOOSE q \in OnDisk : q.seq = r.seq
  <2>1. q \in OnDisk /\ q.seq = r.seq
    OBVIOUS
  <2> HIDE DEF q
  <2>2. q = r
    BY <2>1, <1>1, NumbersUnique
  <2> QED BY <2>2 DEF PayloadAt, q
<1> DEFINE U == Replayable(ckptFile) \ Stable
           P(n) == (\A r \in U : n < r.seq) /\ (n < LastRecord => \E r \in U : r.seq = n + 1)
<1>11. \A r \in U : r \in OnDisk /\ r.seq > ckptFile
  BY DEF Replayable
<1>12. \E n \in ckptFile..LastRecord : P(n)
  <2> HIDE DEF U
  <2>1. CASE U = {}
    <3>1. LastRecord \in ckptFile..LastRecord /\ P(LastRecord)
      BY <2>1, <1>2, <1>4
    <3> QED BY <3>1
  <2>2. CASE U # {}
    <3> DEFINE S == {r.seq : r \in U}
    <3>1. S \in SUBSET Nat /\ S # {}
      BY <2>2, <1>5, <1>11
    <3> HIDE DEF S
    <3>2. PICK m \in S : \A x \in S : m <= x
      BY <3>1, Least
    <3>3. PICK r \in U : r.seq = m
      BY DEF S
    <3>4. \A q \in U : m <= q.seq /\ q.seq \in Nat
      BY <3>2, <1>5, <1>11 DEF S
    <3>5. m \in Nat /\ m > ckptFile /\ m <= LastRecord
      BY <3>3, <1>6, <1>11
    <3>6. m - 1 \in ckptFile..LastRecord
      BY <3>5, <1>2, <1>4
    <3>7. P(m - 1)
      BY <3>3, <3>4, <3>5
    <3> QED BY <3>6, <3>7
  <2> QED BY <2>1, <2>2
<1>13. StableTo \in ckptFile..LastRecord /\ P(StableTo)
  <2>1. StableTo = CHOOSE n \in ckptFile..LastRecord : P(n)
    BY DEF StableTo
  <2> HIDE DEF P
  <2> QED BY <2>1, <1>12
<1> QED BY <1>2, <1>4, <1>6, <1>7, <1>8, <1>9, <1>10, <1>13 DEF LogView, Unstable

\* The same after a step.
LEMMA StableEntriesNext == TypeOK' /\ TornAtEnd' => StableIs'
  BY StableEntries, PTL

\* The view after a step.
LEMMA ViewHoldsNext == Base' /\ Order' => LogView'
  BY ViewHolds, PTL

\* Appending, rotating and syncing only add to what is stable.
LEMMA SyncedGrows ==
    ASSUME Base, Order,
           \/ AppendOk \/ CrashInAppend \/ WriteFails \/ AppendSyncFails
           \/ RotateFails \/ OpenSegmentFails \/ SyncActive
    PROVE  \A s \in DOMAIN files : synced[s] <= synced'[s]
<1>1. ASSUME NEW s \in DOMAIN files
      PROVE  /\ files[s] \in Seq(Entry) /\ synced[s] \in Nat /\ synced[s] <= Len(files[s])
             /\ Len(files[s]) \in Nat
             /\ SyncedRotated[s] = synced[s] \/ SyncedRotated[s] = Len(files[s])
  BY DEF Base, TypeOK, SyncedRotated
<1>2. \A s \in DOMAIN files : synced[s] <= SyncedRotated[s]
  BY <1>1
<1>3. CASE AppendOk \/ CrashInAppend \/ WriteFails \/ AppendSyncFails
  <2>1. up /\ DOMAIN files \subseteq StartsOpened /\ \A s \in DOMAIN files : FilesOpened[s] = files[s]
    <3>1. up
      BY <1>3, WriteEffect
    <3> QED BY <3>1, OpenedFacts DEF Base
  <2>2. \A s \in DOMAIN files : SyncedOpened[s] = SyncedRotated[s]
    BY <2>1 DEF SyncedOpened
  <2>3. CASE AppendOk \/ CrashInAppend
    <3>1. \A s \in StartsOpened : \/ synced'[s] = SyncedOpened[s]
                                  \/ AppendOk /\ s = Target /\ synced'[s] = Len(FilesOpened[s]) + 1
      BY <2>3, WrittenTo DEF Base
    <3>2. ASSUME NEW s \in DOMAIN files PROVE synced[s] <= synced'[s]
      <4>1. synced'[s] = SyncedRotated[s] \/ synced'[s] = Len(files[s]) + 1
        BY <2>1, <2>2, <3>1
      <4> QED BY <4>1, <1>1
    <3> QED BY <3>2
  <2>4. CASE WriteFails \/ AppendSyncFails
    <3>1. /\ StartSize = Len(FilesOpened[Target])
          /\ \A s \in StartsOpened : synced'[s] = IF s = Target THEN LoweredTo(SyncedOpened[s], StartSize)
                                                  ELSE SyncedOpened[s]
      BY <2>1, <2>4, TargetIs, RolledBack DEF Base
    <3>2. ASSUME NEW s \in DOMAIN files PROVE synced[s] <= synced'[s]
      <4>1. s = Target => StartSize = Len(files[s])
        BY <2>1, <3>1
      <4>2. synced'[s] = SyncedRotated[s] \/ synced'[s] = Len(files[s])
        BY <2>1, <2>2, <3>1, <4>1 DEF LoweredTo
      <4> QED BY <4>2, <1>1
    <3> QED BY <3>2
  <2> QED BY <1>3, <2>3, <2>4
<1>4. CASE RotateFails \/ OpenSegmentFails \/ SyncActive
  <2>1. ASSUME NEW s \in DOMAIN files
        PROVE  synced'[s] \in {synced[s], SyncedRotated[s], Len(files[s])}
    <3>1. CASE RotateFails \/ OpenSegmentFails
      <4>1. synced' = synced \/ synced' = SyncedRotated
        BY <3>1 DEF RotateFails, OpenSegmentFails
      <4> QED BY <4>1
    <3>2. CASE SyncActive
      <4>1. synced' = [synced EXCEPT ![active] = Len(files[active])] /\ s \in DOMAIN synced
        BY <3>2 DEF SyncActive, Base, TypeOK
      <4> QED BY <4>1
    <3> QED BY <1>4, <3>1, <3>2
  <2> QED BY <2>1, <1>1
<1> QED BY <1>3, <1>4

\* The same for the records.
LEMMA StableGrows ==
    ASSUME Base, Order, Base', Order',
           \/ AppendOk \/ CrashInAppend \/ WriteFails \/ AppendSyncFails
           \/ RotateFails \/ OpenSegmentFails \/ SyncActive
    PROVE  Stable \subseteq Stable'
<1>1. StableIs /\ StableIs'
  BY StableEntries, StableEntriesNext DEF Base, Order
<1>2. \A s \in DOMAIN files : s \in DOMAIN files' /\ \A i \in 1..Len(files[s]) :
         i \in 1..Len(files'[s]) /\ files'[s][i] = files[s][i]
  <2>1. CASE AppendOk \/ CrashInAppend \/ WriteFails \/ AppendSyncFails
    BY <2>1, WriteEntries
  <2>2. CASE RotateFails \/ OpenSegmentFails \/ SyncActive
    BY <2>2 DEF RotateFails, OpenSegmentFails, SyncActive
  <2> QED BY <2>1, <2>2
<1>3. ASSUME NEW s \in DOMAIN files, NEW i \in 1..Len(files[s]), i <= synced[s]
      PROVE  i <= synced'[s]
  <2>1. synced[s] <= synced'[s]
    <3>1. \A u \in DOMAIN files : synced[u] <= synced'[u]
      BY SyncedGrows
    <3> QED BY <3>1
  <2>2. synced[s] \in Nat /\ synced'[s] \in Nat
    <3>1. synced[s] \in Nat
      BY DEF Base, TypeOK
    <3>2. s \in DOMAIN files'
      BY <1>2
    <3>3. synced'[s] \in Nat
      BY <3>2 DEF Base, TypeOK
    <3> QED BY <3>1, <3>3
  <2> QED BY <1>3, <2>1, <2>2
<1> QED BY <1>1, <1>2, <1>3 DEF StableIs

\* What is stable never ends earlier, as long as nothing stable is lost.
LEMMA StableToGrows ==
    ASSUME LogView, LogView', LastRecord <= LastRecord',
           \A r \in Unstable' :
              r \in Unstable \/ r.seq > LastRecord
    PROVE  StableTo <= StableTo'
<1>1. /\ LastRecord \in Nat /\ StableTo \in Nat /\ StableTo <= LastRecord
      /\ \A r \in Unstable : StableTo < r.seq
  BY DEF LogView
<1>2. /\ LastRecord' \in Nat /\ StableTo' \in Nat /\ StableTo' <= LastRecord'
      /\ StableTo' < LastRecord' => \E r \in Unstable' : r.seq = StableTo' + 1
  BY DEF LogView
<1>3. CASE StableTo' = LastRecord'
  BY <1>1, <1>2, <1>3
<1>4. CASE StableTo' < LastRecord'
  <2>1. PICK n \in Nat : n = StableTo'
    BY <1>2
  <2>2. PICK r \in Unstable' : r.seq = n + 1
    BY <1>2, <1>4, <2>1
  <2>3. r \in Unstable \/ r.seq > LastRecord
    BY <2>2
  <2>4. StableTo <= n
    BY <2>2, <2>3, <1>1
  <2> QED BY <2>1, <2>4
<1> QED BY <1>2, <1>3, <1>4

-----------------------------------------------------------------------------
(* The properties that the runs check.                                       *)

\* The calls, the errors and the losses stay within their bounds.
Bounded ==
    /\ appends <= MaxAppends
    /\ faults <= MaxFaults
    /\ losses <= MaxLosses

\* Each action that counts is guarded by its bound.
LEMMA NextBounded ==
    ASSUME TypeOK, Bounded, [Next]_vars
    PROVE  Bounded'
<1> USE WalAssumption DEF Bounded, TypeOK
<1>1. UNCHANGED appends \/ (appends < MaxAppends /\ appends' = appends + 1)
  BY DEF Next, vars, hist, Open, AppendOk, RotateFails, OpenSegmentFails, WriteFails,
         AppendSyncFails, Called, Payload, SyncActive, SetCheckpoint, CheckpointFails,
         CrashInCheckpoint, Crash, CrashInAppend, PowerLoss
<1>2. UNCHANGED faults \/ (faults < MaxFaults /\ faults' = faults + 1)
  BY DEF Next, vars, bounds, Open, AppendOk, RotateFails, OpenSegmentFails, WriteFails,
         AppendSyncFails, Refuse, SyncActive, SetCheckpoint, CheckpointFails,
         CrashInCheckpoint, Crash, CrashInAppend, PowerLoss, ProcessStops, Stops
<1>3. UNCHANGED losses \/ (losses < MaxLosses /\ losses' = losses + 1)
  BY DEF Next, vars, bounds, Open, AppendOk, RotateFails, OpenSegmentFails, WriteFails,
         AppendSyncFails, Refuse, SyncActive, SetCheckpoint, CheckpointFails,
         CrashInCheckpoint, Crash, CrashInAppend, PowerLoss, ProcessStops
<1> QED BY <1>1, <1>2, <1>3

\* The bounds hold in every state.
LEMMA BoundsKept == Spec => []Bounded
<1>1. Init => Bounded
  BY WalAssumption DEF Init, Bounded
<1>2. Inv /\ Bounded /\ [Next]_vars => Bounded'
  BY NextBounded DEF Inv
<1> QED BY <1>1, <1>2, Invariance, PTL DEF Spec

\* The failures the strong promises are about: the checkpoint file keeps what
\* was renamed into place, and I/O errors and power losses do not meet.
SoundOptions == ~CkptLossy /\ (MaxFaults = 0 \/ MaxLosses = 0)

\* Under them the log stays in order.
LEMMA OrderKept ==
    ASSUME SoundOptions
    PROVE  Spec => [](Base /\ Order)
<1>1. Inv /\ Bounded => Base /\ Order
  <2>1. SUFFICES ASSUME Inv, Bounded PROVE Base /\ Order
    OBVIOUS
  <2>2. Base /\ (Sound => Order)
    BY <2>1, InvIs
  <2>3. faults \in Nat /\ losses \in Nat
    BY <2>2 DEF Base, TypeOK
  <2>4. Sound
    BY <2>1, <2>3 DEF SoundOptions, Bounded, Sound
  <2> QED BY <2>2, <2>4
<1> QED BY <1>1, Invariance, BoundsKept, PTL

\* The variables keep their types, synced lengths stay within their files.
THEOREM TypeCorrect == Spec => []TypeOK
<1>1. Inv => TypeOK
  BY DEF Inv
<1> QED BY <1>1, Invariance, PTL

\* Whatever fails, a payload whose Append returned an error is in no record
\* that a later Replay delivers: the rollbacks of Append leave none of it.
THEOREM RefusalIsFinal == Spec => []RefusedNotReplayed
<1>1. Inv => RefusedNotReplayed
  <2>1. SUFFICES ASSUME Inv, NEW r \in OnDisk PROVE r.val \notin refused
    BY DEF RefusedNotReplayed
  <2>2. TypeOK /\ PayloadsAccounted
    BY <2>1 DEF Inv
  <2>3. PICK s \in DOMAIN files : \E i \in 1..Len(files[s]) : r = files[s][i]
    BY <2>1, <2>2, OnDiskIs
  <2> QED BY <2>2, <2>3 DEF PayloadsAccounted
<1> QED BY <1>1, Invariance, PTL

\* A record whose Append returned nil is replayed until a checkpoint covers it,
\* through any rotation, pruning, crash, restart and renumbering.
THEOREM AckedIsReplayable ==
    ASSUME SoundOptions
    PROVE  Spec => []AckedReplayable
<1>1. Order => AckedReplayable
  BY DEF Order
<1> QED BY <1>1, OrderKept, PTL

\* Replay, which walks w.segments, delivers numbers that only grow.
THEOREM ReplayOrder ==
    ASSUME SoundOptions
    PROVE  Spec => []ReplayInOrder
<1>1. Base /\ Order => ReplayInOrder
  <2>1. SUFFICES ASSUME Base, Order, up PROVE ReplayInOrder
    BY DEF ReplayInOrder
  <2>2. /\ TypeOK /\ TornAtEnd /\ Numbered /\ SegmentsListFiles
        /\ {segments[i] : i \in 1..Len(segments)} = DOMAIN files
        /\ \A i, j \in 1..Len(segments) : i < j => segments[i] < segments[j]
        /\ \A s \in DOMAIN files : \A i \in 1..Len(files[s]) : files[s][i] # Torn
    BY <2>1 DEF Base, Order, SegmentsListFiles, TornAtEnd
  <2>3. ASSUME NEW s \in DOMAIN files, NEW i \in 1..Len(files[s]), NEW j \in 1..Len(files[s]), i < j
        PROVE  files[s][i].seq < files[s][j].seq
    BY <2>2, <2>3 DEF Numbered
  <2>0. ASSUME NEW s \in DOMAIN files, NEW r \in Scanned(files[s])
        PROVE  \E m \in 1..Len(files[s]) : r = files[s][m] /\ r # Torn
    BY <2>2, OnDiskEntries
  <2>4. ASSUME NEW i \in 1..Len(segments), NEW j \in 1..Len(segments), i < j,
               NEW r \in Scanned(files[segments[i]]), NEW q \in Scanned(files[segments[j]])
        PROVE  r.seq < q.seq
    <3>1. segments[i] \in DOMAIN files /\ segments[j] \in DOMAIN files /\ segments[i] < segments[j]
      BY <2>2, <2>4
    <3>2. PICK m \in 1..Len(files[segments[i]]) : r = files[segments[i]][m] /\ r # Torn
      BY <2>0, <3>1
    <3>3. PICK n \in 1..Len(files[segments[j]]) : q = files[segments[j]][n] /\ q # Torn
      BY <2>0, <3>1
    <3>4. r.seq < segments[j] /\ segments[j] <= q.seq
      BY <2>2, <3>1, <3>2, <3>3 DEF Numbered
    <3>5. files[segments[i]] \in Seq(Entry) /\ files[segments[j]] \in Seq(Entry) /\ segments[j] \in Nat
      BY <2>2, <3>1 DEF TypeOK
    <3>6. r \in Entry /\ q \in Entry
      BY <3>2, <3>3, <3>5
    <3>7. r.seq \in Nat /\ q.seq \in Nat
      BY <3>6, EntryFields
    <3> QED BY <3>4, <3>5, <3>7
  <2> QED BY <2>3, <2>4 DEF ReplayInOrder
<1> QED BY <1>1, OrderKept, PTL

\* No file that SetCheckpoint removes, in whole or up to a crash, holds a record
\* still owed; and nothing else removes a file.
THEOREM PruneLosesNothing ==
    ASSUME SoundOptions
    PROVE  Spec => PruneOnlyApplied
<1> DEFINE A == \A s \in DOMAIN files \ DOMAIN files' : Scanned(files[s]) \cap owed' = {}
<1>1. Base /\ Order /\ [Next]_vars => [A]_vars
  <2>1. SUFFICES ASSUME Base, Order, Next PROVE A
    OBVIOUS
  <2>2. ASSUME DOMAIN files \subseteq DOMAIN files' PROVE A
    BY <2>2
  <2> HIDE DEF A
  <2>3. CASE AppendOk \/ CrashInAppend \/ WriteFails \/ AppendSyncFails
    <3>1. DOMAIN files \subseteq DOMAIN files'
      BY <2>1, <2>3, WriteEntries
    <3> QED BY <3>1, <2>2
  <2>4. CASE RotateFails \/ OpenSegmentFails \/ SyncActive \/ Crash
             \/ \E seq \in 1..(nextSeq - 1) : CheckpointFails(seq)
    <3>1. UNCHANGED files
      BY <2>4 DEF RotateFails, OpenSegmentFails, SyncActive, Crash, CheckpointFails, disk
    <3> QED BY <3>1, <2>2
  <2>5. CASE PowerLoss
    <3>1. DOMAIN files' = DOMAIN files
      BY <2>1, <2>5, LossCuts DEF Base
    <3> QED BY <3>1, <2>2
  <2>6. CASE Open
    <3>1. DOMAIN files' = DOMAIN files
      BY <2>1, <2>6, OpenEffect
    <3> QED BY <3>1, <2>2
  <2>7. ASSUME NEW seq \in 1..(nextSeq - 1), SetCheckpoint(seq) \/ CrashInCheckpoint(seq)
        PROVE  A
    <3>1. seq \in Nat /\ Advances(seq) /\ owed' = {r \in owed : r.seq > seq}
      BY <2>1, <2>7, PruneFrame
    <3>2. PICK gone \in SUBSET Covered(seq) : Remove(gone)
      BY <2>1, <2>7, PruneFrame
    <3>3. \A s \in DOMAIN files : s \notin DOMAIN files' => \A r \in Scanned(files[s]) : r.seq <= seq
      BY <2>1, <3>1, <3>2, PruneEffect
    <3>4. \A r \in owed : r.seq \in Nat
      BY <2>1 DEF Base, TypeOK, Record
    <3>5. ASSUME NEW s \in DOMAIN files, s \notin DOMAIN files' PROVE Scanned(files[s]) \cap owed' = {}
      <4>1. SUFFICES ASSUME NEW r \in Scanned(files[s]), r \in owed' PROVE FALSE
        OBVIOUS
      <4>2. r.seq <= seq /\ r.seq > seq /\ r.seq \in Nat
        BY <3>1, <3>3, <3>4, <3>5, <4>1
      <4> QED BY <4>2, <3>1
    <3> QED BY <3>5 DEF A
  <2> QED BY <2>1, <2>3, <2>4, <2>5, <2>6, <2>7 DEF Next
<1> QED BY <1>1, OrderKept, PTL DEF Spec, PruneOnlyApplied

\* When Sync has returned nil, every accepted record is on stable storage,
\* although Sync flushes one segment: the retired ones were flushed before.
THEOREM SyncIsEnough ==
    ASSUME SoundOptions, MaxFaults = 0
    PROVE  Spec => SyncCoversAcked
<1> DEFINE A == SyncActive => (owed \subseteq Stable)'
<1>1. Bounded /\ (Base /\ Order) /\ (Base /\ Order)' /\ [Next]_vars => [A]_vars
  <2>1. SUFFICES ASSUME Bounded, Base, Order, Base', Order', SyncActive
                 PROVE  owed' \subseteq Stable'
    OBVIOUS
  <2>2. /\ active \in DOMAIN files /\ synced' = [synced EXCEPT ![active] = Len(files[active])]
        /\ files' = files /\ owed' = owed /\ up
    BY <2>1 DEF SyncActive, mem, hist
  <2>3. /\ \A s, t \in DOMAIN files : s < t => synced[s] = Len(files[s])
        /\ \A s \in DOMAIN files : s <= active
    <3>1. faults = 0
      BY <2>1 DEF Bounded, Base, TypeOK
    <3>2. active # NoSegment
      BY <2>1, <2>2 DEF Base, TypeOK, NoSegment
    <3> QED BY <2>1, <2>2, <3>1, <3>2 DEF Order, RetiredSynced, ActiveIsLast
  <2>4. ASSUME NEW s \in DOMAIN files PROVE synced'[s] = Len(files[s])
    <3>1. s \in Nat /\ active \in Nat /\ s \in DOMAIN synced
      BY <2>1, <2>2 DEF Base, TypeOK
    <3>2. s = active \/ s < active
      BY <2>3, <3>1
    <3> QED BY <2>2, <2>3, <3>1, <3>2
  <2>5. owed \subseteq OnDisk
    BY <2>1 DEF Order, AckedReplayable, Replayable
  <2>6. ASSUME NEW r \in OnDisk PROVE r \in Stable'
    <3>1. PICK s \in DOMAIN files : \E i \in 1..Len(files[s]) : r = files[s][i] /\ r # Torn
      BY <2>1, OnDiskEntries DEF Base, Order
    <3>2. PICK i \in 1..Len(files[s]) : r = files[s][i] /\ r # Torn
      BY <3>1
    <3>3. i <= synced'[s] /\ s \in DOMAIN files' /\ files'[s] = files[s]
      BY <2>2, <2>4
    <3>4. StableIs'
      BY <2>1, StableEntriesNext DEF Base, Order
    <3> QED BY <3>2, <3>3, <3>4 DEF StableIs
  <2> QED BY <2>2, <2>5, <2>6
<1>2. Spec => [](Base /\ Order)
  BY OrderKept
<1> QED BY <1>1, <1>2, BoundsKept, PTL DEF Spec, SyncCoversAcked

-----------------------------------------------------------------------------
(* The log implements DurableLog: what a step does to Log's variables.       *)

\* The abstract list of payloads.
Records == [s \in (ckptFile + 1)..LastRecord |-> PayloadAt(s)]

\* A payload stays under its number as long as its record does.
LEMMA PayloadsKept ==
    ASSUME LogView, LogView', OnDisk' \subseteq OnDisk,
           ckptFile <= ckptFile', LastRecord' <= LastRecord
    PROVE  \A s \in (ckptFile' + 1)..LastRecord' :
              s \in (ckptFile + 1)..LastRecord /\ PayloadAt(s)' = PayloadAt(s)
<1>1. PICK n \in Nat : n = LastRecord'
  BY DEF LogView
<1>2. PICK c \in Nat : c = ckptFile'
  BY DEF LogView
<1>3. ckptFile \in Nat /\ LastRecord \in Nat /\ ckptFile <= c /\ n <= LastRecord
  BY <1>1, <1>2 DEF LogView
<1>4. ASSUME NEW s \in (c + 1)..n
      PROVE  s \in (ckptFile + 1)..LastRecord /\ PayloadAt(s)' = PayloadAt(s)
  <2>1. s \in (ckptFile + 1)..LastRecord
    BY <1>3, <1>4
  <2>2. PICK r \in OnDisk' : r.seq = s
    BY <1>1, <1>2, <1>4 DEF LogView
  <2>3. PayloadAt(r.seq)' = r.val
    BY <2>2 DEF LogView
  <2>4. PayloadAt(r.seq) = r.val
    BY <2>2 DEF LogView
  <2> QED BY <2>1, <2>2, <2>3, <2>4
<1> QED BY <1>1, <1>2, <1>4

\* A checkpoint that advances leaves the newest number alone, as does anything
\* that takes no record past the checkpoint away.
LEMMA LastKept ==
    ASSUME LogView, LogView', OnDisk' \subseteq OnDisk,
           ckptFile <= ckptFile', ckptFile' <= LastRecord,
           \A r \in OnDisk : r.seq > ckptFile' => r \in OnDisk'
    PROVE  LastRecord' = LastRecord
<1>1. PICK n \in Nat : n = LastRecord'
  BY DEF LogView
<1>2. PICK c \in Nat : c = ckptFile'
  BY DEF LogView
<1>3. /\ ckptFile \in Nat /\ LastRecord \in Nat /\ ckptFile <= c /\ c <= LastRecord /\ c <= n
      /\ \A r \in OnDisk : r.seq \in Nat /\ r.seq <= LastRecord
      /\ \A s \in (ckptFile + 1)..LastRecord : \E r \in OnDisk : r.seq = s
      /\ \A r \in OnDisk : r.seq > c => r \in OnDisk'
  BY <1>1, <1>2 DEF LogView
<1>4. /\ \A r \in OnDisk' : r.seq <= n
      /\ \A s \in (c + 1)..n : \E r \in OnDisk' : r.seq = s
  BY <1>1, <1>2 DEF LogView
<1>5. n <= LastRecord
  <2>1. SUFFICES ASSUME n > c PROVE n <= LastRecord
    BY <1>3
  <2>2. PICK r \in OnDisk' : r.seq = n
    BY <2>1, <1>4
  <2> QED BY <2>2, <1>3
<1>6. LastRecord <= n
  <2>1. SUFFICES ASSUME LastRecord > c PROVE LastRecord <= n
    BY <1>3
  <2>2. PICK r \in OnDisk : r.seq = LastRecord
    BY <2>1, <1>3
  <2> QED BY <2>1, <2>2, <1>3, <1>4
<1> QED BY <1>1, <1>3, <1>5, <1>6

\* The record of a call becomes the newest one.
LEMMA LastAdded ==
    ASSUME LogView, LogView', up, UNCHANGED ckptFile, OnDisk' = OnDisk \cup {NewRecord}
    PROVE  /\ LastRecord' = LastRecord + 1 /\ NewRecord.seq = LastRecord + 1
           /\ Records' = [s \in (ckptFile + 1)..(LastRecord + 1) |->
                             IF s = LastRecord + 1 THEN Payload ELSE Records[s]]
<1>1. PICK n \in Nat : n = LastRecord'
  BY DEF LogView
<1>2. /\ ckptFile \in Nat /\ LastRecord \in Nat /\ ckptFile <= LastRecord /\ nextSeq = LastRecord + 1
      /\ \A r \in OnDisk : r.seq \in Nat /\ r.seq <= LastRecord
      /\ \A s \in (ckptFile + 1)..LastRecord : \E r \in OnDisk : r.seq = s
      /\ \A r \in OnDisk : PayloadAt(r.seq) = r.val
      /\ NewRecord.seq = nextSeq /\ NewRecord.val = Payload
  BY DEF LogView, NewRecord
<1>3. /\ \A r \in OnDisk' : r.seq <= n
      /\ \A s \in (ckptFile + 1)..n : \E r \in OnDisk' : r.seq = s
      /\ \A r \in OnDisk' : PayloadAt(r.seq)' = r.val
  BY <1>1 DEF LogView
<1>4. n = LastRecord + 1
  <2>1. NewRecord.seq <= n
    BY <1>3
  <2>2. n > LastRecord /\ n \in (ckptFile + 1)..n
    BY <2>1, <1>2
  <2>3. PICK r \in OnDisk' : r.seq = n
    BY <2>2, <1>3
  <2> QED BY <2>2, <2>3, <1>2
<1>5. ASSUME NEW s \in (ckptFile + 1)..(LastRecord + 1)
      PROVE  PayloadAt(s)' = IF s = LastRecord + 1 THEN Payload ELSE PayloadAt(s)
  <2>1. CASE s = LastRecord + 1
    <3>1. PICK r \in OnDisk' : r = NewRecord
      OBVIOUS
    <3>2. PayloadAt(r.seq)' = r.val
      BY <1>3
    <3>3. r.seq = s /\ r.val = Payload
      BY <3>1, <2>1, <1>2
    <3> QED BY <3>2, <3>3, <2>1
  <2>2. CASE s # LastRecord + 1
    <3>1. s \in (ckptFile + 1)..LastRecord
      BY <2>2, <1>2
    <3>2. PICK r \in OnDisk : r.seq = s
      BY <3>1, <1>2
    <3>3. PayloadAt(r.seq)' = r.val /\ PayloadAt(r.seq) = r.val
      BY <3>2, <1>2, <1>3
    <3> QED BY <3>2, <3>3, <2>2
  <2> QED BY <2>1, <2>2
<1>6. Records' = [s \in (ckptFile + 1)..(LastRecord + 1) |-> PayloadAt(s)']
  BY <1>1, <1>4 DEF Records
<1>7. ASSUME NEW s \in (ckptFile + 1)..(LastRecord + 1), s # LastRecord + 1
      PROVE  Records[s] = PayloadAt(s)
  <2>1. s \in (ckptFile + 1)..LastRecord
    BY <1>2, <1>7
  <2> QED BY <2>1 DEF Records
<1> QED BY <1>1, <1>2, <1>4, <1>5, <1>6, <1>7

\* With nothing taken from the disk, the list goes on from the checkpoint.
LEMMA RecordsKept ==
    ASSUME LogView, LogView', OnDisk' \subseteq OnDisk,
           ckptFile <= ckptFile', LastRecord' <= LastRecord
    PROVE  Records' = [s \in (ckptFile' + 1)..LastRecord' |-> Records[s]]
<1>1. \A s \in (ckptFile' + 1)..LastRecord' :
         s \in (ckptFile + 1)..LastRecord /\ PayloadAt(s)' = PayloadAt(s)
  BY PayloadsKept
<1>2. \A s \in (ckptFile' + 1)..LastRecord' : PayloadAt(s)' = Records[s]
  BY <1>1 DEF Records
<1>3. Records' = [s \in (ckptFile' + 1)..LastRecord' |-> PayloadAt(s)']
  BY DEF Records
<1> QED BY <1>2, <1>3

\* The numbers and the payloads that a call or a Sync leaves.
LEMMA CallView ==
    ASSUME Base, Order, Base', Order',
           \/ AppendOk \/ CrashInAppend \/ WriteFails \/ AppendSyncFails
           \/ RotateFails \/ OpenSegmentFails \/ SyncActive
    PROVE  /\ LogView /\ LogView' /\ up /\ UNCHANGED ckptFile
           /\ OnDisk' = OnDisk \/ (OnDisk' = OnDisk \cup {NewRecord} /\ (AppendOk \/ CrashInAppend))
           /\ AppendOk => OnDisk' = OnDisk \cup {NewRecord}
           /\ OnDisk' = OnDisk => LastRecord' = LastRecord /\ Records' = Records
           /\ LastRecord <= LastRecord'
<1>1. LogView /\ LogView'
  BY ViewHolds, ViewHoldsNext
<1>2. up /\ UNCHANGED ckptFile
  BY DEF AppendOk, CrashInAppend, WriteFails, AppendSyncFails, RotateFails, OpenSegmentFails,
         SyncActive, Called, Refuse
<1>3. /\ OnDisk' = OnDisk \/ (OnDisk' = OnDisk \cup {NewRecord} /\ (AppendOk \/ CrashInAppend))
      /\ AppendOk => OnDisk' = OnDisk \cup {NewRecord}
  <2>1. CASE AppendOk \/ CrashInAppend \/ WriteFails \/ AppendSyncFails
    <3>1. TypeOK'
      BY DEF Base
    <3> QED BY <2>1, <3>1, WriteOnDisk
  <2>2. CASE RotateFails \/ OpenSegmentFails \/ SyncActive
    <3>1. UNCHANGED files /\ ~AppendOk
      <4>1. UNCHANGED files
        BY <2>2 DEF RotateFails, OpenSegmentFails, SyncActive
      <4>2. appends \in Nat /\ faults \in Nat
        BY DEF Base, TypeOK
      <4>3. RotateFails \/ OpenSegmentFails => faults' = faults + 1
        BY DEF RotateFails, OpenSegmentFails, Refuse
      <4>4. SyncActive => appends' = appends
        BY DEF SyncActive, hist
      <4>5. AppendOk => appends' = appends + 1 /\ faults' = faults
        BY DEF AppendOk, Called, Payload, bounds
      <4> QED BY <2>2, <4>1, <4>2, <4>3, <4>4, <4>5
    <3> QED BY <3>1 DEF OnDisk
  <2> QED BY <2>1, <2>2
<1>4. OnDisk' = OnDisk => LastRecord' = LastRecord /\ Records' = Records
  <2>1. SUFFICES ASSUME OnDisk' = OnDisk PROVE LastRecord' = LastRecord /\ Records' = Records
    OBVIOUS
  <2>2. /\ ckptFile \in Nat /\ ckptFile <= LastRecord /\ LastRecord \in Nat
        /\ ckptFile' = ckptFile /\ ckptFile <= ckptFile' /\ ckptFile' <= LastRecord
    BY <1>1, <1>2 DEF LogView
  <2>3. LastRecord' = LastRecord
    BY <1>1, <2>1, <2>2, LastKept
  <2>4. LastRecord' <= LastRecord
    BY <2>2, <2>3
  <2>5. Records' = [s \in (ckptFile' + 1)..LastRecord' |-> Records[s]]
    BY <1>1, <2>1, <2>2, <2>4, RecordsKept
  <2> QED BY <2>2, <2>3, <2>5 DEF Records
<1>5. LastRecord <= LastRecord'
  <2>1. LastRecord' = LastRecord \/ LastRecord' = LastRecord + 1
    BY <1>1, <1>2, <1>3, <1>4, LastAdded
  <2>2. LastRecord \in Nat
    BY <1>1 DEF LogView
  <2> QED BY <2>1, <2>2
<1> QED BY <1>1, <1>2, <1>3, <1>4, <1>5

\* They never make less stable.
LEMMA CallStable ==
    ASSUME Base, Order, Base', Order',
           \/ AppendOk \/ CrashInAppend \/ WriteFails \/ AppendSyncFails
           \/ RotateFails \/ OpenSegmentFails \/ SyncActive
    PROVE  StableTo <= StableTo'
<1>1. /\ LogView /\ LogView' /\ up /\ UNCHANGED ckptFile
      /\ OnDisk' \subseteq OnDisk \cup {NewRecord}
      /\ LastRecord <= LastRecord'
  BY CallView
<1>2. Stable \subseteq Stable'
  BY StableGrows
<1>3. NewRecord.seq > LastRecord
  BY <1>1 DEF LogView, NewRecord
<1>4. ASSUME NEW r \in Unstable' PROVE r \in Unstable \/ r.seq > LastRecord
  <2>1. r \in OnDisk' /\ r.seq > ckptFile /\ r \notin Stable'
    BY <1>1 DEF Unstable, Replayable
  <2> QED BY <2>1, <1>1, <1>2, <1>3 DEF Unstable, Replayable
<1> QED BY <1>1, <1>4, StableToGrows

\* With nothing unstable, everything is stable.
LEMMA AllStable ==
    ASSUME LogView', Unstable' = {}
    PROVE  StableTo' = LastRecord'
  BY DEF LogView

\* Append returns nil.
LEMMA AcceptStep ==
    ASSUME Base, Order, Base', Order', Bounded', AppendOk
    PROVE  Payload \in 1..MaxAppends /\ Log!Accept(Payload)
<1>1. /\ LogView /\ LogView' /\ up /\ up' /\ UNCHANGED ckptFile /\ OnDisk' = OnDisk \cup {NewRecord}
  <2>1. up'
    BY DEF AppendOk, Called
  <2> QED BY <2>1, CallView
<1>2. /\ LastRecord' = LastRecord + 1
      /\ Records' = [s \in (ckptFile + 1)..(LastRecord + 1) |->
                        IF s = LastRecord + 1 THEN Payload ELSE Records[s]]
  BY <1>1, LastAdded
<1>3. StableTo' \in StableTo..(LastRecord + 1)
  <2>1. StableTo <= StableTo'
    BY CallStable
  <2>2. StableTo' \in ckptFile'..LastRecord' /\ StableTo \in ckptFile..LastRecord
        /\ ckptFile \in Nat /\ LastRecord \in Nat
    BY <1>1 DEF LogView
  <2>3. PICK n \in Int : n = StableTo' /\ n <= LastRecord + 1
    BY <1>1, <1>2, <2>2
  <2>4. StableTo <= n
    BY <2>1, <2>3
  <2>5. n \in StableTo..(LastRecord + 1)
    BY <2>2, <2>3, <2>4
  <2> QED BY <2>3, <2>5
<1>4. Payload \in 1..MaxAppends
  BY WalAssumption DEF AppendOk, Called, Payload, Base, TypeOK
<1> QED BY <1>1, <1>2, <1>3, <1>4 DEF Log!Accept, Log!Extended, Records

\* Append returns an error, or Sync is called.
LEMMA HardenStep ==
    ASSUME Base, Order, Base', Order',
           WriteFails \/ AppendSyncFails \/ RotateFails \/ OpenSegmentFails \/ SyncActive
    PROVE  Log!Harden
<1>1. up /\ up' = up /\ LogView /\ LogView' /\ UNCHANGED ckptFile
  <2>1. up' = up
    BY DEF WriteFails, AppendSyncFails, RotateFails, OpenSegmentFails, SyncActive, Refuse, mem
  <2> QED BY <2>1, CallView
<1>2. OnDisk' = OnDisk
  <2>1. ~AppendOk /\ ~CrashInAppend
    <3>1. appends \in Nat /\ faults \in Nat
      BY DEF Base, TypeOK
    <3>2. ~SyncActive => faults' = faults + 1
      BY DEF WriteFails, AppendSyncFails, RotateFails, OpenSegmentFails, Refuse
    <3>3. SyncActive => appends' = appends
      BY DEF SyncActive, hist
    <3>4. AppendOk \/ CrashInAppend => appends' = appends + 1 /\ faults' = faults
      BY DEF AppendOk, CrashInAppend, ProcessStops, Stops, Called, Payload, bounds
    <3> QED BY <3>1, <3>2, <3>3, <3>4
  <2> QED BY <2>1, CallView
<1>3. LastRecord' = LastRecord /\ Records' = Records
  BY <1>2, CallView
<1>4. StableTo' \in StableTo..LastRecord
  <2>1. StableTo <= StableTo'
    BY CallStable
  <2>2. StableTo' \in ckptFile'..LastRecord' /\ StableTo \in ckptFile..LastRecord
        /\ ckptFile \in Nat /\ LastRecord \in Nat
    BY <1>1 DEF LogView
  <2>3. PICK n \in Int : n = StableTo' /\ n <= LastRecord
    BY <1>1, <1>3, <2>2
  <2>4. n \in StableTo..LastRecord
    BY <2>1, <2>2, <2>3
  <2> QED BY <2>3, <2>4
<1> QED BY <1>1, <1>3, <1>4 DEF Log!Harden, Records

\* A checkpoint that removes files takes nothing above it.
LEMMA SettleView ==
    ASSUME Base, Order, Base', Order', NEW seq \in 1..(nextSeq - 1),
           SetCheckpoint(seq) \/ CrashInCheckpoint(seq)
    PROVE  /\ up /\ ckptFile' = seq /\ seq \in (ckptFile + 1)..LastRecord
           /\ LastRecord' = LastRecord
           /\ Records' = [s \in (seq + 1)..LastRecord |-> Records[s]]
           /\ StableTo' \in (IF StableTo < seq THEN seq ELSE StableTo)..LastRecord
<1>1. /\ LogView /\ LogView' /\ TypeOK /\ TornAtEnd /\ StableIs /\ StableIs'
  BY ViewHolds, ViewHoldsNext, StableEntries, StableEntriesNext DEF Base, Order
<1>2. up /\ ckptFile' = seq /\ Advances(seq) /\ seq \in Nat
  BY PruneFrame
<1>3. PICK gone \in SUBSET Covered(seq) : Remove(gone)
  BY PruneFrame
<1>4. /\ DOMAIN files' \subseteq DOMAIN files
      /\ \A s \in DOMAIN files' : files'[s] = files[s] /\ synced'[s] = synced[s]
      /\ \A s \in DOMAIN files : s \notin DOMAIN files' => \A r \in Scanned(files[s]) : r.seq <= seq
      /\ OnDisk' \subseteq OnDisk
      /\ \A r \in OnDisk : r.seq > seq => r \in OnDisk'
  BY <1>2, <1>3, PruneEffect
<1>5. seq \in (ckptFile + 1)..LastRecord /\ ckptFile \in Nat /\ LastRecord \in Nat
  <2>1. nextSeq = LastRecord + 1 /\ ckptFile \in Nat /\ LastRecord \in Nat
    BY <1>1, <1>2 DEF LogView
  <2>2. ckptFile <= checkpoint /\ checkpoint < seq /\ checkpoint \in Nat
    BY <1>2 DEF Order, NextIsFree, Advances, Base, TypeOK
  <2> QED BY <2>1, <2>2
<1>6. ckptFile <= ckptFile' /\ ckptFile' <= LastRecord
  BY <1>2, <1>5
<1>7. LastRecord' = LastRecord
  BY <1>1, <1>2, <1>4, <1>6, LastKept
<1>8. LastRecord' <= LastRecord
  BY <1>5, <1>7
<1>9. Records' = [s \in (seq + 1)..LastRecord |-> Records[s]]
  BY <1>1, <1>2, <1>4, <1>6, <1>7, <1>8, RecordsKept
<1>10. ASSUME NEW r \in Unstable' PROVE r \in Unstable \/ r.seq > LastRecord
  <2>1. r \in OnDisk' /\ r.seq > seq /\ r \notin Stable'
    BY <1>2 DEF Unstable, Replayable
  <2>2. r \in OnDisk /\ r.seq \in Nat
    BY <2>1, <1>1, <1>4 DEF LogView
  <2>3. ASSUME r \in Stable PROVE FALSE
    <3>1. PICK s \in DOMAIN files : \E i \in 1..Len(files[s]) :
                i <= synced[s] /\ r = files[s][i] /\ r # Torn
      BY <2>3, <1>1 DEF StableIs
    <3>2. r \in Scanned(files[s])
      BY <3>1, <1>1, OnDiskEntries
    <3>3. s \in DOMAIN files'
      <4>1. s \notin DOMAIN files' => r.seq <= seq
        BY <3>2, <1>4
      <4> QED BY <4>1, <2>1, <2>2, <1>2
    <3>4. r \in Stable'
      BY <3>1, <3>3, <1>1, <1>4 DEF StableIs
    <3> QED BY <3>4, <2>1
  <2>4. r.seq > ckptFile
    BY <2>1, <2>2, <1>5
  <2> QED BY <2>2, <2>3, <2>4 DEF Unstable, Replayable
<1>11. StableTo' \in (IF StableTo < seq THEN seq ELSE StableTo)..LastRecord
  <2>1. LastRecord <= LastRecord'
    BY <1>5, <1>7
  <2>2. StableTo <= StableTo'
    BY <1>1, <1>10, <2>1, StableToGrows
  <2>3. StableTo' \in ckptFile'..LastRecord' /\ StableTo \in ckptFile..LastRecord
    BY <1>1 DEF LogView
  <2>4. PICK n \in Int : n = StableTo' /\ seq <= n /\ n <= LastRecord
    BY <1>2, <1>5, <1>7, <2>3
  <2>5. n \in (IF StableTo < seq THEN seq ELSE StableTo)..LastRecord
    BY <1>5, <2>2, <2>3, <2>4
  <2> QED BY <2>4, <2>5
<1> QED BY <1>2, <1>5, <1>7, <1>9, <1>11

\* SetCheckpoint returns, or the process dies in it.
LEMMA SettleStep ==
    ASSUME Base, Order, Base', Order', NEW seq \in 1..(nextSeq - 1),
           SetCheckpoint(seq) \/ CrashInCheckpoint(seq)
    PROVE  /\ seq \in (ckptFile + 1)..LastRecord
           /\ Log!Settle(seq) \/ Log!DieSettling(seq)
<1>1. /\ up /\ ckptFile' = seq /\ seq \in (ckptFile + 1)..LastRecord
      /\ LastRecord' = LastRecord
      /\ Records' = [s \in (seq + 1)..LastRecord |-> Records[s]]
      /\ StableTo' \in (IF StableTo < seq THEN seq ELSE StableTo)..LastRecord
  BY SettleView
<1>2. CASE SetCheckpoint(seq)
  <2>1. up' = up
    BY <1>2 DEF SetCheckpoint
  <2> QED BY <1>1, <2>1 DEF Log!Settle, Log!Kept, Records
<1>3. CASE CrashInCheckpoint(seq)
  <2>1. up' = FALSE
    BY <1>3 DEF CrashInCheckpoint, ProcessStops, Stops
  <2> QED BY <1>1, <2>1 DEF Log!DieSettling, Log!Kept, Records
<1> QED BY <1>1, <1>2, <1>3

\* What the process wrote of a record before it died is not synced.
LEMMA DyingUnsynced ==
    ASSUME Base, Order, Base', Order', CrashInAppend
    PROVE  NewRecord \notin Stable'
<1>1. /\ up /\ TypeOK /\ TornAtEnd /\ StableIs' /\ LogView
      /\ DOMAIN files' = StartsOpened /\ Target \in StartsOpened
  BY WriteEntries, ViewHolds, StableEntriesNext DEF Base, Order
<1>2. SUFFICES ASSUME NewRecord \in Stable' PROVE FALSE
  OBVIOUS
<1>3. PICK r : r = NewRecord
  OBVIOUS
<1>0. PICK s \in DOMAIN files' : \E i \in 1..Len(files'[s]) :
         i <= synced'[s] /\ r = files'[s][i] /\ r # Torn
  BY <1>1, <1>2, <1>3 DEF StableIs
<1>4. PICK i \in 1..Len(files'[s]) : i <= synced'[s] /\ r = files'[s][i] /\ r # Torn
  BY <1>0
<1>5. ~(s \in DOMAIN files /\ i \in 1..Len(files[s]) /\ files'[s][i] = files[s][i])
  <2>1. SUFFICES ASSUME s \in DOMAIN files, i \in 1..Len(files[s]), files'[s][i] = files[s][i]
                 PROVE  FALSE
    OBVIOUS
  <2>2. r \in OnDisk
    BY <2>1, <1>1, <1>4, OnDiskEntries
  <2>3. r.seq = nextSeq /\ nextSeq = LastRecord + 1 /\ LastRecord \in Nat /\ r.seq <= LastRecord
    BY <2>2, <1>1, <1>3 DEF LogView, NewRecord
  <2> QED BY <2>3
<1>6. s = Target /\ i = Len(files'[s])
  BY <1>1, <1>4, <1>5, WriteEntries
<1>7. PICK tail \in {<<>>, <<Torn>>, <<NewRecord>>} : files'[Target] = FilesOpened[Target] \o tail
  BY WriteEffect
<1>8. /\ FilesOpened[Target] \in Seq(Entry) /\ SyncedOpened[Target] \in 0..Len(FilesOpened[Target])
      /\ Target \in DOMAIN files => FilesOpened[Target] = files[Target]
      /\ Target \notin DOMAIN files => FilesOpened[Target] = <<>>
  BY <1>1, OpenedFacts DEF Base
<1>9. synced'[Target] = SyncedOpened[Target]
  <2>1. ~AppendOk
    BY DEF AppendOk, CrashInAppend, Called, ProcessStops, Stops
  <2> QED BY <1>1, <2>1, WrittenTo DEF Base
<1>10. i <= Len(FilesOpened[Target])
  BY <1>4, <1>6, <1>8, <1>9
<1>11. i \in 1..Len(FilesOpened[Target]) /\ files'[Target][i] = FilesOpened[Target][i]
  BY <1>4, <1>6, <1>7, <1>8, <1>10
<1>12. Target \in DOMAIN files
  BY <1>8, <1>11
<1> QED BY <1>5, <1>6, <1>8, <1>11, <1>12

\* A rotation flushes the newest segment whole: where it makes the oldest
\* unstable record stable, it makes everything stable.
LEMMA DyingRotates ==
    ASSUME Base, Order, Base', Order', CrashInAppend, OnDisk' = OnDisk,
           NEW r \in Unstable, \A q \in Unstable : r.seq <= q.seq, r \in Stable'
    PROVE  Unstable' = {}
<1>1. /\ up /\ TypeOK /\ TypeOK' /\ TornAtEnd /\ StableIs /\ StableIs' /\ UNCHANGED ckptFile
      /\ ActiveIsLast /\ Numbered /\ TornAtEnd' /\ LogView
      /\ DOMAIN files' = StartsOpened
      /\ \A s \in StartsOpened : \A i \in 1..Len(files'[s]) :
            \/ s \in DOMAIN files /\ i \in 1..Len(files[s]) /\ files'[s][i] = files[s][i]
            \/ files'[s][i] = Torn
            \/ files'[s][i] = NewRecord
      /\ \A s \in DOMAIN files : s \in StartsOpened /\ \A i \in 1..Len(files[s]) :
            i \in 1..Len(files'[s]) /\ files'[s][i] = files[s][i]
  BY WriteEntries, CallView, StableEntries, StableEntriesNext DEF Base, Order
<1>2. r \in OnDisk /\ r \notin Stable /\ r # NewRecord /\ r.seq \in Nat
  <2>1. r \in OnDisk /\ r \notin Stable
    BY DEF Unstable, Replayable
  <2>2. r # NewRecord
    BY DyingUnsynced
  <2> QED BY <1>1, <2>1, <2>2 DEF LogView
<1>0. PICK s \in DOMAIN files' : \E i \in 1..Len(files'[s]) :
         i <= synced'[s] /\ r = files'[s][i] /\ r # Torn
  BY <1>1 DEF StableIs
<1>3. PICK i \in 1..Len(files'[s]) : i <= synced'[s] /\ r = files'[s][i] /\ r # Torn
  BY <1>0
<1>4. s \in DOMAIN files /\ i \in 1..Len(files[s]) /\ r = files[s][i]
  BY <1>1, <1>2, <1>3
<1>5. ~(i <= synced[s])
  BY <1>1, <1>2, <1>3, <1>4 DEF StableIs
<1>6. \A t \in StartsOpened : synced'[t] = SyncedOpened[t]
  <2>1. ~AppendOk
    BY DEF AppendOk, CrashInAppend, Called, ProcessStops, Stops
  <2> QED BY <2>1, WrittenTo DEF Base
<1>7. NeedRotate /\ s = active
  <2>1. synced'[s] = SyncedRotated[s]
    BY <1>1, <1>4, <1>6 DEF SyncedOpened
  <2>2. SyncedRotated[s] # synced[s]
    BY <1>3, <1>5, <2>1
  <2> QED BY <1>4, <2>2 DEF SyncedRotated
<1>8. synced'[active] = Len(files[active])
  <2>1. synced'[s] = SyncedRotated[s]
    BY <1>1, <1>4, <1>6 DEF SyncedOpened
  <2> QED BY <1>4, <1>7, <2>1 DEF SyncedRotated
<1>9. ASSUME NEW q \in Unstable' PROVE FALSE
  <2>1. q \in OnDisk /\ q.seq > ckptFile /\ q \notin Stable'
    BY <1>1 DEF Unstable, Replayable
  <2>2. Stable \subseteq Stable'
    BY StableGrows
  <2>3. r.seq <= q.seq
    BY <2>1, <2>2 DEF Unstable, Replayable
  <2>4. PICK t \in DOMAIN files : \E j \in 1..Len(files[t]) : q = files[t][j] /\ q # Torn
    BY <1>1, <2>1, OnDiskEntries
  <2>5. PICK j \in 1..Len(files[t]) : q = files[t][j] /\ q # Torn
    BY <2>4
  <2>6. t # active
    <3>1. SUFFICES ASSUME t = active PROVE FALSE
      OBVIOUS
    <3>2. j <= synced'[t]
      BY <3>1, <2>5, <1>8
    <3>3. t \in DOMAIN files' /\ j \in 1..Len(files'[t]) /\ q = files'[t][j]
      BY <1>1, <2>5
    <3> QED BY <3>2, <3>3, <2>1, <2>5, <1>1 DEF StableIs
  <2>7. t < active /\ active \in Nat /\ t \in Nat
    <3>1. active # NoSegment
      BY <1>7 DEF NeedRotate
    <3>2. t <= active
      BY <1>1, <3>1 DEF ActiveIsLast
    <3>3. active \in Nat /\ t \in Nat
      <4>1. TypeOK
        BY <1>1
      <4> QED BY <4>1 DEF TypeOK
    <3> QED BY <2>6, <3>2, <3>3
  <2>8. q.seq < active
    BY <1>1, <1>4, <1>7, <2>5, <2>7 DEF Numbered
  <2>9. active <= r.seq
    BY <1>1, <1>3, <1>4, <1>7 DEF Numbered
  <2>10. q.seq \in Nat
    BY <1>1, <2>1 DEF LogView
  <2> QED BY <1>2, <2>3, <2>7, <2>8, <2>9, <2>10
<1> QED BY <1>9

\* The process dies inside Append: with the whole record written it is the
\* newest one; otherwise it is a plain crash, or one after a rotation that made
\* everything stable, which is a power loss that takes nothing.
LEMMA DieAppendingStep ==
    ASSUME Base, Order, Base', Order', CrashInAppend
    PROVE  \/ Payload \in 1..MaxAppends /\ Log!DieAppending(Payload)
           \/ Log!Die
           \/ LastRecord \in StableTo..LastRecord /\ Log!LosePowerTo(LastRecord)
<1>1. /\ LogView /\ LogView' /\ up /\ up' = FALSE /\ UNCHANGED ckptFile
      /\ OnDisk' = OnDisk \/ OnDisk' = OnDisk \cup {NewRecord}
      /\ OnDisk' = OnDisk => LastRecord' = LastRecord /\ Records' = Records
  <2>1. up' = FALSE
    BY DEF CrashInAppend, ProcessStops, Stops
  <2> QED BY <2>1, CallView
<1>2. /\ StableTo \in ckptFile..LastRecord /\ ckptFile \in Nat /\ LastRecord \in Nat
      /\ StableTo' \in ckptFile..LastRecord' /\ LastRecord' \in Nat
  BY <1>1 DEF LogView
<1>3. PICK n \in Int : n = StableTo' /\ n <= LastRecord'
  BY <1>2
<1>4. StableTo <= n
  BY <1>3, CallStable
<1>5. Payload \in 1..MaxAppends
  BY WalAssumption DEF CrashInAppend, Called, Payload, Base, TypeOK
<1>6. CASE OnDisk' = OnDisk \cup {NewRecord}
  <2>1. /\ LastRecord' = LastRecord + 1 /\ NewRecord.seq = LastRecord + 1
        /\ Records' = [s \in (ckptFile + 1)..(LastRecord + 1) |->
                          IF s = LastRecord + 1 THEN Payload ELSE Records[s]]
    BY <1>1, <1>6, LastAdded
  <2>2. PICK r : r = NewRecord /\ r.seq = LastRecord + 1
    BY <2>1
  <2>3. r \in Unstable'
    <3>1. r \notin Stable'
      BY <2>2, DyingUnsynced
    <3>2. r \in OnDisk'
      BY <1>6, <2>2
    <3>3. r.seq > ckptFile
      BY <1>2, <2>2
    <3> QED BY <1>1, <3>1, <3>2, <3>3 DEF Unstable, Replayable
  <2>4. n < r.seq
    BY <1>1, <1>3, <2>3 DEF LogView
  <2>5. n \in StableTo..LastRecord
    BY <2>1, <2>2, <2>4, <1>2, <1>3, <1>4
  <2> QED BY <1>1, <1>3, <1>5, <2>1, <2>5 DEF Log!DieAppending, Log!Extended, Records
<1>7. CASE OnDisk' = OnDisk
  <2>1. LastRecord' = LastRecord /\ Records' = Records
    BY <1>1, <1>7
  <2>2. n = StableTo \/ n = LastRecord
    <3>1. SUFFICES ASSUME n # StableTo PROVE n = LastRecord
      OBVIOUS
    <3>2. StableTo < LastRecord /\ StableTo + 1 <= n
      BY <3>1, <1>2, <1>3, <1>4, <2>1
    <3>3. PICK r \in Unstable : r.seq = StableTo + 1
      BY <3>2, <1>1 DEF LogView
    <3>4. \A q \in Unstable : r.seq <= q.seq
      <4>1. \A q \in Unstable : StableTo < q.seq /\ q.seq \in Nat
        BY <1>1 DEF LogView, Unstable, Replayable
      <4> QED BY <4>1, <3>3, <1>2
    <3>5. r \notin Unstable'
      <4>1. SUFFICES ASSUME r \in Unstable' PROVE FALSE
        OBVIOUS
      <4>2. n < r.seq
        BY <4>1, <1>1, <1>3 DEF LogView
      <4> QED BY <4>2, <3>2, <3>3, <1>2
    <3>6. r \in Stable'
      BY <3>3, <3>5, <1>1, <1>7 DEF Unstable, Replayable
    <3>7. Unstable' = {}
      BY <3>3, <3>4, <3>6, <1>7, DyingRotates
    <3> QED BY <3>7, <1>1, <1>3, <2>1, AllStable
  <2>3. CASE n = StableTo
    BY <2>1, <2>3, <1>1, <1>3 DEF Log!Die, Records
  <2>4. CASE n = LastRecord
    <3>1. Records = [s \in (ckptFile + 1)..LastRecord |-> Records[s]]
      BY DEF Records
    <3>2. LastRecord \in StableTo..LastRecord
      BY <1>2
    <3> QED BY <3>1, <3>2, <2>1, <2>4, <1>1, <1>3 DEF Log!LosePowerTo, Log!Kept, Records
  <2> QED BY <2>2, <2>3, <2>4
<1> QED BY <1>1, <1>6, <1>7

\* A power loss keeps what is stable, and of the rest the oldest part or none.
LEMMA LosePowerStep ==
    ASSUME Base, Order, Base', Order', PowerLoss, faults = 0, ~CkptLossy
    PROVE  LastRecord' \in StableTo..LastRecord /\ Log!LosePowerTo(LastRecord')
<1>1. LogView /\ LogView' /\ StableIs' /\ TypeOK' /\ TornAtEnd'
  BY ViewHolds, ViewHoldsNext, StableEntriesNext DEF Base, Order
<1>2. up' = FALSE /\ UNCHANGED ckptFile
  BY DEF PowerLoss, Stops
<1>3. OnDisk' \subseteq OnDisk /\ Stable \subseteq OnDisk'
  BY LossOnDisk
<1>4. PICK n \in Nat : n = LastRecord'
  BY <1>1 DEF LogView
<1>5. /\ ckptFile \in Nat /\ LastRecord \in Nat /\ ckptFile <= LastRecord
      /\ StableTo \in ckptFile..LastRecord
      /\ \A r \in OnDisk : r.seq \in Nat /\ r.seq <= LastRecord
      /\ \A s \in (ckptFile + 1)..LastRecord : \E r \in OnDisk : r.seq = s
      /\ \A r \in Unstable : StableTo < r.seq
  BY <1>1 DEF LogView
<1>6. /\ ckptFile <= n
      /\ \A r \in OnDisk' : r.seq <= n
      /\ \A s \in (ckptFile + 1)..n : \E r \in OnDisk' : r.seq = s
  BY <1>1, <1>2, <1>4 DEF LogView
<1>7. n <= LastRecord
  <2>1. SUFFICES ASSUME n > ckptFile PROVE n <= LastRecord
    BY <1>5, <1>6
  <2>2. PICK r \in OnDisk' : r.seq = n
    BY <2>1, <1>5, <1>6
  <2> QED BY <2>2, <1>3, <1>5
<1>8. StableTo <= n
  <2>1. SUFFICES ASSUME n < StableTo PROVE FALSE
    BY <1>5
  <2>2. n + 1 \in (ckptFile + 1)..LastRecord
    BY <2>1, <1>5, <1>6
  <2>3. PICK r \in OnDisk : r.seq = n + 1
    BY <2>2, <1>5
  <2>4. r \notin OnDisk'
    BY <2>3, <1>6
  <2>5. r \in Unstable
    BY <2>3, <2>4, <1>3, <1>5, <1>6 DEF Unstable, Replayable
  <2> QED BY <2>1, <2>3, <2>5, <1>5
<1>9. Unstable' = {}
  <2>1. ASSUME NEW r \in OnDisk' PROVE r \in Stable'
    <3>1. PICK s \in DOMAIN files' : \E i \in 1..Len(files'[s]) : r = files'[s][i] /\ r # Torn
      BY <1>1, OnDiskEntriesNext
    <3>2. synced'[s] = Len(files'[s])
      <4>1. DOMAIN files' = DOMAIN files /\ \A t \in DOMAIN files : synced'[t] = Len(files'[t])
        BY LossEffect
      <4> QED BY <4>1
    <3>3. PICK i \in 1..Len(files'[s]) : r = files'[s][i] /\ r # Torn
      BY <3>1
    <3>4. files'[s] \in Seq(Entry)
      BY <1>1 DEF TypeOK
    <3>5. i <= synced'[s]
      BY <3>2, <3>4
    <3> QED BY <1>1, <3>3, <3>5 DEF StableIs
  <2> QED BY <2>1 DEF Unstable, Replayable
<1>10. StableTo' = LastRecord'
  BY <1>1, <1>9, AllStable
<1>11. Records' = [s \in (ckptFile + 1)..LastRecord' |-> Records[s]]
  <2>1. LastRecord' <= LastRecord /\ ckptFile <= ckptFile' /\ ckptFile' = ckptFile
    BY <1>2, <1>4, <1>5, <1>7
  <2>2. Records' = [s \in (ckptFile' + 1)..LastRecord' |-> Records[s]]
    BY <2>1, <1>1, <1>3, RecordsKept
  <2> QED BY <2>1, <2>2
<1>12. n \in StableTo..LastRecord
  BY <1>5, <1>7, <1>8
<1> QED BY <1>2, <1>4, <1>10, <1>11, <1>12 DEF Log!LosePowerTo, Log!Kept, Records

\* With the same records on disk, the same ones stable and the same checkpoint,
\* the list is the same.
LEMMA SameView ==
    ASSUME LogView, LogView', OnDisk' = OnDisk, Stable' = Stable, UNCHANGED ckptFile
    PROVE  LastRecord' = LastRecord /\ Records' = Records /\ StableTo' = StableTo
<1>1. /\ ckptFile \in Nat /\ LastRecord \in Nat /\ ckptFile' = ckptFile
      /\ ckptFile <= ckptFile' /\ ckptFile' <= LastRecord
      /\ StableTo \in ckptFile..LastRecord
      /\ \A r \in Unstable : r.seq \in Nat /\ StableTo < r.seq
      /\ StableTo < LastRecord => \E r \in Unstable : r.seq = StableTo + 1
  BY DEF LogView, Unstable, Replayable
<1>2. LastRecord' = LastRecord
  BY <1>1, LastKept
<1>3. Records' = Records
  <2>1. LastRecord' <= LastRecord
    BY <1>1, <1>2
  <2>2. Records' = [s \in (ckptFile' + 1)..LastRecord' |-> Records[s]]
    BY <1>1, <2>1, RecordsKept
  <2> QED BY <1>1, <1>2, <2>2 DEF Records
<1>4. Unstable' = Unstable
  BY DEF Unstable, Replayable
<1>5. PICK n \in Int : n = StableTo' /\ n >= ckptFile /\ n <= LastRecord
  BY <1>1, <1>2 DEF LogView
<1>6. /\ \A r \in Unstable : n < r.seq
      /\ n < LastRecord => \E r \in Unstable : r.seq = n + 1
  BY <1>2, <1>4, <1>5 DEF LogView
<1>7. n = StableTo
  <2>1. ~(n < StableTo)
    BY <1>1, <1>5, <1>6
  <2>2. ~(StableTo < n)
    BY <1>1, <1>5, <1>6
  <2> QED BY <2>1, <2>2, <1>1, <1>5
<1> QED BY <1>2, <1>3, <1>5, <1>7

\* Open changes nothing its callers see.
LEMMA ReopenStep ==
    ASSUME Base, Order, Base', Order', Open
    PROVE  Log!Reopen
<1>1. /\ LogView /\ LogView' /\ StableIs /\ StableIs' /\ TypeOK /\ TypeOK' /\ TornAtEnd
      /\ FilesFinite
  BY ViewHolds, ViewHoldsNext, StableEntries, StableEntriesNext DEF Base, Order
<1>2. ~up /\ up' = TRUE /\ UNCHANGED ckptFile
  BY DEF Open
<1>3. OnDisk' = OnDisk
  BY OpenEffect
<1>4. /\ DOMAIN files' = DOMAIN files
      /\ \A s \in DOMAIN files : s # LastSegment => files'[s] = files[s] /\ synced'[s] = synced[s]
  BY <1>1, OpenCuts
<1> DEFINE L == LastSegment
           end == ScanEnd(files[L])
<1>5. DOMAIN files # {} =>
         /\ L \in DOMAIN files /\ end \in 0..Len(files[L])
         /\ end = Len(files[L]) \/ files[L][end + 1] = Torn
         /\ files'[L] = SubSeq(files[L], 1, end)
         /\ synced'[L] = LoweredTo(synced[L], end)
  BY <1>1, OpenCuts
<1> HIDE DEF L, end
<1>0. \A s \in DOMAIN files : files[s] \in Seq(Entry) /\ synced[s] \in Nat
  BY <1>1 DEF TypeOK
<1>6. ASSUME NEW s \in DOMAIN files, NEW i \in 1..Len(files[s]), i <= synced[s], files[s][i] # Torn
      PROVE  i \in 1..Len(files'[s]) /\ i <= synced'[s] /\ files'[s][i] = files[s][i]
  <2>1. CASE s # L
    BY <2>1, <1>4, <1>6 DEF L
  <2>2. CASE s = L
    <3>1. /\ files[L] \in Seq(Entry) /\ synced[L] \in Nat /\ end \in 0..Len(files[L])
          /\ end = Len(files[L]) \/ files[L][end + 1] = Torn
          /\ files'[L] = SubSeq(files[L], 1, end) /\ synced'[L] = LoweredTo(synced[L], end)
      BY <1>5, <1>0, <2>2
    <3>2. i <= end
      <4>1. SUFFICES ASSUME end < i PROVE FALSE
        BY <3>1
      <4>2. end + 1 \in 1..Len(files[L]) /\ files[L][end + 1] = Torn /\ end + 1 <= i
        BY <4>1, <3>1, <2>2
      <4>3. end + 1 = Len(files[L])
        BY <4>2, <1>1, <2>2 DEF TornAtEnd
      <4>4. i = end + 1
        BY <4>2, <4>3, <2>2, <3>1
      <4> QED BY <4>2, <4>4, <1>6, <2>2
    <3>3. i \in 1..end /\ end <= Len(files[L])
      BY <3>1, <3>2
    <3>4. Len(files'[L]) = end /\ files'[L][i] = files[L][i]
      BY <3>1, <3>3
    <3>5. i <= synced'[L]
      BY <3>1, <3>2, <1>6, <2>2 DEF LoweredTo
    <3> QED BY <2>2, <3>3, <3>4, <3>5
  <2> QED BY <2>1, <2>2
<1>7. ASSUME NEW s \in DOMAIN files, NEW i \in 1..Len(files'[s]), i <= synced'[s]
      PROVE  i \in 1..Len(files[s]) /\ i <= synced[s] /\ files'[s][i] = files[s][i]
  <2>1. CASE s # L
    BY <2>1, <1>4, <1>7 DEF L
  <2>2. CASE s = L
    <3>1. /\ files[L] \in Seq(Entry) /\ synced[L] \in Nat /\ end \in 0..Len(files[L])
          /\ files'[L] = SubSeq(files[L], 1, end) /\ synced'[L] = LoweredTo(synced[L], end)
      BY <1>5, <1>0, <2>2
    <3>2. Len(files'[L]) = end
      BY <3>1
    <3>3. i \in 1..end /\ end <= Len(files[L])
      BY <3>1, <3>2, <2>2
    <3>4. files'[L][i] = files[L][i]
      BY <3>1, <3>3
    <3>5. i <= synced[L]
      BY <3>1, <3>3, <1>7, <2>2 DEF LoweredTo
    <3> QED BY <2>2, <3>1, <3>3, <3>4, <3>5
  <2> QED BY <2>1, <2>2
<1>8. Stable' = Stable
  <2>1. ASSUME NEW r \in Stable PROVE r \in Stable'
    <3>1. PICK s \in DOMAIN files : \E i \in 1..Len(files[s]) :
             i <= synced[s] /\ r = files[s][i] /\ r # Torn
      BY <2>1, <1>1 DEF StableIs
    <3>2. PICK i \in 1..Len(files[s]) : i <= synced[s] /\ r = files[s][i] /\ r # Torn
      BY <3>1
    <3>3. i \in 1..Len(files'[s]) /\ i <= synced'[s] /\ files'[s][i] = r
      BY <3>2, <1>6
    <3> QED BY <3>2, <3>3, <1>1, <1>4 DEF StableIs
  <2>2. ASSUME NEW r \in Stable' PROVE r \in Stable
    <3>1. PICK s \in DOMAIN files' : \E i \in 1..Len(files'[s]) :
             i <= synced'[s] /\ r = files'[s][i] /\ r # Torn
      BY <2>2, <1>1 DEF StableIs
    <3>2. PICK i \in 1..Len(files'[s]) : i <= synced'[s] /\ r = files'[s][i] /\ r # Torn
      BY <3>1
    <3>3. s \in DOMAIN files /\ i \in 1..Len(files[s]) /\ i <= synced[s] /\ files[s][i] = r
      BY <3>2, <1>4, <1>7
    <3> QED BY <3>2, <3>3, <1>1 DEF StableIs
  <2> QED BY <2>1, <2>2
<1> QED BY <1>1, <1>2, <1>3, <1>8, SameView DEF Log!Reopen, Records

\* A step that touches neither the files nor the checkpoint file.
LEMMA DiskUntouched ==
    ASSUME Base, Order, Base', Order', UNCHANGED disk
    PROVE  LastRecord' = LastRecord /\ Records' = Records /\ StableTo' = StableTo
<1>1. UNCHANGED <<files, synced, ckptFile>>
  BY DEF disk
<1>2. OnDisk' = OnDisk /\ Stable' = Stable
  BY <1>1 DEF OnDisk, Stable, ValidTo
<1> QED BY <1>1, <1>2, ViewHolds, ViewHoldsNext, SameView

\* Every step is one of DurableLog's, or changes nothing it sees.
LEMMA LogStep ==
    ASSUME SoundOptions, Bounded, Bounded', Base, Order, Base', Order', [Next]_vars
    PROVE  [Log!LogNext]_(Log!logVars)
<1>1. CASE AppendOk
  BY <1>1, AcceptStep DEF Log!LogNext
<1>2. CASE WriteFails \/ AppendSyncFails \/ RotateFails \/ OpenSegmentFails \/ SyncActive
  BY <1>2, HardenStep DEF Log!LogNext
<1>3. ASSUME NEW seq \in 1..(nextSeq - 1), SetCheckpoint(seq) \/ CrashInCheckpoint(seq)
      PROVE  Log!LogNext
  BY <1>3, SettleStep DEF Log!LogNext
<1>4. CASE CrashInAppend
  BY <1>4, DieAppendingStep DEF Log!LogNext
<1>5. CASE PowerLoss
  <2>1. faults = 0 /\ ~CkptLossy
    <3>1. losses < MaxLosses
      BY <1>5 DEF PowerLoss
    <3>2. losses \in Nat /\ faults \in Nat
      BY DEF Base, TypeOK
    <3>3. MaxFaults = 0
      BY <3>1, <3>2 DEF SoundOptions
    <3> QED BY <3>2, <3>3 DEF SoundOptions, Bounded
  <2> QED BY <1>5, <2>1, LosePowerStep DEF Log!LogNext
<1>6. CASE Open
  BY <1>6, ReopenStep DEF Log!LogNext
<1>7. CASE Crash
  <2>1. up /\ up' = FALSE /\ UNCHANGED disk /\ ckptFile' = ckptFile
    BY <1>7 DEF Crash, ProcessStops, Stops, disk
  <2>2. LastRecord' = LastRecord /\ Records' = Records /\ StableTo' = StableTo
    BY <2>1, DiskUntouched
  <2>3. Log!Die
    BY <2>1, <2>2 DEF Log!Die, Records
  <2> QED BY <2>3 DEF Log!LogNext
<1>8. CASE UNCHANGED vars \/ \E seq \in 1..(nextSeq - 1) : CheckpointFails(seq)
  <2>1. UNCHANGED disk /\ UNCHANGED up
    BY <1>8 DEF vars, mem, CheckpointFails
  <2>2. LastRecord' = LastRecord /\ Records' = Records /\ StableTo' = StableTo /\ ckptFile' = ckptFile
    BY <2>1, DiskUntouched DEF disk
  <2> QED BY <2>1, <2>2 DEF Log!logVars, Records
<1> QED BY <1>1, <1>2, <1>3, <1>4, <1>5, <1>6, <1>7, <1>8 DEF Next

\* It starts as an empty list.
LEMMA LogStarts ==
    ASSUME Init, LogView
    PROVE  Log!LogInit
<1>1. up = FALSE /\ ckptFile = 0 /\ OnDisk = {}
  BY DEF Init, OnDisk
<1>2. LastRecord = 0
  <2>1. LastRecord \in Nat /\ (1 \in (ckptFile + 1)..LastRecord => \E r \in OnDisk : r.seq = 1)
    BY DEF LogView
  <2> QED BY <1>1, <2>1
<1>3. StableTo = 0
  BY <1>1, <1>2 DEF LogView
<1>4. Records = [s \in 1..0 |-> 0]
  BY <1>1, <1>2 DEF Records
<1> QED BY <1>1, <1>2, <1>3, <1>4 DEF Log!LogInit, Records

\* Segments, torn tails, rollbacks, pruning and renumbering never show: the log
\* is a numbered list that a power loss can only shorten, down to what is
\* stable.  The ingest path is built on this list.
THEOREM ImplementsTheList ==
    ASSUME SoundOptions
    PROVE  Spec => ImplementsDurableLog
<1>1. Init /\ (Base /\ Order) => Log!LogInit
  BY ViewHolds, LogStarts
<1>2. Bounded /\ Bounded' /\ (Base /\ Order) /\ (Base /\ Order)' /\ [Next]_vars
         => [Log!LogNext]_(Log!logVars)
  BY LogStep
<1>3. Spec => [](Base /\ Order)
  BY OrderKept
<1> QED BY <1>1, <1>2, <1>3, BoundsKept, PTL DEF Spec, ImplementsDurableLog, Log!LogSpec
=============================================================================
