---------------------------- MODULE Tail_proofs ----------------------------
(***************************************************************************)
(* Machine-checked proofs about live tail, for any number of streams,      *)
(* events and connections and every buffer: no channel is closed twice,    *)
(* nothing is sent on a closed one, and what is committed while a stream   *)
(* is open reaches it exactly once.                                        *)
(***************************************************************************)
EXTENDS Tail, FiniteSetTheorems, TLAPS

-----------------------------------------------------------------------------
(* The hub's channels. *)

\* What Publish has still to send, it sends under the read lock, to streams that
\* are registered; a channel is closed with the removal of its stream.
HubInv ==
    /\ DOMAIN unsent = Streams
    /\ closes \in [Streams -> {0, 1}]
    /\ \A c \in Streams : c \in subs => closes[c] = 0
    /\ \A c \in Streams : unsent[c] # <<>> => Locked /\ c \in subs

\* No stream is registered.
LEMMA HubInit == TailInit => HubInv
BY DEF TailInit, HubInv

\* evict and Close look the stream up under the lock; neither runs while
\* Publish sends.
LEMMA UnregisterKeeps ==
    ASSUME HubInv, NEW c \in Streams, Unregister(c), ~Locked, ~Locked', unsent' = unsent
    PROVE  HubInv'
<1>1. \A d \in Streams : unsent[d] = <<>>
  BY DEF HubInv
<1>2. closes' \in [Streams -> {0, 1}]
  BY DEF HubInv, Unregister
<1>3. \A d \in Streams : d \in subs' => closes'[d] = 0
  BY DEF HubInv, Unregister
<1> QED BY <1>1, <1>2, <1>3 DEF HubInv

\* Each step keeps the invariant.
LEMMA HubStep == HubInv /\ [TailNext]_tailVars => HubInv'
<1> SUFFICES ASSUME HubInv, [TailNext]_tailVars PROVE HubInv'
  OBVIOUS
<1>1. ASSUME UNCHANGED <<unsent, subs, closes>>, Locked' = Locked
      PROVE  HubInv'
  BY <1>1 DEF HubInv
<1>2. ASSUME UNCHANGED <<writerVars, subs, closes>> PROVE HubInv'
  BY <1>1, <1>2 DEF writerVars, Locked
<1>3. CASE CommitBatch
  BY <1>1, <1>3 DEF CommitBatch, hubVars, Locked
<1>4. CASE Publish
  BY <1>4 DEF Publish, hubVars, Locked, HubInv
<1>5. ASSUME NEW c \in Streams, Offer(c) PROVE HubInv'
  <2>1. /\ unsent[c] # <<>> /\ unsent' = [unsent EXCEPT ![c] = Tail(@)]
        /\ Locked /\ Locked'
        /\ UNCHANGED <<subs, closes>>
    BY <1>5 DEF Offer, Locked
  <2> QED BY <2>1 DEF HubInv
<1>6. CASE PublishDone
  BY <1>6 DEF PublishDone, hubVars, HubInv
<1>7. ASSUME NEW c \in Streams, NEW n \in 1..MaxConnects, Evict(c, n) PROVE HubInv'
  <2>1. unsent' = unsent /\ writing = "evicting" /\ writing' = "evicting"
    BY <1>7 DEF Evict
  <2>2. CASE Unregister(c)
    BY <2>1, <2>2, UnregisterKeeps DEF Locked
  <2>3. CASE UNCHANGED <<subs, closes>>
    BY <1>1, <2>1, <2>3 DEF Locked
  <2> QED BY <1>7, <2>2, <2>3 DEF Evict
<1>8. CASE WriteDone
  BY <1>1, <1>8 DEF WriteDone, hubVars, Locked
<1>9. ASSUME NEW c \in Streams, Connect(c) PROVE HubInv'
  <2>1. /\ ~Locked /\ UNCHANGED <<unsent, writing>>
        /\ subs' = subs \cup {c} /\ closes' = [closes EXCEPT ![c] = 0]
    BY <1>9 DEF Connect, Subscribes, writerVars
  <2> QED BY <2>1 DEF HubInv, Locked
<1>10. ASSUME NEW c \in Streams, CloseSub(c) PROVE HubInv'
  BY <1>10, UnregisterKeeps DEF CloseSub, writerVars, Locked
<1>11. ASSUME NEW c \in Streams,
              ReadHistory(c) \/ Replay(c) \/ GoLive(c) \/ Receive(c) \/ Ping(c)
              \/ FrameWritten(c) \/ End(c) \/ Break(c)
       PROVE  HubInv'
  BY <1>2, <1>11 DEF ReadHistory, Replay, GoLive, Receive, Ping, FrameWritten, End, SeeClosed,
     SeeShutdown, Break, Leaves, hubVars
<1>12. CASE ShutDown \/ UNCHANGED tailVars
  BY <1>2, <1>12 DEF ShutDown, tailVars, hubVars, writerVars
<1> QED
  BY <1>3, <1>4, <1>5, <1>6, <1>7, <1>8, <1>9, <1>10, <1>11, <1>12
  DEF TailNext, Writer, Handler

\* However eviction, Close and Publish interleave, a channel is closed at most
\* once and never sent on afterwards (hub.go:62-117).
THEOREM NoSendOnClosed == TailSpec => []ClosedOnceUnsent
<1>1. HubInv => ClosedOnceUnsent
  BY DEF HubInv, ClosedOnceUnsent
<1> QED BY <1>1, HubInit, HubStep, PTL DEF TailSpec

-----------------------------------------------------------------------------
(* The history: the newest events, in their order. *)

\* The order of the naturals, as a set of pairs, is well founded.
LEMMA NatsInOrder == IsWellFoundedOn({p \in Nat \X Nat : p[1] < p[2]}, Nat)
<1>1. OpToRel(<, Nat) = {p \in Nat \X Nat : p[1] < p[2]}
  BY DEF OpToRel
<1> QED BY <1>1, NatLessThanWellFounded

\* A set of naturals has a least element.
LEMMA SomeLeast ==
    ASSUME NEW S \in SUBSET Nat, S # {}
    PROVE  \E m \in S : \A x \in S : m <= x
<1> DEFINE R == {p \in Nat \X Nat : p[1] < p[2]}
<1>1. IsWellFoundedOn(R, Nat)
  BY NatsInOrder
<1>2. \A x, y \in Nat : x < y => <<x, y>> \in R
  OBVIOUS
<1> HIDE DEF R
<1>3. PICK m \in S : \A y \in S : ~(<<y, m>> \in R)
  BY <1>1, WFMin
<1>4. ASSUME NEW x \in S PROVE m <= x
  <2>1. x \in Nat /\ m \in Nat /\ ~(<<x, m>> \in R)
    BY <1>3
  <2>2. ~(x < m)
    BY <2>1, <1>2
  <2> QED BY <2>1, <2>2
<1> QED BY <1>4

\* Newer orders the events: by time, then by ID.
LEMMA NewerOrders ==
    /\ \A e \in Events : ~Newer(e, e)
    /\ \A e, f \in Events : e = f \/ Newer(e, f) \/ Newer(f, e)
    /\ \A e, f, g \in Events : Newer(e, f) /\ Newer(f, g) => Newer(e, g)
<1>1. \A e \in Events : e \in Nat /\ Stamp[e] \in Nat
  BY TailAssumption DEF TailAssumption
<1> QED BY <1>1 DEF Newer

\* What a proper set of events has one of, and with it all smaller sets.
HasNewest(S) == \E m \in S : \A x \in S \ {m} : Newer(m, x)
OldestFirst(S, s) == s \in [1..Cardinality(S) -> S] /\ \A i, j \in DOMAIN s : i < j => Newer(s[j], s[i])
OfSize(n) == {S \in SUBSET Events : IsFiniteSet(S) /\ Cardinality(S) = n}

\* One element less.
LEMMA OneFewer ==
    ASSUME NEW n \in Nat, NEW S \in OfSize(n), n # 0, NEW x \in S
    PROVE  n - 1 \in Nat /\ S \ {x} \in OfSize(n - 1)
<1>1. IsFiniteSet(S) /\ Cardinality(S) = n /\ S \in SUBSET Events
  BY DEF OfSize
<1>2. IsFiniteSet(S \ {x}) /\ Cardinality(S \ {x}) = n - 1
  BY <1>1, FS_RemoveElement
<1> QED BY <1>1, <1>2 DEF OfSize

\* A finite set of events has a newest.
LEMMA Newest ==
    ASSUME NEW n \in Nat, NEW S \in OfSize(n), S # {}
    PROVE  HasNewest(S)
<1> DEFINE Bad == {k \in Nat : \E T \in OfSize(k) : T # {} /\ ~HasNewest(T)}
<1>1. SUFFICES ASSUME Bad # {} PROVE FALSE
  OBVIOUS
<1>2. PICK k \in Bad : \A x \in Bad : k <= x
  <2>1. Bad \in SUBSET Nat
    OBVIOUS
  <2> HIDE DEF Bad
  <2> QED BY <1>1, <2>1, SomeLeast
<1>3. PICK T \in OfSize(k) : T # {} /\ ~HasNewest(T)
  BY <1>2
<1>4. k \in Nat /\ k # 0 /\ T \in SUBSET Events
  <2>1. IsFiniteSet(T) /\ Cardinality(T) = k /\ T \in SUBSET Events
    BY DEF OfSize
  <2> QED BY <1>2, <1>3, <2>1, FS_EmptySet
<1>5. PICK x \in T : TRUE
  BY <1>3
<1>6. k - 1 \in Nat /\ T \ {x} \in OfSize(k - 1)
  BY <1>4, OneFewer
<1>7. k - 1 \notin Bad
  <2>1. ~(k <= k - 1)
    BY <1>4
  <2> QED BY <1>2, <2>1
<1>8. CASE T \ {x} = {}
  BY <1>3, <1>8 DEF HasNewest
<1>9. CASE T \ {x} # {}
  <2>1. HasNewest(T \ {x})
    BY <1>6, <1>7, <1>9
  <2>2. PICK m \in T \ {x} : \A y \in (T \ {x}) \ {m} : Newer(m, y)
    BY <2>1 DEF HasNewest
  <2>3. CASE Newer(x, m)
    <3>1. \A y \in T \ {x} : Newer(x, y)
      BY <1>4, <2>2, <2>3, NewerOrders
    <3> QED BY <1>3, <3>1 DEF HasNewest
  <2>4. CASE ~Newer(x, m)
    <3>1. Newer(m, x)
      BY <1>4, <2>2, <2>4, NewerOrders
    <3>2. \A y \in T \ {m} : Newer(m, y)
      BY <2>2, <3>1
    <3> QED BY <1>3, <3>2 DEF HasNewest
  <2> QED BY <2>3, <2>4
<1> QED BY <1>8, <1>9

\* A finite set of events can be put in order.
LEMMA Orderable ==
    ASSUME NEW n \in Nat, NEW S \in OfSize(n)
    PROVE  \E s : OldestFirst(S, s)
<1> DEFINE Bad == {k \in Nat : \E T \in OfSize(k) : ~\E s : OldestFirst(T, s)}
<1>1. SUFFICES ASSUME Bad # {} PROVE FALSE
  OBVIOUS
<1>2. PICK k \in Bad : \A x \in Bad : k <= x
  <2>1. Bad \in SUBSET Nat
    OBVIOUS
  <2> HIDE DEF Bad
  <2> QED BY <1>1, <2>1, SomeLeast
<1>3. PICK T \in OfSize(k) : ~\E s : OldestFirst(T, s)
  BY <1>2
<1>4. k \in Nat /\ T \in SUBSET Events /\ IsFiniteSet(T) /\ Cardinality(T) = k
  BY <1>2 DEF OfSize
<1>5. k # 0
  <2>1. SUFFICES ASSUME k = 0 PROVE FALSE
    OBVIOUS
  <2>2. OldestFirst(T, [i \in 1..0 |-> 0])
    BY <1>4, <2>1 DEF OldestFirst
  <2> QED BY <1>3, <2>2
<1>6. T # {}
  BY <1>4, <1>5, FS_EmptySet
<1>7. PICK m \in T : \A x \in T \ {m} : Newer(m, x)
  BY <1>4, <1>6, Newest DEF HasNewest
<1>8. k - 1 \in Nat /\ T \ {m} \in OfSize(k - 1)
  BY <1>4, <1>5, OneFewer
<1>9. k - 1 \notin Bad
  <2>1. ~(k <= k - 1)
    BY <1>4
  <2> QED BY <1>2, <2>1
<1>10. PICK t : OldestFirst(T \ {m}, t)
  BY <1>8, <1>9
<1>11. t \in [1..(k - 1) -> T \ {m}] /\ \A i, j \in 1..(k - 1) : i < j => Newer(t[j], t[i])
  BY <1>8, <1>10 DEF OldestFirst, OfSize
<1> DEFINE s == [i \in 1..k |-> IF i = k THEN m ELSE t[i]]
<1>12. /\ \A i \in 1..k : i = k \/ i \in 1..(k - 1)
       /\ \A i, j \in 1..k : i < j => i \in 1..(k - 1)
  BY <1>4
<1>13. s \in [1..k -> T]
  BY <1>11, <1>12
<1>14. ASSUME NEW i \in 1..k, NEW j \in 1..k, i < j PROVE Newer(s[j], s[i])
  <2>1. i \in 1..(k - 1) /\ i # k /\ s[i] = t[i] /\ t[i] \in T \ {m}
    BY <1>4, <1>11, <1>12, <1>14
  <2>2. CASE j = k
    BY <1>7, <2>1, <2>2
  <2>3. CASE j # k
    <3>1. j \in 1..(k - 1) /\ s[j] = t[j]
      BY <1>12, <2>3
    <3> QED BY <1>11, <1>14, <2>1, <3>1
  <2> QED BY <2>2, <2>3
<1>15. OldestFirst(T, s)
  BY <1>4, <1>13, <1>14 DEF OldestFirst
<1> QED BY <1>3, <1>15

\* The history is what the store has that the query wants, each event once.
LEMMA BackfillIsHistory ==
    ASSUME IsFiniteSet(stored), stored \subseteq Events
    PROVE  /\ Backfill \in Seq(Wanted) /\ IsInjective(Backfill)
           /\ ToSet(Backfill) \subseteq stored
<1> DEFINE matching == stored \cap Wanted
           newest   == {e \in matching : Cardinality({f \in matching : Newer(f, e)}) < Limit}
<1>1. IsFiniteSet(newest) /\ newest \in SUBSET Events /\ newest \subseteq Wanted /\ newest \subseteq stored
  <2>1. newest \subseteq stored
    OBVIOUS
  <2>2. IsFiniteSet(newest)
    BY <2>1, FS_Subset
  <2> QED BY <2>1, <2>2
<1>2. Cardinality(newest) \in Nat
  BY <1>1, FS_CardinalityType
<1>3. Backfill = CHOOSE s \in [1..Cardinality(newest) -> newest] :
                    \A i, j \in DOMAIN s : i < j => Newer(s[j], s[i])
  BY DEF Backfill
<1> HIDE DEF newest
<1>4. \E s : OldestFirst(newest, s)
  BY <1>1, <1>2, Orderable DEF OfSize
<1>5. /\ Backfill \in [1..Cardinality(newest) -> newest]
      /\ \A i, j \in DOMAIN Backfill : i < j => Newer(Backfill[j], Backfill[i])
  BY <1>3, <1>4 DEF OldestFirst
<1>6. Backfill \in Seq(Wanted) /\ ToSet(Backfill) \subseteq stored
  BY <1>1, <1>2, <1>5 DEF ToSet
<1>7. ASSUME NEW i \in DOMAIN Backfill, NEW j \in DOMAIN Backfill, Backfill[i] = Backfill[j]
      PROVE  i = j
  <2>1. i \in Nat /\ j \in Nat /\ Backfill[i] \in Events /\ Backfill[j] \in Events
    BY <1>1, <1>2, <1>5
  <2>2. ~Newer(Backfill[i], Backfill[j]) /\ ~Newer(Backfill[j], Backfill[i])
    BY <1>7, <2>1, NewerOrders
  <2>3. ~(i < j) /\ ~(j < i)
    BY <1>5, <2>2
  <2> QED BY <2>1, <2>3
<1> QED BY <1>6, <1>7 DEF IsInjective

-----------------------------------------------------------------------------
(* Queues of distinct events. *)

\* One more at the end.
LEMMA AppendSet ==
    ASSUME NEW S, NEW s \in Seq(S), NEW e \in S
    PROVE  /\ Append(s, e) \in Seq(S) /\ ToSet(Append(s, e)) = ToSet(s) \cup {e}
           /\ IsInjective(s) /\ e \notin ToSet(s) => IsInjective(Append(s, e))
<1> DEFINE t == Append(s, e)
<1>1. /\ Len(s) \in Nat /\ t \in Seq(S) /\ Len(t) = Len(s) + 1 /\ DOMAIN s = 1..Len(s) /\ DOMAIN t = 1..Len(t)
      /\ \A i \in 1..Len(s) : t[i] = s[i] /\ i \in 1..Len(t)
      /\ t[Len(s) + 1] = e /\ Len(s) + 1 \in 1..Len(t)
      /\ \A i \in 1..Len(t) : i \in 1..Len(s) \/ i = Len(s) + 1
  OBVIOUS
<1> HIDE DEF t
<1>2. ToSet(t) = ToSet(s) \cup {e}
  BY <1>1 DEF ToSet
<1>3. ASSUME IsInjective(s), e \notin ToSet(s) PROVE IsInjective(t)
  <2>1. \A i \in 1..Len(s) : s[i] # e
    BY <1>1, <1>3 DEF ToSet
  <2>2. \A i, j \in 1..Len(s) : s[i] = s[j] => i = j
    BY <1>1, <1>3 DEF IsInjective
  <2> QED BY <1>1, <2>1, <2>2 DEF IsInjective
<1> QED BY <1>1, <1>2, <1>3 DEF t

\* One less at the front.
LEMMA TailSet ==
    ASSUME NEW S, NEW s \in Seq(S), s # <<>>
    PROVE  /\ Head(s) \in S /\ Tail(s) \in Seq(S) /\ Len(Tail(s)) <= Len(s)
           /\ ToSet(s) = ToSet(Tail(s)) \cup {Head(s)}
           /\ IsInjective(s) => IsInjective(Tail(s)) /\ Head(s) \notin ToSet(Tail(s))
<1> DEFINE t == Tail(s)
<1>1. /\ Len(s) \in Nat /\ t \in Seq(S) /\ Len(t) = Len(s) - 1 /\ DOMAIN s = 1..Len(s) /\ DOMAIN t = 1..Len(t)
      /\ 1 \in 1..Len(s) /\ Head(s) = s[1]
      /\ \A i \in 1..Len(t) : t[i] = s[i + 1] /\ i + 1 \in 1..Len(s) /\ i + 1 # 1
  OBVIOUS
<1> HIDE DEF t
<1>2. \A i \in 1..Len(s) : i = 1 \/ (i - 1 \in 1..Len(t) /\ t[i - 1] = s[i])
  <2> SUFFICES ASSUME NEW i \in 1..Len(s), i # 1 PROVE i - 1 \in 1..Len(t) /\ t[i - 1] = s[i]
    OBVIOUS
  <2>1. i - 1 \in 1..Len(t) /\ (i - 1) + 1 = i
    BY <1>1
  <2> QED BY <1>1, <2>1
<1>3. ToSet(s) = ToSet(t) \cup {Head(s)}
  <2>1. ASSUME NEW x \in ToSet(s) PROVE x \in ToSet(t) \cup {Head(s)}
    <3>1. PICK i \in 1..Len(s) : x = s[i]
      BY <1>1, <2>1 DEF ToSet
    <3>2. CASE i = 1
      BY <1>1, <3>1, <3>2
    <3>3. CASE i # 1
      BY <1>1, <1>2, <3>1, <3>3 DEF ToSet
    <3> QED BY <3>2, <3>3
  <2>2. ASSUME NEW x \in ToSet(t) PROVE x \in ToSet(s)
    <3>1. PICK i \in 1..Len(t) : x = t[i]
      BY <1>1, <2>2 DEF ToSet
    <3>2. x = s[i + 1] /\ i + 1 \in DOMAIN s
      BY <1>1, <3>1
    <3> QED BY <3>2 DEF ToSet
  <2>3. Head(s) \in ToSet(s)
    BY <1>1 DEF ToSet
  <2> QED BY <2>1, <2>2, <2>3
<1>4. ASSUME IsInjective(s) PROVE IsInjective(t) /\ Head(s) \notin ToSet(t)
  <2>1. \A i, j \in 1..Len(s) : s[i] = s[j] => i = j
    BY <1>1, <1>4 DEF IsInjective
  <2>2. \A i \in 1..Len(t) : t[i] # s[1]
    BY <1>1, <2>1
  <2>3. \A i, j \in 1..Len(t) : t[i] = t[j] => i = j
    <3> SUFFICES ASSUME NEW i \in 1..Len(t), NEW j \in 1..Len(t), t[i] = t[j] PROVE i = j
      OBVIOUS
    <3>1. i + 1 = j + 1
      BY <1>1, <2>1
    <3> QED BY <1>1, <3>1
  <2> QED BY <1>1, <2>2, <2>3 DEF IsInjective, ToSet
<1>5. Head(s) \in S /\ Len(t) <= Len(s)
  BY <1>1
<1> QED BY <1>1, <1>3, <1>4, <1>5 DEF t

\* Nothing in an empty queue.
LEMMA EmptyQueue == ToSet(<<>>) = {} /\ IsInjective(<<>>)
BY DEF ToSet, IsInjective

\* A batch is one event or two, new to the store.
LEMMA Batch ==
    ASSUME CommitBatch
    PROVE  /\ fresh' \in Seq(Events) /\ IsInjective(fresh')
           /\ ToSet(fresh') \subseteq Events \ stored
           /\ IsFiniteSet(ToSet(fresh'))
<1>1. PICK e \in Events \ stored :
        fresh' = <<e>> \/ \E f \in Events \ (stored \cup {e}) : fresh' = <<e, f>>
  BY DEF CommitBatch
<1>2. CASE fresh' = <<e>>
  <2>1. fresh' \in Seq(Events) /\ DOMAIN fresh' = {1} /\ fresh'[1] = e
    BY <1>2
  <2>2. ToSet(fresh') = {e} /\ IsInjective(fresh')
    BY <2>1 DEF ToSet, IsInjective
  <2>3. IsFiniteSet({e})
    BY FS_Singleton
  <2> QED BY <2>1, <2>2, <2>3
<1>3. ASSUME NEW f \in Events \ (stored \cup {e}), fresh' = <<e, f>>
      PROVE  /\ fresh' \in Seq(Events) /\ IsInjective(fresh')
             /\ ToSet(fresh') \subseteq Events \ stored
             /\ IsFiniteSet(ToSet(fresh'))
  <2>1. fresh' \in Seq(Events) /\ DOMAIN fresh' = {1, 2} /\ fresh'[1] = e /\ fresh'[2] = f
    BY <1>3
  <2>2. ToSet(fresh') = {e} \cup {f} /\ IsInjective(fresh')
    BY <1>3, <2>1 DEF ToSet, IsInjective
  <2>3. IsFiniteSet({e} \cup {f})
    BY FS_Singleton, FS_AddElement
  <2> QED BY <1>3, <2>1, <2>2, <2>3
<1> QED BY <1>1, <1>2, <1>3

-----------------------------------------------------------------------------
(* Types. *)

\* A registered stream has a connection; a store is finite.
TypeInv ==
    /\ TailTypeOK
    /\ DOMAIN channel = Streams
    /\ IsFiniteSet(stored)
    /\ \A c \in subs : at[c] # "off" /\ connects[c] >= 1

\* Everything is off.
LEMMA TypeInit == TailInit => TypeInv
<1> SUFFICES ASSUME TailInit PROVE TypeInv
  OBVIOUS
<1>1. TailTypeOK
  <2>1. Buffer \in Nat /\ MaxConnects \in Nat
    BY TailAssumption DEF TailAssumption
  <2>2. channel = [c \in Streams |-> <<>>] /\ \A c \in Streams : <<>> \in Seq(Wanted) /\ Len(<<>>) <= Buffer
    BY <2>1 DEF TailInit
  <2>3. /\ unsent = [c \in Streams |-> <<>>] /\ history = unsent /\ shown = unsent /\ fresh = <<>>
        /\ <<>> \in Seq(Events) /\ <<>> \in Seq(Wanted)
    BY DEF TailInit
  <2>4. unsent \in [Streams -> Seq(Events)] /\ history \in [Streams -> Seq(Wanted)]
        /\ shown \in [Streams -> Seq(Wanted)] /\ fresh \in Seq(Events)
    BY <2>3
  <2>5. \A c \in Streams : channel[c] \in Seq(Wanted) /\ Len(channel[c]) <= Buffer
    BY <2>2
  <2>6. /\ stored = {} /\ writing = "idle" /\ toEvict = {} /\ subs = {} /\ shutdown = FALSE
        /\ closes \in [Streams -> Nat] /\ dropped \in [Streams -> Nat]
        /\ at \in [Streams -> {"off", "subscribed", "history", "live", "leaving"}]
        /\ resume \in [Streams -> Events \cup {None}] /\ lastId \in [Streams -> Wanted \cup {None}]
        /\ replayed \in [Streams -> SUBSET Wanted] /\ joined \in [Streams -> SUBSET Events]
        /\ connects \in [Streams -> 0..MaxConnects]
        /\ frame \in [Streams -> {<<>>} \cup {<<e>> : e \in Wanted \cup {None}}]
        /\ skipped \in [Streams -> SUBSET Wanted]
    BY <2>1 DEF TailInit
  <2> QED BY <2>4, <2>5, <2>6 DEF TailTypeOK
<1> QED BY <1>1, FS_EmptySet DEF TailInit, TypeInv

\* The batch writer's steps.
LEMMA WriterTypes ==
    ASSUME HubInv, TypeInv,
           CommitBatch \/ Publish \/ PublishDone \/ WriteDone
             \/ (\E c \in Streams : Offer(c) \/ \E n \in 1..MaxConnects : Evict(c, n))
    PROVE  TypeInv'
<1>1. TailTypeOK /\ DOMAIN channel = Streams /\ IsFiniteSet(stored) /\ \A c \in subs : at[c] # "off" /\ connects[c] >= 1
  BY DEF TypeInv
<1>2. CASE CommitBatch
  <2>1. /\ fresh' \in Seq(Events) /\ ToSet(fresh') \subseteq Events /\ IsFiniteSet(ToSet(fresh'))
    BY <1>2, Batch
  <2>2. stored' = stored \cup ToSet(fresh') /\ writing' = "committed"
        /\ UNCHANGED <<unsent, toEvict, hubVars, handlerVars, shutdown, clientVars>>
    BY <1>2 DEF CommitBatch
  <2>3. IsFiniteSet(stored') /\ stored' \subseteq Events
    BY <1>1, <2>1, <2>2, FS_Union DEF TailTypeOK
  <2> QED BY <1>1, <2>1, <2>2, <2>3 DEF TypeInv, TailTypeOK, hubVars, handlerVars, clientVars
<1>3. CASE Publish
  <2>1. unsent' \in [Streams -> Seq(Events)]
    BY <1>1, <1>3 DEF Publish, TailTypeOK
  <2> QED BY <1>1, <1>3, <2>1 DEF Publish, TypeInv, TailTypeOK, hubVars, handlerVars, clientVars
<1>4. CASE PublishDone \/ WriteDone
  <2>1. <<>> \in Seq(Events)
    OBVIOUS
  <2>2. /\ fresh' = fresh \/ fresh' = <<>>
        /\ writing' \in {"evicting", "idle"}
        /\ UNCHANGED <<stored, unsent, toEvict, hubVars, handlerVars, shutdown, clientVars>>
    BY <1>4 DEF PublishDone, WriteDone
  <2>3. fresh' \in Seq(Events)
    BY <1>1, <2>1, <2>2 DEF TailTypeOK
  <2> QED BY <1>1, <2>2, <2>3 DEF TypeInv, TailTypeOK, hubVars, handlerVars, clientVars
<1>5. ASSUME NEW c \in Streams, Offer(c) PROVE TypeInv'
  <2>1. /\ unsent[c] # <<>> /\ unsent' = [unsent EXCEPT ![c] = Tail(@)]
        /\ IF Head(unsent[c]) \in Wanted THEN SendOrDrop(c) ELSE UNCHANGED <<channel, dropped, toEvict>>
        /\ UNCHANGED <<stored, writing, fresh, subs, closes, handlerVars, shutdown, clientVars>>
    BY <1>5 DEF Offer
  <2>2. unsent' \in [Streams -> Seq(Events)]
    <3>1. unsent[c] \in Seq(Events)
      BY <1>1 DEF TailTypeOK
    <3>2. Tail(unsent[c]) \in Seq(Events)
      BY <2>1, <3>1, TailSet
    <3> QED BY <1>1, <2>1, <3>2 DEF TailTypeOK
  <2>3. /\ \A d \in Streams : channel'[d] \in Seq(Wanted) /\ Len(channel'[d]) <= Buffer
        /\ dropped' \in [Streams -> Nat]
        /\ toEvict' \subseteq Streams \X (1..MaxConnects)
        /\ DOMAIN channel' = Streams
    <3>1. /\ \A d \in Streams : channel[d] \in Seq(Wanted) /\ Len(channel[d]) <= Buffer
          /\ dropped \in [Streams -> Nat] /\ toEvict \subseteq Streams \X (1..MaxConnects)
          /\ Buffer \in Nat
      BY <1>1, TailAssumption DEF TailTypeOK, TailAssumption
    <3>2. CASE UNCHANGED <<channel, dropped, toEvict>>
      BY <1>1, <3>1, <3>2
    <3>3. CASE Head(unsent[c]) \in Wanted /\ Len(channel[c]) < Buffer
      <4>1. channel' = [channel EXCEPT ![c] = Append(@, Head(unsent[c]))]
            /\ UNCHANGED <<dropped, toEvict>>
        BY <2>1, <3>3 DEF SendOrDrop
      <4>2. Append(channel[c], Head(unsent[c])) \in Seq(Wanted)
            /\ Len(Append(channel[c], Head(unsent[c]))) <= Buffer
        BY <3>1, <3>3
      <4>3. ASSUME NEW d \in Streams PROVE channel'[d] \in Seq(Wanted) /\ Len(channel'[d]) <= Buffer
        <5>1. CASE d = c
          BY <1>1, <4>1, <4>2, <5>1
        <5>2. CASE d # c
          BY <3>1, <4>1, <5>2
        <5> QED BY <5>1, <5>2
      <4> QED BY <1>1, <3>1, <4>1, <4>2, <4>3
    <3>4. CASE Head(unsent[c]) \in Wanted /\ ~(Len(channel[c]) < Buffer)
      <4>1. /\ dropped' = [dropped EXCEPT ![c] = @ + 1] /\ channel' = channel
            /\ toEvict' \subseteq toEvict \cup {<<c, connects[c]>>}
        BY <2>1, <3>4 DEF SendOrDrop
      <4>2. connects[c] \in 1..MaxConnects
        <5>1. c \in subs
          BY <2>1 DEF HubInv
        <5> QED BY <1>1, <5>1 DEF TailTypeOK
      <4>3. dropped' \in [Streams -> Nat]
        BY <3>1, <4>1
      <4> QED BY <1>1, <3>1, <4>1, <4>2, <4>3
    <3> QED BY <2>1, <3>2, <3>3, <3>4
  <2> QED BY <1>1, <2>1, <2>2, <2>3 DEF TypeInv, TailTypeOK, handlerVars, clientVars
<1>6. ASSUME NEW c \in Streams, NEW n \in 1..MaxConnects, Evict(c, n) PROVE TypeInv'
  <2>1. /\ toEvict' \subseteq toEvict
        /\ Unregister(c) \/ UNCHANGED <<subs, closes>>
        /\ UNCHANGED <<stored, writing, fresh, unsent, channel, dropped, handlerVars, shutdown, clientVars>>
    BY <1>6 DEF Evict
  <2>2. subs' \subseteq subs /\ closes' \in [Streams -> Nat] /\ toEvict' \subseteq toEvict
    <3>1. closes \in [Streams -> Nat]
      BY <1>1 DEF TailTypeOK
    <3>2. \A k \in Nat : k + 1 \in Nat
      OBVIOUS
    <3> QED BY <1>6, <3>1, <3>2 DEF Unregister, Evict
  <2> QED BY <1>1, <2>1, <2>2 DEF TypeInv, TailTypeOK, handlerVars, clientVars
<1> QED BY <1>2, <1>3, <1>4, <1>5, <1>6

\* What a handler may be writing.
FrameTyped == frame \in [Streams -> {<<>>} \cup {<<e>> : e \in Wanted \cup {None}}]

\* A comment is a frame.
LEMMA CommentTyped ==
    ASSUME FrameTyped, NEW c \in Streams, WriteComment(c) PROVE FrameTyped'
BY DEF FrameTyped, WriteComment

\* So is an event that the query matches.
LEMMA EventTyped ==
    ASSUME FrameTyped, shown \in [Streams -> Seq(Wanted)],
           NEW c \in Streams, NEW e \in Wanted, WriteEvent(c, e)
    PROVE  FrameTyped' /\ shown' \in [Streams -> Seq(Wanted)] /\ UNCHANGED <<lastId, joined, connects>>
<1>1. Append(shown[c], e) \in Seq(Wanted)
  BY AppendSet
<1> QED BY <1>1 DEF WriteEvent, FrameTyped

\* The steps of a stream's handler, and the shutdown.
LEMMA HandlerTypes ==
    ASSUME TypeInv, NEW c \in Streams,
           Handler(c) \/ Connect(c) \/ Receive(c) \/ Ping(c) \/ FrameWritten(c) \/ End(c)
             \/ Break(c) \/ ShutDown
    PROVE  TypeInv'
<1>1. TailTypeOK /\ DOMAIN channel = Streams /\ IsFiniteSet(stored) /\ \A d \in subs : at[d] # "off" /\ connects[d] >= 1
  BY DEF TypeInv
<1>2. CASE Connect(c)
  <2>1. /\ UNCHANGED writerVars /\ UNCHANGED <<history, shutdown, lastId>>
        /\ subs' = subs \cup {c} /\ closes' = [closes EXCEPT ![c] = 0]
        /\ dropped' = [dropped EXCEPT ![c] = 0] /\ at' = [at EXCEPT ![c] = "subscribed"]
        /\ replayed' = [replayed EXCEPT ![c] = {}] /\ joined' = [joined EXCEPT ![c] = stored]
        /\ resume' = [resume EXCEPT ![c] = lastId[c]]
        /\ shown' = [shown EXCEPT ![c] = <<>>]
        /\ channel' = [channel EXCEPT ![c] = <<>>]
        /\ connects' = [connects EXCEPT ![c] = @ + 1] /\ connects[c] < MaxConnects
        /\ WriteComment(c) /\ skipped' = [skipped EXCEPT ![c] = {}]
    BY <1>2 DEF Connect, Subscribes
  <2>2. /\ subs' \subseteq Streams /\ closes' \in [Streams -> Nat] /\ dropped' \in [Streams -> Nat]
        /\ at' \in [Streams -> {"off", "subscribed", "history", "live", "leaving"}]
        /\ replayed' \in [Streams -> SUBSET Wanted] /\ joined' \in [Streams -> SUBSET Events]
    BY <1>1, <2>1 DEF TailTypeOK
  <2>3. resume' \in [Streams -> Events \cup {None}]
    <3>1. lastId[c] \in Events \cup {None}
      BY <1>1, TailAssumption DEF TailTypeOK, TailAssumption
    <3> QED BY <1>1, <2>1, <3>1 DEF TailTypeOK
  <2>4. shown' \in [Streams -> Seq(Wanted)]
    <3>1. <<>> \in Seq(Wanted)
      OBVIOUS
    <3> QED BY <1>1, <2>1, <3>1 DEF TailTypeOK
  <2>5. \A d \in Streams : channel'[d] \in Seq(Wanted) /\ Len(channel'[d]) <= Buffer
    <3>1. <<>> \in Seq(Wanted) /\ Len(<<>>) <= Buffer
      BY TailAssumption DEF TailAssumption
    <3>2. \A d \in Streams : channel'[d] = <<>> \/ channel'[d] = channel[d]
      BY <2>1
    <3> QED BY <1>1, <3>1, <3>2 DEF TailTypeOK
  <2>6. connects' \in [Streams -> 0..MaxConnects]
    <3>1. connects[c] + 1 \in 0..MaxConnects
      BY <1>1, <2>1, TailAssumption DEF TailTypeOK, TailAssumption
    <3> QED BY <1>1, <2>1, <3>1 DEF TailTypeOK
  <2>7. \A d \in subs' : at'[d] # "off" /\ connects'[d] >= 1
    <3>1. connects[c] \in Nat
      BY <1>1, TailAssumption DEF TailTypeOK, TailAssumption
    <3> QED BY <1>1, <2>1, <3>1 DEF TailTypeOK
  <2>8. FrameTyped' /\ skipped' \in [Streams -> SUBSET Wanted]
    BY <1>1, <2>1, CommentTyped DEF TailTypeOK, FrameTyped
  <2> QED BY <1>1, <2>1, <2>2, <2>3, <2>4, <2>5, <2>6, <2>7, <2>8 DEF TypeInv, TailTypeOK, writerVars, FrameTyped
<1>3. CASE ReadHistory(c)
  <2>1. /\ UNCHANGED <<writerVars, hubVars, resume, replayed, skipped, shutdown, clientVars>>
        /\ WriteComment(c) \/ UNCHANGED frame
        /\ \/ at' = [at EXCEPT ![c] = "history"] /\ history' = [history EXCEPT ![c] = Backfill]
           \/ at' = [at EXCEPT ![c] = "live"] /\ history' = history
    BY <1>3 DEF ReadHistory
  <2>2. Backfill \in Seq(Wanted)
    BY <1>1, BackfillIsHistory DEF TailTypeOK
  <2>3. history' \in [Streams -> Seq(Wanted)]
    <3>1. history \in [Streams -> Seq(Wanted)]
      BY <1>1 DEF TailTypeOK
    <3> QED BY <2>1, <2>2, <3>1
  <2>4. /\ at' \in [Streams -> {"off", "subscribed", "history", "live", "leaving"}]
        /\ \A d \in subs : at'[d] # "off"
    BY <1>1, <2>1 DEF TailTypeOK
  <2>5. FrameTyped'
    BY <1>1, <2>1, CommentTyped DEF TailTypeOK, FrameTyped
  <2> QED BY <1>1, <2>1, <2>3, <2>4, <2>5 DEF TypeInv, TailTypeOK, writerVars, hubVars, clientVars, FrameTyped
<1>4. CASE Replay(c)
  <2>1. /\ history[c] # <<>> /\ history' = [history EXCEPT ![c] = Tail(@)]
        /\ replayed' = [replayed EXCEPT ![c] = @ \cup {Head(history[c])}]
        /\ UNCHANGED <<frame, clientVars>> \/ WriteEvent(c, Head(history[c]))
        /\ skipped' = [skipped EXCEPT ![c] = @ \cup {Head(history[c])}] \/ UNCHANGED skipped
        /\ UNCHANGED <<writerVars, hubVars, at, resume, shutdown>>
    BY <1>4 DEF Replay
  <2>2. history[c] \in Seq(Wanted) /\ shown[c] \in Seq(Wanted)
    BY <1>1 DEF TailTypeOK
  <2>3. Head(history[c]) \in Wanted /\ Tail(history[c]) \in Seq(Wanted)
    BY <2>1, <2>2, TailSet
  <2>4. /\ history' \in [Streams -> Seq(Wanted)] /\ replayed' \in [Streams -> SUBSET Wanted]
        /\ skipped' \in [Streams -> SUBSET Wanted]
    <3>1. /\ history \in [Streams -> Seq(Wanted)] /\ replayed \in [Streams -> SUBSET Wanted]
          /\ skipped \in [Streams -> SUBSET Wanted]
      BY <1>1 DEF TailTypeOK
    <3>2. history' \in [Streams -> Seq(Wanted)] /\ replayed' \in [Streams -> SUBSET Wanted]
      BY <2>1, <2>3, <3>1
    <3>3. skipped' \in [Streams -> SUBSET Wanted]
      BY <2>1, <2>3, <3>1
    <3> QED BY <3>2, <3>3
  <2>5. shown' \in [Streams -> Seq(Wanted)] /\ FrameTyped' /\ UNCHANGED <<lastId, joined, connects>>
    <3>1. shown \in [Streams -> Seq(Wanted)] /\ FrameTyped
      BY <1>1 DEF TailTypeOK, FrameTyped
    <3>2. UNCHANGED <<frame, clientVars>> \/ WriteEvent(c, Head(history[c]))
      BY <2>1
    <3>3. CASE UNCHANGED <<frame, clientVars>>
      BY <3>1, <3>3 DEF clientVars, FrameTyped
    <3>4. CASE WriteEvent(c, Head(history[c]))
      BY <2>3, <3>1, <3>4, EventTyped
    <3> QED BY <3>2, <3>3, <3>4
  <2> QED BY <1>1, <2>1, <2>4, <2>5 DEF TypeInv, TailTypeOK, writerVars, hubVars, FrameTyped
<1>5. CASE Receive(c)
  <2>1. /\ channel[c] # <<>> /\ channel' = [channel EXCEPT ![c] = Tail(@)]
        /\ ShowUnlessReplayed(c, Head(channel[c]))
        /\ UNCHANGED <<writerVars, subs, closes, dropped, at, resume, history, skipped, shutdown>>
    BY <1>5 DEF Receive
  <2>2. channel[c] \in Seq(Wanted) /\ shown[c] \in Seq(Wanted)
    BY <1>1 DEF TailTypeOK
  <2>3. /\ Head(channel[c]) \in Wanted /\ Tail(channel[c]) \in Seq(Wanted)
        /\ Len(Tail(channel[c])) <= Len(channel[c])
    BY <2>1, <2>2, TailSet
  <2>4. replayed' \in [Streams -> SUBSET Wanted]
    <3>1. replayed \in [Streams -> SUBSET Wanted] /\ replayed[c] \ {Head(channel[c])} \in SUBSET Wanted
      BY <1>1 DEF TailTypeOK
    <3>2. \/ replayed' = [replayed EXCEPT ![c] = replayed[c] \ {Head(channel[c])}]
          \/ replayed' = replayed
      BY <2>1 DEF ShowUnlessReplayed
    <3> QED BY <3>1, <3>2
  <2>5. shown' \in [Streams -> Seq(Wanted)] /\ FrameTyped' /\ UNCHANGED <<lastId, joined, connects>>
    <3>1. shown \in [Streams -> Seq(Wanted)] /\ FrameTyped
      BY <1>1 DEF TailTypeOK, FrameTyped
    <3>2. UNCHANGED <<frame, clientVars>> \/ WriteEvent(c, Head(channel[c]))
      BY <2>1 DEF ShowUnlessReplayed
    <3>3. CASE UNCHANGED <<frame, clientVars>>
      BY <3>1, <3>3 DEF clientVars, FrameTyped
    <3>4. CASE WriteEvent(c, Head(channel[c]))
      BY <2>3, <3>1, <3>4, EventTyped
    <3> QED BY <3>2, <3>3, <3>4
  <2>6. \A d \in Streams : channel'[d] \in Seq(Wanted) /\ Len(channel'[d]) <= Buffer
    <3>1. Len(Tail(channel[c])) <= Buffer
      <4>1. Len(channel[c]) <= Buffer /\ Buffer \in Nat
        BY <1>1, TailAssumption DEF TailTypeOK, TailAssumption
      <4>2. Len(channel[c]) \in Nat /\ Len(Tail(channel[c])) \in Nat
        BY <2>2, <2>3
      <4> QED BY <2>3, <4>1, <4>2
    <3>2. ASSUME NEW d \in Streams
          PROVE  channel'[d] = channel[d] \/ (channel'[d] = Tail(channel[c]))
      BY <2>1
    <3> QED BY <1>1, <2>3, <3>1, <3>2 DEF TailTypeOK
  <2> QED BY <1>1, <2>1, <2>4, <2>5, <2>6 DEF TypeInv, TailTypeOK, writerVars, FrameTyped
<1>6. CASE GoLive(c) \/ Ping(c) \/ End(c) \/ Break(c)
  <2>1. /\ at' \in {at, [at EXCEPT ![c] = "live"], [at EXCEPT ![c] = "leaving"]}
        /\ UNCHANGED frame \/ WriteComment(c) \/ frame' = [frame EXCEPT ![c] = <<>>]
        /\ UNCHANGED <<writerVars, hubVars, resume, history, replayed, skipped, shutdown, clientVars>>
    BY <1>6 DEF GoLive, Ping, End, SeeClosed, SeeShutdown, Break, Leaves, WriteComment
  <2>2. /\ at' \in [Streams -> {"off", "subscribed", "history", "live", "leaving"}]
        /\ \A d \in subs : at'[d] # "off"
    BY <1>1, <2>1 DEF TailTypeOK
  <2>3. FrameTyped'
    BY <1>1, <2>1, CommentTyped DEF TailTypeOK, FrameTyped
  <2> QED BY <1>1, <2>1, <2>2, <2>3 DEF TypeInv, TailTypeOK, writerVars, hubVars, clientVars, FrameTyped
<1>7. CASE CloseSub(c)
  <2>1. /\ Unregister(c) /\ at' = [at EXCEPT ![c] = "off"]
        /\ channel' = [channel EXCEPT ![c] = <<>>] /\ history' = [history EXCEPT ![c] = <<>>]
        /\ UNCHANGED <<writerVars, dropped, resume, replayed, frame, skipped, shutdown, clientVars>>
    BY <1>7 DEF CloseSub
  <2>2. subs' = subs \ {c} /\ closes' \in [Streams -> Nat]
    <3>1. closes \in [Streams -> Nat] /\ \A k \in Nat : k + 1 \in Nat
      BY <1>1 DEF TailTypeOK
    <3> QED BY <2>1, <3>1 DEF Unregister
  <2>3. /\ at' \in [Streams -> {"off", "subscribed", "history", "live", "leaving"}]
        /\ \A d \in subs' : at'[d] # "off"
    BY <1>1, <2>1, <2>2 DEF TailTypeOK
  <2>4. history' \in [Streams -> Seq(Wanted)]
        /\ \A d \in Streams : channel'[d] \in Seq(Wanted) /\ Len(channel'[d]) <= Buffer
    <3>1. <<>> \in Seq(Wanted) /\ Len(<<>>) <= Buffer
      BY TailAssumption DEF TailAssumption
    <3>2. \A d \in Streams : channel'[d] = <<>> \/ channel'[d] = channel[d]
      BY <2>1
    <3>3. history' \in [Streams -> Seq(Wanted)]
      BY <1>1, <2>1, <3>1 DEF TailTypeOK
    <3> QED BY <1>1, <3>1, <3>2, <3>3 DEF TailTypeOK
  <2> QED BY <1>1, <2>1, <2>2, <2>3, <2>4 DEF TypeInv, TailTypeOK, writerVars, clientVars
<1>8. CASE ShutDown
  BY <1>1, <1>8 DEF ShutDown, TypeInv, TailTypeOK, writerVars, hubVars, handlerVars, clientVars
<1>9. CASE FrameWritten(c)
  <2>1. /\ frame' = [frame EXCEPT ![c] = <<>>] /\ ~Free(c)
        /\ lastId' = [lastId EXCEPT ![c] = IF Head(frame[c]) = None THEN @ ELSE Head(frame[c])]
        /\ UNCHANGED <<writerVars, hubVars, at, resume, history, replayed, skipped, shutdown,
                       shown, joined, connects>>
    BY <1>9 DEF FrameWritten
  <2>2. FrameTyped' /\ Head(frame[c]) \in Wanted \cup {None}
    <3>1. FrameTyped
      BY <1>1 DEF TailTypeOK, FrameTyped
    <3>2. PICK e \in Wanted \cup {None} : frame[c] = <<e>>
      BY <2>1, <3>1 DEF FrameTyped, Free
    <3>3. Head(<<e>>) = e
      OBVIOUS
    <3> QED BY <2>1, <3>1, <3>2, <3>3 DEF FrameTyped
  <2>3. lastId' \in [Streams -> Wanted \cup {None}]
    BY <1>1, <2>1, <2>2 DEF TailTypeOK
  <2> QED BY <1>1, <2>1, <2>2, <2>3 DEF TypeInv, TailTypeOK, writerVars, hubVars, FrameTyped
<1> QED BY <1>2, <1>3, <1>4, <1>5, <1>6, <1>7, <1>8, <1>9 DEF Handler

\* Every step keeps the types.
LEMMA TypeStep == HubInv /\ TypeInv /\ [TailNext]_tailVars => TypeInv'
<1> SUFFICES ASSUME HubInv, TypeInv, [TailNext]_tailVars PROVE TypeInv'
  OBVIOUS
<1>1. CASE CommitBatch \/ Writer
  BY <1>1, WriterTypes DEF Writer
<1>2. ASSUME NEW c \in Streams,
             Handler(c) \/ Connect(c) \/ Receive(c) \/ Ping(c) \/ FrameWritten(c) \/ End(c) \/ Break(c)
      PROVE  TypeInv'
  BY <1>2, HandlerTypes
<1>3. CASE ShutDown \/ UNCHANGED tailVars
  BY <1>3 DEF ShutDown, TypeInv, TailTypeOK, tailVars, writerVars, hubVars, handlerVars, clientVars
<1> QED BY <1>1, <1>2, <1>3 DEF TailNext

-----------------------------------------------------------------------------
(* Shown once. *)

\* What Publish has or will have for a stream, or has sent it.
Pending(c, e) ==
    \/ e \in ToSet(channel[c]) \/ e \in ToSet(unsent[c])
    \/ writing = "committed" /\ e \in ToSet(fresh)

\* The batch is in the store, each event once.
BatchInv == IsInjective(fresh) /\ ToSet(fresh) \subseteq stored

\* A stream is offered an event once; one that it has been shown may only be
\* still to come if the handler remembers it from the history.
Once(c) ==
    /\ IsInjective(shown[c]) /\ IsInjective(channel[c]) /\ IsInjective(unsent[c])
    /\ ToSet(shown[c]) \subseteq stored /\ ToSet(channel[c]) \subseteq stored
    /\ ToSet(history[c]) \subseteq stored /\ replayed[c] \subseteq stored
    /\ ToSet(unsent[c]) \subseteq stored
    /\ \A e \in ToSet(channel[c]) :
          e \notin ToSet(unsent[c]) /\ (writing = "committed" => e \notin ToSet(fresh))
    /\ \A e \in ToSet(shown[c]) : Pending(c, e) => e \in replayed[c]
    /\ at[c] = "subscribed" => replayed[c] = {}
    /\ at[c] \in {"subscribed", "history"} => ToSet(shown[c]) \subseteq replayed[c]
    /\ at[c] = "history" => IsInjective(history[c]) /\ ToSet(history[c]) \cap replayed[c] = {}

\* The batch that is still to be published is as it was.
SameBatch ==
    /\ stored' = stored
    /\ writing = "committed" <=> writing' = "committed"
    /\ writing = "committed" => fresh' = fresh

\* A stream that is not concerned, or goes live, or leaves.
LEMMA OnceFrame ==
    ASSUME NEW d \in Streams, Once(d), SameBatch,
           shown'[d] = shown[d], channel'[d] = channel[d], unsent'[d] = unsent[d],
           replayed'[d] = replayed[d], history'[d] = history[d],
           at'[d] = at[d] \/ at'[d] \in {"live", "leaving"}
    PROVE  Once(d)'
<1>1. \A e : Pending(d, e)' => Pending(d, e)
  BY DEF Pending, SameBatch
<1>2. \A e \in ToSet(shown'[d]) : Pending(d, e)' => e \in replayed'[d]
  BY <1>1 DEF Once
<1>3. at'[d] \in {"subscribed", "history"} => at'[d] = at[d]
  OBVIOUS
<1>4. \A e \in ToSet(channel'[d]) :
         e \notin ToSet(unsent'[d]) /\ (writing' = "committed" => e \notin ToSet(fresh'))
  BY DEF Once, SameBatch
<1>5. /\ IsInjective(shown'[d]) /\ IsInjective(channel'[d]) /\ IsInjective(unsent'[d])
      /\ ToSet(shown'[d]) \subseteq stored' /\ ToSet(channel'[d]) \subseteq stored'
      /\ ToSet(history'[d]) \subseteq stored' /\ replayed'[d] \subseteq stored'
      /\ ToSet(unsent'[d]) \subseteq stored'
  BY DEF Once, SameBatch
<1>6. /\ at'[d] = "subscribed" => replayed'[d] = {}
      /\ at'[d] \in {"subscribed", "history"} => ToSet(shown'[d]) \subseteq replayed'[d]
      /\ at'[d] = "history" => IsInjective(history'[d]) /\ ToSet(history'[d]) \cap replayed'[d] = {}
  BY <1>3 DEF Once
<1> QED BY <1>2, <1>4, <1>5, <1>6 DEF Once

\* A new batch is new to every stream.
LEMMA OnceCommit ==
    ASSUME HubInv, BatchInv, \A c \in Streams : Once(c), CommitBatch
    PROVE  BatchInv' /\ \A c \in Streams : Once(c)'
<1>1. /\ IsInjective(fresh') /\ ToSet(fresh') \cap stored = {}
      /\ stored' = stored \cup ToSet(fresh') /\ writing = "idle"
      /\ UNCHANGED <<unsent, channel, shown, at, replayed, history>>
  BY Batch DEF CommitBatch, hubVars, handlerVars, clientVars
<1>2. ASSUME NEW c \in Streams PROVE Once(c)'
  <2>1. unsent[c] = <<>> /\ ToSet(unsent[c]) = {}
    BY <1>1, EmptyQueue DEF HubInv, Locked
  <2>2. Once(c)
    OBVIOUS
  <2>3. /\ IsInjective(shown'[c]) /\ IsInjective(channel'[c]) /\ IsInjective(unsent'[c])
        /\ ToSet(shown'[c]) \subseteq stored' /\ ToSet(channel'[c]) \subseteq stored'
        /\ ToSet(history'[c]) \subseteq stored' /\ replayed'[c] \subseteq stored'
        /\ ToSet(unsent'[c]) \subseteq stored'
    BY <1>1, <2>2 DEF Once
  <2>4. \A e \in ToSet(channel'[c]) :
           e \notin ToSet(unsent'[c]) /\ (writing' = "committed" => e \notin ToSet(fresh'))
    BY <1>1, <2>1, <2>2 DEF Once
  <2>5. \A e \in ToSet(shown'[c]) : Pending(c, e)' => e \in replayed'[c]
    <3>1. \A e \in ToSet(shown[c]) : e \notin ToSet(fresh') /\ (e \in ToSet(channel[c]) => e \in replayed[c])
      BY <1>1, <2>2 DEF Once, Pending
    <3> QED BY <1>1, <2>1, <3>1 DEF Pending
  <2>6. /\ at'[c] = "subscribed" => replayed'[c] = {}
        /\ at'[c] \in {"subscribed", "history"} => ToSet(shown'[c]) \subseteq replayed'[c]
        /\ at'[c] = "history" => IsInjective(history'[c]) /\ ToSet(history'[c]) \cap replayed'[c] = {}
    BY <1>1, <2>2 DEF Once
  <2> QED BY <2>3, <2>4, <2>5, <2>6 DEF Once
<1>3. BatchInv'
  BY <1>1 DEF BatchInv
<1> QED BY <1>2, <1>3

\* The registered streams are to be offered the batch.
LEMMA OncePublish ==
    ASSUME HubInv, BatchInv, \A c \in Streams : Once(c), Publish
    PROVE  BatchInv' /\ \A c \in Streams : Once(c)'
<1>1. /\ writing = "committed" /\ writing' = "publishing"
      /\ unsent' = [c \in Streams |-> IF c \in subs THEN fresh ELSE <<>>]
      /\ UNCHANGED <<stored, fresh, channel, shown, at, replayed, history>>
  BY DEF Publish, hubVars, handlerVars, clientVars
<1>2. ASSUME NEW c \in Streams PROVE Once(c)'
  <2>1. Once(c)
    OBVIOUS
  <2>2. (unsent'[c] = fresh \/ unsent'[c] = <<>>) /\ IsInjective(unsent'[c])
        /\ ToSet(unsent'[c]) \subseteq ToSet(fresh)
    <3>1. unsent'[c] = fresh \/ unsent'[c] = <<>>
      BY <1>1
    <3> QED BY <3>1, EmptyQueue DEF BatchInv
  <2>3. /\ IsInjective(shown'[c]) /\ IsInjective(channel'[c])
        /\ ToSet(shown'[c]) \subseteq stored' /\ ToSet(channel'[c]) \subseteq stored'
        /\ ToSet(history'[c]) \subseteq stored' /\ replayed'[c] \subseteq stored'
    BY <1>1, <2>1 DEF Once
  <2>4. ToSet(unsent'[c]) \subseteq stored'
    BY <1>1, <2>2 DEF BatchInv
  <2>5. \A e \in ToSet(channel'[c]) :
           e \notin ToSet(unsent'[c]) /\ (writing' = "committed" => e \notin ToSet(fresh'))
    BY <1>1, <2>1, <2>2 DEF Once
  <2>6. \A e \in ToSet(shown'[c]) : Pending(c, e)' => e \in replayed'[c]
    <3>1. \A e : Pending(c, e)' => Pending(c, e)
      BY <1>1, <2>2 DEF Pending
    <3> QED BY <1>1, <2>1, <3>1 DEF Once
  <2>7. /\ at'[c] = "subscribed" => replayed'[c] = {}
        /\ at'[c] \in {"subscribed", "history"} => ToSet(shown'[c]) \subseteq replayed'[c]
        /\ at'[c] = "history" => IsInjective(history'[c]) /\ ToSet(history'[c]) \cap replayed'[c] = {}
    BY <1>1, <2>1 DEF Once
  <2> QED BY <2>2, <2>3, <2>4, <2>5, <2>6, <2>7 DEF Once
<1>3. BatchInv'
  BY <1>1 DEF BatchInv
<1> QED BY <1>2, <1>3

\* An event goes from the batch to the channel, or is dropped, or is not for
\* this stream.
LEMMA OnceOffer ==
    ASSUME TypeInv, HubInv, BatchInv, \A d \in Streams : Once(d), NEW c \in Streams, Offer(c)
    PROVE  BatchInv' /\ \A d \in Streams : Once(d)'
<1>1. /\ unsent[c] # <<>> /\ unsent' = [unsent EXCEPT ![c] = Tail(@)]
      /\ writing = "publishing"
      /\ UNCHANGED <<stored, writing, fresh, at, history, replayed, shown>>
      /\ \/ channel' = channel
         \/ channel' = [channel EXCEPT ![c] = Append(@, Head(unsent[c]))] /\ Head(unsent[c]) \in Wanted
  BY DEF Offer, SendOrDrop, handlerVars, clientVars, Locked
<1>2. DOMAIN unsent = Streams /\ DOMAIN channel = Streams
      /\ unsent[c] \in Seq(Events) /\ channel[c] \in Seq(Wanted)
  BY DEF TypeInv, TailTypeOK, HubInv
<1>3. SameBatch /\ BatchInv'
  BY <1>1 DEF SameBatch, BatchInv
<1>4. ASSUME NEW d \in Streams, d # c PROVE Once(d)'
  BY <1>1, <1>2, <1>3, <1>4, OnceFrame
<1>5. Once(c)'
  <2>1. Once(c)
    OBVIOUS
  <2>2. /\ ToSet(unsent[c]) = ToSet(Tail(unsent[c])) \cup {Head(unsent[c])}
        /\ IsInjective(Tail(unsent[c])) /\ Head(unsent[c]) \notin ToSet(Tail(unsent[c]))
    BY <1>1, <1>2, <2>1, TailSet DEF Once
  <2>3. unsent'[c] = Tail(unsent[c])
    BY <1>1, <1>2
  <2>4. IsInjective(channel'[c]) /\ ToSet(channel'[c]) \subseteq ToSet(channel[c]) \cup {Head(unsent[c])}
    <3>1. CASE channel' = channel
      BY <2>1, <3>1 DEF Once
    <3>2. CASE channel' = [channel EXCEPT ![c] = Append(@, Head(unsent[c]))] /\ Head(unsent[c]) \in Wanted
      <4>1. channel'[c] = Append(channel[c], Head(unsent[c]))
        BY <1>2, <3>2
      <4>2. Head(unsent[c]) \notin ToSet(channel[c]) /\ IsInjective(channel[c])
        BY <2>1, <2>2 DEF Once
      <4> QED BY <1>2, <3>2, <4>1, <4>2, AppendSet
    <3> QED BY <1>1, <3>1, <3>2
  <2>5. /\ IsInjective(shown'[c]) /\ IsInjective(unsent'[c])
        /\ ToSet(shown'[c]) \subseteq stored' /\ ToSet(channel'[c]) \subseteq stored'
        /\ ToSet(history'[c]) \subseteq stored' /\ replayed'[c] \subseteq stored'
        /\ ToSet(unsent'[c]) \subseteq stored'
    BY <1>1, <2>1, <2>2, <2>3, <2>4 DEF Once
  <2>6. \A e \in ToSet(channel'[c]) :
           e \notin ToSet(unsent'[c]) /\ (writing' = "committed" => e \notin ToSet(fresh'))
    BY <1>1, <2>1, <2>2, <2>3, <2>4 DEF Once
  <2>7. \A e \in ToSet(shown'[c]) : Pending(c, e)' => e \in replayed'[c]
    <3>1. \A e : Pending(c, e)' => Pending(c, e)
      BY <1>1, <2>2, <2>3, <2>4 DEF Pending
    <3> QED BY <1>1, <2>1, <3>1 DEF Once
  <2>8. /\ at'[c] = "subscribed" => replayed'[c] = {}
        /\ at'[c] \in {"subscribed", "history"} => ToSet(shown'[c]) \subseteq replayed'[c]
        /\ at'[c] = "history" => IsInjective(history'[c]) /\ ToSet(history'[c]) \cap replayed'[c] = {}
    BY <1>1, <2>1 DEF Once
  <2> QED BY <2>4, <2>5, <2>6, <2>7, <2>8 DEF Once
<1> QED BY <1>3, <1>4, <1>5

\* A connection starts with nothing; a stream that closes has no more to come.
LEMMA OnceOpenClose ==
    ASSUME TypeInv, HubInv, \A d \in Streams : Once(d), NEW c \in Streams, Connect(c) \/ CloseSub(c)
    PROVE  \A d \in Streams : Once(d)'
<1>4. DOMAIN channel = Streams /\ DOMAIN at = Streams /\ DOMAIN history = Streams
      /\ DOMAIN shown = Streams /\ DOMAIN replayed = Streams
  BY DEF TypeInv, TailTypeOK
<1>1. /\ writing # "publishing" /\ UNCHANGED <<stored, writing, fresh, unsent>>
      /\ \A d \in Streams \ {c} : /\ shown'[d] = shown[d] /\ channel'[d] = channel[d]
                                  /\ replayed'[d] = replayed[d] /\ history'[d] = history[d]
                                  /\ at'[d] = at[d]
  BY <1>4 DEF Connect, CloseSub, Subscribes, Locked, writerVars, clientVars
<1>2. SameBatch
  BY <1>1 DEF SameBatch
<1>3. ASSUME NEW d \in Streams, d # c PROVE Once(d)'
  BY <1>1, <1>2, <1>3, OnceFrame
<1>5. Once(c)'
  <2>1. unsent'[c] = <<>> /\ Once(c)
    BY <1>1 DEF HubInv, Locked
  <2>2. channel'[c] = <<>>
    BY <1>4 DEF Connect, CloseSub, Subscribes
  <2>3. CASE Connect(c)
    <3>1. shown'[c] = <<>> /\ replayed'[c] = {} /\ at'[c] = "subscribed" /\ history' = history
      BY <1>4, <2>3 DEF Connect
    <3> QED BY <1>1, <2>1, <2>2, <3>1, EmptyQueue DEF Once
  <2>4. CASE CloseSub(c)
    <3>1. shown' = shown /\ replayed' = replayed /\ at'[c] = "off" /\ history'[c] = <<>>
      BY <1>4, <2>4 DEF CloseSub, clientVars
    <3>2. \A e \in ToSet(shown'[c]) : Pending(c, e)' => e \in replayed'[c]
      <4>1. \A e : Pending(c, e)' => Pending(c, e)
        BY <1>1, <2>1, <2>2, EmptyQueue DEF Pending
      <4> QED BY <2>1, <3>1, <4>1 DEF Once
    <3> QED BY <1>1, <2>1, <2>2, <3>1, <3>2, EmptyQueue DEF Once
  <2> QED BY <2>3, <2>4
<1> QED BY <1>3, <1>5

\* History is remembered as it is shown; what was remembered is not shown again.
LEMMA OnceShow ==
    ASSUME TypeInv, \A d \in Streams : Once(d), NEW c \in Streams,
           ReadHistory(c) \/ Replay(c) \/ Receive(c)
    PROVE  \A d \in Streams : Once(d)'
<1>4. /\ DOMAIN channel = Streams /\ DOMAIN at = Streams /\ DOMAIN history = Streams
      /\ DOMAIN shown = Streams /\ DOMAIN replayed = Streams
      /\ history[c] \in Seq(Wanted) /\ shown[c] \in Seq(Wanted) /\ channel[c] \in Seq(Wanted)
      /\ IsFiniteSet(stored) /\ stored \subseteq Events
  BY DEF TypeInv, TailTypeOK
<1>1. /\ UNCHANGED <<stored, writing, fresh, unsent>>
      /\ \A d \in Streams \ {c} : /\ shown'[d] = shown[d] /\ channel'[d] = channel[d]
                                  /\ replayed'[d] = replayed[d] /\ history'[d] = history[d]
                                  /\ at'[d] = at[d]
  BY <1>4 DEF ReadHistory, Replay, Receive, ShowUnlessReplayed, WriteEvent, writerVars, hubVars, clientVars
<1>2. SameBatch
  BY <1>1 DEF SameBatch
<1>3. ASSUME NEW d \in Streams, d # c PROVE Once(d)'
  BY <1>1, <1>2, <1>3, OnceFrame
<1>5. Once(c)
  OBVIOUS
<1>6. CASE ReadHistory(c)
  <2>1. /\ at[c] = "subscribed" /\ UNCHANGED <<channel, shown, replayed>>
        /\ \/ at'[c] = "live" /\ history' = history
           \/ at'[c] = "history" /\ history'[c] = Backfill
    BY <1>4, <1>6 DEF ReadHistory, hubVars, clientVars
  <2>2. CASE at'[c] = "live" /\ history' = history
    BY <1>1, <1>2, <1>5, <2>1, <2>2, OnceFrame
  <2>3. CASE at'[c] = "history" /\ history'[c] = Backfill
    <3>1. IsInjective(history'[c]) /\ ToSet(history'[c]) \subseteq stored
      BY <1>4, <2>3, BackfillIsHistory
    <3>2. replayed[c] = {} /\ ToSet(shown[c]) = {}
      BY <1>5, <2>1 DEF Once
    <3>3. /\ IsInjective(shown'[c]) /\ IsInjective(channel'[c]) /\ IsInjective(unsent'[c])
          /\ ToSet(shown'[c]) \subseteq stored' /\ ToSet(channel'[c]) \subseteq stored'
          /\ ToSet(history'[c]) \subseteq stored' /\ replayed'[c] \subseteq stored'
          /\ ToSet(unsent'[c]) \subseteq stored'
          /\ \A e \in ToSet(channel'[c]) :
               e \notin ToSet(unsent'[c]) /\ (writing' = "committed" => e \notin ToSet(fresh'))
      BY <1>1, <1>5, <2>1, <3>1 DEF Once
    <3>4. \A e \in ToSet(shown'[c]) : Pending(c, e)' => e \in replayed'[c]
      BY <2>1, <3>2
    <3>5. /\ at'[c] = "subscribed" => replayed'[c] = {}
          /\ at'[c] \in {"subscribed", "history"} => ToSet(shown'[c]) \subseteq replayed'[c]
          /\ at'[c] = "history" => IsInjective(history'[c]) /\ ToSet(history'[c]) \cap replayed'[c] = {}
      BY <2>1, <2>3, <3>1, <3>2
    <3>6. Once(c)'
      BY <3>3, <3>4, <3>5 DEF Once
    <3> QED BY <1>3, <3>6
  <2> QED BY <2>1, <2>2, <2>3
<1>7. CASE Replay(c)
  <2> DEFINE e0 == Head(history[c])
  <2>1. /\ at[c] = "history" /\ history[c] # <<>> /\ UNCHANGED <<channel, at>>
        /\ history'[c] = Tail(history[c]) /\ replayed'[c] = replayed[c] \cup {e0}
        /\ shown'[c] = shown[c] \/ shown'[c] = Append(shown[c], e0)
    BY <1>4, <1>7 DEF Replay, WriteEvent, hubVars, clientVars
  <2>2. /\ e0 \in Wanted /\ ToSet(history[c]) = ToSet(history'[c]) \cup {e0}
        /\ IsInjective(history'[c]) /\ e0 \notin ToSet(history'[c])
    BY <1>4, <1>5, <2>1, TailSet DEF Once
  <2>3. e0 \notin replayed[c] /\ e0 \in stored /\ e0 \notin ToSet(shown[c])
    BY <1>5, <2>1, <2>2 DEF Once
  <2>4. IsInjective(shown'[c]) /\ ToSet(shown'[c]) \subseteq ToSet(shown[c]) \cup {e0}
    <3>1. IsInjective(shown[c])
      BY <1>5 DEF Once
    <3>2. IsInjective(Append(shown[c], e0)) /\ ToSet(Append(shown[c], e0)) = ToSet(shown[c]) \cup {e0}
      BY <1>4, <2>2, <2>3, <3>1, AppendSet
    <3> QED BY <2>1, <3>1, <3>2
  <2> HIDE DEF e0
  <2>5. \A e \in ToSet(shown'[c]) : Pending(c, e)' => e \in replayed'[c]
    <3>1. ToSet(shown[c]) \subseteq replayed[c]
      BY <1>5, <2>1 DEF Once
    <3> QED BY <2>1, <2>4, <3>1
  <2>6. /\ at'[c] = "history"
        /\ ToSet(shown'[c]) \subseteq replayed'[c]
        /\ IsInjective(history'[c]) /\ ToSet(history'[c]) \cap replayed'[c] = {}
    <3>1. ToSet(shown[c]) \subseteq replayed[c] /\ ToSet(history[c]) \cap replayed[c] = {}
      BY <1>5, <2>1 DEF Once
    <3> QED BY <2>1, <2>2, <2>4, <3>1
  <2>7. /\ IsInjective(shown'[c]) /\ IsInjective(channel'[c]) /\ IsInjective(unsent'[c])
        /\ ToSet(shown'[c]) \subseteq stored' /\ ToSet(channel'[c]) \subseteq stored'
        /\ ToSet(history'[c]) \subseteq stored' /\ replayed'[c] \subseteq stored'
        /\ ToSet(unsent'[c]) \subseteq stored'
        /\ \A e \in ToSet(channel'[c]) :
               e \notin ToSet(unsent'[c]) /\ (writing' = "committed" => e \notin ToSet(fresh'))
    BY <1>1, <1>5, <2>1, <2>2, <2>3, <2>4 DEF Once
  <2>8. /\ at'[c] = "subscribed" => replayed'[c] = {}
        /\ at'[c] \in {"subscribed", "history"} => ToSet(shown'[c]) \subseteq replayed'[c]
        /\ at'[c] = "history" => IsInjective(history'[c]) /\ ToSet(history'[c]) \cap replayed'[c] = {}
    BY <2>6
  <2>9. Once(c)'
    BY <2>5, <2>7, <2>8 DEF Once
  <2> QED BY <1>3, <2>9
<1>8. CASE Receive(c)
  <2> DEFINE e0 == Head(channel[c])
  <2>1. /\ at[c] = "live" /\ channel[c] # <<>> /\ UNCHANGED <<history, at>>
        /\ channel'[c] = Tail(channel[c])
        /\ \/ e0 \in replayed[c] /\ replayed'[c] = replayed[c] \ {e0} /\ shown'[c] = shown[c]
           \/ e0 \notin replayed[c] /\ replayed'[c] = replayed[c] /\ shown'[c] = Append(shown[c], e0)
    BY <1>4, <1>8 DEF Receive, ShowUnlessReplayed, WriteEvent, clientVars
  <2>2. /\ e0 \in Wanted /\ ToSet(channel[c]) = ToSet(channel'[c]) \cup {e0}
        /\ IsInjective(channel'[c]) /\ e0 \notin ToSet(channel'[c])
    BY <1>4, <1>5, <2>1, TailSet DEF Once
  <2>3. e0 \in stored /\ e0 \notin ToSet(unsent[c]) /\ (writing = "committed" => e0 \notin ToSet(fresh))
    BY <1>5, <2>2 DEF Once
  <2>4. e0 \notin replayed[c] => e0 \notin ToSet(shown[c])
    BY <1>5, <2>2 DEF Once, Pending
  <2>5. /\ IsInjective(shown'[c]) /\ ToSet(shown'[c]) \subseteq ToSet(shown[c]) \cup {e0}
        /\ e0 \in replayed[c] => ToSet(shown'[c]) = ToSet(shown[c])
    <3>1. IsInjective(shown[c])
      BY <1>5 DEF Once
    <3>2. CASE e0 \in replayed[c]
      BY <2>1, <3>1, <3>2
    <3>3. CASE e0 \notin replayed[c]
      <4>1. IsInjective(Append(shown[c], e0)) /\ ToSet(Append(shown[c], e0)) = ToSet(shown[c]) \cup {e0}
        BY <1>4, <2>2, <2>4, <3>1, <3>3, AppendSet
      <4> QED BY <2>1, <3>3, <4>1
    <3> QED BY <3>2, <3>3
  <2> HIDE DEF e0
  <2>6. \A e \in ToSet(shown'[c]) : Pending(c, e)' => e \in replayed'[c]
    <3>1. \A e : Pending(c, e)' => Pending(c, e) /\ e # e0
      BY <1>1, <2>2, <2>3 DEF Pending
    <3>2. \A e \in ToSet(shown[c]) : Pending(c, e) => e \in replayed[c]
      BY <1>5 DEF Once
    <3> QED BY <2>1, <2>5, <3>1, <3>2
  <2>7. /\ IsInjective(channel'[c]) /\ IsInjective(unsent'[c])
        /\ ToSet(shown'[c]) \subseteq stored' /\ ToSet(channel'[c]) \subseteq stored'
        /\ ToSet(history'[c]) \subseteq stored' /\ replayed'[c] \subseteq stored'
        /\ ToSet(unsent'[c]) \subseteq stored'
        /\ \A e \in ToSet(channel'[c]) :
               e \notin ToSet(unsent'[c]) /\ (writing' = "committed" => e \notin ToSet(fresh'))
    BY <1>1, <1>5, <2>1, <2>2, <2>3, <2>5 DEF Once
  <2>8. /\ at'[c] = "subscribed" => replayed'[c] = {}
        /\ at'[c] \in {"subscribed", "history"} => ToSet(shown'[c]) \subseteq replayed'[c]
        /\ at'[c] = "history" => IsInjective(history'[c]) /\ ToSet(history'[c]) \cap replayed'[c] = {}
    BY <1>5, <2>1
  <2>9. Once(c)'
    BY <2>5, <2>6, <2>7, <2>8 DEF Once
  <2> QED BY <1>3, <2>9
<1> QED BY <1>6, <1>7, <1>8

\* Every step keeps what is shown once.
LEMMA OnceStep ==
    TypeInv /\ HubInv /\ BatchInv /\ (\A c \in Streams : Once(c)) /\ [TailNext]_tailVars
        => BatchInv' /\ \A c \in Streams : Once(c)'
<1> SUFFICES ASSUME TypeInv, HubInv, BatchInv, \A c \in Streams : Once(c), [TailNext]_tailVars
             PROVE  BatchInv' /\ \A c \in Streams : Once(c)'
  OBVIOUS
<1>1. CASE CommitBatch
  BY <1>1, OnceCommit
<1>2. CASE Publish
  BY <1>2, OncePublish
<1>3. CASE PublishDone \/ WriteDone
  <2>1. /\ SameBatch /\ UNCHANGED <<unsent, channel, shown, at, replayed, history>>
        /\ fresh' = fresh \/ fresh' = <<>>
    BY <1>3 DEF PublishDone, WriteDone, SameBatch, Locked, hubVars, handlerVars, clientVars
  <2>2. \A c \in Streams : Once(c)'
    BY <2>1, OnceFrame
  <2>3. BatchInv'
    BY <2>1, EmptyQueue DEF BatchInv, SameBatch
  <2> QED BY <2>2, <2>3
<1>4. ASSUME NEW c \in Streams, Offer(c) PROVE BatchInv' /\ \A d \in Streams : Once(d)'
  BY <1>4, OnceOffer
<1>5. ASSUME NEW c \in Streams, Connect(c) \/ CloseSub(c) PROVE BatchInv' /\ \A d \in Streams : Once(d)'
  <2>1. UNCHANGED <<stored, fresh>>
    BY <1>5 DEF Connect, CloseSub, writerVars
  <2> QED BY <1>5, <2>1, OnceOpenClose DEF BatchInv
<1>6. ASSUME NEW c \in Streams, ReadHistory(c) \/ Replay(c) \/ Receive(c)
      PROVE  BatchInv' /\ \A d \in Streams : Once(d)'
  <2>1. UNCHANGED <<stored, fresh>>
    BY <1>6 DEF ReadHistory, Replay, Receive, writerVars
  <2> QED BY <1>6, <2>1, OnceShow DEF BatchInv
<1>7. ASSUME NEW c \in Streams, NEW n \in 1..MaxConnects, Evict(c, n)
      PROVE  BatchInv' /\ \A d \in Streams : Once(d)'
  <2>1. SameBatch /\ UNCHANGED <<stored, fresh, unsent, channel, shown, at, replayed, history>>
    BY <1>7 DEF Evict, SameBatch, handlerVars, clientVars
  <2> QED BY <2>1, OnceFrame DEF BatchInv
<1>8. ASSUME NEW c \in Streams, GoLive(c) \/ Ping(c) \/ FrameWritten(c) \/ End(c) \/ Break(c)
      PROVE  BatchInv' /\ \A d \in Streams : Once(d)'
  <2>1. /\ SameBatch /\ UNCHANGED <<stored, fresh, unsent, channel, shown, replayed, history>>
        /\ \A d \in Streams : at'[d] = at[d] \/ at'[d] \in {"live", "leaving"}
    BY <1>8 DEF GoLive, Ping, FrameWritten, End, SeeClosed, SeeShutdown, Break, Leaves, SameBatch,
                TypeInv, TailTypeOK, writerVars, hubVars, clientVars
  <2> QED BY <2>1, OnceFrame DEF BatchInv
<1>9. CASE ShutDown \/ UNCHANGED tailVars
  <2>1. SameBatch /\ UNCHANGED <<stored, fresh, unsent, channel, shown, at, replayed, history>>
    BY <1>9 DEF ShutDown, SameBatch, tailVars, writerVars, hubVars, handlerVars, clientVars
  <2> QED BY <2>1, OnceFrame DEF BatchInv
<1> QED BY <1>1, <1>2, <1>3, <1>4, <1>5, <1>6, <1>7, <1>8, <1>9 DEF TailNext, Writer, Handler

-----------------------------------------------------------------------------
(* Nothing missed. *)

\* The handler has dealt with the event: it is shown, or passed over.
Passed(c, e) == e \in ToSet(shown[c]) \/ e \in skipped[c]

\* What is committed after a stream has subscribed has been dealt with or is to
\* come, unless the stream dropped some; only what is not above the ID that the
\* client resumes from is passed over.
Reaches(c) ==
    /\ c \in subs /\ dropped[c] = 0 =>
          \A e \in (stored \ joined[c]) \cap Wanted : Passed(c, e) \/ Pending(c, e)
    /\ \A e \in replayed[c] : Passed(c, e)
    /\ \A e \in skipped[c] : AlreadySeen(c, e)

\* A stream that is not concerned, or is removed.
LEMMA ReachFrame ==
    ASSUME NEW d \in Streams, Reaches(d), SameBatch,
           d \in subs' => /\ d \in subs /\ dropped'[d] = dropped[d]
                          /\ channel'[d] = channel[d] /\ unsent'[d] = unsent[d],
           shown'[d] = shown[d], replayed'[d] = replayed[d], resume'[d] = resume[d],
           skipped'[d] = skipped[d], joined'[d] = joined[d]
    PROVE  Reaches(d)'
<1>1. d \in subs' => \A e : Pending(d, e) => Pending(d, e)'
  BY DEF Pending, SameBatch
<1>2. \A e : (Passed(d, e)' <=> Passed(d, e)) /\ (AlreadySeen(d, e)' <=> AlreadySeen(d, e))
  BY DEF Passed, AlreadySeen
<1>3. d \in subs' /\ dropped'[d] = 0 =>
         \A e \in (stored' \ joined'[d]) \cap Wanted : Passed(d, e)' \/ Pending(d, e)'
  BY <1>1, <1>2 DEF Reaches, SameBatch
<1>4. /\ \A e \in replayed'[d] : Passed(d, e)'
      /\ \A e \in skipped'[d] : AlreadySeen(d, e)'
  BY <1>2 DEF Reaches
<1> QED BY <1>3, <1>4 DEF Reaches

\* What is new is to come, to every stream.
LEMMA ReachCommit ==
    ASSUME \A c \in Streams : Reaches(c), CommitBatch
    PROVE  \A c \in Streams : Reaches(c)'
<1>1. /\ stored' = stored \cup ToSet(fresh') /\ writing' = "committed" /\ writing = "idle"
      /\ UNCHANGED <<unsent, subs, channel, dropped, replayed, resume, skipped, shown, joined>>
  BY DEF CommitBatch, hubVars, handlerVars, clientVars
<1>2. ASSUME NEW c \in Streams PROVE Reaches(c)'
  <2>1. Reaches(c)
    OBVIOUS
  <2>2. \A e : (Passed(c, e)' <=> Passed(c, e)) /\ (AlreadySeen(c, e)' <=> AlreadySeen(c, e))
    BY <1>1 DEF Passed, AlreadySeen
  <2>3. c \in subs' /\ dropped'[c] = 0 =>
           \A e \in (stored' \ joined'[c]) \cap Wanted : Passed(c, e)' \/ Pending(c, e)'
    <3>1. \A e : e \in ToSet(fresh') => Pending(c, e)'
      BY <1>1 DEF Pending
    <3>2. \A e : Pending(c, e) => Pending(c, e)'
      BY <1>1 DEF Pending
    <3> QED BY <1>1, <2>1, <2>2, <3>1, <3>2 DEF Reaches
  <2>4. /\ \A e \in replayed'[c] : Passed(c, e)'
        /\ \A e \in skipped'[c] : AlreadySeen(c, e)'
    BY <1>1, <2>1, <2>2 DEF Reaches
  <2> QED BY <2>3, <2>4 DEF Reaches
<1> QED BY <1>2

\* The batch goes to the streams that are registered, and on into their
\* channels.
LEMMA ReachOffer ==
    ASSUME TypeInv, HubInv, \A d \in Streams : Reaches(d),
           Publish \/ \E c \in Streams : Offer(c)
    PROVE  \A d \in Streams : Reaches(d)'
<1>1. CASE Publish
  <2>1. /\ writing = "committed" /\ writing' = "publishing"
        /\ unsent' = [c \in Streams |-> IF c \in subs THEN fresh ELSE <<>>]
        /\ \A c \in Streams : unsent[c] = <<>>
        /\ UNCHANGED <<stored, fresh, subs, channel, dropped, replayed, resume, skipped, shown, joined>>
    BY <1>1 DEF Publish, HubInv, Locked, hubVars, handlerVars, clientVars
  <2>2. ASSUME NEW c \in Streams PROVE Reaches(c)'
    <3>1. c \in subs => \A e : Pending(c, e) => Pending(c, e)'
      <4>1. c \in subs => ToSet(unsent'[c]) = ToSet(fresh)
        BY <2>1
      <4> QED BY <2>1, <4>1, EmptyQueue DEF Pending
    <3>2. c \in subs' /\ dropped'[c] = 0 =>
             \A e \in (stored' \ joined'[c]) \cap Wanted : Passed(c, e)' \/ Pending(c, e)'
      BY <2>1, <3>1 DEF Reaches, Passed
    <3>3. /\ \A e \in replayed'[c] : Passed(c, e)'
          /\ \A e \in skipped'[c] : AlreadySeen(c, e)'
      BY <2>1 DEF Reaches, Passed, AlreadySeen
    <3> QED BY <3>2, <3>3 DEF Reaches
  <2> QED BY <2>2
<1>2. ASSUME NEW c \in Streams, Offer(c) PROVE \A d \in Streams : Reaches(d)'
  <2>1. /\ unsent[c] # <<>> /\ unsent' = [unsent EXCEPT ![c] = Tail(@)]
        /\ writing = "publishing"
        /\ UNCHANGED <<stored, writing, fresh, subs, replayed, resume, skipped, shown, joined>>
        /\ \/ Head(unsent[c]) \notin Wanted /\ UNCHANGED <<channel, dropped>>
           \/ channel' = channel /\ dropped' = [dropped EXCEPT ![c] = @ + 1]
           \/ /\ channel' = [channel EXCEPT ![c] = Append(@, Head(unsent[c]))] /\ dropped' = dropped
              /\ Head(unsent[c]) \in Wanted
    BY <1>2 DEF Offer, SendOrDrop, handlerVars, clientVars, Locked
  <2>2. DOMAIN unsent = Streams /\ DOMAIN channel = Streams /\ dropped \in [Streams -> Nat]
        /\ unsent[c] \in Seq(Events) /\ channel[c] \in Seq(Wanted)
    BY DEF TypeInv, TailTypeOK, HubInv
  <2>3. ASSUME NEW d \in Streams, d # c PROVE Reaches(d)'
    <3>1. SameBatch
      BY <2>1 DEF SameBatch
    <3> QED BY <2>1, <2>2, <2>3, <3>1, ReachFrame
  <2>4. Reaches(c)'
    <3>1. Reaches(c) /\ unsent'[c] = Tail(unsent[c])
          /\ ToSet(unsent[c]) = ToSet(Tail(unsent[c])) \cup {Head(unsent[c])}
      BY <2>1, <2>2, TailSet
    <3>2. dropped'[c] = 0 =>
             \A e \in Wanted : Pending(c, e) => Pending(c, e)'
      <4>1. CASE Head(unsent[c]) \notin Wanted /\ UNCHANGED <<channel, dropped>>
        BY <2>1, <3>1, <4>1 DEF Pending
      <4>2. CASE channel' = channel /\ dropped' = [dropped EXCEPT ![c] = @ + 1]
        <5>1. dropped'[c] = dropped[c] + 1 /\ dropped[c] \in Nat
          BY <2>2, <4>2
        <5>2. dropped'[c] # 0
          BY <5>1
        <5> QED BY <5>2
      <4>3. CASE /\ channel' = [channel EXCEPT ![c] = Append(@, Head(unsent[c]))]
                 /\ Head(unsent[c]) \in Wanted
        <5>1. ToSet(channel'[c]) = ToSet(channel[c]) \cup {Head(unsent[c])}
          <6>1. channel'[c] = Append(channel[c], Head(unsent[c]))
            BY <2>2, <4>3
          <6> QED BY <2>2, <4>3, <6>1, AppendSet
        <5> QED BY <2>1, <3>1, <5>1 DEF Pending
      <4> QED BY <2>1, <4>1, <4>2, <4>3
    <3>3. dropped'[c] = 0 => dropped[c] = 0
      <4>1. \A k \in Nat : k + 1 # 0
        OBVIOUS
      <4> QED BY <2>1, <2>2, <4>1
    <3>4. c \in subs' /\ dropped'[c] = 0 =>
             \A e \in (stored' \ joined'[c]) \cap Wanted : Passed(c, e)' \/ Pending(c, e)'
      BY <2>1, <3>1, <3>2, <3>3 DEF Reaches, Passed
    <3>5. /\ \A e \in replayed'[c] : Passed(c, e)'
          /\ \A e \in skipped'[c] : AlreadySeen(c, e)'
      BY <2>1, <3>1 DEF Reaches, Passed, AlreadySeen
    <3> QED BY <3>4, <3>5 DEF Reaches
  <2> QED BY <2>3, <2>4
<1> QED BY <1>1, <1>2

\* A connection starts with nothing dealt with; what is read on it is shown or
\* passed over.
LEMMA ReachRead ==
    ASSUME TypeInv, \A d \in Streams : Reaches(d),
           NEW c \in Streams, Connect(c) \/ Replay(c) \/ Receive(c)
    PROVE  \A d \in Streams : Reaches(d)'
<1>1. /\ DOMAIN channel = Streams /\ DOMAIN joined = Streams /\ DOMAIN history = Streams
      /\ DOMAIN shown = Streams /\ DOMAIN replayed = Streams /\ DOMAIN dropped = Streams
      /\ DOMAIN resume = Streams /\ DOMAIN skipped = Streams
      /\ history[c] \in Seq(Wanted) /\ shown[c] \in Seq(Wanted) /\ channel[c] \in Seq(Wanted)
  BY DEF TypeInv, TailTypeOK
<1>2. /\ UNCHANGED <<stored, writing, fresh, unsent>>
      /\ \A d \in Streams \ {c} : /\ shown'[d] = shown[d] /\ channel'[d] = channel[d]
                                  /\ replayed'[d] = replayed[d] /\ dropped'[d] = dropped[d]
                                  /\ joined'[d] = joined[d] /\ resume'[d] = resume[d]
                                  /\ skipped'[d] = skipped[d] /\ (d \in subs' => d \in subs)
  BY <1>1 DEF Connect, Subscribes, Replay, Receive, ShowUnlessReplayed, WriteEvent, writerVars, hubVars,
              clientVars
<1>3. SameBatch
  BY <1>2 DEF SameBatch
<1>4. ASSUME NEW d \in Streams, d # c PROVE Reaches(d)'
  BY <1>2, <1>3, <1>4, ReachFrame
<1>5. Reaches(c)
  OBVIOUS
<1>6. CASE Connect(c)
  <2>1. joined'[c] = stored /\ replayed'[c] = {} /\ skipped'[c] = {}
    BY <1>1, <1>6 DEF Connect
  <2>2. Reaches(c)'
    BY <1>2, <2>1 DEF Reaches
  <2> QED BY <1>4, <2>2
<1>7. CASE Replay(c)
  <2>0. PICK e0 : e0 = Head(history[c])
    OBVIOUS
  <2>1. /\ history[c] # <<>> /\ UNCHANGED <<channel, subs, dropped, resume, joined>>
        /\ replayed'[c] = replayed[c] \cup {e0}
        /\ \/ AlreadySeen(c, e0) /\ skipped'[c] = skipped[c] \cup {e0} /\ UNCHANGED shown
           \/ shown'[c] = Append(shown[c], e0) /\ UNCHANGED skipped
    BY <1>1, <1>7, <2>0 DEF Replay, WriteEvent, hubVars, clientVars
  <2>2. e0 \in Wanted
    BY <1>1, <2>0, <2>1, TailSet
  <2>3. (\A e : Passed(c, e) => Passed(c, e)') /\ Passed(c, e0)'
    <3>1. ToSet(Append(shown[c], e0)) = ToSet(shown[c]) \cup {e0}
      BY <1>1, <2>2, AppendSet
    <3>2. CASE skipped'[c] = skipped[c] \cup {e0} /\ UNCHANGED shown
      BY <3>2 DEF Passed
    <3>3. CASE shown'[c] = Append(shown[c], e0) /\ UNCHANGED skipped
      BY <3>1, <3>3 DEF Passed
    <3> QED BY <2>1, <3>2, <3>3
  <2>4. \A e : Pending(c, e) => Pending(c, e)'
    BY <1>2, <2>1 DEF Pending
  <2>5. c \in subs' /\ dropped'[c] = 0 =>
           \A e \in (stored' \ joined'[c]) \cap Wanted : Passed(c, e)' \/ Pending(c, e)'
    <3>1. c \in subs /\ dropped[c] = 0 =>
             \A e \in (stored \ joined[c]) \cap Wanted : Passed(c, e) \/ Pending(c, e)
      BY <1>5 DEF Reaches
    <3> QED BY <1>2, <2>1, <2>3, <2>4, <3>1
  <2>6. \A e \in replayed'[c] : Passed(c, e)'
    <3>1. \A e \in replayed[c] : Passed(c, e)
      BY <1>5 DEF Reaches
    <3> QED BY <2>1, <2>3, <3>1
  <2>7. \A e \in skipped'[c] : AlreadySeen(c, e)'
    BY <1>5, <2>1 DEF Reaches, AlreadySeen
  <2>8. Reaches(c)'
    BY <2>5, <2>6, <2>7 DEF Reaches
  <2> QED BY <1>4, <2>8
<1>8. CASE Receive(c)
  <2>0. PICK e0 : e0 = Head(channel[c])
    OBVIOUS
  <2>1. /\ channel[c] # <<>> /\ UNCHANGED <<subs, dropped, resume, joined, skipped>>
        /\ channel'[c] = Tail(channel[c])
        /\ \/ e0 \in replayed[c] /\ replayed'[c] = replayed[c] \ {e0} /\ shown'[c] = shown[c]
           \/ replayed'[c] = replayed[c] /\ shown'[c] = Append(shown[c], e0)
    BY <1>1, <1>8, <2>0 DEF Receive, ShowUnlessReplayed, WriteEvent, clientVars
  <2>2. e0 \in Wanted /\ ToSet(channel[c]) = ToSet(channel'[c]) \cup {e0}
    BY <1>1, <2>0, <2>1, TailSet
  <2>3. (\A e : Passed(c, e) => Passed(c, e)') /\ Passed(c, e0)'
    <3>1. ToSet(Append(shown[c], e0)) = ToSet(shown[c]) \cup {e0}
      BY <1>1, <2>2, AppendSet
    <3>2. CASE e0 \in replayed[c] /\ shown'[c] = shown[c]
      <4>1. Passed(c, e0)
        BY <1>5, <3>2 DEF Reaches
      <4> QED BY <2>1, <3>2, <4>1 DEF Passed
    <3>3. CASE shown'[c] = Append(shown[c], e0)
      BY <2>1, <3>1, <3>3 DEF Passed
    <3> QED BY <2>1, <3>2, <3>3
  <2>4. \A e : Pending(c, e) => Pending(c, e)' \/ e = e0
    BY <1>2, <2>1, <2>2 DEF Pending
  <2>5. c \in subs' /\ dropped'[c] = 0 =>
           \A e \in (stored' \ joined'[c]) \cap Wanted : Passed(c, e)' \/ Pending(c, e)'
    <3>1. c \in subs /\ dropped[c] = 0 =>
             \A e \in (stored \ joined[c]) \cap Wanted : Passed(c, e) \/ Pending(c, e)
      BY <1>5 DEF Reaches
    <3> QED BY <1>2, <2>1, <2>3, <2>4, <3>1
  <2>6. \A e \in replayed'[c] : Passed(c, e)'
    <3>1. \A e \in replayed[c] : Passed(c, e)
      BY <1>5 DEF Reaches
    <3> QED BY <2>1, <2>3, <3>1
  <2>7. \A e \in skipped'[c] : AlreadySeen(c, e)'
    BY <1>5, <2>1 DEF Reaches, AlreadySeen
  <2>8. Reaches(c)'
    BY <2>5, <2>6, <2>7 DEF Reaches
  <2> QED BY <1>4, <2>8
<1> QED BY <1>6, <1>7, <1>8

\* Every step keeps what reaches the streams.
LEMMA ReachStep ==
    TypeInv /\ HubInv /\ (\A c \in Streams : Reaches(c)) /\ [TailNext]_tailVars
        => \A c \in Streams : Reaches(c)'
<1> SUFFICES ASSUME TypeInv, HubInv, \A c \in Streams : Reaches(c), [TailNext]_tailVars
             PROVE  \A c \in Streams : Reaches(c)'
  OBVIOUS
<1>1. CASE CommitBatch
  BY <1>1, ReachCommit
<1>2. CASE Publish \/ \E c \in Streams : Offer(c)
  BY <1>2, ReachOffer
<1>3. ASSUME NEW c \in Streams, Connect(c) \/ Replay(c) \/ Receive(c)
      PROVE  \A d \in Streams : Reaches(d)'
  BY <1>3, ReachRead
<1>4. CASE PublishDone \/ WriteDone
  <2>1. /\ SameBatch
        /\ UNCHANGED <<unsent, subs, channel, dropped, replayed, resume, skipped, shown, joined>>
    BY <1>4 DEF PublishDone, WriteDone, SameBatch, Locked, hubVars, handlerVars, clientVars
  <2> QED BY <2>1, ReachFrame
<1>5. ASSUME NEW c \in Streams, (\E n \in 1..MaxConnects : Evict(c, n)) \/ CloseSub(c)
      PROVE  \A d \in Streams : Reaches(d)'
  <2>1. /\ SameBatch /\ UNCHANGED <<unsent, dropped, replayed, resume, skipped, shown, joined>>
        /\ subs' \subseteq subs
        /\ channel' = channel \/ (channel' = [channel EXCEPT ![c] = <<>>] /\ c \notin subs')
    BY <1>5 DEF Evict, CloseSub, Unregister, SameBatch, writerVars, handlerVars, clientVars
  <2>2. DOMAIN channel = Streams
    BY DEF TypeInv
  <2>3. \A d \in Streams : d \in subs' => d \in subs /\ channel'[d] = channel[d]
    BY <2>1, <2>2
  <2> QED BY <2>1, <2>3, ReachFrame
<1>6. ASSUME NEW c \in Streams,
             ReadHistory(c) \/ GoLive(c) \/ Ping(c) \/ FrameWritten(c) \/ End(c) \/ Break(c)
      PROVE  \A d \in Streams : Reaches(d)'
  <2>1. /\ SameBatch
        /\ UNCHANGED <<unsent, subs, channel, dropped, replayed, resume, skipped, shown, joined>>
    BY <1>6 DEF ReadHistory, GoLive, Ping, FrameWritten, End, SeeClosed, SeeShutdown, Break, Leaves,
                SameBatch, writerVars, hubVars, clientVars
  <2> QED BY <2>1, ReachFrame
<1>7. CASE ShutDown \/ UNCHANGED tailVars
  <2>1. /\ SameBatch
        /\ UNCHANGED <<unsent, subs, channel, dropped, replayed, resume, skipped, shown, joined>>
    BY <1>7 DEF ShutDown, SameBatch, tailVars, writerVars, hubVars, handlerVars, clientVars
  <2> QED BY <2>1, ReachFrame
<1> QED BY <1>1, <1>2, <1>3, <1>4, <1>5, <1>6, <1>7 DEF TailNext, Writer, Handler

-----------------------------------------------------------------------------
(* The theorems. *)

\* The hub's channels, the types, and what each stream is shown.
TailInv == HubInv /\ TypeInv /\ BatchInv /\ \A c \in Streams : Once(c) /\ Reaches(c)

\* Nothing is stored, sent or shown at the start.
LEMMA TailStarts == TailInit => TailInv
<1> SUFFICES ASSUME TailInit PROVE TailInv
  OBVIOUS
<1>1. /\ stored = {} /\ fresh = <<>> /\ subs = {}
      /\ \A c \in Streams : /\ unsent[c] = <<>> /\ channel[c] = <<>> /\ history[c] = <<>> /\ shown[c] = <<>>
                            /\ replayed[c] = {} /\ at[c] = "off" /\ skipped[c] = {}
  BY DEF TailInit
<1>2. HubInv /\ TypeInv
  BY HubInit, TypeInit
<1>3. BatchInv /\ \A c \in Streams : Once(c)
  BY <1>1, EmptyQueue DEF BatchInv, Once
<1>4. \A c \in Streams : Reaches(c)
  BY <1>1 DEF Reaches
<1> QED BY <1>2, <1>3, <1>4 DEF TailInv

\* The invariant holds in every state the server reaches.
THEOREM TailInvariance == TailSpec => []TailInv
<1>1. TailInv /\ [TailNext]_tailVars => TailInv'
  <2>1. SUFFICES ASSUME TailInv, [TailNext]_tailVars PROVE TailInv'
    OBVIOUS
  <2>2. HubInv /\ TypeInv /\ BatchInv /\ (\A c \in Streams : Once(c)) /\ (\A c \in Streams : Reaches(c))
    BY <2>1 DEF TailInv
  <2>3. HubInv' /\ TypeInv' /\ BatchInv' /\ (\A c \in Streams : Once(c)') /\ (\A c \in Streams : Reaches(c)')
    BY <2>1, <2>2, HubStep, TypeStep, OnceStep, ReachStep
  <2> QED BY <2>3 DEF TailInv
<1>2. TailInit => TailInv
  BY TailStarts
<1> QED BY <1>1, <1>2, PTL DEF TailSpec

\* Every variable of the hub, the handlers and the clients stays in its type.
THEOREM TailTyped == TailSpec => []TailTypeOK
<1>1. TailInv => TailTypeOK
  BY DEF TailInv, TypeInv
<1> QED BY <1>1, TailInvariance, PTL

\* No connection is shown an event twice, in whatever order events are
\* committed (sse.go:155-156).
THEOREM NoneShownTwice == TailSpec => []ShownOnce
<1>1. TailInv => ShownOnce
  BY DEF TailInv, Once, ShownOnce
<1> QED BY <1>1, TailInvariance, PTL

\* What is committed while a stream is open reaches it exactly once, in whatever
\* order of their IDs events are committed, unless the stream has dropped events
\* or found it in the history with an ID that is not above the one the client
\* resumes from (sse.go:82-84, 155-156).
THEOREM EachReachesOnce == TailSpec => []EachShownOnce
<1>1. TailInv => EachShownOnce
  <2>1. SUFFICES ASSUME TailInv PROVE EachShownOnce
    OBVIOUS
  <2>2. ShownOnce
    BY <2>1 DEF TailInv, Once, ShownOnce
  <2>3. NothingMissed
    <3>1. SUFFICES ASSUME NEW c \in subs, at[c] = "live", dropped[c] = 0,
                          NEW e \in (stored \ joined[c]) \cap Wanted
                   PROVE  \/ e \in ToSet(shown[c]) \cup ToSet(channel[c]) \cup ToSet(unsent[c])
                          \/ writing = "committed" /\ e \in ToSet(fresh)
                          \/ e \in skipped[c] /\ AlreadySeen(c, e)
      BY DEF NothingMissed
    <3>2. c \in Streams
      BY <2>1 DEF TailInv, TypeInv, TailTypeOK
    <3>3. (Passed(c, e) \/ Pending(c, e)) /\ \A f \in skipped[c] : AlreadySeen(c, f)
      BY <2>1, <3>1, <3>2 DEF TailInv, Reaches
    <3> QED BY <3>3 DEF Passed, Pending
  <2> QED BY <2>2, <2>3 DEF EachShownOnce
<1> QED BY <1>1, TailInvariance, PTL
=============================================================================
