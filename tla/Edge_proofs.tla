----------------------------- MODULE Edge_proofs ----------------------------
(***************************************************************************)
(* Machine-checked proofs about both ends of the network.                  *)
(*                                                                         *)
(* The Go client, for every size of its queue and its batches and any      *)
(* number of events: no event that was sent is counted twice, the server   *)
(* gets none twice and none out of order that was not given up, and what   *)
(* counts as sent it took, but for the records it refused.                 *)
(*                                                                         *)
(* The OTLP receiver, for every set of well-formed requests and every size *)
(* limit: the answer accounts for every record, and what lands has landed  *)
(* in the order and with the attributes it was sent with.                  *)
(*                                                                         *)
(* The syslog listener, for every set of messages that the parser reads as *)
(* they were meant: so they arrive, in either framing and in their order,  *)
(* and of what a sender was cut off in at most one event more.             *)
(***************************************************************************)
EXTENDS Edge, Tail_proofs, Search_proofs, FiniteSetTheorems, TLAPS

-----------------------------------------------------------------------------
(* The client.                                                             *)

\* Ascending numbers, the order in which events were sent.
Rising(s) == \A i, j \in 1..Len(s) : i < j => s[i] < s[j]

AllBefore(s, t) == \A i \in 1..Len(s), j \in 1..Len(t) : s[i] < t[j]

\* Numbers of the first n events.
Within(s, n) == \A i \in 1..Len(s) : s[i] \in 1..n

\* What waits, and what the counters of Stats say.
Known == Len(queue) + Len(sending) + sent + failed + droppedEvents

\* The counters, and what they count.
Numbered ==
    /\ events \in Seq(Kinds) /\ queue \in Seq(Nat) /\ sending \in Seq(Nat) /\ delivered \in Seq(Nat)
    /\ sent \in Nat /\ failed \in Nat /\ droppedEvents \in Nat

Counting ==
    /\ Known <= Len(events)
    /\ "unencodable" \notin Range(events) => Known = Len(events)

\* The batch at hand comes before what waits.
Ordering ==
    /\ Rising(sending) /\ Rising(queue) /\ AllBefore(sending, queue)
    /\ Within(sending, Len(events)) /\ Within(queue, Len(events))

Posted == 1..Len(requests)
BatchOf(k) == requests[k].batch

\* The request whose answer the client waits for.
AtHand(k) == sender = "asking" /\ k = Len(requests)

\* A request has its batch, ahead of what is not posted yet, and is counted once the
\* client has no more to do with it.
InPlace(k) ==
    /\ Rising(BatchOf(k)) /\ Within(BatchOf(k), Len(events)) /\ AllBefore(BatchOf(k), queue)
    /\ requests[k].at <= Len(BatchOf(k))
    /\ AtHand(k) => BatchOf(k) = sending /\ requests[k].counted = "no"
    /\ ~AtHand(k) => AllBefore(BatchOf(k), sending) /\ requests[k].counted # "no"
    /\ requests[k].counted = "sent" => requests[k].status = "200"
    /\ requests[k].status = "200" => requests[k].at = Len(BatchOf(k)) /\ ~requests[k].overflow

Requesting ==
    /\ requests \in Seq(Request)
    /\ \A k \in Posted : InPlace(k)
    /\ \A k, l \in Posted : k < l => AllBefore(BatchOf(k), BatchOf(l))
    /\ sender = "asking" => requests # <<>>

\* The event was counted as failed.
GivenUp(e) ==
    \E k \in Posted : requests[k].counted = "failed" /\ \E p \in 1..Len(BatchOf(k)) : e = BatchOf(k)[p]

\* Of a request so much has arrived as its handler is at, but for what it refused.
Brought == \A d \in 1..Len(delivered) : \E k \in Posted : \E p \in 1..requests[k].at :
    delivered[d] = BatchOf(k)[p]

InTurn == \A i, j \in 1..Len(delivered) : i < j =>
    delivered[i] < delivered[j] \/ (delivered[i] # delivered[j] /\ GivenUp(delivered[j]))

Arrived(e) == \E d \in 1..Len(delivered) : delivered[d] = e

Complete == \A k \in Posted : \A p \in 1..requests[k].at : ~requests[k].overflow =>
    events[BatchOf(k)[p]] = "malformed" \/ Arrived(BatchOf(k)[p])

\* The goroutine stops only when nothing waits and nothing more can come.
StopsEmpty == sender = "stopped" => closing /\ queue = <<>> /\ sending = <<>>

SdkInv ==
    /\ Numbered /\ Counting /\ Ordering /\ Requesting
    /\ Brought /\ InTurn /\ Complete /\ StopsEmpty

-----------------------------------------------------------------------------
\* Nothing has been sent.
LEMMA SdkInitInv == SdkInit => SdkInv
<1> SUFFICES ASSUME SdkInit PROVE SdkInv
  OBVIOUS
<1>1. /\ events = <<>> /\ queue = <<>> /\ sending = <<>> /\ delivered = <<>> /\ requests = <<>>
      /\ sent = 0 /\ failed = 0 /\ droppedEvents = 0 /\ sender = "waiting"
  BY DEF SdkInit
<1>2. Numbered
  BY <1>1 DEF Numbered
<1>3. Counting
  BY <1>1 DEF Counting, Known
<1>4. Ordering
  BY <1>1 DEF Ordering, Rising, AllBefore, Within
<1>5. Requesting /\ Brought /\ InTurn /\ Complete /\ StopsEmpty
  BY <1>1 DEF Requesting, Posted, Brought, InTurn, Complete, StopsEmpty
<1> QED BY <1>2, <1>3, <1>4, <1>5 DEF SdkInv

\* Sequences of numbers, at their ends.
LEMMA AppendFacts ==
    ASSUME NEW s \in Seq(Nat), NEW e \in Nat
    PROVE  /\ Append(s, e) \in Seq(Nat)
           /\ Len(Append(s, e)) = Len(s) + 1
           /\ Append(s, e)[Len(s) + 1] = e
           /\ \A i \in 1..Len(s) : Append(s, e)[i] = s[i] /\ s[i] \in Nat
OBVIOUS

\* What is appended is larger than all before it.
LEMMA AppendInOrder ==
    ASSUME NEW s \in Seq(Nat), NEW e \in Nat, Rising(s), \A i \in 1..Len(s) : s[i] < e
    PROVE  Rising(Append(s, e))
<1> DEFINE t == Append(s, e)
<1>1. /\ Len(t) = Len(s) + 1 /\ t[Len(s) + 1] = e /\ Len(s) \in Nat
      /\ \A i \in 1..Len(s) : t[i] = s[i]
  BY AppendFacts
<1> HIDE DEF t
<1>2. ASSUME NEW i \in 1..Len(t), NEW j \in 1..Len(t), i < j PROVE t[i] < t[j]
  <2>1. i \in 1..Len(s) /\ t[i] = s[i]
    BY <1>1, <1>2
  <2>2. CASE j \in 1..Len(s)
    BY <1>1, <1>2, <2>1, <2>2 DEF Rising
  <2>3. CASE j \notin 1..Len(s)
    <3>1. t[j] = e
      BY <1>1, <2>3
    <3> QED BY <2>1, <3>1
  <2> QED BY <2>2, <2>3
<1>3. Rising(t)
  BY <1>2 DEF Rising
<1> QED BY <1>3 DEF t

\* What is within the events stays within more of them, below the next one.
LEMMA WithinMore ==
    ASSUME NEW s \in Seq(Nat), NEW n \in Nat, Within(s, n)
    PROVE  Within(s, n + 1) /\ \A i \in 1..Len(s) : s[i] < n + 1
<1>1. ASSUME NEW i \in 1..Len(s) PROVE s[i] \in 1..(n + 1) /\ s[i] < n + 1
  <2>1. s[i] \in 1..n
    BY DEF Within
  <2> QED BY <2>1
<1> QED BY <1>1 DEF Within

\* A sequence within the events, when one of them is appended.
LEMMA AppendWithin ==
    ASSUME NEW s \in Seq(Nat), NEW n \in Nat, NEW e \in 1..n, Within(s, n)
    PROVE  Within(Append(s, e), n)
<1> DEFINE t == Append(s, e)
<1>1. /\ Len(t) = Len(s) + 1 /\ t[Len(s) + 1] = e /\ Len(s) \in Nat
      /\ \A i \in 1..Len(s) : t[i] = s[i]
  BY AppendFacts
<1> HIDE DEF t
<1>2. ASSUME NEW i \in 1..Len(t) PROVE t[i] \in 1..n
  <2>1. CASE i \in 1..Len(s)
    BY <1>1, <2>1 DEF Within
  <2>2. CASE i \notin 1..Len(s)
    <3>1. t[i] = e
      BY <1>1, <2>2
    <3> QED BY <3>1
  <2> QED BY <2>1, <2>2
<1> QED BY <1>2 DEF Within, t

\* A sequence that comes before another, when that one grows.
LEMMA AppendAfter ==
    ASSUME NEW r \in Seq(Nat), NEW s \in Seq(Nat), NEW e \in Nat,
           AllBefore(r, s), \A i \in 1..Len(r) : r[i] < e
    PROVE  AllBefore(r, Append(s, e))
<1> DEFINE t == Append(s, e)
<1>1. /\ Len(t) = Len(s) + 1 /\ t[Len(s) + 1] = e /\ Len(s) \in Nat
      /\ \A i \in 1..Len(s) : t[i] = s[i]
  BY AppendFacts
<1> HIDE DEF t
<1>2. ASSUME NEW i \in 1..Len(r), NEW j \in 1..Len(t) PROVE r[i] < t[j]
  BY <1>1 DEF AllBefore
<1> QED BY <1>2 DEF AllBefore, t

\* A sequence that comes before another, when it grows itself.
LEMMA AppendBefore ==
    ASSUME NEW r \in Seq(Nat), NEW s \in Seq(Nat), NEW e \in Nat,
           AllBefore(s, r), \A i \in 1..Len(r) : e < r[i]
    PROVE  AllBefore(Append(s, e), r)
<1> DEFINE t == Append(s, e)
<1>1. /\ Len(t) = Len(s) + 1 /\ t[Len(s) + 1] = e /\ Len(s) \in Nat
      /\ \A i \in 1..Len(s) : t[i] = s[i]
  BY AppendFacts
<1> HIDE DEF t
<1>2. ASSUME NEW i \in 1..Len(t), NEW j \in 1..Len(r) PROVE t[i] < r[j]
  <2>1. CASE i \in 1..Len(s)
    BY <1>1, <2>1 DEF AllBefore
  <2>2. CASE i \notin 1..Len(s)
    <3>1. t[i] = e
      BY <1>1, <2>2
    <3> QED BY <3>1
  <2> QED BY <2>1, <2>2
<1> QED BY <1>2 DEF AllBefore, t

\* Head and tail.
LEMMA TailFacts ==
    ASSUME NEW T, NEW s \in Seq(T), s # <<>>
    PROVE  /\ Tail(s) \in Seq(T) /\ Head(s) \in T /\ Head(s) = s[1]
           /\ Len(s) \in Nat /\ Len(s) # 0 /\ Len(Tail(s)) = Len(s) - 1
           /\ \A i \in 1..(Len(s) - 1) : Tail(s)[i] = s[i + 1]
OBVIOUS

\* What is true of all of a sequence, and of any two of its elements, is true of
\* its tail; what comes first comes before the rest.
LEMMA TailInOrder ==
    ASSUME NEW s \in Seq(Nat), s # <<>>, Rising(s)
    PROVE  /\ Rising(Tail(s))
           /\ \A i \in 1..Len(Tail(s)) : s[1] < Tail(s)[i]
           /\ \A i \in 1..Len(Tail(s)) : i + 1 \in 1..Len(s) /\ Tail(s)[i] = s[i + 1]
<1> DEFINE t == Tail(s)
<1>1. /\ Len(s) \in Nat \ {0} /\ Len(t) = Len(s) - 1
      /\ \A i \in 1..Len(t) : t[i] = s[i + 1]
  BY TailFacts
<1> HIDE DEF t
<1>2. \A i \in 1..Len(t) : i + 1 \in 1..Len(s) /\ 1 \in 1..Len(s)
  BY <1>1
<1>3. ASSUME NEW i \in 1..Len(t), NEW j \in 1..Len(t), i < j PROVE t[i] < t[j]
  <2>1. i + 1 \in 1..Len(s) /\ j + 1 \in 1..Len(s) /\ i + 1 < j + 1
    BY <1>1, <1>3
  <2>2. s[i + 1] < s[j + 1]
    BY <2>1 DEF Rising
  <2> QED BY <1>1, <2>2
<1>4. \A i \in 1..Len(t) : s[1] < t[i]
  BY <1>1, <1>2 DEF Rising
<1> QED BY <1>1, <1>2, <1>3, <1>4 DEF Rising, t

-----------------------------------------------------------------------------
\* What a request consists of.
LEMMA RequestFacts ==
    ASSUME requests \in Seq(Request), NEW k \in Posted
    PROVE  /\ requests[k] \in Request /\ k \in Nat /\ Len(requests) \in Nat
           /\ BatchOf(k) \in Seq(Nat) /\ Len(BatchOf(k)) \in Nat
           /\ requests[k].at \in Nat /\ requests[k].overflow \in BOOLEAN
           /\ requests[k].counted \in {"no", "sent", "failed"}
<1>1. requests[k] \in Request /\ k \in Nat /\ Len(requests) \in Nat
  BY DEF Posted
<1>2. BatchOf(k) \in Seq(Nat) /\ requests[k].at \in Nat /\ requests[k].overflow \in BOOLEAN
      /\ requests[k].counted \in {"no", "sent", "failed"}
  BY <1>1 DEF Request, BatchOf
<1> QED BY <1>1, <1>2

\* One element of a sequence is replaced.
LEMMA OneReplaced ==
    ASSUME NEW T, NEW s \in Seq(T), NEW k \in 1..Len(s), NEW x \in T, NEW t, t = [s EXCEPT ![k] = x]
    PROVE  /\ t \in Seq(T) /\ Len(t) = Len(s) /\ t[k] = x
           /\ \A l \in 1..Len(s) : l # k => t[l] = s[l]
OBVIOUS

\* Sums of five, when one of the summands changes.
LEMMA SumShrinks ==
    ASSUME NEW a \in Nat, NEW b \in Nat, NEW c \in Nat, NEW d \in Nat, NEW e \in Nat, NEW n \in Nat,
           a + b + c + d + e <= n
    PROVE  a + 0 + c + d + e <= n
OBVIOUS

LEMMA SumShifts ==
    ASSUME NEW a \in Nat, NEW b \in Nat, NEW c \in Nat, NEW d \in Nat, NEW e \in Nat, NEW x \in Nat,
           NEW y \in Nat, x + y = a + b
    PROVE  x + y + c + d + e = a + b + c + d + e
OBVIOUS

\* The lengths are numbers.
LEMMA Lengths ==
    ASSUME Numbered
    PROVE  Len(events) \in Nat /\ Len(queue) \in Nat /\ Len(sending) \in Nat /\ Len(delivered) \in Nat
BY DEF Numbered

-----------------------------------------------------------------------------
\* Send gives the event the next number, and queues or drops it (client.go:141-153).
LEMMA SendKeeps == ASSUME SdkInv, Send PROVE SdkInv'
<1>a. Numbered /\ Counting /\ Ordering /\ Requesting /\ Brought /\ InTurn /\ Complete /\ StopsEmpty
  BY DEF SdkInv
<1>b. UNCHANGED <<closing, sending, sender, sent, failed, requests, delivered>>
  BY DEF Send
<1>1. PICK kind \in Kinds : events' = Append(events, kind)
  BY DEF Send
<1>2. PICK n \in Nat : n = Len(events)
  BY <1>a, Lengths
<1>3. PICK m \in Nat : m = n + 1
  BY <1>2
<1>4. events \in Seq(Kinds) /\ events' \in Seq(Kinds) /\ Len(events') = m
      /\ \A i \in 1..n : events'[i] = events[i]
  BY <1>a, <1>1, <1>2, <1>3 DEF Numbered
<1>5. "unencodable" \notin Range(events') => "unencodable" \notin Range(events)
  <2>1. ASSUME NEW x \in DOMAIN events PROVE x \in DOMAIN events' /\ events'[x] = events[x]
    BY <1>2, <1>3, <1>4
  <2> QED BY <2>1 DEF Range
<1>6. \/ queue' = Append(queue, m) /\ droppedEvents' = droppedEvents
      \/ queue' = queue /\ droppedEvents' = droppedEvents + 1
  BY <1>4 DEF Send
<1>7. queue \in Seq(Nat) /\ Append(queue, m) \in Seq(Nat) /\ Len(Append(queue, m)) = Len(queue) + 1
      /\ Len(queue) \in Nat /\ droppedEvents \in Nat
  BY <1>a, <1>3, AppendFacts, Lengths DEF Numbered
<1>8. queue' \in Seq(Nat) /\ Len(queue') \in Nat /\ droppedEvents' \in Nat
      /\ Len(queue') + droppedEvents' = Len(queue) + droppedEvents + 1
  <2>1. CASE queue' = Append(queue, m) /\ droppedEvents' = droppedEvents
    BY <1>7, <2>1
  <2>2. CASE queue' = queue /\ droppedEvents' = droppedEvents + 1
    BY <1>7, <2>2
  <2> QED BY <1>6, <2>1, <2>2
<1>9. Numbered'
  BY <1>a, <1>b, <1>4, <1>8 DEF Numbered
<1>10. Counting'
  <2>1. Len(sending) \in Nat /\ sent \in Nat /\ failed \in Nat
    BY <1>a, Lengths DEF Numbered
  <2>2. Known' = Known + 1
    <3>1. PICK a \in Nat, e \in Nat, x \in Nat, y \in Nat :
            a = Len(queue) /\ e = droppedEvents /\ x = Len(queue') /\ y = droppedEvents'
      BY <1>7, <1>8
    <3>2. PICK b \in Nat, c \in Nat, d \in Nat : b = Len(sending) /\ c = sent /\ d = failed
      BY <2>1
    <3>3. Known = a + b + c + d + e /\ Known' = x + b + c + d + y
      BY <1>b, <3>1, <3>2 DEF Known
    <3>4. x + y = a + e + 1
      BY <1>8, <3>1
    <3>5. x + b + c + d + y = a + b + c + d + e + 1
      BY <3>4
    <3> QED BY <3>3, <3>5
  <2>3. Known \in Nat
    BY <1>7, <2>1 DEF Known
  <2> QED BY <1>a, <1>2, <1>3, <1>4, <1>5, <2>2, <2>3 DEF Counting
<1>11. ASSUME NEW s \in Seq(Nat), Within(s, n), AllBefore(s, queue)
       PROVE  Within(s, m) /\ AllBefore(s, queue')
  <2>1. Within(s, m) /\ \A i \in 1..Len(s) : s[i] < m
    BY <1>3, <1>11, WithinMore
  <2>2. AllBefore(s, Append(queue, m))
    BY <1>7, <1>11, <2>1, AppendAfter
  <2> QED BY <1>6, <1>11, <2>1, <2>2
<1>12. Rising(queue') /\ Within(queue', m)
  <2>1. Within(queue, m) /\ (\A i \in 1..Len(queue) : queue[i] < m) /\ m \in 1..m
    BY <1>a, <1>2, <1>3, <1>7, WithinMore DEF Ordering
  <2>2. Rising(Append(queue, m)) /\ Within(Append(queue, m), m)
    BY <1>a, <1>7, <2>1, AppendInOrder, AppendWithin DEF Ordering
  <2> QED BY <1>a, <1>6, <2>1, <2>2 DEF Ordering
<1>13. Ordering'
  <2>1. Within(sending, m) /\ AllBefore(sending, queue')
    BY <1>a, <1>2, <1>11 DEF Ordering, Numbered
  <2> QED BY <1>a, <1>b, <1>4, <1>12, <2>1 DEF Ordering
<1>14. Posted' = Posted /\ \A k : BatchOf(k)' = BatchOf(k) /\ AtHand(k)' = AtHand(k)
  BY <1>b DEF Posted, BatchOf, AtHand
<1>15. ASSUME NEW k \in Posted PROVE BatchOf(k) \in Seq(Nat) /\ InPlace(k)
  BY <1>a, RequestFacts DEF Requesting
<1>16. Requesting'
  <2>1. ASSUME NEW k \in Posted PROVE InPlace(k)'
    <3>1. Within(BatchOf(k), m) /\ AllBefore(BatchOf(k), queue')
      BY <1>2, <1>11, <1>15 DEF InPlace
    <3> QED BY <1>b, <1>4, <1>14, <1>15, <3>1 DEF InPlace
  <2> QED BY <1>a, <1>b, <1>14, <2>1 DEF Requesting
<1>17. \A e : Arrived(e)' = Arrived(e) /\ GivenUp(e)' = GivenUp(e)
  BY <1>b, <1>14 DEF Arrived, GivenUp
<1>18. Complete'
  <2>1. ASSUME NEW k \in Posted, NEW p \in 1..requests[k].at
        PROVE  events'[BatchOf(k)[p]] = events[BatchOf(k)[p]]
    <3>1. p \in 1..Len(BatchOf(k))
      BY <1>a, <1>15, RequestFacts DEF InPlace, Requesting
    <3>2. BatchOf(k)[p] \in 1..n
      BY <1>2, <1>15, <3>1 DEF Within, InPlace
    <3> QED BY <1>4, <3>2
  <2> QED BY <1>a, <1>b, <1>14, <1>17, <2>1 DEF Complete
<1>19. Brought' /\ InTurn' /\ StopsEmpty'
  <2>1. Brought'
    BY <1>a, <1>b, <1>14 DEF Brought
  <2>2. InTurn'
    BY <1>a, <1>b, <1>17 DEF InTurn
  <2>3. StopsEmpty'
    BY <1>a, <1>b DEF StopsEmpty, Send
  <2> QED BY <2>1, <2>2, <2>3
<1> QED BY <1>9, <1>10, <1>13, <1>16, <1>18, <1>19 DEF SdkInv

\* Where nothing is asked of the server, each request stays as it is.
LEMMA NotAsking ==
    ASSUME SdkInv, sender # "asking", sender' # "asking",
           UNCHANGED <<events, requests, delivered>>,
           \A k \in Posted : AllBefore(BatchOf(k), sending) /\ AllBefore(BatchOf(k), queue) =>
               AllBefore(BatchOf(k), sending') /\ AllBefore(BatchOf(k), queue')
    PROVE  Requesting' /\ Brought' /\ InTurn' /\ Complete'
<1>a. Requesting /\ Brought /\ InTurn /\ Complete
  BY DEF SdkInv
<1>1. Posted' = Posted /\ \A k : BatchOf(k)' = BatchOf(k) /\ ~AtHand(k) /\ ~AtHand(k)'
  BY DEF Posted, BatchOf, AtHand
<1>2. ASSUME NEW k \in Posted PROVE InPlace(k)'
  <2>1. InPlace(k)
    BY <1>a DEF Requesting
  <2> QED BY <1>1, <2>1 DEF InPlace
<1>3. Requesting'
  BY <1>a, <1>1, <1>2 DEF Requesting
<1>4. \A e : Arrived(e)' = Arrived(e) /\ GivenUp(e)' = GivenUp(e)
  BY <1>1 DEF Arrived, GivenUp
<1>5. Complete'
  BY <1>a, <1>1, <1>4 DEF Complete
<1>6. Brought' /\ InTurn'
  BY <1>a, <1>1, <1>4 DEF Brought, InTurn
<1> QED BY <1>3, <1>5, <1>6

\* The head of the queue moves to the end of the batch.
LEMMA TakeEventKeeps == ASSUME SdkInv, TakeEvent PROVE SdkInv'
<1>a. Numbered /\ Counting /\ Ordering /\ Requesting
  BY DEF SdkInv
<1>1. /\ sender = "waiting" /\ queue # <<>> /\ queue \in Seq(Nat) /\ sending \in Seq(Nat)
      /\ queue' = Tail(queue) /\ sending' = Append(sending, Head(queue))
      /\ UNCHANGED <<closing, events, requests, delivered, sent, failed, droppedEvents>>
  BY <1>a DEF TakeEvent, Numbered
<1>2. sender' \in {"waiting", "posting"}
  BY <1>1 DEF TakeEvent, Flush
<1>3. PICK e \in Nat : e = Head(queue) /\ e = queue[1]
  BY <1>1, TailFacts
<1>4. /\ queue' \in Seq(Nat) /\ Len(queue') = Len(queue) - 1 /\ Len(queue) # 0 /\ Len(queue') \in Nat
      /\ sending' = Append(sending, e)
      /\ sending' \in Seq(Nat) /\ Len(sending') = Len(sending) + 1
      /\ Len(queue) \in Nat /\ Len(sending) \in Nat
  <2>1. queue' \in Seq(Nat) /\ Len(queue') = Len(queue) - 1 /\ Len(queue) # 0 /\ Len(queue) \in Nat
    BY <1>1, TailFacts
  <2>2. sending' \in Seq(Nat) /\ Len(sending') = Len(sending) + 1
    BY <1>1, <1>3, AppendFacts
  <2>3. Len(sending) \in Nat /\ Len(queue') \in Nat
    BY <1>a, <2>1, Lengths
  <2> QED BY <1>1, <1>3, <2>1, <2>2, <2>3
<1>5. 1 \in 1..Len(queue) /\ e \in 1..Len(events)
  BY <1>a, <1>3, <1>4 DEF Ordering, Within
<1>6. Numbered'
  BY <1>a, <1>1, <1>4 DEF Numbered
<1>7. Counting'
  <2>1. sent \in Nat /\ failed \in Nat /\ droppedEvents \in Nat
    BY <1>a DEF Numbered
  <2>2. Len(queue') + Len(sending') = Len(queue) + Len(sending) /\ Len(sending') \in Nat
    BY <1>4
  <2>3. Known' = Known
    BY <1>1, <1>4, <2>1, <2>2, SumShifts DEF Known
  <2> QED BY <1>a, <1>1, <2>3 DEF Counting
<1>8. /\ Rising(queue')
      /\ \A i \in 1..Len(queue') : e < queue'[i]
      /\ \A i \in 1..Len(queue') : i + 1 \in 1..Len(queue) /\ queue'[i] = queue[i + 1]
  BY <1>a, <1>1, <1>3, TailInOrder DEF Ordering
<1>9. Ordering'
  <2>1. Rising(sending')
    <3>1. \A i \in 1..Len(sending) : sending[i] < e
      BY <1>a, <1>3, <1>5 DEF Ordering, AllBefore
    <3> QED BY <1>a, <1>1, <1>4, <3>1, AppendInOrder DEF Ordering
  <2>2. AllBefore(sending, queue')
    BY <1>a, <1>8 DEF Ordering, AllBefore
  <2>3. AllBefore(sending', queue')
    BY <1>1, <1>4, <1>8, <2>2, AppendBefore
  <2>4. Within(queue', Len(events))
    BY <1>a, <1>8 DEF Ordering, Within
  <2>5. Within(sending', Len(events))
    BY <1>a, <1>1, <1>4, <1>5, Lengths, AppendWithin DEF Ordering
  <2> QED BY <1>1, <1>8, <2>1, <2>3, <2>4, <2>5 DEF Ordering
<1>10. ASSUME NEW k \in Posted, AllBefore(BatchOf(k), sending), AllBefore(BatchOf(k), queue)
       PROVE  AllBefore(BatchOf(k), sending') /\ AllBefore(BatchOf(k), queue')
  <2>1. BatchOf(k) \in Seq(Nat)
    BY <1>a, RequestFacts DEF Requesting
  <2>2. \A i \in 1..Len(BatchOf(k)) : BatchOf(k)[i] < e
    BY <1>3, <1>5, <1>10 DEF AllBefore
  <2>3. AllBefore(BatchOf(k), sending')
    BY <1>1, <1>4, <1>10, <2>1, <2>2, AppendAfter
  <2>4. AllBefore(BatchOf(k), queue')
    BY <1>8, <1>10 DEF AllBefore
  <2> QED BY <2>3, <2>4
<1>11. Requesting' /\ Brought' /\ InTurn' /\ Complete'
  BY <1>1, <1>2, <1>10, NotAsking
<1>12. StopsEmpty'
  BY <1>2 DEF StopsEmpty
<1> QED BY <1>6, <1>7, <1>9, <1>11, <1>12 DEF SdkInv

\* A batch is about to be posted, or the goroutine stops, with nothing left.
LEMMA FlushKeeps == ASSUME SdkInv, FlushTick \/ QueueClosed PROVE SdkInv'
<1>1. /\ sender = "waiting" /\ sender' \in {"posting", "waiting", "stopped"}
      /\ UNCHANGED <<events, queue, closing, sending, sent, failed, droppedEvents, requests, delivered>>
  BY DEF FlushTick, QueueClosed, Flush, LastFlush
<1>2. Requesting' /\ Brought' /\ InTurn' /\ Complete'
  BY <1>1, NotAsking
<1>3. StopsEmpty'
  BY DEF FlushTick, QueueClosed, Flush, LastFlush, StopsEmpty
<1>4. Numbered' /\ Counting' /\ Ordering'
  BY <1>1 DEF SdkInv, Numbered, Counting, Known, Ordering
<1> QED BY <1>2, <1>3, <1>4 DEF SdkInv

\* A batch that does not encode is forgotten; then not all events encode.
LEMMA EncodeFailsKeeps == ASSUME SdkInv, EncodeFails PROVE SdkInv'
<1>a. Numbered /\ Counting /\ Ordering /\ StopsEmpty
  BY DEF SdkInv
<1>1. /\ sender = "posting" /\ sender' = "waiting" /\ sending' = <<>>
      /\ UNCHANGED <<events, queue, closing, sent, failed, droppedEvents, requests, delivered>>
  BY DEF EncodeFails, Forget
<1>2. "unencodable" \in Range(events)
  <2>1. PICK i \in DOMAIN sending : events[sending[i]] = "unencodable"
    BY DEF EncodeFails, Encodes
  <2>2. DOMAIN sending = 1..Len(sending) /\ DOMAIN events = 1..Len(events)
    BY <1>a DEF Numbered
  <2>3. sending[i] \in DOMAIN events
    BY <1>a, <2>1, <2>2 DEF Ordering, Within
  <2> QED BY <2>1, <2>3 DEF Range
<1>3. Len(sending') = 0 /\ sending' \in Seq(Nat)
  BY <1>1
<1>4. Numbered'
  BY <1>a, <1>1, <1>3 DEF Numbered
<1>5. Counting'
  <2>1. sent \in Nat /\ failed \in Nat /\ droppedEvents \in Nat
    BY <1>a DEF Numbered
  <2>2. Known <= Len(events)
    BY <1>a DEF Counting
  <2>3. Len(queue) + 0 + sent + failed + droppedEvents <= Len(events)
    BY <1>a, <2>1, <2>2, Lengths, SumShrinks DEF Known
  <2>4. Known' <= Len(events)
    BY <1>1, <1>3, <2>3 DEF Known
  <2> QED BY <1>1, <1>2, <2>4 DEF Counting
<1>6. Ordering'
  <2>1. Rising(sending') /\ AllBefore(sending', queue) /\ Within(sending', Len(events))
    BY <1>3 DEF Rising, AllBefore, Within
  <2> QED BY <1>a, <1>1, <2>1 DEF Ordering
<1>7. \A s : AllBefore(s, sending')
  BY <1>3 DEF AllBefore
<1>8. Requesting' /\ Brought' /\ InTurn' /\ Complete'
  BY <1>1, <1>7, NotAsking
<1>9. StopsEmpty'
  BY <1>1 DEF StopsEmpty
<1> QED BY <1>4, <1>5, <1>6, <1>8, <1>9 DEF SdkInv

\* The request with the batch comes after all others.
LEMMA PostKeeps == ASSUME SdkInv, Post PROVE SdkInv'
<1>a. Numbered /\ Counting /\ Ordering /\ Requesting /\ Brought /\ InTurn /\ Complete /\ StopsEmpty
  BY DEF SdkInv
<1>b. PICK new : new = [batch |-> sending, at |-> 0, overflow |-> FALSE, status |-> "open", counted |-> "no"]
  OBVIOUS
<1>1. /\ sender = "posting" /\ sender' = "asking" /\ requests' = Append(requests, new)
      /\ UNCHANGED <<events, queue, closing, sending, sent, failed, droppedEvents, delivered>>
  BY <1>b DEF Post
<1>2. /\ new.batch = sending /\ new.at = 0 /\ new.overflow = FALSE /\ new.status = "open"
      /\ new.counted = "no"
  BY <1>b
<1>3. new \in Request
  BY <1>a, <1>b DEF Numbered, Request
<1>4. requests \in Seq(Request)
  BY <1>a DEF Requesting
<1>5. PICK n \in Nat : n = Len(requests)
  BY <1>4
<1>6. PICK l \in Nat : l = n + 1
  BY <1>5
<1>7. /\ requests' \in Seq(Request) /\ Len(requests') = l /\ requests' # <<>>
      /\ \A k \in 1..n : requests'[k] = requests[k]
      /\ requests'[l] = new
  BY <1>1, <1>3, <1>4, <1>5, <1>6
<1>8. ASSUME NEW k \in Posted
      PROVE  k \in Posted' /\ requests'[k] = requests[k] /\ BatchOf(k)' = BatchOf(k) /\ ~AtHand(k)' /\ ~AtHand(k)
  BY <1>1, <1>5, <1>6, <1>7 DEF Posted, AtHand, BatchOf
<1>9. l \in Posted' /\ requests'[l] = new /\ BatchOf(l)' = sending /\ AtHand(l)'
  BY <1>1, <1>2, <1>6, <1>7 DEF Posted, AtHand, BatchOf
<1>10. ASSUME NEW k \in Posted' PROVE k \in Posted \/ k = l
  BY <1>5, <1>6, <1>7 DEF Posted
<1>11. Numbered' /\ Counting' /\ Ordering' /\ StopsEmpty'
  BY <1>a, <1>1 DEF Numbered, Counting, Known, Ordering, StopsEmpty
<1>12. ASSUME NEW k \in Posted PROVE InPlace(k)
  BY <1>a DEF Requesting
<1>13. ASSUME NEW k \in Posted' PROVE InPlace(k)'
  <2>1. CASE k \in Posted
    <3>1. InPlace(k)
      BY <1>12, <2>1
    <3> QED BY <1>1, <1>8, <2>1, <3>1 DEF InPlace
  <2>2. CASE k = l
    <3>1. 0 <= Len(sending)
      BY <1>a, Lengths
    <3> QED BY <1>a, <1>1, <1>2, <1>9, <2>2, <3>1 DEF Ordering, InPlace
  <2> QED BY <1>10, <2>1, <2>2
<1>14. ASSUME NEW i \in Posted', NEW j \in Posted', i < j PROVE AllBefore(BatchOf(i), BatchOf(j))'
  <2>1. i \in Posted
    BY <1>5, <1>6, <1>7, <1>14 DEF Posted
  <2>2. CASE j \in Posted
    BY <1>a, <1>8, <1>14, <2>1, <2>2 DEF Requesting
  <2>3. CASE j = l
    <3>1. AllBefore(BatchOf(i), sending)
      BY <1>8, <1>12, <2>1 DEF InPlace
    <3> QED BY <1>8, <1>9, <2>1, <2>3, <3>1
  <2> QED BY <1>10, <2>2, <2>3
<1>15. Requesting'
  BY <1>7, <1>13, <1>14 DEF Requesting
<1>16. ASSUME NEW e, GivenUp(e) PROVE GivenUp(e)'
  BY <1>8, <1>16 DEF GivenUp
<1>17. \A e : Arrived(e)' = Arrived(e)
  BY <1>1 DEF Arrived
<1>18. Brought'
  <2>1. ASSUME NEW d \in 1..Len(delivered)
        PROVE  \E k \in Posted' : \E p \in 1..requests'[k].at : delivered[d] = BatchOf(k)'[p]
    <3>1. PICK k \in Posted : \E p \in 1..requests[k].at : delivered[d] = BatchOf(k)[p]
      BY <1>a DEF Brought
    <3> QED BY <1>8, <3>1
  <2> QED BY <1>1, <2>1 DEF Brought
<1>19. InTurn'
  BY <1>a, <1>1, <1>16 DEF InTurn
<1>20. Complete'
  <2>1. ASSUME NEW k \in Posted', NEW p \in 1..requests'[k].at, ~requests'[k].overflow
        PROVE  events[BatchOf(k)'[p]] = "malformed" \/ Arrived(BatchOf(k)'[p])
    <3>1. CASE k \in Posted
      BY <1>a, <1>8, <2>1, <3>1 DEF Complete
    <3>2. CASE k = l
      BY <1>2, <1>9, <2>1, <3>2
    <3> QED BY <1>10, <3>1, <3>2
  <2> QED BY <1>1, <1>17, <2>1 DEF Complete
<1> QED BY <1>11, <1>15, <1>18, <1>19, <1>20 DEF SdkInv

\* The batch is counted, as sent only after an answer of 200, and forgotten.
LEMMA AnswerKeeps == ASSUME SdkInv, Answer PROVE SdkInv'
<1>a. Numbered /\ Counting /\ Ordering /\ Requesting /\ Brought /\ InTurn /\ Complete /\ StopsEmpty
  BY DEF SdkInv
<1>1. /\ sender = "asking" /\ sender' = "waiting" /\ sending' = <<>>
      /\ UNCHANGED <<events, queue, closing, droppedEvents, delivered>>
  BY DEF Answer, Forget
<1>2. requests \in Seq(Request) /\ requests # <<>>
  BY <1>a, <1>1 DEF Requesting
<1>3. PICK n \in Posted : n = Len(requests) /\ AtHand(n)
  BY <1>1, <1>2 DEF Posted, AtHand
<1>4. PICK outcome \in {"sent", "failed"} :
        /\ outcome = "sent" => requests[n].status = "200"
        /\ sent' = IF outcome = "sent" THEN sent + Len(sending) ELSE sent
        /\ failed' = IF outcome = "failed" THEN failed + Len(sending) ELSE failed
        /\ requests' = [requests EXCEPT ![n].counted = outcome]
  BY <1>3 DEF Answer
<1>5. PICK r \in Request :
        /\ r.batch = requests[n].batch /\ r.at = requests[n].at /\ r.overflow = requests[n].overflow
        /\ r.status = requests[n].status /\ r.counted = outcome
        /\ requests' = [requests EXCEPT ![n] = r]
  <2>1. requests[n] \in Request
    BY <1>2, RequestFacts
  <2>2. [requests[n] EXCEPT !.counted = outcome] \in Request
    BY <1>4, <2>1 DEF Request
  <2> QED BY <1>4, <2>1, <2>2 DEF Request
<1>6. /\ requests' \in Seq(Request) /\ Len(requests') = Len(requests) /\ requests'[n] = r
      /\ \A k \in Posted : k # n => requests'[k] = requests[k]
  BY <1>2, <1>5, OneReplaced DEF Posted
<1>7. ASSUME NEW k \in Posted
      PROVE  /\ BatchOf(k)' = BatchOf(k) /\ requests'[k].at = requests[k].at
             /\ requests'[k].overflow = requests[k].overflow /\ requests'[k].status = requests[k].status
             /\ requests'[k].counted = IF k = n THEN outcome ELSE requests[k].counted
  BY <1>5, <1>6 DEF BatchOf
<1>8. Posted' = Posted /\ \A k : ~AtHand(k)'
  BY <1>1, <1>6 DEF Posted, AtHand
<1>9. ASSUME NEW k \in Posted PROVE InPlace(k)
  BY <1>a DEF Requesting
<1>10. requests[n].counted = "no" /\ BatchOf(n) = sending
  BY <1>3, <1>9 DEF InPlace
<1>11. Len(sending') = 0 /\ sending' \in Seq(Nat)
  BY <1>1
<1>12. Numbered' /\ Counting'
  <2>1. Len(sending) \in Nat /\ Len(queue) \in Nat /\ Len(events) \in Nat
        /\ sent \in Nat /\ failed \in Nat /\ droppedEvents \in Nat
    BY <1>a, Lengths DEF Numbered
  <2>2. 0 + sent' + failed' = Len(sending) + sent + failed /\ sent' \in Nat /\ failed' \in Nat
    BY <1>4, <2>1
  <2>3. Len(queue) + 0 + sent' + failed' + droppedEvents = Known
    <3>1. PICK a \in Nat, b \in Nat, c \in Nat, d \in Nat, e \in Nat :
            a = Len(queue) /\ b = Len(sending) /\ c = sent /\ d = failed /\ e = droppedEvents
      BY <2>1
    <3>2. PICK y \in Nat, z \in Nat : y = sent' /\ z = failed'
      BY <2>2
    <3>3. 0 + y + z = b + c + d
      BY <2>2, <3>1, <3>2
    <3>4. a + 0 + y + z + e = a + b + c + d + e
      BY <3>3
    <3> QED BY <3>1, <3>2, <3>4 DEF Known
  <2>4. Known' = Known
    BY <1>1, <1>11, <2>3 DEF Known
  <2> QED BY <1>a, <1>1, <1>11, <2>2, <2>4 DEF Counting, Numbered
<1>13. Ordering'
  <2>1. Rising(sending') /\ AllBefore(sending', queue) /\ Within(sending', Len(events))
    BY <1>11 DEF Rising, AllBefore, Within
  <2> QED BY <1>a, <1>1, <2>1 DEF Ordering
<1>14. Requesting'
  <2>1. \A s : AllBefore(s, sending')
    BY <1>11 DEF AllBefore
  <2>2. ASSUME NEW k \in Posted PROVE InPlace(k)'
    <3>1. ~AtHand(k)' /\ AllBefore(BatchOf(k)', sending')
      BY <1>8, <2>1
    <3>2. requests'[k].counted # "no"
      <4>1. CASE k = n
        BY <1>4, <1>7, <4>1
      <4>2. CASE k # n
        <5>1. ~AtHand(k)
          BY <1>3, <4>2 DEF AtHand
        <5> QED BY <1>7, <1>9, <4>2, <5>1 DEF InPlace
      <4> QED BY <4>1, <4>2
    <3>3. requests'[k].counted = "sent" => requests'[k].status = "200"
      BY <1>4, <1>7, <1>9 DEF InPlace
    <3>4. InPlace(k)
      BY <1>9
    <3> QED BY <1>1, <1>7, <3>1, <3>2, <3>3, <3>4 DEF InPlace
  <2>3. \A k, m \in Posted : k < m => AllBefore(BatchOf(k), BatchOf(m))'
    BY <1>a, <1>7 DEF Requesting
  <2> QED BY <1>1, <1>6, <1>8, <2>2, <2>3 DEF Requesting
<1>15. ASSUME NEW e, GivenUp(e) PROVE GivenUp(e)'
  <2>1. PICK k \in Posted : requests[k].counted = "failed" /\ \E p \in 1..Len(BatchOf(k)) : e = BatchOf(k)[p]
    BY <1>15 DEF GivenUp
  <2>2. k # n
    BY <1>10, <2>1
  <2> QED BY <1>7, <1>8, <2>1, <2>2 DEF GivenUp
<1>16. \A e : Arrived(e)' = Arrived(e)
  BY <1>1 DEF Arrived
<1>17. Brought'
  BY <1>a, <1>1, <1>7, <1>8 DEF Brought
<1>18. InTurn'
  BY <1>a, <1>1, <1>15 DEF InTurn
<1>19. Complete'
  BY <1>a, <1>1, <1>7, <1>8, <1>16 DEF Complete
<1>20. StopsEmpty'
  BY <1>1 DEF StopsEmpty
<1> QED BY <1>12, <1>13, <1>14, <1>17, <1>18, <1>19, <1>20 DEF SdkInv

\* A handler ends its request: nothing is counted by it.
LEMMA EndKeeps ==
    ASSUME SdkInv, NEW h \in DOMAIN requests, Respond(h) \/ BreakOff(h)
    PROVE  SdkInv'
<1>a. Numbered /\ Counting /\ Ordering /\ Requesting /\ Brought /\ InTurn /\ Complete /\ StopsEmpty
  BY DEF SdkInv
<1>1. PICK s \in {"200", "429", "error"} :
        /\ requests' = [requests EXCEPT ![h].status = s]
        /\ s = "200" => requests[h].at = Len(requests[h].batch) /\ requests[h].overflow # TRUE
  BY DEF Respond, BreakOff
<1>2. /\ requests[h].status = "open"
      /\ UNCHANGED <<events, queue, closing, sending, sender, sent, failed, droppedEvents, delivered>>
  BY DEF Respond, BreakOff, libraryVars
<1>3. requests \in Seq(Request) /\ h \in Posted
  BY <1>a DEF Requesting, Posted
<1>5. PICK r \in Request :
        /\ r.batch = requests[h].batch /\ r.at = requests[h].at /\ r.overflow = requests[h].overflow
        /\ r.status = s /\ r.counted = requests[h].counted
        /\ requests' = [requests EXCEPT ![h] = r]
  <2>1. requests[h] \in Request
    BY <1>3, RequestFacts
  <2>2. [requests[h] EXCEPT !.status = s] \in Request
    BY <1>1, <2>1 DEF Request
  <2> QED BY <1>1, <2>1, <2>2 DEF Request
<1>6. /\ requests' \in Seq(Request) /\ Len(requests') = Len(requests) /\ requests'[h] = r
      /\ \A k \in Posted : k # h => requests'[k] = requests[k]
  BY <1>3, <1>5, OneReplaced DEF Posted
<1>7. ASSUME NEW k \in Posted
      PROVE  /\ BatchOf(k)' = BatchOf(k) /\ requests'[k].at = requests[k].at
             /\ requests'[k].overflow = requests[k].overflow /\ requests'[k].counted = requests[k].counted
             /\ requests'[k].status = IF k = h THEN s ELSE requests[k].status
  BY <1>5, <1>6 DEF BatchOf
<1>8. Posted' = Posted /\ \A k : AtHand(k)' = AtHand(k)
  BY <1>2, <1>6 DEF Posted, AtHand
<1>9. ASSUME NEW k \in Posted PROVE InPlace(k)
  BY <1>a DEF Requesting
<1>10. requests[h].counted # "sent"
  BY <1>2, <1>3, <1>9 DEF InPlace
<1>11. Requesting'
  <2>1. ASSUME NEW k \in Posted PROVE InPlace(k)'
    <3>1. requests'[k].counted = "sent" => requests'[k].status = "200"
      BY <1>7, <1>9, <1>10 DEF InPlace
    <3>2. requests'[k].status = "200" => requests'[k].at = Len(BatchOf(k)') /\ ~requests'[k].overflow
      <4>1. requests[k].overflow \in BOOLEAN
        BY <1>3, RequestFacts
      <4>2. CASE k = h
        BY <1>1, <1>7, <4>1, <4>2 DEF BatchOf
      <4>3. CASE k # h
        BY <1>7, <1>9, <4>3 DEF InPlace
      <4> QED BY <4>2, <4>3
    <3>3. InPlace(k)
      BY <1>9
    <3> QED BY <1>2, <1>7, <1>8, <3>1, <3>2, <3>3 DEF InPlace
  <2>2. \A k, m \in Posted : k < m => AllBefore(BatchOf(k), BatchOf(m))'
    BY <1>a, <1>7 DEF Requesting
  <2>3. requests' # <<>>
    BY <1>3, <1>6 DEF Posted
  <2> QED BY <1>6, <1>8, <2>1, <2>2, <2>3 DEF Requesting
<1>12. ASSUME NEW e, GivenUp(e) PROVE GivenUp(e)'
  BY <1>7, <1>8, <1>12 DEF GivenUp
<1>13. \A e : Arrived(e)' = Arrived(e)
  BY <1>2 DEF Arrived
<1>14. Brought'
  BY <1>a, <1>2, <1>7, <1>8 DEF Brought
<1>15. InTurn'
  BY <1>a, <1>2, <1>12 DEF InTurn
<1>16. Complete'
  BY <1>a, <1>2, <1>7, <1>8, <1>13 DEF Complete
<1>17. Numbered' /\ Counting' /\ Ordering' /\ StopsEmpty'
  BY <1>a, <1>2 DEF Numbered, Counting, Known, Ordering, StopsEmpty
<1> QED BY <1>11, <1>14, <1>15, <1>16, <1>17 DEF SdkInv

\* An event has one place in one batch.
LEMMA OnePlace ==
    ASSUME SdkInv, NEW k \in Posted, NEW l \in Posted,
           NEW p \in 1..Len(BatchOf(k)), NEW q \in 1..Len(BatchOf(l)), BatchOf(k)[p] = BatchOf(l)[q]
    PROVE  k = l /\ p = q
<1>a. Requesting
  BY DEF SdkInv
<1>1. /\ BatchOf(k) \in Seq(Nat) /\ BatchOf(l) \in Seq(Nat) /\ k \in Nat /\ l \in Nat
      /\ Len(BatchOf(k)) \in Nat /\ Len(BatchOf(l)) \in Nat
  BY <1>a, RequestFacts DEF Requesting
<1>2. BatchOf(k)[p] \in Nat /\ BatchOf(l)[q] \in Nat
  BY <1>1
<1>3. /\ k < l => AllBefore(BatchOf(k), BatchOf(l))
      /\ l < k => AllBefore(BatchOf(l), BatchOf(k))
  BY <1>a DEF Requesting
<1>4. k = l
  BY <1>1, <1>2, <1>3 DEF AllBefore
<1>5. Rising(BatchOf(k))
  BY <1>a DEF Requesting, InPlace
<1>6. ~(p < q) /\ ~(q < p)
  BY <1>2, <1>4, <1>5 DEF Rising
<1> QED BY <1>1, <1>4, <1>6

\* What a request that is not given up brings comes after all that has arrived.
LEMMA ComesLast ==
    ASSUME SdkInv, NEW k \in Posted, requests[k].status = "open",
           NEW q \in 1..Len(BatchOf(k)), q = requests[k].at + 1,
           NEW d \in 1..Len(delivered)
    PROVE  /\ delivered[d] # BatchOf(k)[q]
           /\ delivered[d] < BatchOf(k)[q] \/ requests[k].counted = "failed"
<1>a. Requesting /\ Brought
  BY DEF SdkInv
<1>b. ASSUME NEW j \in Posted
      PROVE  /\ requests[j].at \in Nat /\ Len(BatchOf(j)) \in Nat /\ j \in Nat
             /\ requests[j].at <= Len(BatchOf(j)) /\ requests[j].counted \in {"no", "sent", "failed"}
             /\ InPlace(j)
  BY <1>a, RequestFacts DEF Requesting, InPlace
<1>2. PICK l \in Posted : \E p \in 1..requests[l].at : delivered[d] = BatchOf(l)[p]
  BY <1>a DEF Brought
<1>3. PICK p \in 1..requests[l].at : delivered[d] = BatchOf(l)[p]
  BY <1>2
<1>4. p \in 1..Len(BatchOf(l)) /\ p <= requests[l].at
  BY <1>b
<1>5. delivered[d] # BatchOf(k)[q]
  <2>1. SUFFICES ASSUME delivered[d] = BatchOf(k)[q] PROVE FALSE
    OBVIOUS
  <2>2. l = k /\ p = q
    <3>1. BatchOf(l)[p] = BatchOf(k)[q] /\ p \in 1..Len(BatchOf(l)) /\ q \in 1..Len(BatchOf(k))
      BY <1>3, <1>4, <2>1
    <3> HIDE <1>b
    <3> QED BY <3>1, OnePlace
  <2> QED BY <1>b, <1>4, <2>2
<1>6. ASSUME requests[k].counted # "failed" PROVE delivered[d] < BatchOf(k)[q]
  <2>1. InPlace(k) /\ InPlace(l) /\ requests[k].counted \in {"no", "sent"}
    BY <1>b, <1>6
  <2>2. requests[k].counted = "no"
    BY <2>1 DEF InPlace
  <2>3. k = Len(requests)
    BY <2>1, <2>2 DEF InPlace, AtHand
  <2>4. l \in Nat /\ k \in Nat /\ l <= k
    BY <1>b, <2>3 DEF Posted
  <2>5. CASE l < k
    <3>1. AllBefore(BatchOf(l), BatchOf(k))
      BY <1>a, <2>5 DEF Requesting
    <3> QED BY <1>3, <1>4, <3>1 DEF AllBefore
  <2>6. CASE l = k
    <3>1. p < q /\ Rising(BatchOf(k))
      BY <1>b, <1>4, <2>1, <2>6 DEF InPlace
    <3> QED BY <1>3, <1>4, <2>6, <3>1 DEF Rising
  <2> QED BY <2>4, <2>5, <2>6
<1> QED BY <1>5, <1>6

\* The handler goes on to the next record of its batch.
LEMMA EmitKeeps == ASSUME SdkInv, NEW h \in DOMAIN requests, Emit(h) PROVE SdkInv'
<1>a. Numbered /\ Counting /\ Ordering /\ Requesting /\ Brought /\ InTurn /\ Complete /\ StopsEmpty
  BY DEF SdkInv
<1>1. requests \in Seq(Request) /\ h \in Posted
  BY <1>a DEF Requesting, Posted
<1>2. /\ requests[h] \in Request /\ requests[h].at \in Nat /\ BatchOf(h) \in Seq(Nat)
      /\ Len(BatchOf(h)) \in Nat /\ requests[h].overflow \in BOOLEAN
  BY <1>1, RequestFacts
<1>3. /\ requests[h].status = "open" /\ requests[h].at < Len(BatchOf(h))
      /\ UNCHANGED <<events, queue, closing, sending, sender, sent, failed, droppedEvents>>
  BY DEF Emit, BatchOf, libraryVars
<1>4. PICK q \in 1..Len(BatchOf(h)) : q = requests[h].at + 1
  BY <1>2, <1>3
<1>5. PICK e \in Nat : e = BatchOf(h)[q]
  BY <1>2, <1>4
<1>6. PICK over \in BOOLEAN, r \in Request :
        /\ r.batch = requests[h].batch /\ r.at = q /\ r.overflow = over
        /\ r.status = requests[h].status /\ r.counted = requests[h].counted
        /\ requests' = [requests EXCEPT ![h] = r]
        /\ requests[h].overflow => over
        /\ \/ delivered' = delivered /\ (over \/ events[e] = "malformed")
           \/ delivered' = Append(delivered, e)
  <2>1. ASSUME NEW x \in BOOLEAN
        PROVE  /\ [[requests[h] EXCEPT !.at = q] EXCEPT !.overflow = x] \in Request
               /\ [requests[h] EXCEPT !.at = q] \in Request
    <3>1. q \in Nat
      BY <1>2, <1>4
    <3>2. [requests[h] EXCEPT !.at = q] \in Request
      BY <1>2, <3>1 DEF Request
    <3> QED BY <3>2 DEF Request
  <2>2. CASE /\ requests' = [requests EXCEPT ![h].at = @ + 1]
             /\ \/ delivered' = delivered /\ events[e] = "malformed"
                \/ delivered' = Append(delivered, e)
    <3>1. requests' = [requests EXCEPT ![h] = [requests[h] EXCEPT !.at = q]]
      BY <1>4, <2>2
    <3>2. /\ [requests[h] EXCEPT !.at = q].batch = requests[h].batch
          /\ [requests[h] EXCEPT !.at = q].at = q
          /\ [requests[h] EXCEPT !.at = q].overflow = requests[h].overflow
          /\ [requests[h] EXCEPT !.at = q].status = requests[h].status
          /\ [requests[h] EXCEPT !.at = q].counted = requests[h].counted
      BY <1>2 DEF Request
    <3> QED BY <1>2, <2>1, <2>2, <3>1, <3>2
  <2>3. CASE /\ requests' = [requests EXCEPT ![h].at = @ + 1, ![h].overflow = TRUE]
             /\ delivered' = delivered
    <3>1. PICK x : x = [[requests[h] EXCEPT !.at = q] EXCEPT !.overflow = TRUE]
      OBVIOUS
    <3>2. requests' = [requests EXCEPT ![h] = x]
      BY <1>1, <1>2, <1>4, <2>3, <3>1 DEF Request, Posted
    <3>3. /\ x \in Request /\ x.batch = requests[h].batch /\ x.at = q /\ x.overflow = TRUE
          /\ x.status = requests[h].status /\ x.counted = requests[h].counted
      BY <1>2, <2>1, <3>1 DEF Request
    <3> QED BY <2>3, <3>2, <3>3
  <2> QED BY <1>4, <1>5, <2>2, <2>3 DEF Emit, BatchOf
<1>7. /\ requests' \in Seq(Request) /\ Len(requests') = Len(requests) /\ requests'[h] = r
      /\ \A l \in Posted : l # h => requests'[l] = requests[l]
  BY <1>1, <1>6, OneReplaced DEF Posted
<1>8. ASSUME NEW l \in Posted
      PROVE  /\ BatchOf(l)' = BatchOf(l) /\ requests'[l].status = requests[l].status
             /\ requests'[l].counted = requests[l].counted
             /\ requests'[l].at = IF l = h THEN q ELSE requests[l].at
             /\ requests'[l].overflow = IF l = h THEN over ELSE requests[l].overflow
  BY <1>6, <1>7 DEF BatchOf
<1>9. Posted' = Posted /\ \A l : AtHand(l)' = AtHand(l)
  BY <1>3, <1>7 DEF Posted, AtHand
<1>10. ASSUME NEW l \in Posted PROVE InPlace(l) /\ requests[l].at \in Nat
  BY <1>a, <1>1, RequestFacts DEF Requesting
<1>11. Requesting'
  <2>1. ASSUME NEW l \in Posted PROVE InPlace(l)'
    <3>1. requests'[l].at <= Len(BatchOf(l)')
      BY <1>2, <1>4, <1>8, <1>10 DEF InPlace
    <3>2. requests'[l].status = "200" => requests'[l].at = Len(BatchOf(l)') /\ ~requests'[l].overflow
      BY <1>3, <1>8, <1>10 DEF InPlace
    <3>3. InPlace(l)
      BY <1>10
    <3> QED BY <1>3, <1>8, <1>9, <3>1, <3>2, <3>3 DEF InPlace
  <2>2. \A k, m \in Posted : k < m => AllBefore(BatchOf(k), BatchOf(m))'
    BY <1>a, <1>8 DEF Requesting
  <2>3. requests' # <<>>
    BY <1>1, <1>7 DEF Posted
  <2> QED BY <1>7, <1>9, <2>1, <2>2, <2>3 DEF Requesting
<1>12. ASSUME NEW x, GivenUp(x) PROVE GivenUp(x)'
  BY <1>8, <1>9, <1>12 DEF GivenUp
<1>13. ASSUME NEW l \in Posted, NEW p \in 1..requests[l].at PROVE p \in 1..requests'[l].at
  <2>1. requests[l].at \in Nat /\ requests'[l].at \in Nat /\ requests[l].at <= requests'[l].at
    BY <1>4, <1>8, <1>10
  <2> QED BY <2>1
<1>14. ASSUME NEW l \in Posted, NEW p \in 1..requests'[l].at
       PROVE  p \in 1..requests[l].at \/ (l = h /\ BatchOf(l)[p] = e)
  BY <1>4, <1>5, <1>8, <1>10
<1>15. delivered \in Seq(Nat)
  BY <1>a DEF Numbered
<1>16. PICK m \in Nat : m = Len(delivered)
  BY <1>15
<1>17. CASE delivered' = delivered /\ (over \/ events[e] = "malformed")
  <2>1. \A x : Arrived(x)' = Arrived(x)
    BY <1>17 DEF Arrived
  <2>2. Brought'
    BY <1>a, <1>8, <1>9, <1>13, <1>17 DEF Brought
  <2>3. InTurn'
    BY <1>a, <1>12, <1>17 DEF InTurn
  <2>4. Complete'
    <3>1. ASSUME NEW l \in Posted, NEW p \in 1..requests'[l].at, ~requests'[l].overflow
          PROVE  events[BatchOf(l)[p]] = "malformed" \/ Arrived(BatchOf(l)[p])
      <4>1. ~requests[l].overflow
        BY <1>6, <1>8, <3>1
      <4>2. CASE p \in 1..requests[l].at
        BY <1>a, <4>1, <4>2 DEF Complete
      <4>3. CASE l = h /\ BatchOf(l)[p] = e
        BY <1>8, <1>17, <3>1, <4>3
      <4> QED BY <1>14, <4>2, <4>3
    <3> QED BY <1>3, <1>8, <1>9, <2>1, <3>1 DEF Complete
  <2>5. Numbered' /\ Counting' /\ Ordering' /\ StopsEmpty'
    BY <1>a, <1>3, <1>17 DEF Numbered, Counting, Known, Ordering, StopsEmpty
  <2> QED BY <1>11, <2>2, <2>3, <2>4, <2>5 DEF SdkInv
<1>18. CASE delivered' = Append(delivered, e)
  <2>1. PICK z \in Nat : z = m + 1
    BY <1>16
  <2>2. /\ delivered' \in Seq(Nat) /\ Len(delivered') = z /\ delivered'[z] = e
        /\ \A d \in 1..m : delivered'[d] = delivered[d]
    BY <1>5, <1>15, <1>16, <1>18, <2>1, AppendFacts
  <2>3. \A d \in 1..z : d \in 1..m \/ d = z
    BY <1>16, <2>1
  <2>4. (\A d \in 1..m : d \in 1..z) /\ z \in 1..z
    BY <1>16, <2>1
  <2>5. Arrived(e)' /\ \A x : Arrived(x) => Arrived(x)'
    <3>1. Arrived(e)'
      BY <2>2, <2>4 DEF Arrived
    <3>2. ASSUME NEW x, Arrived(x) PROVE Arrived(x)'
      BY <1>16, <2>2, <2>4, <3>2 DEF Arrived
    <3> QED BY <3>1, <3>2
  <2>6. Brought'
    <3>1. ASSUME NEW d \in 1..z
          PROVE  \E l \in Posted : \E p \in 1..requests'[l].at : delivered'[d] = BatchOf(l)[p]
      <4>1. CASE d \in 1..m
        <5>1. PICK l \in Posted : \E p \in 1..requests[l].at : delivered[d] = BatchOf(l)[p]
          BY <1>a, <1>16, <4>1 DEF Brought
        <5> QED BY <1>13, <2>2, <4>1, <5>1
      <4>2. CASE d = z
        <5>1. q \in 1..requests'[h].at
          BY <1>1, <1>4, <1>8
        <5> QED BY <1>1, <1>5, <2>2, <4>2, <5>1
      <4> QED BY <2>3, <4>1, <4>2
    <3> QED BY <1>8, <1>9, <2>2, <3>1 DEF Brought
  <2>7. InTurn'
    <3>1. ASSUME NEW i \in 1..z, NEW j \in 1..z, i < j
          PROVE  (delivered[i] < delivered[j] \/ (delivered[i] # delivered[j] /\ GivenUp(delivered[j])))'
      <4>1. i \in 1..m /\ delivered'[i] = delivered[i]
        BY <1>16, <2>1, <2>2, <3>1
      <4>2. CASE j \in 1..m
        <5>1. delivered[i] < delivered[j] \/ (delivered[i] # delivered[j] /\ GivenUp(delivered[j]))
          BY <1>a, <1>16, <3>1, <4>1, <4>2 DEF InTurn
        <5>2. delivered'[j] = delivered[j]
          BY <2>2, <4>2
        <5> QED BY <1>12, <4>1, <5>1, <5>2
      <4>3. CASE j = z
        <5>1. delivered[i] # e /\ (delivered[i] < e \/ requests[h].counted = "failed")
          BY <1>1, <1>3, <1>4, <1>5, <1>16, <4>1, ComesLast
        <5>2. requests[h].counted = "failed" => GivenUp(e)
          BY <1>1, <1>4, <1>5 DEF GivenUp
        <5>3. delivered'[j] = e
          BY <2>2, <4>3
        <5> QED BY <1>12, <4>1, <5>1, <5>2, <5>3
      <4> QED BY <2>3, <4>2, <4>3
    <3> QED BY <2>2, <3>1 DEF InTurn
  <2>8. Complete'
    <3>1. ASSUME NEW l \in Posted, NEW p \in 1..requests'[l].at, ~requests'[l].overflow
          PROVE  events[BatchOf(l)[p]] = "malformed" \/ Arrived(BatchOf(l)[p])'
      <4>1. ~requests[l].overflow
        BY <1>6, <1>8, <3>1
      <4>2. CASE p \in 1..requests[l].at
        <5>1. events[BatchOf(l)[p]] = "malformed" \/ Arrived(BatchOf(l)[p])
          BY <1>a, <4>1, <4>2 DEF Complete
        <5>2. BatchOf(l)' = BatchOf(l)
          BY <1>8
        <5> QED BY <2>5, <5>1, <5>2
      <4>3. CASE BatchOf(l)[p] = e
        <5>1. BatchOf(l)' = BatchOf(l)
          BY <1>8
        <5> QED BY <2>5, <4>3, <5>1
      <4> QED BY <1>14, <4>2, <4>3
    <3> QED BY <1>3, <1>8, <1>9, <3>1 DEF Complete
  <2>9. Numbered' /\ Counting' /\ Ordering' /\ StopsEmpty'
    BY <1>a, <1>3, <2>2 DEF Numbered, Counting, Known, Ordering, StopsEmpty
  <2> QED BY <1>11, <2>6, <2>7, <2>8, <2>9 DEF SdkInv
<1> QED BY <1>6, <1>17, <1>18

\* Each step keeps the invariant.
LEMMA SdkStep == SdkInv /\ [SdkNext]_sdkVars => SdkInv'
<1> SUFFICES ASSUME SdkInv, [SdkNext]_sdkVars PROVE SdkInv'
  OBVIOUS
<1>1. CASE Send
  BY <1>1, SendKeeps
<1>2. CASE TakeEvent
  BY <1>2, TakeEventKeeps
<1>3. CASE FlushTick \/ QueueClosed
  BY <1>3, FlushKeeps
<1>4. CASE EncodeFails
  BY <1>4, EncodeFailsKeeps
<1>5. CASE Post
  BY <1>5, PostKeeps
<1>6. CASE Answer
  BY <1>6, AnswerKeeps
<1>7. CASE HandleRequests
  BY <1>7, EmitKeeps, EndKeeps DEF HandleRequests
<1>8. CASE SendAfterClose \/ Close \/ UNCHANGED sdkVars
  <2>1. /\ closing => closing'
        /\ UNCHANGED <<events, queue, sending, sender, sent, failed, droppedEvents, requests, delivered>>
    BY <1>8 DEF SendAfterClose, Close, sdkVars, libraryVars
  <2>2. Numbered' /\ Counting' /\ Ordering' /\ StopsEmpty'
    BY <2>1 DEF SdkInv, Numbered, Counting, Known, Ordering, StopsEmpty
  <2>3. Posted' = Posted /\ \A k : BatchOf(k)' = BatchOf(k) /\ AtHand(k)' = AtHand(k)
    BY <2>1 DEF Posted, BatchOf, AtHand
  <2>4. Requesting'
    BY <2>1, <2>3 DEF SdkInv, Requesting, InPlace
  <2>5. \A e : Arrived(e)' = Arrived(e) /\ GivenUp(e)' = GivenUp(e)
    BY <2>1, <2>3 DEF Arrived, GivenUp
  <2>6. Brought' /\ InTurn' /\ Complete'
    BY <2>1, <2>3, <2>5 DEF SdkInv, Brought, InTurn, Complete
  <2> QED BY <2>2, <2>4, <2>6 DEF SdkInv
<1> QED BY <1>1, <1>2, <1>3, <1>4, <1>5, <1>6, <1>7, <1>8 DEF SdkNext, Sender

\* Stats counts no event twice and, where all encode, misses none; the server gets
\* none twice, out of order only what the client had given up, and all that counts
\* as sent but for malformed records (client.go:75-77, 243-259; handler.go:94-112).
THEOREM ClientCounts == SdkSpec => []ClientAccounts
<1>1. ASSUME SdkInv PROVE ClientAccounts
  <2>1. DOMAIN delivered = 1..Len(delivered) /\ DOMAIN requests = Posted
        /\ Range(requests) = {requests[k] : k \in Posted}
    BY <1>1 DEF SdkInv, Numbered, Requesting, Posted, Range
  <2>2. \A k \in Posted : DOMAIN BatchOf(k) = 1..Len(BatchOf(k))
    BY <1>1, RequestFacts DEF SdkInv, Requesting
  <2>3. StatsAccount
    BY <1>1 DEF SdkInv, Counting, Known, StopsEmpty, StatsAccount
  <2>4. ArrivesOnce
    <3>1. ASSUME NEW e, GivenUp(e)
          PROVE  \E r \in Range(requests) : r.counted = "failed" /\ e \in Range(r.batch)
      <4>1. PICK k \in Posted : requests[k].counted = "failed" /\ \E p \in 1..Len(BatchOf(k)) : e = BatchOf(k)[p]
        BY <3>1 DEF GivenUp
      <4>2. requests[k] \in Range(requests) /\ e \in Range(requests[k].batch)
        BY <2>1, <2>2, <4>1 DEF Range, BatchOf
      <4> QED BY <4>1, <4>2
    <3>2. ASSUME NEW i \in 1..Len(delivered), NEW j \in 1..Len(delivered), i < j
          PROVE  \/ delivered[i] < delivered[j]
                 \/ /\ delivered[i] # delivered[j]
                    /\ \E r \in Range(requests) : r.counted = "failed" /\ delivered[j] \in Range(r.batch)
      <4>1. \/ delivered[i] < delivered[j]
            \/ delivered[i] # delivered[j] /\ GivenUp(delivered[j])
        BY <1>1, <3>2 DEF SdkInv, InTurn
      <4> QED BY <3>1, <4>1
    <3> QED BY <2>1, <3>2 DEF ArrivesOnce
  <2>5. SentArrived
    <3>1. ASSUME NEW k \in Posted, requests[k].counted = "sent", NEW i \in 1..Len(BatchOf(k))
          PROVE  events[BatchOf(k)[i]] = "malformed" \/ BatchOf(k)[i] \in Range(delivered)
      <4>1. requests[k].at = Len(BatchOf(k)) /\ ~requests[k].overflow
        BY <1>1, <3>1 DEF SdkInv, Requesting, InPlace
      <4>2. \/ events[BatchOf(k)[i]] = "malformed"
            \/ \E d \in 1..Len(delivered) : delivered[d] = BatchOf(k)[i]
        BY <1>1, <4>1 DEF SdkInv, Complete, Arrived
      <4> QED BY <2>1, <4>2 DEF Range
    <3> QED BY <2>1, <2>2, <3>1 DEF SentArrived, BatchOf
  <2> QED BY <2>3, <2>4, <2>5 DEF ClientAccounts
<1> QED BY <1>1, SdkInitInv, SdkStep, PTL DEF SdkSpec

\* A sequence is one of any set that has its elements.
LEMMA InSmaller ==
    ASSUME NEW s \in Seq(Nat), NEW T, \A i \in 1..Len(s) : s[i] \in T
    PROVE  s \in Seq(T)
OBVIOUS

\* What SdkInv does not say: the bound on what is sent, and the flags are flags.
SdkPlain ==
    /\ events \in Seq(Kinds) /\ Len(events) <= MaxSends
    /\ sender \in {"waiting", "posting", "asking", "stopped"}
    /\ closing \in BOOLEAN /\ panicked \in BOOLEAN

LEMMA SdkPlainKept == ASSUME SdkPlain, SdkNext PROVE SdkPlain'
<1>1. MaxSends \in Nat
  BY SdkAssumption DEF SdkAssumption
<1>2. CASE Send
  <2>1. PICK kind \in Kinds : events' = Append(events, kind)
    BY <1>2 DEF Send
  <2>2. events' \in Seq(Kinds) /\ Len(events') = Len(events) + 1 /\ Len(events) \in Nat
    BY <2>1 DEF SdkPlain
  <2> QED BY <1>1, <1>2, <2>2 DEF Send, SdkPlain
<1>3. CASE HandleRequests
  <2>1. UNCHANGED libraryVars
    BY <1>3 DEF HandleRequests, Emit, Respond, BreakOff
  <2> QED BY <2>1 DEF libraryVars, SdkPlain
<1>4. CASE SendAfterClose \/ Close
  <2>1. /\ closing' \in {closing, TRUE} /\ panicked' \in {panicked, TRUE}
        /\ UNCHANGED <<events, sender>>
    BY <1>4 DEF SendAfterClose, Close
  <2> QED BY <2>1 DEF SdkPlain
<1>5. CASE Sender
  <2>1. sender' \in {"waiting", "posting", "asking", "stopped"} /\ UNCHANGED <<events, closing, panicked>>
    BY <1>5 DEF Sender, TakeEvent, FlushTick, QueueClosed, EncodeFails, Post, Answer, Flush, LastFlush,
                Forget, SdkPlain
  <2> QED BY <2>1 DEF SdkPlain
<1> QED BY <1>2, <1>3, <1>4, <1>5 DEF SdkNext

\* The counters of the client count no more than was sent (client.go:75-77).
LEMMA SdkTyped == SdkSpec => []SdkTypeOK
<1>1. SdkInit => SdkPlain
  <2>1. <<>> \in Seq(Kinds) /\ Len(<<>>) = 0
    OBVIOUS
  <2>2. 0 <= MaxSends
    BY SdkAssumption DEF SdkAssumption
  <2>3. SdkInit => events = <<>> /\ sender = "waiting" /\ closing = FALSE /\ panicked = FALSE
    BY DEF SdkInit
  <2> QED BY <2>1, <2>2, <2>3 DEF SdkPlain
<1>2. SdkPlain /\ [SdkNext]_sdkVars => SdkPlain'
  BY SdkPlainKept DEF SdkPlain, sdkVars, libraryVars
<1>3. ASSUME SdkInv, SdkPlain PROVE SdkTypeOK
  <2>1. /\ Len(events) \in Nat /\ Len(events) <= MaxSends /\ MaxSends \in Nat
        /\ Len(queue) \in Nat /\ Len(sending) \in Nat
        /\ sent \in Nat /\ failed \in Nat /\ droppedEvents \in Nat
        /\ Len(queue) + Len(sending) + sent + failed + droppedEvents <= Len(events)
    BY <1>3, Lengths, SdkAssumption DEF SdkInv, Counting, Known, Numbered, SdkPlain, SdkAssumption
  <2>2. /\ sent \in 0..MaxSends /\ failed \in 0..MaxSends /\ droppedEvents \in 0..MaxSends
    BY <2>1
  <2>3. ASSUME NEW s \in Seq(Nat), Within(s, Len(events)) PROVE s \in Seq(1..MaxSends)
    <3>1. \A i \in 1..Len(s) : s[i] \in 1..MaxSends
      BY <2>1, <2>3 DEF Within
    <3> QED BY <3>1, InSmaller
  <2>4. Within(delivered, Len(events))
    <3>1. ASSUME NEW d \in 1..Len(delivered) PROVE delivered[d] \in 1..Len(events)
      <4>1. PICK k \in Posted : \E p \in 1..requests[k].at : delivered[d] = BatchOf(k)[p]
        BY <1>3 DEF SdkInv, Brought
      <4>2. PICK p \in 1..requests[k].at : delivered[d] = BatchOf(k)[p]
        BY <4>1
      <4>3. p \in 1..Len(BatchOf(k)) /\ Within(BatchOf(k), Len(events))
        BY <1>3, RequestFacts DEF SdkInv, Requesting, InPlace
      <4> QED BY <4>2, <4>3 DEF Within
    <3> QED BY <3>1 DEF Within
  <2>5. queue \in Seq(1..MaxSends) /\ sending \in Seq(1..MaxSends) /\ delivered \in Seq(1..MaxSends)
    BY <1>3, <2>3, <2>4 DEF SdkInv, Numbered, Ordering
  <2> QED BY <1>3, <2>2, <2>5 DEF SdkInv, Requesting, SdkPlain, SdkTypeOK
<1> QED BY <1>1, <1>2, <1>3, SdkInitInv, SdkStep, PTL DEF SdkSpec

-----------------------------------------------------------------------------
(* Sequences of sequences, one after the other.                            *)

\* A nonempty set of numbers has a least and, up to a bound, a greatest.
LEMMA LeastNumber ==
    ASSUME NEW S \in SUBSET Nat, S # {}
    PROVE  \E m \in S : \A x \in S : m <= x
<1> DEFINE R == {p \in Nat \X Nat : p[1] < p[2]}
<1>1. IsWellFoundedOn(R, Nat)
  <2>1. OpToRel(<, Nat) = R
    BY DEF OpToRel
  <2> QED BY <2>1, NatLessThanWellFounded
<1>2. \A x, y \in Nat : x < y => <<x, y>> \in R
  OBVIOUS
<1> HIDE DEF R
<1>3. PICK m \in S : \A y \in S : ~(<<y, m>> \in R)
  BY <1>1, WFMin
<1>4. ASSUME NEW x \in S PROVE m <= x
  <2>1. x \in Nat /\ m \in Nat /\ ~(x < m)
    BY <1>2, <1>3
  <2> QED BY <2>1
<1> QED BY <1>4

LEMMA GreatestNumber ==
    ASSUME NEW n \in Nat, NEW S \in SUBSET (1..n), S # {}
    PROVE  \E m \in S : \A x \in S : x <= m
<1> DEFINE T == {k \in Nat : \A x \in S : x <= k}
<1>1. n \in T
  OBVIOUS
<1>2. PICK m \in T : \A k \in T : m <= k
  <2>1. T \in SUBSET Nat /\ T # {}
    BY <1>1
  <2> HIDE DEF T
  <2> QED BY <2>1, LeastNumber
<1>3. m \in S
  <2>1. SUFFICES ASSUME m \notin S PROVE FALSE
    OBVIOUS
  <2>2. \A x \in S : x < m /\ x >= 1
    BY <2>1
  <2>3. m # 0 /\ m - 1 \in Nat
    <3>1. PICK x \in S : TRUE
      OBVIOUS
    <3>2. x < m /\ x >= 1 /\ x \in Nat /\ m \in Nat
      BY <2>2
    <3> QED BY <3>2
  <2>4. m - 1 \in T
    <3>1. \A x \in S : x \in Nat /\ x <= m - 1
      BY <2>2
    <3> QED BY <2>3, <3>1
  <2>5. m <= m - 1
    BY <1>2, <2>4
  <2> QED BY <2>3, <2>5
<1> QED BY <1>2, <1>3

\* The partial concatenations of s.
Flattens(s, n, f) == f = [i \in 1..n |-> IF i = 1 THEN s[i] ELSE f[i - 1] \o s[i]]

LEMMA FlattensExist ==
    ASSUME NEW s, NEW n \in Nat
    PROVE  \E f : Flattens(s, n, f)
<1> DEFINE S == {k \in Nat : ~\E f : Flattens(s, k, f)}
<1>1. SUFFICES ASSUME S # {} PROVE FALSE
  OBVIOUS
<1>2. PICK k \in S : \A x \in S : k <= x
  <2>1. S \in SUBSET Nat
    OBVIOUS
  <2> HIDE DEF S
  <2> QED BY <1>1, <2>1, LeastNumber
<1>3. k # 0
  <2>1. Flattens(s, 0, [i \in 1..0 |-> s])
    BY DEF Flattens
  <2> QED BY <2>1
<1>4. PICK f : Flattens(s, k - 1, f)
  <2>1. k - 1 \in Nat /\ ~(k <= k - 1)
    BY <1>3
  <2>2. k - 1 \notin S
    BY <1>2, <2>1
  <2> QED BY <2>1, <2>2
<1> DEFINE g == [i \in 1..k |-> IF i = k THEN (IF i = 1 THEN s[i] ELSE f[i - 1] \o s[i]) ELSE f[i]]
<1>5. Flattens(s, k, g)
  <2>1. \A i \in 1..(k - 1) : f[i] = IF i = 1 THEN s[i] ELSE f[i - 1] \o s[i]
    BY <1>4 DEF Flattens
  <2>2. ASSUME NEW i \in 1..k
        PROVE  g[i] = IF i = 1 THEN s[i] ELSE g[i - 1] \o s[i]
    <3>1. CASE i = 1
      <4>1. CASE i = k
        BY <3>1, <4>1
      <4>2. CASE i # k
        <5>1. i \in 1..(k - 1)
          BY <4>2
        <5> QED BY <2>1, <3>1, <4>2, <5>1
      <4> QED BY <4>1, <4>2
    <3>2. CASE i # 1
      <4>1. i - 1 \in 1..(k - 1) /\ i - 1 # k /\ i - 1 \in 1..k
        BY <3>2
      <4>2. g[i - 1] = f[i - 1]
        BY <4>1
      <4>3. g[i] = f[i - 1] \o s[i]
        <5>1. CASE i = k
          BY <3>2, <5>1
        <5>2. CASE i # k
          <6>1. i \in 1..(k - 1)
            BY <5>2
          <6> QED BY <6>1, <5>2, <3>2, <2>1
        <5> QED BY <5>1, <5>2
      <4> QED BY <3>2, <4>2, <4>3
    <3> QED BY <3>1, <3>2
  <2>3. g = [i \in 1..k |-> g[i]]
    OBVIOUS
  <2> HIDE DEF g
  <2> QED BY <2>2, <2>3 DEF Flattens
<1> QED BY <1>2, <1>5

Grows(s, f) == f[1] = s[1] /\ \A i \in 2..Len(s) : f[i] = f[i - 1] \o s[i]

\* FlattenSeq is the last of them.
LEMMA FlattenIs ==
    ASSUME NEW T, NEW s \in Seq(Seq(T))
    PROVE  /\ s = <<>> => FlattenSeq(s) = <<>>
           /\ s # <<>> => \E f : FlattenSeq(s) = f[Len(s)] /\ Grows(s, f)
<1>1. s = <<>> => FlattenSeq(s) = <<>>
  BY DEF FlattenSeq
<1>2. CASE s # <<>>
  <2> DEFINE Loop(f) == [i \in 1..Len(s) |-> IF i = 1 THEN s[i] ELSE f[i - 1] \o s[i]]
  <2> DEFINE t == CHOOSE f : f = Loop(f)
  <2>1. Len(s) \in Nat /\ Len(s) # 0
    BY <1>2
  <2>2. FlattenSeq(s) = t[Len(s)]
    BY <2>1 DEF FlattenSeq
  <2>3. \A f : Flattens(s, Len(s), f) <=> f = Loop(f)
    BY DEF Flattens
  <2>4. \E f : f = Loop(f)
    BY <2>1, <2>3, FlattensExist
  <2> HIDE DEF Loop
  <2>5. t = Loop(t)
    BY <2>4
  <2> HIDE DEF t
  <2>6. \A i \in 1..Len(s) : t[i] = IF i = 1 THEN s[i] ELSE t[i - 1] \o s[i]
    BY <2>5 DEF Loop
  <2>7. t[1] = s[1]
    BY <2>1, <2>6
  <2>8. ASSUME NEW i \in 2..Len(s) PROVE t[i] = t[i - 1] \o s[i]
    <3>1. i \in 1..Len(s) /\ i # 1
      BY <2>1
    <3> QED BY <2>6, <3>1
  <2>9. Grows(s, t)
    BY <2>7, <2>8 DEF Grows
  <2> QED BY <1>2, <2>2, <2>9
<1> QED BY <1>1, <1>2

\* What a sequence holds, and a concatenation.
Held(s) == {s[i] : i \in 1..Len(s)}

LEMMA ConcatFacts ==
    ASSUME NEW T, NEW a \in Seq(T), NEW b \in Seq(T)
    PROVE  /\ a \o b \in Seq(T) /\ Len(a \o b) = Len(a) + Len(b)
           /\ Len(a) \in Nat /\ Len(b) \in Nat
           /\ \A i \in 1..Len(a) : (a \o b)[i] = a[i]
           /\ \A i \in 1..Len(b) : (a \o b)[Len(a) + i] = b[i]
           /\ \A i \in 1..(Len(a) + Len(b)) : i \notin 1..Len(a) =>
                \E j \in 1..Len(b) : i = Len(a) + j
<1>1. /\ a \o b \in Seq(T) /\ Len(a \o b) = Len(a) + Len(b) /\ Len(a) \in Nat /\ Len(b) \in Nat
      /\ \A i \in 1..Len(a) : (a \o b)[i] = a[i]
      /\ \A i \in 1..Len(b) : (a \o b)[Len(a) + i] = b[i]
  OBVIOUS
<1>2. ASSUME NEW i \in 1..(Len(a) + Len(b)), i \notin 1..Len(a)
      PROVE  \E j \in 1..Len(b) : i = Len(a) + j
  <2>1. i - Len(a) \in 1..Len(b) /\ i = Len(a) + (i - Len(a))
    BY <1>1, <1>2
  <2> QED BY <2>1
<1> QED BY <1>1, <1>2

LEMMA ConcatHolds ==
    ASSUME NEW T, NEW a \in Seq(T), NEW b \in Seq(T)
    PROVE  Held(a \o b) = Held(a) \cup Held(b)
<1> DEFINE c == a \o b
<1>1. /\ Len(c) = Len(a) + Len(b) /\ Len(a) \in Nat /\ Len(b) \in Nat
      /\ \A i \in 1..Len(a) : c[i] = a[i]
      /\ \A i \in 1..Len(b) : c[Len(a) + i] = b[i]
      /\ \A i \in 1..Len(c) : i \notin 1..Len(a) => \E j \in 1..Len(b) : i = Len(a) + j
  BY ConcatFacts
<1> HIDE DEF c
<1>2. ASSUME NEW i \in 1..Len(c) PROVE c[i] \in Held(a) \cup Held(b)
  <2>1. CASE i \in 1..Len(a)
    BY <1>1, <2>1 DEF Held
  <2>2. CASE i \notin 1..Len(a)
    BY <1>1, <2>2 DEF Held
  <2> QED BY <2>1, <2>2
<1>3. ASSUME NEW i \in 1..Len(a) PROVE a[i] \in Held(c)
  <2>1. i \in 1..Len(c) /\ c[i] = a[i]
    BY <1>1
  <2> QED BY <2>1 DEF Held
<1>4. ASSUME NEW i \in 1..Len(b) PROVE b[i] \in Held(c)
  <2>1. Len(a) + i \in 1..Len(c) /\ c[Len(a) + i] = b[i]
    BY <1>1
  <2> QED BY <2>1 DEF Held
<1>5. Held(c) = Held(a) \cup Held(b)
  BY <1>2, <1>3, <1>4 DEF Held
<1> QED BY <1>5 DEF c

\* The sets of a family up to one of them.
UpToSet(S, n) == UNION {S[i] : i \in 1..n}

LEMMA UpToNext ==
    ASSUME NEW S, NEW n \in Nat, n # 0
    PROVE  UpToSet(S, n) = UpToSet(S, n - 1) \cup S[n]
<1>1. 1..n = 1..(n - 1) \cup {n}
  OBVIOUS
<1> QED BY <1>1 DEF UpToSet

\* A concatenation holds what its parts hold.
LEMMA FlattenHolds ==
    ASSUME NEW T, NEW s \in Seq(Seq(T))
    PROVE  /\ FlattenSeq(s) \in Seq(T)
           /\ Held(FlattenSeq(s)) = UNION {Held(s[i]) : i \in 1..Len(s)}
<1> DEFINE S == [i \in 1..Len(s) |-> Held(s[i])]
<1>0. Len(s) \in Nat /\ \A i \in 1..Len(s) : s[i] \in Seq(T)
  OBVIOUS
<1>a. UNION {Held(s[i]) : i \in 1..Len(s)} = UpToSet(S, Len(s))
  BY DEF UpToSet
<1>1. CASE s = <<>>
  <2>1. FlattenSeq(s) = <<>> /\ Len(s) = 0
    BY <1>1, FlattenIs
  <2>2. Held(<<>>) = {} /\ UpToSet(S, 0) = {}
    BY DEF Held, UpToSet
  <2> QED BY <1>a, <2>1, <2>2
<1>2. CASE s # <<>>
  <2>a. PICK f : FlattenSeq(s) = f[Len(s)] /\ Grows(s, f)
    BY <1>2, FlattenIs
  <2>1. /\ FlattenSeq(s) = f[Len(s)] /\ f[1] = s[1]
        /\ \A i \in 2..Len(s) : f[i] = f[i - 1] \o s[i]
    BY <2>a DEF Grows
  <2> DEFINE Bad == {n \in 1..Len(s) : ~(f[n] \in Seq(T) /\ Held(f[n]) = UpToSet(S, n))}
  <2>2. ASSUME Bad # {} PROVE FALSE
    <3>1. PICK n \in Bad : \A x \in Bad : n <= x
      <4>1. Bad \in SUBSET Nat
        OBVIOUS
      <4> HIDE DEF Bad
      <4> QED BY <2>2, <4>1, LeastNumber
    <3>2. n \in 1..Len(s) /\ S[n] = Held(s[n])
      OBVIOUS
    <3>3. n # 1
      <4>1. UpToSet(S, 1) = S[1]
        BY DEF UpToSet
      <4>2. CASE n = 1
        <5>1. f[n] \in Seq(T) /\ Held(f[n]) = UpToSet(S, n)
          BY <1>0, <2>1, <3>2, <4>1, <4>2
        <5> QED BY <5>1
      <4> QED BY <4>2
    <3>4. n - 1 \in 1..Len(s) /\ ~(n <= n - 1) /\ n \in 2..Len(s) /\ n \in Nat /\ n # 0
      BY <1>0, <3>2, <3>3
    <3>5. n - 1 \notin Bad
      BY <3>1, <3>4
    <3>6. f[n - 1] \in Seq(T) /\ Held(f[n - 1]) = UpToSet(S, n - 1)
      BY <3>4, <3>5
    <3>7. f[n] = f[n - 1] \o s[n] /\ s[n] \in Seq(T)
      BY <1>0, <2>1, <3>4
    <3>8. UpToSet(S, n) = UpToSet(S, n - 1) \cup S[n]
      BY <3>4, UpToNext
    <3>9. f[n] \in Seq(T) /\ Held(f[n]) = Held(f[n - 1]) \cup Held(s[n])
      <4>1. f[n - 1] \in Seq(T)
        BY <3>6
      <4>2. f[n] \in Seq(T)
        BY <3>7, <4>1
      <4>3. Held(f[n - 1] \o s[n]) = Held(f[n - 1]) \cup Held(s[n])
        <5> HIDE DEF Bad
        <5> QED BY <3>7, <4>1, ConcatHolds
      <4> QED BY <3>7, <4>2, <4>3
    <3>10. f[n] \in Seq(T) /\ Held(f[n]) = UpToSet(S, n)
      <4> HIDE DEF S, Bad
      <4> QED BY <3>2, <3>6, <3>8, <3>9
    <3> QED BY <3>10
  <2>3. Len(s) \in 1..Len(s)
    BY <1>0, <1>2
  <2>4. f[Len(s)] \in Seq(T) /\ Held(f[Len(s)]) = UpToSet(S, Len(s))
    BY <2>2, <2>3
  <2> QED BY <1>a, <2>1, <2>4
<1> QED BY <1>1, <1>2

-----------------------------------------------------------------------------
(* Events by their numbers.                                                *)

\* The numbers of the events of s, which grow.
Ids(s) == {s[i].id : i \in 1..Len(s)}

Ascending(s) == \A i, j \in 1..Len(s) : i < j => s[i].id < s[j].id

AllLess(A, B) == \A a \in A, b \in B : a < b

\* The sequence s tells the events with the numbers A, in order.
Tells(s, A) == Ascending(s) /\ Ids(s) = A

LEMMA ConcatTells ==
    ASSUME NEW T, NEW a \in Seq(T), NEW b \in Seq(T), NEW A, NEW B,
           Tells(a, A), Tells(b, B), AllLess(A, B)
    PROVE  Tells(a \o b, A \cup B)
<1> DEFINE c == a \o b
<1>1. /\ Len(c) = Len(a) + Len(b) /\ Len(a) \in Nat /\ Len(b) \in Nat
      /\ \A i \in 1..Len(a) : c[i] = a[i]
      /\ \A i \in 1..Len(b) : c[Len(a) + i] = b[i]
      /\ \A i \in 1..Len(c) : i \notin 1..Len(a) => \E j \in 1..Len(b) : i = Len(a) + j
  BY ConcatFacts
<1>2. Held(c) = Held(a) \cup Held(b)
  BY ConcatHolds
<1> HIDE DEF c
<1>3. \A s : Ids(s) = {e.id : e \in Held(s)}
  BY DEF Ids, Held
<1>4. Ids(c) = A \cup B
  BY <1>2, <1>3 DEF Tells
<1>5. ASSUME NEW i \in 1..Len(c), NEW j \in 1..Len(c), i < j PROVE c[i].id < c[j].id
  <2>1. CASE i \in 1..Len(a) /\ j \in 1..Len(a)
    BY <1>1, <1>5, <2>1 DEF Tells, Ascending
  <2>2. CASE i \in 1..Len(a) /\ j \notin 1..Len(a)
    <3>1. PICK l \in 1..Len(b) : j = Len(a) + l
      BY <1>1, <2>2
    <3>2. a[i].id \in A /\ b[l].id \in B /\ c[i] = a[i] /\ c[j] = b[l]
      BY <1>1, <2>2, <3>1 DEF Tells, Ids
    <3> QED BY <3>2 DEF AllLess
  <2>3. CASE i \notin 1..Len(a)
    <3>1. PICK k \in 1..Len(b) : i = Len(a) + k
      BY <1>1, <2>3
    <3>2. j \notin 1..Len(a)
      BY <1>1, <1>5, <3>1
    <3>3. PICK l \in 1..Len(b) : j = Len(a) + l
      BY <1>1, <3>2
    <3>4. k < l /\ c[i] = b[k] /\ c[j] = b[l]
      BY <1>1, <1>5, <3>1, <3>3
    <3> QED BY <3>4 DEF Tells, Ascending
  <2> QED BY <2>1, <2>2, <2>3
<1>6. Tells(c, A \cup B)
  BY <1>4, <1>5 DEF Tells, Ascending
<1> QED BY <1>6 DEF c

\* A concatenation tells what its parts tell, if they come in order.
LEMMA FlattenTells ==
    ASSUME NEW T, NEW s \in Seq(Seq(T)), NEW S,
           \A i \in 1..Len(s) : Tells(s[i], S[i]),
           \A i, j \in 1..Len(s) : i < j => AllLess(S[i], S[j])
    PROVE  Tells(FlattenSeq(s), UpToSet(S, Len(s)))
<1>0. Len(s) \in Nat /\ \A i \in 1..Len(s) : s[i] \in Seq(T)
  OBVIOUS
<1>1. CASE s = <<>>
  <2>1. Len(s) = 0 /\ FlattenSeq(s) = <<>>
    BY <1>1, FlattenIs
  <2>2. UpToSet(S, 0) = {} /\ Tells(<<>>, {})
    BY DEF UpToSet, Tells, Ascending, Ids
  <2> QED BY <2>1, <2>2
<1>2. CASE s # <<>>
  <2>a. PICK f : FlattenSeq(s) = f[Len(s)] /\ Grows(s, f)
    BY <1>2, FlattenIs
  <2>1. /\ FlattenSeq(s) = f[Len(s)] /\ f[1] = s[1]
        /\ \A i \in 2..Len(s) : f[i] = f[i - 1] \o s[i]
    BY <2>a DEF Grows
  <2> DEFINE Bad == {n \in 1..Len(s) : ~(f[n] \in Seq(T) /\ Tells(f[n], UpToSet(S, n)))}
  <2>2. ASSUME Bad # {} PROVE FALSE
    <3>1. PICK n \in Bad : \A x \in Bad : n <= x
      <4>1. Bad \in SUBSET Nat
        OBVIOUS
      <4> HIDE DEF Bad
      <4> QED BY <2>2, <4>1, LeastNumber
    <3>2. n \in 1..Len(s)
      OBVIOUS
    <3>3. n # 1
      <4>1. UpToSet(S, 1) = S[1]
        BY DEF UpToSet
      <4>2. CASE n = 1
        <5>1. f[n] \in Seq(T) /\ Tells(f[n], UpToSet(S, n))
          BY <1>0, <2>1, <3>2, <4>1, <4>2
        <5> QED BY <5>1
      <4> QED BY <4>2
    <3>4. n - 1 \in 1..Len(s) /\ ~(n <= n - 1) /\ n \in 2..Len(s) /\ n \in Nat /\ n # 0
      BY <1>0, <3>2, <3>3
    <3>5. n - 1 \notin Bad
      BY <3>1, <3>4
    <3>6. f[n - 1] \in Seq(T) /\ Tells(f[n - 1], UpToSet(S, n - 1))
      BY <3>4, <3>5
    <3>7. f[n] = f[n - 1] \o s[n] /\ s[n] \in Seq(T)
      BY <1>0, <2>1, <3>4
    <3>8. UpToSet(S, n) = UpToSet(S, n - 1) \cup S[n]
      BY <3>4, UpToNext
    <3>9. AllLess(UpToSet(S, n - 1), S[n])
      <4>1. \A i \in 1..(n - 1) : i \in 1..Len(s) /\ i < n
        BY <1>0, <3>2
      <4> QED BY <3>2, <4>1 DEF UpToSet, AllLess
    <3>10. f[n] \in Seq(T)
      BY <3>6, <3>7, ConcatFacts
    <3>11. Tells(f[n], UpToSet(S, n - 1) \cup S[n])
      <4> DEFINE a == f[n - 1]
      <4> DEFINE b == s[n]
      <4> DEFINE A == UpToSet(S, n - 1)
      <4> DEFINE B == S[n]
      <4>1. a \in Seq(T) /\ b \in Seq(T) /\ Tells(a, A) /\ Tells(b, B) /\ AllLess(A, B) /\ f[n] = a \o b
        BY <3>2, <3>6, <3>7, <3>9
      <4> HIDE DEF a, b, A, B
      <4>2. Tells(a \o b, A \cup B)
        BY <4>1, ConcatTells
      <4>3. Tells(f[n], A \cup B)
        BY <4>1, <4>2
      <4> QED BY <4>3 DEF A, B
    <3> QED BY <3>8, <3>10, <3>11
  <2>3. Len(s) \in 1..Len(s)
    BY <1>0, <1>2
  <2>4. Tells(f[Len(s)], UpToSet(S, Len(s)))
    BY <2>2, <2>3
  <2> QED BY <2>1, <2>4
<1> QED BY <1>1, <1>2

\* What is told is as much as was sent.
LEMMA TellsCounts ==
    ASSUME NEW T, \A e \in T : e.id \in Nat, NEW s \in Seq(T), NEW A, Tells(s, A)
    PROVE  IsFiniteSet(A) /\ Cardinality(A) = Len(s)
<1> DEFINE f == [i \in 1..Len(s) |-> s[i].id]
<1>1. Len(s) \in Nat /\ \A i \in 1..Len(s) : s[i] \in T /\ s[i].id \in Nat
  OBVIOUS
<1>2. f \in Bijection(1..Len(s), A)
  <2>1. f \in [1..Len(s) -> A] /\ \A a \in A : \E i \in 1..Len(s) : f[i] = a
    BY DEF Tells, Ids
  <2>2. ASSUME NEW i \in 1..Len(s), NEW j \in 1..Len(s), i # j PROVE f[i] # f[j]
    <3>1. i < j \/ j < i
      BY <1>1, <2>2
    <3> QED BY <1>1, <3>1 DEF Tells, Ascending
  <2> QED BY <2>1, <2>2 DEF Bijection, Injection, Surjection, IsInjective
<1>3. ExistsBijection(1..Len(s), A)
  BY <1>2 DEF ExistsBijection
<1> QED BY <1>1, <1>3, FS_CountingElements, FS_NatBijection
-----------------------------------------------------------------------------
(* A request and its records.                                              *)

LEMMA SeqIs ==
    ASSUME NEW s, IsSeq(s)
    PROVE  s \in Seq(Held(s)) /\ DOMAIN s = 1..Len(s) /\ Len(s) \in Nat
<1>1. Len(s) \in Nat /\ s = [i \in 1..Len(s) |-> s[i]]
  BY DEF IsSeq
<1>2. DOMAIN s = 1..Len(s) /\ \A i \in 1..Len(s) : s[i] \in Held(s)
  BY <1>1 DEF Held
<1>3. s \in [1..Len(s) -> Held(s)]
  BY <1>1, <1>2
<1> QED BY <1>1, <1>2, <1>3

\* A record is at its place, and every place of a record is one.
IsRecord(x, i, j, k, l) ==
    /\ i \in DOMAIN x.frames /\ j \in DOMAIN x.frames[i]
    /\ k \in DOMAIN x.frames[i][j] /\ x.frames[i][j][k].tag = "scopes"
    /\ l \in DOMAIN x.frames[i][j][k].is /\ x.frames[i][j][k].is[l].tag = "record"

LEMMA RecordsAre ==
    ASSUME NEW x
    PROVE  /\ \A p \in Records(x) : \E i, j, k, l : IsRecord(x, i, j, k, l) /\ p = <<i, j, k, l>>
           /\ \A i, j, k, l : IsRecord(x, i, j, k, l) => <<i, j, k, l>> \in Records(x)
<1> DEFINE Q(i, j, k) == {<<i, j, k, l>> :
             l \in {l \in DOMAIN x.frames[i][j][k].is : x.frames[i][j][k].is[l].tag = "record"}}
<1> DEFINE R(i, j) == UNION {Q(i, j, k) :
             k \in {k \in DOMAIN x.frames[i][j] : x.frames[i][j][k].tag = "scopes"}}
<1> DEFINE F(i) == UNION {R(i, j) : j \in DOMAIN x.frames[i]}
<1>1. Records(x) = UNION {F(i) : i \in DOMAIN x.frames}
  BY DEF Records
<1>2. ASSUME NEW p \in Records(x)
      PROVE  \E i, j, k, l : IsRecord(x, i, j, k, l) /\ p = <<i, j, k, l>>
  <2>1. PICK i \in DOMAIN x.frames : p \in F(i)
    <3> HIDE DEF F
    <3> QED BY <1>1, <1>2
  <2>2. PICK j \in DOMAIN x.frames[i] : p \in R(i, j)
    <3> HIDE DEF R
    <3> QED BY <2>1 DEF F
  <2>3. PICK k \in DOMAIN x.frames[i][j] : x.frames[i][j][k].tag = "scopes" /\ p \in Q(i, j, k)
    <3> HIDE DEF Q
    <3> QED BY <2>2 DEF R
  <2>4. PICK l \in DOMAIN x.frames[i][j][k].is :
          x.frames[i][j][k].is[l].tag = "record" /\ p = <<i, j, k, l>>
    BY <2>3 DEF Q
  <2>5. IsRecord(x, i, j, k, l)
    BY <2>3, <2>4 DEF IsRecord
  <2> QED BY <2>4, <2>5
<1>3. ASSUME NEW i, NEW j, NEW k, NEW l, IsRecord(x, i, j, k, l)
      PROVE  <<i, j, k, l>> \in Records(x)
  <2>1. <<i, j, k, l>> \in Q(i, j, k)
    BY <1>3 DEF IsRecord
  <2>2. <<i, j, k, l>> \in R(i, j)
    <3> HIDE DEF Q
    <3> QED BY <1>3, <2>1 DEF IsRecord, R
  <2>3. <<i, j, k, l>> \in F(i)
    <3> HIDE DEF R
    <3> QED BY <1>3, <2>2 DEF IsRecord, F
  <2> HIDE DEF F
  <2> QED BY <1>1, <1>3, <2>3 DEF IsRecord
<1> QED BY <1>2, <1>3

\* What the assumption says of a request.
LEMMA RequestShape ==
    ASSUME NEW x \in Exports
    PROVE  /\ x.via \in {"http", "grpc"}
           /\ x.via = "http" => Len(x.frames) = 1
           /\ IsSeq(x.frames)
           /\ \A i \in DOMAIN x.frames :
                 IsSeq(x.frames[i]) /\ \A j \in DOMAIN x.frames[i] : LogsShape(x.frames[i][j])
           /\ \A p, q \in Records(x) : Earlier(p, q) => RecordAt(x, p).id < RecordAt(x, q).id
BY OtlpAssumption

LEMMA RecordShape ==
    ASSUME NEW x \in Exports, NEW i, NEW j, NEW k, NEW l, IsRecord(x, i, j, k, l)
    PROVE  /\ i \in Nat /\ j \in Nat /\ k \in Nat /\ l \in Nat
           /\ x.frames[i][j][k].is[l].is.id \in Nat
           /\ KeyValues(x.frames[i][j][k].is[l].is.attrs)
<1>1. IsSeq(x.frames) /\ IsSeq(x.frames[i]) /\ LogsShape(x.frames[i][j])
  BY RequestShape DEF IsRecord
<1>2. IsSeq(x.frames[i][j]) /\ IsSeq(x.frames[i][j][k].is)
  BY <1>1 DEF LogsShape, IsRecord
<1>3. i \in Nat /\ j \in Nat /\ k \in Nat /\ l \in Nat
  BY <1>1, <1>2, SeqIs DEF IsRecord
<1>4. /\ x.frames[i][j][k].is[l].is.id \in Nat
      /\ KeyValues(x.frames[i][j][k].is[l].is.attrs)
  BY <1>1 DEF LogsShape, IsRecord
<1> QED BY <1>3, <1>4

\* The event that a record becomes.
EventAt(x, p) ==
    FinishEvent(RecordAt(x, p), Attributes(ResourceOf(x.frames[p[1]][p[2]], p[3])),
                ScopeName(x.frames[p[1]][p[2]][p[3]].is))

EventsOf(x) == {EventAt(x, p) : p \in Records(x)}

LEMMA EventsNumbered ==
    ASSUME NEW x \in Exports
    PROVE  /\ \A p \in Records(x) : RecordAt(x, p).id \in Nat /\ EventAt(x, p).id = RecordAt(x, p).id
           /\ \A e \in EventsOf(x) : e.id \in Nat
<1>1. ASSUME NEW p \in Records(x)
      PROVE  RecordAt(x, p).id \in Nat /\ EventAt(x, p).id = RecordAt(x, p).id
  <2>1. PICK i, j, k, l : IsRecord(x, i, j, k, l) /\ p = <<i, j, k, l>>
    BY RecordsAre
  <2>2. RecordAt(x, p).id \in Nat
    BY <2>1, RecordShape DEF RecordAt
  <2>3. EventAt(x, p).id = RecordAt(x, p).id
    BY DEF EventAt, FinishEvent
  <2> QED BY <2>2, <2>3
<1> QED BY <1>1 DEF EventsOf

-----------------------------------------------------------------------------
(* Decoding tells the records in order.                                    *)

\* The numbers of the records of a field, of a ResourceLogs, of a frame.
FieldIds(x, i, j, k) == {RecordAt(x, p).id : p \in {p \in Records(x) : p[1] = i /\ p[2] = j /\ p[3] = k}}
GroupIds(x, i, j) == {RecordAt(x, p).id : p \in {p \in Records(x) : p[1] = i /\ p[2] = j}}
FrameIds(x, i) == {RecordAt(x, p).id : p \in {p \in Records(x) : p[1] = i}}

LEMMA FieldTells ==
    ASSUME NEW x \in Exports, NEW i \in DOMAIN x.frames, NEW j \in DOMAIN x.frames[i],
           NEW k \in DOMAIN x.frames[i][j], x.frames[i][j][k].tag = "scopes"
    PROVE  LET d == DecodeScopeLogs(x.frames[i][j][k].is, Attributes(ResourceOf(x.frames[i][j], k)))
           IN  d \in Seq(EventsOf(x)) /\ Tells(d, FieldIds(x, i, j, k))
<1> DEFINE fields == x.frames[i][j][k].is
<1> DEFINE res == Attributes(ResourceOf(x.frames[i][j], k))
<1> DEFINE s == [l \in DOMAIN fields |-> IF fields[l].tag = "record"
                 THEN <<FinishEvent(fields[l].is, res, ScopeName(fields))>> ELSE <<>>]
<1> DEFINE S == [l \in DOMAIN fields |-> IF fields[l].tag = "record" THEN {fields[l].is.id} ELSE {}]
<1>1. DecodeScopeLogs(fields, res) = FlattenSeq(s)
  BY DEF DecodeScopeLogs
<1>2. IsSeq(fields)
  BY RequestShape DEF LogsShape
<1>3. Len(fields) \in Nat /\ DOMAIN fields = 1..Len(fields)
  BY <1>2, SeqIs
<1>4. ASSUME NEW l \in DOMAIN fields, fields[l].tag = "record"
      PROVE  /\ <<i, j, k, l>> \in Records(x)
             /\ RecordAt(x, <<i, j, k, l>>) = fields[l].is
             /\ FinishEvent(fields[l].is, res, ScopeName(fields)) = EventAt(x, <<i, j, k, l>>)
             /\ fields[l].is.id \in Nat
  <2>1. IsRecord(x, i, j, k, l)
    BY <1>4 DEF IsRecord
  <2>2. <<i, j, k, l>> \in Records(x)
    BY <2>1, RecordsAre
  <2>3. RecordAt(x, <<i, j, k, l>>) = fields[l].is
    BY DEF RecordAt
  <2>4. EventAt(x, <<i, j, k, l>>) = FinishEvent(fields[l].is, res, ScopeName(fields))
    BY <2>3 DEF EventAt
  <2>5. fields[l].is.id \in Nat
    BY <2>1, RecordShape
  <2> QED BY <2>2, <2>3, <2>4, <2>5
<1> HIDE DEF fields, res
<1>5. ASSUME NEW l \in DOMAIN fields
      PROVE  s[l] \in Seq(EventsOf(x)) /\ Tells(s[l], S[l])
  <2>1. CASE fields[l].tag = "record"
    <3> DEFINE e == FinishEvent(fields[l].is, res, ScopeName(fields))
    <3>1. s[l] = <<e>> /\ S[l] = {fields[l].is.id}
      BY <2>1
    <3>2. e \in EventsOf(x)
      BY <1>4, <2>1 DEF EventsOf
    <3>3. e.id = fields[l].is.id
      BY DEF FinishEvent
    <3> HIDE DEF e, s, S
    <3>4. Ascending(<<e>>) /\ Ids(<<e>>) = {e.id}
      BY DEF Ascending, Ids
    <3> QED BY <3>1, <3>2, <3>3, <3>4 DEF Tells
  <2>2. CASE fields[l].tag # "record"
    <3>1. s[l] = <<>> /\ S[l] = {}
      BY <2>2
    <3>2. Ascending(<<>>) /\ Ids(<<>>) = {}
      BY DEF Ascending, Ids
    <3> HIDE DEF s, S
    <3> QED BY <3>1, <3>2 DEF Tells
  <2> QED BY <2>1, <2>2
<1>6. DOMAIN s = 1..Len(fields) /\ DOMAIN S = 1..Len(fields)
  BY <1>3
<1>7. ASSUME NEW l \in 1..Len(fields), NEW m \in 1..Len(fields), l < m PROVE AllLess(S[l], S[m])
  <2>1. SUFFICES ASSUME fields[l].tag = "record", fields[m].tag = "record"
                 PROVE  fields[l].is.id < fields[m].is.id
    BY <1>3 DEF AllLess
  <2>2. <<i, j, k, l>> \in Records(x) /\ <<i, j, k, m>> \in Records(x)
    BY <1>3, <1>4, <2>1
  <2>3. Earlier(<<i, j, k, l>>, <<i, j, k, m>>)
    BY <1>7 DEF Earlier
  <2>4. RecordAt(x, <<i, j, k, l>>).id < RecordAt(x, <<i, j, k, m>>).id
    BY <2>2, <2>3, RequestShape
  <2> QED BY <1>3, <1>4, <2>1, <2>4
<1>8. UpToSet(S, Len(fields)) = FieldIds(x, i, j, k)
  <2>1. ASSUME NEW a \in UpToSet(S, Len(fields)) PROVE a \in FieldIds(x, i, j, k)
    <3>1. PICK l \in DOMAIN fields : fields[l].tag = "record" /\ a = fields[l].is.id
      BY <1>3, <2>1 DEF UpToSet
    <3>2. <<i, j, k, l>> \in Records(x) /\ a = RecordAt(x, <<i, j, k, l>>).id
      BY <1>4, <3>1
    <3> QED BY <3>2 DEF FieldIds
  <2>2. ASSUME NEW a \in FieldIds(x, i, j, k) PROVE a \in UpToSet(S, Len(fields))
    <3>1. PICK p \in Records(x) : p[1] = i /\ p[2] = j /\ p[3] = k /\ a = RecordAt(x, p).id
      BY <2>2 DEF FieldIds
    <3>2. PICK i1, j1, k1, l : IsRecord(x, i1, j1, k1, l) /\ p = <<i1, j1, k1, l>>
      BY RecordsAre
    <3>3. IsRecord(x, i, j, k, l) /\ p = <<i, j, k, l>>
      BY <3>1, <3>2
    <3>4. l \in DOMAIN fields /\ fields[l].tag = "record"
      BY <3>3 DEF IsRecord, fields
    <3>5. a \in S[l] /\ l \in 1..Len(fields)
      BY <1>3, <1>4, <3>1, <3>3, <3>4
    <3> QED BY <3>5 DEF UpToSet
  <2> QED BY <2>1, <2>2
<1>9. s \in Seq(Seq(EventsOf(x))) /\ Len(s) = Len(fields)
  <2>1. \A l \in 1..Len(fields) : s[l] \in Seq(EventsOf(x))
    BY <1>3, <1>5
  <2>2. s = [l \in 1..Len(fields) |-> s[l]]
    BY <1>3
  <2> HIDE DEF s
  <2> QED BY <1>3, <2>1, <2>2
<1>10. \A l \in 1..Len(s) : Tells(s[l], S[l])
  BY <1>3, <1>5, <1>9
<1> HIDE DEF s, S
<1>11. FlattenSeq(s) \in Seq(EventsOf(x))
  BY <1>9, FlattenHolds
<1>12. Tells(FlattenSeq(s), UpToSet(S, Len(s)))
  BY <1>7, <1>9, <1>10, FlattenTells
<1> QED BY <1>1, <1>8, <1>9, <1>11, <1>12 DEF fields, res

LEMMA GroupTells ==
    ASSUME NEW x \in Exports, NEW i \in DOMAIN x.frames, NEW j \in DOMAIN x.frames[i]
    PROVE  LET d == DecodeResourceLogs(x.frames[i][j])
           IN  d \in Seq(EventsOf(x)) /\ Tells(d, GroupIds(x, i, j))
<1> DEFINE fields == x.frames[i][j]
<1> DEFINE s == [k \in DOMAIN fields |->
        IF fields[k].tag = "scopes"
        THEN DecodeScopeLogs(fields[k].is, Attributes(ResourceOf(fields, k))) ELSE <<>>]
<1> DEFINE S == [k \in DOMAIN fields |-> FieldIds(x, i, j, k)]
<1>1. DecodeResourceLogs(fields) = FlattenSeq(s)
  BY DEF DecodeResourceLogs
<1>2. IsSeq(fields)
  BY RequestShape DEF LogsShape
<1>3. Len(fields) \in Nat /\ DOMAIN fields = 1..Len(fields)
  BY <1>2, SeqIs
<1>4. ASSUME NEW k \in DOMAIN fields PROVE s[k] \in Seq(EventsOf(x)) /\ Tells(s[k], S[k])
  <2>1. CASE fields[k].tag = "scopes"
    <3>1. s[k] = DecodeScopeLogs(fields[k].is, Attributes(ResourceOf(fields, k))) /\ S[k] = FieldIds(x, i, j, k)
      BY <2>1
    <3>2. /\ DecodeScopeLogs(fields[k].is, Attributes(ResourceOf(fields, k))) \in Seq(EventsOf(x))
          /\ Tells(DecodeScopeLogs(fields[k].is, Attributes(ResourceOf(fields, k))), FieldIds(x, i, j, k))
      BY <2>1, FieldTells
    <3> HIDE DEF s, S, fields
    <3> QED BY <3>1, <3>2
  <2>2. CASE fields[k].tag # "scopes"
    <3>1. s[k] = <<>> /\ S[k] = FieldIds(x, i, j, k)
      BY <2>2
    <3>2. FieldIds(x, i, j, k) = {}
      <4>1. ASSUME NEW p \in Records(x), p[1] = i, p[2] = j, p[3] = k PROVE FALSE
        <5>1. PICK i1, j1, k1, l : IsRecord(x, i1, j1, k1, l) /\ p = <<i1, j1, k1, l>>
          BY RecordsAre
        <5> QED BY <2>2, <4>1, <5>1 DEF IsRecord
      <4> QED BY <4>1 DEF FieldIds
    <3>3. Ascending(<<>>) /\ Ids(<<>>) = {}
      BY DEF Ascending, Ids
    <3> HIDE DEF s, S
    <3> QED BY <3>1, <3>2, <3>3 DEF Tells
  <2> QED BY <2>1, <2>2
<1>5. DOMAIN s = 1..Len(fields) /\ \A k \in DOMAIN fields : S[k] = FieldIds(x, i, j, k)
  BY <1>3
<1> HIDE DEF fields
<1>6. s \in Seq(Seq(EventsOf(x))) /\ Len(s) = Len(fields)
  <2>1. \A k \in 1..Len(fields) : s[k] \in Seq(EventsOf(x))
    BY <1>3, <1>4
  <2>2. s = [k \in 1..Len(fields) |-> s[k]]
    BY <1>3
  <2> HIDE DEF s
  <2> QED BY <1>3, <2>1, <2>2
<1>7. \A k \in 1..Len(s) : Tells(s[k], S[k])
  BY <1>3, <1>4, <1>6
<1> HIDE DEF s, S
<1>8. ASSUME NEW k \in 1..Len(s), NEW l \in 1..Len(s), k < l PROVE AllLess(S[k], S[l])
  <2>1. S[k] = FieldIds(x, i, j, k) /\ S[l] = FieldIds(x, i, j, l)
    BY <1>3, <1>5, <1>6
  <2>2. ASSUME NEW p \in Records(x), p[1] = i, p[2] = j, p[3] = k,
               NEW q \in Records(x), q[1] = i, q[2] = j, q[3] = l
        PROVE  RecordAt(x, p).id < RecordAt(x, q).id
    <3>1. Earlier(p, q)
      BY <1>8, <2>2 DEF Earlier
    <3> QED BY <3>1, RequestShape
  <2> QED BY <2>1, <2>2 DEF AllLess, FieldIds
<1>9. UpToSet(S, Len(fields)) = GroupIds(x, i, j)
  <2>1. ASSUME NEW a \in UpToSet(S, Len(fields)) PROVE a \in GroupIds(x, i, j)
    <3>1. PICK k \in DOMAIN fields : a \in FieldIds(x, i, j, k)
      BY <1>3, <1>5, <2>1 DEF UpToSet
    <3> QED BY <3>1 DEF FieldIds, GroupIds
  <2>2. ASSUME NEW a \in GroupIds(x, i, j) PROVE a \in UpToSet(S, Len(fields))
    <3>1. PICK p \in Records(x) : p[1] = i /\ p[2] = j /\ a = RecordAt(x, p).id
      BY <2>2 DEF GroupIds
    <3>2. PICK i1, j1, k, l : IsRecord(x, i1, j1, k, l) /\ p = <<i1, j1, k, l>>
      BY RecordsAre
    <3>3. k \in DOMAIN fields /\ p[3] = k
      BY <3>1, <3>2 DEF IsRecord, fields
    <3>4. a \in FieldIds(x, i, j, k)
      BY <3>1, <3>3 DEF FieldIds
    <3> QED BY <1>3, <1>5, <3>3, <3>4 DEF UpToSet
  <2> QED BY <2>1, <2>2
<1>10. FlattenSeq(s) \in Seq(EventsOf(x))
  BY <1>6, FlattenHolds
<1>11. Tells(FlattenSeq(s), UpToSet(S, Len(s)))
  BY <1>6, <1>7, <1>8, FlattenTells
<1> QED BY <1>1, <1>6, <1>9, <1>10, <1>11 DEF fields

\* The first m ResourceLogs of a frame.
PrefixIds(x, i, m) == {RecordAt(x, p).id : p \in {p \in Records(x) : p[1] = i /\ p[2] <= m}}

LEMMA PrefixTells ==
    ASSUME NEW x \in Exports, NEW i \in DOMAIN x.frames, NEW m \in 0..Len(x.frames[i])
    PROVE  LET d == Decode(SubSeq(x.frames[i], 1, m))
           IN  d \in Seq(EventsOf(x)) /\ Tells(d, PrefixIds(x, i, m))
<1> DEFINE frm == SubSeq(x.frames[i], 1, m)
<1> DEFINE s == [j \in DOMAIN frm |-> DecodeResourceLogs(frm[j])]
<1> DEFINE S == [j \in 1..m |-> GroupIds(x, i, j)]
<1>1. /\ x.frames[i] \in Seq(Held(x.frames[i])) /\ DOMAIN x.frames[i] = 1..Len(x.frames[i])
      /\ Len(x.frames[i]) \in Nat
  BY RequestShape, SeqIs
<1>2. m \in Nat /\ DOMAIN frm = 1..m /\ \A j \in 1..m : frm[j] = x.frames[i][j] /\ j \in DOMAIN x.frames[i]
  BY <1>1
<1>3. Decode(frm) = FlattenSeq(s)
  BY DEF Decode
<1> HIDE DEF frm
<1>4. ASSUME NEW j \in 1..m PROVE s[j] \in Seq(EventsOf(x)) /\ Tells(s[j], S[j])
  <2>1. s[j] = DecodeResourceLogs(x.frames[i][j]) /\ S[j] = GroupIds(x, i, j) /\ j \in DOMAIN x.frames[i]
    BY <1>2
  <2>2. /\ DecodeResourceLogs(x.frames[i][j]) \in Seq(EventsOf(x))
        /\ Tells(DecodeResourceLogs(x.frames[i][j]), GroupIds(x, i, j))
    BY <2>1, GroupTells
  <2> HIDE DEF s, S
  <2> QED BY <2>1, <2>2
<1>5. s \in Seq(Seq(EventsOf(x))) /\ Len(s) = m
  <2>1. s = [j \in 1..m |-> s[j]]
    BY <1>2
  <2> HIDE DEF s
  <2> QED BY <1>2, <1>4, <2>1
<1>6. \A j \in 1..m : S[j] = GroupIds(x, i, j)
  OBVIOUS
<1> HIDE DEF s, S
<1>7. ASSUME NEW k \in 1..Len(s), NEW l \in 1..Len(s), k < l PROVE AllLess(S[k], S[l])
  <2>1. S[k] = GroupIds(x, i, k) /\ S[l] = GroupIds(x, i, l)
    BY <1>5, <1>6
  <2>2. ASSUME NEW p \in Records(x), p[1] = i, p[2] = k,
               NEW q \in Records(x), q[1] = i, q[2] = l
        PROVE  RecordAt(x, p).id < RecordAt(x, q).id
    <3>1. Earlier(p, q)
      BY <1>7, <2>2 DEF Earlier
    <3> QED BY <3>1, RequestShape
  <2> QED BY <2>1, <2>2 DEF AllLess, GroupIds
<1>8. UpToSet(S, m) = PrefixIds(x, i, m)
  <2>1. ASSUME NEW a \in UpToSet(S, m) PROVE a \in PrefixIds(x, i, m)
    <3>1. PICK j \in 1..m : a \in GroupIds(x, i, j)
      BY <1>6, <2>1 DEF UpToSet
    <3> QED BY <1>2, <3>1 DEF GroupIds, PrefixIds
  <2>2. ASSUME NEW a \in PrefixIds(x, i, m) PROVE a \in UpToSet(S, m)
    <3>1. PICK p \in Records(x) : p[1] = i /\ p[2] <= m /\ a = RecordAt(x, p).id
      BY <2>2 DEF PrefixIds
    <3>2. PICK i1, j, k, l : IsRecord(x, i1, j, k, l) /\ p = <<i1, j, k, l>>
      BY RecordsAre
    <3>3. j \in DOMAIN x.frames[i] /\ p[2] = j
      BY <3>1, <3>2 DEF IsRecord
    <3>4. j \in 1..m
      BY <1>1, <1>2, <3>1, <3>3
    <3>5. a \in GroupIds(x, i, j)
      BY <3>1, <3>3 DEF GroupIds
    <3> QED BY <1>6, <3>4, <3>5 DEF UpToSet
  <2> QED BY <2>1, <2>2
<1>9. FlattenSeq(s) \in Seq(EventsOf(x))
  BY <1>5, FlattenHolds
<1>10. Tells(FlattenSeq(s), UpToSet(S, Len(s)))
  BY <1>4, <1>5, <1>7, FlattenTells
<1> QED BY <1>3, <1>5, <1>8, <1>9, <1>10 DEF frm

LEMMA FrameTells ==
    ASSUME NEW x \in Exports, NEW i \in DOMAIN x.frames
    PROVE  LET d == Decode(x.frames[i])
           IN  d \in Seq(EventsOf(x)) /\ Tells(d, FrameIds(x, i))
<1> DEFINE m == Len(x.frames[i])
<1>1. /\ x.frames[i] \in Seq(Held(x.frames[i])) /\ DOMAIN x.frames[i] = 1..m /\ m \in Nat
  BY RequestShape, SeqIs
<1>2. SubSeq(x.frames[i], 1, m) = x.frames[i]
  BY <1>1
<1>3. PrefixIds(x, i, m) = FrameIds(x, i)
  <2>1. ASSUME NEW p \in Records(x), p[1] = i PROVE p[2] <= m
    <3>1. PICK i1, j, k, l : IsRecord(x, i1, j, k, l) /\ p = <<i1, j, k, l>>
      BY RecordsAre
    <3>2. j \in DOMAIN x.frames[i] /\ p[2] = j
      BY <2>1, <3>1 DEF IsRecord
    <3> QED BY <1>1, <3>2
  <2> QED BY <2>1 DEF PrefixIds, FrameIds
<1>4. m \in 0..m
  BY <1>1
<1>5. /\ Decode(SubSeq(x.frames[i], 1, m)) \in Seq(EventsOf(x))
      /\ Tells(Decode(SubSeq(x.frames[i], 1, m)), PrefixIds(x, i, m))
  BY <1>4, PrefixTells
<1> QED BY <1>2, <1>3, <1>5

-----------------------------------------------------------------------------
(* How many records there are.                                             *)

\* The numbers of the records of the first n frames.
UpToIds(x, n) == {RecordAt(x, p).id : p \in {p \in Records(x) : p[1] <= n}}

LEMMA UpToIdsGrow ==
    ASSUME NEW x \in Exports, NEW n \in Nat
    PROVE  /\ UpToIds(x, 0) = {}
           /\ UpToIds(x, n + 1) = UpToIds(x, n) \cup FrameIds(x, n + 1)
           /\ AllLess(UpToIds(x, n), FrameIds(x, n + 1))
<1>1. \A p \in Records(x) : p[1] \in Nat /\ p[1] \in DOMAIN x.frames /\ p[1] # 0
  <2> SUFFICES ASSUME NEW p \in Records(x) PROVE p[1] \in Nat /\ p[1] \in DOMAIN x.frames /\ p[1] # 0
    OBVIOUS
  <2>1. PICK i, j, k, l : IsRecord(x, i, j, k, l) /\ p = <<i, j, k, l>>
    BY RecordsAre
  <2>2. DOMAIN x.frames = 1..Len(x.frames) /\ Len(x.frames) \in Nat
    BY RequestShape, SeqIs
  <2>3. i \in DOMAIN x.frames /\ p[1] = i
    BY <2>1 DEF IsRecord
  <2> QED BY <2>2, <2>3
<1>2. UpToIds(x, 0) = {}
  BY <1>1 DEF UpToIds
<1>3. \A p \in Records(x) : p[1] <= n + 1 <=> p[1] <= n \/ p[1] = n + 1
  BY <1>1
<1>4. UpToIds(x, n + 1) = UpToIds(x, n) \cup FrameIds(x, n + 1)
  BY <1>3 DEF UpToIds, FrameIds
<1>5. ASSUME NEW p \in Records(x), p[1] <= n, NEW q \in Records(x), q[1] = n + 1
      PROVE  RecordAt(x, p).id < RecordAt(x, q).id
  <2>1. p[1] < q[1]
    BY <1>1, <1>5
  <2>2. Earlier(p, q)
    BY <2>1 DEF Earlier
  <2> QED BY <2>2, RequestShape
<1>6. AllLess(UpToIds(x, n), FrameIds(x, n + 1))
  BY <1>5 DEF AllLess, UpToIds, FrameIds
<1> QED BY <1>2, <1>4, <1>6

\* Of two records one comes first, so every record has its own number.
LEMMA RecordsCounted ==
    ASSUME NEW x \in Exports
    PROVE  /\ IsFiniteSet(UpToIds(x, Len(x.frames)))
           /\ Cardinality(UpToIds(x, Len(x.frames))) = Cardinality(Records(x))
<1> DEFINE n == Len(x.frames)
<1> DEFINE A == UpToIds(x, n)
<1>1. n \in Nat /\ DOMAIN x.frames = 1..n
  BY RequestShape, SeqIs
<1>2. IsFiniteSet(A)
  <2> DEFINE s == [i \in 1..n |-> Decode(x.frames[i])]
  <2> DEFINE S == [i \in 1..n |-> FrameIds(x, i)]
  <2>1. ASSUME NEW i \in 1..n PROVE s[i] \in Seq(EventsOf(x)) /\ Tells(s[i], S[i])
    <3>1. s[i] = Decode(x.frames[i]) /\ S[i] = FrameIds(x, i) /\ i \in DOMAIN x.frames
      BY <1>1
    <3>2. Decode(x.frames[i]) \in Seq(EventsOf(x)) /\ Tells(Decode(x.frames[i]), FrameIds(x, i))
      BY <3>1, FrameTells
    <3> HIDE DEF s, S
    <3> QED BY <3>1, <3>2
  <2>2. s \in Seq(Seq(EventsOf(x))) /\ Len(s) = n
    <3>1. s = [i \in 1..n |-> s[i]]
      OBVIOUS
    <3>2. \A i \in 1..n : s[i] \in Seq(EventsOf(x))
      BY <2>1
    <3> HIDE DEF s, n
    <3> QED BY <1>1, <3>1, <3>2
  <2>3. \A i \in 1..n : S[i] = FrameIds(x, i)
    OBVIOUS
  <2> HIDE DEF s, S
  <2>4. ASSUME NEW i \in 1..Len(s), NEW j \in 1..Len(s), i < j PROVE AllLess(S[i], S[j])
    <3>1. S[i] = FrameIds(x, i) /\ S[j] = FrameIds(x, j)
      BY <2>2, <2>3
    <3>2. ASSUME NEW p \in Records(x), p[1] = i, NEW q \in Records(x), q[1] = j
          PROVE  RecordAt(x, p).id < RecordAt(x, q).id
      <4>1. Earlier(p, q)
        BY <2>4, <3>2 DEF Earlier
      <4> QED BY <4>1, RequestShape
    <3> QED BY <3>1, <3>2 DEF AllLess, FrameIds
  <2>5. FlattenSeq(s) \in Seq(EventsOf(x)) /\ Tells(FlattenSeq(s), UpToSet(S, n))
    <3>1. FlattenSeq(s) \in Seq(EventsOf(x))
      BY <2>2, FlattenHolds
    <3>2. Tells(FlattenSeq(s), UpToSet(S, Len(s)))
      BY <2>1, <2>2, <2>4, FlattenTells
    <3> QED BY <2>2, <3>1, <3>2
  <2>6. IsFiniteSet(UpToSet(S, n))
    BY <2>5, EventsNumbered, TellsCounts
  <2>7. A = UpToSet(S, n)
    <3>1. ASSUME NEW p \in Records(x) PROVE p[1] \in 1..n
      <4>1. PICK i, j, k, l : IsRecord(x, i, j, k, l) /\ p = <<i, j, k, l>>
        BY RecordsAre
      <4> QED BY <1>1, <4>1 DEF IsRecord
    <3>2. A = {RecordAt(x, p).id : p \in Records(x)}
      BY <1>1, <3>1 DEF UpToIds
    <3>3. UpToSet(S, n) = UNION {FrameIds(x, i) : i \in 1..n}
      BY <2>3 DEF UpToSet
    <3>4. UNION {FrameIds(x, i) : i \in 1..n} = {RecordAt(x, p).id : p \in Records(x)}
      BY <3>1 DEF FrameIds
    <3> QED BY <3>2, <3>3, <3>4
  <2> QED BY <2>6, <2>7
<1>3. Records(x) = {p \in Records(x) : p[1] <= n}
  <2> SUFFICES ASSUME NEW p \in Records(x) PROVE p[1] <= n
    OBVIOUS
  <2>1. PICK i, j, k, l : IsRecord(x, i, j, k, l) /\ p = <<i, j, k, l>>
    BY RecordsAre
  <2> QED BY <1>1, <2>1 DEF IsRecord
<1> DEFINE f == [p \in Records(x) |-> RecordAt(x, p).id]
<1>4. f \in [Records(x) -> A] /\ \A a \in A : \E p \in Records(x) : f[p] = a
  BY <1>3 DEF UpToIds
<1>5. ASSUME NEW p \in Records(x), NEW q \in Records(x), p # q PROVE f[p] # f[q]
  <2>1. PICK i, j, k, l : IsRecord(x, i, j, k, l) /\ p = <<i, j, k, l>>
    BY RecordsAre
  <2>2. PICK i1, j1, k1, l1 : IsRecord(x, i1, j1, k1, l1) /\ q = <<i1, j1, k1, l1>>
    BY RecordsAre
  <2>3. {i, j, k, l, i1, j1, k1, l1} \subseteq Nat
    BY <2>1, <2>2, RecordShape
  <2>4. p[1] = i /\ p[2] = j /\ p[3] = k /\ p[4] = l /\ q[1] = i1 /\ q[2] = j1 /\ q[3] = k1 /\ q[4] = l1
    BY <2>1, <2>2
  <2>5. \/ i # i1
        \/ i = i1 /\ j # j1
        \/ i = i1 /\ j = j1 /\ k # k1
        \/ i = i1 /\ j = j1 /\ k = k1 /\ l # l1
    BY <1>5, <2>1, <2>2
  <2>6. Earlier(p, q) \/ Earlier(q, p)
    <3>1. CASE i # i1
      BY <2>3, <2>4, <3>1 DEF Earlier
    <3>2. CASE i = i1 /\ j # j1
      BY <2>3, <2>4, <3>2 DEF Earlier
    <3>3. CASE i = i1 /\ j = j1 /\ k # k1
      BY <2>3, <2>4, <3>3 DEF Earlier
    <3>4. CASE i = i1 /\ j = j1 /\ k = k1 /\ l # l1
      BY <2>3, <2>4, <3>4 DEF Earlier
    <3> QED BY <2>5, <3>1, <3>2, <3>3, <3>4
  <2>7. RecordAt(x, p).id < RecordAt(x, q).id \/ RecordAt(x, q).id < RecordAt(x, p).id
    BY <2>6, RequestShape
  <2>8. RecordAt(x, p).id \in Nat /\ RecordAt(x, q).id \in Nat
    BY EventsNumbered
  <2> QED BY <2>7, <2>8
<1>6. f \in Injection(Records(x), A) /\ f \in Surjection(Records(x), A)
  BY <1>4, <1>5 DEF Injection, Surjection, IsInjective
<1> HIDE DEF f, A
<1>7. Cardinality(Records(x)) = Cardinality(A)
  BY <1>2, <1>6, FS_Injection
<1> QED BY <1>2, <1>7 DEF A

-----------------------------------------------------------------------------
(* The attributes of an event.                                             *)

\* One value for each key but the empty one, and it was sent with it.
LEMMA AttributesAre ==
    ASSUME NEW kvs, KeyValues(kvs)
    PROVE  /\ DOMAIN Attributes(kvs) = {kv.key : kv \in Held(kvs)} \ {Unset}
           /\ \A k \in DOMAIN Attributes(kvs) : [key |-> k, value |-> Attributes(kvs)[k]] \in Held(kvs)
<1> DEFINE LatestOf(k, i) == /\ i \in DOMAIN kvs /\ kvs[i].key = k
                           /\ \A j \in DOMAIN kvs : j > i => kvs[j].key # k
<1> DEFINE At(k) == CHOOSE i \in DOMAIN kvs : kvs[i].key = k
                        /\ \A j \in DOMAIN kvs : j > i => kvs[j].key # k
<1>1. /\ Len(kvs) \in Nat /\ DOMAIN kvs = 1..Len(kvs)
      /\ \A i \in DOMAIN kvs : kvs[i] = [key |-> kvs[i].key, value |-> kvs[i].value]
  BY SeqIs DEF KeyValues
<1>2. Attributes(kvs) = [k \in {kvs[i].key : i \in DOMAIN kvs} \ {Unset} |-> kvs[At(k)].value]
  BY DEF Attributes
<1>3. ASSUME NEW k \in {kvs[i].key : i \in DOMAIN kvs} PROVE LatestOf(k, At(k))
  <2> DEFINE S == {i \in DOMAIN kvs : kvs[i].key = k}
  <2>1. S \in SUBSET (1..Len(kvs)) /\ S # {}
    BY <1>1, <1>3
  <2>2. PICK i \in S : \A j \in S : j <= i
    <3> HIDE DEF S
    <3> QED BY <1>1, <2>1, GreatestNumber
  <2>3. \A j \in DOMAIN kvs : j > i => kvs[j].key # k
    BY <1>1, <2>2
  <2>4. \E n \in DOMAIN kvs : kvs[n].key = k /\ \A j \in DOMAIN kvs : j > n => kvs[j].key # k
    BY <2>2, <2>3
  <2> QED BY <2>4
<1>4. \A k \in {kvs[i].key : i \in DOMAIN kvs} : At(k) \in DOMAIN kvs /\ kvs[At(k)].key = k
  BY <1>3
<1> HIDE DEF At
<1>5. DOMAIN Attributes(kvs) = {kvs[i].key : i \in DOMAIN kvs} \ {Unset}
  BY <1>2
<1>6. {kvs[i].key : i \in DOMAIN kvs} = {kv.key : kv \in Held(kvs)}
  BY <1>1 DEF Held
<1>7. ASSUME NEW k \in DOMAIN Attributes(kvs)
      PROVE  [key |-> k, value |-> Attributes(kvs)[k]] \in Held(kvs)
  <2>1. k \in {kvs[i].key : i \in DOMAIN kvs} /\ Attributes(kvs)[k] = kvs[At(k)].value
    BY <1>2, <1>5
  <2>2. At(k) \in DOMAIN kvs /\ kvs[At(k)].key = k
    BY <1>4, <2>1
  <2>3. [key |-> k, value |-> Attributes(kvs)[k]] = kvs[At(k)]
    BY <1>1, <2>1, <2>2
  <2>4. kvs[At(k)] \in Held(kvs)
    BY <1>1, <2>2 DEF Held
  <2> QED BY <2>3, <2>4
<1> QED BY <1>5, <1>6, <1>7

\* The resource of a ResourceLogs, all of it.
Theirs(group) == UNION {ToSet(group[i].is) : i \in {j \in DOMAIN group : group[j].tag = "resource"}}

LEMMA ResourceHolds ==
    ASSUME NEW fields, LogsShape(fields), NEW k
    PROVE  KeyValues(ResourceOf(fields, k)) /\ Held(ResourceOf(fields, k)) = Theirs(fields)
<1> DEFINE T == Theirs(fields)
<1> DEFINE s == [j \in DOMAIN fields |-> IF fields[j].tag = "resource" THEN fields[j].is ELSE <<>>]
<1>1. Len(fields) \in Nat /\ DOMAIN fields = 1..Len(fields)
  BY SeqIs DEF LogsShape
<1>2. ResourceOf(fields, k) = FlattenSeq(s)
  BY DEF ResourceOf
<1>3. ASSUME NEW j \in DOMAIN fields, fields[j].tag = "resource"
      PROVE  /\ fields[j].is \in Seq(T) /\ Held(fields[j].is) \subseteq T
             /\ Held(fields[j].is) = ToSet(fields[j].is)
             /\ \A kv \in Held(fields[j].is) : kv = [key |-> kv.key, value |-> kv.value]
  <2>1. KeyValues(fields[j].is)
    BY <1>3 DEF LogsShape
  <2>2. /\ fields[j].is \in Seq(Held(fields[j].is)) /\ DOMAIN fields[j].is = 1..Len(fields[j].is)
    BY <2>1, SeqIs DEF KeyValues
  <2>3. Held(fields[j].is) = ToSet(fields[j].is)
    BY <2>2 DEF Held, ToSet
  <2>4. Held(fields[j].is) \subseteq T
    BY <1>3, <2>3 DEF Theirs
  <2>5. fields[j].is \in Seq(T)
    <3> HIDE DEF T
    <3> QED BY <2>2, <2>4
  <2>6. \A kv \in Held(fields[j].is) : kv = [key |-> kv.key, value |-> kv.value]
    BY <2>1, <2>2 DEF KeyValues, Held
  <2> QED BY <2>3, <2>4, <2>5, <2>6
<1>4. ASSUME NEW kv \in T
      PROVE  \E j \in DOMAIN fields : fields[j].tag = "resource" /\ kv \in Held(fields[j].is)
  <2>1. PICK j \in DOMAIN fields : fields[j].tag = "resource" /\ kv \in ToSet(fields[j].is)
    BY <1>4 DEF Theirs
  <2> QED BY <1>3, <2>1
<1> HIDE DEF T
<1>5. s \in Seq(Seq(T)) /\ Len(s) = Len(fields)
  <2>1. \A j \in 1..Len(fields) : s[j] \in Seq(T)
    BY <1>1, <1>3
  <2>2. s = [j \in 1..Len(fields) |-> s[j]]
    BY <1>1
  <2> HIDE DEF s
  <2> QED BY <1>1, <2>1, <2>2
<1>6. \A j \in DOMAIN fields :
         /\ fields[j].tag = "resource" => s[j] = fields[j].is
         /\ fields[j].tag # "resource" => s[j] = <<>>
  OBVIOUS
<1> HIDE DEF s
<1>7. /\ FlattenSeq(s) \in Seq(T)
      /\ Held(FlattenSeq(s)) = UNION {Held(s[i]) : i \in 1..Len(s)}
  BY <1>5, FlattenHolds
<1>8. Held(FlattenSeq(s)) = T
  <2>1. ASSUME NEW kv \in Held(FlattenSeq(s)) PROVE kv \in T
    <3>1. PICK j \in DOMAIN fields : kv \in Held(s[j])
      BY <1>1, <1>5, <1>7, <2>1
    <3>2. Held(<<>>) = {}
      BY DEF Held
    <3> QED BY <1>3, <1>6, <3>1, <3>2
  <2>2. ASSUME NEW kv \in T PROVE kv \in Held(FlattenSeq(s))
    <3>1. PICK j \in DOMAIN fields : fields[j].tag = "resource" /\ kv \in Held(fields[j].is)
      BY <1>4
    <3> QED BY <1>1, <1>5, <1>6, <1>7, <3>1
  <2> QED BY <2>1, <2>2
<1>9. \A kv \in T : kv = [key |-> kv.key, value |-> kv.value]
  BY <1>3, <1>4
<1>10. KeyValues(FlattenSeq(s))
  <2> DEFINE r == FlattenSeq(s)
  <2>1. r \in Seq(T)
    BY <1>7
  <2> HIDE DEF r
  <2>2. Len(r) \in Nat /\ r = [i \in 1..Len(r) |-> r[i]] /\ DOMAIN r = 1..Len(r)
    BY <2>1
  <2>3. \A i \in DOMAIN r : r[i] \in T
    BY <2>1
  <2>4. KeyValues(r)
    BY <1>9, <2>2, <2>3 DEF KeyValues, IsSeq
  <2> QED BY <2>4 DEF r
<1> QED BY <1>2, <1>8, <1>10 DEF T

\* An event has the attributes that its record was sent with.
LEMMA AttributesSent ==
    ASSUME NEW x \in Exports, NEW p \in Records(x)
    PROVE  LET attrs == EventAt(x, p).attrs IN
           /\ DOMAIN attrs = {kv.key : kv \in SentWith(x, p)}
           /\ \A k \in DOMAIN attrs : [key |-> k, value |-> attrs[k]] \in SentWith(x, p)
<1> DEFINE rec == RecordAt(x, p)
<1> DEFINE group == x.frames[p[1]][p[2]]
<1> DEFINE own == Attributes(rec.attrs)
<1> DEFINE resource == Attributes(ResourceOf(group, p[3]))
<1> DEFINE attrs == [k \in DOMAIN own \cup DOMAIN resource |->
                       IF k \in DOMAIN own THEN own[k] ELSE resource[k]]
<1>1. EventAt(x, p).attrs = attrs
  BY DEF EventAt, FinishEvent
<1>2. KeyValues(rec.attrs) /\ LogsShape(group)
  <2>1. PICK i, j, k, l : IsRecord(x, i, j, k, l) /\ p = <<i, j, k, l>>
    BY RecordsAre
  <2>2. KeyValues(rec.attrs)
    BY <2>1, RecordShape DEF RecordAt
  <2>3. LogsShape(group)
    BY <2>1, RequestShape DEF IsRecord
  <2> QED BY <2>2, <2>3
<1>3. ToSet(rec.attrs) = Held(rec.attrs)
  <2>1. DOMAIN rec.attrs = 1..Len(rec.attrs)
    BY <1>2, SeqIs DEF KeyValues
  <2> QED BY <2>1 DEF Held, ToSet
<1>4. SentWith(x, p) = {kv \in Held(rec.attrs) \cup {kv \in Theirs(group) : \A o \in Held(rec.attrs) : o.key # kv.key} :
                          kv.key # Unset}
  BY <1>3 DEF SentWith, Theirs
<1>5. /\ DOMAIN own = {kv.key : kv \in Held(rec.attrs)} \ {Unset}
      /\ \A k \in DOMAIN own : [key |-> k, value |-> own[k]] \in Held(rec.attrs)
  BY <1>2, AttributesAre
<1>6. /\ DOMAIN resource = {kv.key : kv \in Theirs(group)} \ {Unset}
      /\ \A k \in DOMAIN resource : [key |-> k, value |-> resource[k]] \in Theirs(group)
  <2> DEFINE r == ResourceOf(group, p[3])
  <2>1. KeyValues(r) /\ Held(r) = Theirs(group)
    BY <1>2, ResourceHolds
  <2> HIDE DEF r
  <2>2. /\ DOMAIN Attributes(r) = {kv.key : kv \in Held(r)} \ {Unset}
        /\ \A k \in DOMAIN Attributes(r) : [key |-> k, value |-> Attributes(r)[k]] \in Held(r)
    BY <2>1, AttributesAre
  <2> QED BY <2>1, <2>2 DEF r
<1>7. /\ DOMAIN attrs = DOMAIN own \cup DOMAIN resource
      /\ \A k \in DOMAIN attrs : attrs[k] = IF k \in DOMAIN own THEN own[k] ELSE resource[k]
  <2> HIDE DEF own, resource
  <2> QED BY DEF attrs
<1> HIDE DEF rec, group, own, resource, attrs
<1>8. DOMAIN attrs = {kv.key : kv \in SentWith(x, p)}
  <2>1. ASSUME NEW k \in DOMAIN attrs PROVE k \in {kv.key : kv \in SentWith(x, p)}
    <3>1. CASE k \in DOMAIN own
      BY <1>4, <1>5, <3>1
    <3>2. CASE k \notin DOMAIN own
      <4>1. PICK kv \in Theirs(group) : kv.key = k /\ k # Unset
        BY <1>6, <1>7, <2>1, <3>2
      <4>2. \A o \in Held(rec.attrs) : o.key # kv.key
        BY <1>5, <3>2, <4>1
      <4> QED BY <1>4, <4>1, <4>2
    <3> QED BY <3>1, <3>2
  <2>2. ASSUME NEW kv \in SentWith(x, p) PROVE kv.key \in DOMAIN attrs
    BY <1>4, <1>5, <1>6, <1>7, <2>2
  <2> QED BY <2>1, <2>2
<1>9. ASSUME NEW k \in DOMAIN attrs PROVE [key |-> k, value |-> attrs[k]] \in SentWith(x, p)
  <2> DEFINE kv == [key |-> k, value |-> attrs[k]]
  <2>1. kv.key = k
    OBVIOUS
  <2>2. CASE k \in DOMAIN own
    <3>1. kv \in Held(rec.attrs) /\ k # Unset
      BY <1>5, <1>7, <1>9, <2>2
    <3> HIDE DEF kv
    <3>2. kv \in SentWith(x, p)
      BY <1>4, <2>1, <3>1
    <3> QED BY <3>2 DEF kv
  <2>3. CASE k \notin DOMAIN own
    <3>1. kv \in Theirs(group) /\ k # Unset
      BY <1>6, <1>7, <1>9, <2>3
    <3>2. \A o \in Held(rec.attrs) : o.key # k
      BY <1>5, <2>3, <3>1
    <3> HIDE DEF kv
    <3>3. kv \in SentWith(x, p)
      BY <1>4, <2>1, <3>1, <3>2
    <3> QED BY <3>3 DEF kv
  <2> QED BY <2>2, <2>3
<1> QED BY <1>1, <1>8, <1>9

-----------------------------------------------------------------------------
(* The request on its way.                                                 *)

\* Of the first n frames k are decoded: what was read of the others, fs, is each of
\* them, the beginning of one, or nothing that decodes; and the records of the k
\* frames have landed, were refused or are yet to be offered.
Progress(x, fs, off, land, ref, k, n) ==
    /\ k \in Nat /\ n \in Nat /\ k <= n /\ n <= Len(x.frames)
    /\ \E B : fs \in Seq(B)
    /\ Len(fs) = n - k
    /\ \A i \in 1..(n - k) : \/ fs[i] = <<Garbage>>
                             \/ \E m \in 0..Len(x.frames[k + i]) : fs[i] = SubSeq(x.frames[k + i], 1, m)
    /\ Ids(land) \subseteq UpToIds(x, k) /\ Ids(off) \subseteq UpToIds(x, k)
    /\ WithinLimits(x) => /\ n = Len(x.frames)
                          /\ \A i \in 1..(n - k) : fs[i] = x.frames[k + i]
                          /\ Len(land) + Len(off) + ref = Cardinality(UpToIds(x, k))

\* Events wait and land in the order in which they were sent.
InSendingOrder(x, off, land) ==
    /\ land \in Seq(EventsOf(x)) /\ off \in Seq(EventsOf(x))
    /\ Ascending(land) /\ Ascending(off)
    /\ AllLess(Ids(land), Ids(off))

\* What an answer says of what landed.
Right(x, land, ans) ==
    /\ ans.status \in {"ok", "invalid", "too large", "unauthenticated"}
    /\ ans.status = "ok" /\ WithinLimits(x) => Len(land) + ans.rejected = Cardinality(Records(x))
    /\ ans.status # "ok" /\ land # <<>> => x.via = "grpc" /\ Len(x.frames) > 1

OtlpInv ==
    /\ export \in Exports /\ refused \in Nat
    /\ InSendingOrder(export, offered, landed)
    /\ handling \in {"receiving", "reading", "offering", "answered"}
    /\ handling = "receiving" => landed = <<>> /\ answer = NoAnswer
    /\ handling = "reading" => /\ frames = export.frames /\ answer = NoAnswer
                               /\ offered = <<>> /\ landed = <<>> /\ refused = 0
    /\ handling = "offering" => /\ answer = NoAnswer
                                /\ \E k, n : Progress(export, frames, offered, landed, refused, k, n)
    /\ handling = "answered" => Right(export, landed, answer)

-----------------------------------------------------------------------------
\* The events that wait, less the first; and those that landed, with one more.
LEMMA TailAscends ==
    ASSUME NEW T, NEW s \in Seq(T), s # <<>>, Ascending(s)
    PROVE  /\ Ascending(Tail(s))
           /\ Ids(Tail(s)) \subseteq Ids(s)
           /\ Head(s).id \in Ids(s)
           /\ \A a \in Ids(Tail(s)) : Head(s).id < a
<1> DEFINE t == Tail(s)
<1>1. /\ Head(s) = s[1] /\ Len(s) \in Nat /\ Len(s) # 0 /\ Len(t) = Len(s) - 1
      /\ \A i \in 1..(Len(s) - 1) : t[i] = s[i + 1]
  BY TailFacts
<1> HIDE DEF t
<1>2. \A i \in 1..Len(t) : i + 1 \in 1..Len(s) /\ t[i] = s[i + 1] /\ 1 \in 1..Len(s) /\ 1 < i + 1
  BY <1>1
<1>3. Ascending(t)
  <2>1. ASSUME NEW i \in 1..Len(t), NEW j \in 1..Len(t), i < j PROVE t[i].id < t[j].id
    <3>1. i + 1 < j + 1
      BY <1>1, <2>1
    <3> QED BY <1>2, <3>1 DEF Ascending
  <2> QED BY <2>1 DEF Ascending
<1>4. Ids(t) \subseteq Ids(s)
  BY <1>2 DEF Ids
<1>5. Head(s).id \in Ids(s)
  BY <1>1 DEF Ids
<1>6. \A a \in Ids(t) : Head(s).id < a
  BY <1>1, <1>2 DEF Ids, Ascending
<1> QED BY <1>3, <1>4, <1>5, <1>6 DEF t

LEMMA AppendAscends ==
    ASSUME NEW T, NEW s \in Seq(T), NEW e \in T, Ascending(s), \A a \in Ids(s) : a < e.id
    PROVE  /\ Append(s, e) \in Seq(T) /\ Len(Append(s, e)) = Len(s) + 1
           /\ Ascending(Append(s, e))
           /\ Ids(Append(s, e)) = Ids(s) \cup {e.id}
<1> DEFINE t == Append(s, e)
<1>1. /\ t \in Seq(T) /\ Len(s) \in Nat /\ Len(t) = Len(s) + 1 /\ t[Len(s) + 1] = e
      /\ \A i \in 1..Len(s) : t[i] = s[i]
  OBVIOUS
<1> HIDE DEF t
<1>2. \A i \in 1..Len(t) : i \in 1..Len(s) \/ i = Len(s) + 1
  BY <1>1
<1>3. Ids(t) = Ids(s) \cup {e.id}
  <2>1. ASSUME NEW i \in 1..Len(t) PROVE t[i].id \in Ids(s) \cup {e.id}
    BY <1>1, <1>2 DEF Ids
  <2>2. ASSUME NEW i \in 1..Len(s) PROVE s[i].id \in Ids(t)
    <3>1. i \in 1..Len(t) /\ t[i] = s[i]
      BY <1>1
    <3> QED BY <3>1 DEF Ids
  <2>3. e.id \in Ids(t)
    <3>1. Len(s) + 1 \in 1..Len(t) /\ t[Len(s) + 1] = e
      BY <1>1
    <3> QED BY <3>1 DEF Ids
  <2> QED BY <2>1, <2>2, <2>3 DEF Ids
<1>4. ASSUME NEW i \in 1..Len(t), NEW j \in 1..Len(t), i < j PROVE t[i].id < t[j].id
  <2>1. i \in 1..Len(s) /\ t[i] = s[i]
    BY <1>1, <1>4
  <2>2. CASE j \in 1..Len(s)
    BY <1>1, <1>4, <2>1, <2>2 DEF Ascending
  <2>3. CASE j = Len(s) + 1
    <3>1. t[j] = e /\ s[i].id \in Ids(s)
      BY <1>1, <2>1, <2>3 DEF Ids
    <3> QED BY <2>1, <3>1
  <2> QED BY <1>2, <2>2, <2>3
<1>5. Ascending(t)
  BY <1>4 DEF Ascending
<1> QED BY <1>1, <1>3, <1>5 DEF t

\* As many numbers as the last one.
LEMMA UpToFinite ==
    ASSUME NEW n \in Nat
    PROVE  IsFiniteSet(1..n) /\ Cardinality(1..n) = n
BY FS_Interval

-----------------------------------------------------------------------------
\* Nothing has been sent.
LEMMA OtlpInitInv == OtlpInit => OtlpInv
BY DEF OtlpInit, OtlpInv, InSendingOrder, Ascending, Ids, AllLess

\* A request comes.
LEMMA ArrivesStep ==
    ASSUME OtlpInv, NEW x \in Exports, Arrives(x)
    PROVE  OtlpInv'
BY DEF Arrives, OtlpInv, InSendingOrder, Ascending, Ids, AllLess

\* It is read: within the limits whole, beyond them in part.
LEMMA OtlpReadStep ==
    ASSUME OtlpInv, ReadRequest
    PROVE  OtlpInv'
<1> DEFINE x == export
<1>1. /\ handling = "reading" /\ UNCHANGED <<export, offered, landed, refused>>
      /\ x \in Exports /\ frames = x.frames /\ answer = NoAnswer
      /\ offered = <<>> /\ landed = <<>> /\ refused = 0
  BY DEF ReadRequest, OtlpInv
<1>2. InSendingOrder(export, offered, landed)' /\ export' \in Exports /\ refused' \in Nat
  BY <1>1 DEF OtlpInv
<1>3. /\ frames \in Seq(Held(frames)) /\ DOMAIN frames = 1..Len(frames) /\ Len(frames) \in Nat
  BY <1>1, RequestShape, SeqIs
<1>4. ASSUME NEW i \in 1..Len(frames)
      PROVE  /\ Len(frames[i]) \in Nat
             /\ frames[i] = SubSeq(x.frames[i], 1, Len(x.frames[i]))
  <2>1. IsSeq(x.frames[i])
    BY <1>1, <1>3, RequestShape
  <2>2. x.frames[i] \in Seq(Held(x.frames[i])) /\ Len(x.frames[i]) \in Nat
    BY <2>1, SeqIs
  <2> QED BY <1>1, <2>2
<1>5. UpToIds(x, 0) = {} /\ Ids(<<>>) = {} /\ Cardinality({}) = 0
  BY <1>1, UpToIdsGrow, FS_EmptySet DEF Ids
<1>6. ASSUME NEW status \in {"invalid", "too large", "unauthenticated"}, Answered(status)
      PROVE  OtlpInv'
  <2>1. handling' = "answered" /\ answer'.status = status /\ status # "ok"
    BY <1>6 DEF Answered
  <2>2. Right(export, landed, answer)'
    BY <1>1, <2>1 DEF Right
  <2> QED BY <1>2, <2>1, <2>2 DEF OtlpInv
<1>7. ASSUME handling' = "offering", answer' = answer,
             NEW n, Progress(export, frames', offered, landed, refused, 0, n)
      PROVE  OtlpInv'
  <2>1. Progress(export', frames', offered', landed', refused', 0, n)
    BY <1>1, <1>7
  <2>2. answer' = NoAnswer
    BY <1>1, <1>7
  <2>3. (\E k, n1 : Progress(export, frames, offered, landed, refused, k, n1))'
    BY <2>1
  <2> QED BY <1>2, <1>7, <2>2, <2>3 DEF OtlpInv
<1>8. CASE ~export.authorized
  BY <1>6, <1>8 DEF ReadRequest
<1>9. CASE export.authorized /\ export.via = "grpc"
  <2>1. ReadFrames
    BY <1>9 DEF ReadRequest
  <2> DEFINE bad == TooLarge(export) \cup Truncated(export)
  <2>2. CASE bad # {}
    <3>1. \E status \in {"invalid", "too large", "unauthenticated"} : Answered(status)
      BY <2>1, <2>2 DEF ReadFrames
    <3> QED BY <1>6, <3>1
  <2>3. CASE bad = {}
    <3> DEFINE n == Cardinality(Seen(x))
    <3>1. frames' = SubSeq(frames, 1, n) /\ handling' = "offering" /\ answer' = answer
      BY <2>1, <2>3 DEF ReadFrames
    <3>2. Seen(x) \subseteq 1..Len(frames)
      BY <1>1, <1>3 DEF Seen
    <3>3. IsFiniteSet(1..Len(frames)) /\ Cardinality(1..Len(frames)) = Len(frames)
      BY <1>3, UpToFinite
    <3>4. n \in Nat /\ n <= Len(frames)
      BY <3>2, <3>3, FS_Subset, FS_CardinalityType
    <3>5. WithinLimits(x) => n = Len(frames)
      BY <1>1, <1>3, <1>9, <3>3 DEF WithinLimits
    <3> HIDE DEF n
    <3>6. /\ frames' \in Seq(Held(frames)) /\ Len(frames') = n
          /\ \A i \in 1..n : frames'[i] = frames[i]
      BY <1>3, <3>1, <3>4
    <3>7. ASSUME NEW i \in 1..n
          PROVE  /\ frames'[i] = x.frames[0 + i]
                 /\ \E m \in 0..Len(x.frames[0 + i]) : frames'[i] = SubSeq(x.frames[0 + i], 1, m)
      <4>1. 0 + i = i /\ i \in 1..Len(frames)
        BY <1>3, <3>4
      <4>2. frames'[i] = SubSeq(x.frames[i], 1, Len(x.frames[i])) /\ Len(x.frames[i]) \in 0..Len(x.frames[i])
        BY <1>1, <1>4, <3>6, <4>1
      <4> QED BY <1>1, <3>6, <4>1, <4>2
    <3>8. n - 0 = n
      BY <3>4
    <3>9. Progress(export, frames', offered, landed, refused, 0, n)
      <4>1. /\ 0 \in Nat /\ n \in Nat /\ 0 <= n /\ n <= Len(export.frames)
            /\ (\E B : frames' \in Seq(B)) /\ Len(frames') = n - 0
        BY <1>1, <3>4, <3>6, <3>8
      <4>2. \A i \in 1..(n - 0) : \E m \in 0..Len(export.frames[0 + i]) :
               frames'[i] = SubSeq(export.frames[0 + i], 1, m)
        BY <3>7, <3>8
      <4>3. \A i \in 1..(n - 0) : frames'[i] = export.frames[0 + i]
        BY <3>7, <3>8
      <4>4. Ids(landed) \subseteq UpToIds(export, 0) /\ Ids(offered) \subseteq UpToIds(export, 0)
        BY <1>1, <1>5
      <4>5. Len(landed) + Len(offered) + refused = Cardinality(UpToIds(export, 0))
        <5>1. Len(landed) = 0 /\ Len(offered) = 0 /\ refused = 0
          BY <1>1
        <5>2. Cardinality(UpToIds(export, 0)) = 0
          BY <1>5
        <5> QED BY <5>1, <5>2
      <4>6. WithinLimits(export) => n = Len(export.frames)
        BY <1>1, <3>5
      <4> QED BY <4>1, <4>2, <4>3, <4>4, <4>5, <4>6 DEF Progress
    <3> QED BY <1>7, <3>1, <3>9
  <2> QED BY <2>2, <2>3
<1>10. CASE export.authorized /\ export.via = "http"
  <2>1. ReadBody /\ Len(x.frames) = 1
    BY <1>1, <1>10, RequestShape DEF ReadRequest
  <2>2. 1 \in 1..Len(frames) /\ Len(frames[1]) \in Nat /\ MaxBody \in Nat /\ frames = <<frames[1]>>
    <3>1. 1 \in 1..Len(frames)
      BY <1>1, <2>1
    <3> QED BY <1>1, <1>3, <1>4, <2>1, <3>1, OtlpAssumption
  <2>3. ASSUME NEW f, frames' = <<f>>, handling' = "offering", answer' = answer,
               \/ f = <<Garbage>>
               \/ \E m \in 0..Len(x.frames[1]) : f = SubSeq(x.frames[1], 1, m),
               WithinLimits(x) => f = x.frames[1]
        PROVE  OtlpInv'
    <3> DEFINE fs == <<f>>
    <3>1. fs \in Seq({f}) /\ Len(fs) = 1 /\ fs[1] = f
      OBVIOUS
    <3>2. 0 \in Nat /\ 1 \in Nat /\ 0 <= 1 /\ 1 - 0 = 1 /\ 1 <= Len(x.frames) /\ 1 = Len(x.frames)
      BY <2>1
    <3> HIDE DEF fs
    <3>3. ASSUME NEW i \in 1..(1 - 0)
          PROVE  /\ \/ fs[i] = <<Garbage>>
                    \/ \E m \in 0..Len(x.frames[0 + i]) : fs[i] = SubSeq(x.frames[0 + i], 1, m)
                 /\ WithinLimits(x) => fs[i] = x.frames[0 + i]
      <4>1. i = 1 /\ 0 + i = 1
        OBVIOUS
      <4> QED BY <2>3, <3>1, <4>1
    <3>4. Progress(export, fs, offered, landed, refused, 0, 1)
      <4>1. \E B : fs \in Seq(B)
        BY <3>1
      <4>2. Len(fs) = 1 - 0
        BY <3>1
      <4>3. Ids(landed) \subseteq UpToIds(x, 0) /\ Ids(offered) \subseteq UpToIds(x, 0)
        BY <1>1, <1>5
      <4>4. Len(landed) + Len(offered) + refused = Cardinality(UpToIds(x, 0))
        <5>1. Len(landed) = 0 /\ Len(offered) = 0 /\ refused = 0
          BY <1>1
        <5>2. Cardinality(UpToIds(x, 0)) = 0
          BY <1>5
        <5> QED BY <5>1, <5>2
      <4>5. \A i \in 1..(1 - 0) : \/ fs[i] = <<Garbage>>
                                 \/ \E m \in 0..Len(x.frames[0 + i]) : fs[i] = SubSeq(x.frames[0 + i], 1, m)
        BY <3>3
      <4>6. WithinLimits(x) => \A i \in 1..(1 - 0) : fs[i] = x.frames[0 + i]
        BY <3>3
      <4> QED BY <3>2, <4>1, <4>2, <4>3, <4>4, <4>5, <4>6 DEF Progress
    <3>5. Progress(export, frames', offered, landed, refused, 0, 1)
      BY <2>3, <3>4 DEF fs
    <3> QED BY <1>7, <2>3, <3>5
  <2>4. CASE Len(frames[1]) <= MaxBody
    <3>1. handling' = "offering" /\ frames' = <<frames[1]>> /\ answer' = answer
      BY <2>1, <2>2, <2>4 DEF ReadBody
    <3>2. \E m \in 0..Len(x.frames[1]) : frames[1] = SubSeq(x.frames[1], 1, m)
      BY <1>1, <1>4, <2>2
    <3> QED BY <1>1, <2>3, <3>1, <3>2
  <2>5. CASE ~(Len(frames[1]) <= MaxBody) /\ export.gzip
    <3>1. /\ handling' = "offering" /\ answer' = answer
          /\ frames' = <<SubSeq(frames[1], 1, MaxBody)>> \/ frames' = <<<<Garbage>>>>
      BY <2>1, <2>5 DEF ReadBody
    <3>2. ~WithinLimits(x)
      BY <1>1, <1>10, <2>5 DEF WithinLimits
    <3>3. MaxBody \in 0..Len(x.frames[1])
      BY <1>1, <2>2, <2>5
    <3>4. CASE frames' = <<SubSeq(frames[1], 1, MaxBody)>>
      BY <1>1, <2>3, <3>1, <3>2, <3>3, <3>4
    <3>5. CASE frames' = <<<<Garbage>>>>
      BY <2>3, <3>1, <3>2, <3>5
    <3> QED BY <3>1, <3>4, <3>5
  <2>6. CASE ~(Len(frames[1]) <= MaxBody) /\ ~export.gzip
    <3>1. Answered("too large")
      BY <2>1, <2>6 DEF ReadBody
    <3> QED BY <1>6, <3>1
  <2> QED BY <2>4, <2>5, <2>6
<1> QED BY <1>1, <1>8, <1>9, <1>10, RequestShape

\* A frame is decoded, or does not decode.
LEMMA DecodeStep ==
    ASSUME OtlpInv, DecodeFrame
    PROVE  OtlpInv'
<1> DEFINE x == export
<1>1. /\ handling = "offering" /\ offered = <<>> /\ frames # <<>> /\ frames' = Tail(frames)
      /\ UNCHANGED <<export, landed, refused>>
      /\ x \in Exports /\ refused \in Nat /\ answer = NoAnswer
      /\ InSendingOrder(x, offered, landed)
  BY DEF DecodeFrame, OtlpInv
<1>2. PICK k, n : Progress(x, frames, offered, landed, refused, k, n)
  BY <1>1 DEF OtlpInv
<1>3. PICK B : frames \in Seq(B)
  BY <1>2 DEF Progress
<1>4. /\ k \in Nat /\ n \in Nat /\ k <= n /\ n <= Len(x.frames) /\ Len(frames) = n - k
      /\ Ids(landed) \subseteq UpToIds(x, k)
  BY <1>2 DEF Progress
<1>5. /\ Tail(frames) \in Seq(B) /\ Head(frames) = frames[1] /\ Len(frames) # 0
      /\ Len(Tail(frames)) = (n - k) - 1
      /\ \A i \in 1..((n - k) - 1) : Tail(frames)[i] = frames[i + 1]
  BY <1>1, <1>3, <1>4, TailFacts
<1>6. k + 1 <= n /\ 1 \in 1..(n - k) /\ k + 1 \in Nat /\ (n - k) - 1 = n - (k + 1)
  BY <1>4, <1>5
<1>7. DOMAIN x.frames = 1..Len(x.frames) /\ Len(x.frames) \in Nat
  BY <1>1, RequestShape, SeqIs
<1>8. k + 1 \in DOMAIN x.frames
  BY <1>4, <1>6, <1>7
<1>9. \/ frames[1] = <<Garbage>>
      \/ \E m \in 0..Len(x.frames[k + 1]) : frames[1] = SubSeq(x.frames[k + 1], 1, m)
  BY <1>2, <1>6 DEF Progress
<1>10. CASE ~Decodes(Head(frames))
  <2>1. handling' = "answered" /\ answer'.status = "invalid" /\ offered' = offered
    BY <1>10 DEF DecodeFrame, Answered
  <2>2. ASSUME landed # <<>> PROVE x.via = "grpc" /\ Len(x.frames) > 1
    <3>1. Ids(landed) # {}
      <4>1. landed \in Seq(EventsOf(x))
        BY <1>1 DEF InSendingOrder
      <4>2. Len(landed) \in Nat /\ Len(landed) # 0
        BY <2>2, <4>1
      <4>3. 1 \in 1..Len(landed)
        BY <4>2
      <4>4. landed[1].id \in Ids(landed)
        BY <4>3 DEF Ids
      <4> QED BY <4>4
    <3>2. k # 0
      BY <1>1, <1>4, <3>1, UpToIdsGrow
    <3>3. Len(x.frames) > 1
      BY <1>4, <1>6, <1>7, <3>2
    <3>4. Len(x.frames) # 1
      <4>1. ~(1 > 1)
        OBVIOUS
      <4> QED BY <3>3, <4>1
    <3> QED BY <1>1, <3>3, <3>4, RequestShape
  <2>3. Right(export, landed, answer)'
    BY <1>1, <2>1, <2>2 DEF Right
  <2> QED BY <1>1, <2>1, <2>3 DEF OtlpInv
<1>11. CASE Decodes(Head(frames))
  <2>1. offered' = Decode(frames[1]) /\ handling' = "offering" /\ answer' = answer
    BY <1>5, <1>11 DEF DecodeFrame
  <2>2. frames[1] # <<Garbage>>
    <3>1. ~Decodes(<<Garbage>>)
      BY DEF Decodes, Garbage
    <3> QED BY <1>5, <1>11, <3>1
  <2>3. PICK m \in 0..Len(x.frames[k + 1]) : frames[1] = SubSeq(x.frames[k + 1], 1, m)
    BY <1>9, <2>2
  <2>4. offered' \in Seq(EventsOf(x)) /\ Tells(offered', PrefixIds(x, k + 1, m))
    BY <1>1, <1>8, <2>1, <2>3, PrefixTells
  <2>5. /\ UpToIds(x, k + 1) = UpToIds(x, k) \cup FrameIds(x, k + 1)
        /\ AllLess(UpToIds(x, k), FrameIds(x, k + 1))
    BY <1>1, <1>4, UpToIdsGrow
  <2>6. PrefixIds(x, k + 1, m) \subseteq FrameIds(x, k + 1)
    BY DEF PrefixIds, FrameIds
  <2>7. Ascending(offered') /\ Ids(offered') \subseteq FrameIds(x, k + 1)
    BY <2>4, <2>6 DEF Tells
  <2>8. InSendingOrder(x, offered', landed)
    BY <1>1, <1>4, <2>4, <2>5, <2>7 DEF InSendingOrder, AllLess
  <2>9. ASSUME NEW i \in 1..(n - (k + 1))
        PROVE  /\ Tail(frames)[i] = frames[i + 1] /\ i + 1 \in 1..(n - k)
               /\ k + (i + 1) = (k + 1) + i
    <3>1. i \in 1..((n - k) - 1)
      BY <1>6
    <3>2. Tail(frames)[i] = frames[i + 1]
      BY <1>5, <3>1
    <3>3. i + 1 \in 1..(n - k) /\ k + (i + 1) = (k + 1) + i
      BY <1>4
    <3> QED BY <3>2, <3>3
  <2>10. ASSUME NEW i \in 1..(n - (k + 1))
         PROVE  \/ Tail(frames)[i] = <<Garbage>>
                \/ \E l \in 0..Len(x.frames[(k + 1) + i]) :
                     Tail(frames)[i] = SubSeq(x.frames[(k + 1) + i], 1, l)
    <3>1. \/ frames[i + 1] = <<Garbage>>
          \/ \E l \in 0..Len(x.frames[k + (i + 1)]) : frames[i + 1] = SubSeq(x.frames[k + (i + 1)], 1, l)
      BY <1>2, <2>9 DEF Progress
    <3> QED BY <2>9, <3>1
  <2>11. ASSUME WithinLimits(x)
         PROVE  /\ n = Len(x.frames)
                /\ \A i \in 1..(n - (k + 1)) : Tail(frames)[i] = x.frames[(k + 1) + i]
                /\ Len(landed) + Len(offered') + refused = Cardinality(UpToIds(x, k + 1))
    <3>1. /\ n = Len(x.frames)
          /\ \A i \in 1..(n - k) : frames[i] = x.frames[k + i]
          /\ Len(landed) + Len(offered) + refused = Cardinality(UpToIds(x, k))
      BY <1>2, <2>11 DEF Progress
    <3>2. \A i \in 1..(n - (k + 1)) : Tail(frames)[i] = x.frames[(k + 1) + i]
      BY <2>9, <3>1
    <3>3. frames[1] = x.frames[k + 1]
      BY <1>6, <3>1
    <3>4. Tells(offered', FrameIds(x, k + 1))
      BY <1>1, <1>8, <2>1, <3>3, FrameTells
    <3>5. IsFiniteSet(FrameIds(x, k + 1)) /\ Cardinality(FrameIds(x, k + 1)) = Len(offered')
      BY <1>1, <2>4, <3>4, EventsNumbered, TellsCounts
    <3>6. IsFiniteSet(UpToIds(x, k))
      <4>1. IsFiniteSet(UpToIds(x, Len(x.frames)))
        BY <1>1, RecordsCounted
      <4>2. \A p \in Records(x) : p[1] <= k => p[1] <= Len(x.frames)
        <5> SUFFICES ASSUME NEW p \in Records(x), p[1] <= k PROVE p[1] <= Len(x.frames)
          OBVIOUS
        <5>1. PICK i, j, q, l : IsRecord(x, i, j, q, l) /\ p = <<i, j, q, l>>
          BY RecordsAre
        <5> QED BY <1>7, <5>1 DEF IsRecord
      <4>3. UpToIds(x, k) \subseteq UpToIds(x, Len(x.frames))
        BY <4>2 DEF UpToIds
      <4> QED BY <4>1, <4>3, FS_Subset
    <3>7. UpToIds(x, k) \cap FrameIds(x, k + 1) = {}
      <4>1. ASSUME NEW a \in UpToIds(x, k), a \in FrameIds(x, k + 1) PROVE FALSE
        <5>1. a < a
          BY <2>5, <4>1 DEF AllLess
        <5>2. a \in Nat
          BY <1>1, <4>1, EventsNumbered DEF FrameIds
        <5> QED BY <5>1, <5>2
      <4> QED BY <4>1
    <3>8. Cardinality(UpToIds(x, k + 1)) = Cardinality(UpToIds(x, k)) + Cardinality(FrameIds(x, k + 1))
      <4>1. Cardinality({}) = 0
        BY FS_EmptySet
      <4>2. Cardinality(UpToIds(x, k)) \in Nat /\ Cardinality(FrameIds(x, k + 1)) \in Nat
        BY <3>5, <3>6, FS_CardinalityType
      <4>3. Cardinality(UpToIds(x, k) \cup FrameIds(x, k + 1))
            = Cardinality(UpToIds(x, k)) + Cardinality(FrameIds(x, k + 1)) - 0
        BY <3>5, <3>6, <3>7, <4>1, FS_Union
      <4>4. \A a, b \in Nat : a + b - 0 = a + b
        OBVIOUS
      <4>5. Cardinality(UpToIds(x, k) \cup FrameIds(x, k + 1))
            = Cardinality(UpToIds(x, k)) + Cardinality(FrameIds(x, k + 1))
        BY <4>2, <4>3, <4>4
      <4> QED BY <2>5, <4>5
    <3>9. /\ Len(landed) \in Nat /\ Len(offered) = 0 /\ Len(offered') \in Nat
          /\ Cardinality(UpToIds(x, k)) \in Nat
      <4>1. landed \in Seq(EventsOf(x))
        BY <1>1 DEF InSendingOrder
      <4> QED BY <1>1, <2>4, <3>6, <4>1, FS_CardinalityType
    <3>10. Len(landed) + Len(offered') + refused = Cardinality(UpToIds(x, k + 1))
      BY <1>1, <3>1, <3>5, <3>8, <3>9
    <3> QED BY <3>1, <3>2, <3>10
  <2>12. Ids(landed) \subseteq UpToIds(x, k + 1) /\ Ids(offered') \subseteq UpToIds(x, k + 1)
    BY <1>4, <2>5, <2>7
  <2>13. Progress(x, Tail(frames), offered', landed, refused, k + 1, n)
    BY <1>4, <1>5, <1>6, <2>10, <2>11, <2>12 DEF Progress
  <2>14. Progress(export', frames', offered', landed', refused', k + 1, n)
    BY <1>1, <2>13
  <2>15. (\E k1, n1 : Progress(export, frames, offered, landed, refused, k1, n1))'
    BY <2>14
  <2>16. InSendingOrder(export, offered, landed)'
    BY <1>1, <2>8
  <2> QED BY <1>1, <2>1, <2>15, <2>16 DEF OtlpInv
<1> QED BY <1>10, <1>11

\* The sink takes a record, or refuses it.
LEMMA OfferStep ==
    ASSUME OtlpInv, OfferRecord
    PROVE  OtlpInv'
<1> DEFINE x == export
<1>1. /\ handling = "offering" /\ offered # <<>> /\ offered' = Tail(offered)
      /\ \/ landed' = Append(landed, Head(offered)) /\ refused' = refused
         \/ refused' = refused + 1 /\ landed' = landed
      /\ UNCHANGED <<export, handling, frames, answer>>
      /\ x \in Exports /\ refused \in Nat /\ answer = NoAnswer
      /\ landed \in Seq(EventsOf(x)) /\ offered \in Seq(EventsOf(x))
      /\ Ascending(landed) /\ Ascending(offered) /\ AllLess(Ids(landed), Ids(offered))
  BY DEF OfferRecord, OtlpInv, InSendingOrder
<1>2. PICK k, n : Progress(x, frames, offered, landed, refused, k, n)
  BY <1>1 DEF OtlpInv
<1> DEFINE e == Head(offered)
<1>3. /\ Tail(offered) \in Seq(EventsOf(x)) /\ e \in EventsOf(x)
      /\ Len(offered) \in Nat /\ Len(Tail(offered)) = Len(offered) - 1
  BY <1>1, TailFacts
<1>4. /\ Ascending(Tail(offered)) /\ Ids(Tail(offered)) \subseteq Ids(offered)
      /\ e.id \in Ids(offered) /\ \A a \in Ids(Tail(offered)) : e.id < a
  BY <1>1, TailAscends
<1>5. \A a \in Ids(landed) : a < e.id
  BY <1>1, <1>4 DEF AllLess
<1> HIDE DEF e
<1>6. /\ Append(landed, e) \in Seq(EventsOf(x)) /\ Len(Append(landed, e)) = Len(landed) + 1
      /\ Ascending(Append(landed, e)) /\ Ids(Append(landed, e)) = Ids(landed) \cup {e.id}
  BY <1>1, <1>3, <1>5, AppendAscends
<1>7. \/ landed' = Append(landed, e) /\ refused' = refused
      \/ refused' = refused + 1 /\ landed' = landed
  BY <1>1 DEF e
<1>8. InSendingOrder(x, Tail(offered), landed')
  <2>1. AllLess(Ids(landed), Ids(Tail(offered)))
    BY <1>1, <1>4 DEF AllLess
  <2>2. AllLess(Ids(landed) \cup {e.id}, Ids(Tail(offered)))
    BY <1>4, <2>1 DEF AllLess
  <2>3. CASE landed' = Append(landed, e)
    BY <1>3, <1>4, <1>6, <2>2, <2>3 DEF InSendingOrder
  <2>4. CASE landed' = landed
    BY <1>1, <1>3, <1>4, <2>1, <2>4 DEF InSendingOrder
  <2> QED BY <1>7, <2>3, <2>4
<1>9. /\ Ids(landed) \subseteq UpToIds(x, k) /\ Ids(offered) \subseteq UpToIds(x, k)
      /\ WithinLimits(x) => Len(landed) + Len(offered) + refused = Cardinality(UpToIds(x, k))
  BY <1>2 DEF Progress
<1>10. Ids(landed') \subseteq UpToIds(x, k) /\ Ids(Tail(offered)) \subseteq UpToIds(x, k)
  BY <1>4, <1>6, <1>7, <1>9
<1>11. Len(landed') + Len(Tail(offered)) + refused' = Len(landed) + Len(offered) + refused
  <2>1. Len(landed) \in Nat
    BY <1>1
  <2>2. CASE landed' = Append(landed, e) /\ refused' = refused
    <3>1. Len(landed') = Len(landed) + 1
      BY <1>6, <2>2
    <3> QED BY <1>1, <1>3, <2>1, <2>2, <3>1
  <2>3. CASE refused' = refused + 1 /\ landed' = landed
    BY <1>1, <1>3, <2>1, <2>3
  <2> QED BY <1>7, <2>2, <2>3
<1>12. Progress(x, frames, Tail(offered), landed', refused', k, n)
  BY <1>2, <1>9, <1>10, <1>11 DEF Progress
<1>13. Progress(export', frames', offered', landed', refused', k, n)
  BY <1>1, <1>12
<1>14. (\E k1, n1 : Progress(export, frames, offered, landed, refused, k1, n1))'
  BY <1>13
<1>15. InSendingOrder(export, offered, landed)'
  BY <1>1, <1>8
<1>16. refused' \in Nat
  BY <1>1, <1>7
<1> QED BY <1>1, <1>14, <1>15, <1>16 DEF OtlpInv

\* All is decoded and offered.
LEMMA ReplyStep ==
    ASSUME OtlpInv, Reply
    PROVE  OtlpInv'
<1> DEFINE x == export
<1>1. /\ handling = "offering" /\ offered = <<>> /\ frames = <<>>
      /\ UNCHANGED <<export, frames, offered, landed, refused>>
      /\ handling' = "answered" /\ answer'.status = "ok" /\ answer'.rejected = refused
      /\ x \in Exports /\ refused \in Nat /\ InSendingOrder(x, offered, landed)
  BY DEF Reply, Answered, OtlpInv
<1>2. PICK k, n : Progress(x, frames, offered, landed, refused, k, n)
  BY <1>1 DEF OtlpInv
<1>3. ASSUME WithinLimits(x) PROVE Len(landed) + refused = Cardinality(Records(x))
  <2>1. /\ k \in Nat /\ n \in Nat /\ Len(frames) = n - k /\ n = Len(x.frames)
        /\ Len(landed) + Len(offered) + refused = Cardinality(UpToIds(x, k))
    BY <1>2, <1>3 DEF Progress
  <2>2. k = Len(x.frames)
    BY <1>1, <2>1
  <2>3. Len(landed) \in Nat /\ Len(offered) = 0
    BY <1>1 DEF InSendingOrder
  <2>4. Cardinality(UpToIds(x, k)) = Cardinality(Records(x))
    BY <1>1, <2>2, RecordsCounted
  <2> QED BY <1>1, <2>1, <2>3, <2>4
<1>4. Right(export, landed, answer)'
  BY <1>1, <1>3 DEF Right
<1> QED BY <1>1, <1>4 DEF OtlpInv

LEMMA OtlpNextInv == OtlpInv /\ [OtlpNext]_otlpVars => OtlpInv'
<1> SUFFICES ASSUME OtlpInv, [OtlpNext]_otlpVars PROVE OtlpInv'
  OBVIOUS
<1>1. CASE UNCHANGED otlpVars
  BY <1>1 DEF otlpVars, OtlpInv
<1> QED BY <1>1, ArrivesStep, OtlpReadStep, DecodeStep, OfferStep, ReplyStep DEF OtlpNext

\* Every record that was decoded has landed, was refused or waits, in order.
THEOREM OtlpInvariance == OtlpSpec => []OtlpInv
<1> QED BY OtlpInitInv, OtlpNextInv, PTL DEF OtlpSpec

\* A request is one of those that may come, and has one answer.
THEOREM OtlpTyped == OtlpSpec => []OtlpTypeOK
<1>1. OtlpInv => OtlpTypeOK
  <2> SUFFICES ASSUME OtlpInv PROVE OtlpTypeOK
    OBVIOUS
  <2>1. NoAnswer.status = "none"
    BY DEF NoAnswer
  <2>2. handling # "answered" => answer = NoAnswer
    BY DEF OtlpInv
  <2>3. handling = "answered" => answer.status \in {"ok", "invalid", "too large", "unauthenticated"}
    BY DEF OtlpInv, Right
  <2>4. answer.status \in {"none", "ok", "invalid", "too large", "unauthenticated"}
    BY <2>1, <2>2, <2>3
  <2>5. export \in Exports /\ refused \in Nat /\ handling \in {"receiving", "reading", "offering", "answered"}
    BY DEF OtlpInv
  <2> QED BY <2>4, <2>5 DEF OtlpTypeOK
<1> QED BY <1>1, OtlpInvariance, PTL

\* The answer accounts for every record, and they land in order and with the
\* attributes they were sent with.
THEOREM ExportsCounted == OtlpSpec => []AnswerCounts
<1>1. OtlpInv => AnswerCounts
  <2> SUFFICES ASSUME OtlpInv PROVE AnswerCounts
    OBVIOUS
  <2> DEFINE x == export
  <2>1. /\ x \in Exports /\ landed \in Seq(EventsOf(x)) /\ Ascending(landed)
        /\ handling \in {"receiving", "reading", "offering", "answered"}
        /\ handling # "answered" => answer.status = "none"
        /\ handling = "answered" => Right(x, landed, answer)
    BY DEF OtlpInv, InSendingOrder, NoAnswer
  <2>2. answer.status = "ok" /\ WithinLimits(x) => Len(landed) + answer.rejected = Cardinality(Records(x))
    BY <2>1 DEF Right
  <2>3. answer.status \in {"invalid", "too large", "unauthenticated"} /\ landed # <<>> =>
          x.via = "grpc" /\ Len(x.frames) > 1
    BY <2>1 DEF Right
  <2>4. DOMAIN landed = 1..Len(landed)
    BY <2>1
  <2>5. \A i, j \in DOMAIN landed : i < j => landed[i].id < landed[j].id
    BY <2>1, <2>4 DEF Ascending
  <2>6. ASSUME NEW i \in DOMAIN landed
        PROVE  \E p \in Records(x) :
                 /\ RecordAt(x, p).id = landed[i].id
                 /\ DOMAIN landed[i].attrs = {kv.key : kv \in SentWith(x, p)}
                 /\ \A k \in DOMAIN landed[i].attrs :
                      [key |-> k, value |-> landed[i].attrs[k]] \in SentWith(x, p)
    <3>1. landed[i] \in EventsOf(x)
      BY <2>1
    <3>2. PICK p \in Records(x) : landed[i] = EventAt(x, p)
      BY <3>1 DEF EventsOf
    <3>3. RecordAt(x, p).id = landed[i].id
      BY <2>1, <3>2, EventsNumbered
    <3>4. /\ DOMAIN EventAt(x, p).attrs = {kv.key : kv \in SentWith(x, p)}
          /\ \A k \in DOMAIN EventAt(x, p).attrs :
               [key |-> k, value |-> EventAt(x, p).attrs[k]] \in SentWith(x, p)
      BY <2>1, AttributesSent
    <3> QED BY <3>2, <3>3, <3>4
  <2> QED BY <2>2, <2>3, <2>5, <2>6 DEF AnswerCounts
<1> QED BY <1>1, OtlpInvariance, PTL

-----------------------------------------------------------------------------
(* The syslog listener: frames.                                            *)

\* The tokens of a text.
Symbols == STRING \cup {SP, LF}

LEMMA TokensAre ==
    /\ SP \in Symbols /\ LF \in Symbols
    /\ \A x \in STRING : x \in Symbols
BY DEF Symbols

LEMMA TextsAre ==
    ASSUME NEW m \in Messages
    PROVE  MessageText(m) \in Seq(Symbols) /\ Len(MessageText(m)) \in DOMAIN Numerals
<1>1. MessageText(m) \in Seq(STRING) /\ Len(MessageText(m)) \in DOMAIN Numerals
  BY SyslogAssumption
<1>2. ASSUME NEW s \in Seq(STRING) PROVE s \in Seq(Symbols)
  <2>1. Len(s) \in Nat /\ s \in [1..Len(s) -> STRING]
    OBVIOUS
  <2>2. s \in [1..Len(s) -> Symbols]
    BY <2>1, TokensAre
  <2> QED BY <2>1, <2>2
<1> QED BY <1>1, <1>2

\* Two texts, one after the other.
LEMMA TextConcat ==
    ASSUME NEW a \in Seq(Symbols), NEW b \in Seq(Symbols)
    PROVE  /\ a \o b \in Seq(Symbols) /\ Len(a \o b) = Len(a) + Len(b)
           /\ \A i \in 1..Len(a) : (a \o b)[i] = a[i]
           /\ \A i \in 1..Len(b) : (a \o b)[Len(a) + i] = b[i]
OBVIOUS

LEMMA TextAndOne ==
    ASSUME NEW a \in Seq(Symbols), NEW x \in Symbols
    PROVE  /\ a \o <<x>> \in Seq(Symbols) /\ Len(a \o <<x>>) = Len(a) + 1
           /\ DOMAIN (a \o <<x>>) = 1..(Len(a) + 1)
           /\ \A i \in 1..Len(a) : (a \o <<x>>)[i] = a[i]
           /\ (a \o <<x>>)[Len(a) + 1] = x
OBVIOUS

LEMMA LengthIs ==
    ASSUME NEW w
    PROVE  /\ Undecided(w) \/ Implausible(w) => FrameLength(w) = 0
           /\ ~Undecided(w) /\ Counted(w) /\ ~Implausible(w) =>
                 FrameLength(w) = IF Len(w) >= 2 + Atoi(w[1]) THEN 2 + Atoi(w[1]) ELSE 0
           /\ ~Undecided(w) /\ ~Counted(w) => FrameLength(w) = Find(w, LF, 1)
<1>1. Undecided(w) => ~Counted(w)
  BY DEF Undecided, Counted
<1>2. ~Counted(w) => ~Implausible(w)
  BY DEF Implausible
<1> QED BY <1>1, <1>2 DEF FrameLength

LEMMA OneToken ==
    ASSUME NEW T, NEW x \in T
    PROVE  <<x>> \in Seq(T) /\ Len(<<x>>) = 1 /\ <<x>>[1] = x
OBVIOUS

Sendable(m, f) == m \in Messages /\ f \in Framings /\ Carries(f, m) /\ MessageText(m) # <<>>

LEMMA FrameShape ==
    ASSUME NEW m, NEW f, Sendable(m, f), NEW t, t = MessageText(m), NEW F, F = FrameText(m, f)
    PROVE  /\ t \in Seq(Symbols) /\ Len(t) \in Nat /\ Len(t) # 0 /\ F \in Seq(Symbols) /\ Len(F) \in Nat
           /\ f \in {"octets", "newline"}
           /\ f = "octets" => /\ Len(F) = Len(t) + 2 /\ F[1] = Numerals[Len(t)] /\ F[2] = SP
                              /\ Len(t) \in DOMAIN Numerals
                              /\ \A j \in 1..Len(t) : F[2 + j] = t[j]
           /\ f = "newline" => /\ Len(F) = Len(t) + 1 /\ F[Len(t) + 1] = LF
                               /\ F = t \o <<LF>>
                               /\ \A j \in 1..Len(t) : F[j] = t[j] /\ t[j] # LF
                               /\ ~Number(t[1])
<1>1. t \in Seq(Symbols) /\ t # <<>> /\ f \in {"octets", "newline"} /\ Len(t) \in DOMAIN Numerals
  BY TextsAre, SyslogAssumption DEF Sendable
<1>2. Len(t) \in Nat /\ Len(t) # 0
  BY <1>1
<1>3. CASE f = "octets"
  <2> DEFINE h == <<Numerals[Len(t)], SP>>
  <2>1. F = h \o t
    BY <1>3 DEF FrameText
  <2>2. Numerals[Len(t)] \in Symbols
    BY <1>1, SyslogAssumption, TokensAre
  <2>3. h \in Seq(Symbols) /\ Len(h) = 2 /\ h[1] = Numerals[Len(t)] /\ h[2] = SP
    <3>1. \A x, y \in Symbols : /\ <<x, y>> \in Seq(Symbols) /\ Len(<<x, y>>) = 2
                                /\ <<x, y>>[1] = x /\ <<x, y>>[2] = y
      OBVIOUS
    <3> QED BY <2>2, <3>1, TokensAre
  <2> HIDE DEF h
  <2>4. /\ F \in Seq(Symbols) /\ Len(F) = 2 + Len(t) /\ F[1] = h[1] /\ F[2] = h[2]
        /\ \A j \in 1..Len(t) : F[2 + j] = t[j]
    <3>1. /\ h \o t \in Seq(Symbols) /\ Len(h \o t) = 2 + Len(t)
          /\ \A i \in 1..2 : (h \o t)[i] = h[i]
          /\ \A j \in 1..Len(t) : (h \o t)[2 + j] = t[j]
      BY <1>1, <2>3, TextConcat
    <3> QED BY <2>1, <3>1
  <2> QED BY <1>1, <1>2, <1>3, <2>3, <2>4
<1>4. CASE f = "newline"
  <2>1. F = t \o <<LF>>
    BY <1>4 DEF FrameText
  <2>2. (\A j \in 1..Len(t) : t[j] # LF) /\ ~Number(t[1])
    BY <1>4 DEF Sendable, Carries, Contains
  <2>3. /\ F \in Seq(Symbols) /\ Len(F) = Len(t) + 1 /\ F[Len(t) + 1] = LF
        /\ \A j \in 1..Len(t) : F[j] = t[j]
    BY <1>1, <2>1, TextAndOne, TokensAre
  <2> QED BY <1>1, <1>2, <1>4, <2>1, <2>2, <2>3
<1> QED BY <1>1, <1>3, <1>4

\* A number is read as it was written.
LEMMA NumeralRead ==
    ASSUME NEW n \in DOMAIN Numerals
    PROVE  Number(Numerals[n]) /\ Atoi(Numerals[n]) = n /\ n \in Nat
<1>1. \A k \in DOMAIN Numerals : Numerals[k] = Numerals[n] => k = n
  BY SyslogAssumption
<1>2. Atoi(Numerals[n]) = n
  BY <1>1 DEF Atoi
<1> QED BY <1>2, SyslogAssumption DEF Number

\* The least number of a set, and the greatest up to a bound.
LEMMA MinIs ==
    ASSUME NEW S \in SUBSET Nat, S # {}
    PROVE  Min(S) \in S /\ \A x \in S : Min(S) <= x
BY LeastNumber DEF Min

LEMMA MaxIs ==
    ASSUME NEW n \in Nat, NEW S \in SUBSET (1..n), S # {}
    PROVE  Max(S) \in S /\ \A x \in S : x <= Max(S)
<1>1. \E m \in S : \A x \in S : m >= x
  BY GreatestNumber
<1>2. Max(S) \in S /\ \A x \in S : Max(S) >= x
  BY <1>1 DEF Max
<1> QED BY <1>2

\* The first of a token.
LEMMA FindIs ==
    ASSUME NEW s \in Seq(Symbols), NEW t, NEW n \in 1..Len(s), s[n] = t,
           \A i \in 1..(n - 1) : s[i] # t
    PROVE  Find(s, t, 1) = n
<1> DEFINE I == {i \in 1..Len(s) : s[i] = t}
<1>1. Find(s, t, 1) = IF I # {} THEN Min(I) ELSE 0
  BY DEF Find, SelectInSubSeq
<1>2. n \in I /\ I \in SUBSET Nat /\ Len(s) \in Nat
  OBVIOUS
<1>3. \A i \in I : i \in Nat /\ ~(i \in 1..(n - 1)) /\ i >= 1
  BY <1>2
<1> HIDE DEF I
<1>4. Min(I) \in I /\ Min(I) <= n
  BY <1>2, MinIs
<1>5. Min(I) = n
  <2>1. Min(I) \in Nat /\ Min(I) >= 1 /\ Min(I) <= n /\ n \in Nat /\ ~(Min(I) \in 1..(n - 1))
    BY <1>2, <1>3, <1>4
  <2> QED BY <2>1
<1> QED BY <1>1, <1>2, <1>5

LEMMA FindNone ==
    ASSUME NEW s \in Seq(Symbols), NEW t, \A i \in 1..Len(s) : s[i] # t
    PROVE  Find(s, t, 1) = 0
BY DEF Find, SelectInSubSeq

\* What is trimmed of a text is a text, and a line break at its end makes no
\* difference.
LEMMA Trimmed ==
    ASSUME NEW s \in Seq(Symbols)
    PROVE  /\ TrimSpace(s) \in Seq(Symbols)
           /\ s = <<>> => TrimSpace(s) = <<>>
           /\ TrimSpace(s \o <<LF>>) = TrimSpace(s)
<1> DEFINE Kept(u) == {i \in DOMAIN u : u[i] \notin {SP, LF}}
<1> DEFINE u == s \o <<LF>>
<1>1. Len(s) \in Nat /\ DOMAIN s = 1..Len(s) /\ s \in Seq(Symbols)
  OBVIOUS
<1>2. /\ u \in Seq(Symbols) /\ Len(u) = Len(s) + 1 /\ DOMAIN u = 1..(Len(s) + 1)
      /\ u[Len(s) + 1] = LF /\ \A i \in 1..Len(s) : u[i] = s[i]
  BY TextAndOne, TokensAre
<1> HIDE DEF u
<1>3. Kept(u) = Kept(s)
  <2>1. ASSUME NEW i \in Kept(u) PROVE i \in Kept(s)
    <3>1. i # Len(s) + 1
      BY <1>2
    <3>2. i \in 1..Len(s)
      BY <1>1, <1>2, <3>1
    <3> QED BY <1>1, <1>2, <3>2
  <2>2. ASSUME NEW i \in Kept(s) PROVE i \in Kept(u)
    <3>1. i \in 1..Len(s)
      BY <1>1
    <3>2. i \in 1..(Len(s) + 1)
      BY <1>1, <3>1
    <3> QED BY <1>1, <1>2, <3>1, <3>2
  <2> QED BY <2>1, <2>2
<1>4. \A v : TrimSpace(v) = IF Kept(v) = {} THEN <<>> ELSE SubSeq(v, Min(Kept(v)), Max(Kept(v)))
  BY DEF TrimSpace
<1>5. Kept(s) \in SUBSET (1..Len(s))
  BY <1>1
<1>6. s = <<>> => Kept(s) = {}
  BY <1>5
<1> HIDE DEF Kept
<1>7. CASE Kept(s) = {}
  <2>1. TrimSpace(s) = <<>> /\ TrimSpace(u) = <<>>
    BY <1>3, <1>4, <1>7
  <2>2. <<>> \in Seq(Symbols)
    OBVIOUS
  <2> QED BY <2>1, <2>2 DEF u
<1>8. CASE Kept(s) # {}
  <2> DEFINE lo == Min(Kept(s))
  <2> DEFINE hi == Max(Kept(s))
  <2>1. lo \in 1..Len(s) /\ hi \in 1..Len(s)
    <3>1. Kept(s) \in SUBSET Nat
      BY <1>1, <1>5
    <3> QED BY <1>1, <1>5, <1>8, <3>1, MinIs, MaxIs
  <2> HIDE DEF lo, hi
  <2>2. TrimSpace(s) = SubSeq(s, lo, hi)
    BY <1>4, <1>8 DEF lo, hi
  <2>3. TrimSpace(u) = SubSeq(u, lo, hi)
    BY <1>3, <1>4, <1>8 DEF lo, hi
  <2>4. SubSeq(s, lo, hi) \in Seq(Symbols)
    BY <1>1, <2>1
  <2>5. SubSeq(u, lo, hi) = SubSeq(s, lo, hi)
    BY <1>1, <1>2, <2>1
  <2> QED BY <1>6, <1>8, <2>2, <2>3, <2>4, <2>5 DEF u
<1> QED BY <1>7, <1>8

\* w begins with F.
Begins(w, F) == Len(F) <= Len(w) /\ \A i \in 1..Len(F) : w[i] = F[i]

\* A whole frame is found, whatever follows it, and read as what was framed; one of an
\* implausible length is never read.
LEMMA FrameRead ==
    ASSUME NEW m, NEW f, Sendable(m, f), NEW w \in Seq(Symbols), Begins(w, FrameText(m, f))
    PROVE  \/ /\ FrameLength(w) = Len(FrameText(m, f)) /\ FrameLength(w) # 0
              /\ FramePayload(w) \in Seq(Symbols)
              /\ TrimSpace(FramePayload(w)) = TrimSpace(MessageText(m))
           \/ FrameLength(w) = 0 /\ PartialPayload(w) = <<>>
<1> DEFINE t == MessageText(m)
<1> DEFINE F == FrameText(m, f)
<1>1. /\ t \in Seq(Symbols) /\ Len(t) \in Nat /\ Len(t) # 0 /\ F \in Seq(Symbols) /\ Len(F) \in Nat
      /\ f \in {"octets", "newline"}
      /\ f = "octets" => /\ Len(F) = Len(t) + 2 /\ F[1] = Numerals[Len(t)] /\ F[2] = SP
                         /\ Len(t) \in DOMAIN Numerals
                         /\ \A j \in 1..Len(t) : F[2 + j] = t[j]
      /\ f = "newline" => /\ Len(F) = Len(t) + 1 /\ F[Len(t) + 1] = LF
                          /\ F = t \o <<LF>>
                          /\ \A j \in 1..Len(t) : F[j] = t[j] /\ t[j] # LF
                          /\ ~Number(t[1])
  BY FrameShape
<1>2. Len(F) <= Len(w) /\ \A i \in 1..Len(F) : w[i] = F[i]
  BY DEF Begins
<1>3. Len(w) \in Nat /\ MaxFrame \in Nat
  BY SyslogAssumption
<1>4. t = MessageText(m) /\ F = FrameText(m, f)
  OBVIOUS
<1> HIDE DEF t, F
<1>5. CASE f = "octets"
  <2>1. 1 \in 1..Len(F) /\ 2 \in 1..Len(F) /\ Len(w) >= 2 /\ Len(w) # 1 /\ w # <<>>
    BY <1>1, <1>2, <1>3, <1>5
  <2>2. w[1] = Numerals[Len(t)] /\ w[2] = SP
    BY <1>1, <1>2, <1>5, <2>1
  <2>3. Number(w[1]) /\ Atoi(w[1]) = Len(t)
    BY <1>1, <1>5, <2>2, NumeralRead
  <2>4. Counted(w) /\ ~Undecided(w)
    BY <2>1, <2>2, <2>3 DEF Counted, Undecided
  <2>5. CASE Len(t) > MaxFrame
    <3>1. Implausible(w)
      BY <2>3, <2>4, <2>5 DEF Implausible
    <3> QED BY <2>4, <3>1, LengthIs DEF PartialPayload
  <2>6. CASE ~(Len(t) > MaxFrame)
    <3>1. ~Implausible(w)
      BY <2>3, <2>4, <2>6 DEF Implausible
    <3>2. FrameLength(w) = 2 + Len(t)
      BY <1>1, <1>2, <1>3, <1>5, <2>3, <2>4, <3>1, LengthIs
    <3>3. FramePayload(w) = SubSeq(w, 3, 2 + Len(t))
      BY <2>4, <3>2 DEF FramePayload
    <3> DEFINE p == SubSeq(w, 3, 2 + Len(t))
    <3>4. p \in Seq(Symbols) /\ Len(p) = Len(t) /\ \A j \in 1..Len(t) : p[j] = w[2 + j]
      <4>1. 3 \in 1..(Len(w) + 1) /\ 2 + Len(t) \in 0..Len(w) /\ (2 + Len(t)) - 3 + 1 = Len(t)
        BY <1>1, <1>2, <1>3, <1>5
      <4>2. \A j \in 1..Len(t) : 3 + j - 1 = 2 + j
        OBVIOUS
      <4> QED BY <1>1, <4>1, <4>2
    <3> HIDE DEF p
    <3>5. ASSUME NEW j \in 1..Len(t) PROVE p[j] = t[j]
      <4>1. 2 + j \in 1..Len(F)
        BY <1>1, <1>5
      <4> QED BY <1>1, <1>2, <1>5, <3>4, <4>1
    <3>6. p = t
      BY <1>1, <3>4, <3>5
    <3>7. FramePayload(w) = t
      BY <3>3, <3>6 DEF p
    <3> QED BY <1>1, <1>4, <1>5, <3>2, <3>7
  <2> QED BY <2>5, <2>6
<1>6. CASE f = "newline"
  <2>1. 1 \in 1..Len(F) /\ 1 \in 1..Len(t) /\ w # <<>>
    BY <1>1, <1>2, <1>3, <1>6
  <2>2. w[1] = t[1] /\ ~Number(w[1])
    BY <1>1, <1>2, <1>6, <2>1
  <2>3. ~Counted(w) /\ ~Undecided(w) /\ ~Implausible(w)
    BY <2>1, <2>2 DEF Counted, Undecided, Implausible
  <2>4. Find(w, LF, 1) = Len(t) + 1
    <3>1. Len(t) + 1 \in 1..Len(w) /\ Len(t) + 1 \in 1..Len(F) /\ (Len(t) + 1) - 1 = Len(t)
      BY <1>1, <1>2, <1>3, <1>6
    <3>2. w[Len(t) + 1] = LF
      BY <1>1, <1>2, <1>6, <3>1
    <3>3. ASSUME NEW i \in 1..((Len(t) + 1) - 1) PROVE w[i] # LF
      <4>1. i \in 1..Len(t) /\ i \in 1..Len(F)
        BY <1>1, <1>6, <3>1
      <4> QED BY <1>1, <1>2, <1>6, <4>1
    <3> QED BY <3>1, <3>2, <3>3, FindIs
  <2>5. FrameLength(w) = Len(t) + 1
    BY <2>3, <2>4, LengthIs
  <2>6. FramePayload(w) = SubSeq(w, 1, Len(F))
    BY <1>1, <1>6, <2>3, <2>5 DEF FramePayload
  <2>7. SubSeq(w, 1, Len(F)) = F
    BY <1>1, <1>2, <1>3
  <2>8. TrimSpace(F) = TrimSpace(t)
    BY <1>1, <1>6, Trimmed
  <2>9. FrameLength(w) = Len(F) /\ FrameLength(w) # 0
    BY <1>1, <1>6, <2>5
  <2>10. FramePayload(w) = F
    BY <2>6, <2>7
  <2> QED BY <1>1, <1>4, <2>8, <2>9, <2>10
<1> QED BY <1>1, <1>5, <1>6

LEMMA PrefixIs ==
    ASSUME NEW F \in Seq(Symbols), NEW n \in Nat, n <= Len(F)
    PROVE  /\ SubSeq(F, 1, n) \in Seq(Symbols) /\ Len(SubSeq(F, 1, n)) = n
           /\ \A i \in 1..n : SubSeq(F, 1, n)[i] = F[i]
OBVIOUS

\* The beginning of a frame is none.
LEMMA CutRead ==
    ASSUME NEW m, NEW f, Sendable(m, f), NEW n \in Nat, n < Len(FrameText(m, f)),
           NEW w, w = SubSeq(FrameText(m, f), 1, n)
    PROVE  w \in Seq(Symbols) /\ FrameLength(w) = 0
<1> DEFINE t == MessageText(m)
<1> DEFINE F == FrameText(m, f)
<1>1. /\ t \in Seq(Symbols) /\ Len(t) \in Nat /\ Len(t) # 0 /\ F \in Seq(Symbols) /\ Len(F) \in Nat
      /\ f \in {"octets", "newline"}
      /\ f = "octets" => /\ Len(F) = Len(t) + 2 /\ F[1] = Numerals[Len(t)] /\ F[2] = SP
                         /\ Len(t) \in DOMAIN Numerals
                         /\ \A j \in 1..Len(t) : F[2 + j] = t[j]
      /\ f = "newline" => /\ Len(F) = Len(t) + 1 /\ F[Len(t) + 1] = LF
                          /\ F = t \o <<LF>>
                          /\ \A j \in 1..Len(t) : F[j] = t[j] /\ t[j] # LF
                          /\ ~Number(t[1])
  BY FrameShape
<1>2. w = SubSeq(F, 1, n) /\ n < Len(F)
  OBVIOUS
<1> HIDE DEF t, F
<1>3. w \in Seq(Symbols) /\ Len(w) = n /\ \A i \in 1..n : w[i] = F[i]
  <2>1. F \in Seq(Symbols) /\ n <= Len(F)
    BY <1>1, <1>2
  <2> QED BY <1>2, <2>1, PrefixIs
<1>4. CASE n = 0
  <2>1. w = <<>>
    BY <1>3, <1>4
  <2>2. Undecided(w)
    BY <2>1 DEF Undecided
  <2>3. FrameLength(w) = 0
    BY <2>2, LengthIs
  <2> QED BY <1>3, <2>3
<1>5. CASE n # 0 /\ f = "octets"
  <2>1. w[1] = Numerals[Len(t)] /\ Number(w[1]) /\ Atoi(w[1]) = Len(t)
    BY <1>1, <1>3, <1>5, NumeralRead
  <2>2. CASE n = 1
    <3>1. Undecided(w)
      BY <1>3, <2>1, <2>2 DEF Undecided
    <3> QED BY <1>3, <3>1, LengthIs
  <2>3. CASE n # 1
    <3>1. w[2] = SP /\ Len(w) >= 2
      <4>1. 2 \in 1..n /\ n >= 2
        BY <1>5, <2>3
      <4>2. w[2] = F[2]
        BY <1>3, <4>1
      <4> QED BY <1>1, <1>3, <1>5, <4>1, <4>2
    <3>2. Counted(w) /\ ~Undecided(w)
      BY <1>3, <1>5, <2>1, <2>3, <3>1 DEF Counted, Undecided
    <3>3. ~(Len(w) >= 2 + Atoi(w[1]))
      BY <1>1, <1>2, <1>3, <1>5, <2>1
    <3>4. CASE Implausible(w)
      BY <1>3, <3>4, LengthIs
    <3>5. CASE ~Implausible(w)
      BY <1>3, <3>2, <3>3, <3>5, LengthIs
    <3> QED BY <3>4, <3>5
  <2> QED BY <2>2, <2>3
<1>6. CASE n # 0 /\ f = "newline"
  <2>1. 1 \in 1..Len(w) /\ 1 \in 1..Len(t) /\ w # <<>>
    <3>1. \A x \in Nat : x # 0 => 1 \in 1..x
      OBVIOUS
    <3>2. 1 \in 1..Len(w) /\ 1 \in 1..Len(t)
      BY <1>1, <1>3, <1>6, <3>1
    <3> QED BY <1>3, <1>6, <3>2
  <2>2. \A i \in 1..Len(w) : i \in 1..Len(t) /\ w[i] = t[i] /\ w[i] # LF
    BY <1>1, <1>2, <1>3, <1>6
  <2>3. ~Number(w[1])
    BY <1>1, <1>6, <2>1, <2>2
  <2>4. ~Counted(w) /\ ~Undecided(w) /\ ~Implausible(w)
    BY <2>1, <2>3 DEF Counted, Undecided, Implausible
  <2>5. Find(w, LF, 1) = 0
    BY <1>3, <2>2, FindNone
  <2> QED BY <1>3, <2>4, <2>5, LengthIs
<1> QED BY <1>1, <1>4, <1>5, <1>6

-----------------------------------------------------------------------------
(* The syslog listener: connections.                                       *)

ConnPhases == {"idle", "dialed", "accepted", "served", "ended"}

ConnStates == [phase : ConnPhases, wire : Seq(Symbols), hung : BOOLEAN, shut : BOOLEAN]

Understandings == {Parse(line) : line \in Seq(Symbols)}

\* Frame i of those sent lies from a[i - 1] to a[i] in what was written in all, of
\* which the server has read the first k frames; the wire holds the others, and then
\* the beginning of one.
Marks(msgs, k, a) ==
    /\ a \in [Nat -> Nat] /\ k \in Nat /\ k <= Len(msgs)
    /\ \A i \in k..Len(msgs), j \in k..Len(msgs) : i <= j => a[i] <= a[j]

FramesAt(wire, msgs, k, a) ==
    \A i \in (k + 1)..Len(msgs) :
       \E f \in Framings :
          /\ Sendable(msgs[i], f)
          /\ a[i] = a[i - 1] + Len(FrameText(msgs[i], f))
          /\ \A j \in 1..Len(FrameText(msgs[i], f)) :
                wire[(a[i - 1] - a[k]) + j] = FrameText(msgs[i], f)[j]

OnWire(wire, msgs, k, rest, a) ==
    /\ Marks(msgs, k, a)
    /\ FramesAt(wire, msgs, k, a)
    /\ Len(wire) = (a[Len(msgs)] - a[k]) + Len(rest)
    /\ \A j \in 1..Len(rest) : wire[(a[Len(msgs)] - a[k]) + j] = rest[j]

\* What a sender was cut off in is the beginning of a frame.
CutShort(rest) ==
    rest # <<>> => \E m, f : /\ Sendable(m, f)
                             /\ \E n \in Nat : n < Len(FrameText(m, f)) /\ rest = SubSeq(FrameText(m, f), 1, n)

Understood(evs, msgs) ==
    \A i \in 1..Len(evs) : i <= Len(msgs) => evs[i] = Meant(msgs[i])

SyslogTyped ==
    /\ conn \in [Conns -> ConnStates]
    /\ cutOff \in [Conns -> Seq(Symbols)]
    /\ logged \in [Conns \cup {Datagrams} -> Seq(Messages)]
    /\ parsed \in [Conns \cup {Datagrams} -> Seq(Understandings)]
    /\ stop \in {"no", "waiting", "stopped"}

Tracking ==
    /\ tracked = {c \in Conns : conn[c].phase = "served"}
    /\ IsFiniteSet(tracked) /\ Cardinality(tracked) <= MaxConns

\* A connection as its sender, the wire and the server see it.
Faithful(cn, cut, msgs, evs) ==
    /\ cut # <<>> => cn.hung
    /\ CutShort(cut)
    /\ Understood(evs, msgs)
    /\ cn.phase # "ended" => \E a : OnWire(cn.wire, msgs, Len(evs), cut, a)
    /\ cn.phase = "ended" => Len(evs) <= Len(msgs) + (IF cut # <<>> THEN 1 ELSE 0)

Served ==
    /\ \A c \in Conns : Faithful(conn[c], cutOff[c], logged[c], parsed[c])
    /\ Len(parsed[Datagrams]) = Len(logged[Datagrams])
    /\ Understood(parsed[Datagrams], logged[Datagrams])

\* The marks are numbers in their order.
LEMMA MarksAre ==
    ASSUME NEW s \in Seq(Messages), NEW k, NEW a, Marks(s, k, a)
    PROVE  /\ Len(s) \in Nat /\ k \in Nat /\ k <= Len(s) /\ a \in [Nat -> Nat]
           /\ k \in k..Len(s) /\ Len(s) \in k..Len(s)
           /\ \A i \in k..Len(s) : i \in Nat /\ a[i] \in Nat /\ a[k] <= a[i] /\ a[i] <= a[Len(s)]
           /\ \A i \in (k + 1)..Len(s) : i \in k..Len(s) /\ i - 1 \in k..Len(s)
<1>1. Len(s) \in Nat /\ k \in Nat /\ k <= Len(s) /\ a \in [Nat -> Nat]
  BY DEF Marks
<1>2. \A i \in k..Len(s), j \in k..Len(s) : i <= j => a[i] <= a[j]
  BY DEF Marks
<1> DEFINE n == Len(s)
<1>3. n \in Nat
  BY <1>1
<1> HIDE DEF n
<1>4. k \in k..n /\ n \in k..n
  BY <1>1, <1>3 DEF n
<1>5. \A i \in k..n : i \in Nat /\ k <= i /\ i <= n
  BY <1>1, <1>3
<1>6. \A i \in (k + 1)..n : i \in k..n /\ i - 1 \in k..n
  BY <1>1, <1>3
<1>7. \A i \in k..n : i \in Nat /\ a[i] \in Nat /\ a[k] <= a[i] /\ a[i] <= a[n]
  BY <1>1, <1>2, <1>4, <1>5 DEF n
<1> QED BY <1>1, <1>4, <1>6, <1>7 DEF n

\* All frames are read.
LEMMA WireEmpty ==
    ASSUME NEW w \in Seq(Symbols), NEW s \in Seq(Messages), NEW k, NEW r \in Seq(Symbols), NEW a,
           OnWire(w, s, k, r, a), k = Len(s)
    PROVE  w = r
<1>1. a[Len(s)] - a[k] = 0
  <2>1. a[Len(s)] \in Nat
    BY MarksAre DEF OnWire
  <2>2. \A x \in Nat : x - x = 0
    OBVIOUS
  <2> QED BY <2>1, <2>2
<1>2. Len(w) = 0 + Len(r) /\ \A j \in 1..Len(r) : w[0 + j] = r[j]
  BY <1>1 DEF OnWire
<1>3. Len(r) \in Nat
  OBVIOUS
<1>4. Len(w) = Len(r)
  BY <1>2, <1>3
<1>5. ASSUME NEW j \in 1..Len(r) PROVE w[j] = r[j]
  <2>1. 0 + j = j
    BY <1>3
  <2> QED BY <1>2, <2>1
<1> QED BY <1>4, <1>5

\* A text without its beginning.
LEMMA RestIs ==
    ASSUME NEW w \in Seq(Symbols), NEW x \in Nat, x <= Len(w)
    PROVE  /\ SubSeq(w, x + 1, Len(w)) \in Seq(Symbols)
           /\ Len(SubSeq(w, x + 1, Len(w))) = Len(w) - x
           /\ \A j \in 1..(Len(w) - x) : SubSeq(w, x + 1, Len(w))[j] = w[x + j]
<1>1. Len(w) \in Nat
  OBVIOUS
<1> DEFINE v == SubSeq(w, x + 1, Len(w))
<1>2. v \in Seq(Symbols)
  BY <1>1
<1>3. Len(v) = Len(w) - x
  BY <1>1
<1>4. \A j \in 1..Len(v) : v[j] = w[(x + 1) + j - 1]
  BY <1>1
<1> HIDE DEF v
<1>5. \A j \in 1..(Len(w) - x) : (x + 1) + j - 1 = x + j
  BY <1>1
<1>6. \A j \in 1..(Len(w) - x) : v[j] = w[x + j]
  BY <1>3, <1>4, <1>5
<1> QED BY <1>2, <1>3, <1>6 DEF v

\* Places, counted from the next frame and from this one.
LEMMA Places ==
    ASSUME NEW ak \in Nat, NEW an \in Nat, NEW aj \in Nat, NEW x \in Nat, NEW l \in Nat,
           aj = ak + x, aj <= an, l # 0
    PROVE  /\ (an - aj) + l \in Nat /\ (an - aj) + l # 0
           /\ x + ((an - aj) + l) = (an - ak) + l
OBVIOUS

LEMMA StaysWithin ==
    ASSUME NEW y \in Nat, NEW y1 \in Nat, NEW yn \in Nat, NEW g \in Nat, NEW j \in Nat, NEW z \in Nat,
           y1 <= y, y + g <= yn, j <= g
    PROVE  (y - y1) + j <= (yn - y1) + z
OBVIOUS

\* The next frame is read.
LEMMA WireHead ==
    ASSUME NEW w \in Seq(Symbols), NEW s \in Seq(Messages), NEW k, NEW r \in Seq(Symbols), NEW a,
           OnWire(w, s, k, r, a), k # Len(s)
    PROVE  /\ k + 1 \in 1..Len(s)
           /\ \E f : /\ Sendable(s[k + 1], f)
                     /\ Begins(w, FrameText(s[k + 1], f))
                     /\ OnWire(SubSeq(w, Len(FrameText(s[k + 1], f)) + 1, Len(w)), s, k + 1, r, a)
<1> DEFINE n == Len(s)
<1>0. Marks(s, k, a) /\ FramesAt(w, s, k, a)
  BY DEF OnWire
<1>a. /\ n \in Nat /\ k \in Nat /\ k <= n /\ a \in [Nat -> Nat]
      /\ \A i \in k..n : i \in Nat /\ a[i] \in Nat /\ a[k] <= a[i] /\ a[i] <= a[n]
      /\ \A i \in (k + 1)..n : i \in k..n /\ i - 1 \in k..n
  BY <1>0, MarksAre
<1>b. k # n
  OBVIOUS
<1>c. Len(w) = (a[n] - a[k]) + Len(r) /\ \A j \in 1..Len(r) : w[(a[n] - a[k]) + j] = r[j]
  BY DEF OnWire
<1>d. \A i \in k..n, j \in k..n : i <= j => a[i] <= a[j]
  BY <1>0 DEF Marks
<1>e. \A i \in (k + 1)..n :
       \E f \in Framings :
          /\ Sendable(s[i], f)
          /\ a[i] = a[i - 1] + Len(FrameText(s[i], f))
          /\ \A j \in 1..Len(FrameText(s[i], f)) :
                w[(a[i - 1] - a[k]) + j] = FrameText(s[i], f)[j]
  BY <1>0 DEF FramesAt
<1>f. Len(r) \in Nat /\ Len(w) \in Nat
  OBVIOUS
<1> HIDE DEF n
<1>1. /\ k + 1 <= n /\ k + 1 \in Nat /\ k + 1 \in (k + 1)..n /\ (k + 1) - 1 = k /\ k + 1 \in 1..n
      /\ k \in k..n /\ n \in k..n /\ k + 1 \in k..n /\ n \in (k + 1)..n
  BY <1>a, <1>b
<1>2. PICK f \in Framings :
             /\ Sendable(s[k + 1], f)
             /\ a[k + 1] = a[k] + Len(FrameText(s[k + 1], f))
             /\ \A j \in 1..Len(FrameText(s[k + 1], f)) :
                   w[(a[k] - a[k]) + j] = FrameText(s[k + 1], f)[j]
  <2>1. \E f \in Framings :
             /\ Sendable(s[k + 1], f)
             /\ a[k + 1] = a[(k + 1) - 1] + Len(FrameText(s[k + 1], f))
             /\ \A j \in 1..Len(FrameText(s[k + 1], f)) :
                   w[(a[(k + 1) - 1] - a[k]) + j] = FrameText(s[k + 1], f)[j]
    BY <1>1, <1>e
  <2> QED BY <1>1, <2>1
<1> DEFINE F == FrameText(s[k + 1], f)
<1> DEFINE x == Len(F)
<1>3. x \in Nat
  BY <1>2, FrameShape
<1>4. /\ a[k] \in Nat /\ a[k + 1] \in Nat /\ a[n] \in Nat /\ a[k + 1] = a[k] + x
      /\ a[k + 1] <= a[n]
  BY <1>1, <1>2, <1>a
<1> HIDE DEF x
<1>6. x <= Len(w)
  BY <1>3, <1>4, <1>c, <1>f
<1>7. Begins(w, F)
  <2>1. ASSUME NEW j \in 1..Len(F) PROVE w[j] = F[j]
    <3>1. (a[k] - a[k]) + j = j
      BY <1>3, <1>4 DEF x
    <3> QED BY <1>2, <3>1
  <2> QED BY <1>6, <2>1 DEF Begins, x
<1> DEFINE v == SubSeq(w, x + 1, Len(w))
<1>8. /\ v \in Seq(Symbols) /\ Len(v) = Len(w) - x
      /\ \A j \in 1..(Len(w) - x) : v[j] = w[x + j]
  BY <1>3, <1>6, RestIs
<1> HIDE DEF v, F
<1>9. ASSUME NEW i \in (k + 1)..n, NEW l \in Nat, l # 0, (a[i] - a[k + 1]) + l <= Len(v)
      PROVE  v[(a[i] - a[k + 1]) + l] = w[(a[i] - a[k]) + l]
  <2>1. a[i] \in Nat /\ a[k + 1] <= a[i]
    <3>1. i \in k..n /\ k + 1 <= i
      BY <1>1, <1>a
    <3>2. a[i] \in Nat
      BY <1>a, <3>1
    <3>3. k + 1 \in k..n
      BY <1>1
    <3>4. a[k + 1] <= a[i]
      BY <1>d, <3>1, <3>3
    <3> QED BY <3>2, <3>4
  <2> DEFINE p == (a[i] - a[k + 1]) + l
  <2>2. p \in Nat /\ p # 0 /\ x + p = (a[i] - a[k]) + l
    <3>1. a[k] \in Nat /\ a[k + 1] \in Nat /\ a[k + 1] = a[k] + x
      BY <1>4
    <3>2. l # 0
      BY <1>9
    <3> DEFINE y == a[i]
    <3> DEFINE y1 == a[k + 1]
    <3> DEFINE y0 == a[k]
    <3>3. y \in Nat /\ y1 \in Nat /\ y0 \in Nat /\ y1 = y0 + x /\ y1 <= y
      BY <2>1, <3>1
    <3> HIDE DEF y, y1, y0
    <3>4. (y - y1) + l \in Nat /\ (y - y1) + l # 0 /\ x + ((y - y1) + l) = (y - y0) + l
      BY <1>3, <3>2, <3>3, Places
    <3> QED BY <3>4 DEF y, y1, y0
  <2> HIDE DEF p
  <2>3. p <= Len(w) - x
    BY <1>8, <1>9 DEF p
  <2>4. p \in 1..(Len(w) - x)
    BY <1>3, <1>6, <1>f, <2>2, <2>3
  <2>5. v[p] = w[x + p]
    BY <1>8, <2>4
  <2> QED BY <2>2, <2>5 DEF p
<1>10. Len(v) = (a[n] - a[k + 1]) + Len(r)
  <2>1. Len(v) = ((a[n] - a[k]) + Len(r)) - x
    BY <1>8, <1>c
  <2> QED BY <1>3, <1>4, <1>f, <2>1
<1>11. FramesAt(v, s, k + 1, a)
  <2> SUFFICES ASSUME NEW i \in ((k + 1) + 1)..n
               PROVE  \E g \in Framings :
                         /\ Sendable(s[i], g)
                         /\ a[i] = a[i - 1] + Len(FrameText(s[i], g))
                         /\ \A j \in 1..Len(FrameText(s[i], g)) :
                               v[(a[i - 1] - a[k + 1]) + j] = FrameText(s[i], g)[j]
    BY DEF FramesAt, n
  <2>0. /\ i \in (k + 1)..n /\ i - 1 \in (k + 1)..n /\ i \in Nat
    BY <1>1, <1>a
  <2>1. PICK g \in Framings :
             /\ Sendable(s[i], g)
             /\ a[i] = a[i - 1] + Len(FrameText(s[i], g))
             /\ \A j \in 1..Len(FrameText(s[i], g)) :
                   w[(a[i - 1] - a[k]) + j] = FrameText(s[i], g)[j]
    BY <1>e, <2>0
  <2> DEFINE G == FrameText(s[i], g)
  <2>2. Len(G) \in Nat
    BY <2>1, FrameShape
  <2>3. a[i] <= a[n] /\ a[i] \in Nat /\ a[i - 1] \in Nat /\ a[k + 1] <= a[i - 1]
    <3>1. i \in k..n /\ i - 1 \in k..n /\ k + 1 <= i - 1
      BY <1>a, <2>0
    <3> QED BY <1>1, <1>a, <1>d, <3>1
  <2>4. a[i] = a[i - 1] + Len(G)
    BY <2>1
  <2>5. \A j \in 1..Len(G) : w[(a[i - 1] - a[k]) + j] = G[j]
    BY <2>1
  <2> HIDE DEF G
  <2>6. ASSUME NEW j \in 1..Len(G) PROVE v[(a[i - 1] - a[k + 1]) + j] = G[j]
    <3>1. j \in Nat /\ j # 0 /\ j <= Len(G)
      BY <2>2
    <3> DEFINE y == a[i - 1]
    <3> DEFINE y1 == a[k + 1]
    <3> DEFINE yn == a[n]
    <3> DEFINE g1 == Len(G)
    <3>2. /\ y \in Nat /\ y1 \in Nat /\ yn \in Nat /\ g1 \in Nat /\ y1 <= y /\ y + g1 <= yn /\ j <= g1
          /\ Len(v) = (yn - y1) + Len(r)
      BY <1>4, <1>10, <2>2, <2>3, <2>4, <3>1
    <3> HIDE DEF y, y1, yn, g1
    <3>a. (y - y1) + j <= (yn - y1) + Len(r)
      BY <1>f, <3>1, <3>2, StaysWithin
    <3>b. (y - y1) + j <= Len(v)
      BY <3>2, <3>a
    <3>3. (a[i - 1] - a[k + 1]) + j <= Len(v)
      BY <3>b DEF y, y1
    <3>4. v[(a[i - 1] - a[k + 1]) + j] = w[(a[i - 1] - a[k]) + j]
      BY <1>9, <2>0, <3>1, <3>3
    <3> QED BY <2>5, <3>4
  <2> QED BY <2>1, <2>6 DEF G
<1>12. ASSUME NEW j \in 1..Len(r) PROVE v[(a[n] - a[k + 1]) + j] = r[j]
  <2>1. j \in Nat /\ j # 0 /\ j <= Len(r)
    BY <1>f
  <2>2. (a[n] - a[k + 1]) + j <= Len(v)
    BY <1>4, <1>10, <1>f, <2>1
  <2>3. v[(a[n] - a[k + 1]) + j] = w[(a[n] - a[k]) + j]
    BY <1>1, <1>9, <2>1, <2>2
  <2> QED BY <1>c, <2>3
<1>13. Marks(s, k + 1, a)
  <2>1. \A i \in (k + 1)..n : i \in k..n
    BY <1>a
  <2>2. \A i \in (k + 1)..n, j \in (k + 1)..n : i <= j => a[i] <= a[j]
    BY <1>d, <2>1
  <2> QED BY <1>1, <1>a, <2>2 DEF Marks, n
<1>14. OnWire(v, s, k + 1, r, a)
  BY <1>10, <1>11, <1>12, <1>13 DEF OnWire, n
<1> QED BY <1>1, <1>2, <1>7, <1>14 DEF F, v, x, n

\* A text after another leaves it where it is.
LEMMA FramesStay ==
    ASSUME NEW w \in Seq(Symbols), NEW s \in Seq(Messages), NEW k, NEW a, Marks(s, k, a),
           FramesAt(w, s, k, a), Len(w) = a[Len(s)] - a[k],
           NEW x, \A i \in 1..Len(w) : x[i] = w[i]
    PROVE  FramesAt(x, s, k, a)
<1> DEFINE n == Len(s)
<1>1. /\ n \in Nat /\ k \in Nat /\ k <= n /\ a \in [Nat -> Nat] /\ k \in k..n
      /\ \A i \in k..n : i \in Nat /\ a[i] \in Nat /\ a[k] <= a[i] /\ a[i] <= a[n]
      /\ \A i \in (k + 1)..n : i \in k..n /\ i - 1 \in k..n
  BY MarksAre
<1>2. Len(w) = a[n] - a[k]
  OBVIOUS
<1> SUFFICES ASSUME NEW i \in (k + 1)..n
             PROVE  \E g \in Framings :
                       /\ Sendable(s[i], g)
                       /\ a[i] = a[i - 1] + Len(FrameText(s[i], g))
                       /\ \A j \in 1..Len(FrameText(s[i], g)) :
                             x[(a[i - 1] - a[k]) + j] = FrameText(s[i], g)[j]
  BY DEF FramesAt
<1>3. PICK g \in Framings :
           /\ Sendable(s[i], g)
           /\ a[i] = a[i - 1] + Len(FrameText(s[i], g))
           /\ \A j \in 1..Len(FrameText(s[i], g)) :
                 w[(a[i - 1] - a[k]) + j] = FrameText(s[i], g)[j]
  BY DEF FramesAt
<1> HIDE DEF n
<1> DEFINE G == FrameText(s[i], g)
<1>4. Len(G) \in Nat /\ a[i] = a[i - 1] + Len(G)
  BY <1>3, FrameShape
<1>5. \A j \in 1..Len(G) : w[(a[i - 1] - a[k]) + j] = G[j]
  BY <1>3
<1> HIDE DEF G
<1>6. /\ a[i] \in Nat /\ a[i - 1] \in Nat /\ a[n] \in Nat /\ a[k] \in Nat
      /\ a[k] <= a[i - 1] /\ a[i] <= a[n]
  BY <1>1
<1>7. ASSUME NEW j \in 1..Len(G) PROVE x[(a[i - 1] - a[k]) + j] = G[j]
  <2>1. j \in Nat /\ j # 0 /\ j <= Len(G)
    BY <1>4
  <2>2. (a[i - 1] - a[k]) + j \in Nat /\ (a[i - 1] - a[k]) + j # 0
    BY <1>6, <2>1
  <2>3. (a[i - 1] - a[k]) + j <= a[n] - a[k]
    BY <1>4, <1>6, <2>1
  <2>4. (a[i - 1] - a[k]) + j \in 1..Len(w)
    BY <1>2, <1>6, <2>2, <2>3
  <2> QED BY <1>5, <2>4
<1> QED BY <1>3, <1>7 DEF G

\* What is on a wire with nothing cut off.
LEMMA WireIs ==
    ASSUME NEW w \in Seq(Symbols), NEW s \in Seq(Messages), NEW k, NEW a, OnWire(w, s, k, <<>>, a)
    PROVE  Len(w) \in Nat /\ Len(w) = a[Len(s)] - a[k]
<1>1. a[Len(s)] \in Nat /\ a[k] \in Nat /\ Marks(s, k, a)
  <2>1. Marks(s, k, a)
    BY DEF OnWire
  <2> QED BY <2>1, MarksAre
<1>2. Len(w) = (a[Len(s)] - a[k]) + Len(<<>>)
  BY DEF OnWire
<1>3. Len(<<>>) = 0 /\ \A y \in Int : y + 0 = y
  OBVIOUS
<1> QED BY <1>1, <1>2, <1>3

\* A sender is cut off.
LEMMA WireCut ==
    ASSUME NEW w \in Seq(Symbols), NEW s \in Seq(Messages), NEW k, NEW a,
           OnWire(w, s, k, <<>>, a), NEW r \in Seq(Symbols)
    PROVE  OnWire(w \o r, s, k, r, a)
<1> DEFINE x == w \o r
<1>1. Len(w) = a[Len(s)] - a[k] /\ Marks(s, k, a) /\ FramesAt(w, s, k, a)
  BY WireIs DEF OnWire
<1>2. /\ x \in Seq(Symbols) /\ Len(x) = Len(w) + Len(r)
      /\ \A i \in 1..Len(w) : x[i] = w[i]
      /\ \A i \in 1..Len(r) : x[Len(w) + i] = r[i]
  BY TextConcat
<1> HIDE DEF x
<1>3. FramesAt(x, s, k, a)
  BY <1>1, <1>2, FramesStay
<1>4. OnWire(x, s, k, r, a)
  BY <1>1, <1>2, <1>3 DEF OnWire
<1> QED BY <1>4 DEF x

\* One more mark.
LEMMA MarkAfter ==
    ASSUME NEW a \in [Nat -> Nat], NEW p \in Nat, NEW v \in Nat, NEW b, b = [a EXCEPT ![p] = v]
    PROVE  b \in [Nat -> Nat] /\ b[p] = v /\ \A i \in Nat : i # p => b[i] = a[i]
OBVIOUS

\* One more frame is sent.
LEMMA WireSend ==
    ASSUME NEW w \in Seq(Symbols), NEW s \in Seq(Messages), NEW k, NEW a,
           OnWire(w, s, k, <<>>, a), NEW m \in Messages, NEW f \in Framings, Sendable(m, f)
    PROVE  \E b : OnWire(w \o FrameText(m, f), Append(s, m), k, <<>>, b)
<1> DEFINE n == Len(s)
<1> DEFINE F == FrameText(m, f)
<1> DEFINE b == [a EXCEPT ![n + 1] = a[n] + Len(F)]
<1> DEFINE u == Append(s, m)
<1> DEFINE x == w \o F
<1>1. F \in Seq(Symbols) /\ Len(F) \in Nat
  BY FrameShape
<1>2. Len(w) = a[n] - a[k] /\ Marks(s, k, a) /\ FramesAt(w, s, k, a) /\ Len(w) \in Nat
  BY WireIs DEF OnWire
<1>3. /\ Len(u) = n + 1 /\ u[n + 1] = m /\ \A i \in 1..n : u[i] = s[i]
  OBVIOUS
<1>4. /\ x \in Seq(Symbols) /\ Len(x) = Len(w) + Len(F)
      /\ \A i \in 1..Len(w) : x[i] = w[i]
      /\ \A i \in 1..Len(F) : x[Len(w) + i] = F[i]
  BY <1>1, TextConcat
<1>a. /\ n \in Nat /\ k \in Nat /\ k <= n /\ a \in [Nat -> Nat] /\ k \in k..n /\ n \in k..n
      /\ \A i \in k..n : i \in Nat /\ a[i] \in Nat /\ a[k] <= a[i] /\ a[i] <= a[n]
      /\ \A i \in (k + 1)..n : i \in k..n /\ i - 1 \in k..n
  BY <1>2, MarksAre
<1>b. FramesAt(x, s, k, a)
  BY <1>2, <1>4, FramesStay
<1>c. \A i \in (k + 1)..n :
       \E g \in Framings :
          /\ Sendable(s[i], g)
          /\ a[i] = a[i - 1] + Len(FrameText(s[i], g))
          /\ \A j \in 1..Len(FrameText(s[i], g)) :
                x[(a[i - 1] - a[k]) + j] = FrameText(s[i], g)[j]
  BY <1>b DEF FramesAt
<1>d. \A i \in k..n, j \in k..n : i <= j => a[i] <= a[j]
  BY <1>2 DEF Marks
<1>5. /\ b \in [Nat -> Nat] /\ b[n + 1] = a[n] + Len(F)
      /\ \A i \in Nat : i # n + 1 => b[i] = a[i]
  <2> HIDE DEF n, F
  <2>1. n + 1 \in Nat /\ a \in [Nat -> Nat] /\ a[n] + Len(F) \in Nat
    <3>1. n \in Nat /\ a \in [Nat -> Nat]
      BY <1>a
    <3>2. a[n] \in Nat
      BY <3>1
    <3> DEFINE y == a[n]
    <3> DEFINE l == Len(F)
    <3>3. y \in Nat /\ l \in Nat
      BY <1>1, <3>2
    <3> HIDE DEF y, l
    <3>4. y + l \in Nat /\ n + 1 \in Nat
      BY <3>1, <3>3
    <3> QED BY <3>1, <3>4 DEF y, l
  <2>2. b = [a EXCEPT ![n + 1] = a[n] + Len(F)]
    OBVIOUS
  <2> HIDE DEF b
  <2> QED BY <2>1, <2>2, MarkAfter
<1> HIDE DEF F, b, u, x, n
<1>6. /\ \A i \in k..n : b[i] = a[i]
      /\ \A i \in k..(n + 1) : i \in k..n \/ i = n + 1
      /\ \A i \in (k + 1)..(n + 1) : i \in (k + 1)..n \/ i = n + 1
      /\ \A i \in (k + 1)..n : i \in 1..n
      /\ n + 1 \in Nat /\ (n + 1) - 1 = n /\ k <= n + 1
  <2>1. \A i \in k..n : i \in Nat /\ i # n + 1
    BY <1>a
  <2>2. \A i \in k..(n + 1) : i \in k..n \/ i = n + 1
    BY <1>a
  <2>3. \A i \in (k + 1)..(n + 1) : i \in (k + 1)..n \/ i = n + 1
    BY <1>a
  <2>4. \A i \in (k + 1)..n : i \in 1..n
    BY <1>a
  <2>5. n + 1 \in Nat /\ (n + 1) - 1 = n /\ k <= n + 1
    BY <1>a
  <2> QED BY <1>5, <2>1, <2>2, <2>3, <2>4, <2>5
<1>8. ASSUME NEW i \in k..(n + 1), NEW j \in k..(n + 1), i <= j PROVE b[i] <= b[j]
  <2>1. CASE i \in k..n /\ j \in k..n
    BY <1>6, <1>8, <1>d, <2>1
  <2>2. CASE i \in k..n /\ j = n + 1
    <3>1. b[i] = a[i] /\ a[i] \in Nat /\ a[n] \in Nat /\ a[i] <= a[n] /\ b[j] = a[n] + Len(F)
      BY <1>5, <1>6, <1>a, <2>2
    <3> QED BY <1>1, <3>1
  <2>3. CASE i = n + 1
    <3>1. j = n + 1
      BY <1>6, <1>8, <1>a, <2>3
    <3>2. b[n + 1] \in Nat
      BY <1>5, <1>6
    <3> QED BY <2>3, <3>1, <3>2
  <2> QED BY <1>6, <2>1, <2>2, <2>3
<1>9. Marks(u, k, b)
  BY <1>3, <1>5, <1>6, <1>8, <1>a DEF Marks, n
<1>10. FramesAt(x, u, k, b)
  <2>1. ASSUME NEW i \in (k + 1)..(n + 1)
        PROVE  \E g \in Framings :
                  /\ Sendable(u[i], g)
                  /\ b[i] = b[i - 1] + Len(FrameText(u[i], g))
                  /\ \A j \in 1..Len(FrameText(u[i], g)) :
                        x[(b[i - 1] - b[k]) + j] = FrameText(u[i], g)[j]
    <3>1. CASE i \in (k + 1)..n
      <4>1. u[i] = s[i] /\ b[i] = a[i] /\ b[i - 1] = a[i - 1] /\ b[k] = a[k]
        BY <1>3, <1>6, <1>a, <3>1
      <4> QED BY <1>c, <3>1, <4>1
    <3>2. CASE i = n + 1
      <4>1. u[i] = m /\ b[i] = a[n] + Len(F) /\ b[i - 1] = a[n] /\ b[k] = a[k]
        BY <1>3, <1>5, <1>6, <1>a, <3>2
      <4>2. \A j \in 1..Len(F) : x[(b[i - 1] - b[k]) + j] = F[j]
        BY <1>2, <1>4, <4>1
      <4> QED BY <4>1, <4>2 DEF F
    <3> QED BY <1>6, <3>1, <3>2
  <2> QED BY <1>3, <2>1 DEF FramesAt
<1>11. Len(x) = (b[Len(u)] - b[k]) + Len(<<>>)
  <2>1. b[k] = a[k] /\ a[k] \in Nat /\ a[n] \in Nat /\ Len(<<>>) = 0 /\ b[Len(u)] = a[n] + Len(F)
    BY <1>3, <1>5, <1>6, <1>a
  <2>2. Len(x) = (a[n] - a[k]) + Len(F)
    BY <1>2, <1>4
  <2> QED BY <1>1, <2>1, <2>2
<1>12. \A j \in 1..Len(<<>>) : x[(b[Len(u)] - b[k]) + j] = <<>>[j]
  OBVIOUS
<1>13. OnWire(x, u, k, <<>>, b)
  BY <1>9, <1>10, <1>11, <1>12 DEF OnWire
<1> QED BY <1>13 DEF x, u, F

-----------------------------------------------------------------------------
(* The syslog listener: steps.                                             *)

\* What a step changes of one connection.
OthersStay(c) == \A d \in Conns : d # c => conn'[d] = conn[d]

LEMMA ConnIs ==
    ASSUME SyslogTyped, NEW c \in Conns
    PROVE  /\ conn[c].phase \in ConnPhases /\ conn[c].wire \in Seq(Symbols)
           /\ conn[c].hung \in BOOLEAN /\ conn[c].shut \in BOOLEAN
BY DEF SyslogTyped, ConnStates

LEMMA PhaseSet ==
    ASSUME SyslogTyped, NEW c \in Conns, NEW p \in ConnPhases, conn' = [conn EXCEPT ![c].phase = p]
    PROVE  /\ conn' \in [Conns -> ConnStates] /\ OthersStay(c)
           /\ conn'[c].phase = p /\ conn'[c].wire = conn[c].wire /\ conn'[c].hung = conn[c].hung
BY DEF SyslogTyped, ConnStates, OthersStay

LEMMA WireSet ==
    ASSUME SyslogTyped, NEW c \in Conns, NEW w \in Seq(Symbols), conn' = [conn EXCEPT ![c].wire = w]
    PROVE  /\ conn' \in [Conns -> ConnStates] /\ OthersStay(c)
           /\ conn'[c].phase = conn[c].phase /\ conn'[c].wire = w /\ conn'[c].hung = conn[c].hung
BY DEF SyslogTyped, ConnStates, OthersStay

LEMMA HungSet ==
    ASSUME SyslogTyped, NEW c \in Conns, NEW w \in Seq(Symbols),
           conn' = [conn EXCEPT ![c].wire = w, ![c].hung = TRUE]
    PROVE  /\ conn' \in [Conns -> ConnStates] /\ OthersStay(c)
           /\ conn'[c].phase = conn[c].phase /\ conn'[c].wire = w /\ conn'[c].hung
BY DEF SyslogTyped, ConnStates, OthersStay

LEMMA Untracked ==
    ASSUME SyslogTyped, NEW c \in Conns, Untrack(c)
    PROVE  /\ conn' \in [Conns -> ConnStates] /\ OthersStay(c)
           /\ conn'[c].phase = "ended" /\ conn'[c].wire = <<>> /\ conn'[c].hung = conn[c].hung
<1>1. <<>> \in Seq(Symbols)
  OBVIOUS
<1> QED BY <1>1 DEF SyslogTyped, ConnStates, ConnPhases, OthersStay, Untrack

LEMMA AllShut ==
    ASSUME SyslogTyped, StopServer
    PROVE  /\ conn' \in [Conns -> ConnStates]
           /\ \A c \in Conns : /\ conn'[c].phase = conn[c].phase /\ conn'[c].wire = conn[c].wire
                               /\ conn'[c].hung = conn[c].hung
<1>1. ASSUME NEW c \in Conns
      PROVE  /\ conn'[c] \in ConnStates
             /\ conn'[c].phase = conn[c].phase /\ conn'[c].wire = conn[c].wire /\ conn'[c].hung = conn[c].hung
  <2>1. conn[c] \in ConnStates /\ conn'[c] = [conn[c] EXCEPT !.shut = @ \/ c \in tracked]
    BY DEF SyslogTyped, StopServer
  <2> DEFINE b == conn[c].shut \/ c \in tracked
  <2>2. b \in BOOLEAN
    OBVIOUS
  <2>3. conn'[c] = [conn[c] EXCEPT !.shut = b]
    BY <2>1
  <2> HIDE DEF b
  <2> QED BY <2>1, <2>2, <2>3 DEF ConnStates
<1>2. conn' = [c \in Conns |-> conn'[c]]
  BY DEF StopServer
<1> QED BY <1>1, <1>2

\* handle
LEMMA Handled ==
    ASSUME SyslogTyped, NEW c \in Conns \cup {Datagrams}, NEW payload \in Seq(Symbols), Handle(c, payload),
           NEW raw, raw = TrimSpace(payload)
    PROVE  /\ parsed' \in [Conns \cup {Datagrams} -> Seq(Understandings)]
           /\ \A d \in Conns \cup {Datagrams} : d # c => parsed'[d] = parsed[d]
           /\ parsed[c] \in Seq(Understandings)
           /\ raw = <<>> => parsed'[c] = parsed[c]
           /\ raw # <<>> => parsed'[c] = Append(parsed[c], Parse(raw)) /\ Parse(raw) \in Understandings
<1>0. parsed \in [Conns \cup {Datagrams} -> Seq(Understandings)]
  BY DEF SyslogTyped
<1>1. raw \in Seq(Symbols)
  BY Trimmed
<1>2. Parse(raw) \in Understandings
  BY <1>1 DEF Understandings
<1>3. CASE raw = <<>>
  <2>1. parsed' = parsed
    BY <1>3 DEF Handle
  <2> QED BY <1>0, <1>3, <2>1
<1>4. CASE raw # <<>>
  <2>1. parsed' = [parsed EXCEPT ![c] = Append(@, Parse(raw))]
    BY <1>4 DEF Handle
  <2>2. parsed[c] \in Seq(Understandings)
    BY <1>0
  <2>3. Append(parsed[c], Parse(raw)) \in Seq(Understandings)
    BY <1>2, <2>2
  <2> QED BY <1>0, <1>2, <1>4, <2>1, <2>2, <2>3
<1> QED BY <1>3, <1>4

\* A frame that is read lies on the wire.
LEMMA PayloadIs ==
    ASSUME NEW w \in Seq(Symbols)
    PROVE  /\ PartialPayload(w) \in Seq(Symbols)
           /\ FrameLength(w) > 0 => /\ FrameLength(w) \in 1..Len(w)
                                    /\ FramePayload(w) \in Seq(Symbols)
                                    /\ SubSeq(w, FrameLength(w) + 1, Len(w)) \in Seq(Symbols)
<1>1. PartialPayload(w) \in Seq(Symbols)
  <2>1. <<>> \in Seq(Symbols)
    OBVIOUS
  <2> QED BY <2>1 DEF PartialPayload
<1>2. Len(w) \in Nat
  OBVIOUS
<1>3. ASSUME FrameLength(w) > 0 PROVE FrameLength(w) \in 1..Len(w)
  <2>1. CASE Undecided(w) \/ Implausible(w)
    BY <1>3, <2>1, LengthIs
  <2>2. CASE ~Undecided(w) /\ Counted(w) /\ ~Implausible(w)
    <3>1. Number(w[1])
      BY <2>2 DEF Counted
    <3>2. PICK n \in DOMAIN Numerals : Numerals[n] = w[1]
      BY <3>1 DEF Number
    <3>3. Atoi(w[1]) = n /\ n \in Nat
      BY <3>2, NumeralRead
    <3>4. FrameLength(w) = IF Len(w) >= 2 + Atoi(w[1]) THEN 2 + Atoi(w[1]) ELSE 0
      BY <2>2, LengthIs
    <3> QED BY <1>2, <1>3, <3>3, <3>4
  <2>3. CASE ~Undecided(w) /\ ~Counted(w) /\ ~Implausible(w)
    <3>1. FrameLength(w) = Find(w, LF, 1)
      BY <2>3, LengthIs
    <3>2. \E i \in 1..Len(w) : w[i] = LF
      <4>1. Find(w, LF, 1) # 0
        BY <1>3, <3>1
      <4> QED BY <4>1, FindNone
    <3> DEFINE S == {i \in Nat : i # 0 /\ i <= Len(w) /\ w[i] = LF}
    <3>3. S # {} /\ S \in SUBSET Nat
      BY <1>2, <3>2
    <3> DEFINE n == Min(S)
    <3>4. n \in S /\ \A i \in S : n <= i
      BY <3>3, MinIs
    <3> HIDE DEF n
    <3>5. n \in 1..Len(w) /\ w[n] = LF
      BY <1>2, <3>4
    <3>6. \A i \in 1..(n - 1) : w[i] # LF
      BY <1>2, <3>4, <3>5
    <3>7. Find(w, LF, 1) = n
      BY <3>5, <3>6, FindIs
    <3> QED BY <3>1, <3>5, <3>7
  <2> QED BY <2>1, <2>2, <2>3
<1>4. ASSUME FrameLength(w) > 0
      PROVE  FramePayload(w) \in Seq(Symbols) /\ SubSeq(w, FrameLength(w) + 1, Len(w)) \in Seq(Symbols)
  <2> DEFINE l == FrameLength(w)
  <2>1. l \in 1..Len(w)
    BY <1>3, <1>4
  <2> HIDE DEF l
  <2>2. SubSeq(w, 3, l) \in Seq(Symbols) /\ SubSeq(w, 1, l) \in Seq(Symbols) /\ SubSeq(w, l + 1, Len(w)) \in Seq(Symbols)
    BY <1>2, <2>1
  <2>3. FramePayload(w) = SubSeq(w, 3, l) \/ FramePayload(w) = SubSeq(w, 1, l)
    BY DEF FramePayload, l
  <2> QED BY <2>2, <2>3 DEF l
<1> QED BY <1>1, <1>3, <1>4

\* The connections served are those that are tracked.
LEMMA SameTracked ==
    ASSUME Tracking, tracked' = tracked,
           \A d \in Conns : (conn'[d].phase = "served") <=> (conn[d].phase = "served")
    PROVE  Tracking'
BY DEF Tracking

LEMMA LessTracked ==
    ASSUME SyslogTyped, Tracking, NEW c \in Conns, Untrack(c)
    PROVE  Tracking'
<1>1. tracked' = tracked \ {c}
  BY DEF Untrack
<1>2. conn'[c].phase = "ended" /\ \A d \in Conns : d # c => conn'[d] = conn[d]
  BY Untracked DEF OthersStay
<1>3. tracked' = {d \in Conns : conn'[d].phase = "served"}
  BY <1>1, <1>2 DEF Tracking
<1>4. IsFiniteSet(tracked) /\ Cardinality(tracked) \in Nat /\ Cardinality(tracked) <= MaxConns
  BY FS_CardinalityType DEF Tracking
<1>5. /\ IsFiniteSet(tracked')
      /\ Cardinality(tracked') = IF c \in tracked THEN Cardinality(tracked) - 1 ELSE Cardinality(tracked)
  BY <1>1, <1>4, FS_RemoveElement
<1>6. MaxConns \in Nat
  BY SyslogAssumption
<1>7. Cardinality(tracked') <= MaxConns
  BY <1>4, <1>5, <1>6
<1> QED BY <1>3, <1>5, <1>7 DEF Tracking

LEMMA MoreTracked ==
    ASSUME SyslogTyped, Tracking, NEW c \in Conns, conn[c].phase = "accepted", MayTrack,
           tracked' = tracked \cup {c}, conn' = [conn EXCEPT ![c].phase = "served"]
    PROVE  Tracking'
<1>1. "served" \in ConnPhases
  BY DEF ConnPhases
<1>2. conn'[c].phase = "served" /\ \A d \in Conns : d # c => conn'[d] = conn[d]
  BY <1>1, PhaseSet DEF OthersStay
<1>3. tracked' = {d \in Conns : conn'[d].phase = "served"}
  BY <1>2 DEF Tracking
<1>4. /\ IsFiniteSet(tracked) /\ Cardinality(tracked) \in Nat /\ Cardinality(tracked) < MaxConns
      /\ c \notin tracked
  BY FS_CardinalityType DEF Tracking, MayTrack
<1>5. IsFiniteSet(tracked') /\ Cardinality(tracked') = Cardinality(tracked) + 1
  BY <1>4, FS_AddElement
<1>6. MaxConns \in Nat
  BY SyslogAssumption
<1>7. Cardinality(tracked') <= MaxConns
  BY <1>4, <1>5, <1>6
<1> QED BY <1>3, <1>5, <1>7 DEF Tracking

\* What a step leaves of a connection, and of the histories.
LEMMA StillTyped ==
    ASSUME SyslogTyped, conn' \in [Conns -> ConnStates],
           parsed' \in [Conns \cup {Datagrams} -> Seq(Understandings)],
           UNCHANGED <<stop, logged, cutOff>>
    PROVE  SyslogTyped'
BY DEF SyslogTyped

SyslogKept == SyslogTyped /\ Tracking

LEMMA SyslogStart ==
    SyslogInit => SyslogKept
<1> SUFFICES ASSUME SyslogInit PROVE SyslogKept
  OBVIOUS
<1>1. <<>> \in Seq(Symbols) /\ <<>> \in Seq(Messages) /\ <<>> \in Seq(Understandings) /\ "idle" \in ConnPhases
  BY DEF ConnPhases
<1>2. SyslogTyped
  <2>1. conn \in [Conns -> ConnStates]
    BY <1>1 DEF SyslogInit, ConnStates
  <2>2. cutOff \in [Conns -> Seq(Symbols)] /\ stop = "no"
    BY <1>1 DEF SyslogInit
  <2>3. logged \in [Conns \cup {Datagrams} -> Seq(Messages)]
    BY <1>1 DEF SyslogInit
  <2>4. parsed \in [Conns \cup {Datagrams} -> Seq(Understandings)]
    BY <1>1 DEF SyslogInit
  <2> QED BY <2>1, <2>2, <2>3, <2>4 DEF SyslogTyped
<1>3. Tracking
  <2>1. tracked = {} /\ \A c \in Conns : conn[c].phase = "idle"
    BY DEF SyslogInit
  <2>2. IsFiniteSet(tracked) /\ Cardinality(tracked) = 0 /\ MaxConns \in Nat
    BY <2>1, FS_EmptySet, SyslogAssumption
  <2> QED BY <2>1, <2>2 DEF Tracking
<1> QED BY <1>2, <1>3 DEF SyslogKept

\* A connection is dialed or accepted.
LEMMA PhaseStep ==
    ASSUME SyslogKept, NEW c \in Conns, NEW p \in {"dialed", "accepted"}, conn[c].phase # "served",
           conn' = [conn EXCEPT ![c].phase = p],
           UNCHANGED <<tracked, stop, logged, cutOff, parsed>>
    PROVE  SyslogKept'
<1>1. p \in ConnPhases /\ p # "served"
  BY DEF ConnPhases
<1>2. conn' \in [Conns -> ConnStates] /\ conn'[c].phase = p /\ \A d \in Conns : d # c => conn'[d] = conn[d]
  BY <1>1, PhaseSet DEF SyslogKept, OthersStay
<1>3. SyslogTyped'
  BY <1>2, StillTyped DEF SyslogKept, SyslogTyped
<1>4. Tracking'
  BY <1>1, <1>2, SameTracked DEF SyslogKept
<1> QED BY <1>3, <1>4 DEF SyslogKept

LEMMA TrackStep ==
    ASSUME SyslogKept, NEW c \in Conns, TrackConn(c)
    PROVE  SyslogKept'
<1>0. SyslogTyped /\ Tracking /\ conn[c].phase = "accepted" /\ UNCHANGED <<stop, logged, cutOff, parsed>>
  BY DEF SyslogKept, TrackConn
<1>1. CASE MayTrack
  <2>1. conn' = [conn EXCEPT ![c].phase = "served"] /\ tracked' = tracked \cup {c} /\ "served" \in ConnPhases
    BY <1>1 DEF TrackConn, ConnPhases
  <2>2. conn' \in [Conns -> ConnStates]
    BY <1>0, <2>1, PhaseSet
  <2>3. SyslogTyped'
    BY <1>0, <2>2, StillTyped DEF SyslogTyped
  <2>4. Tracking'
    BY <1>0, <1>1, <2>1, MoreTracked
  <2> QED BY <2>3, <2>4 DEF SyslogKept
<1>2. CASE ~MayTrack
  <2>1. Untrack(c)
    BY <1>2 DEF TrackConn
  <2>2. SyslogTyped'
    BY <1>0, <2>1, Untracked, StillTyped DEF SyslogTyped
  <2> QED BY <1>0, <2>1, <2>2, LessTracked DEF SyslogKept
<1> QED BY <1>1, <1>2

LEMMA FrameStep ==
    ASSUME SyslogKept, NEW c \in Conns, ServeFrame(c)
    PROVE  SyslogKept'
<1>0. /\ SyslogTyped /\ Tracking /\ FrameLength(conn[c].wire) > 0 /\ conn[c].wire \in Seq(Symbols)
      /\ UNCHANGED <<tracked, stop, logged, cutOff>> /\ Handle(c, FramePayload(conn[c].wire))
  BY ConnIs DEF SyslogKept, ServeFrame
<1> DEFINE v == SubSeq(conn[c].wire, FrameLength(conn[c].wire) + 1, Len(conn[c].wire))
<1>1. v \in Seq(Symbols) /\ FramePayload(conn[c].wire) \in Seq(Symbols)
  BY <1>0, PayloadIs
<1>2. conn' = [conn EXCEPT ![c].wire = v]
  BY DEF ServeFrame
<1> HIDE DEF v
<1>3. conn' \in [Conns -> ConnStates] /\ conn'[c].phase = conn[c].phase /\ \A d \in Conns : d # c => conn'[d] = conn[d]
  BY <1>0, <1>1, <1>2, WireSet DEF OthersStay
<1>4. parsed' \in [Conns \cup {Datagrams} -> Seq(Understandings)]
  BY <1>0, <1>1, Handled
<1>5. SyslogTyped'
  BY <1>0, <1>3, <1>4, StillTyped
<1>6. Tracking'
  BY <1>0, <1>3, SameTracked
<1> QED BY <1>5, <1>6 DEF SyslogKept

\* A connection ends after its last line.
LEMMA LastStep ==
    ASSUME SyslogKept, NEW c \in Conns, Handle(c, PartialPayload(conn[c].wire)), Untrack(c),
           UNCHANGED <<stop, logged, cutOff>>
    PROVE  SyslogKept'
<1>0. SyslogTyped /\ Tracking /\ conn[c].wire \in Seq(Symbols)
  BY ConnIs DEF SyslogKept
<1>1. PartialPayload(conn[c].wire) \in Seq(Symbols)
  BY <1>0, PayloadIs
<1>2. parsed' \in [Conns \cup {Datagrams} -> Seq(Understandings)]
  BY <1>0, <1>1, Handled
<1>3. SyslogTyped'
  BY <1>0, <1>2, Untracked, StillTyped
<1> QED BY <1>0, <1>3, LessTracked DEF SyslogKept

LEMMA DatagramStep ==
    ASSUME SyslogKept, NEW m \in Messages, ReceiveDatagram(m)
    PROVE  SyslogKept'
<1>0. /\ SyslogTyped /\ Tracking /\ UNCHANGED <<conn, tracked, stop, cutOff>>
      /\ Handle(Datagrams, MessageText(m)) /\ MessageText(m) \in Seq(Symbols)
      /\ logged' = [logged EXCEPT ![Datagrams] = Append(@, m)]
  BY TextsAre DEF SyslogKept, ReceiveDatagram
<1>1. parsed' \in [Conns \cup {Datagrams} -> Seq(Understandings)]
  BY <1>0, Handled
<1>2. logged' \in [Conns \cup {Datagrams} -> Seq(Messages)]
  BY <1>0 DEF SyslogTyped
<1>3. SyslogTyped'
  BY <1>0, <1>1, <1>2 DEF SyslogTyped
<1>4. Tracking'
  BY <1>0, SameTracked
<1> QED BY <1>3, <1>4 DEF SyslogKept

\* The frame of a message, whole or in part.
LEMMA AnyFrame ==
    ASSUME NEW m \in Messages, NEW f \in Framings
    PROVE  /\ FrameText(m, f) \in Seq(Symbols)
           /\ \A n \in Nat : n < Len(FrameText(m, f)) => SubSeq(FrameText(m, f), 1, n) \in Seq(Symbols)
<1>1. MessageText(m) \in Seq(Symbols) /\ Numerals[Len(MessageText(m))] \in Symbols
  BY TextsAre, SyslogAssumption, TokensAre
<1>2. <<Numerals[Len(MessageText(m))], SP>> \in Seq(Symbols) /\ <<LF>> \in Seq(Symbols)
  <2>1. \A x, y \in Symbols : <<x, y>> \in Seq(Symbols) /\ <<x>> \in Seq(Symbols)
    OBVIOUS
  <2> QED BY <1>1, <2>1, TokensAre
<1>3. FrameText(m, f) \in Seq(Symbols)
  <2>1. FrameText(m, f) = <<Numerals[Len(MessageText(m))], SP>> \o MessageText(m)
        \/ FrameText(m, f) = MessageText(m) \o <<LF>>
    BY DEF FrameText
  <2> QED BY <1>1, <1>2, <2>1, TextConcat
<1> DEFINE F == FrameText(m, f)
<1> HIDE DEF F
<1>4. F \in Seq(Symbols) => \A n \in Nat : n < Len(F) => SubSeq(F, 1, n) \in Seq(Symbols)
  OBVIOUS
<1> QED BY <1>3, <1>4 DEF F

LEMMA SendStep ==
    ASSUME SyslogKept, NEW c \in Conns, NEW m \in Messages, NEW f \in Framings, SendFrame(c, m, f)
    PROVE  SyslogKept'
<1>0. /\ SyslogTyped /\ Tracking /\ conn[c].wire \in Seq(Symbols) /\ FrameText(m, f) \in Seq(Symbols)
      /\ UNCHANGED <<tracked, stop, cutOff, parsed>>
      /\ logged' = [logged EXCEPT ![c] = Append(@, m)]
  BY AnyFrame, ConnIs DEF SyslogKept, SendFrame
<1> DEFINE v == conn[c].wire \o FrameText(m, f)
<1>1. v \in Seq(Symbols)
  BY <1>0, TextConcat
<1>2. conn' = [conn EXCEPT ![c].wire = v]
  BY DEF SendFrame
<1> HIDE DEF v
<1>3. conn' \in [Conns -> ConnStates] /\ conn'[c].phase = conn[c].phase /\ \A d \in Conns : d # c => conn'[d] = conn[d]
  BY <1>0, <1>1, <1>2, WireSet DEF OthersStay
<1>4. logged' \in [Conns \cup {Datagrams} -> Seq(Messages)]
  BY <1>0 DEF SyslogTyped
<1>5. SyslogTyped'
  BY <1>0, <1>3, <1>4 DEF SyslogTyped
<1>6. Tracking'
  BY <1>0, <1>3, SameTracked
<1> QED BY <1>5, <1>6 DEF SyslogKept

LEMMA CutStep ==
    ASSUME SyslogKept, NEW c \in Conns, NEW m \in Messages, NEW f \in Framings, NEW n \in Cuts,
           SendCut(c, m, f, n)
    PROVE  SyslogKept'
<1> DEFINE r == SubSeq(FrameText(m, f), 1, n)
<1>1. n \in Nat /\ n < Len(FrameText(m, f))
  BY SyslogAssumption DEF SendCut
<1>2. r \in Seq(Symbols)
  BY <1>1, AnyFrame
<1>3. conn' = [conn EXCEPT ![c].wire = @ \o r, ![c].hung = TRUE] /\ cutOff' = [cutOff EXCEPT ![c] = r]
  BY DEF SendCut
<1> HIDE DEF r
<1>0. /\ SyslogTyped /\ Tracking /\ conn[c].wire \in Seq(Symbols)
      /\ UNCHANGED <<tracked, stop, logged, parsed>>
  BY ConnIs DEF SyslogKept, SendCut
<1> DEFINE v == conn[c].wire \o r
<1>4. v \in Seq(Symbols) /\ conn' = [conn EXCEPT ![c].wire = v, ![c].hung = TRUE]
  BY <1>0, <1>2, <1>3, TextConcat
<1> HIDE DEF v
<1>5. conn' \in [Conns -> ConnStates] /\ conn'[c].phase = conn[c].phase /\ \A d \in Conns : d # c => conn'[d] = conn[d]
  BY <1>0, <1>4, HungSet DEF OthersStay
<1>6. cutOff' \in [Conns -> Seq(Symbols)]
  BY <1>0, <1>2, <1>3 DEF SyslogTyped
<1>7. SyslogTyped'
  BY <1>0, <1>5, <1>6 DEF SyslogTyped
<1>8. Tracking'
  BY <1>0, <1>5, SameTracked
<1> QED BY <1>7, <1>8 DEF SyslogKept

LEMMA SyslogKeeps ==
    ASSUME SyslogKept, [SyslogNext]_syslogVars
    PROVE  SyslogKept'
<1>0. SyslogTyped /\ Tracking
  BY DEF SyslogKept
<1>1. ASSUME NEW c \in Conns, Dial(c) \/ Accept(c) PROVE SyslogKept'
  <2>1. PICK p \in {"dialed", "accepted"} : conn[c].phase # "served" /\ conn' = [conn EXCEPT ![c].phase = p]
    BY <1>1 DEF Dial, Accept
  <2>2. UNCHANGED <<tracked, stop, logged, cutOff, parsed>>
    BY <1>1 DEF Dial, Accept
  <2> QED BY <2>1, <2>2, PhaseStep
<1>2. ASSUME NEW c \in Conns, ReadFails(c) \/ IdleTimeout(c) PROVE SyslogKept'
  BY <1>2, LastStep DEF ReadFails, IdleTimeout
<1>3. ASSUME NEW c \in Conns, FindsClosed(c) PROVE SyslogKept'
  <2>1. Untrack(c) /\ UNCHANGED <<stop, logged, cutOff, parsed>>
    BY <1>3 DEF FindsClosed
  <2>2. SyslogTyped'
    BY <1>0, <2>1, Untracked, StillTyped DEF SyslogTyped
  <2> QED BY <1>0, <2>1, <2>2, LessTracked DEF SyslogKept
<1>4. CASE AcceptFails \/ ReadUDPFails \/ UNCHANGED syslogVars
  BY <1>0, <1>4 DEF AcceptFails, ReadUDPFails, syslogVars, SyslogKept, SyslogTyped, Tracking
<1>5. CASE StopServer
  <2>1. /\ conn' \in [Conns -> ConnStates] /\ \A c \in Conns : conn'[c].phase = conn[c].phase
        /\ stop' = "waiting" /\ UNCHANGED <<tracked, logged, cutOff, parsed>>
    BY <1>0, <1>5, AllShut DEF StopServer
  <2>2. SyslogTyped'
    BY <1>0, <2>1 DEF SyslogTyped
  <2> QED BY <1>0, <2>1, <2>2, SameTracked DEF SyslogKept
<1>6. CASE StopDone
  BY <1>0, <1>6 DEF StopDone, SyslogKept, SyslogTyped, Tracking
<1> QED BY <1>1, <1>2, <1>3, <1>4, <1>5, <1>6, TrackStep, FrameStep, DatagramStep, SendStep, CutStep DEF SyslogNext

\* Whatever is sent and cut off, no more connections are served than the cap, and all
\* of those are tracked: Stop closes them.
THEOREM ConnsCapped == SyslogSpec => []SyslogTypeOK
<1>1. SyslogKept => SyslogTypeOK
  BY DEF SyslogKept, SyslogTyped, Tracking, SyslogTypeOK, ConnStates, ConnPhases
<1> QED BY <1>1, SyslogStart, SyslogKeeps, PTL DEF SyslogSpec

-----------------------------------------------------------------------------
(* The syslog listener: what arrives.                                      *)

LEMMA ParsesToSend ==
    ASSUME ParsesBack, NEW m \in Messages
    PROVE  /\ MessageText(m) # <<>> /\ TrimSpace(MessageText(m)) # <<>>
           /\ Parse(TrimSpace(MessageText(m))) = Meant(m)
<1>1. TrimSpace(MessageText(m)) # <<>> /\ Parse(TrimSpace(MessageText(m))) = Meant(m)
  BY DEF ParsesBack
<1>2. TrimSpace(<<>>) = <<>>
  BY DEF TrimSpace
<1> QED BY <1>1, <1>2

\* Everything that belongs to the other connections stays.
ElseStays(c) ==
    \A d \in Conns \cup {Datagrams} :
       d # c => /\ logged'[d] = logged[d] /\ parsed'[d] = parsed[d]
                /\ d \in Conns => conn'[d] = conn[d] /\ cutOff'[d] = cutOff[d]

LEMMA ServedBy ==
    ASSUME Served, NEW c \in Conns, ElseStays(c), Faithful(conn'[c], cutOff'[c], logged'[c], parsed'[c])
    PROVE  Served'
<1>1. ASSUME NEW d \in Conns PROVE Faithful(conn'[d], cutOff'[d], logged'[d], parsed'[d])
  <2>1. CASE d = c
    BY <2>1
  <2>2. CASE d # c
    <3>1. /\ conn'[d] = conn[d] /\ cutOff'[d] = cutOff[d] /\ logged'[d] = logged[d]
          /\ parsed'[d] = parsed[d]
      BY <2>2 DEF ElseStays
    <3>2. Faithful(conn[d], cutOff[d], logged[d], parsed[d])
      BY DEF Served
    <3> QED BY <3>1, <3>2
  <2> QED BY <2>1, <2>2
<1>2. parsed'[Datagrams] = parsed[Datagrams] /\ logged'[Datagrams] = logged[Datagrams]
  BY SyslogAssumption DEF ElseStays
<1> QED BY <1>1, <1>2 DEF Served

\* A connection stays as it is but for its phase, or ends with nothing more.
LEMMA SameConn ==
    ASSUME NEW cn, NEW cut, NEW msgs, NEW evs, Faithful(cn, cut, msgs, evs),
           NEW new, new.wire = cn.wire, new.hung = cn.hung, cn.phase # "ended", new.phase # "ended"
    PROVE  Faithful(new, cut, msgs, evs)
BY DEF Faithful

LEMMA ConnEnds ==
    ASSUME NEW cn, NEW cut, NEW msgs \in Seq(Messages), NEW evs, Faithful(cn, cut, msgs, evs),
           NEW new, new.hung = cn.hung, cn.phase # "ended", new.phase = "ended",
           Len(evs) \in Nat
    PROVE  Faithful(new, cut, msgs, evs)
<1>1. Len(evs) <= Len(msgs) /\ Len(msgs) \in Nat
  BY DEF Faithful, OnWire, Marks
<1>2. Len(evs) <= Len(msgs) + (IF cut # <<>> THEN 1 ELSE 0)
  BY <1>1
<1> QED BY <1>2 DEF Faithful

\* One more event, of the message that is next or of what was cut off.
LEMMA OneMore ==
    ASSUME NEW evs \in Seq(Understandings), NEW msgs \in Seq(Messages), Understood(evs, msgs),
           NEW e \in Understandings, Len(evs) + 1 <= Len(msgs) => e = Meant(msgs[Len(evs) + 1])
    PROVE  Understood(Append(evs, e), msgs)
<1> DEFINE l == Len(evs)
<1> DEFINE u == Append(evs, e)
<1>1. l \in Nat /\ Len(u) = l + 1 /\ u[l + 1] = e /\ \A i \in 1..l : u[i] = evs[i]
  OBVIOUS
<1>2. \A i \in 1..l : i <= Len(msgs) => evs[i] = Meant(msgs[i])
  BY DEF Understood
<1>3. l + 1 <= Len(msgs) => e = Meant(msgs[l + 1])
  OBVIOUS
<1> HIDE DEF l, u
<1>4. \A i \in 1..(l + 1) : i \in 1..l \/ i = l + 1
  BY <1>1
<1>5. \A i \in 1..Len(u) : i <= Len(msgs) => u[i] = Meant(msgs[i])
  BY <1>1, <1>2, <1>3, <1>4
<1> QED BY <1>5 DEF Understood, u

\* A frame that is there to be read is that of the message that is next.
LEMMA NextFrame ==
    ASSUME NEW cn, cn.wire \in Seq(Symbols), cn.phase # "ended", NEW cut \in Seq(Symbols),
           NEW msgs \in Seq(Messages), NEW evs, Faithful(cn, cut, msgs, evs),
           FrameLength(cn.wire) > 0
    PROVE  LET k == Len(evs)
               m == msgs[k + 1]
           IN  /\ k + 1 \in 1..Len(msgs) /\ k \in Nat /\ m \in Messages
               /\ TrimSpace(FramePayload(cn.wire)) = TrimSpace(MessageText(m))
               /\ \E a : OnWire(SubSeq(cn.wire, FrameLength(cn.wire) + 1, Len(cn.wire)), msgs, k + 1, cut, a)
<1> DEFINE k == Len(evs)
<1> DEFINE w == cn.wire
<1>1. PICK a : OnWire(w, msgs, k, cut, a)
  BY DEF Faithful
<1>2. CutShort(cut)
  BY DEF Faithful
<1>3. w \in Seq(Symbols) /\ FrameLength(w) > 0
  OBVIOUS
<1>4. k \in Nat
  BY <1>1 DEF OnWire, Marks
<1> HIDE DEF k, w
<1>5. k # Len(msgs)
  <2> SUFFICES ASSUME k = Len(msgs) PROVE FALSE
    OBVIOUS
  <2>1. w = cut
    BY <1>1, <1>3, WireEmpty
  <2>2. CASE cut = <<>>
    <3>1. FrameLength(w) = 0
      BY <2>1, <2>2, LengthIs DEF Undecided
    <3> QED BY <1>3, <3>1
  <2>3. CASE cut # <<>>
    <3>1. PICK m, f : Sendable(m, f) /\ \E n \in Nat : n < Len(FrameText(m, f)) /\ cut = SubSeq(FrameText(m, f), 1, n)
      BY <1>2, <2>3 DEF CutShort
    <3>2. FrameLength(w) = 0
      BY <2>1, <3>1, CutRead
    <3> QED BY <1>3, <3>2
  <2> QED BY <2>2, <2>3
<1>6. PICK f : /\ Sendable(msgs[k + 1], f)
               /\ Begins(w, FrameText(msgs[k + 1], f))
               /\ OnWire(SubSeq(w, Len(FrameText(msgs[k + 1], f)) + 1, Len(w)), msgs, k + 1, cut, a)
  BY <1>1, <1>3, <1>5, WireHead
<1>7. k + 1 \in 1..Len(msgs)
  BY <1>1, <1>3, <1>5, WireHead
<1>8. /\ FrameLength(w) = Len(FrameText(msgs[k + 1], f))
      /\ TrimSpace(FramePayload(w)) = TrimSpace(MessageText(msgs[k + 1]))
  BY <1>3, <1>6, FrameRead
<1>9. msgs[k + 1] \in Messages
  BY <1>6 DEF Sendable
<1> QED BY <1>4, <1>6, <1>7, <1>8, <1>9 DEF k, w

\* When there is none, what is left comes of no message that was sent whole.
LEMMA NoFrame ==
    ASSUME NEW cn, cn.wire \in Seq(Symbols), cn.phase # "ended", NEW cut \in Seq(Symbols),
           NEW msgs \in Seq(Messages), NEW evs, Faithful(cn, cut, msgs, evs),
           FrameLength(cn.wire) = 0
    PROVE  /\ Len(evs) <= Len(msgs)
           /\ \/ PartialPayload(cn.wire) = <<>>
              \/ Len(evs) = Len(msgs) /\ cut # <<>>
<1> DEFINE k == Len(evs)
<1> DEFINE w == cn.wire
<1>1. PICK a : OnWire(w, msgs, k, cut, a)
  BY DEF Faithful
<1>2. w \in Seq(Symbols) /\ FrameLength(w) = 0
  OBVIOUS
<1>3. k <= Len(msgs)
  BY <1>1 DEF OnWire, Marks
<1> HIDE DEF k, w
<1>4. CASE k = Len(msgs)
  <2>1. w = cut
    BY <1>1, <1>2, <1>4, WireEmpty
  <2>2. cut = <<>> => PartialPayload(w) = <<>>
    BY <2>1 DEF PartialPayload, Undecided
  <2> QED BY <1>3, <1>4, <2>2 DEF k, w
<1>5. CASE k # Len(msgs)
  <2>1. PICK f : Sendable(msgs[k + 1], f) /\ Begins(w, FrameText(msgs[k + 1], f))
    BY <1>1, <1>2, <1>5, WireHead
  <2>2. PartialPayload(w) = <<>>
    BY <1>2, <2>1, FrameRead
  <2> QED BY <1>3, <2>2 DEF k, w
<1> QED BY <1>4, <1>5

LEMMA ServedTypes ==
    ASSUME SyslogTyped, NEW c \in Conns
    PROVE  /\ c \in Conns \cup {Datagrams}
           /\ cutOff[c] \in Seq(Symbols) /\ logged[c] \in Seq(Messages) /\ parsed[c] \in Seq(Understandings)
           /\ Len(parsed[c]) \in Nat
BY DEF SyslogTyped

LEMMA ServeFaithful ==
    ASSUME ParsesBack, SyslogTyped, Served, NEW c \in Conns, ServeFrame(c)
    PROVE  Served'
<1> DEFINE w == conn[c].wire
<1> DEFINE k == Len(parsed[c])
<1> DEFINE m == logged[c][k + 1]
<1> DEFINE v == SubSeq(w, FrameLength(w) + 1, Len(w))
<1>1. /\ w \in Seq(Symbols) /\ FrameLength(w) > 0 /\ conn[c].phase = "served"
      /\ Handle(c, FramePayload(w)) /\ conn' = [conn EXCEPT ![c].wire = v]
      /\ UNCHANGED <<logged, cutOff>>
  BY ConnIs DEF ServeFrame
<1>2. Faithful(conn[c], cutOff[c], logged[c], parsed[c])
  BY DEF Served
<1>3. /\ k + 1 \in 1..Len(logged[c]) /\ k \in Nat /\ m \in Messages
      /\ TrimSpace(FramePayload(w)) = TrimSpace(MessageText(m))
      /\ \E a : OnWire(v, logged[c], k + 1, cutOff[c], a)
  <2>1. conn[c].phase # "ended" /\ conn[c].wire \in Seq(Symbols) /\ FrameLength(conn[c].wire) > 0
    BY <1>1
  <2> QED BY <1>2, <2>1, ServedTypes, NextFrame
<1> HIDE DEF w, k, m, v
<1>4. v \in Seq(Symbols) /\ FramePayload(w) \in Seq(Symbols)
  BY <1>1, PayloadIs DEF v
<1>5. Parse(TrimSpace(FramePayload(w))) = Meant(m) /\ TrimSpace(FramePayload(w)) # <<>>
  BY <1>3, ParsesToSend
<1>6. /\ parsed'[c] = Append(parsed[c], Meant(m)) /\ Meant(m) \in Understandings
      /\ \A d \in Conns \cup {Datagrams} : d # c => parsed'[d] = parsed[d]
  BY <1>1, <1>4, <1>5, ServedTypes, Handled
<1>7. /\ conn'[c].phase = "served" /\ conn'[c].wire = v /\ conn'[c].hung = conn[c].hung
      /\ \A d \in Conns : d # c => conn'[d] = conn[d]
  BY <1>1, <1>4, WireSet DEF OthersStay
<1>8. Faithful(conn'[c], cutOff[c], logged[c], parsed'[c])
  <2>1. parsed[c] \in Seq(Understandings) /\ logged[c] \in Seq(Messages)
    BY ServedTypes
  <2>2. Len(parsed'[c]) = k + 1
    BY <1>6, <2>1 DEF k
  <2>3. Understood(parsed'[c], logged[c])
    <3>1. Understood(parsed[c], logged[c]) /\ (Len(parsed[c]) + 1 <= Len(logged[c]) => Meant(m) = Meant(logged[c][Len(parsed[c]) + 1]))
      BY <1>2 DEF Faithful, m, k
    <3> QED BY <1>6, <2>1, <3>1, OneMore
  <2>4. CutShort(cutOff[c]) /\ (cutOff[c] # <<>> => conn'[c].hung)
    BY <1>2, <1>7 DEF Faithful
  <2>5. \E a : OnWire(conn'[c].wire, logged[c], Len(parsed'[c]), cutOff[c], a)
    BY <1>3, <1>7, <2>2
  <2> QED BY <1>7, <2>3, <2>4, <2>5 DEF Faithful
<1>9. ElseStays(c)
  BY <1>1, <1>6, <1>7 DEF ElseStays
<1> QED BY <1>1, <1>8, <1>9, ServedBy

LEMMA LastFaithful ==
    ASSUME SyslogTyped, Served, NEW c \in Conns, Waiting(c),
           Handle(c, PartialPayload(conn[c].wire)), Untrack(c), UNCHANGED <<logged, cutOff>>
    PROVE  Served'
<1> DEFINE w == conn[c].wire
<1> DEFINE e == Parse(TrimSpace(PartialPayload(w)))
<1>1. conn[c].phase # "ended" /\ w \in Seq(Symbols) /\ FrameLength(w) = 0
  BY ConnIs DEF Waiting
<1>2. Faithful(conn[c], cutOff[c], logged[c], parsed[c])
  BY DEF Served
<1>3. /\ cutOff[c] \in Seq(Symbols) /\ logged[c] \in Seq(Messages) /\ parsed[c] \in Seq(Understandings)
      /\ Len(parsed[c]) \in Nat /\ Len(logged[c]) \in Nat
  BY ServedTypes
<1>4. /\ Len(parsed[c]) <= Len(logged[c])
      /\ PartialPayload(w) = <<>> \/ (Len(parsed[c]) = Len(logged[c]) /\ cutOff[c] # <<>>)
  BY <1>1, <1>2, <1>3, NoFrame
<1>5. /\ conn'[c].phase = "ended" /\ conn'[c].hung = conn[c].hung
      /\ \A d \in Conns : d # c => conn'[d] = conn[d]
  BY Untracked DEF OthersStay
<1>6. /\ \A d \in Conns \cup {Datagrams} : d # c => parsed'[d] = parsed[d]
      /\ PartialPayload(w) = <<>> => parsed'[c] = parsed[c]
      /\ parsed'[c] = parsed[c] \/ (parsed'[c] = Append(parsed[c], e) /\ e \in Understandings)
  <2>1. PartialPayload(w) \in Seq(Symbols) /\ Handle(c, PartialPayload(w))
    BY <1>1, PayloadIs
  <2>2. TrimSpace(<<>>) = <<>>
    BY DEF TrimSpace
  <2> HIDE DEF w
  <2> QED BY <2>1, <2>2, ServedTypes, Handled
<1> HIDE DEF w, e
<1>7. Faithful(conn'[c], cutOff[c], logged[c], parsed'[c])
  <2>1. CASE parsed'[c] = parsed[c]
    BY <1>1, <1>2, <1>3, <1>5, <2>1, ConnEnds
  <2>2. CASE parsed'[c] # parsed[c]
    <3>1. parsed'[c] = Append(parsed[c], e) /\ e \in Understandings /\ Len(parsed[c]) = Len(logged[c]) /\ cutOff[c] # <<>>
      BY <1>4, <1>6, <2>2
    <3>2. Understood(parsed'[c], logged[c])
      <4>1. Understood(parsed[c], logged[c]) /\ ~(Len(parsed[c]) + 1 <= Len(logged[c]))
        BY <1>2, <1>3, <3>1 DEF Faithful
      <4> QED BY <1>3, <3>1, <4>1, OneMore
    <3>3. Len(parsed'[c]) <= Len(logged[c]) + 1
      BY <1>3, <3>1
    <3>4. CutShort(cutOff[c]) /\ conn'[c].hung
      BY <1>2, <1>5, <3>1 DEF Faithful
    <3> QED BY <1>5, <3>1, <3>2, <3>3, <3>4 DEF Faithful
  <2> QED BY <2>1, <2>2
<1>8. ElseStays(c)
  BY <1>5, <1>6 DEF ElseStays
<1> QED BY <1>7, <1>8, ServedBy

LEMMA SendFaithful ==
    ASSUME ParsesBack, SyslogTyped, Served, NEW c \in Conns, NEW m \in Messages, NEW f \in Framings,
           SendFrame(c, m, f)
    PROVE  Served'
<1> DEFINE w == conn[c].wire
<1> DEFINE F == FrameText(m, f)
<1> DEFINE v == w \o F
<1>1. /\ w \in Seq(Symbols) /\ conn[c].phase # "ended" /\ ~conn[c].hung /\ Carries(f, m)
      /\ conn' = [conn EXCEPT ![c].wire = v] /\ UNCHANGED <<cutOff, parsed>>
      /\ logged' = [logged EXCEPT ![c] = Append(@, m)]
  BY ConnIs DEF SendFrame, Writes
<1>2. Faithful(conn[c], cutOff[c], logged[c], parsed[c])
  BY DEF Served
<1>3. /\ cutOff[c] \in Seq(Symbols) /\ logged[c] \in Seq(Messages) /\ parsed[c] \in Seq(Understandings)
  BY ServedTypes
<1>4. Sendable(m, f)
  BY <1>1, ParsesToSend DEF Sendable
<1>5. cutOff[c] = <<>>
  BY <1>1, <1>2 DEF Faithful
<1>6. PICK a : OnWire(w, logged[c], Len(parsed[c]), <<>>, a)
  BY <1>1, <1>2, <1>5 DEF Faithful
<1>7. \E b : OnWire(v, Append(logged[c], m), Len(parsed[c]), <<>>, b)
  BY <1>1, <1>3, <1>4, <1>6, WireSend
<1>8. v \in Seq(Symbols)
  BY <1>1, AnyFrame, TextConcat
<1> HIDE DEF w, F, v
<1>9. /\ conn'[c].phase = conn[c].phase /\ conn'[c].wire = v /\ conn'[c].hung = conn[c].hung
      /\ \A d \in Conns : d # c => conn'[d] = conn[d]
  BY <1>1, <1>8, WireSet DEF OthersStay
<1>10. /\ logged'[c] = Append(logged[c], m)
       /\ \A d \in Conns \cup {Datagrams} : d # c => logged'[d] = logged[d]
  BY <1>1 DEF SyslogTyped
<1>11. Understood(parsed[c], logged'[c])
  <2> DEFINE l == logged[c]
  <2> DEFINE u == Append(l, m)
  <2>1. Understood(parsed[c], l)
    BY <1>2 DEF Faithful
  <2>2. /\ Len(l) \in Nat /\ Len(u) = Len(l) + 1 /\ \A i \in 1..Len(l) : u[i] = l[i]
    BY <1>3
  <2>3. Len(parsed[c]) <= Len(l) /\ Len(parsed[c]) \in Nat
    BY <1>6 DEF OnWire, Marks
  <2>4. logged'[c] = u
    BY <1>10
  <2> HIDE DEF l, u
  <2>5. \A i \in 1..Len(parsed[c]) : i \in 1..Len(l)
    BY <2>2, <2>3
  <2>6. \A i \in 1..Len(parsed[c]) : parsed[c][i] = Meant(u[i])
    BY <2>1, <2>2, <2>5 DEF Understood
  <2> QED BY <2>4, <2>6 DEF Understood
<1>12. Faithful(conn'[c], cutOff'[c], logged'[c], parsed'[c])
  <2>1. cutOff'[c] = <<>> /\ parsed'[c] = parsed[c]
    BY <1>1, <1>5
  <2>2. \E b : OnWire(conn'[c].wire, logged'[c], Len(parsed[c]), <<>>, b)
    BY <1>7, <1>9, <1>10
  <2>3. conn'[c].phase # "ended"
    BY <1>1, <1>9
  <2>4. CutShort(<<>>)
    BY DEF CutShort
  <2> QED BY <1>11, <2>1, <2>2, <2>3, <2>4 DEF Faithful
<1>13. ElseStays(c)
  BY <1>1, <1>9, <1>10 DEF ElseStays
<1> QED BY <1>12, <1>13, ServedBy

LEMMA CutFaithful ==
    ASSUME ParsesBack, SyslogTyped, Served, NEW c \in Conns, NEW m \in Messages, NEW f \in Framings,
           NEW n \in Cuts, SendCut(c, m, f, n)
    PROVE  Served'
<1> DEFINE w == conn[c].wire
<1> DEFINE r == SubSeq(FrameText(m, f), 1, n)
<1> DEFINE v == w \o r
<1>1. /\ w \in Seq(Symbols) /\ conn[c].phase # "ended" /\ ~conn[c].hung /\ Carries(f, m)
      /\ conn' = [conn EXCEPT ![c].wire = v, ![c].hung = TRUE] /\ UNCHANGED <<logged, parsed>>
      /\ cutOff' = [cutOff EXCEPT ![c] = r] /\ n \in Nat /\ n < Len(FrameText(m, f))
  BY ConnIs, SyslogAssumption DEF SendCut, Writes
<1>2. Faithful(conn[c], cutOff[c], logged[c], parsed[c])
  BY DEF Served
<1>3. logged[c] \in Seq(Messages) /\ Sendable(m, f) /\ r \in Seq(Symbols)
  BY <1>1, ServedTypes, ParsesToSend, AnyFrame DEF Sendable
<1>4. cutOff[c] = <<>>
  BY <1>1, <1>2 DEF Faithful
<1>5. CutShort(r)
  BY <1>1, <1>3 DEF CutShort
<1> HIDE DEF r, w
<1>6. PICK a : OnWire(w, logged[c], Len(parsed[c]), <<>>, a)
  BY <1>1, <1>2, <1>4 DEF Faithful, w
<1>7. OnWire(v, logged[c], Len(parsed[c]), r, a)
  BY <1>1, <1>3, <1>6, WireCut
<1>8. v \in Seq(Symbols)
  BY <1>1, <1>3, TextConcat
<1> HIDE DEF v
<1>9. /\ conn'[c].phase = conn[c].phase /\ conn'[c].wire = v /\ conn'[c].hung
      /\ \A d \in Conns : d # c => conn'[d] = conn[d]
  BY <1>1, <1>8, HungSet DEF OthersStay
<1>10. cutOff'[c] = r /\ \A d \in Conns : d # c => cutOff'[d] = cutOff[d]
  BY <1>1 DEF SyslogTyped
<1>11. Faithful(conn'[c], cutOff'[c], logged'[c], parsed'[c])
  <2>1. Understood(parsed[c], logged[c])
    BY <1>2 DEF Faithful
  <2>2. \E b : OnWire(conn'[c].wire, logged[c], Len(parsed[c]), r, b)
    BY <1>7, <1>9
  <2>3. conn'[c].phase # "ended" /\ logged'[c] = logged[c] /\ parsed'[c] = parsed[c]
    BY <1>1, <1>9
  <2> QED BY <1>5, <1>9, <1>10, <2>1, <2>2, <2>3 DEF Faithful
<1>12. ElseStays(c)
  BY <1>1, <1>9, <1>10 DEF ElseStays
<1> QED BY <1>11, <1>12, ServedBy

LEMMA DatagramFaithful ==
    ASSUME ParsesBack, SyslogTyped, Served, NEW m \in Messages, ReceiveDatagram(m)
    PROVE  Served'
<1> DEFINE D == Datagrams
<1>1. /\ Handle(D, MessageText(m)) /\ UNCHANGED <<conn, cutOff>>
      /\ logged' = [logged EXCEPT ![D] = Append(@, m)]
  BY DEF ReceiveDatagram
<1>2. /\ D \in Conns \cup {Datagrams} /\ logged[D] \in Seq(Messages) /\ D \notin Conns
      /\ MessageText(m) \in Seq(Symbols)
  BY TextsAre, SyslogAssumption DEF SyslogTyped
<1>3. Len(parsed[D]) = Len(logged[D]) /\ Understood(parsed[D], logged[D])
  BY DEF Served
<1> HIDE DEF D
<1>4. /\ \A d \in Conns \cup {Datagrams} : d # D => parsed'[d] = parsed[d]
      /\ parsed'[D] = Append(parsed[D], Meant(m)) /\ Meant(m) \in Understandings
      /\ parsed[D] \in Seq(Understandings)
  BY <1>1, <1>2, ParsesToSend, Handled
<1>5. /\ \A d \in Conns : logged'[d] = logged[d]
      /\ logged'[D] = Append(logged[D], m)
  BY <1>1, <1>2 DEF SyslogTyped
<1> DEFINE l == logged[D]
<1> DEFINE p == parsed[D]
<1> DEFINE u == Append(l, m)
<1> DEFINE q == Append(p, Meant(m))
<1>6. /\ Len(l) \in Nat /\ Len(u) = Len(l) + 1 /\ u[Len(l) + 1] = m /\ \A i \in 1..Len(l) : u[i] = l[i]
      /\ Len(q) = Len(p) + 1 /\ q[Len(p) + 1] = Meant(m) /\ \A i \in 1..Len(p) : q[i] = p[i]
      /\ Len(p) = Len(l)
  BY <1>2, <1>3, <1>4
<1>7. \A i \in 1..Len(p) : i <= Len(l) => p[i] = Meant(l[i])
  BY <1>3 DEF Understood
<1>8. logged'[D] = u /\ parsed'[D] = q
  BY <1>4, <1>5
<1> HIDE DEF l, p, u, q
<1>9. \A i \in 1..(Len(l) + 1) : i \in 1..Len(l) \/ i = Len(l) + 1
  BY <1>6
<1>10. \A i \in 1..Len(l) : i <= Len(l)
  BY <1>6
<1>11. \A i \in 1..(Len(l) + 1) : q[i] = Meant(u[i])
  BY <1>6, <1>7, <1>9, <1>10
<1>12. Understood(q, u) /\ Len(q) = Len(u)
  BY <1>6, <1>11 DEF Understood
<1>13. ASSUME NEW d \in Conns PROVE Faithful(conn'[d], cutOff'[d], logged'[d], parsed'[d])
  <2>1. /\ conn'[d] = conn[d] /\ cutOff'[d] = cutOff[d] /\ logged'[d] = logged[d]
        /\ parsed'[d] = parsed[d]
    BY <1>1, <1>2, <1>4, <1>5
  <2>2. Faithful(conn[d], cutOff[d], logged[d], parsed[d])
    BY DEF Served
  <2> QED BY <2>1, <2>2
<1> QED BY <1>8, <1>12, <1>13 DEF Served, D

\* The other steps: phases change, or connections end with nothing more.
LEMMA OtherFaithful ==
    ASSUME SyslogTyped, Served, UNCHANGED <<logged, cutOff, parsed>>,
           \A c \in Conns :
              \/ conn'[c] = conn[c]
              \/ /\ conn[c].phase # "ended" /\ conn'[c].phase # "ended"
                 /\ conn'[c].wire = conn[c].wire /\ conn'[c].hung = conn[c].hung
              \/ /\ conn[c].phase # "ended" /\ conn'[c].phase = "ended"
                 /\ conn'[c].hung = conn[c].hung
    PROVE  Served'
<1>1. ASSUME NEW c \in Conns PROVE Faithful(conn'[c], cutOff'[c], logged'[c], parsed'[c])
  <2>1. Faithful(conn[c], cutOff[c], logged[c], parsed[c])
    BY DEF Served
  <2>2. Faithful(conn'[c], cutOff[c], logged[c], parsed[c])
    <3>1. CASE conn'[c] = conn[c]
      BY <2>1, <3>1
    <3>2. CASE /\ conn[c].phase # "ended" /\ conn'[c].phase # "ended"
               /\ conn'[c].wire = conn[c].wire /\ conn'[c].hung = conn[c].hung
      BY <2>1, <3>2, SameConn
    <3>3. CASE /\ conn[c].phase # "ended" /\ conn'[c].phase = "ended"
               /\ conn'[c].hung = conn[c].hung
      BY <2>1, <3>3, ServedTypes, ConnEnds
    <3> QED BY <3>1, <3>2, <3>3
  <2> QED BY <2>2
<1> QED BY <1>1 DEF Served

LEMMA PhaseFaithful ==
    ASSUME SyslogTyped, Served, NEW c \in Conns, NEW p \in {"dialed", "accepted", "served"},
           conn[c].phase # "ended", conn' = [conn EXCEPT ![c].phase = p],
           UNCHANGED <<logged, cutOff, parsed>>
    PROVE  Served'
<1>1. p \in ConnPhases /\ p # "ended"
  BY DEF ConnPhases
<1>2. /\ conn'[c].phase = p /\ conn'[c].wire = conn[c].wire /\ conn'[c].hung = conn[c].hung
      /\ \A d \in Conns : d # c => conn'[d] = conn[d]
  BY <1>1, PhaseSet DEF OthersStay
<1> QED BY <1>1, <1>2, OtherFaithful

LEMMA EndFaithful ==
    ASSUME SyslogTyped, Served, NEW c \in Conns, conn[c].phase # "ended", Untrack(c),
           UNCHANGED <<logged, cutOff, parsed>>
    PROVE  Served'
<1>1. /\ conn'[c].phase = "ended" /\ conn'[c].hung = conn[c].hung
      /\ \A d \in Conns : d # c => conn'[d] = conn[d]
  BY Untracked DEF OthersStay
<1> QED BY <1>1, OtherFaithful

LEMMA ServedStart ==
    SyslogInit => Served
<1> SUFFICES ASSUME SyslogInit PROVE Served
  OBVIOUS
<1>1. ASSUME NEW c \in Conns PROVE Faithful(conn[c], cutOff[c], logged[c], parsed[c])
  <2>1. conn[c].phase = "idle" /\ conn[c].wire = <<>> /\ cutOff[c] = <<>> /\ logged[c] = <<>> /\ parsed[c] = <<>>
    BY DEF SyslogInit
  <2>2. OnWire(<<>>, <<>>, 0, <<>>, [i \in Nat |-> 0])
    BY DEF OnWire, Marks, FramesAt
  <2>3. Understood(<<>>, <<>>) /\ CutShort(<<>>) /\ Len(<<>>) = 0
    BY DEF Understood, CutShort
  <2> QED BY <2>1, <2>2, <2>3 DEF Faithful
<1>2. parsed[Datagrams] = <<>> /\ logged[Datagrams] = <<>>
  BY DEF SyslogInit
<1> QED BY <1>1, <1>2 DEF Served, Understood

LEMMA ServedKeeps ==
    ASSUME ParsesBack, SyslogKept, Served, [SyslogNext]_syslogVars
    PROVE  Served'
<1>0. SyslogTyped
  BY DEF SyslogKept
<1>1. ASSUME NEW c \in Conns, Dial(c) \/ Accept(c) PROVE Served'
  <2>1. PICK p \in {"dialed", "accepted", "served"} :
           conn[c].phase # "ended" /\ conn' = [conn EXCEPT ![c].phase = p]
    BY <1>1 DEF Dial, Accept
  <2>2. UNCHANGED <<logged, cutOff, parsed>>
    BY <1>1 DEF Dial, Accept
  <2> QED BY <1>0, <2>1, <2>2, PhaseFaithful
<1>2. ASSUME NEW c \in Conns, TrackConn(c) PROVE Served'
  <2>1. conn[c].phase # "ended" /\ UNCHANGED <<logged, cutOff, parsed>>
    BY <1>2 DEF TrackConn
  <2>2. Untrack(c) \/ conn' = [conn EXCEPT ![c].phase = "served"]
    BY <1>2 DEF TrackConn
  <2> QED BY <1>0, <2>1, <2>2, PhaseFaithful, EndFaithful
<1>3. ASSUME NEW c \in Conns, ReadFails(c) \/ IdleTimeout(c) PROVE Served'
  BY <1>0, <1>3, LastFaithful DEF ReadFails, IdleTimeout
<1>4. ASSUME NEW c \in Conns, FindsClosed(c) PROVE Served'
  BY <1>0, <1>4, EndFaithful DEF FindsClosed
<1>5. CASE AcceptFails \/ ReadUDPFails \/ StopDone \/ UNCHANGED syslogVars
  BY <1>0, <1>5, OtherFaithful DEF AcceptFails, ReadUDPFails, StopDone, syslogVars
<1>6. CASE StopServer
  <2>1. /\ \A c \in Conns : /\ conn'[c].phase = conn[c].phase /\ conn'[c].wire = conn[c].wire
                            /\ conn'[c].hung = conn[c].hung
        /\ UNCHANGED <<logged, cutOff, parsed>>
    BY <1>0, <1>6, AllShut DEF StopServer
  <2>2. ASSUME NEW c \in Conns PROVE Faithful(conn'[c], cutOff'[c], logged'[c], parsed'[c])
    <3>1. Faithful(conn[c], cutOff[c], logged[c], parsed[c])
      BY DEF Served
    <3> QED BY <2>1, <3>1 DEF Faithful
  <2> QED BY <2>1, <2>2 DEF Served
<1> QED BY <1>0, <1>1, <1>2, <1>3, <1>4, <1>5, <1>6, ServeFaithful, SendFaithful, CutFaithful, DatagramFaithful
        DEF SyslogNext

LEMMA ServedMeans ==
    ASSUME SyslogTyped, Served
    PROVE  ArrivesAsSent
<1>1. DOMAIN parsed = Conns \cup {Datagrams}
  BY DEF SyslogTyped
<1>2. ASSUME NEW c \in Conns
      PROVE  /\ \A i \in DOMAIN parsed[c] : i <= Len(logged[c]) => parsed[c][i] = Meant(logged[c][i])
             /\ Len(parsed[c]) <= Len(logged[c]) + (IF c \in Conns /\ cutOff[c] # <<>> THEN 1 ELSE 0)
  <2>1. Faithful(conn[c], cutOff[c], logged[c], parsed[c])
    BY DEF Served
  <2>2. logged[c] \in Seq(Messages) /\ Len(parsed[c]) \in Nat /\ parsed[c] \in Seq(Understandings)
    BY ServedTypes
  <2>3. \A i \in DOMAIN parsed[c] : i <= Len(logged[c]) => parsed[c][i] = Meant(logged[c][i])
    BY <2>1, <2>2 DEF Faithful, Understood
  <2>4. CASE conn[c].phase = "ended"
    BY <2>1, <2>3, <2>4 DEF Faithful
  <2>5. CASE conn[c].phase # "ended"
    <3>1. Len(parsed[c]) <= Len(logged[c])
      BY <2>1, <2>5 DEF Faithful, OnWire, Marks
    <3>2. Len(logged[c]) \in Nat
      BY <2>2
    <3> DEFINE l == Len(logged[c])
    <3>3. l \in Nat => l <= l + 1 /\ l <= l + 0 /\ \A x \in Nat : x <= l => x <= l + 1 /\ x <= l + 0
      OBVIOUS
    <3> HIDE DEF l
    <3>4. CASE c \in Conns /\ cutOff[c] # <<>>
      BY <2>2, <2>3, <3>1, <3>2, <3>3, <3>4 DEF l
    <3>5. CASE ~(c \in Conns /\ cutOff[c] # <<>>)
      BY <2>2, <2>3, <3>1, <3>2, <3>3, <3>5 DEF l
    <3> QED BY <3>4, <3>5
  <2> QED BY <2>4, <2>5
<1>3. /\ \A i \in DOMAIN parsed[Datagrams] :
            i <= Len(logged[Datagrams]) => parsed[Datagrams][i] = Meant(logged[Datagrams][i])
      /\ Len(parsed[Datagrams]) <= Len(logged[Datagrams])
                                   + (IF Datagrams \in Conns /\ cutOff[Datagrams] # <<>> THEN 1 ELSE 0)
  <2>1. /\ logged[Datagrams] \in Seq(Messages) /\ parsed[Datagrams] \in Seq(Understandings)
        /\ Datagrams \notin Conns
    BY SyslogAssumption DEF SyslogTyped
  <2>2. Len(parsed[Datagrams]) = Len(logged[Datagrams]) /\ Understood(parsed[Datagrams], logged[Datagrams])
    BY DEF Served
  <2>3. Len(logged[Datagrams]) \in Nat /\ DOMAIN parsed[Datagrams] = 1..Len(parsed[Datagrams])
    BY <2>1
  <2> QED BY <2>1, <2>2, <2>3 DEF Understood
<1> QED BY <1>1, <1>2, <1>3 DEF ArrivesAsSent

\* If every message by itself reads as it was meant, then it does on every connection:
\* in whichever framing it and those around it are sent, whenever the server reads,
\* stops or gives up, and wherever a sender is cut off.
THEOREM ArrivesInOrder == ParsesBack => (SyslogSpec => []ArrivesAsSent)
<1> SUFFICES ASSUME ParsesBack PROVE SyslogSpec => []ArrivesAsSent
  OBVIOUS
<1>1. SyslogInit => SyslogKept /\ Served
  BY SyslogStart, ServedStart
<1>2. (SyslogKept /\ Served) /\ [SyslogNext]_syslogVars => (SyslogKept /\ Served)'
  BY SyslogKeeps, ServedKeeps
<1>3. SyslogKept /\ Served => ArrivesAsSent
  BY ServedMeans DEF SyslogKept
<1> QED BY <1>1, <1>2, <1>3, PTL DEF SyslogSpec

-----------------------------------------------------------------------------
(* The components side by side.                                            *)

\* Each component runs by itself, or rests.
LEMMA EdgeRunsEach ==
    EdgeSpec => TailSpec /\ SearchSpec /\ QuerySpec /\ SyslogSpec /\ OtlpSpec /\ SdkSpec
<1>1. EdgeInit => /\ TailInit /\ SearchInit /\ QueryInit
                  /\ SyslogInit /\ OtlpInit /\ SdkInit
  BY DEF EdgeInit
<1>2. [EdgeNext]_edgeVars => [TailNext]_tailVars /\ [SearchNext]_searchVars
  BY DEF EdgeNext, edgeVars
<1>3. [EdgeNext]_edgeVars => [QueryNext]_queryVars /\ [SyslogNext]_syslogVars
  BY DEF EdgeNext, edgeVars
<1>4. [EdgeNext]_edgeVars => [OtlpNext]_otlpVars /\ [SdkNext]_sdkVars
  BY DEF EdgeNext, edgeVars
<1> QED BY <1>1, <1>2, <1>3, <1>4, PTL
        DEF EdgeSpec, TailSpec, SearchSpec, QuerySpec, SyslogSpec, OtlpSpec, SdkSpec

\* What the edges hold has its type, and no more connections are open than the
\* listener allows, in every state of each component (server.go:209-218).
THEOREM EdgeTyped == EdgeSpec => []EdgeTypeOK
BY EdgeRunsEach, TailTyped, SearchTyped, QueryTyped, ConnsCapped, OtlpTyped, SdkTyped, PTL
   DEF EdgeTypeOK
=============================================================================
