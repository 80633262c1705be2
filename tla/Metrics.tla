------------------------------- MODULE Metrics -------------------------------
(***************************************************************************)
(* The metrics registry (internal/metrics): requests that observe a value  *)
(* in a histogram while others render it for a scrape, with no lock that   *)
(* covers the two.                                                         *)
(*                                                                         *)
(* Abstractions.                                                           *)
(*   - Values are integers.  Counters and gauges add with the same loop as *)
(*     a histogram's sum.                                                  *)
(*   - The text format, its escapes and the order of families and labels   *)
(*     are left out.                                                       *)
(***************************************************************************)
EXTENDS Integers, Sequences, FiniteSets, FiniteSetsExt, Functions

CONSTANTS
    Observers,   \* requests that observe
    Scrapers,    \* requests that render
    LabelSets,   \* label values of the family
    Bounds,      \* upper bounds of its buckets, ascending
    Samples,     \* values observed
    MaxObserves  \* bound

ASSUME MetricsAssumption ==
    /\ Bounds \in Seq(Int)
    /\ \A i, j \in DOMAIN Bounds : i < j => Bounds[i] < Bounds[j]
    /\ Samples \subseteq Int
    /\ MaxObserves \in Nat

VARIABLES
    children,  \* children[l]: the histogram of the label set, if it was used
    observer,  \* observer[o]: Off, or [at, label, sample, nth, old], nth a history:
               \*   which of the observations of label it makes
    scraper,   \* scraper[s]: Off, or [at, label, read, total], read the buckets so far
    rendered,  \* rendered[s]: the last histogram s rendered, NoLines before
    observed   \* history: observed[l], the observations begun

metricsVars == <<children, observer, scraper, rendered, observed>>

NewHistogram == [counts |-> [i \in DOMAIN Bounds |-> 0], sum |-> 0, count |-> 0]
NoLines == [buckets |-> <<>>, total |-> 0, sum |-> 0]
Off == [at |-> "off"]

-----------------------------------------------------------------------------
(* Observe. *)

\* With: created on first use, under the family's lock.
With(l) == IF l \in DOMAIN children THEN children ELSE [x \in DOMAIN children \cup {l} |->
                                            IF x = l THEN NewHistogram ELSE children[x]]

\* The count goes first.
CountFirst(o, l, v) ==
    /\ children' = [With(l) EXCEPT ![l].count = @ + 1]
    /\ observer' = [observer EXCEPT ![o] = 
                      [at |-> "adding", label |-> l, sample |-> v,
                       nth |-> Len(observed[l]) + 1, old |-> 0]]

Observe(o, l, v) ==
    /\ observer[o] = Off
    /\ FoldFunction(LAMBDA seen, n : Len(seen) + n, 0, observed) < MaxObserves
    /\ CountFirst(o, l, v)
    /\ observed' = [observed EXCEPT ![l] = Append(@, v)]
    /\ UNCHANGED <<scraper, rendered>>

LoadSum(o) ==
    /\ observer[o].at = "adding"
    /\ observer' = [observer EXCEPT ![o].at = "loaded",
                                    ![o].old = children[observer[o].label].sum]
    /\ UNCHANGED <<children, scraper, rendered, observed>>

\* Mutated: stored without the comparison.
StoreAnyway(o) == TRUE

\* CompareAndSwap fails if another observer was faster; then it loads again.
Unchallenged(o) == children[observer[o].label].sum = observer[o].old

SwapSum(o) ==
    /\ observer[o].at = "loaded"
    /\ IF Unchallenged(o)
       THEN /\ children' = [children EXCEPT ![observer[o].label].sum =
                              observer[o].old + observer[o].sample]
            /\ observer' = [observer EXCEPT ![o].at = "summed", ![o].old = 0]
       ELSE /\ observer' = [observer EXCEPT ![o].at = "adding", ![o].old = 0]
            /\ UNCHANGED children
    /\ UNCHANGED <<scraper, rendered, observed>>

\* The buckets a value fits in.
Holds(v) == {i \in DOMAIN Bounds : v <= Bounds[i]}

\* The smallest bucket that holds the value; above all of them only the count
\* knows of it.
Land(o) ==
    /\ observer[o].at = "summed"
    /\ LET holds == Holds(observer[o].sample)
       IN  children' = IF holds = {} THEN children
                       ELSE [children EXCEPT ![observer[o].label].counts[Min(holds)] = @ + 1]
    /\ observer' = [observer EXCEPT ![o] = Off]
    /\ UNCHANGED <<scraper, rendered, observed>>

-----------------------------------------------------------------------------
(* write. *)

StartScrape(s, l) ==
    /\ scraper[s] = Off
    /\ l \in DOMAIN children
    /\ scraper' = [scraper EXCEPT ![s] = 
                      [at |-> "buckets", label |-> l, read |-> <<>>, total |-> 0]]
    /\ UNCHANGED <<children, observer, rendered, observed>>

\* Bucket after bucket, each with those before it.
ReadBucket(s) ==
    /\ scraper[s].at = "buckets"
    /\ Len(scraper[s].read) < Len(Bounds)
    /\ LET read == scraper[s].read
           below == IF read = <<>> THEN 0 ELSE read[Len(read)]
           i == Len(read) + 1
       IN  scraper' = [scraper EXCEPT ![s].read =
                         Append(@, below + children[scraper[s].label].counts[i])]
    /\ UNCHANGED <<children, observer, rendered, observed>>

ReadTotal(s) ==
    /\ scraper[s].at = "buckets"
    /\ Len(scraper[s].read) = Len(Bounds)
    /\ scraper' = [scraper EXCEPT ![s].at = "sum",
                                  ![s].total = children[scraper[s].label].count]
    /\ UNCHANGED <<children, observer, rendered, observed>>

ReadSum(s) ==
    /\ scraper[s].at = "sum"
    /\ rendered' = [rendered EXCEPT ![s] =
                      [buckets |-> scraper[s].read, total |-> scraper[s].total,
                       sum |-> children[scraper[s].label].sum]]
    /\ scraper' = [scraper EXCEPT ![s] = Off]
    /\ UNCHANGED <<children, observer, observed>>

-----------------------------------------------------------------------------
MetricsInit ==
    /\ children = [l \in {} |-> NewHistogram]
    /\ observer = [o \in Observers |-> Off]
    /\ scraper = [s \in Scrapers |-> Off]
    /\ rendered = [s \in Scrapers |-> NoLines]
    /\ observed = [l \in LabelSets |-> <<>>]

MetricsNext ==
    \/ \E o \in Observers :
          \/ \E l \in LabelSets, v \in Samples : Observe(o, l, v)
          \/ LoadSum(o) \/ SwapSum(o) \/ Land(o)
    \/ \E s \in Scrapers :
          (\E l \in LabelSets : StartScrape(s, l)) \/ ReadBucket(s) \/ ReadTotal(s) \/ ReadSum(s)

MetricsSpec == MetricsInit /\ [][MetricsNext]_metricsVars

-----------------------------------------------------------------------------
(* Properties. *)

\* The numbers of the observations up to a bound, and of those of one bucket.
Below(made, i) == {n \in DOMAIN made : made[n] <= Bounds[i]}
InBucket(made, i) == IF i = 1 THEN Below(made, i) ELSE Below(made, i) \ Below(made, i - 1)

\* The sum of the observations numbered by S.
SumOver(made, S) ==
    LET sum[n \in 0..Len(made)] ==
            IF n = 0 THEN 0 ELSE sum[n - 1] + (IF n \in S THEN made[n] ELSE 0)
    IN  sum[Len(made)]

\* What is rendered while others observe is a histogram: the buckets are
\* cumulative and none exceeds the "+Inf" bucket, which is the count
\* (metrics.go:257-265, 279-296).
ScrapesCumulate ==
    \A s \in Scrapers :
        LET b == rendered[s].buckets
        IN  \A i \in DOMAIN b : b[i] <= IF i < Len(b) THEN b[i + 1] ELSE rendered[s].total

\* No observation is lost or counted twice: with none under way the family holds
\* those that were made, each in its place.
ObservationsCounted ==
    (\A o \in Observers : observer[o] = Off) =>
        \A l \in DOMAIN children :
            LET made == observed[l]
            IN  /\ children[l].count = Len(made)
                /\ children[l].sum = SumOver(made, DOMAIN made)
                /\ \A i \in DOMAIN Bounds :
                      children[l].counts[i] = Cardinality(InBucket(made, i))

\* A scrape makes sense by itself, and together they tell what happened.
ScrapeCoherent == ScrapesCumulate /\ ObservationsCounted
=============================================================================
