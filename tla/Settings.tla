------------------------------ MODULE Settings ------------------------------
(***************************************************************************)
(* The settings an administrator changes while the server runs             *)
(* (internal/settings), and the limiter that follows them and guards the   *)
(* ingest endpoints (internal/admission, admit and recordUsage of          *)
(* internal/ingest).                                                       *)
(*                                                                         *)
(* Abstractions.                                                           *)
(*   - Settings have two fields, "rate", of which the limiter has a copy,  *)
(*     and "retention", which the purge asks for each time.                *)
(*   - The limiter has one key, and a quota of events; that of bytes works *)
(*     alike.  Time is counted in ticks, tokens in whole ones.             *)
(***************************************************************************)
EXTENDS Naturals, FiniteSets, FiniteSetsExt

CONSTANTS
    Admins,        \* requests that change settings
    Rates,         \* rate limits per tick, 0 for none
    Retentions,    \* retention settings
    Base,          \* the settings of the configuration file
    Requests,      \* ingest requests of the key
    MostEvents,    \* events a request may carry
    DailyEvents,   \* the daily quota
    Midnight,      \* the tick at which a new day begins
    MaxApplies,    \* bounds: settings updates,
    MaxClock,      \*   ticks,
    MaxBoots       \*   restarts

Nobody == "nobody"

Fields == {"rate", "retention"}

Documents == [rate : Rates, retention : Retentions]

ASSUME SettingsAssumption ==
    /\ Rates \subseteq Nat /\ IsFiniteSet(Rates) /\ Base \in Documents
    /\ {MostEvents, DailyEvents} \subseteq Nat \ {0}
    /\ {Midnight, MaxApplies, MaxClock, MaxBoots} \subseteq Nat
    /\ IsFiniteSet(Requests)
    /\ Nobody \notin Admins

VARIABLES
    \* -- the settings manager ----------------------------------------------
    persisted,   \* the document in the store, Base while there is none
    current,     \* Manager.cur
    applying,    \* applying[a]: NotApplying, or how far a is ("merged", "persisted",
                 \*   "installed"), the fields it names and the settings to install
    lock,        \* holder of applyMu, or Nobody
    lastSet,     \* the value last persisted for each field by who named it
    applies,
    boots,
    \* -- the limiter ---------------------------------------------------------
    limits,      \* the rate it enforces
    tokens,      \* the bucket,
    refilled,    \*   and when it was last refilled
    day,         \* the day that is counted,
    events,      \*   and the count
    admitted,    \* requests admitted and not yet recorded
    clock

managerVars  == <<persisted, current, applying, lock, lastSet, applies>>
limiterVars  == <<limits, tokens, refilled, day, events, admitted>>
settingsVars == <<managerVars, boots, limiterVars, clock>>

NotApplying == [stage |-> "off"]

-----------------------------------------------------------------------------
(* Settings. *)

\* Mutated: each step locks for itself.
LockFree == TRUE

ApplyMuFree == lock = Nobody

\* ApplyJSON: under applyMu, the document is merged over the current values.
\* One that does not parse or validate is refused, which changes nothing.
Merge(a, fields, values) ==
    /\ applying[a] = NotApplying
    /\ applies < MaxApplies
    /\ ApplyMuFree
    /\ lock' = a
    /\ applying' = [applying EXCEPT ![a] =
                      [stage |-> "merged", named |-> fields, next |->
                          [f \in Fields |-> IF f \in fields THEN values[f] ELSE current[f]]]]
    /\ applies' = applies + 1
    /\ UNCHANGED <<persisted, current, lastSet, boots, limiterVars, clock>>

\* PutSettings, one transaction.
Persist(a) ==
    /\ applying[a].stage = "merged"
    /\ persisted' = applying[a].next
    /\ lastSet' = [f \in Fields |-> IF f \in applying[a].named THEN persisted'[f] ELSE lastSet[f]]
    /\ applying' = [applying EXCEPT ![a].stage = "persisted"]
    /\ UNCHANGED <<current, lock, applies, boots, limiterVars, clock>>

PersistFails(a) ==
    /\ applying[a].stage = "merged"
    /\ applying' = [applying EXCEPT ![a] = NotApplying]
    /\ lock' = Nobody
    /\ UNCHANGED <<persisted, current, lastSet, applies, boots, limiterVars, clock>>

Install(a) ==
    /\ applying[a].stage = "persisted"
    /\ current' = applying[a].next
    /\ applying' = [applying EXCEPT ![a].stage = "installed"]
    /\ UNCHANGED <<persisted, lock, lastSet, applies, boots, limiterVars, clock>>

\* The hook gives the limiter the new rate; its buckets stay.  Then applyMu is
\* released.
FireHooks(a) ==
    /\ applying[a].stage = "installed"
    /\ limits' = applying[a].next.rate
    /\ applying' = [applying EXCEPT ![a] = NotApplying]
    /\ lock' = Nobody
    /\ UNCHANGED <<persisted, current, lastSet, applies, boots,
                   tokens, refilled, day, events, admitted, clock>>

-----------------------------------------------------------------------------
(* Admission. *)

\* The burst is not configured here: it is the rate, but at least one.
BurstOf(rate) == Max({1, rate})

Today == IF clock < Midnight THEN 0 ELSE 1

\* Mutated: an idle key saves up tokens without end.
SavesUp == IF limits > 0 /\ clock > refilled THEN tokens + (clock - refilled) * limits ELSE tokens

\* stateLocked: the bucket is refilled for the time since the last time, at the
\* rate of now, and the count starts again on a new day.
Refill == IF limits > 0 /\ clock > refilled
          THEN Min({BurstOf(limits), tokens + (clock - refilled) * limits}) ELSE tokens

CountToday == IF day = Today THEN events ELSE 0

Touch ==
    /\ refilled' = IF limits > 0 THEN clock ELSE refilled
    /\ day' = Today

\* Mutated: the last event of the quota is not the last.
QuotaOffByOne == CountToday <= DailyEvents

QuotaLeft == CountToday < DailyEvents

\* Allow, in one critical section.  A refusal takes no token.
Admit(q) ==
    /\ q \notin admitted
    /\ Touch
    /\ events' = CountToday
    /\ IF (limits > 0 => Refill >= 1) /\ QuotaLeft
       THEN /\ tokens' = IF limits > 0 THEN Refill - 1 ELSE Refill
            /\ admitted' = admitted \cup {q}
       ELSE /\ tokens' = Refill
            /\ UNCHANGED admitted
    /\ UNCHANGED <<managerVars, boots, limits, clock>>

\* Record, in another, when the request's events have been accepted.
Record(q, n) ==
    /\ q \in admitted
    /\ Touch
    /\ tokens' = Refill
    /\ events' = CountToday + n
    /\ admitted' = admitted \ {q}
    /\ UNCHANGED <<managerVars, boots, limits, clock>>

Tick ==
    /\ clock < MaxClock
    /\ clock' = clock + 1
    /\ UNCHANGED <<managerVars, boots, limiterVars>>

-----------------------------------------------------------------------------
\* main.run: the persisted document is loaded over the configuration, and the
\* limiter starts from the result, with full buckets and nothing counted.
Boot ==
    /\ boots < MaxBoots
    /\ boots' = boots + 1
    /\ current' = persisted
    /\ limits' = persisted.rate
    /\ tokens' = BurstOf(persisted.rate)
    /\ refilled' = clock /\ day' = Today /\ events' = 0 /\ admitted' = {}
    /\ applying' = [a \in Admins |-> NotApplying]
    /\ lock' = Nobody
    /\ UNCHANGED <<persisted, lastSet, applies, clock>>

SettingsInit ==
    /\ persisted = Base /\ current = Base /\ lastSet = Base
    /\ applying = [a \in Admins |-> NotApplying]
    /\ lock = Nobody
    /\ applies = 0 /\ boots = 0
    /\ limits = Base.rate
    /\ tokens = BurstOf(Base.rate)
    /\ refilled = 0 /\ day = 0 /\ events = 0 /\ admitted = {} /\ clock = 0

SettingsNext ==
    \/ \E a \in Admins :
          \/ \E fields \in SUBSET Fields, values \in Documents : Merge(a, fields, values)
          \/ Persist(a) \/ PersistFails(a) \/ Install(a) \/ FireHooks(a)
    \/ \E q \in Requests : Admit(q) \/ \E n \in 0..MostEvents : Record(q, n)
    \/ Tick \/ Boot

SettingsSpec == SettingsInit /\ [][SettingsNext]_settingsVars

-----------------------------------------------------------------------------
(* Properties. *)

SettingsTypeOK ==
    /\ {persisted, current, lastSet} \subseteq Documents
    /\ applying \in [Admins -> {NotApplying} \cup
           [stage : {"merged", "persisted", "installed"}, named : SUBSET Fields, next : Documents]]
    /\ lock \in Admins \cup {Nobody}
    /\ applies \in 0..MaxApplies /\ boots \in 0..MaxBoots
    /\ limits \in Rates
    /\ tokens \in 0..Max(Rates \cup {1})
    /\ refilled \in 0..MaxClock /\ clock \in 0..MaxClock
    /\ day \in {0, 1} /\ events \in Nat
    /\ admitted \subseteq Requests

\* "Concurrent partial updates cannot lose each other", nor the store, the
\* memory and the limiter diverge (settings.go:37-43, 119-122): between updates
\* all three hold, for each field, what was last written by who named it.
UpdatesAgree ==
    (\A a \in Admins : applying[a] = NotApplying) =>
        /\ persisted = lastSet
        /\ current = lastSet
        /\ limits = lastSet.rate

\* Allow does not count and Record does not check (admission.go:86-127), so a
\* key may pass its quota, but by no more than what its requests in flight
\* carry beyond the last event of the quota.
OverrunBounded ==
    events + Cardinality(admitted) * MostEvents
        <= (DailyEvents - 1) + Cardinality(Requests) * MostEvents
=============================================================================
