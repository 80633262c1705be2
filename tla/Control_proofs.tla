-------------------------- MODULE Control_proofs ---------------------------
(***************************************************************************)
(* Machine-checked proofs about what an operator changes and watches while *)
(* the server runs, for every value of the constants.  Settings: updates   *)
(* do not lose each other and store, memory and limiter agree.  Admission: *)
(* a key passes its quota by a bounded number of events.  Pipelines: an    *)
(* edit takes effect, and an event goes whole through one set.  Metrics: a *)
(* scrape during observations is a histogram, and none of them is lost.    *)
(***************************************************************************)
EXTENDS Control, Alerts_proofs, FiniteSetTheorems, TLAPS

-----------------------------------------------------------------------------
(* Updates. *)

\* What a document is, as a function of its fields.
ByField == [Fields -> Rates \cup Retentions]

DocumentsTyped ==
    /\ {persisted, current, lastSet} \subseteq ByField
    /\ DOMAIN applying = Admins
    /\ \A a \in Admins :
          \/ applying[a] = NotApplying
          \/ /\ applying[a] \in [stage : {"merged", "persisted", "installed"},
                                 named : SUBSET Fields, next : ByField]
             /\ applying[a].stage # "off"

\* applyMu admits one update at a time.
OneApplies == \A a \in Admins : applying[a] # NotApplying => lock = a

\* How far the update under the lock has come says which of the copies have the
\* new document; before it is persisted, the document differs from the old one
\* in the fields it names and in no other.
HalfwayAgrees ==
    /\ persisted = lastSet
    /\ \A a \in Admins :
          LET change == applying[a]
          IN  /\ change.stage = "merged" =>
                    /\ current = lastSet /\ limits = lastSet.rate
                    /\ \A f \in Fields \ change.named : change.next[f] = lastSet[f]
              /\ change.stage = "persisted" => change.next = lastSet
              /\ change.stage = "installed" => change.next = lastSet /\ current = lastSet

UpdateInv == DocumentsTyped /\ OneApplies /\ HalfwayAgrees /\ UpdatesAgree

\* A document is a function of its fields.
LEMMA DocumentByField == Documents \subseteq ByField
<1> SUFFICES ASSUME NEW d \in Documents PROVE d \in ByField
  OBVIOUS
<1>1. /\ d = [rate |-> d.rate, retention |-> d.retention]
      /\ d.rate \in Rates /\ d.retention \in Retentions
  BY DEF Documents
<1>2. d = [f \in Fields |-> IF f = "rate" THEN d.rate ELSE d.retention]
  BY <1>1 DEF Fields
<1> QED BY <1>1, <1>2 DEF ByField

\* Everything starts from the configuration.
LEMMA UpdateInit == SettingsInit => UpdateInv
<1> SUFFICES ASSUME SettingsInit PROVE UpdateInv
  OBVIOUS
<1>1. Base \in ByField
  BY DocumentByField, SettingsAssumption DEF SettingsAssumption
<1>2. DocumentsTyped
  BY <1>1 DEF SettingsInit, DocumentsTyped
<1>3. OneApplies
  BY DEF SettingsInit, OneApplies
<1>4. HalfwayAgrees
  BY DEF SettingsInit, HalfwayAgrees, NotApplying
<1>5. UpdatesAgree
  BY DEF SettingsInit, UpdatesAgree
<1> QED BY <1>2, <1>3, <1>4, <1>5 DEF UpdateInv

\* The merge starts from what everybody has, since nobody holds the lock.
LEMMA MergeKeeps ==
    ASSUME UpdateInv, NEW a \in Admins, NEW fields \in SUBSET Fields, NEW values \in Documents,
           Merge(a, fields, values)
    PROVE  UpdateInv'
<1> DEFINE next == [f \in Fields |-> IF f \in fields THEN values[f] ELSE current[f]]
<1>1. \A b \in Admins : applying[b] = NotApplying
  BY SettingsAssumption DEF SettingsAssumption, UpdateInv, OneApplies, Merge, ApplyMuFree
<1>2. persisted = lastSet /\ current = lastSet /\ limits = lastSet.rate
  BY <1>1 DEF UpdateInv, UpdatesAgree
<1>3. next \in ByField
  <2>1. values \in ByField /\ current \in ByField
    BY DocumentByField DEF UpdateInv, DocumentsTyped
  <2> QED BY <2>1 DEF ByField
<1> DEFINE change == [stage |-> "merged", named |-> fields, next |-> next]
<1>4. change \in [stage : {"merged", "persisted", "installed"}, named : SUBSET Fields,
                  next : ByField]
  BY <1>3
<1>5. /\ applying' = [applying EXCEPT ![a] = change] /\ lock' = a
      /\ UNCHANGED <<persisted, current, lastSet, limits>>
  BY DEF Merge, limiterVars
<1>6. change.stage = "merged" /\ change.named = fields /\ change.next = next
  OBVIOUS
<1>6a. DOMAIN applying = Admins
  BY DEF UpdateInv, DocumentsTyped
<1>7. applying'[a] = change /\ \A b \in Admins : b # a => applying'[b] = NotApplying
  BY <1>1, <1>5, <1>6a
<1> HIDE DEF change
<1>8. DocumentsTyped'
  BY <1>4, <1>5, <1>6, <1>7, <1>6a DEF UpdateInv, DocumentsTyped
<1>9. OneApplies'
  BY <1>5, <1>7 DEF OneApplies
<1>10. HalfwayAgrees'
  <2>1. \A f \in Fields \ fields : next[f] = lastSet'[f]
    BY <1>2, <1>5
  <2>2. NotApplying.stage = "off"
    BY DEF NotApplying
  <2> HIDE DEF next
  <2> QED BY <1>2, <1>5, <1>6, <1>7, <2>1, <2>2 DEF HalfwayAgrees
<1>11. UpdatesAgree'
  BY <1>2, <1>5 DEF UpdatesAgree
<1> QED BY <1>8, <1>9, <1>10, <1>11 DEF UpdateInv

\* A step of the update that holds the lock: the others rest.
LEMMA OthersRest ==
    ASSUME UpdateInv, NEW a \in Admins, applying[a].stage # "off"
    PROVE  /\ applying[a] # NotApplying /\ lock = a
           /\ \A b \in Admins \ {a} : applying[b] = NotApplying
           /\ applying[a] \in [stage : {"merged", "persisted", "installed"},
                               named : SUBSET Fields, next : ByField]
<1>1. NotApplying.stage = "off"
  BY DEF NotApplying
<1>2. applying[a] # NotApplying
  BY <1>1
<1>3. lock = a
  BY <1>2 DEF UpdateInv, OneApplies
<1>4. \A b \in Admins \ {a} : applying[b] = NotApplying
  BY <1>3 DEF UpdateInv, OneApplies
<1> QED BY <1>2, <1>3, <1>4 DEF UpdateInv, DocumentsTyped

\* The new document is persisted over the old one, and differs from it only in
\* the fields the update names.
LEMMA PersistKeeps ==
    ASSUME UpdateInv, NEW a \in Admins, Persist(a)
    PROVE  UpdateInv'
<1> DEFINE change == applying[a]
<1>1. change.stage = "merged"
  BY DEF Persist
<1>2. /\ change # NotApplying /\ lock = a
      /\ \A b \in Admins \ {a} : applying[b] = NotApplying
      /\ change \in [stage : {"merged", "persisted", "installed"},
                     named : SUBSET Fields, next : ByField]
  BY <1>1, OthersRest
<1>3. /\ persisted' = change.next
      /\ lastSet' = [f \in Fields |-> IF f \in change.named THEN persisted'[f] ELSE lastSet[f]]
      /\ applying' = [applying EXCEPT ![a].stage = "persisted"]
      /\ lock' = lock /\ current' = current /\ limits' = limits
  BY DEF Persist, limiterVars
<1>4. lastSet' = change.next
  <2>1. \A f \in Fields \ change.named : change.next[f] = lastSet[f]
    BY <1>1 DEF UpdateInv, HalfwayAgrees
  <2>2. \A f \in Fields : lastSet'[f] = change.next[f]
    BY <1>3, <2>1
  <2>3. change.next \in ByField /\ lastSet' = [f \in Fields |-> change.next[f]]
    BY <1>2, <1>3, <2>1
  <2> QED BY <2>3 DEF ByField
<1> DEFINE new == applying'[a]
<1>5. DOMAIN applying = Admins
  BY DEF UpdateInv, DocumentsTyped
<1>6. /\ new = [change EXCEPT !.stage = "persisted"]
      /\ \A b \in Admins \ {a} : applying'[b] = NotApplying
      /\ DOMAIN applying' = Admins
  BY <1>2, <1>3, <1>5
<1>7. /\ new \in [stage : {"merged", "persisted", "installed"},
                  named : SUBSET Fields, next : ByField]
      /\ new.stage = "persisted" /\ new.next = change.next
  BY <1>2, <1>6
<1> HIDE DEF change, new
<1>8. DocumentsTyped'
  BY <1>2, <1>3, <1>4, <1>6, <1>7 DEF UpdateInv, DocumentsTyped, new
<1>9. OneApplies'
  BY <1>2, <1>3, <1>6 DEF OneApplies
<1>10. HalfwayAgrees'
  <2>1. NotApplying.stage = "off"
    BY DEF NotApplying
  <2> QED BY <1>3, <1>4, <1>6, <1>7, <2>1 DEF HalfwayAgrees, new
<1>11. UpdatesAgree'
  <2>1. new # NotApplying
    BY <1>7 DEF NotApplying
  <2> QED BY <2>1 DEF UpdatesAgree, new
<1> QED BY <1>8, <1>9, <1>10, <1>11 DEF UpdateInv

\* The update becomes the current document.
LEMMA InstallKeeps ==
    ASSUME UpdateInv, NEW a \in Admins, Install(a)
    PROVE  UpdateInv'
<1> DEFINE change == applying[a]
<1>1. change.stage = "persisted"
  BY DEF Install
<1>2. /\ change # NotApplying /\ lock = a
      /\ \A b \in Admins \ {a} : applying[b] = NotApplying
      /\ change \in [stage : {"merged", "persisted", "installed"},
                     named : SUBSET Fields, next : ByField]
  BY <1>1, OthersRest
<1>3. /\ current' = change.next
      /\ applying' = [applying EXCEPT ![a].stage = "installed"]
      /\ UNCHANGED <<persisted, lock, lastSet, limits>>
  BY DEF Install, limiterVars
<1>4. change.next = lastSet /\ persisted = lastSet
  BY <1>1 DEF UpdateInv, HalfwayAgrees
<1> DEFINE new == applying'[a]
<1>5. DOMAIN applying = Admins
  BY DEF UpdateInv, DocumentsTyped
<1>6. /\ new = [change EXCEPT !.stage = "installed"]
      /\ \A b \in Admins \ {a} : applying'[b] = NotApplying
      /\ DOMAIN applying' = Admins
  BY <1>2, <1>3, <1>5
<1>7. /\ new \in [stage : {"merged", "persisted", "installed"},
                  named : SUBSET Fields, next : ByField]
      /\ new.stage = "installed" /\ new.next = change.next
  BY <1>2, <1>6
<1> HIDE DEF change, new
<1>8. DocumentsTyped'
  BY <1>2, <1>3, <1>4, <1>6, <1>7 DEF UpdateInv, DocumentsTyped, new
<1>9. OneApplies'
  BY <1>2, <1>3, <1>6 DEF OneApplies
<1>10. HalfwayAgrees'
  <2>1. NotApplying.stage = "off"
    BY DEF NotApplying
  <2> QED BY <1>3, <1>4, <1>6, <1>7, <2>1 DEF HalfwayAgrees, new
<1>11. UpdatesAgree'
  <2>1. new # NotApplying
    BY <1>7 DEF NotApplying
  <2> QED BY <2>1 DEF UpdatesAgree, new
<1> QED BY <1>8, <1>9, <1>10, <1>11 DEF UpdateInv

\* The last step and the failure both end the update and free the lock, with
\* all copies agreed.
LEMMA EndKeeps ==
    ASSUME UpdateInv, NEW a \in Admins, PersistFails(a) \/ FireHooks(a)
    PROVE  UpdateInv'
<1>1. applying[a].stage \in {"merged", "installed"}
  BY DEF PersistFails, FireHooks
<1>2. \A b \in Admins \ {a} : applying[b] = NotApplying
  BY <1>1, OthersRest
<1>3. /\ applying' = [applying EXCEPT ![a] = NotApplying]
      /\ UNCHANGED <<persisted, current, lastSet>>
  BY DEF PersistFails, FireHooks
<1>4. persisted = lastSet /\ current = lastSet /\ limits' = lastSet.rate
  <2>1. CASE PersistFails(a)
    BY <2>1 DEF PersistFails, UpdateInv, HalfwayAgrees, limiterVars
  <2>2. CASE FireHooks(a)
    BY <2>2 DEF FireHooks, UpdateInv, HalfwayAgrees
  <2> QED BY <2>1, <2>2
<1>5. DOMAIN applying = Admins
  BY DEF UpdateInv, DocumentsTyped
<1>6. \A b \in Admins : applying'[b] = NotApplying
  BY <1>2, <1>3, <1>5
<1>7. DocumentsTyped'
  BY <1>3, <1>5, <1>6 DEF UpdateInv, DocumentsTyped
<1>8. OneApplies'
  BY <1>6 DEF OneApplies
<1>9. HalfwayAgrees'
  BY <1>3, <1>4, <1>6 DEF HalfwayAgrees, NotApplying
<1>10. UpdatesAgree'
  BY <1>3, <1>4 DEF UpdatesAgree
<1> QED BY <1>7, <1>8, <1>9, <1>10 DEF UpdateInv

\* A restart loads what was persisted, wherever an update had come to.
LEMMA BootKeeps ==
    ASSUME UpdateInv, Boot
    PROVE  UpdateInv'
<1>1. persisted = lastSet
  BY DEF UpdateInv, HalfwayAgrees
<1>2. /\ applying' = [b \in Admins |-> NotApplying]
      /\ current' = lastSet' /\ persisted' = lastSet' /\ limits' = lastSet'.rate
      /\ lastSet' = lastSet
  BY <1>1 DEF Boot
<1>3. \A b \in Admins : applying'[b] = NotApplying
  BY <1>2
<1>4. DocumentsTyped'
  BY <1>2, <1>3 DEF UpdateInv, DocumentsTyped
<1>5. OneApplies'
  BY <1>3 DEF OneApplies
<1>6. HalfwayAgrees'
  BY <1>2, <1>3 DEF HalfwayAgrees, NotApplying
<1>7. UpdatesAgree'
  BY <1>2 DEF UpdatesAgree
<1> QED BY <1>4, <1>5, <1>6, <1>7 DEF UpdateInv

\* Each step keeps the invariant of updates.
LEMMA UpdateStep == UpdateInv /\ [SettingsNext]_settingsVars => UpdateInv'
<1> SUFFICES ASSUME UpdateInv, [SettingsNext]_settingsVars PROVE UpdateInv'
  OBVIOUS
<1>1. ASSUME UNCHANGED <<persisted, current, applying, lock, lastSet, limits>>
      PROVE  UpdateInv'
  BY <1>1 DEF UpdateInv, DocumentsTyped, OneApplies, HalfwayAgrees, UpdatesAgree
<1>2. ASSUME NEW a \in Admins, NEW fields \in SUBSET Fields, NEW values \in Documents,
             Merge(a, fields, values)
      PROVE  UpdateInv'
  BY <1>2, MergeKeeps
<1>3. ASSUME NEW a \in Admins, Persist(a) PROVE UpdateInv'
  BY <1>3, PersistKeeps
<1>4. ASSUME NEW a \in Admins, Install(a) PROVE UpdateInv'
  BY <1>4, InstallKeeps
<1>5. ASSUME NEW a \in Admins, PersistFails(a) \/ FireHooks(a) PROVE UpdateInv'
  BY <1>5, EndKeeps
<1>6. ASSUME NEW q \in Requests, Admit(q) PROVE UpdateInv'
  BY <1>1, <1>6 DEF Admit, managerVars
<1>7. ASSUME NEW q \in Requests, NEW n \in 0..MostEvents, Record(q, n) PROVE UpdateInv'
  BY <1>1, <1>7 DEF Record, managerVars
<1>8. CASE Tick
  BY <1>1, <1>8 DEF Tick, managerVars, limiterVars
<1>9. CASE Boot
  BY <1>9, BootKeeps
<1>10. CASE UNCHANGED settingsVars
  BY <1>1, <1>10 DEF settingsVars, managerVars, limiterVars
<1> QED
  BY <1>2, <1>3, <1>4, <1>5, <1>6, <1>7, <1>8, <1>9, <1>10 DEF SettingsNext

\* Concurrent partial updates, failing saves and restarts lose no field, and
\* leave store, memory and limiter agreed (settings.go:119-153).
THEOREM UpdatesNeverLost == SettingsSpec => []UpdatesAgree
<1>1. UpdateInv => UpdatesAgree
  BY DEF UpdateInv
<1> QED BY <1>1, UpdateInit, UpdateStep, PTL DEF SettingsSpec

-----------------------------------------------------------------------------
(* Admission. *)

\* What the events counted and the requests in flight can come to: a request is
\* admitted only below the quota, and brings at most MostEvents.
QuotaInv ==
    /\ events \in Nat
    /\ admitted \in SUBSET Requests
    /\ OverrunBounded

\* Nothing is counted, nothing in flight.
LEMMA QuotaInit == SettingsInit => QuotaInv
<1> SUFFICES ASSUME SettingsInit PROVE QuotaInv
  OBVIOUS
<1>1. events = 0 /\ admitted = {} /\ Cardinality(admitted) = 0
  BY FS_EmptySet DEF SettingsInit
<1>2. Cardinality(Requests) \in Nat /\ MostEvents \in Nat /\ DailyEvents \in Nat \ {0}
  BY FS_CardinalityType, SettingsAssumption DEF SettingsAssumption
<1>3. Cardinality(Requests) * MostEvents \in Nat
  BY <1>2
<1> QED BY <1>1, <1>2, <1>3 DEF QuotaInv, OverrunBounded

\* Sets of requests are finite, and no larger than the set of all.
LEMMA Sizes ==
    ASSUME NEW S \in SUBSET Requests
    PROVE  /\ IsFiniteSet(S)
           /\ Cardinality(S) \in Nat /\ Cardinality(Requests) \in Nat
           /\ Cardinality(S) <= Cardinality(Requests)
BY FS_Subset, FS_CardinalityType, SettingsAssumption DEF SettingsAssumption

\* Below the quota a request is admitted, whoever else is in flight.
LEMMA AdmitKeepsQuota ==
    ASSUME QuotaInv, NEW q \in Requests, Admit(q)
    PROVE  QuotaInv'
<1>1. MostEvents \in Nat /\ DailyEvents \in Nat \ {0}
  BY SettingsAssumption DEF SettingsAssumption
<1>2. events' = CountToday /\ CountToday \in Nat /\ CountToday <= events
  BY DEF Admit, CountToday, QuotaInv
<1>3. CASE admitted' = admitted
  <2> DEFINE held == Cardinality(admitted) * MostEvents
             most == (DailyEvents - 1) + Cardinality(Requests) * MostEvents
  <2>1. held \in Nat /\ most \in Int
    BY <1>1, Sizes DEF QuotaInv
  <2>2. events + held <= most
    BY DEF QuotaInv, OverrunBounded
  <2> HIDE DEF held, most
  <2>3. events' + held <= most
    BY <1>2, <2>1, <2>2 DEF QuotaInv
  <2> QED BY <1>2, <1>3, <2>3 DEF QuotaInv, OverrunBounded, held, most
<1>4. CASE admitted' # admitted
  <2>1. QuotaLeft /\ admitted' = admitted \cup {q}
    BY <1>4 DEF Admit
  <2>2. events' <= DailyEvents - 1
    BY <1>1, <1>2, <2>1 DEF QuotaLeft
  <2>3. admitted' \in SUBSET Requests
    BY <2>1 DEF QuotaInv
  <2>4. Cardinality(admitted') * MostEvents <= Cardinality(Requests) * MostEvents
    <3> DEFINE n == Cardinality(admitted')  m == Cardinality(Requests)
    <3>1. n \in Nat /\ m \in Nat /\ n <= m
      BY <2>3, Sizes
    <3> HIDE DEF n, m
    <3>2. n * MostEvents <= m * MostEvents
      BY <1>1, <3>1
    <3> QED BY <3>2 DEF n, m
  <2>5. Cardinality(admitted') * MostEvents \in Nat /\ Cardinality(Requests) * MostEvents \in Nat
    BY <1>1, <2>3, Sizes
  <2>6. OverrunBounded'
    BY <1>1, <1>2, <2>2, <2>4, <2>5 DEF OverrunBounded
  <2> QED BY <1>2, <2>3, <2>6 DEF QuotaInv
<1> QED BY <1>3, <1>4

\* What a request adds to the count, it no longer holds.
LEMMA RecordKeepsQuota ==
    ASSUME QuotaInv, NEW q \in Requests, NEW n \in 0..MostEvents, Record(q, n)
    PROVE  QuotaInv'
<1>1. MostEvents \in Nat /\ DailyEvents \in Nat \ {0}
  BY SettingsAssumption DEF SettingsAssumption
<1>2. /\ q \in admitted /\ admitted' = admitted \ {q}
      /\ events' = CountToday + n /\ CountToday \in Nat /\ CountToday <= events
  BY DEF Record, CountToday, QuotaInv
<1>3. /\ admitted' \in SUBSET Requests
      /\ Cardinality(admitted') = Cardinality(admitted) - 1
  BY <1>2, Sizes, FS_RemoveElement DEF QuotaInv
<1> DEFINE k == Cardinality(admitted)
           most == (DailyEvents - 1) + Cardinality(Requests) * MostEvents
<1>4. k \in Nat /\ most \in Int /\ n \in Nat /\ n <= MostEvents
  BY <1>1, Sizes DEF QuotaInv
<1>5. events + k * MostEvents <= most
  BY DEF QuotaInv, OverrunBounded
<1>6. (k - 1) * MostEvents = k * MostEvents - MostEvents /\ k * MostEvents \in Nat
  <2> HIDE DEF k
  <2> QED BY <1>1, <1>4
<1>7. events' + (k - 1) * MostEvents <= most
  <2> HIDE DEF k, most
  <2> DEFINE held == k * MostEvents
  <2>1. held \in Nat /\ events + held <= most
    BY <1>5, <1>6
  <2>2. (k - 1) * MostEvents = held - MostEvents
    BY <1>6
  <2> HIDE DEF held
  <2>3. events' + (held - MostEvents) <= most
    BY <1>1, <1>2, <1>4, <2>1 DEF QuotaInv
  <2> QED BY <2>2, <2>3
<1> QED BY <1>2, <1>3, <1>4, <1>7 DEF QuotaInv, OverrunBounded

\* Each step keeps the invariant of the quota.
LEMMA QuotaStep == QuotaInv /\ [SettingsNext]_settingsVars => QuotaInv'
<1> SUFFICES ASSUME QuotaInv, [SettingsNext]_settingsVars PROVE QuotaInv'
  OBVIOUS
<1>1. ASSUME events' = events, admitted' = admitted PROVE QuotaInv'
  BY <1>1 DEF QuotaInv, OverrunBounded
<1>2. ASSUME NEW a \in Admins, NEW fields \in SUBSET Fields, NEW values \in Documents,
             Merge(a, fields, values)
      PROVE  QuotaInv'
  BY <1>1, <1>2 DEF Merge, limiterVars
<1>3. ASSUME NEW a \in Admins, Persist(a) \/ PersistFails(a) \/ Install(a) \/ FireHooks(a)
      PROVE  QuotaInv'
  BY <1>1, <1>3 DEF Persist, PersistFails, Install, FireHooks, limiterVars
<1>4. ASSUME NEW q \in Requests, Admit(q) PROVE QuotaInv'
  BY <1>4, AdmitKeepsQuota
<1>5. ASSUME NEW q \in Requests, NEW n \in 0..MostEvents, Record(q, n) PROVE QuotaInv'
  BY <1>5, RecordKeepsQuota
<1>6. CASE Tick
  BY <1>1, <1>6 DEF Tick, limiterVars
<1>7. CASE Boot
  <2>1. events' = 0 /\ admitted' = {}
    BY <1>7 DEF Boot
  <2>2. Cardinality(admitted') = 0
    BY <2>1, FS_EmptySet
  <2>3. Cardinality(Requests) \in Nat /\ MostEvents \in Nat /\ DailyEvents \in Nat \ {0}
    BY FS_CardinalityType, SettingsAssumption DEF SettingsAssumption
  <2>4. Cardinality(Requests) * MostEvents \in Nat
    BY <2>3
  <2> QED BY <2>1, <2>2, <2>3, <2>4 DEF QuotaInv, OverrunBounded
<1>8. CASE UNCHANGED settingsVars
  BY <1>1, <1>8 DEF settingsVars, limiterVars
<1> QED BY <1>2, <1>3, <1>4, <1>5, <1>6, <1>7, <1>8 DEF SettingsNext

\* Allow does not count and Record does not check, yet a key passes its quota by
\* no more than its requests in flight carry (admission.go:86-127).
THEOREM QuotaOverrun == SettingsSpec => []OverrunBounded
<1>1. QuotaInv => OverrunBounded
  BY DEF QuotaInv
<1> QED BY <1>1, QuotaInit, QuotaStep, PTL DEF SettingsSpec

-----------------------------------------------------------------------------
(* Pipelines: what an edit leaves.                                           *)

\* What is saved anew has the time of its row, its number, or none; a row
\* without a time has the edit that put it there.
Apart(t) ==
    \A i, j \in PipelineIds :
        t[i] # NoPipe /\ t[j] # NoPipe /\ i # j => t[i].created # t[j].created

NoTimesBy(n) == (-MaxEdits)..(n - MaxEdits - 1)

BornBy(t, n) ==
    \A i \in PipelineIds : t[i] # NoPipe => t[i].created = i \/ t[i].created \in NoTimesBy(n)

Tables == {t \in [PipelineIds -> Rows \cup {NoPipe}] : Apart(t)}

Stages == [stage : {"idle", "found", "put", "listed"}, id : PipelineIds \cup {0},
           list : Tables \cup {<<>>}, met : BOOLEAN]

EditorTyped ==
    /\ saved \in Tables
    /\ editor \in [Editors -> Stages]
    /\ \A a \in Editors :
          /\ editor[a].stage = "found" => editor[a].id \in PipelineIds
          /\ editor[a].stage = "listed" => editor[a].list \in Tables

\* Of two edits under way, both met another.
NoneAlone == \A a, b \in Editing : a = b \/ editor[a].met

\* The store did not change under one that met none.
ListedIsSaved ==
    \A a \in Editors : editor[a].stage = "listed" /\ ~editor[a].met => editor[a].list = saved

Born == edits \in 0..MaxEdits /\ BornBy(saved, edits)

EditInv == EditorTyped /\ NoneAlone /\ ListedIsSaved /\ SavedTakesEffect /\ Born

\* A row is what was saved, with its time.
LEMMA RowsAre ==
    ASSUME NEW p \in Pipes, NEW n
    PROVE  /\ CreatedAt(p, n).created = n
           /\ CreatedAt(p, n).order = p.order /\ CreatedAt(p, n).match = p.match
           /\ CreatedAt(p, n).stages = p.stages
           /\ CreatedAt(p, n).enabled = p.enabled /\ CreatedAt(p, n).compiles = p.compiles
<1>1. p = [match |-> p.match, stages |-> p.stages, enabled |-> p.enabled,
           order |-> p.order, compiles |-> p.compiles, created |-> 0]
  BY PipelinesAssumption DEF PipelinesAssumption
<1>2. CreatedAt(p, n) = [match |-> p.match, stages |-> p.stages, enabled |-> p.enabled,
                         order |-> p.order, compiles |-> p.compiles, created |-> n]
  BY <1>1 DEF CreatedAt
<1> QED BY <1>2

LEMMA Ids == PipelineIds \subseteq Nat \ {0} /\ MaxEdits \in Nat /\ Cardinality(PipelineIds) \in Nat
<1>1. PipelineIds = 1..Cardinality(PipelineIds) /\ Cardinality(PipelineIds) \in Nat /\ MaxEdits \in Nat
  BY FS_CardinalityType, PipelinesAssumption DEF PipelinesAssumption
<1> QED BY <1>1

LEMMA EditInit == PipelineInit => EditInv
<1> SUFFICES ASSUME PipelineInit PROVE EditInv
  OBVIOUS
<1>1. Idle \in Stages
  BY DEF Idle, Stages
<1>2. \A a \in Editors : editor[a] = Idle
  BY DEF PipelineInit
<1>8. /\ saved \in [PipelineIds -> Rows \cup {NoPipe}]
      /\ \A i \in PipelineIds : saved[i] # NoPipe => saved[i].created = i
  BY PipelinesAssumption DEF PipelineInit, PipelinesAssumption
<1>3. saved \in Tables
  BY <1>8 DEF Tables, Apart
<1>9. Born
  BY <1>8, Ids DEF PipelineInit, Born, BornBy
<1>4. EditorTyped
  BY <1>1, <1>2, <1>3 DEF PipelineInit, EditorTyped, Idle
<1>5. Editing = {}
  BY <1>2 DEF Editing, Idle
<1>6. NoneAlone /\ ListedIsSaved
  BY <1>2, <1>5 DEF NoneAlone, ListedIsSaved, Idle
<1>7. SavedTakesEffect
  BY DEF PipelineInit, SavedTakesEffect
<1> QED BY <1>4, <1>6, <1>7, <1>9 DEF EditInv

\* No two rows get the same time.
LEMMA TimesApart ==
    ASSUME EditInv, edits < MaxEdits, NEW i \in PipelineIds, NEW time \in TimesOf(i) \cup {i}
    PROVE  /\ time \in (-MaxEdits)..Cardinality(PipelineIds)
           /\ time = i \/ time \in NoTimesBy(edits + 1)
           /\ \A j \in PipelineIds : saved[j] # NoPipe /\ j # i => saved[j].created # time
<1>1. /\ saved \in Tables /\ edits \in 0..MaxEdits /\ MaxEdits \in Nat
      /\ BornBy(saved, edits)
  BY Ids DEF EditInv, EditorTyped, Born
<1>2. i \in 1..Cardinality(PipelineIds) /\ Cardinality(PipelineIds) \in Nat
  BY Ids, PipelinesAssumption DEF PipelinesAssumption
<1>3. \A j \in PipelineIds : j \in Nat /\ j > 0
  BY Ids
<1>4. CASE saved[i] # NoPipe /\ time = saved[i].created
  <2>1. time = i \/ time \in NoTimesBy(edits)
    BY <1>1, <1>4 DEF BornBy
  <2>2. \A j \in PipelineIds : saved[j] # NoPipe /\ j # i => saved[j].created # time
    BY <1>1, <1>4 DEF Tables, Apart
  <2> HIDE <1>4
  <2>3. /\ time \in (-MaxEdits)..Cardinality(PipelineIds)
        /\ time = i \/ time \in NoTimesBy(edits + 1)
    BY <1>1, <1>2, <2>1 DEF NoTimesBy
  <2> QED BY <2>2, <2>3
<1>5. CASE time = i \/ time = edits - MaxEdits
  <2>1. /\ time \in (-MaxEdits)..Cardinality(PipelineIds)
        /\ time = i \/ time \in NoTimesBy(edits + 1)
    BY <1>1, <1>2, <1>5 DEF NoTimesBy
  <2>2. ASSUME NEW j \in PipelineIds, saved[j] # NoPipe, j # i PROVE saved[j].created # time
    <3>1. PICK c : c = saved[j].created
      OBVIOUS
    <3>2. c = j \/ c \in NoTimesBy(edits)
      BY <1>1, <2>2, <3>1 DEF BornBy
    <3>3. j \in Nat /\ j > 0 /\ i \in Nat /\ i > 0
      BY <1>3
    <3>4. c # time
      BY <1>1, <1>5, <2>2, <3>2, <3>3 DEF NoTimesBy
    <3> QED BY <3>1, <3>4
  <2> QED BY <2>1, <2>2
<1>6. time = i \/ time = edits - MaxEdits \/ (saved[i] # NoPipe /\ time = saved[i].created)
  BY DEF TimesOf, NoTime
<1> QED BY <1>4, <1>5, <1>6

\* The table with a row that was put.
LEMMA PutKeeps ==
    ASSUME EditInv, edits < MaxEdits, NEW i \in PipelineIds, NEW time \in TimesOf(i) \cup {i},
           NEW p \in Pipes
    PROVE  /\ [saved EXCEPT ![i] = CreatedAt(p, time)] \in Tables
           /\ BornBy([saved EXCEPT ![i] = CreatedAt(p, time)], edits + 1)
<1> DEFINE q == CreatedAt(p, time)
           t == [saved EXCEPT ![i] = q]
<1>1. /\ saved \in [PipelineIds -> Rows \cup {NoPipe}] /\ Apart(saved)
      /\ edits \in 0..MaxEdits /\ MaxEdits \in Nat /\ BornBy(saved, edits)
  BY Ids DEF EditInv, EditorTyped, Born, Tables
<1>2. /\ time \in (-MaxEdits)..Cardinality(PipelineIds)
      /\ time = i \/ time \in NoTimesBy(edits + 1)
      /\ \A j \in PipelineIds : saved[j] # NoPipe /\ j # i => saved[j].created # time
  BY TimesApart
<1>3. q \in Rows /\ q.created = time
  BY <1>2, RowsAre DEF Rows
<1> HIDE DEF q
<1>4. /\ t \in [PipelineIds -> Rows \cup {NoPipe}] /\ t[i] = q
      /\ \A j \in PipelineIds : j # i => t[j] = saved[j]
  BY <1>1, <1>3
<1> HIDE DEF t
<1>5. Apart(t)
  BY <1>1, <1>2, <1>3, <1>4 DEF Apart
<1>6. BornBy(t, edits + 1)
  <2> SUFFICES ASSUME NEW j \in PipelineIds, t[j] # NoPipe
               PROVE  t[j].created = j \/ t[j].created \in NoTimesBy(edits + 1)
    BY DEF BornBy
  <2>1. CASE j = i
    BY <1>2, <1>3, <1>4, <2>1
  <2>2. CASE j # i
    <3>1. PICK c : c = t[j].created
      OBVIOUS
    <3>4. t[j] = saved[j] /\ saved[j] # NoPipe /\ BornBy(saved, edits)
      BY <1>1, <1>4, <2>2
    <3>2. c = j \/ c \in NoTimesBy(edits)
      BY <3>1, <3>4 DEF BornBy
    <3>3. c = j \/ c \in NoTimesBy(edits + 1)
      BY <1>1, <3>2 DEF NoTimesBy
    <3> QED BY <3>1, <3>3
  <2> QED BY <2>1, <2>2
<1> QED BY <1>4, <1>5, <1>6 DEF Tables, t, q

\* The table without a row.
LEMMA DropKeeps ==
    ASSUME EditInv, NEW i \in PipelineIds
    PROVE  /\ [saved EXCEPT ![i] = NoPipe] \in Tables
           /\ BornBy([saved EXCEPT ![i] = NoPipe], edits + 1)
<1> DEFINE t == [saved EXCEPT ![i] = NoPipe]
<1>1. /\ saved \in [PipelineIds -> Rows \cup {NoPipe}] /\ Apart(saved)
      /\ edits \in 0..MaxEdits /\ MaxEdits \in Nat /\ BornBy(saved, edits)
  BY Ids DEF EditInv, EditorTyped, Born, Tables
<1>2. /\ t \in [PipelineIds -> Rows \cup {NoPipe}] /\ t[i] = NoPipe
      /\ \A j \in PipelineIds : j # i => t[j] = saved[j]
  BY <1>1
<1> HIDE DEF t
<1>3. Apart(t)
  BY <1>1, <1>2 DEF Apart
<1>4. BornBy(t, edits + 1)
  <2> SUFFICES ASSUME NEW j \in PipelineIds, t[j] # NoPipe
               PROVE  t[j].created = j \/ t[j].created \in NoTimesBy(edits + 1)
    BY DEF BornBy
  <2>1. PICK c : c = t[j].created
    OBVIOUS
  <2>4. t[j] = saved[j] /\ saved[j] # NoPipe /\ BornBy(saved, edits)
    BY <1>1, <1>2
  <2>2. c = j \/ c \in NoTimesBy(edits)
    BY <2>1, <2>4 DEF BornBy
  <2>3. c = j \/ c \in NoTimesBy(edits + 1)
    BY <1>1, <2>2 DEF NoTimesBy
  <2> QED BY <2>1, <2>3
<1> QED BY <1>2, <1>3, <1>4 DEF Tables, t

\* A change that overlaps another edit is known to both.
LEMMA ChangeKeeps ==
    ASSUME EditInv, NEW a \in Editors, NEW table \in Tables, Change(a, table),
           BornBy(table, edits + 1)
    PROVE  EditInv'
<1>1. /\ saved' = table
      /\ \A b \in Editors : editor'[b] =
            IF b = a THEN [stage |-> "put", id |-> 0, list |-> <<>>, met |-> Editing # {}]
            ELSE [editor[b] EXCEPT !.met = @ \/ b \in Editing]
      /\ DOMAIN editor' = Editors
      /\ editor' = [b \in Editors |-> editor'[b]]
  BY DEF Change
<1>2. /\ editor'[a] \in Stages /\ editor'[a].stage = "put" /\ editor'[a].met = (Editing # {})
  <2>1. editor'[a] = [stage |-> "put", id |-> 0, list |-> <<>>, met |-> Editing # {}]
    BY <1>1
  <2> QED BY <2>1 DEF Stages
<1>3. ASSUME NEW b \in Editors, b # a
      PROVE  /\ editor'[b] \in Stages
             /\ editor'[b].stage = editor[b].stage /\ editor'[b].id = editor[b].id
             /\ editor'[b].list = editor[b].list
             /\ editor'[b].met = (editor[b].met \/ b \in Editing)
  <2>1. editor[b] \in Stages
    BY DEF EditInv, EditorTyped
  <2>2. editor'[b] = [editor[b] EXCEPT !.met = editor[b].met \/ b \in Editing]
    BY <1>1, <1>3
  <2> HIDE DEF Editing
  <2>3. (editor[b].met \/ b \in Editing) \in BOOLEAN
    OBVIOUS
  <2> QED BY <2>1, <2>2, <2>3 DEF Stages
<1>4. EditorTyped'
  <2>1. editor' \in [Editors -> Stages]
    BY <1>1, <1>2, <1>3
  <2>2. ASSUME NEW b \in Editors
        PROVE  /\ editor'[b].stage = "found" => editor'[b].id \in PipelineIds
               /\ editor'[b].stage = "listed" => editor'[b].list \in Tables
    BY <1>2, <1>3 DEF EditInv, EditorTyped
  <2> QED BY <1>1, <2>1, <2>2 DEF EditorTyped
<1>5. Editing' = Editing \cup {a}
  BY <1>2, <1>3 DEF Editing
<1>6. NoneAlone'
  <2> SUFFICES ASSUME NEW b \in Editing', NEW c \in Editing', b # c PROVE editor'[b].met
    BY DEF NoneAlone
  <2>1. CASE b = a
    <3>1. c \in Editing
      BY <1>5, <2>1
    <3> QED BY <1>2, <2>1, <3>1
  <2>2. CASE b # a
    <3>1. b \in Editing /\ b \in Editors
      BY <1>5, <2>2 DEF Editing
    <3> QED BY <1>3, <2>2, <3>1
  <2> QED BY <2>1, <2>2
<1>7. ListedIsSaved'
  <2> SUFFICES ASSUME NEW b \in Editors, editor'[b].stage = "listed" PROVE editor'[b].met
    BY DEF ListedIsSaved
  <2>1. b # a
    BY <1>2
  <2>2. b \in Editing
    BY <1>3, <2>1 DEF Editing
  <2> QED BY <1>3, <2>1, <2>2
<1>8. SavedTakesEffect'
  BY <1>5 DEF SavedTakesEffect
<1>9. Born'
  <2>1. edits' = edits + 1 /\ edits < MaxEdits /\ edits \in 0..MaxEdits /\ MaxEdits \in Nat
    BY Ids DEF Change, EditInv, Born
  <2>2. BornBy(saved', edits')
    BY <1>1, <2>1
  <2>3. BornBy(saved, edits)'
    BY <2>2 DEF BornBy, NoTimesBy
  <2>4. edits' \in 0..MaxEdits
    BY <2>1
  <2> QED BY <2>3, <2>4 DEF Born
<1> QED BY <1>4, <1>6, <1>7, <1>8, <1>9 DEF EditInv

\* The store as it was.
LEMMA BornStays == ASSUME EditInv, saved' = saved, edits' = edits PROVE Born'
<1>1. BornBy(saved, edits)' <=> BornBy(saved, edits)
  BY DEF BornBy, NoTimesBy
<1> QED BY <1>1 DEF EditInv, Born

\* An editor that comes to rest, with what that does to the set, keeps the
\* invariant if with nobody left the set is what is saved.
LEMMA RestKeeps ==
    ASSUME EditInv, NEW a \in Editors, saved' = saved, edits' = edits,
           editor' = [editor EXCEPT ![a] = Idle],
           ~behind' => active' = Compiled(saved)
    PROVE  EditInv'
<1>1. /\ editor'[a] = Idle
      /\ \A b \in Editors : b # a => editor'[b] = editor[b]
  BY DEF EditInv, EditorTyped
<1>2. EditorTyped'
  <2>1. Idle \in Stages
    BY DEF Idle, Stages
  <2>2. saved' \in Tables /\ editor' \in [Editors -> Stages]
    BY <2>1 DEF EditInv, EditorTyped
  <2>3. ASSUME NEW b \in Editors
        PROVE  /\ editor'[b].stage = "found" => editor'[b].id \in PipelineIds
               /\ editor'[b].stage = "listed" => editor'[b].list \in Tables
    BY <1>1 DEF EditInv, EditorTyped, Idle
  <2> QED BY <2>2, <2>3 DEF EditorTyped
<1>3. Editing' = Editing \ {a}
  BY <1>1 DEF Editing, Idle
<1>4. NoneAlone'
  BY <1>1, <1>3 DEF EditInv, NoneAlone, Editing
<1>5. ListedIsSaved'
  BY <1>1 DEF EditInv, ListedIsSaved, Idle
<1>6. SavedTakesEffect'
  <2>1. Compiled(saved)' = Compiled(saved)
    BY DEF Compiled, InOrder, Chosen, Before, Enabled
  <2> QED BY <2>1 DEF SavedTakesEffect
<1> QED BY <1>2, <1>4, <1>5, <1>6, BornStays DEF EditInv

\* Installing what was listed.
LEMMA ReplaceKeeps ==
    ASSUME EditInv, NEW a \in Editors, ReplaceSet(a)
    PROVE  EditInv'
<1>1. /\ editor[a].stage = "listed" /\ saved' = saved /\ edits' = edits
      /\ editor' = [editor EXCEPT ![a] = Idle]
      /\ behind' = (editor[a].met \/ ~AllCompile(editor[a].list))
      /\ active' = IF AllCompile(editor[a].list) THEN Compiled(editor[a].list) ELSE active
  BY DEF ReplaceSet, InstallSet
<1>2. editor[a].met \in BOOLEAN
  BY DEF EditInv, EditorTyped, Stages
<1>3. ASSUME ~behind' PROVE active' = Compiled(saved)
  <2>1. ~editor[a].met /\ AllCompile(editor[a].list)
    BY <1>1, <1>2, <1>3
  <2>2. editor[a].list = saved
    BY <1>1, <2>1 DEF EditInv, ListedIsSaved
  <2> QED BY <1>1, <2>1, <2>2
<1> QED BY <1>1, <1>3, RestKeeps

\* An editor that goes on to another stage without a change of the store.
LEMMA StageKeeps ==
    ASSUME EditInv, NEW a \in Editors, NEW e \in Stages,
           saved' = saved, active' = active, behind' = behind, edits' = edits,
           editor' = [editor EXCEPT ![a] = e],
           \/ editor[a] = Idle /\ e.stage = "found" /\ e.id \in PipelineIds
           \/ /\ editor[a].stage = "put" /\ e.stage = "listed"
              /\ e.list = saved /\ e.met = editor[a].met
    PROVE  EditInv'
<1>1. /\ editor \in [Editors -> Stages] /\ saved \in Tables
      /\ editor' \in [Editors -> Stages] /\ editor'[a] = e
      /\ \A b \in Editors : b # a => editor'[b] = editor[b]
  BY DEF EditInv, EditorTyped
<1>4. EditorTyped'
  <2>1. ASSUME NEW b \in Editors
        PROVE  /\ editor'[b].stage = "found" => editor'[b].id \in PipelineIds
               /\ editor'[b].stage = "listed" => editor'[b].list \in Tables
    BY <1>1 DEF EditInv, EditorTyped
  <2> QED BY <1>1, <2>1 DEF EditorTyped
<1>5. Editing' = Editing
  BY <1>1 DEF Editing, Idle
<1>6. NoneAlone'
  <2>1. \A b \in Editing : editor'[b].met = editor[b].met
    BY <1>1 DEF Editing, Idle
  <2> QED BY <1>5, <2>1 DEF EditInv, NoneAlone
<1>7. ListedIsSaved'
  BY <1>1 DEF EditInv, ListedIsSaved
<1>8. SavedTakesEffect'
  <2>1. Compiled(saved)' = Compiled(saved)
    BY DEF Compiled, InOrder, Chosen, Before, Enabled
  <2> QED BY <1>5, <2>1 DEF EditInv, SavedTakesEffect
<1> QED BY <1>4, <1>6, <1>7, <1>8, BornStays DEF EditInv

LEMMA EditStep == EditInv /\ [PipelineNext]_pipelineVars => EditInv'
<1> SUFFICES ASSUME EditInv, [PipelineNext]_pipelineVars PROVE EditInv'
  OBVIOUS
<1>1. ASSUME UNCHANGED <<saved, active, editor, behind, edits>> PROVE EditInv'
  <2>1. Compiled(saved)' = Compiled(saved)
    BY <1>1 DEF Compiled, InOrder, Chosen, Before, Enabled
  <2>2. Born'
    BY <1>1, BornStays
  <2> QED BY <1>1, <2>1, <2>2 DEF EditInv, EditorTyped, NoneAlone, ListedIsSaved,
                           SavedTakesEffect, Editing
<1>3. saved \in Tables
  BY DEF EditInv, EditorTyped
<1>4. ASSUME NEW a \in Editors, NEW p \in Pipes, CreatePipeline(a, p) PROVE EditInv'
  <2>1. PICK i : i = created'
    OBVIOUS
  <2>2. i \in PipelineIds /\ Change(a, [saved EXCEPT ![i] = CreatedAt(p, i)])
    BY <1>4, <2>1 DEF CreatePipeline
  <2>3. edits < MaxEdits
    BY <2>2 DEF Change
  <2>4. /\ [saved EXCEPT ![i] = CreatedAt(p, i)] \in Tables
        /\ BornBy([saved EXCEPT ![i] = CreatedAt(p, i)], edits + 1)
    BY <2>2, <2>3, PutKeeps
  <2> QED BY <2>2, <2>4, ChangeKeeps
<1>5. ASSUME NEW a \in Editors, NEW p \in Pipes, Update(a, p) PROVE EditInv'
  <2>1. editor[a].id \in PipelineIds
    BY <1>5 DEF Update, EditInv, EditorTyped
  <2>2. PICK time \in TimesOf(editor[a].id) :
           Change(a, [saved EXCEPT ![editor[a].id] = CreatedAt(p, time)])
    BY <1>5 DEF Update
  <2>3. edits < MaxEdits
    BY <2>2 DEF Change
  <2>4. /\ [saved EXCEPT ![editor[a].id] = CreatedAt(p, time)] \in Tables
        /\ BornBy([saved EXCEPT ![editor[a].id] = CreatedAt(p, time)], edits + 1)
    BY <2>1, <2>3, PutKeeps
  <2> QED BY <2>2, <2>4, ChangeKeeps
<1>6. ASSUME NEW a \in Editors, NEW i \in PipelineIds, DeletePipeline(a, i) PROVE EditInv'
  <2>1. Change(a, [saved EXCEPT ![i] = NoPipe])
    BY <1>6 DEF DeletePipeline
  <2> QED BY <2>1, DropKeeps, ChangeKeeps
<1>7. ASSUME NEW a \in Editors, NEW i \in PipelineIds, FindPipeline(a, i) PROVE EditInv'
  <2> DEFINE e == [Idle EXCEPT !.stage = "found", !.id = i]
  <2>1. Idle \in Stages
    BY DEF Idle, Stages
  <2>2. e \in Stages /\ e.stage = "found" /\ e.id \in PipelineIds
    BY <2>1 DEF Stages
  <2>3. /\ saved' = saved /\ active' = active /\ behind' = behind /\ edits' = edits
        /\ editor[a] = Idle /\ editor' = [editor EXCEPT ![a] = e]
    BY <1>7 DEF FindPipeline
  <2> HIDE DEF e
  <2> QED BY <2>2, <2>3, StageKeeps
<1>8. ASSUME NEW a \in Editors, ListPipelines(a) PROVE EditInv'
  <2> DEFINE e == [editor[a] EXCEPT !.stage = "listed", !.list = saved]
  <2>1. editor \in [Editors -> Stages] /\ editor[a] \in Stages
    BY DEF EditInv, EditorTyped
  <2>2. e \in Stages /\ e.stage = "listed" /\ e.list = saved /\ e.met = editor[a].met
    BY <1>3, <2>1 DEF Stages
  <2>3. /\ saved' = saved /\ active' = active /\ behind' = behind /\ edits' = edits
        /\ editor[a].stage = "put" /\ editor' = [editor EXCEPT ![a] = e]
    BY <1>8, <2>1 DEF ListPipelines
  <2> HIDE DEF e
  <2> QED BY <2>2, <2>3, StageKeeps
<1>9. ASSUME NEW a \in Editors, ListingFails(a) PROVE EditInv'
  BY <1>9, RestKeeps DEF ListingFails
<1>10. ASSUME NEW a \in Editors, ReplaceSet(a) PROVE EditInv'
  BY <1>10, ReplaceKeeps
<1>11. ASSUME NEW w \in Workers, (\E e \in Arrivals : StartApply(w, e)) \/ RunPipeline(w) \/ Accepted(w)
       PROVE  EditInv'
  BY <1>1, <1>11 DEF StartApply, RunPipeline, Accepted
<1>12. CASE UNCHANGED pipelineVars
  BY <1>1, <1>12 DEF pipelineVars
<1> QED BY <1>4, <1>5, <1>6, <1>7, <1>8, <1>9, <1>10, <1>11, <1>12 DEF PipelineNext

\* With no edit under way the active set is what is saved, however edits and
\* reloads overlapped, unless a reload failed or met another edit
\* (pipelines.go:19-20, 72-92).
THEOREM EditsTakeEffect == PipelineSpec => []SavedTakesEffect
<1>1. EditInv => SavedTakesEffect
  BY DEF EditInv
<1> QED BY <1>1, EditInit, EditStep, PTL DEF PipelineSpec

-----------------------------------------------------------------------------
(* Pipelines: what comes out of a stage, a pipeline and a set.               *)

\* What enrichment makes of an event: an event, with a message if it had one;
\* and, where it sets nothing empty, one in which nothing is blank.
Improves(clean, e, f) ==
    /\ IsEvent(f)
    /\ e.message # NoText => f.message # NoText
    /\ clean /\ Filled(e) => Filled(f) /\ (e.service # NoText => f.service # NoText)

\* What becomes of a text is a text, or a level.
LEMMA TextsAre ==
    /\ NoText \in PipeTexts
    /\ Levels \subseteq PipeTexts
    /\ \A t \in PipeTexts : AsAttr(t) \in PipeTexts /\ LevelIn[t] \in Levels
    /\ \A t \in PipeTexts \ {NoText} : AsAttr(t) # NoText
<1>1. LevelIn \in [PipeTexts -> PipeTexts] /\ NoText \in PipeTexts
  BY PipelinesAssumption DEF PipelinesAssumption
<1>2. \A t \in DOMAIN Printed : Printed[t] \in PipeTexts \ {NoText}
  BY PipelinesAssumption DEF PipelinesAssumption
<1> QED BY <1>1, <1>2 DEF Levels, AsAttr

\* What a stage reads is a text.
LEMMA ReadsText ==
    ASSUME NEW e, IsEvent(e), NEW f, Has(e, f)
    PROVE  Read(e, f) \in PipeTexts /\ (Filled(e) => Read(e, f) # NoText)
<1>1. CASE f \in FirstClass
  <2>1. {e.message, e.service, e.level} \subseteq PipeTexts
    BY TextsAre DEF IsEvent
  <2>2. e[f] \in {e.message, e.service, e.level}
    BY <1>1 DEF FirstClass
  <2> QED BY <1>1, <2>1, <2>2 DEF Read, Has
<1>2. CASE f \notin FirstClass
  BY <1>2 DEF Read, Has, IsEvent, Filled
<1> QED BY <1>1, <1>2

\* An event with other attributes, all of them texts.
LEMMA AttrsImprove ==
    ASSUME NEW clean, NEW e, IsEvent(e), NEW attrs,
           \A k \in DOMAIN attrs : attrs[k] \in PipeTexts,
           clean /\ Filled(e) => \A k \in DOMAIN attrs : attrs[k] # NoText
    PROVE  Improves(clean, e, [e EXCEPT !.attrs = attrs])
<1> DEFINE f == [e EXCEPT !.attrs = attrs]
<1>1. f = [message |-> e.message, service |-> e.service, level |-> e.level,
           time |-> e.time, attrs |-> attrs]
  BY DEF IsEvent
<1>2. /\ f.message = e.message /\ f.service = e.service /\ f.level = e.level
      /\ f.attrs = attrs
      /\ f = [message |-> f.message, service |-> f.service, level |-> f.level,
              time |-> f.time, attrs |-> f.attrs]
  <2> HIDE DEF f
  <2> QED BY <1>1
<1> HIDE DEF f
<1>3. IsEvent(f)
  BY <1>2 DEF IsEvent
<1>4. clean /\ Filled(e) => Filled(f)
  BY <1>2 DEF Filled
<1> QED BY <1>2, <1>3, <1>4 DEF Improves, f

LEMMA WriteImproves ==
    ASSUME NEW clean, NEW e, IsEvent(e), NEW k, NEW t \in PipeTexts,
           clean /\ Filled(e) => t # NoText
    PROVE  Improves(clean, e, WriteAttr(e, k, t))
<1> DEFINE attrs == [x \in DOMAIN e.attrs \cup {k} |-> IF x = k THEN AsAttr(t) ELSE e.attrs[x]]
<1>1. \A x \in DOMAIN attrs : attrs[x] \in PipeTexts
  BY TextsAre DEF IsEvent
<1>3. clean /\ Filled(e) => \A x \in DOMAIN attrs : attrs[x] # NoText
  BY TextsAre DEF Filled
<1>2. WriteAttr(e, k, t) = [e EXCEPT !.attrs = attrs]
  BY DEF WriteAttr
<1> HIDE DEF attrs
<1> QED BY <1>1, <1>2, <1>3, AttrsImprove

LEMMA WithoutImproves ==
    ASSUME NEW clean, NEW e, IsEvent(e), NEW fs
    PROVE  Improves(clean, e, [e EXCEPT !.attrs = Without(@, fs)])
<1> DEFINE attrs == Without(e.attrs, fs)
<1>1. \A x \in DOMAIN attrs : attrs[x] \in PipeTexts
  BY DEF IsEvent, Without
<1>3. Filled(e) => \A x \in DOMAIN attrs : attrs[x] # NoText
  BY DEF Filled, Without
<1> HIDE DEF attrs
<1>2. Improves(clean, e, [e EXCEPT !.attrs = attrs])
  BY <1>1, <1>3, AttrsImprove
<1> QED BY <1>2 DEF attrs

\* Only what a group captured lands, so nothing is blanked.
LEMMA LandImproves ==
    ASSUME NEW clean, NEW e, IsEvent(e), NEW captures,
           \A k \in DOMAIN captures : captures[k] \in PipeTexts
    PROVE  Improves(clean, e, LandEvent(e, captures))
<1> DEFINE piece == TakesPart(captures)
           new  == piece \ FirstClass
           m == IF "message" \in piece THEN captures["message"] ELSE e.message
           s == IF "service" \in piece THEN captures["service"] ELSE e.service
           l == IF "level" \in piece THEN LevelIn[captures["level"]] ELSE e.level
           attrs == [k \in DOMAIN e.attrs \cup new |->
                        IF k \in new THEN AsAttr(captures[k]) ELSE e.attrs[k]]
           f == LandEvent(e, captures)
<1>1. \A k \in piece : captures[k] \in PipeTexts /\ captures[k] # NoText
  BY DEF TakesPart
<1>2. m \in PipeTexts /\ s \in PipeTexts /\ (e.message # NoText => m # NoText)
      /\ (e.service # NoText => s # NoText)
  <2> HIDE DEF piece
  <2> QED BY <1>1 DEF IsEvent
<1>3. l \in Levels
  <2> HIDE DEF piece
  <2> QED BY <1>1, TextsAre DEF IsEvent
<1>4. \A k \in DOMAIN attrs : attrs[k] \in PipeTexts
  <2> HIDE DEF piece
  <2> QED BY <1>1, TextsAre DEF IsEvent
<1>10. Filled(e) => \A k \in DOMAIN attrs : attrs[k] # NoText
  <2> HIDE DEF piece
  <2> QED BY <1>1, TextsAre DEF Filled
<1>5. e = [message |-> e.message, service |-> e.service, level |-> e.level,
           time |-> e.time, attrs |-> e.attrs]
  BY DEF IsEvent
<1>6. f = [e EXCEPT !.message = m, !.service = s, !.level = l, !.attrs = attrs]
  BY DEF LandEvent
<1> HIDE DEF piece, m, s, l, attrs, f
<1>7. f = [message |-> m, service |-> s, level |-> l, time |-> e.time, attrs |-> attrs]
  BY <1>5, <1>6
<1>8. /\ f.message = m /\ f.service = s /\ f.level = l /\ f.attrs = attrs
      /\ f = [message |-> f.message, service |-> f.service, level |-> f.level,
              time |-> f.time, attrs |-> f.attrs]
  BY <1>7
<1>9. IsEvent(f)
  BY <1>2, <1>3, <1>4, <1>8 DEF IsEvent
<1>11. Filled(e) => Filled(f)
  BY <1>8, <1>10 DEF Filled
<1> QED BY <1>2, <1>8, <1>9, <1>11 DEF Improves, f

LEMMA SameImproves == ASSUME NEW clean, NEW e, IsEvent(e) PROVE Improves(clean, e, e)
BY DEF Improves

LEMMA ImprovesTwice ==
    ASSUME NEW clean, NEW e, NEW f, NEW g, Improves(clean, e, f), Improves(clean, f, g)
    PROVE  Improves(clean, e, g)
BY DEF Improves

\* Results of stages.
Result(clean, e, r) == r.ok \in BOOLEAN /\ Improves(clean, e, r.event)

\* With one field replaced.
LEMMA FieldImproves ==
    ASSUME NEW clean, NEW e, IsEvent(e), NEW v
    PROVE  /\ v \in PipeTexts /\ (Filled(e) => v # NoText) => Improves(clean, e, [e EXCEPT !.service = v])
           /\ v \in Levels => Improves(clean, e, [e EXCEPT !.level = v])
           /\ Improves(clean, e, [e EXCEPT !.time = v])
<1>1. e = [message |-> e.message, service |-> e.service, level |-> e.level,
           time |-> e.time, attrs |-> e.attrs]
  BY DEF IsEvent
<1>2. ASSUME v \in PipeTexts, Filled(e) => v # NoText PROVE Improves(clean, e, [e EXCEPT !.service = v])
  <2> DEFINE f == [e EXCEPT !.service = v]
  <2>1. f = [message |-> e.message, service |-> v, level |-> e.level,
             time |-> e.time, attrs |-> e.attrs]
    BY <1>1
  <2> HIDE DEF f
  <2>2. IsEvent(f) /\ f.message = e.message /\ f.attrs = e.attrs /\ f.service = v
    BY <1>2, <2>1 DEF IsEvent
  <2> QED BY <1>2, <2>2 DEF Improves, Filled, f
<1>3. ASSUME v \in Levels PROVE Improves(clean, e, [e EXCEPT !.level = v])
  <2> DEFINE f == [e EXCEPT !.level = v]
  <2>1. f = [message |-> e.message, service |-> e.service, level |-> v,
             time |-> e.time, attrs |-> e.attrs]
    BY <1>1
  <2> HIDE DEF f
  <2>2. IsEvent(f) /\ f.message = e.message /\ f.attrs = e.attrs /\ f.service = e.service
    BY <1>3, <2>1 DEF IsEvent
  <2> QED BY <2>2 DEF Improves, Filled, f
<1>4. Improves(clean, e, [e EXCEPT !.time = v])
  <2> DEFINE f == [e EXCEPT !.time = v]
  <2>1. f = [message |-> e.message, service |-> e.service, level |-> e.level,
             time |-> v, attrs |-> e.attrs]
    BY <1>1
  <2> HIDE DEF f
  <2>2. IsEvent(f) /\ f.message = e.message /\ f.attrs = e.attrs /\ f.service = e.service
    BY <2>1 DEF IsEvent
  <2> QED BY <2>2 DEF Improves, Filled, f
<1> QED BY <1>2, <1>3, <1>4

LEMMA DoneFailed ==
    ASSUME NEW clean, NEW e, NEW f, Improves(clean, e, f)
    PROVE  Result(clean, e, Done(f)) /\ Result(clean, e, Failed(f))
BY DEF Result, Done, Failed

\* Every stage, whether it fails or not, leaves an event that is whole.
LEMMA StageImproves ==
    ASSUME NEW clean, NEW e, IsEvent(e), NEW s, IsStage(s),
           clean => ~(s.type = "set" /\ s.value = NoText)
    PROVE  Result(clean, e, RunStage(e, s))
<1> DEFINE t == Read(e, s.field)
           r == RunStage(e, s)
<1>1. CASE s.type = "remove"
  <2>1. r = Done([e EXCEPT !.attrs = Without(@, s.fields)])
    BY <1>1 DEF RunStage
  <2> QED BY <2>1, WithoutImproves, DoneFailed
<1>2. CASE s.type = "set"
  <2>1. r = Done(WriteAttr(e, s.to, s.value)) /\ s.value \in PipeTexts
       /\ (clean => s.value # NoText)
    BY <1>2 DEF RunStage, IsStage
  <2> QED BY <2>1, WriteImproves, DoneFailed
<1>3. CASE s.type \notin {"remove", "set"} /\ ~Has(e, s.field)
  <2>1. r = Failed(e)
    BY <1>3 DEF RunStage, IsStage
  <2> QED BY <2>1, SameImproves, DoneFailed
<1>4. CASE Has(e, s.field) /\ s.type = "extract"
  <2>1. r = Extract(e, s) /\ s.pattern \in DOMAIN Captured /\ t \in PipeTexts
    BY <1>4, ReadsText DEF RunStage, IsStage
  <2>2. CASE t \in DOMAIN Captured[s.pattern]
    <3>1. \A k \in DOMAIN Captured[s.pattern][t] : Captured[s.pattern][t][k] \in PipeTexts
      BY <2>1, <2>2, PipelinesAssumption DEF PipelinesAssumption
    <3>2. r = Done(LandEvent(e, Captured[s.pattern][t]))
      BY <2>1, <2>2 DEF Extract
    <3> QED BY <3>1, <3>2, LandImproves, DoneFailed
  <2>3. CASE t \notin DOMAIN Captured[s.pattern]
    <3>1. r = Failed(e)
      BY <2>1, <2>3 DEF Extract
    <3> QED BY <3>1, SameImproves, DoneFailed
  <2> QED BY <2>2, <2>3
<1>5. CASE Has(e, s.field) /\ s.type = "timestamp"
  <2>1. r = SetTime(e, s)
    BY <1>5 DEF RunStage
  <2>2. r \in {Done([e EXCEPT !.time = TimeIn[t]]), Failed(e)}
    BY <2>1 DEF SetTime
  <2> QED BY <2>2, FieldImproves, SameImproves, DoneFailed
<1>6. CASE Has(e, s.field) /\ s.type = "level"
  <2>1. r = Done([e EXCEPT !.level = LevelIn[t]]) /\ LevelIn[t] \in Levels
    BY <1>6, ReadsText, TextsAre DEF RunStage
  <2> QED BY <2>1, FieldImproves, DoneFailed
<1>7. CASE Has(e, s.field) /\ s.type = "service"
  <2>1. r = Done([e EXCEPT !.service = t]) /\ t \in PipeTexts /\ (Filled(e) => t # NoText)
    BY <1>7, ReadsText DEF RunStage
  <2> QED BY <2>1, FieldImproves, DoneFailed
<1>8. CASE Has(e, s.field) /\ s.type = "rename"
  <2> DEFINE written == WriteAttr(e, s.to, t)
             f == [written EXCEPT !.attrs = Without(@, {s.field})]
  <2>1. r = Done(f) /\ t \in PipeTexts /\ (Filled(e) => t # NoText)
    BY <1>8, ReadsText DEF RunStage, Rename
  <2>2. Improves(clean, e, written)
    BY <2>1, WriteImproves
  <2>3. Improves(clean, written, f)
    <3>1. IsEvent(written)
      BY <2>2 DEF Improves
    <3> HIDE DEF written
    <3> QED BY <3>1, WithoutImproves
  <2>4. Improves(clean, e, f)
    <3> HIDE DEF written, f
    <3> QED BY <2>2, <2>3, ImprovesTwice
  <2> QED BY <2>1, <2>4, DoneFailed
<1> QED BY <1>1, <1>2, <1>3, <1>4, <1>5, <1>6, <1>7, <1>8 DEF IsStage

\* The order of the naturals, as a set of pairs, is well founded.
LEMMA NatOrdered == IsWellFoundedOn({p \in Nat \X Nat : p[1] < p[2]}, Nat)
<1>1. OpToRel(<, Nat) = {p \in Nat \X Nat : p[1] < p[2]}
  BY DEF OpToRel
<1> QED BY <1>1, NatLessThanWellFounded

\* A set of naturals has a least element.
LEMMA LeastOf ==
    ASSUME NEW S \in SUBSET Nat, S # {}
    PROVE  \E m \in S : \A x \in S : m <= x
<1> DEFINE R == {p \in Nat \X Nat : p[1] < p[2]}
<1>1. IsWellFoundedOn(R, Nat)
  BY NatOrdered
<1>2. \A x, y \in Nat : x < y => <<x, y>> \in R
  OBVIOUS
<1> HIDE DEF R
<1>3. PICK m \in S : \A y \in S : ~(<<y, m>> \in R)
  BY <1>1, WFMin
<1>4. ASSUME NEW x \in S PROVE m <= x
  <2>1. x \in Nat /\ m \in Nat /\ ~(<<x, m>> \in R)
    BY <1>3
  <2>2. ~(x < m)
    BY <2>1, <1>2
  <2> QED BY <2>1, <2>2
<1> QED BY <1>4

\* f holds the results of the first m stages.
Runs(e, p, m, f) ==
    f = [n \in 0..m |-> IF n = 0 THEN Done(e) ELSE NextStage(f[n - 1], p.stages[n])]

LEMMA RunsExist ==
    ASSUME NEW e, NEW p, NEW m \in Nat
    PROVE  \E f : Runs(e, p, m, f)
<1> DEFINE S == {k \in Nat : ~\E f : Runs(e, p, k, f)}
<1>1. SUFFICES ASSUME S # {} PROVE FALSE
  OBVIOUS
<1>2. PICK k \in S : \A x \in S : k <= x
  <2>1. S \in SUBSET Nat
    OBVIOUS
  <2> HIDE DEF S
  <2> QED BY <1>1, <2>1, LeastOf
<1>3. k # 0
  <2>1. Runs(e, p, 0, [n \in 0..0 |-> Done(e)])
    BY DEF Runs
  <2> QED BY <2>1
<1>4. PICK f : Runs(e, p, k - 1, f)
  <2>1. k - 1 \in Nat /\ ~(k <= k - 1)
    BY <1>3
  <2>2. k - 1 \notin S
    BY <1>2, <2>1
  <2> QED BY <2>1, <2>2
<1> DEFINE g == [n \in 0..k |-> IF n = k THEN NextStage(f[n - 1], p.stages[n]) ELSE f[n]]
<1>5. Runs(e, p, k, g)
  <2>1. \A n \in 0..(k - 1) : f[n] = IF n = 0 THEN Done(e) ELSE NextStage(f[n - 1], p.stages[n])
    BY <1>4 DEF Runs
  <2>2. ASSUME NEW n \in 0..k
        PROVE  g[n] = IF n = 0 THEN Done(e) ELSE NextStage(g[n - 1], p.stages[n])
    <3>1. CASE n = 0
      BY <1>3, <2>1, <3>1
    <3>2. CASE n # 0
      <4>1. n - 1 \in 0..(k - 1) /\ n - 1 # k /\ n - 1 \in 0..k
        BY <3>2
      <4>2. g[n - 1] = f[n - 1]
        BY <4>1
      <4>3. g[n] = NextStage(f[n - 1], p.stages[n])
        <5>1. CASE n = k
          BY <5>1
        <5>2. CASE n # k
          <6>1. n \in 0..(k - 1)
            BY <5>2
          <6> QED BY <6>1, <5>2, <3>2, <2>1
        <5> QED BY <5>1, <5>2
      <4> QED BY <3>2, <4>2, <4>3
    <3> QED BY <3>1, <3>2
  <2>3. g = [n \in 0..k |-> g[n]]
    OBVIOUS
  <2> HIDE DEF g
  <2> QED BY <2>2, <2>3 DEF Runs
<1> QED BY <1>2, <1>5

\* f holds the event after each of the first m pipelines.
Passes(e, set, m, f) ==
    f = [n \in 0..m |-> IF n = 0 THEN e ELSE ApplyPipeline(f[n - 1], set[n])]

LEMMA PassesExist ==
    ASSUME NEW e, NEW set, NEW m \in Nat
    PROVE  \E f : Passes(e, set, m, f)
<1> DEFINE S == {k \in Nat : ~\E f : Passes(e, set, k, f)}
<1>1. SUFFICES ASSUME S # {} PROVE FALSE
  OBVIOUS
<1>2. PICK k \in S : \A x \in S : k <= x
  <2>1. S \in SUBSET Nat
    OBVIOUS
  <2> HIDE DEF S
  <2> QED BY <1>1, <2>1, LeastOf
<1>3. k # 0
  <2>1. Passes(e, set, 0, [n \in 0..0 |-> e])
    BY DEF Passes
  <2> QED BY <2>1
<1>4. PICK f : Passes(e, set, k - 1, f)
  <2>1. k - 1 \in Nat /\ ~(k <= k - 1)
    BY <1>3
  <2>2. k - 1 \notin S
    BY <1>2, <2>1
  <2> QED BY <2>1, <2>2
<1> DEFINE g == [n \in 0..k |-> IF n = k THEN ApplyPipeline(f[n - 1], set[n]) ELSE f[n]]
<1>5. Passes(e, set, k, g)
  <2>1. \A n \in 0..(k - 1) : f[n] = IF n = 0 THEN e ELSE ApplyPipeline(f[n - 1], set[n])
    BY <1>4 DEF Passes
  <2>2. ASSUME NEW n \in 0..k
        PROVE  g[n] = IF n = 0 THEN e ELSE ApplyPipeline(g[n - 1], set[n])
    <3>1. CASE n = 0
      BY <1>3, <2>1, <3>1
    <3>2. CASE n # 0
      <4>1. n - 1 \in 0..(k - 1) /\ n - 1 # k /\ n - 1 \in 0..k
        BY <3>2
      <4>2. g[n - 1] = f[n - 1]
        BY <4>1
      <4>3. g[n] = ApplyPipeline(f[n - 1], set[n])
        <5>1. CASE n = k
          BY <5>1
        <5>2. CASE n # k
          <6>1. n \in 0..(k - 1)
            BY <5>2
          <6> QED BY <6>1, <5>2, <3>2, <2>1
        <5> QED BY <5>1, <5>2
      <4> QED BY <3>2, <4>2, <4>3
    <3> QED BY <3>1, <3>2
  <2>3. g = [n \in 0..k |-> g[n]]
    OBVIOUS
  <2> HIDE DEF g
  <2> QED BY <2>2, <2>3 DEF Passes
<1> QED BY <1>2, <1>5

\* The enabled pipelines that compile: what a set consists of.
Active == {p \in Rows : p.enabled /\ p.compiles}

LEMMA StagesOf ==
    ASSUME NEW p \in Active
    PROVE  /\ Len(p.stages) \in Nat
           /\ \A n \in 1..Len(p.stages) :
                 IsStage(p.stages[n]) /\ p.stages[n] \in ToSet(p.stages)
<1>3. PICK sent \in Pipes : \E n : p = CreatedAt(sent, n)
  BY DEF Active, Rows
<1>4. p.stages = sent.stages /\ sent.compiles
  BY <1>3, RowsAre DEF Active
<1>1. p.stages \in Seq(ToSet(p.stages)) /\ \A s \in ToSet(p.stages) : IsStage(s)
  BY <1>4, PipelinesAssumption DEF PipelinesAssumption
<1>2. Len(p.stages) \in Nat /\ \A n \in 1..Len(p.stages) : p.stages[n] \in ToSet(p.stages)
  <2> HIDE DEF ToSet
  <2> DEFINE T == ToSet(p.stages)
  <2>1. p.stages \in Seq(T)
    BY <1>1
  <2> HIDE DEF T
  <2>2. Len(p.stages) \in Nat /\ \A n \in 1..Len(p.stages) : p.stages[n] \in T
    BY <2>1
  <2> QED BY <2>2 DEF T
<1> QED BY <1>1, <1>2

\* The stages of a pipeline, one after another, however many and whichever fail.
LEMMA PipelineImproves ==
    ASSUME NEW clean, NEW e, IsEvent(e), NEW p \in Active, clean => ~SetsBlank(p)
    PROVE  Improves(clean, e, ApplyPipeline(e, p))
<1>1. Len(p.stages) \in Nat
  BY StagesOf
<1> DEFINE Loop(f) == [n \in 0..Len(p.stages) |->
                          IF n = 0 THEN Done(e) ELSE NextStage(f[n - 1], p.stages[n])]
           run == CHOOSE f : f = Loop(f)
<1>2. ApplyStages(e, p) = run[Len(p.stages)].event
  BY DEF ApplyStages
<1>3. \A f : Runs(e, p, Len(p.stages), f) <=> f = Loop(f)
  BY DEF Runs
<1>4. \E f : f = Loop(f)
  BY <1>1, <1>3, RunsExist
<1> HIDE DEF Loop
<1>5. run = Loop(run)
  BY <1>4
<1> HIDE DEF run
<1>6. \A n \in 0..Len(p.stages) :
         run[n] = IF n = 0 THEN Done(e) ELSE NextStage(run[n - 1], p.stages[n])
  BY <1>5 DEF Loop
<1> DEFINE Bad == {n \in Nat : n <= Len(p.stages) /\ ~Result(clean, e, run[n])}
<1>7. Bad = {}
  <2>1. SUFFICES ASSUME Bad # {} PROVE FALSE
    OBVIOUS
  <2>2. PICK k \in Bad : \A x \in Bad : k <= x
    <3>1. Bad \in SUBSET Nat
      OBVIOUS
    <3> HIDE DEF Bad
    <3> QED BY <2>1, <3>1, LeastOf
  <2>3. k \in 0..Len(p.stages) /\ ~Result(clean, e, run[k])
    BY <1>1
  <2>4. k # 0
    <3>1. Result(clean, e, Done(e))
      BY SameImproves, DoneFailed
    <3> QED BY <1>1, <1>6, <2>3, <3>1
  <2>5. k - 1 \in 0..Len(p.stages) /\ ~(k <= k - 1) /\ k \in 1..Len(p.stages)
    BY <1>1, <2>3, <2>4
  <2>6. Result(clean, e, run[k - 1])
    BY <2>2, <2>5
  <2>7. run[k] = NextStage(run[k - 1], p.stages[k])
    BY <1>6, <2>3, <2>4
  <2>8. CASE ~run[k - 1].ok
    BY <2>3, <2>6, <2>7, <2>8 DEF NextStage
  <2>9. CASE run[k - 1].ok
    <3> DEFINE f == run[k - 1].event
               next == RunStage(f, p.stages[k])
    <3>1. IsStage(p.stages[k]) /\ Improves(clean, e, f) /\ IsEvent(f)
      BY <2>5, <2>6, StagesOf DEF Result, Improves
    <3>5. clean => ~(p.stages[k].type = "set" /\ p.stages[k].value = NoText)
      BY <2>5, StagesOf DEF SetsBlank
    <3>2. Result(clean, f, next)
      BY <3>1, <3>5, StageImproves
    <3>3. Improves(clean, e, next.event)
      <4> HIDE DEF f, next
      <4> QED BY <3>1, <3>2, ImprovesTwice DEF Result
    <3>4. run[k].event = next.event /\ run[k].ok \in BOOLEAN
      <4>1. run[k] = [ok |-> next.ok \/ ~p.stages[k].failPipeline, event |-> next.event]
        BY <2>7, <2>9 DEF NextStage
      <4> HIDE DEF next
      <4> QED BY <4>1
    <3> QED BY <2>3, <3>3, <3>4 DEF Result
  <2> QED BY <2>6, <2>8, <2>9 DEF Result
<1>8. Result(clean, e, run[Len(p.stages)])
  BY <1>1, <1>7
<1>9. Improves(clean, e, ApplyStages(e, p))
  BY <1>2, <1>8 DEF Result
<1> QED BY <1>9, SameImproves DEF ApplyPipeline

\* Through goes on by one pipeline at a time.
LEMMA ThroughSteps ==
    ASSUME NEW e, NEW set \in Seq(Active)
    PROVE  /\ Through(e, set)[0] = e
           /\ \A n \in 1..Len(set) : Through(e, set)[n] = ApplyPipeline(Through(e, set)[n - 1], set[n])
<1>1. Len(set) \in Nat
  OBVIOUS
<1> DEFINE Loop(f) == [n \in 0..Len(set) |-> IF n = 0 THEN e ELSE ApplyPipeline(f[n - 1], set[n])]
           t == CHOOSE f : f = Loop(f)
<1>2. Through(e, set) = t
  BY DEF Through
<1>3. \A f : Passes(e, set, Len(set), f) <=> f = Loop(f)
  BY DEF Passes
<1>4. \E f : f = Loop(f)
  BY <1>1, <1>3, PassesExist
<1> HIDE DEF Loop
<1>5. t = Loop(t)
  BY <1>4
<1> HIDE DEF t
<1>6. \A n \in 0..Len(set) : t[n] = IF n = 0 THEN e ELSE ApplyPipeline(t[n - 1], set[n])
  BY <1>5 DEF Loop
<1>7. t[0] = e
  BY <1>1, <1>6
<1>8. \A n \in 1..Len(set) : t[n] = ApplyPipeline(t[n - 1], set[n])
  BY <1>1, <1>6
<1> QED BY <1>2, <1>7, <1>8

-----------------------------------------------------------------------------
(* Pipelines: the active set.                                                *)

\* The pipelines there are.
Taken(t) == {i \in PipelineIds : t[i] # NoPipe}

LEMMA BeforeOrders ==
    ASSUME NEW t \in Tables
    PROVE  /\ \A i, j \in Taken(t) : i = j \/ Before(t, i, j) \/ Before(t, j, i)
           /\ \A i, j, k \in Taken(t) : Before(t, i, j) /\ Before(t, j, k) => Before(t, i, k)
<1>1. \A i \in Taken(t) : t[i].order \in Int /\ t[i].created \in Int
  <2> SUFFICES ASSUME NEW i \in Taken(t) PROVE t[i].order \in Int /\ t[i].created \in Int
    OBVIOUS
  <2>1. t[i] \in Rows
    BY DEF Taken, Tables
  <2>2. PICK p \in Pipes, n \in (-MaxEdits)..Cardinality(PipelineIds) : t[i] = CreatedAt(p, n)
    BY <2>1 DEF Rows
  <2>3. n \in Int
    BY <2>2, Ids
  <2>4. p.order \in Int
    BY PipelinesAssumption DEF PipelinesAssumption
  <2> QED BY <2>2, <2>3, <2>4, RowsAre
<1>2. \A i, j \in Taken(t) : i = j \/ t[i].created # t[j].created
  BY DEF Taken, Tables, Apart
<1>3. ASSUME NEW i \in Taken(t), NEW j \in Taken(t)
      PROVE  i = j \/ Before(t, i, j) \/ Before(t, j, i)
  <2>1. /\ t[i].order \in Int /\ t[j].order \in Int
        /\ t[i].created \in Int /\ t[j].created \in Int
        /\ i = j \/ t[i].created # t[j].created
    BY <1>1, <1>2
  <2> QED BY <2>1 DEF Before
<1>4. ASSUME NEW i \in Taken(t), NEW j \in Taken(t), NEW k \in Taken(t),
             Before(t, i, j), Before(t, j, k)
      PROVE  Before(t, i, k)
  <2>1. /\ t[i].order \in Int /\ t[j].order \in Int /\ t[k].order \in Int
        /\ t[i].created \in Int /\ t[j].created \in Int /\ t[k].created \in Int
    BY <1>1
  <2> QED BY <1>4, <2>1 DEF Before
<1> QED BY <1>3, <1>4

\* The sets of pipelines of one size.
OfSize(t, n) == {S \in SUBSET Taken(t) : IsFiniteSet(S) /\ Cardinality(S) = n}

LEMMA OneFewer ==
    ASSUME NEW t, NEW n \in Nat, NEW S \in OfSize(t, n), n # 0, NEW x \in S
    PROVE  n - 1 \in Nat /\ S \ {x} \in OfSize(t, n - 1)
<1>1. IsFiniteSet(S) /\ Cardinality(S) = n /\ S \in SUBSET Taken(t)
  BY DEF OfSize
<1>2. IsFiniteSet(S \ {x}) /\ Cardinality(S \ {x}) = n - 1
  BY <1>1, FS_RemoveElement
<1> QED BY <1>1, <1>2 DEF OfSize

HasLatest(t, S) == \E m \in S : \A x \in S \ {m} : Before(t, x, m)

\* Some pipeline of a set comes last.
LEMMA LatestOne ==
    ASSUME NEW t \in Tables, NEW n \in Nat, NEW S \in OfSize(t, n), S # {}
    PROVE  HasLatest(t, S)
<1> DEFINE Bad == {k \in Nat : \E T \in OfSize(t, k) : T # {} /\ ~HasLatest(t, T)}
<1>1. SUFFICES ASSUME Bad # {} PROVE FALSE
  OBVIOUS
<1>2. PICK k \in Bad : \A x \in Bad : k <= x
  <2>1. Bad \in SUBSET Nat
    OBVIOUS
  <2> HIDE DEF Bad
  <2> QED BY <1>1, <2>1, LeastOf
<1>3. PICK T \in OfSize(t, k) : T # {} /\ ~HasLatest(t, T)
  BY <1>2
<1>4. k \in Nat /\ k # 0 /\ T \in SUBSET Taken(t)
  <2>1. IsFiniteSet(T) /\ Cardinality(T) = k /\ T \in SUBSET Taken(t)
    BY DEF OfSize
  <2> QED BY <1>2, <1>3, <2>1, FS_EmptySet
<1>5. PICK x \in T : TRUE
  BY <1>3
<1>6. k - 1 \in Nat /\ T \ {x} \in OfSize(t, k - 1)
  BY <1>4, OneFewer
<1>7. k - 1 \notin Bad
  <2>1. ~(k <= k - 1)
    BY <1>4
  <2> QED BY <1>2, <2>1
<1>8. CASE T \ {x} = {}
  BY <1>3, <1>8 DEF HasLatest
<1>9. CASE T \ {x} # {}
  <2>1. HasLatest(t, T \ {x})
    BY <1>6, <1>7, <1>9
  <2>2. PICK m \in T \ {x} : \A y \in (T \ {x}) \ {m} : Before(t, y, m)
    BY <2>1 DEF HasLatest
  <2>3. CASE Before(t, m, x)
    <3>1. \A y \in T \ {x} : Before(t, y, x)
      BY <1>4, <2>2, <2>3, BeforeOrders
    <3> QED BY <1>3, <3>1 DEF HasLatest
  <2>4. CASE ~Before(t, m, x)
    <3>1. Before(t, x, m)
      BY <1>4, <2>2, <2>4, BeforeOrders
    <3>2. \A y \in T \ {m} : Before(t, y, m)
      BY <2>2, <3>1
    <3> QED BY <1>3, <3>2 DEF HasLatest
  <2> QED BY <2>3, <2>4
<1> QED BY <1>8, <1>9

\* ids names the pipelines of S in order.
Ordered(t, ids, S) ==
    /\ ids \in [1..Cardinality(S) -> S] /\ ToSet(ids) = S
    /\ \A m, n \in DOMAIN ids : m < n => Before(t, ids[m], ids[n])

\* A set of pipelines can be put in order.
LEMMA CanBeOrdered ==
    ASSUME NEW t \in Tables, NEW n \in Nat, NEW S \in OfSize(t, n)
    PROVE  \E ids : Ordered(t, ids, S)
<1> DEFINE Bad == {k \in Nat : \E T \in OfSize(t, k) : ~\E ids : Ordered(t, ids, T)}
<1>1. SUFFICES ASSUME Bad # {} PROVE FALSE
  OBVIOUS
<1>2. PICK k \in Bad : \A x \in Bad : k <= x
  <2>1. Bad \in SUBSET Nat
    OBVIOUS
  <2> HIDE DEF Bad
  <2> QED BY <1>1, <2>1, LeastOf
<1>3. PICK T \in OfSize(t, k) : ~\E ids : Ordered(t, ids, T)
  BY <1>2
<1>4. k \in Nat /\ T \in SUBSET Taken(t) /\ IsFiniteSet(T) /\ Cardinality(T) = k
  BY <1>2 DEF OfSize
<1>5. k # 0
  <2>1. SUFFICES ASSUME k = 0 PROVE FALSE
    OBVIOUS
  <2>2. T = {}
    BY <1>4, <2>1, FS_EmptySet
  <2>3. Ordered(t, [i \in 1..0 |-> 0], T)
    BY <1>4, <2>1, <2>2 DEF Ordered, ToSet
  <2> QED BY <1>3, <2>3
<1>6. T # {}
  BY <1>4, <1>5, FS_EmptySet
<1>7. PICK m \in T : \A x \in T \ {m} : Before(t, x, m)
  BY <1>4, <1>6, LatestOne DEF HasLatest
<1>8. k - 1 \in Nat /\ T \ {m} \in OfSize(t, k - 1)
  BY <1>4, <1>5, OneFewer
<1>9. k - 1 \notin Bad
  <2>1. ~(k <= k - 1)
    BY <1>4
  <2> QED BY <1>2, <2>1
<1>10. PICK u : Ordered(t, u, T \ {m})
  BY <1>8, <1>9
<1>11. /\ u \in [1..(k - 1) -> T \ {m}] /\ ToSet(u) = T \ {m}
       /\ \A i, j \in 1..(k - 1) : i < j => Before(t, u[i], u[j])
  <2>1. Cardinality(T \ {m}) = k - 1
    BY <1>8 DEF OfSize
  <2>2. u \in [1..(k - 1) -> T \ {m}]
    BY <1>10, <2>1 DEF Ordered
  <2> QED BY <1>10, <2>2 DEF Ordered
<1> DEFINE ids == [i \in 1..k |-> IF i = k THEN m ELSE u[i]]
<1>12. /\ \A i \in 1..k : i = k \/ i \in 1..(k - 1)
       /\ \A i, j \in 1..k : i < j => i \in 1..(k - 1)
       /\ \A i \in 1..(k - 1) : i \in 1..k /\ i # k
       /\ k \in 1..k
  BY <1>4, <1>5
<1>13. ids \in [1..k -> T]
  BY <1>11, <1>12
<1>14. ASSUME NEW i \in 1..k, NEW j \in 1..k, i < j PROVE Before(t, ids[i], ids[j])
  <2>1. i \in 1..(k - 1) /\ i # k /\ ids[i] = u[i] /\ u[i] \in T \ {m}
    BY <1>4, <1>11, <1>12, <1>14
  <2>2. CASE j = k
    BY <1>7, <2>1, <2>2
  <2>3. CASE j # k
    <3>1. j \in 1..(k - 1) /\ ids[j] = u[j]
      BY <1>12, <2>3
    <3> QED BY <1>11, <1>14, <2>1, <3>1
  <2> QED BY <2>2, <2>3
<1>15. ToSet(ids) = T
  <2>1. ASSUME NEW x \in T PROVE x \in ToSet(ids)
    <3>1. CASE x = m
      BY <1>12, <3>1 DEF ToSet
    <3>2. CASE x # m
      <4>1. PICK i \in 1..(k - 1) : x = u[i]
        BY <1>11, <3>2 DEF ToSet
      <4>2. ids[i] = x /\ i \in DOMAIN ids
        BY <1>12, <4>1
      <4> HIDE DEF ids
      <4> QED BY <4>2 DEF ToSet
    <3> QED BY <3>1, <3>2
  <2>2. ToSet(ids) \subseteq T
    BY <1>13 DEF ToSet
  <2> QED BY <2>1, <2>2
<1>16. Ordered(t, ids, T)
  BY <1>4, <1>13, <1>14, <1>15 DEF Ordered
<1> QED BY <1>3, <1>16

\* What is installed consists of enabled pipelines that compile.
LEMMA CompiledActive ==
    ASSUME NEW t \in Tables, AllCompile(t)
    PROVE  Compiled(t) \in Seq(Active)
<1>6. Chosen(t) \subseteq Taken(t)
  BY DEF Chosen, Taken, Enabled, NoPipe
<1>1. /\ Chosen(t) \in SUBSET Taken(t) /\ IsFiniteSet(Chosen(t))
      /\ Cardinality(Chosen(t)) \in Nat
  BY <1>6, FS_Subset, FS_CardinalityType, PipelinesAssumption DEF PipelinesAssumption, Chosen
<1>2. \E ids : Ordered(t, ids, Chosen(t))
  BY <1>1, CanBeOrdered DEF OfSize
<1>3. InOrder(t) \in [1..Cardinality(Chosen(t)) -> Chosen(t)]
  BY <1>2 DEF InOrder, Ordered
<1>4. \A i \in Chosen(t) : t[i] \in Active
  <2> SUFFICES ASSUME NEW i \in Chosen(t) PROVE t[i] \in Active
    OBVIOUS
  <2>1. i \in PipelineIds /\ t[i].enabled /\ t[i].compiles
    BY DEF Chosen, Enabled, AllCompile
  <2>2. t[i] \in Rows \cup {NoPipe} /\ ~NoPipe.enabled
    BY <2>1 DEF Tables, NoPipe
  <2> QED BY <2>1, <2>2 DEF Active
<1>5. Compiled(t) \in [1..Cardinality(Chosen(t)) -> Active]
  BY <1>3, <1>4 DEF Compiled
<1> QED BY <1>1, <1>5

-----------------------------------------------------------------------------
(* Pipelines: an event on its way through a set.                             *)

\* No stage of the set sets an attribute empty.
Unblanking(set) == ~\E n \in DOMAIN set : SetsBlank(set[n])

\* How far a worker has come says what the event has become.
Halfway(x) ==
    /\ x = [set |-> x.set, at |-> x.at, event |-> x.event, given |-> x.given]
    /\ x.set \in Seq(Active) /\ x.at \in 1..(Len(x.set) + 1)
    /\ IsEvent(x.given) /\ Improves(Unblanking(x.set), x.given, x.event)
    /\ x.event = Through(x.given, x.set)[x.at - 1]

Enriching ==
    /\ active \in Seq(Active)
    /\ DOMAIN worker = Workers
    /\ \A w \in Workers : worker[w] = Resting \/ Halfway(worker[w])

Counted ==
    /\ created \in 0..Cardinality(PipelineIds)
    /\ behind \in BOOLEAN
    /\ edits \in 0..MaxEdits
    /\ reloadFails \in 0..MaxReloadFails

\* What is active, listed or applied is what the store held.
Recorded ==
    /\ saved \in tables
    /\ \A a \in Editors : editor[a].stage = "listed" => editor[a].list \in tables
    /\ active \in SavedSets
    /\ \A w \in Workers : worker[w].set \in SavedSets

PipelineInv == EditInv /\ Enriching /\ Counted /\ Recorded

LEMMA PipelineInvInit == PipelineInit => PipelineInv
<1> SUFFICES ASSUME PipelineInit PROVE PipelineInv
  OBVIOUS
<1>1. EditInv
  BY EditInit
<1>2. saved \in Tables
  BY <1>1 DEF EditInv, EditorTyped
<1>3. active \in Seq(Active)
  <2>1. CASE AllCompile(saved)
    BY <1>2, <2>1, CompiledActive DEF PipelineInit
  <2>2. CASE ~AllCompile(saved)
    <3>1. active = <<>>
      BY <2>2 DEF PipelineInit
    <3> QED BY <3>1
  <2> QED BY <2>1, <2>2
<1>4. Enriching
  BY <1>3 DEF PipelineInit, Enriching
<1>5. Counted
  <2>1. created \in 0..Cardinality(PipelineIds)
    <3> DEFINE S == {i \in PipelineIds : saved[i] # NoPipe}
    <3>1. IsFiniteSet(PipelineIds)
      BY PipelinesAssumption DEF PipelinesAssumption
    <3>2. IsFiniteSet(S) /\ Cardinality(S) <= Cardinality(PipelineIds)
      BY <3>1, FS_Subset
    <3>3. Cardinality(S) \in Nat /\ Cardinality(PipelineIds) \in Nat
      BY <3>1, <3>2, FS_CardinalityType
    <3>4. created = Cardinality(S)
      BY DEF PipelineInit
    <3> HIDE DEF S
    <3> QED BY <3>2, <3>3, <3>4
  <2>2. behind \in BOOLEAN
    BY DEF PipelineInit, AllCompile
  <2>3. edits = 0 /\ reloadFails = 0 /\ MaxEdits \in Nat /\ MaxReloadFails \in Nat
    BY PipelinesAssumption DEF PipelineInit, PipelinesAssumption
  <2> QED BY <2>1, <2>2, <2>3 DEF Counted
<1>6. Recorded
  <2>1. \A a \in Editors : editor[a].stage = "idle"
    BY DEF PipelineInit, Idle
  <2>2. \A w \in Workers : worker[w].set = <<>>
    BY DEF PipelineInit, Resting
  <2>3. <<>> \in SavedSets
    BY DEF SavedSets
  <2>4. AllCompile(saved) => Compiled(saved) \in SavedSets
    BY DEF PipelineInit, SavedSets
  <2>5. active \in SavedSets
    BY <2>3, <2>4 DEF PipelineInit
  <2>6. saved \in tables
    BY DEF PipelineInit
  <2> QED BY <2>1, <2>2, <2>3, <2>5, <2>6 DEF Recorded
<1> QED BY <1>1, <1>4, <1>5, <1>6 DEF PipelineInv

\* A worker takes the set as it is, and keeps it.
LEMMA StartKeeps ==
    ASSUME PipelineInv, NEW w \in Workers, NEW e \in Arrivals, StartApply(w, e)
    PROVE  Enriching'
<1> DEFINE x == [set |-> active, at |-> 1, event |-> e, given |-> e]
<1>1. active \in Seq(Active) /\ Len(active) \in Nat
  BY DEF PipelineInv, Enriching
<1>2. IsEvent(e)
  BY PipelinesAssumption DEF PipelinesAssumption
<1>3. Through(e, active)[0] = e
  BY <1>1, ThroughSteps
<1>4. Improves(Unblanking(active), e, e)
  BY <1>2, SameImproves
<1>5. Halfway(x)
  <2>1. x.set = active /\ x.at = 1 /\ x.event = e /\ x.given = e
    OBVIOUS
  <2>2. x.at - 1 = 0 /\ x.at \in 1..(Len(x.set) + 1)
    BY <1>1, <2>1
  <2> QED BY <1>1, <1>2, <1>3, <1>4, <2>1, <2>2 DEF Halfway
<1>6. worker' = [worker EXCEPT ![w] = x] /\ active' = active
  BY DEF StartApply
<1> HIDE DEF x
<1> QED BY <1>5, <1>6 DEF PipelineInv, Enriching

\* One pipeline on.
LEMMA RunKeeps ==
    ASSUME PipelineInv, NEW w \in Workers, RunPipeline(w)
    PROVE  Enriching'
<1> DEFINE x == worker[w]
           y == worker'[w]
<1>1. /\ DOMAIN worker' = Workers
      /\ \A v \in Workers : v # w => worker'[v] = worker[v]
      /\ y = [worker[w] EXCEPT !.event = ApplyPipeline(@, x.set[x.at]), !.at = @ + 1]
      /\ active' = active /\ x.at \in DOMAIN x.set
  BY DEF PipelineInv, Enriching, RunPipeline
<1>2. Halfway(x)
  <2>1. x # Resting
    BY <1>1 DEF Resting
  <2> QED BY <2>1 DEF PipelineInv, Enriching
<1>3. /\ x.set \in Seq(Active) /\ Len(x.set) \in Nat /\ x.at \in 1..Len(x.set)
      /\ x.set[x.at] \in Active
  <2>1. x.set \in Seq(Active)
    BY <1>2 DEF Halfway
  <2> HIDE DEF x
  <2> QED BY <1>1, <2>1
<1> DEFINE e == ApplyPipeline(x.event, x.set[x.at])
<1>4. y = [set |-> x.set, at |-> x.at + 1, event |-> e, given |-> x.given]
  BY <1>1, <1>2 DEF Halfway
<1> HIDE DEF x, y
<1>5. Improves(Unblanking(x.set), x.given, x.event) /\ IsEvent(x.given) /\ IsEvent(x.event)
  BY <1>2 DEF Halfway, Improves
<1>6. Improves(Unblanking(x.set), x.given, e)
  <2>1. Unblanking(x.set) => ~SetsBlank(x.set[x.at])
    BY <1>3 DEF Unblanking
  <2>2. Improves(Unblanking(x.set), x.event, e)
    BY <1>3, <1>5, <2>1, PipelineImproves
  <2> QED BY <1>5, <2>2, ImprovesTwice
<1>7. e = Through(x.given, x.set)[x.at]
  <2>1. x.event = Through(x.given, x.set)[x.at - 1]
    BY <1>2 DEF Halfway
  <2> QED BY <1>3, <2>1, ThroughSteps
<1> HIDE DEF e
<1>8. /\ y.set = x.set /\ y.at = x.at + 1 /\ y.event = e /\ y.given = x.given
      /\ y = [set |-> y.set, at |-> y.at, event |-> y.event, given |-> y.given]
  BY <1>4
<1>9. y.at \in 1..(Len(y.set) + 1) /\ y.at - 1 = x.at
  BY <1>3, <1>8
<1>10. Halfway(y)
  BY <1>3, <1>5, <1>6, <1>7, <1>8, <1>9 DEF Halfway
<1> QED BY <1>1, <1>10 DEF PipelineInv, Enriching, y

LEMMA EnrichStep == PipelineInv /\ [PipelineNext]_pipelineVars => Enriching'
<1> SUFFICES ASSUME PipelineInv, [PipelineNext]_pipelineVars PROVE Enriching'
  OBVIOUS
<1>1. ASSUME worker' = worker, active' = active PROVE Enriching'
  BY <1>1 DEF PipelineInv, Enriching
<1>2. ASSUME NEW a \in Editors, NEW p \in Pipes, CreatePipeline(a, p) \/ Update(a, p) PROVE Enriching'
  BY <1>1, <1>2 DEF CreatePipeline, Update, Change
<1>3. ASSUME NEW a \in Editors, NEW i \in PipelineIds, FindPipeline(a, i) \/ DeletePipeline(a, i)
      PROVE  Enriching'
  BY <1>1, <1>3 DEF FindPipeline, DeletePipeline, Change
<1>4. ASSUME NEW a \in Editors, ListPipelines(a) \/ ListingFails(a) PROVE Enriching'
  <2>1. CASE ListPipelines(a)
    BY <1>1, <2>1 DEF ListPipelines
  <2>2. CASE ListingFails(a)
    <3>1. worker' = worker /\ active' = active
      BY <2>2 DEF ListingFails
    <3> QED BY <1>1, <3>1
  <2> QED BY <1>4, <2>1, <2>2
<1>5. ASSUME NEW a \in Editors, ReplaceSet(a) PROVE Enriching'
  <2>1. worker' = worker /\ editor[a].list \in Tables
    BY <1>5 DEF ReplaceSet, PipelineInv, EditInv, EditorTyped
  <2>2. active' \in Seq(Active)
    <3>1. CASE AllCompile(editor[a].list)
      BY <1>5, <2>1, <3>1, CompiledActive DEF ReplaceSet, InstallSet
    <3>2. CASE ~AllCompile(editor[a].list)
      BY <1>5, <3>2 DEF ReplaceSet, InstallSet, PipelineInv, Enriching
    <3> QED BY <3>1, <3>2
  <2> QED BY <2>1, <2>2 DEF PipelineInv, Enriching
<1>6. ASSUME NEW w \in Workers, NEW e \in Arrivals, StartApply(w, e) PROVE Enriching'
  BY <1>6, StartKeeps
<1>7. ASSUME NEW w \in Workers, RunPipeline(w) PROVE Enriching'
  BY <1>7, RunKeeps
<1>8. ASSUME NEW w \in Workers, Accepted(w) PROVE Enriching'
  BY <1>8 DEF Accepted, PipelineInv, Enriching
<1>9. CASE UNCHANGED pipelineVars
  BY <1>1, <1>9 DEF pipelineVars
<1> QED BY <1>2, <1>3, <1>4, <1>5, <1>6, <1>7, <1>8, <1>9 DEF PipelineNext

\* The store only comes to have held more.
LEMMA SetsGrow == ASSUME tables \subseteq tables' PROVE SavedSets \subseteq SavedSets'
BY DEF SavedSets

LEMMA RecordedStep == PipelineInv /\ [PipelineNext]_pipelineVars => Recorded'
<1> SUFFICES ASSUME PipelineInv, [PipelineNext]_pipelineVars PROVE Recorded'
  OBVIOUS
<1>1. /\ saved \in tables /\ active \in SavedSets
      /\ \A a \in Editors : editor[a].stage = "listed" => editor[a].list \in tables
      /\ \A w \in Workers : worker[w].set \in SavedSets
      /\ DOMAIN editor = Editors /\ DOMAIN worker = Workers
  BY DEF PipelineInv, Recorded, EditInv, EditorTyped, Enriching
<1>2. ASSUME NEW a \in Editors, NEW table, Change(a, table) PROVE Recorded'
  <2>1. /\ saved' = table /\ tables' = tables \cup {table} /\ active' = active /\ worker' = worker
        /\ editor'[a].stage = "put"
        /\ \A b \in Editors : b # a =>
              editor'[b].stage = editor[b].stage /\ editor'[b].list = editor[b].list
    <3>1. /\ saved' = table /\ tables' = tables \cup {table} /\ active' = active /\ worker' = worker
      BY <1>2 DEF Change
    <3>2. editor'[a] = [stage |-> "put", id |-> 0, list |-> <<>>, met |-> Editing # {}]
      BY <1>2 DEF Change
    <3>3. ASSUME NEW b \in Editors, b # a
          PROVE  editor'[b].stage = editor[b].stage /\ editor'[b].list = editor[b].list
      <4>1. editor'[b] = [editor[b] EXCEPT !.met = @ \/ b \in Editing] /\ editor[b] \in Stages
        BY <1>2, <3>3 DEF Change, PipelineInv, EditInv, EditorTyped
      <4> HIDE DEF Editing
      <4> QED BY <4>1 DEF Stages
    <3>4. editor'[a].stage = "put"
      BY <3>2
    <3> QED BY <3>1, <3>3, <3>4
  <2>2. SavedSets \subseteq SavedSets'
    BY <2>1, SetsGrow
  <2> QED BY <1>1, <2>1, <2>2 DEF Recorded
<1>3. ASSUME tables' = tables PROVE SavedSets \subseteq SavedSets'
  BY <1>3, SetsGrow
<1>4. ASSUME NEW a \in Editors, NEW e,
             UNCHANGED <<saved, tables, active, worker>>, editor' = [editor EXCEPT ![a] = e],
             e.stage = "listed" => e.list = saved
      PROVE  Recorded'
  <2>1. \A b \in Editors : editor'[b] = IF b = a THEN e ELSE editor[b]
    BY <1>1, <1>4
  <2> QED BY <1>1, <1>3, <1>4, <2>1 DEF Recorded
<1>5. ASSUME NEW a \in Editors, NEW p \in Pipes, CreatePipeline(a, p) \/ Update(a, p) PROVE Recorded'
  BY <1>2, <1>5 DEF CreatePipeline, Update
<1>6. ASSUME NEW a \in Editors, NEW i \in PipelineIds, DeletePipeline(a, i) PROVE Recorded'
  BY <1>2, <1>6 DEF DeletePipeline
<1>7. ASSUME NEW a \in Editors, NEW i \in PipelineIds, FindPipeline(a, i) PROVE Recorded'
  <2>1. PICK e : e = [Idle EXCEPT !.stage = "found", !.id = i]
    OBVIOUS
  <2>2. e.stage # "listed"
    BY <2>1 DEF Idle
  <2>3. UNCHANGED <<saved, tables, active, worker>> /\ editor' = [editor EXCEPT ![a] = e]
    BY <1>7, <2>1 DEF FindPipeline
  <2> QED BY <1>4, <2>2, <2>3
<1>8. ASSUME NEW a \in Editors, ListPipelines(a) PROVE Recorded'
  <2>1. PICK e : e = [editor[a] EXCEPT !.stage = "listed", !.list = saved]
    OBVIOUS
  <2>2. e.list = saved
    <3>1. editor[a] \in Stages
      BY DEF PipelineInv, EditInv, EditorTyped
    <3> QED BY <2>1, <3>1 DEF Stages
  <2>3. UNCHANGED <<saved, tables, active, worker>> /\ editor' = [editor EXCEPT ![a] = e]
    BY <1>1, <1>8, <2>1 DEF ListPipelines
  <2> QED BY <1>4, <2>2, <2>3
<1>9. ASSUME NEW a \in Editors, ListingFails(a) PROVE Recorded'
  <2>1. UNCHANGED <<saved, tables, active, worker>> /\ editor' = [editor EXCEPT ![a] = Idle]
    BY <1>9 DEF ListingFails
  <2> QED BY <1>4, <2>1 DEF Idle
<1>10. ASSUME NEW a \in Editors, ReplaceSet(a) PROVE Recorded'
  <2>1. /\ editor[a].stage = "listed" /\ editor' = [editor EXCEPT ![a] = Idle]
        /\ UNCHANGED <<saved, tables, worker>>
        /\ active' = IF AllCompile(editor[a].list) THEN Compiled(editor[a].list) ELSE active
    BY <1>10 DEF ReplaceSet, InstallSet
  <2>2. active' \in SavedSets
    <3>1. editor[a].list \in tables
      BY <1>1, <2>1
    <3>2. CASE AllCompile(editor[a].list)
      BY <2>1, <3>1, <3>2 DEF SavedSets
    <3>3. CASE ~AllCompile(editor[a].list)
      BY <1>1, <2>1, <3>3
    <3> QED BY <3>2, <3>3
  <2>3. \A b \in Editors : editor'[b].stage = "listed" => b # a /\ editor'[b] = editor[b]
    BY <1>1, <2>1 DEF Idle
  <2>4. SavedSets \subseteq SavedSets'
    BY <1>3, <2>1
  <2> QED BY <1>1, <2>1, <2>2, <2>3, <2>4 DEF Recorded
<1>11. ASSUME NEW w \in Workers, (\E e \in Arrivals : StartApply(w, e)) \/ RunPipeline(w) \/ Accepted(w)
       PROVE  Recorded'
  <2>1. UNCHANGED <<saved, tables, active, editor>>
    BY <1>11 DEF StartApply, RunPipeline, Accepted
  <2>2. PICK x : worker' = [worker EXCEPT ![w] = x] /\ x.set \in {worker[w].set, active, <<>>}
    <3>1. ASSUME NEW e \in Arrivals, StartApply(w, e)
          PROVE  \E x : worker' = [worker EXCEPT ![w] = x] /\ x.set = active
      <4>1. PICK x : x = [set |-> active, at |-> 1, event |-> e, given |-> e]
        OBVIOUS
      <4>2. worker' = [worker EXCEPT ![w] = x] /\ x.set = active
        BY <3>1, <4>1 DEF StartApply
      <4> QED BY <4>2
    <3>2. ASSUME RunPipeline(w)
          PROVE  \E x : worker' = [worker EXCEPT ![w] = x] /\ x.set = worker[w].set
      <4>1. Halfway(worker[w])
        <5>1. worker[w].at \in DOMAIN worker[w].set
          BY <3>2 DEF RunPipeline
        <5>2. worker[w] # Resting
          BY <5>1 DEF Resting
        <5> QED BY <5>2 DEF PipelineInv, Enriching
      <4>2. worker' = [worker EXCEPT ![w] = worker'[w]]
        BY <1>1, <3>2 DEF RunPipeline
      <4>3. worker'[w].set = worker[w].set
        <5>1. worker'[w] = [worker[w] EXCEPT
                              !.event = ApplyPipeline(@, worker[w].set[worker[w].at]), !.at = @ + 1]
          BY <1>1, <3>2 DEF RunPipeline
        <5> QED BY <4>1, <5>1 DEF Halfway
      <4> QED BY <4>2, <4>3
    <3>3. ASSUME Accepted(w)
          PROVE  \E x : worker' = [worker EXCEPT ![w] = x] /\ x.set = <<>>
      <4>1. worker' = [worker EXCEPT ![w] = Resting]
        BY <3>3 DEF Accepted
      <4>2. Resting.set = <<>>
        BY DEF Resting
      <4> QED BY <4>1, <4>2
    <3> QED BY <1>11, <3>1, <3>2, <3>3
  <2>3. x.set \in SavedSets
    BY <1>1, <2>2 DEF SavedSets
  <2>4. SavedSets \subseteq SavedSets'
    BY <1>3, <2>1
  <2>5. \A v \in Workers : worker'[v].set \in SavedSets
    BY <1>1, <2>2, <2>3
  <2> QED BY <1>1, <2>1, <2>4, <2>5 DEF Recorded
<1>12. CASE UNCHANGED pipelineVars
  <2>1. UNCHANGED <<saved, tables, active, editor, worker>>
    BY <1>12 DEF pipelineVars
  <2> QED BY <1>1, <1>3, <2>1 DEF Recorded
<1> QED BY <1>5, <1>6, <1>7, <1>8, <1>9, <1>10, <1>11, <1>12 DEF PipelineNext

LEMMA CountStep == PipelineInv /\ [PipelineNext]_pipelineVars => Counted'
<1> SUFFICES ASSUME PipelineInv, [PipelineNext]_pipelineVars PROVE Counted'
  OBVIOUS
<1>1. MaxEdits \in Nat /\ MaxReloadFails \in Nat /\ PipelineIds = 1..Cardinality(PipelineIds)
      /\ Cardinality(PipelineIds) \in Nat
  BY FS_CardinalityType, PipelinesAssumption DEF PipelinesAssumption
<1>2. Counted
  BY DEF PipelineInv
<1>3. ASSUME NEW a \in Editors, NEW p \in Pipes, CreatePipeline(a, p) PROVE Counted'
  <2>1. /\ created' = created + 1 /\ created + 1 \in PipelineIds
        /\ edits < MaxEdits /\ edits' = edits + 1 /\ behind' = behind /\ reloadFails' = reloadFails
    BY <1>3 DEF CreatePipeline, Change
  <2>2. created' \in 0..Cardinality(PipelineIds)
    BY <1>1, <1>2, <2>1 DEF Counted
  <2> QED BY <1>1, <1>2, <2>1, <2>2 DEF Counted
<1>4. ASSUME NEW a \in Editors, NEW p \in Pipes, Update(a, p) PROVE Counted'
  <2>1. /\ created' = created
        /\ edits < MaxEdits /\ edits' = edits + 1 /\ behind' = behind /\ reloadFails' = reloadFails
    BY <1>4 DEF Update, Change
  <2> QED BY <1>1, <1>2, <2>1 DEF Counted
<1>5. ASSUME NEW a \in Editors, NEW i \in PipelineIds, DeletePipeline(a, i) PROVE Counted'
  <2>1. /\ created' = created
        /\ edits < MaxEdits /\ edits' = edits + 1 /\ behind' = behind /\ reloadFails' = reloadFails
    BY <1>5 DEF DeletePipeline, Change
  <2> QED BY <1>1, <1>2, <2>1 DEF Counted
<1>6. ASSUME NEW a \in Editors, NEW i \in PipelineIds, FindPipeline(a, i) \/ ListPipelines(a)
      PROVE  Counted'
  BY <1>2, <1>6 DEF FindPipeline, ListPipelines, Counted
<1>7. ASSUME NEW a \in Editors, ListingFails(a) PROVE Counted'
  <2>1. /\ created' = created /\ edits' = edits /\ behind' = TRUE
        /\ reloadFails < MaxReloadFails /\ reloadFails' = reloadFails + 1
    BY <1>7 DEF ListingFails
  <2> QED BY <1>1, <1>2, <2>1 DEF Counted
<1>8. ASSUME NEW a \in Editors, ReplaceSet(a) PROVE Counted'
  <2>1. created' = created /\ edits' = edits /\ reloadFails' = reloadFails
    BY <1>8 DEF ReplaceSet
  <2>2. behind' \in BOOLEAN
    BY <1>8 DEF ReplaceSet
  <2> QED BY <1>2, <2>1, <2>2 DEF Counted
<1>9. ASSUME NEW w \in Workers, (\E e \in Arrivals : StartApply(w, e)) \/ RunPipeline(w) \/ Accepted(w)
      PROVE  Counted'
  BY <1>2, <1>9 DEF StartApply, RunPipeline, Accepted, Counted
<1>10. CASE UNCHANGED pipelineVars
  BY <1>2, <1>10 DEF pipelineVars, Counted
<1>11. ASSUME NEW a \in Editors, ListPipelines(a) PROVE Counted'
  BY <1>2, <1>11 DEF ListPipelines, Counted
<1> QED BY <1>3, <1>4, <1>5, <1>6, <1>7, <1>8, <1>9, <1>10, <1>11 DEF PipelineNext

\* What an edit and an event on its way need of each other, for any pipelines,
\* editors and workers (pipelines.go:49-92, set.go:39-91).
THEOREM PipelineInvariance == PipelineSpec => []PipelineInv
<1>1. PipelineInv /\ [PipelineNext]_pipelineVars => PipelineInv'
  BY EditStep, EnrichStep, CountStep, RecordedStep DEF PipelineInv
<1> QED BY <1>1, PipelineInvInit, PTL DEF PipelineSpec

\* What is accepted went through every pipeline, in order, of one set that the
\* store held as a whole, and nothing of it was blanked: its message never, its
\* service and its attributes not unless an attribute arrived empty or a stage
\* sets one so (set.go:39-41, 68-70; grok.go:187-188).
THEOREM EventsComeOutWhole == PipelineSpec => []ComesOutWhole
<1>1. PipelineInv => ComesOutWhole
  <2> SUFFICES ASSUME PipelineInv PROVE ComesOutWhole
    OBVIOUS
  <2>1. ASSUME NEW w \in Workers, worker[w].at # 0 PROVE Halfway(worker[w])
    BY <2>1 DEF PipelineInv, Enriching, Resting
  <2>2. OneSetPerEvent
    <3>4. \A w \in Workers : worker[w].set \in SavedSets
      BY DEF PipelineInv, Recorded
    <3> SUFFICES ASSUME NEW w \in Workers, worker[w].at # 0, Applied(w)
                 PROVE  worker[w].event = Through(worker[w].given, worker[w].set)[Len(worker[w].set)]
      BY <3>4 DEF OneSetPerEvent
    <3> DEFINE x == worker[w]
    <3>1. Halfway(x) /\ x.at > Len(x.set)
      BY <2>1 DEF Applied
    <3> HIDE DEF x
    <3>2. x.at - 1 = Len(x.set)
      <4>1. x.at \in 1..(Len(x.set) + 1) /\ x.set \in Seq(Active)
        BY <3>1 DEF Halfway
      <4>2. Len(x.set) \in Nat
        BY <4>1
      <4> QED BY <3>1, <4>1, <4>2
    <3>3. x.event = Through(x.given, x.set)[Len(x.set)]
      BY <3>1, <3>2 DEF Halfway
    <3> QED BY <3>3 DEF x
  <2>3. NothingBlanked
    BY <2>1 DEF NothingBlanked, Halfway, Improves, Unblanking
  <2> QED BY <2>2, <2>3 DEF ComesOutWhole
<1> QED BY <1>1, PipelineInvariance, PTL

\* What the store, the set, the editors and the workers hold has its type.
THEOREM PipelinesTyped == PipelineSpec => []PipelineTypeOK
<1>1. PipelineInv => PipelineTypeOK
  <2> SUFFICES ASSUME PipelineInv PROVE PipelineTypeOK
    OBVIOUS
  <2>1. saved \in [PipelineIds -> Rows \cup {NoPipe}]
    BY DEF PipelineInv, EditInv, EditorTyped, Tables
  <2>2. \A n \in DOMAIN active : active[n] \in Rows
    <3>1. active \in Seq(Active) /\ Active \subseteq Rows
      BY DEF PipelineInv, Enriching, Active
    <3> QED BY <3>1
  <2>3. \A a \in Editors : editor[a].stage \in {"idle", "found", "put", "listed"}
    BY DEF PipelineInv, EditInv, EditorTyped, Stages
  <2>4. ASSUME NEW w \in Workers PROVE worker[w].at \in 0..(Len(worker[w].set) + 1)
    <3>1. CASE worker[w] = Resting
      <4>1. worker[w].at = 0 /\ worker[w].set = <<>>
        BY <3>1 DEF Resting
      <4> QED BY <4>1
    <3>2. CASE Halfway(worker[w])
      <4> DEFINE x == worker[w]
      <4>1. x.at \in 1..(Len(x.set) + 1) /\ x.set \in Seq(Active)
        BY <3>2 DEF Halfway
      <4> HIDE DEF x
      <4>2. Len(x.set) \in Nat
        BY <4>1
      <4>3. x.at \in 0..(Len(x.set) + 1)
        BY <4>1, <4>2
      <4> QED BY <4>3 DEF x
    <3> QED BY <3>1, <3>2 DEF PipelineInv, Enriching
  <2> QED BY <2>1, <2>2, <2>3, <2>4 DEF PipelineTypeOK, PipelineInv, Counted
<1> QED BY <1>1, PipelineInvariance, PTL

-----------------------------------------------------------------------------
(* Metrics: sums over the observations of a sequence.                        *)

\* f holds the sums of the first m observations, of those in N.
Adds(made, N, m, f) ==
    f = [n \in 0..m |-> IF n = 0 THEN 0 ELSE f[n - 1] + (IF n \in N THEN made[n] ELSE 0)]

LEMMA AddsExist ==
    ASSUME NEW made, NEW N, NEW m \in Nat
    PROVE  \E f : Adds(made, N, m, f)
<1> DEFINE S == {k \in Nat : ~\E f : Adds(made, N, k, f)}
<1>1. SUFFICES ASSUME S # {} PROVE FALSE
  OBVIOUS
<1>2. PICK k \in S : \A x \in S : k <= x
  <2>1. S \in SUBSET Nat
    OBVIOUS
  <2> HIDE DEF S
  <2> QED BY <1>1, <2>1, LeastOf
<1>3. k # 0
  <2>1. Adds(made, N, 0, [n \in 0..0 |-> 0])
    BY DEF Adds
  <2> QED BY <2>1
<1>4. PICK f : Adds(made, N, k - 1, f)
  <2>1. k - 1 \in Nat /\ ~(k <= k - 1)
    BY <1>3
  <2>2. k - 1 \notin S
    BY <1>2, <2>1
  <2> QED BY <2>1, <2>2
<1> DEFINE g == [n \in 0..k |-> IF n = k THEN f[n - 1] + (IF n \in N THEN made[n] ELSE 0) ELSE f[n]]
<1>5. Adds(made, N, k, g)
  <2>1. \A n \in 0..(k - 1) : f[n] = IF n = 0 THEN 0 ELSE f[n - 1] + (IF n \in N THEN made[n] ELSE 0)
    BY <1>4 DEF Adds
  <2>2. ASSUME NEW n \in 0..k
        PROVE  g[n] = IF n = 0 THEN 0 ELSE g[n - 1] + (IF n \in N THEN made[n] ELSE 0)
    <3>1. CASE n = 0
      BY <1>3, <2>1, <3>1
    <3>2. CASE n # 0
      <4>1. n - 1 \in 0..(k - 1) /\ n - 1 # k /\ n - 1 \in 0..k
        BY <3>2
      <4>2. g[n - 1] = f[n - 1]
        BY <4>1
      <4>3. g[n] = f[n - 1] + (IF n \in N THEN made[n] ELSE 0)
        <5>1. CASE n = k
          BY <5>1
        <5>2. CASE n # k
          <6>1. n \in 0..(k - 1)
            BY <5>2
          <6> QED BY <6>1, <5>2, <3>2, <2>1
        <5> QED BY <5>1, <5>2
      <4> QED BY <3>2, <4>2, <4>3
    <3> QED BY <3>1, <3>2
  <2>3. g = [n \in 0..k |-> g[n]]
    OBVIOUS
  <2> HIDE DEF g
  <2> QED BY <2>2, <2>3 DEF Adds
<1> QED BY <1>2, <1>5

\* A sum, by its partial sums.
SumsTo(made, S, f, total) ==
    /\ f[0] = 0 /\ f[Len(made)] = total
    /\ \A n \in 1..Len(made) : f[n] = f[n - 1] + (IF n \in S THEN made[n] ELSE 0)
    /\ \A n \in 0..Len(made) : f[n] \in Int

LEMMA SumIs ==
    ASSUME NEW made \in Seq(Int), NEW S
    PROVE  \E f : SumsTo(made, S, f, SumOver(made, S))
<1>1. Len(made) \in Nat /\ \A n \in 1..Len(made) : made[n] \in Int
  OBVIOUS
<1> DEFINE Loop(f) == [n \in 0..Len(made) |->
                          IF n = 0 THEN 0 ELSE f[n - 1] + (IF n \in S THEN made[n] ELSE 0)]
           t == CHOOSE f : f = Loop(f)
<1>2. SumOver(made, S) = t[Len(made)]
  BY DEF SumOver
<1>3. \A f : Adds(made, S, Len(made), f) <=> f = Loop(f)
  BY DEF Adds
<1>4. \E f : f = Loop(f)
  BY <1>1, <1>3, AddsExist
<1> HIDE DEF Loop
<1>5. t = Loop(t)
  BY <1>4
<1> HIDE DEF t
<1>6. \A n \in 0..Len(made) :
         t[n] = IF n = 0 THEN 0 ELSE t[n - 1] + (IF n \in S THEN made[n] ELSE 0)
  BY <1>5 DEF Loop
<1>7. t[0] = 0 /\ \A n \in 1..Len(made) : t[n] = t[n - 1] + (IF n \in S THEN made[n] ELSE 0)
  BY <1>1, <1>6
<1> DEFINE Bad == {n \in Nat : n <= Len(made) /\ t[n] \notin Int}
<1>8. Bad = {}
  <2>1. SUFFICES ASSUME Bad # {} PROVE FALSE
    OBVIOUS
  <2>2. PICK k \in Bad : \A x \in Bad : k <= x
    <3>1. Bad \in SUBSET Nat
      OBVIOUS
    <3> HIDE DEF Bad
    <3> QED BY <2>1, <3>1, LeastOf
  <2>3. k # 0
    BY <1>7
  <2>4. k \in 1..Len(made) /\ k - 1 \in Nat /\ k - 1 <= Len(made) /\ ~(k <= k - 1)
    BY <1>1, <2>3
  <2>5. t[k - 1] \in Int
    BY <2>2, <2>4
  <2> QED BY <1>1, <1>7, <2>4, <2>5
<1>9. \A n \in 0..Len(made) : t[n] \in Int
  BY <1>1, <1>8
<1> QED BY <1>2, <1>7, <1>9 DEF SumsTo

\* One more in the sum.
LEMMA SumGains ==
    ASSUME NEW made \in Seq(Int), NEW S, NEW k \in 1..Len(made), k \notin S
    PROVE  SumOver(made, S \cup {k}) = SumOver(made, S) + made[k]
<1>1. Len(made) \in Nat /\ \A n \in 1..Len(made) : made[n] \in Int
  OBVIOUS
<1>2. PICK f : SumsTo(made, S, f, SumOver(made, S))
  BY SumIs
<1>3. PICK g : SumsTo(made, S \cup {k}, g, SumOver(made, S \cup {k}))
  BY SumIs
<1> DEFINE Bad == {n \in Nat : n <= Len(made) /\ g[n] # f[n] + (IF n < k THEN 0 ELSE made[k])}
<1>4. Bad = {}
  <2>1. SUFFICES ASSUME Bad # {} PROVE FALSE
    OBVIOUS
  <2>2. PICK m \in Bad : \A x \in Bad : m <= x
    <3>1. Bad \in SUBSET Nat
      OBVIOUS
    <3> HIDE DEF Bad
    <3> QED BY <2>1, <3>1, LeastOf
  <2>3. m # 0
    BY <1>2, <1>3 DEF SumsTo
  <2>4. m \in 1..Len(made) /\ m - 1 \in Nat /\ m - 1 <= Len(made) /\ ~(m <= m - 1)
    BY <1>1, <2>3
  <2>5. g[m - 1] = f[m - 1] + (IF m - 1 < k THEN 0 ELSE made[k])
    BY <2>2, <2>4
  <2>6. /\ f[m] = f[m - 1] + (IF m \in S THEN made[m] ELSE 0)
        /\ g[m] = g[m - 1] + (IF m \in S \cup {k} THEN made[m] ELSE 0)
        /\ f[m - 1] \in Int
    BY <1>1, <1>2, <1>3, <2>4 DEF SumsTo
  <2>7. CASE m = k
    BY <1>1, <2>4, <2>5, <2>6, <2>7
  <2>8. CASE m # k
    <3>1. (m \in S \cup {k}) <=> (m \in S)
      BY <2>8
    <3>2. (m < k) <=> (m - 1 < k)
      BY <2>4, <2>8
    <3> QED BY <1>1, <2>4, <2>5, <2>6, <3>1, <3>2
  <2> QED BY <2>7, <2>8
<1>5. g[Len(made)] = f[Len(made)] + made[k]
  BY <1>1, <1>4
<1> QED BY <1>2, <1>3, <1>5 DEF SumsTo

\* A new observation counts only once it is in the sum.
LEMMA SumOfMore ==
    ASSUME NEW made \in Seq(Int), NEW v \in Int, NEW S, Len(made) + 1 \notin S
    PROVE  SumOver(Append(made, v), S) = SumOver(made, S)
<1> DEFINE more == Append(made, v)
<1>1. /\ Len(made) \in Nat /\ more \in Seq(Int) /\ Len(more) = Len(made) + 1
      /\ \A n \in 1..Len(made) : more[n] = made[n]
  OBVIOUS
<1>2. PICK f : SumsTo(made, S, f, SumOver(made, S))
  BY SumIs
<1> HIDE DEF more
<1>3. PICK g : SumsTo(more, S, g, SumOver(more, S))
  BY <1>1, SumIs
<1> DEFINE Bad == {n \in Nat : n <= Len(made) /\ g[n] # f[n]}
<1>4. Bad = {}
  <2>1. SUFFICES ASSUME Bad # {} PROVE FALSE
    OBVIOUS
  <2>2. PICK m \in Bad : \A x \in Bad : m <= x
    <3>1. Bad \in SUBSET Nat
      OBVIOUS
    <3> HIDE DEF Bad
    <3> QED BY <2>1, <3>1, LeastOf
  <2>3. m # 0
    BY <1>2, <1>3 DEF SumsTo
  <2>4. /\ m \in 1..Len(made) /\ m \in 1..Len(more)
        /\ m - 1 \in Nat /\ m - 1 <= Len(made) /\ ~(m <= m - 1)
    BY <1>1, <2>3
  <2>5. g[m - 1] = f[m - 1]
    BY <2>2, <2>4
  <2> QED BY <1>1, <1>2, <1>3, <2>4, <2>5 DEF SumsTo
<1>5. g[Len(made)] = f[Len(made)] /\ f[Len(made)] \in Int
  BY <1>1, <1>2, <1>4 DEF SumsTo
<1>6. g[Len(more)] = g[Len(made)] + 0
  <2>1. Len(more) \in 1..Len(more) /\ Len(more) - 1 = Len(made) /\ Len(more) \notin S
    BY <1>1
  <2> QED BY <1>3, <2>1 DEF SumsTo
<1>7. g[Len(more)] = f[Len(made)]
  BY <1>5, <1>6
<1> QED BY <1>2, <1>3, <1>7 DEF SumsTo, more

-----------------------------------------------------------------------------
(* Metrics: buckets.                                                         *)

LEMMA BoundsAre ==
    /\ Len(Bounds) \in Nat /\ DOMAIN Bounds = 1..Len(Bounds)
    /\ \A i \in 1..Len(Bounds) : Bounds[i] \in Int
    /\ \A i, j \in 1..Len(Bounds) : i < j => Bounds[i] < Bounds[j]
    /\ Samples \subseteq Int
<1>1. /\ Bounds \in Seq(Int) /\ Samples \subseteq Int
      /\ \A i, j \in DOMAIN Bounds : i < j => Bounds[i] < Bounds[j]
  BY MetricsAssumption DEF MetricsAssumption
<1> QED BY <1>1

\* The bucket a value lands in is the lowest that holds it.
LEMMA Lowest ==
    ASSUME NEW v \in Int, Holds(v) # {}
    PROVE  Min(Holds(v)) \in Holds(v) /\ \A i \in Holds(v) : Min(Holds(v)) <= i
<1>1. Holds(v) \in SUBSET Nat
  BY BoundsAre DEF Holds
<1>2. \E m \in Holds(v) : \A i \in Holds(v) : m <= i
  BY <1>1, LeastOf
<1> QED BY <1>2 DEF Min

LEMMA InBucketIs ==
    ASSUME NEW made \in Seq(Int), NEW n \in DOMAIN made, NEW i \in 1..Len(Bounds)
    PROVE  n \in InBucket(made, i) <=> Holds(made[n]) # {} /\ i = Min(Holds(made[n]))
<1> DEFINE v == made[n]
           H == Holds(v)
<1>1. v \in Int
  OBVIOUS
<1>2. \A j \in 1..Len(Bounds) : n \in Below(made, j) <=> j \in H
  BY BoundsAre DEF Below, Holds
<1>3. H \subseteq 1..Len(Bounds) /\ Len(Bounds) \in Nat
  BY BoundsAre DEF Holds
<1>4. H # {} => Min(H) \in H /\ \A j \in H : Min(H) <= j
  BY <1>1, Lowest
<1>5. \A j, m \in 1..Len(Bounds) : j \in H /\ j <= m => m \in H
  <2> SUFFICES ASSUME NEW j \in 1..Len(Bounds), NEW m \in 1..Len(Bounds), j \in H, j <= m
               PROVE  m \in H
    OBVIOUS
  <2>1. v <= Bounds[j] /\ Bounds[j] \in Int /\ Bounds[m] \in Int
    BY BoundsAre DEF Holds
  <2>2. Bounds[j] <= Bounds[m]
    <3>1. CASE j = m
      BY <2>1, <3>1
    <3>2. CASE j # m
      <4>1. j < m
        BY <1>3, <3>2
      <4> QED BY <2>1, <4>1, BoundsAre
    <3> QED BY <3>1, <3>2
  <2>3. v <= Bounds[m]
    BY <1>1, <2>1, <2>2
  <2> QED BY <2>3, BoundsAre DEF Holds
<1> HIDE DEF v, H
<1>6. n \in InBucket(made, i) <=> i \in H /\ (i # 1 => i - 1 \notin H)
  <2>1. CASE i = 1
    BY <1>2, <2>1 DEF InBucket
  <2>2. CASE i # 1
    <3>1. i - 1 \in 1..Len(Bounds)
      BY <1>3, <2>2
    <3> QED BY <1>2, <2>2, <3>1 DEF InBucket
  <2> QED BY <2>1, <2>2
<1>7. ASSUME i \in H, i # 1 => i - 1 \notin H PROVE i = Min(H)
  <2>1. Min(H) \in H /\ Min(H) \in 1..Len(Bounds) /\ Min(H) <= i
    BY <1>3, <1>4, <1>7
  <2>2. SUFFICES ASSUME i # Min(H) PROVE FALSE
    OBVIOUS
  <2>3. i # 1 /\ i - 1 \in 1..Len(Bounds) /\ Min(H) <= i - 1
    BY <1>3, <2>1, <2>2
  <2> QED BY <1>5, <1>7, <2>1, <2>3
<1>8. ASSUME H # {}, i = Min(H) PROVE i \in H /\ (i # 1 => i - 1 \notin H)
  <2>1. ~(i <= i - 1)
    BY <1>3
  <2> QED BY <1>4, <1>8, <2>1
<1> QED BY <1>6, <1>7, <1>8 DEF v, H

-----------------------------------------------------------------------------
(* Metrics: what observers owe.                                              *)

Histograms == [counts : [1..Len(Bounds) -> Nat], sum : Int, count : Nat]

Observing == [at : {"adding", "loaded", "summed"}, label : LabelSets, sample : Samples,
              nth : Nat, old : Int]

ObserveTyped ==
    /\ children \in [DOMAIN children -> Histograms] /\ DOMAIN children \subseteq LabelSets
    /\ observed \in [LabelSets -> Seq(Samples)]
    /\ DOMAIN observer = Observers
    /\ \A o \in Observers : observer[o] = Off \/ observer[o] \in Observing

\* The histogram of a label set, used or not.
Child(l) == IF l \in DOMAIN children THEN children[l] ELSE NewHistogram

\* The observations that have landed in their bucket, and those in the sum.
Of(o, l) == observer[o] # Off /\ observer[o].label = l
Landed(l) == {n \in DOMAIN observed[l] :
                 \A o \in Observers : Of(o, l) => observer[o].nth # n}
Summed(l) == {n \in DOMAIN observed[l] :
                 \A o \in Observers : Of(o, l) /\ observer[o].at # "summed" => observer[o].nth # n}

\* An observer makes one observation, and no two the same.
EachItsOwn ==
    /\ \A o \in Observers : observer[o] # Off =>
          /\ observer[o].label \in DOMAIN children
          /\ observer[o].nth \in DOMAIN observed[observer[o].label]
          /\ observed[observer[o].label][observer[o].nth] = observer[o].sample
    /\ \A o, p \in Observers, l \in LabelSets :
          o # p /\ Of(o, l) /\ Of(p, l) => observer[o].nth # observer[p].nth

\* A histogram tells of an observation as far as its observer has come.
Accounted ==
    \A l \in LabelSets :
        /\ Child(l).count = Len(observed[l])
        /\ Child(l).sum = SumOver(observed[l], Summed(l))
        /\ \A i \in 1..Len(Bounds) :
              Child(l).counts[i] = Cardinality(InBucket(observed[l], i) \cap Landed(l))

ObserveInv == ObserveTyped /\ EachItsOwn /\ Accounted

LEMMA NewIsTyped == NewHistogram \in Histograms
<1>1. NewHistogram = [counts |-> [i \in 1..Len(Bounds) |-> 0], sum |-> 0, count |-> 0]
  BY BoundsAre DEF NewHistogram
<1> QED BY <1>1 DEF Histograms

LEMMA ObservingIsNotOff == \A x \in Observing : x # Off
<1> SUFFICES ASSUME NEW x \in Observing, x = Off PROVE FALSE
  OBVIOUS
<1>1. x.at \in {"adding", "loaded", "summed"}
  BY DEF Observing
<1>2. x.at = "off"
  BY DEF Off
<1> QED BY <1>1, <1>2

LEMMA SamplesAreNumbers ==
    ASSUME NEW made \in Seq(Samples)
    PROVE  made \in Seq(Int) /\ Len(made) \in Nat /\ DOMAIN made = 1..Len(made)
<1>1. Len(made) \in Nat /\ DOMAIN made = 1..Len(made) /\ made \in [1..Len(made) -> Samples]
  OBVIOUS
<1>2. made \in [1..Len(made) -> Int]
  BY <1>1, BoundsAre
<1> QED BY <1>1, <1>2

\* What ObserveInv says of one label set.
LEMMA LabelFacts ==
    ASSUME ObserveInv, NEW l \in LabelSets
    PROVE  /\ observed[l] \in Seq(Samples) /\ observed[l] \in Seq(Int)
           /\ Len(observed[l]) \in Nat /\ DOMAIN observed[l] = 1..Len(observed[l])
           /\ Child(l) \in Histograms
           /\ Landed(l) \subseteq 1..Len(observed[l]) /\ IsFiniteSet(Landed(l))
<1>1. observed[l] \in Seq(Samples)
  BY DEF ObserveInv, ObserveTyped
<1>2. observed[l] \in Seq(Int) /\ Len(observed[l]) \in Nat /\ DOMAIN observed[l] = 1..Len(observed[l])
  BY <1>1, SamplesAreNumbers
<1>3. Child(l) \in Histograms
  BY NewIsTyped DEF ObserveInv, ObserveTyped, Child
<1>4. Landed(l) \subseteq 1..Len(observed[l])
  BY <1>2 DEF Landed
<1>5. IsFiniteSet(1..Len(observed[l]))
  BY <1>2, FS_Interval
<1>6. IsFiniteSet(Landed(l))
  BY <1>4, <1>5, FS_Subset
<1> QED BY <1>1, <1>2, <1>3, <1>4, <1>6

LEMMA ObserveInit == MetricsInit => ObserveInv
<1> SUFFICES ASSUME MetricsInit PROVE ObserveInv
  OBVIOUS
<1>1. /\ DOMAIN children = {} /\ children = [l \in {} |-> NewHistogram]
      /\ \A o \in Observers : observer[o] = Off
      /\ \A l \in LabelSets : observed[l] = <<>>
  BY DEF MetricsInit
<1>2. ObserveTyped
  BY <1>1 DEF MetricsInit, ObserveTyped
<1>3. EachItsOwn
  BY <1>1 DEF EachItsOwn, Of
<1>4. ASSUME NEW l \in LabelSets
      PROVE  /\ Child(l).count = Len(observed[l])
             /\ Child(l).sum = SumOver(observed[l], Summed(l))
             /\ \A i \in 1..Len(Bounds) :
                   Child(l).counts[i] = Cardinality(InBucket(observed[l], i) \cap Landed(l))
  <2>1. Child(l) = [counts |-> [i \in 1..Len(Bounds) |-> 0], sum |-> 0, count |-> 0]
    BY <1>1, BoundsAre DEF Child, NewHistogram
  <2>2. observed[l] = <<>> /\ observed[l] \in Seq(Int) /\ Len(observed[l]) = 0
    <3>1. <<>> \in Seq(Int) /\ Len(<<>>) = 0
      OBVIOUS
    <3> QED BY <1>1, <3>1
  <2>3. SumOver(observed[l], Summed(l)) = 0
    <3> HIDE DEF Summed
    <3>1. PICK f : SumsTo(observed[l], Summed(l), f, SumOver(observed[l], Summed(l)))
      BY <2>2, SumIs
    <3> QED BY <2>2, <3>1 DEF SumsTo
  <2>4. Landed(l) = {}
    BY <2>2 DEF Landed
  <2>5. \A i \in 1..Len(Bounds) : Cardinality(InBucket(observed[l], i) \cap Landed(l)) = 0
    BY <2>4, FS_EmptySet
  <2> QED BY <2>1, <2>2, <2>3, <2>5
<1> QED BY <1>2, <1>3, <1>4 DEF ObserveInv, Accounted

\* An observer that loads the sum, or fails to swap it, changes nothing.
LEMMA LoadKeeps ==
    ASSUME ObserveInv, NEW o \in Observers, NEW x \in Observing,
           children' = children, observed' = observed, observer' = [observer EXCEPT ![o] = x],
           observer[o] # Off, observer[o].at # "summed", x.at # "summed",
           x.label = observer[o].label, x.nth = observer[o].nth, x.sample = observer[o].sample
    PROVE  ObserveInv'
<1>1. observer'[o] = x /\ \A p \in Observers : p # o => observer'[p] = observer[p]
  BY DEF ObserveInv, ObserveTyped
<1>2. x # Off
  BY ObservingIsNotOff
<1>3. \A p \in Observers, l \in LabelSets : Of(p, l)' <=> Of(p, l)
  BY <1>1, <1>2 DEF Of
<1>4. \A p \in Observers : observer[p] # Off =>
         /\ observer'[p].nth = observer[p].nth
         /\ (observer'[p].at # "summed") <=> (observer[p].at # "summed")
  BY <1>1
<1>5. ObserveTyped'
  BY <1>1 DEF ObserveInv, ObserveTyped
<1>6. EachItsOwn'
  <2>1. \A p \in Observers : observer'[p] # Off =>
          /\ observer'[p].label \in DOMAIN children'
          /\ observer'[p].nth \in DOMAIN observed'[observer'[p].label]
          /\ observed'[observer'[p].label][observer'[p].nth] = observer'[p].sample
    BY <1>1 DEF ObserveInv, EachItsOwn
  <2>2. \A p, q \in Observers, l \in LabelSets :
          p # q /\ Of(p, l)' /\ Of(q, l)' => observer'[p].nth # observer'[q].nth
    BY <1>3, <1>4 DEF ObserveInv, EachItsOwn, Of
  <2> QED BY <2>1, <2>2 DEF EachItsOwn
<1>7. ASSUME NEW l \in LabelSets
      PROVE  Landed(l)' = Landed(l) /\ Summed(l)' = Summed(l) /\ Child(l)' = Child(l)
  <2>1. Landed(l)' = Landed(l)
    BY <1>3, <1>4 DEF Landed, Of
  <2>2. Summed(l)' = Summed(l)
    BY <1>3, <1>4 DEF Summed, Of
  <2>3. Child(l)' = Child(l)
    BY DEF Child, NewHistogram
  <2> QED BY <2>1, <2>2, <2>3
<1>8. Accounted'
  BY <1>7 DEF ObserveInv, Accounted
<1> QED BY <1>5, <1>6, <1>8 DEF ObserveInv

\* A new observation is in the count only: its observer owes the sum and a bucket.
LEMMA ObserveKeeps ==
    ASSUME ObserveInv, NEW o \in Observers, NEW l \in LabelSets, NEW v \in Samples,
           Observe(o, l, v)
    PROVE  ObserveInv'
<1> DEFINE n == Len(observed[l]) + 1
           x == [at |-> "adding", label |-> l, sample |-> v, nth |-> n, old |-> 0]
<1>1. /\ observer[o] = Off
      /\ observer' = [observer EXCEPT ![o] = x]
      /\ observed' = [observed EXCEPT ![l] = Append(@, v)]
      /\ children' = [With(l) EXCEPT ![l].count = @ + 1]
  BY DEF Observe, CountFirst
<1>2. n \in Nat /\ v \in Int
  BY LabelFacts, BoundsAre
<1>3. x \in Observing /\ x # Off
  BY <1>2, ObservingIsNotOff DEF Observing
<1>4. /\ DOMAIN observer' = Observers
      /\ observer'[o] = x /\ \A p \in Observers : p # o => observer'[p] = observer[p]
  BY <1>1 DEF ObserveInv, ObserveTyped
<1>5. /\ observed' \in [LabelSets -> Seq(Samples)]
      /\ observed'[l] = Append(observed[l], v)
      /\ \A k \in LabelSets : k # l => observed'[k] = observed[k]
  <2>1. Append(observed[l], v) \in Seq(Samples)
    <3>1. ASSUME NEW made \in Seq(Samples) PROVE Append(made, v) \in Seq(Samples)
      OBVIOUS
    <3> QED BY <3>1, LabelFacts
  <2> QED BY <1>1, <2>1 DEF ObserveInv, ObserveTyped
<1>6. /\ Len(observed'[l]) = n /\ DOMAIN observed'[l] = 1..n
      /\ observed'[l][n] = v
      /\ \A m \in 1..Len(observed[l]) : observed'[l][m] = observed[l][m]
  <2>1. ASSUME NEW made \in Seq(Samples)
        PROVE  /\ Len(Append(made, v)) = Len(made) + 1
               /\ DOMAIN Append(made, v) = 1..(Len(made) + 1)
               /\ Append(made, v)[Len(made) + 1] = v
               /\ \A m \in 1..Len(made) : Append(made, v)[m] = made[m]
    OBVIOUS
  <2> QED BY <1>5, <2>1, LabelFacts
<1>7. /\ With(l) = [k \in DOMAIN children \cup {l} |-> Child(k)]
      /\ \A k \in DOMAIN children \cup {l} : Child(k) \in Histograms
  <2>1. With(l) = [k \in DOMAIN children \cup {l} |-> Child(k)]
    <3>1. CASE l \in DOMAIN children
      BY <3>1 DEF With, Child, ObserveInv, ObserveTyped
    <3>2. CASE l \notin DOMAIN children
      BY <3>2 DEF With, Child
    <3> QED BY <3>1, <3>2
  <2>2. \A k \in LabelSets : Child(k) \in Histograms
    BY LabelFacts
  <2> QED BY <2>1, <2>2 DEF ObserveInv, ObserveTyped
<1>8. /\ children' = [children' EXCEPT ![l] = children'[l]]
      /\ DOMAIN children' = DOMAIN children \cup {l}
      /\ children'[l] = [Child(l) EXCEPT !.count = @ + 1]
      /\ \A k \in DOMAIN children : k # l => children'[k] = children[k]
  BY <1>1, <1>7 DEF Child
<1>9. /\ children'[l] \in Histograms /\ children'[l].counts = Child(l).counts
      /\ children'[l].sum = Child(l).sum /\ children'[l].count = Child(l).count + 1
  BY <1>7, <1>8 DEF Histograms
<1>10. children' \in [DOMAIN children' -> Histograms] /\ DOMAIN children' \subseteq LabelSets
  <2>1. \A k \in DOMAIN children' : children'[k] \in Histograms
    BY <1>8, <1>9 DEF ObserveInv, ObserveTyped
  <2>2. children' = [k \in DOMAIN children' |-> children'[k]]
    BY <1>1
  <2> QED BY <1>8, <2>1, <2>2 DEF ObserveInv, ObserveTyped
<1>11. ObserveTyped'
  BY <1>3, <1>4, <1>5, <1>10 DEF ObserveInv, ObserveTyped
<1> HIDE DEF x
<1>12. x.label = l /\ x.nth = n /\ x.sample = v /\ x.at = "adding"
  BY DEF x
<1>13. \A p \in Observers, k \in LabelSets :
          Of(p, k)' <=> IF p = o THEN k = l ELSE Of(p, k)
  BY <1>3, <1>4, <1>12 DEF Of
<1>14. \A p \in Observers, k \in LabelSets : p # o /\ Of(p, k) =>
          observer[p].nth \in 1..Len(observed[k])
  BY LabelFacts DEF ObserveInv, EachItsOwn, Of
<1>15. n \notin 1..Len(observed[l])
  BY LabelFacts
<1>16. EachItsOwn'
  <2>1. ASSUME NEW p \in Observers, observer'[p] # Off
        PROVE  /\ observer'[p].label \in DOMAIN children'
               /\ observer'[p].nth \in DOMAIN observed'[observer'[p].label]
               /\ observed'[observer'[p].label][observer'[p].nth] = observer'[p].sample
    <3>1. CASE p = o
      BY <1>2, <1>4, <1>6, <1>8, <1>12, <3>1
    <3>2. CASE p # o
      <4>1. /\ observer'[p] = observer[p] /\ observer[p] # Off
            /\ observer[p].label \in LabelSets
            /\ observer[p].label \in DOMAIN children
            /\ observer[p].nth \in DOMAIN observed[observer[p].label]
            /\ observed[observer[p].label][observer[p].nth] = observer[p].sample
        BY <1>4, <2>1, <3>2 DEF ObserveInv, ObserveTyped, EachItsOwn
      <4>2. CASE observer[p].label = l
        <5>1. observer[p].nth \in 1..Len(observed[l])
          BY <4>1, <4>2, LabelFacts
        <5>2. observer[p].nth \in 1..n
          BY <5>1, LabelFacts
        <5> QED BY <1>6, <1>8, <4>1, <4>2, <5>1, <5>2
      <4>3. CASE observer[p].label # l
        BY <1>5, <1>8, <4>1, <4>3
      <4> QED BY <4>2, <4>3
    <3> QED BY <3>1, <3>2
  <2>2. ASSUME NEW p \in Observers, NEW q \in Observers, NEW k \in LabelSets,
               p # q, Of(p, k)', Of(q, k)'
        PROVE  observer'[p].nth # observer'[q].nth
    <3>1. CASE p = o
      <4>1. k = l /\ q # o /\ Of(q, l) /\ observer'[q] = observer[q]
        BY <1>4, <1>13, <2>2, <3>1
      <4> QED BY <1>4, <1>12, <1>14, <1>15, <3>1, <4>1
    <3>2. CASE q = o
      <4>1. k = l /\ p # o /\ Of(p, l) /\ observer'[p] = observer[p]
        BY <1>4, <1>13, <2>2, <3>2
      <4> QED BY <1>4, <1>12, <1>14, <1>15, <3>2, <4>1
    <3>3. CASE p # o /\ q # o
      BY <1>4, <1>13, <2>2, <3>3 DEF ObserveInv, EachItsOwn
    <3> QED BY <3>1, <3>2, <3>3
  <2> QED BY <2>1, <2>2 DEF EachItsOwn
<1>17. ASSUME NEW k \in LabelSets
       PROVE  Landed(k)' = Landed(k) /\ Summed(k)' = Summed(k)
  <2>1. CASE k # l
    <3>1. observed'[k] = observed[k] /\ ~Of(o, k)' /\ ~Of(o, k)
      BY <1>1, <1>5, <1>13, <2>1 DEF Of
    <3>2. \A p \in Observers : p # o => observer'[p] = observer[p] /\ (Of(p, k)' <=> Of(p, k))
      BY <1>4, <1>13
    <3>3. Landed(k)' = Landed(k)
      BY <3>1, <3>2 DEF Landed
    <3>4. Summed(k)' = Summed(k)
      BY <3>1, <3>2 DEF Summed
    <3> QED BY <3>3, <3>4
  <2>2. CASE k = l
    <3>1. Of(o, l)' /\ observer'[o].nth = n /\ observer'[o].at # "summed" /\ ~Of(o, l)
      BY <1>1, <1>4, <1>12, <1>13 DEF Of
    <3>2. \A p \in Observers : p # o => observer'[p] = observer[p] /\ (Of(p, l)' <=> Of(p, l))
      BY <1>4, <1>13
    <3>3. DOMAIN observed'[l] = DOMAIN observed[l] \cup {n} /\ n \notin DOMAIN observed[l]
      <4>1. \A i \in Nat : 1..(i + 1) = (1..i) \cup {i + 1} /\ i + 1 \notin 1..i
        OBVIOUS
      <4> QED BY <1>6, <4>1, LabelFacts
    <3>4. Landed(l)' = Landed(l)
      BY <3>1, <3>2, <3>3 DEF Landed
    <3>5. Summed(l)' = Summed(l)
      BY <3>1, <3>2, <3>3 DEF Summed
    <3> QED BY <2>2, <3>4, <3>5
  <2> QED BY <2>1, <2>2
<1>18. ASSUME NEW k \in LabelSets
       PROVE  /\ Child(k)'.count = Len(observed'[k])
              /\ Child(k)'.sum = SumOver(observed'[k], Summed(k)')
              /\ \A i \in 1..Len(Bounds) :
                    Child(k)'.counts[i] = Cardinality(InBucket(observed'[k], i) \cap Landed(k)')
  <2>1. CASE k # l
    <3>1. Child(k)' = Child(k) /\ observed'[k] = observed[k]
      BY <1>5, <1>8, <2>1 DEF Child, NewHistogram
    <3> QED BY <1>17, <3>1 DEF ObserveInv, Accounted
  <2>2. CASE k = l
    <3>1. Child(l)' = children'[l]
      BY <1>8 DEF Child
    <3>2. Child(l)'.count = Len(observed'[l])
      BY <1>6, <1>9, <3>1 DEF ObserveInv, Accounted
    <3>3. Summed(l) \subseteq DOMAIN observed[l]
      BY DEF Summed
    <3>4. SumOver(observed'[l], Summed(l)) = SumOver(observed[l], Summed(l))
      <4>1. n \notin Summed(l)
        BY <1>15, <3>3, LabelFacts
      <4> HIDE DEF Summed
      <4> QED BY <1>2, <1>5, <4>1, SumOfMore, LabelFacts
    <3>5. Child(l)'.sum = SumOver(observed'[l], Summed(l)')
      BY <1>9, <1>17, <3>1, <3>4 DEF ObserveInv, Accounted
    <3>6. ASSUME NEW i \in 1..Len(Bounds)
          PROVE  InBucket(observed'[l], i) \cap Landed(l) = InBucket(observed[l], i) \cap Landed(l)
      <4>1. \A m \in Landed(l) : m \in DOMAIN observed[l] /\ m \in DOMAIN observed'[l]
                                  /\ observed'[l][m] = observed[l][m]
        <5>1. \A m \in 1..Len(observed[l]) : m \in 1..n
          BY LabelFacts
        <5> QED BY <1>6, <5>1, LabelFacts
      <4>2. \A m \in Landed(l) : m \in InBucket(observed'[l], i) <=> m \in InBucket(observed[l], i)
        <5> HIDE DEF Landed
        <5>1. \A m \in Landed(l), j \in 1..Len(Bounds) :
                  m \in Below(observed'[l], j) <=> m \in Below(observed[l], j)
          BY <4>1 DEF Below
        <5>2. CASE i = 1
          BY <5>1, <5>2 DEF InBucket
        <5>3. CASE i # 1
          <6>1. i - 1 \in 1..Len(Bounds)
            BY <5>3, BoundsAre
          <6> QED BY <5>1, <5>3, <6>1 DEF InBucket
        <5> QED BY <5>2, <5>3
      <4> QED BY <4>2
    <3>7. \A i \in 1..Len(Bounds) :
             Child(l)'.counts[i] = Cardinality(InBucket(observed'[l], i) \cap Landed(l)')
      BY <1>9, <1>17, <3>1, <3>6 DEF ObserveInv, Accounted
    <3> QED BY <2>2, <3>2, <3>5, <3>7
  <2> QED BY <2>1, <2>2
<1>19. Accounted'
  BY <1>18 DEF Accounted
<1> QED BY <1>11, <1>16, <1>19 DEF ObserveInv

LEMMA LoadSumKeeps ==
    ASSUME ObserveInv, NEW o \in Observers, LoadSum(o)
    PROVE  ObserveInv'
<1> DEFINE l == observer[o].label
           x == [observer[o] EXCEPT !.at = "loaded", !.old = children[l].sum]
<1>1. /\ observer[o].at = "adding" /\ children' = children /\ observed' = observed
      /\ observer' = [observer EXCEPT ![o] = x]
  BY DEF LoadSum
<1>2. observer[o] # Off /\ observer[o] \in Observing
  BY <1>1 DEF Off, ObserveInv, ObserveTyped
<1>3. children[l].sum \in Int
  <2>1. children[l] \in Histograms
    BY <1>2 DEF ObserveInv, ObserveTyped, EachItsOwn
  <2> QED BY <2>1 DEF Histograms
<1>4. /\ x \in Observing /\ x.at = "loaded"
      /\ x.label = observer[o].label /\ x.nth = observer[o].nth /\ x.sample = observer[o].sample
  BY <1>2, <1>3 DEF Observing
<1> HIDE DEF x
<1> QED BY <1>1, <1>2, <1>4, LoadKeeps

\* An observer on its way.
Moved(x, at, old) == [x EXCEPT !.at = at, !.old = old]

LEMMA MovesOn ==
    ASSUME NEW x \in Observing, NEW at \in {"adding", "loaded", "summed"}, NEW old \in Int
    PROVE  /\ Moved(x, at, old) \in Observing /\ Moved(x, at, old).at = at
           /\ Moved(x, at, old).label = x.label /\ Moved(x, at, old).nth = x.nth
           /\ Moved(x, at, old).sample = x.sample
<1>1. /\ DOMAIN x = {"at", "label", "sample", "nth", "old"}
      /\ x.label \in LabelSets /\ x.sample \in Samples /\ x.nth \in Nat
  BY DEF Observing
<1> QED BY <1>1 DEF Observing, Moved

LEMMA NewSum ==
    ASSUME NEW h \in Histograms, NEW s \in Int
    PROVE  /\ [h EXCEPT !.sum = s] \in Histograms /\ [h EXCEPT !.sum = s].sum = s
           /\ [h EXCEPT !.sum = s].counts = h.counts /\ [h EXCEPT !.sum = s].count = h.count
BY DEF Histograms

\* What a swap adds to the sum is what was observed, and it adds it once.
LEMMA SwapKeeps ==
    ASSUME ObserveInv, NEW o \in Observers, SwapSum(o)
    PROVE  ObserveInv'
<1> DEFINE x == Moved(observer[o], "summed", 0)
           y == Moved(observer[o], "adding", 0)
<1>1. observer[o].at = "loaded" /\ observed' = observed
  BY DEF SwapSum
<1>2. observer[o] # Off /\ observer[o] \in Observing
  BY <1>1 DEF Off, ObserveInv, ObserveTyped
<1> PICK l \in LabelSets, n \in Nat : l = observer[o].label /\ n = observer[o].nth
  BY <1>2 DEF Observing
<1>3. CASE ~Unchallenged(o)
  <2>1. /\ children' = children
        /\ observer' = [observer EXCEPT ![o] = y]
    BY <1>3 DEF SwapSum, Moved
  <2>2. /\ y \in Observing /\ y.at = "adding"
        /\ y.label = l /\ y.nth = n /\ y.sample = observer[o].sample
    <3>1. "adding" \in {"adding", "loaded", "summed"} /\ 0 \in Int
      OBVIOUS
    <3> QED BY <1>2, <3>1, MovesOn
  <2> HIDE DEF y
  <2> QED BY <1>1, <1>2, <2>1, <2>2, LoadKeeps
<1>4. CASE Unchallenged(o)
  <2>1. /\ children[l].sum = observer[o].old
        /\ children' = [children EXCEPT ![l].sum = observer[o].old + observer[o].sample]
        /\ observer' = [observer EXCEPT ![o] = x]
    BY <1>4 DEF SwapSum, Unchallenged, Moved
  <2>2. /\ x \in Observing /\ x.at = "summed"
        /\ x.label = l /\ x.nth = n /\ x.sample = observer[o].sample
    <3>1. "summed" \in {"adding", "loaded", "summed"} /\ 0 \in Int
      OBVIOUS
    <3> QED BY <1>2, <3>1, MovesOn
  <2>3. x # Off
    BY <2>2, ObservingIsNotOff
  <2>4. observer'[o] = x /\ \A p \in Observers : p # o => observer'[p] = observer[p]
    BY <2>1 DEF ObserveInv, ObserveTyped
  <2>5. /\ l \in LabelSets /\ l \in DOMAIN children /\ n \in DOMAIN observed[l]
        /\ observed[l][n] = observer[o].sample /\ observer[o].sample \in Int
    BY <1>2, BoundsAre DEF ObserveInv, ObserveTyped, EachItsOwn, Observing
  <2> HIDE DEF x
  <2>6. /\ children'[l] = [children[l] EXCEPT !.sum = observer[o].old + observer[o].sample]
        /\ DOMAIN children' = DOMAIN children
        /\ \A k \in DOMAIN children : k # l => children'[k] = children[k]
        /\ children' = [k \in DOMAIN children' |-> children'[k]]
    BY <2>1, <2>5
  <2>7. children[l] \in Histograms
    BY <2>5 DEF ObserveInv, ObserveTyped
  <2>8. /\ children'[l] \in Histograms /\ children'[l].counts = children[l].counts
        /\ children'[l].count = children[l].count
        /\ children'[l].sum = children[l].sum + observer[o].sample
    <3>1. children[l].sum + observer[o].sample \in Int
      BY <2>5, <2>7 DEF Histograms
    <3>2. children'[l] = [children[l] EXCEPT !.sum = children[l].sum + observer[o].sample]
      BY <2>1, <2>6
    <3> QED BY <2>7, <3>1, <3>2, NewSum
  <2>9. ObserveTyped'
    <3>1. children' \in [DOMAIN children' -> Histograms]
      BY <2>6, <2>8 DEF ObserveInv, ObserveTyped
    <3> QED BY <1>1, <2>1, <2>2, <2>6, <3>1 DEF ObserveInv, ObserveTyped
  <2>10. \A p \in Observers, k \in LabelSets : Of(p, k)' <=> Of(p, k)
    BY <1>2, <2>2, <2>3, <2>4 DEF Of
  <2>11. \A p \in Observers : observer[p] # Off => observer'[p].nth = observer[p].nth
    BY <2>2, <2>4
  <2>12. EachItsOwn'
    <3>1. \A p \in Observers : observer'[p] # Off =>
            /\ observer'[p].label \in DOMAIN children'
            /\ observer'[p].nth \in DOMAIN observed'[observer'[p].label]
            /\ observed'[observer'[p].label][observer'[p].nth] = observer'[p].sample
      BY <1>1, <1>2, <2>2, <2>4, <2>6 DEF ObserveInv, EachItsOwn
    <3>2. \A p, q \in Observers, k \in LabelSets :
            p # q /\ Of(p, k)' /\ Of(q, k)' => observer'[p].nth # observer'[q].nth
      BY <2>10, <2>11 DEF ObserveInv, EachItsOwn, Of
    <3> QED BY <3>1, <3>2 DEF EachItsOwn
  <2>13. ASSUME NEW k \in LabelSets PROVE Landed(k)' = Landed(k)
    BY <1>1, <2>10, <2>11 DEF Landed, Of
  <2>14. ASSUME NEW k \in LabelSets, k # l
         PROVE  Summed(k)' = Summed(k) /\ Child(k)' = Child(k)
    <3>1. ~Of(o, k) /\ ~Of(o, k)'
      BY <2>10, <2>14 DEF Of
    <3>2. Summed(k)' = Summed(k)
      BY <1>1, <2>4, <2>10, <3>1 DEF Summed
    <3>3. Child(k)' = Child(k)
      BY <2>6, <2>14 DEF Child, NewHistogram
    <3> QED BY <3>2, <3>3
  <2>15. Summed(l)' = Summed(l) \cup {n} /\ n \notin Summed(l)
    <3>1. Of(o, l) /\ Of(o, l)' /\ observer'[o].at = "summed"
      BY <1>2, <2>2, <2>4, <2>5, <2>10 DEF Of
    <3>2. n \notin Summed(l)
      BY <1>1, <3>1 DEF Summed
    <3>3. \A p \in Observers : p # o /\ Of(p, l) => observer[p].nth # n
      BY <2>5, <3>1 DEF ObserveInv, EachItsOwn
    <3>4. \A m \in DOMAIN observed[l] : m \in Summed(l)' <=> m \in Summed(l) \cup {n}
      <4> SUFFICES ASSUME NEW m \in DOMAIN observed[l]
                   PROVE  m \in Summed(l)' <=> m \in Summed(l) \cup {n}
        OBVIOUS
      <4>1. CASE m = n
        <5>1. \A p \in Observers : Of(p, l)' /\ observer'[p].at # "summed" => observer'[p].nth # n
          BY <2>4, <2>10, <3>1, <3>3
        <5> QED BY <1>1, <4>1, <5>1 DEF Summed
      <4>2. CASE m # n
        <5>1. \A p \in Observers : p # o =>
                 ((Of(p, l)' /\ observer'[p].at # "summed" => observer'[p].nth # m)
                  <=> (Of(p, l) /\ observer[p].at # "summed" => observer[p].nth # m))
          BY <2>4, <2>10
        <5>2. (Of(o, l)' /\ observer'[o].at # "summed" => observer'[o].nth # m)
              /\ (Of(o, l) /\ observer[o].at # "summed" => observer[o].nth # m)
          BY <3>1, <4>2
        <5>3. (\A p \in Observers : Of(p, l)' /\ observer'[p].at # "summed" => observer'[p].nth # m)
              <=> (\A p \in Observers : Of(p, l) /\ observer[p].at # "summed" => observer[p].nth # m)
          BY <5>1, <5>2
        <5> QED BY <1>1, <4>2, <5>3 DEF Summed
      <4> QED BY <4>1, <4>2
    <3>5. Summed(l) \subseteq DOMAIN observed[l] /\ Summed(l)' \subseteq DOMAIN observed[l]
      BY <1>1 DEF Summed
    <3> HIDE DEF Summed
    <3> QED BY <2>5, <3>2, <3>4, <3>5
  <2>16. Child(l)' = children'[l] /\ Child(l) = children[l]
    BY <2>5, <2>6 DEF Child
  <2>17. Child(l)'.sum = SumOver(observed[l], Summed(l) \cup {n})
    <3>1. children[l].sum = SumOver(observed[l], Summed(l))
      BY <2>5, <2>16 DEF ObserveInv, Accounted
    <3>2. SumOver(observed[l], Summed(l) \cup {n}) = SumOver(observed[l], Summed(l)) + observed[l][n]
      <4> HIDE DEF Summed
      <4>1. observed[l] \in Seq(Int) /\ n \in 1..Len(observed[l])
        BY <2>5, LabelFacts
      <4> QED BY <2>15, <4>1, SumGains
    <3> QED BY <2>5, <2>8, <2>16, <3>1, <3>2
  <2>18. ASSUME NEW k \in LabelSets
         PROVE  /\ Child(k)'.count = Len(observed'[k])
                /\ Child(k)'.sum = SumOver(observed'[k], Summed(k)')
                /\ \A i \in 1..Len(Bounds) :
                      Child(k)'.counts[i] = Cardinality(InBucket(observed'[k], i) \cap Landed(k)')
    <3>1. CASE k = l
      <4>1. Child(l)'.count = Len(observed'[l])
        BY <1>1, <2>8, <2>16 DEF ObserveInv, Accounted
      <4>2. Child(l)'.sum = SumOver(observed'[l], Summed(l)')
        BY <1>1, <2>15, <2>17
      <4>3. \A i \in 1..Len(Bounds) :
               Child(l)'.counts[i] = Cardinality(InBucket(observed'[l], i) \cap Landed(l)')
        BY <1>1, <2>8, <2>13, <2>16 DEF ObserveInv, Accounted
      <4> HIDE DEF Landed, Summed
      <4> QED BY <3>1, <4>1, <4>2, <4>3
    <3>2. CASE k # l
      BY <1>1, <2>13, <2>14, <3>2 DEF ObserveInv, Accounted
    <3> QED BY <3>1, <3>2
  <2>19. Accounted'
    BY <2>18 DEF Accounted
  <2> QED BY <2>9, <2>12, <2>19 DEF ObserveInv
<1> QED BY <1>3, <1>4

LEMMA NewCount ==
    ASSUME NEW h \in Histograms, NEW i \in 1..Len(Bounds)
    PROVE  LET more == [h EXCEPT !.counts[i] = @ + 1]
           IN  /\ more \in Histograms /\ more.count = h.count /\ more.sum = h.sum
               /\ \A j \in 1..Len(Bounds) :
                     more.counts[j] = IF j = i THEN h.counts[j] + 1 ELSE h.counts[j]
<1> DEFINE c == [h.counts EXCEPT ![i] = h.counts[i] + 1]
<1>1. /\ h.counts \in [1..Len(Bounds) -> Nat] /\ h.sum \in Int /\ h.count \in Nat
  BY DEF Histograms
<1>2. /\ c \in [1..Len(Bounds) -> Nat]
      /\ \A j \in 1..Len(Bounds) : c[j] = IF j = i THEN h.counts[j] + 1 ELSE h.counts[j]
  BY <1>1
<1> HIDE DEF c
<1>3. /\ [h EXCEPT !.counts = c] \in Histograms /\ [h EXCEPT !.counts = c].counts = c
      /\ [h EXCEPT !.counts = c].count = h.count /\ [h EXCEPT !.counts = c].sum = h.sum
  BY <1>2 DEF Histograms
<1> DEFINE more == [h EXCEPT !.counts[i] = @ + 1]
<1>4. more = [h EXCEPT !.counts = c]
  BY DEF c
<1> HIDE DEF more
<1>5. /\ more \in Histograms /\ more.count = h.count /\ more.sum = h.sum /\ more.counts = c
  BY <1>3, <1>4
<1>6. \A j \in 1..Len(Bounds) :
         more.counts[j] = IF j = i THEN h.counts[j] + 1 ELSE h.counts[j]
  BY <1>2, <1>5
<1> QED BY <1>5, <1>6 DEF more

\* The buckets gain the observation they hold, and no other.
LEMMA LandKeeps ==
    ASSUME ObserveInv, NEW o \in Observers, Land(o)
    PROVE  ObserveInv'
<1>1. /\ observer[o].at = "summed" /\ observed' = observed
      /\ observer' = [observer EXCEPT ![o] = Off]
  BY DEF Land
<1>2. observer[o] # Off /\ observer[o] \in Observing
  BY <1>1 DEF Off, ObserveInv, ObserveTyped
<1> PICK l \in LabelSets, n \in Nat, v \in Int :
          l = observer[o].label /\ n = observer[o].nth /\ v = observer[o].sample
  BY <1>2, BoundsAre DEF Observing
<1>3. l \in DOMAIN children /\ n \in DOMAIN observed[l] /\ observed[l][n] = v
  BY <1>2 DEF ObserveInv, EachItsOwn
<1>4. children' = IF Holds(v) = {} THEN children
                  ELSE [children EXCEPT ![l].counts[Min(Holds(v))] = @ + 1]
  BY DEF Land
<1>5. children[l] \in Histograms /\ children \in [DOMAIN children -> Histograms]
  BY <1>3 DEF ObserveInv, ObserveTyped
<1>6. Holds(v) # {} => Min(Holds(v)) \in 1..Len(Bounds)
  <2>1. Holds(v) \subseteq 1..Len(Bounds)
    BY BoundsAre DEF Holds
  <2> QED BY <2>1, Lowest
<1>7. /\ children' \in [DOMAIN children -> Histograms] /\ DOMAIN children' = DOMAIN children
      /\ \A k \in DOMAIN children : k # l => children'[k] = children[k]
      /\ children'[l].count = children[l].count /\ children'[l].sum = children[l].sum
      /\ \A i \in 1..Len(Bounds) : children'[l].counts[i] =
            IF Holds(v) # {} /\ i = Min(Holds(v)) THEN children[l].counts[i] + 1
            ELSE children[l].counts[i]
  <2>1. CASE Holds(v) = {}
    BY <1>4, <1>5, <2>1
  <2>2. CASE Holds(v) # {}
    <3> DEFINE b == Min(Holds(v))
               more == [children[l] EXCEPT !.counts[b] = @ + 1]
    <3>1. b \in 1..Len(Bounds)
      BY <1>6, <2>2
    <3>2. children' = [children EXCEPT ![l] = more]
      BY <1>4, <2>2
    <3> HIDE DEF b
    <3>3. /\ more \in Histograms /\ more.count = children[l].count /\ more.sum = children[l].sum
          /\ \A j \in 1..Len(Bounds) :
                more.counts[j] = IF j = b THEN children[l].counts[j] + 1 ELSE children[l].counts[j]
      BY <1>5, <3>1, NewCount
    <3> HIDE DEF more
    <3>4. /\ children' \in [DOMAIN children -> Histograms] /\ children'[l] = more
          /\ \A k \in DOMAIN children : k # l => children'[k] = children[k]
      BY <1>3, <1>5, <3>2, <3>3
    <3> QED BY <2>2, <3>3, <3>4 DEF b
  <2> QED BY <2>1, <2>2
<1>8. DOMAIN observer' = Observers
      /\ observer'[o] = Off /\ \A p \in Observers : p # o => observer'[p] = observer[p]
  BY <1>1 DEF ObserveInv, ObserveTyped
<1>9. ObserveTyped'
  BY <1>1, <1>7, <1>8 DEF ObserveInv, ObserveTyped
<1>10. \A p \in Observers, k \in LabelSets : Of(p, k)' <=> p # o /\ Of(p, k)
  BY <1>8 DEF Of
<1>11. EachItsOwn'
  <2>1. \A p \in Observers : observer'[p] # Off =>
          /\ observer'[p].label \in DOMAIN children'
          /\ observer'[p].nth \in DOMAIN observed'[observer'[p].label]
          /\ observed'[observer'[p].label][observer'[p].nth] = observer'[p].sample
    BY <1>1, <1>7, <1>8 DEF ObserveInv, EachItsOwn
  <2>2. \A p, q \in Observers, k \in LabelSets :
          p # q /\ Of(p, k)' /\ Of(q, k)' => observer'[p].nth # observer'[q].nth
    BY <1>8, <1>10 DEF ObserveInv, EachItsOwn
  <2> QED BY <2>1, <2>2 DEF EachItsOwn
<1>12. Of(o, l) /\ n = observer[o].nth /\ \A k \in LabelSets : k # l => ~Of(o, k)
  BY <1>2 DEF Of
<1>13. ASSUME NEW k \in LabelSets PROVE Summed(k)' = Summed(k)
  <2>1. \A p \in Observers : (Of(p, k)' /\ observer'[p].at # "summed")
                              <=> (Of(p, k) /\ observer[p].at # "summed")
    BY <1>1, <1>8, <1>10
  <2>2. \A p \in Observers : Of(p, k)' => observer'[p].nth = observer[p].nth
    BY <1>8, <1>10
  <2>3. \A m : (\A p \in Observers : Of(p, k)' /\ observer'[p].at # "summed" => observer'[p].nth # m)
               <=> (\A p \in Observers : Of(p, k) /\ observer[p].at # "summed" => observer[p].nth # m)
    BY <2>1, <2>2
  <2> QED BY <1>1, <2>3 DEF Summed
<1>14. ASSUME NEW k \in LabelSets, k # l
       PROVE  Landed(k)' = Landed(k) /\ Child(k)' = Child(k)
  <2>1. ~Of(o, k) /\ \A p \in Observers : p # o => observer'[p] = observer[p] /\ (Of(p, k)' <=> Of(p, k))
    BY <1>8, <1>10, <1>12, <1>14
  <2>2. ~Of(o, k)'
    BY <1>10
  <2>3. \A m : (\A p \in Observers : Of(p, k)' => observer'[p].nth # m)
               <=> (\A p \in Observers : Of(p, k) => observer[p].nth # m)
    BY <2>1, <2>2
  <2>4. Landed(k)' = Landed(k)
    BY <1>1, <2>3 DEF Landed
  <2>5. Child(k)' = Child(k)
    BY <1>7, <1>14 DEF Child, NewHistogram
  <2> QED BY <2>4, <2>5
<1>15. Landed(l)' = Landed(l) \cup {n} /\ n \notin Landed(l)
  <2>1. n \notin Landed(l)
    BY <1>12 DEF Landed
  <2>2. \A p \in Observers : p # o /\ Of(p, l) => observer[p].nth # n
    BY <1>12 DEF ObserveInv, EachItsOwn
  <2>3. ASSUME NEW m \in DOMAIN observed[l]
        PROVE  (\A p \in Observers : Of(p, l)' => observer'[p].nth # m)
               <=> m = n \/ \A p \in Observers : Of(p, l) => observer[p].nth # m
    <3>1. (\A p \in Observers : Of(p, l)' => observer'[p].nth # m)
          <=> (\A p \in Observers : p # o /\ Of(p, l) => observer[p].nth # m)
      BY <1>8, <1>10
    <3>2. CASE m = n
      BY <2>2, <3>1, <3>2
    <3>3. CASE m # n
      BY <1>12, <3>1, <3>3
    <3> QED BY <3>2, <3>3
  <2>4. \A m \in DOMAIN observed[l] : m \in Landed(l)' <=> m \in Landed(l) \cup {n}
    BY <1>1, <2>3 DEF Landed
  <2>5. Landed(l) \subseteq DOMAIN observed[l] /\ Landed(l)' \subseteq DOMAIN observed[l]
    BY <1>1 DEF Landed
  <2> HIDE DEF Landed
  <2> QED BY <1>3, <2>1, <2>4, <2>5
<1>16. Child(l)' = children'[l] /\ Child(l) = children[l]
  BY <1>3, <1>7 DEF Child
<1>17. ASSUME NEW i \in 1..Len(Bounds)
       PROVE  children'[l].counts[i] = Cardinality(InBucket(observed[l], i) \cap (Landed(l) \cup {n}))
  <2> DEFINE S == InBucket(observed[l], i) \cap Landed(l)
  <2>1. IsFiniteSet(S) /\ n \notin S
    <3>1. S \in SUBSET Landed(l)
      OBVIOUS
    <3> HIDE DEF S
    <3>2. IsFiniteSet(Landed(l))
      BY LabelFacts
    <3> QED BY <1>15, <3>1, <3>2, FS_Subset
  <2>2. children[l].counts[i] = Cardinality(S)
    BY <1>16 DEF ObserveInv, Accounted
  <2>3. n \in InBucket(observed[l], i) <=> Holds(v) # {} /\ i = Min(Holds(v))
    <3>1. observed[l] \in Seq(Int)
      BY LabelFacts
    <3> QED BY <1>3, <3>1, InBucketIs
  <2>4. CASE n \in InBucket(observed[l], i)
    <3>1. InBucket(observed[l], i) \cap (Landed(l) \cup {n}) = S \cup {n}
      BY <2>4
    <3> HIDE DEF S
    <3>2. Cardinality(S \cup {n}) = Cardinality(S) + 1
      BY <2>1, FS_AddElement
    <3> QED BY <1>7, <2>2, <2>3, <2>4, <3>1, <3>2
  <2>5. CASE n \notin InBucket(observed[l], i)
    <3>1. InBucket(observed[l], i) \cap (Landed(l) \cup {n}) = S
      BY <2>5
    <3> HIDE DEF S
    <3> QED BY <1>7, <2>2, <2>3, <2>5, <3>1
  <2> QED BY <2>4, <2>5
<1>18. ASSUME NEW k \in LabelSets
       PROVE  /\ Child(k)'.count = Len(observed'[k])
              /\ Child(k)'.sum = SumOver(observed'[k], Summed(k)')
              /\ \A i \in 1..Len(Bounds) :
                    Child(k)'.counts[i] = Cardinality(InBucket(observed'[k], i) \cap Landed(k)')
  <2>1. CASE k = l
    <3>1. Child(l)'.count = Len(observed'[l])
      BY <1>1, <1>7, <1>16 DEF ObserveInv, Accounted
    <3>2. Child(l)'.sum = SumOver(observed'[l], Summed(l)')
      BY <1>1, <1>7, <1>13, <1>16 DEF ObserveInv, Accounted
    <3>3. \A i \in 1..Len(Bounds) :
             Child(l)'.counts[i] = Cardinality(InBucket(observed'[l], i) \cap Landed(l)')
      BY <1>1, <1>15, <1>16, <1>17
    <3> HIDE DEF Landed, Summed
    <3> QED BY <2>1, <3>1, <3>2, <3>3
  <2>2. CASE k # l
    BY <1>1, <1>13, <1>14, <2>2 DEF ObserveInv, Accounted
  <2> QED BY <2>1, <2>2
<1>19. Accounted'
  BY <1>18 DEF Accounted
<1> QED BY <1>9, <1>11, <1>19 DEF ObserveInv

LEMMA ObserveStep == ObserveInv /\ [MetricsNext]_metricsVars => ObserveInv'
<1> SUFFICES ASSUME ObserveInv, [MetricsNext]_metricsVars PROVE ObserveInv'
  OBVIOUS
<1>1. CASE \E o \in Observers, l \in LabelSets, v \in Samples : Observe(o, l, v)
  BY <1>1, ObserveKeeps
<1>2. CASE \E o \in Observers : LoadSum(o)
  BY <1>2, LoadSumKeeps
<1>3. CASE \E o \in Observers : SwapSum(o)
  BY <1>3, SwapKeeps
<1>4. CASE \E o \in Observers : Land(o)
  BY <1>4, LandKeeps
<1>5. CASE UNCHANGED <<children, observer, observed>>
  <2>1. \A l \in LabelSets : Child(l)' = Child(l) /\ Landed(l)' = Landed(l) /\ Summed(l)' = Summed(l)
    BY <1>5 DEF Child, Landed, Summed, Of, NewHistogram
  <2>2. ObserveTyped' /\ EachItsOwn'
    BY <1>5 DEF ObserveInv, ObserveTyped, EachItsOwn, Of
  <2>3. Accounted'
    BY <1>5, <2>1 DEF ObserveInv, Accounted
  <2> QED BY <2>2, <2>3 DEF ObserveInv
<1>6. CASE \E s \in Scrapers :
             (\E l \in LabelSets : StartScrape(s, l)) \/ ReadBucket(s) \/ ReadTotal(s) \/ ReadSum(s)
  <2>1. UNCHANGED <<children, observer, observed>>
    BY <1>6 DEF StartScrape, ReadBucket, ReadTotal, ReadSum
  <2> QED BY <1>5, <2>1
<1>7. CASE UNCHANGED metricsVars
  BY <1>5, <1>7 DEF metricsVars
<1> QED BY <1>1, <1>2, <1>3, <1>4, <1>6, <1>7 DEF MetricsNext

-----------------------------------------------------------------------------
(* Metrics: what a scrape has read.                                          *)

\* The observations up to a bound that have landed.
Told(l, i) == Below(observed[l], i) \cap Landed(l)

Scraping == [at : {"buckets", "sum"}, label : LabelSets, read : Seq(Nat), total : Nat]
Lines == [buckets : Seq(Nat), total : Nat, sum : Int]

ScrapeTyped ==
    /\ rendered \in [Scrapers -> Lines]
    /\ DOMAIN scraper = Scrapers
    /\ \A s \in Scrapers : scraper[s] = Off \/ scraper[s] \in Scraping

\* A scrape has seen no more in a bucket and those below it than there is.
Reading(s) ==
    LET x == scraper[s]
        n == Len(x.read)
    IN  /\ x.label \in DOMAIN children
        /\ n <= Len(Bounds)
        /\ \A i \in 1..n : i < n => x.read[i] <= x.read[i + 1]
        /\ x.at = "buckets" /\ n # 0 => x.read[n] <= Cardinality(Told(x.label, n))
        /\ x.at = "sum" /\ n # 0 => x.read[n] <= x.total

ScrapeInv ==
    /\ ScrapeTyped
    /\ \A s \in Scrapers : scraper[s] # Off => Reading(s)
    /\ ScrapesCumulate

LEMMA UpTo ==
    ASSUME NEW n \in Nat
    PROVE  IsFiniteSet(1..n) /\ Cardinality(1..n) = n
<1>1. 1 \in Int /\ n \in Int
  OBVIOUS
<1>2. IsFiniteSet(1..n) /\ Cardinality(1..n) = IF 1 > n THEN 0 ELSE n - 1 + 1
  BY <1>1, FS_Interval
<1> QED BY <1>2

\* The observations of a bucket and of those below it, bucket by bucket.
LEMMA ToldAdds ==
    ASSUME ObserveInv, NEW l \in LabelSets, NEW i \in 1..Len(Bounds)
    PROVE  /\ IsFiniteSet(Told(l, i)) /\ Cardinality(Told(l, i)) \in Nat
           /\ i = 1 => Cardinality(Told(l, i)) = Child(l).counts[i]
           /\ i # 1 => Cardinality(Told(l, i)) = Cardinality(Told(l, i - 1)) + Child(l).counts[i]
           /\ Cardinality(Told(l, i)) <= Child(l).count
<1> DEFINE S == InBucket(observed[l], i) \cap Landed(l)
<1>1. Child(l).counts[i] = Cardinality(S) /\ Child(l).count = Len(observed[l])
  BY DEF ObserveInv, Accounted
<1>2. /\ IsFiniteSet(Landed(l)) /\ Len(observed[l]) \in Nat /\ observed[l] \in Seq(Int)
      /\ Landed(l) \in SUBSET (1..Len(observed[l])) /\ DOMAIN observed[l] = 1..Len(observed[l])
  BY LabelFacts
<1> HIDE DEF Landed
<1>3. \A j : IsFiniteSet(Told(l, j)) /\ IsFiniteSet(S)
  <2>1. \A j : Told(l, j) \in SUBSET Landed(l)
    BY DEF Told
  <2>2. S \in SUBSET Landed(l)
    OBVIOUS
  <2> HIDE DEF S
  <2> QED BY <1>2, <2>1, <2>2, FS_Subset
<1>4. i = 1 => Told(l, i) = S
  BY DEF Told, InBucket
<1>5. i # 1 => Told(l, i) = Told(l, i - 1) \cup S /\ Told(l, i - 1) \cap S = {}
  <2> SUFFICES ASSUME i # 1
               PROVE  Told(l, i) = Told(l, i - 1) \cup S /\ Told(l, i - 1) \cap S = {}
    OBVIOUS
  <2>1. /\ i - 1 \in 1..Len(Bounds) /\ Bounds[i - 1] \in Int /\ Bounds[i] \in Int
        /\ Bounds[i - 1] < Bounds[i]
    <3>1. i - 1 \in 1..Len(Bounds) /\ i - 1 < i
      BY BoundsAre
    <3> QED BY <3>1, BoundsAre
  <2>2. \A n \in DOMAIN observed[l] : observed[l][n] \in Int
    BY <1>2
  <2>3. Below(observed[l], i - 1) \subseteq Below(observed[l], i)
    <3>1. \A v \in Int : v <= Bounds[i - 1] => v <= Bounds[i]
      BY <2>1
    <3> QED BY <2>2, <3>1 DEF Below
  <2> QED BY <2>3 DEF Told, InBucket
<1> HIDE DEF S
<1>6. i # 1 => Cardinality(Told(l, i)) = Cardinality(Told(l, i - 1)) + Cardinality(S)
  <2>1. Cardinality(Told(l, i - 1)) \in Nat /\ Cardinality(S) \in Nat
    BY <1>3, FS_CardinalityType
  <2>2. i # 1 => Cardinality(Told(l, i)) = Cardinality(Told(l, i - 1)) + Cardinality(S) - Cardinality({})
    BY <1>3, <1>5, FS_Union
  <2> QED BY <2>1, <2>2, FS_EmptySet
<1>7. Cardinality(Told(l, i)) <= Len(observed[l]) /\ Cardinality(Told(l, i)) \in Nat
  <2>1. Told(l, i) \in SUBSET (1..Len(observed[l]))
    BY <1>2 DEF Told
  <2>2. IsFiniteSet(1..Len(observed[l])) /\ Cardinality(1..Len(observed[l])) = Len(observed[l])
    BY <1>2, UpTo
  <2> QED BY <1>3, <2>1, <2>2, FS_Subset, FS_CardinalityType
<1> QED BY <1>1, <1>3, <1>4, <1>6, <1>7

\* An observation that has landed stays where it is.
LEMMA ToldGrows ==
    ASSUME ObserveInv, ObserveInv', [MetricsNext]_metricsVars,
           NEW l \in DOMAIN children
    PROVE  /\ l \in DOMAIN children'
           /\ \A i \in 1..Len(Bounds) :
                 /\ Cardinality(Told(l, i)) \in Nat /\ Cardinality(Told(l, i)') \in Nat
                 /\ Cardinality(Told(l, i)) <= Cardinality(Told(l, i)')
<1>1. l \in LabelSets /\ observed[l] \in Seq(Samples) /\ observed'[l] \in Seq(Samples)
  BY DEF ObserveInv, ObserveTyped
<1>2. /\ Len(observed[l]) \in Nat /\ DOMAIN observed[l] = 1..Len(observed[l])
      /\ Len(observed'[l]) \in Nat /\ DOMAIN observed'[l] = 1..Len(observed'[l])
  BY <1>1, SamplesAreNumbers
<1> DEFINE Kept ==
             /\ l \in DOMAIN children'
             /\ \A n \in DOMAIN observed[l] :
                   n \in DOMAIN observed'[l] /\ observed'[l][n] = observed[l][n]
             /\ \A p \in Observers : Of(p, l)' =>
                   \/ Of(p, l) /\ observer'[p].nth = observer[p].nth
                   \/ observer'[p].nth \notin DOMAIN observed[l]
<1>3. Kept
  <2>1. ASSUME NEW o \in Observers, NEW k \in LabelSets, NEW v \in Samples, Observe(o, k, v)
        PROVE  Kept
    <3>1. /\ observed' = [observed EXCEPT ![k] = Append(@, v)]
          /\ observer' = [observer EXCEPT ![o] = [at |-> "adding", label |-> k, sample |-> v,
                                                  nth |-> Len(observed[k]) + 1, old |-> 0]]
          /\ children' = [With(k) EXCEPT ![k].count = @ + 1]
      BY <2>1 DEF Observe, CountFirst
    <3>2. l \in DOMAIN children'
      BY <3>1 DEF With
    <3>3. \A n \in DOMAIN observed[l] : n \in DOMAIN observed'[l] /\ observed'[l][n] = observed[l][n]
      <4>1. ASSUME NEW made \in Seq(Samples), NEW n \in DOMAIN made
            PROVE  n \in DOMAIN Append(made, v) /\ Append(made, v)[n] = made[n]
        OBVIOUS
      <4>2. observed'[l] = IF l = k THEN Append(observed[l], v) ELSE observed[l]
        BY <1>1, <3>1 DEF ObserveInv, ObserveTyped
      <4> QED BY <1>1, <4>1, <4>2
    <3>4. ASSUME NEW p \in Observers, Of(p, l)'
          PROVE  \/ Of(p, l) /\ observer'[p].nth = observer[p].nth
                 \/ observer'[p].nth \notin DOMAIN observed[l]
      <4>1. CASE p = o
        <5>1. observer'[o].label = k /\ observer'[o].nth = Len(observed[k]) + 1
          BY <3>1 DEF ObserveInv, ObserveTyped
        <5>2. k = l
          BY <3>4, <4>1, <5>1 DEF Of
        <5> QED BY <1>2, <4>1, <5>1, <5>2
      <4>2. CASE p # o
        BY <3>1, <3>4, <4>2 DEF ObserveInv, ObserveTyped, Of
      <4> QED BY <4>1, <4>2
    <3> QED BY <3>2, <3>3, <3>4
  <2>2. ASSUME NEW o \in Observers, LoadSum(o) \/ SwapSum(o) \/ Land(o)
        PROVE  Kept
    <3>1. observed' = observed /\ DOMAIN children' = DOMAIN children
      BY <2>2 DEF LoadSum, SwapSum, Land
    <3>2. \A p \in Observers : p # o => observer'[p] = observer[p]
      BY <2>2 DEF LoadSum, SwapSum, Land, ObserveInv, ObserveTyped
    <3>3. observer[o] # Off
      BY <2>2 DEF LoadSum, SwapSum, Land, Off
    <3>4. observer'[o] = Off \/ (observer'[o].label = observer[o].label /\ observer'[o].nth = observer[o].nth)
      <4>1. observer[o] \in Observing
        BY <3>3 DEF ObserveInv, ObserveTyped
      <4>2. CASE LoadSum(o)
        <5>1. observer'[o] = Moved(observer[o], "loaded", children[observer[o].label].sum)
          BY <4>2 DEF LoadSum, Moved, ObserveInv, ObserveTyped
        <5>2. children[observer[o].label].sum \in Int
          BY <3>3 DEF ObserveInv, ObserveTyped, EachItsOwn, Histograms
        <5>3. "loaded" \in {"adding", "loaded", "summed"}
          OBVIOUS
        <5> DEFINE old == children[observer[o].label].sum
        <5> HIDE DEF old
        <5>4. /\ Moved(observer[o], "loaded", old).label = observer[o].label
              /\ Moved(observer[o], "loaded", old).nth = observer[o].nth
          BY <4>1, <5>2, <5>3, MovesOn DEF old
        <5> QED BY <5>1, <5>4 DEF old
      <4>3. CASE SwapSum(o)
        <5>1. observer'[o] \in {Moved(observer[o], "summed", 0), Moved(observer[o], "adding", 0)}
          BY <4>3 DEF SwapSum, Moved, ObserveInv, ObserveTyped
        <5>2. "adding" \in {"adding", "loaded", "summed"} /\ "summed" \in {"adding", "loaded", "summed"}
              /\ 0 \in Int
          OBVIOUS
        <5>3. /\ Moved(observer[o], "summed", 0).label = observer[o].label
              /\ Moved(observer[o], "summed", 0).nth = observer[o].nth
          BY <4>1, <5>2, MovesOn
        <5>4. /\ Moved(observer[o], "adding", 0).label = observer[o].label
              /\ Moved(observer[o], "adding", 0).nth = observer[o].nth
          BY <4>1, <5>2, MovesOn
        <5> QED BY <5>1, <5>3, <5>4
      <4>4. CASE Land(o)
        BY <4>4 DEF Land, ObserveInv, ObserveTyped
      <4> QED BY <2>2, <4>2, <4>3, <4>4
    <3>5. \A p \in Observers : Of(p, l)' => Of(p, l) /\ observer'[p].nth = observer[p].nth
      BY <3>2, <3>3, <3>4 DEF Of
    <3> QED BY <3>1, <3>5
  <2>3. CASE UNCHANGED <<children, observer, observed>>
    BY <2>3 DEF Of
  <2>4. ASSUME NEW s \in Scrapers,
               (\E k \in LabelSets : StartScrape(s, k)) \/ ReadBucket(s) \/ ReadTotal(s) \/ ReadSum(s)
        PROVE  UNCHANGED <<children, observer, observed>>
    BY <2>4 DEF StartScrape, ReadBucket, ReadTotal, ReadSum
  <2>5. CASE UNCHANGED metricsVars
    BY <2>3, <2>5 DEF metricsVars
  <2> HIDE DEF Kept
  <2> QED BY <2>1, <2>2, <2>3, <2>4, <2>5 DEF MetricsNext
<1>4. Landed(l) \subseteq Landed(l)'
  BY <1>3 DEF Landed
<1>5. ASSUME NEW i \in 1..Len(Bounds)
      PROVE  /\ Cardinality(Told(l, i)) \in Nat /\ Cardinality(Told(l, i)') \in Nat
             /\ Cardinality(Told(l, i)) <= Cardinality(Told(l, i)')
  <2>1. Told(l, i) \subseteq Told(l, i)'
    <3>1. \A n \in Landed(l) : n \in Below(observed[l], i) => n \in Below(observed'[l], i)
      BY <1>3 DEF Below, Landed
    <3> HIDE DEF Landed
    <3> QED BY <1>4, <3>1 DEF Told
  <2>2. IsFiniteSet(Told(l, i)')
    <3>1. Told(l, i)' \in SUBSET (1..Len(observed'[l]))
      BY <1>2 DEF Told, Landed
    <3>2. IsFiniteSet(1..Len(observed'[l]))
      BY <1>2, UpTo
    <3> QED BY <3>1, <3>2, FS_Subset
  <2>3. IsFiniteSet(Told(l, i))
    BY <2>1, <2>2, FS_Subset
  <2> QED BY <2>1, <2>2, <2>3, FS_Subset, FS_CardinalityType
<1> QED BY <1>3, <1>5

LEMMA ScrapingIsNotOff == \A x \in Scraping : x # Off
<1> SUFFICES ASSUME NEW x \in Scraping, x = Off PROVE FALSE
  OBVIOUS
<1>1. x.at \in {"buckets", "sum"}
  BY DEF Scraping
<1>2. x.at = "off"
  BY DEF Off
<1> QED BY <1>1, <1>2

LEMMA ScrapeInit == MetricsInit => ScrapeInv
<1> SUFFICES ASSUME MetricsInit PROVE ScrapeInv
  OBVIOUS
<1>1. /\ rendered = [s \in Scrapers |-> NoLines] /\ scraper = [s \in Scrapers |-> Off]
  BY DEF MetricsInit
<1>2. NoLines \in Lines /\ NoLines.buckets = <<>>
  BY DEF NoLines, Lines
<1> QED BY <1>1, <1>2 DEF ScrapeInv, ScrapeTyped, ScrapesCumulate

\* What a scrape has read stays true while others observe.
LEMMA ReadingStays ==
    ASSUME ObserveInv, ObserveInv', [MetricsNext]_metricsVars, ScrapeTyped,
           NEW s \in Scrapers, scraper[s] # Off, scraper'[s] = scraper[s], Reading(s)
    PROVE  Reading(s)'
<1>1. scraper[s] \in Scraping
  BY DEF ScrapeTyped
<1> PICK x \in Scraping : x = scraper[s]
  BY <1>1
<1>2. x.read \in Seq(Nat) /\ Len(x.read) \in Nat /\ x.label \in LabelSets
  BY DEF Scraping
<1> PICK l \in LabelSets, n \in Nat : l = x.label /\ n = Len(x.read)
  BY <1>2
<1>3. l \in DOMAIN children /\ n <= Len(Bounds)
  BY DEF Reading
<1>4. /\ l \in DOMAIN children'
      /\ n # 0 => /\ Cardinality(Told(l, n)) <= Cardinality(Told(l, n)')
                  /\ Cardinality(Told(l, n)) \in Nat /\ Cardinality(Told(l, n)') \in Nat
  <2>1. n # 0 => n \in 1..Len(Bounds)
    BY <1>3, BoundsAre
  <2> QED BY <1>3, <2>1, ToldGrows
<1>5. n # 0 => x.read[n] \in Nat
  BY <1>2
<1>6. /\ n <= Len(Bounds)
      /\ \A i \in 1..n : i < n => x.read[i] <= x.read[i + 1]
      /\ x.at = "buckets" /\ n # 0 => x.read[n] <= Cardinality(Told(l, n))
      /\ x.at = "sum" /\ n # 0 => x.read[n] <= x.total
  BY DEF Reading
<1>7. x.at = "buckets" /\ n # 0 => x.read[n] <= Cardinality(Told(l, n)')
  BY <1>4, <1>5, <1>6
<1>8. scraper'[s] = x
  OBVIOUS
<1>9. /\ n # 0 => n <= Len(Bounds)
      /\ n <= Len(Bounds) /\ x.at = "buckets" /\ n # 0 => x.read[n] <= Cardinality(Told(x.label, n)')
  BY <1>6, <1>7
<1> HIDE DEF Told
<1> QED BY <1>4, <1>6, <1>8, <1>9 DEF Reading

\* One bucket more: those below it, and what is in it by now.
LEMMA ReadBucketKeeps ==
    ASSUME ObserveInv, ScrapeInv, NEW s \in Scrapers, ReadBucket(s)
    PROVE  scraper'[s] \in Scraping /\ Reading(s)'
<1>1. /\ scraper[s].at = "buckets" /\ Len(scraper[s].read) < Len(Bounds)
      /\ UNCHANGED <<children, observer, observed>>
  BY DEF ReadBucket
<1>2. scraper[s] # Off
  BY <1>1 DEF Off
<1>3. scraper[s] \in Scraping /\ Reading(s)
  BY <1>2 DEF ScrapeInv, ScrapeTyped
<1> PICK x \in Scraping : x = scraper[s]
  BY <1>3
<1>4. x.read \in Seq(Nat) /\ x.at = "buckets" /\ x.label \in LabelSets /\ x.total \in Nat
  BY <1>1 DEF Scraping
<1> PICK l \in LabelSets, read \in Seq(Nat), n \in Nat :
          l = x.label /\ read = x.read /\ n = Len(read)
  <2>1. \A r \in Seq(Nat) : Len(r) \in Nat
    OBVIOUS
  <2> QED BY <1>4, <2>1, Zenon
<1> DEFINE below == IF read = <<>> THEN 0 ELSE read[n]
           c == children[l].counts[n + 1]
           more == Append(read, below + c)
<1>5. /\ l \in DOMAIN children /\ n < Len(Bounds)
      /\ \A i \in 1..n : i < n => read[i] <= read[i + 1]
      /\ n # 0 => read[n] <= Cardinality(Told(l, n))
  BY <1>1, <1>3, <1>4 DEF Reading
<1>6. n + 1 \in 1..Len(Bounds) /\ (n # 0 => n \in 1..Len(Bounds)) /\ n + 1 - 1 = n
  BY <1>5, BoundsAre
<1>7. c \in Nat /\ Child(l) = children[l]
  BY <1>5, <1>6 DEF ObserveInv, ObserveTyped, Child, Histograms
<1>8. below \in Nat /\ (read = <<>> <=> n = 0)
  OBVIOUS
<1>9. below + c <= Cardinality(Told(l, n + 1)) /\ Cardinality(Told(l, n + 1)) \in Nat
  <2>1. CASE n = 0
    <3>1. Cardinality(Told(l, 1)) = c /\ Cardinality(Told(l, 1)) \in Nat
      BY <1>6, <1>7, <2>1, ToldAdds
    <3> QED BY <1>7, <1>8, <2>1, <3>1
  <2>2. CASE n # 0
    <3>1. /\ Cardinality(Told(l, n + 1)) = Cardinality(Told(l, n)) + c
          /\ Cardinality(Told(l, n + 1)) \in Nat /\ Cardinality(Told(l, n)) \in Nat
      <4>1. n + 1 # 1
        BY <2>2
      <4>2. /\ Cardinality(Told(l, n + 1)) = Cardinality(Told(l, n + 1 - 1)) + c
            /\ Cardinality(Told(l, n + 1)) \in Nat
        <5>1. PICK k \in 1..Len(Bounds) : k = n + 1
          BY <1>6
        <5>2. k # 1
          BY <4>1, <5>1
        <5>3. /\ Cardinality(Told(l, k)) = Cardinality(Told(l, k - 1)) + Child(l).counts[k]
              /\ Cardinality(Told(l, k)) \in Nat
          <6> HIDE DEF Told, Child
          <6> QED BY <5>2, ToldAdds
        <5> HIDE DEF Told
        <5> QED BY <1>7, <5>1, <5>3
      <4>3. Cardinality(Told(l, n)) \in Nat
        BY <1>6, <2>2, ToldAdds
      <4>4. n + 1 - 1 = n
        BY <1>6
      <4> HIDE DEF c, Told
      <4> QED BY <4>2, <4>3, <4>4
    <3>2. below = read[n] /\ read[n] \in Nat /\ read[n] <= Cardinality(Told(l, n))
      BY <1>5, <1>8, <2>2
    <3> HIDE DEF below, c
    <3> QED BY <1>7, <3>1, <3>2
  <2> QED BY <2>1, <2>2
<1>10. scraper' = [scraper EXCEPT ![s].read = more]
  BY DEF ReadBucket
<1> HIDE DEF below, c
<1>11. /\ more \in Seq(Nat) /\ Len(more) = n + 1 /\ more[n + 1] = below + c
       /\ \A i \in 1..n : more[i] = read[i]
  BY <1>7, <1>8
<1> HIDE DEF more
<1> DEFINE y == [x EXCEPT !.read = more]
<1>12. /\ y \in Scraping /\ y.read = more /\ y.label = l /\ y.at = "buckets"
  BY <1>4, <1>11 DEF Scraping
<1>13. scraper'[s] = y
  BY <1>10 DEF ScrapeInv, ScrapeTyped
<1> HIDE DEF y
<1>14. ASSUME NEW i \in 1..(n + 1), i < n + 1
       PROVE  more[i] <= more[i + 1]
  <2>1. i \in 1..n
    BY <1>14
  <2>2. CASE i < n
    <3>1. i + 1 \in 1..n
      BY <2>1, <2>2
    <3> QED BY <1>5, <1>11, <2>1, <2>2, <3>1
  <2>3. CASE ~(i < n)
    <3>1. i = n /\ n # 0
      BY <2>1, <2>3
    <3>2. below = read[n] /\ read[n] \in Nat
      BY <1>8, <3>1 DEF below
    <3>3. more[n] = below /\ more[n + 1] = below + c /\ below \in Nat
      BY <1>11, <2>1, <3>1, <3>2
    <3> QED BY <1>7, <3>1, <3>3
  <2> QED BY <2>2, <2>3
<1>15. Told(l, n + 1)' = Told(l, n + 1) /\ children' = children
  BY <1>1 DEF Told, Landed, Of
<1>16. n + 1 <= Len(Bounds)
  BY <1>5, BoundsAre
<1> HIDE DEF Told
<1>17. /\ scraper'[s].label = l /\ scraper'[s].read = more /\ Len(more) = n + 1
       /\ scraper'[s].at = "buckets"
  BY <1>11, <1>12, <1>13
<1> QED BY <1>5, <1>9, <1>11, <1>12, <1>13, <1>14, <1>15, <1>16, <1>17 DEF Reading

\* The count goes first, so that it is never below what is in the buckets.
LEMMA ReadTotalKeeps ==
    ASSUME ObserveInv, ScrapeInv, NEW s \in Scrapers, ReadTotal(s)
    PROVE  scraper'[s] \in Scraping /\ Reading(s)'
<1>1. /\ scraper[s].at = "buckets" /\ Len(scraper[s].read) = Len(Bounds)
      /\ UNCHANGED <<children, observer, observed>>
  BY DEF ReadTotal
<1>2. scraper[s] # Off
  BY <1>1 DEF Off
<1>3. scraper[s] \in Scraping /\ Reading(s)
  BY <1>2 DEF ScrapeInv, ScrapeTyped
<1> PICK x \in Scraping : x = scraper[s]
  BY <1>3
<1>4. x.read \in Seq(Nat) /\ x.at = "buckets" /\ x.label \in LabelSets
  BY <1>1 DEF Scraping
<1> PICK l \in LabelSets, n \in Nat : l = x.label /\ n = Len(x.read)
  BY <1>4
<1>5. /\ l \in DOMAIN children /\ n = Len(Bounds)
      /\ \A i \in 1..n : i < n => x.read[i] <= x.read[i + 1]
      /\ n # 0 => x.read[n] <= Cardinality(Told(l, n))
  BY <1>1, <1>3, <1>4 DEF Reading
<1>6. children[l].count \in Nat /\ Child(l) = children[l]
  BY <1>5 DEF ObserveInv, ObserveTyped, Child, Histograms
<1>7. n # 0 => x.read[n] <= children[l].count
  <2>1. n # 0 => n \in 1..Len(Bounds) /\ x.read[n] \in Nat
    <3>1. x.read \in [1..n -> Nat]
      BY <1>4
    <3>2. n # 0 => n \in 1..n
      OBVIOUS
    <3> QED BY <1>5, <3>1, <3>2
  <2>2. n # 0 => Cardinality(Told(l, n)) <= children[l].count /\ Cardinality(Told(l, n)) \in Nat
    BY <1>6, <2>1, ToldAdds
  <2> QED BY <1>5, <1>6, <2>1, <2>2
<1> DEFINE t == children[l].count
           y == [x EXCEPT !.at = "sum", !.total = t]
<1>8. scraper'[s] = y
  BY DEF ReadTotal, ScrapeInv, ScrapeTyped
<1> HIDE DEF t
<1>9. /\ y \in Scraping /\ y.read = x.read /\ y.label = l /\ y.at = "sum" /\ y.total = t
  <2>1. t \in Nat /\ DOMAIN x = {"at", "label", "read", "total"}
    BY <1>6 DEF t, Scraping
  <2> QED BY <1>4, <2>1 DEF Scraping
<1> HIDE DEF y
<1>10. /\ scraper'[s].label = l /\ scraper'[s].read = x.read
       /\ scraper'[s].at = "sum" /\ scraper'[s].total = t /\ "sum" # "buckets"
  BY <1>8, <1>9
<1>11. n <= Len(Bounds) /\ (n # 0 => x.read[n] <= t)
  BY <1>5, <1>7 DEF t
<1> QED BY <1>1, <1>5, <1>8, <1>9, <1>10, <1>11 DEF Reading

LEMMA ReadSumKeeps ==
    ASSUME ObserveInv, ScrapeInv, NEW s \in Scrapers, ReadSum(s)
    PROVE  /\ scraper'[s] = Off /\ rendered' \in [Scrapers -> Lines]
           /\ ScrapesCumulate'
<1>1. /\ scraper[s].at = "sum" /\ UNCHANGED <<children, observer, observed>>
      /\ scraper' = [scraper EXCEPT ![s] = Off]
  BY DEF ReadSum
<1>2. scraper[s] # Off
  BY <1>1 DEF Off
<1>3. scraper[s] \in Scraping /\ Reading(s)
  BY <1>2 DEF ScrapeInv, ScrapeTyped
<1> PICK x \in Scraping : x = scraper[s]
  BY <1>3
<1>4. x.read \in Seq(Nat) /\ x.at = "sum" /\ x.label \in LabelSets /\ x.total \in Nat
  BY <1>1 DEF Scraping
<1> PICK l \in LabelSets, n \in Nat : l = x.label /\ n = Len(x.read)
  BY <1>4
<1>5. /\ l \in DOMAIN children
      /\ \A i \in 1..n : i < n => x.read[i] <= x.read[i + 1]
      /\ n # 0 => x.read[n] <= x.total
  BY <1>1, <1>3, <1>4 DEF Reading
<1>6. children[l].sum \in Int
  BY <1>5 DEF ObserveInv, ObserveTyped, Histograms
<1> DEFINE y == [buckets |-> x.read, total |-> x.total, sum |-> children[l].sum]
<1>7. y \in Lines /\ y.buckets = x.read /\ y.total = x.total
  BY <1>4, <1>6 DEF Lines
<1>8. rendered' = [rendered EXCEPT ![s] = y]
  BY DEF ReadSum
<1> HIDE DEF y
<1>9. /\ rendered' \in [Scrapers -> Lines] /\ rendered'[s] = y
      /\ \A r \in Scrapers : r # s => rendered'[r] = rendered[r]
  BY <1>7, <1>8 DEF ScrapeInv, ScrapeTyped
<1>10. ASSUME NEW r \in Scrapers, NEW i \in DOMAIN rendered'[r].buckets
       PROVE  rendered'[r].buckets[i] <=
                 IF i < Len(rendered'[r].buckets) THEN rendered'[r].buckets[i + 1]
                 ELSE rendered'[r].total
  <2>1. CASE r = s
    <3>1. rendered'[r].buckets = x.read /\ rendered'[r].total = x.total
      BY <1>7, <1>9, <2>1
    <3>2. i \in 1..n
      BY <1>4, <1>10, <3>1
    <3>3. CASE i < n
      BY <1>5, <3>1, <3>2, <3>3
    <3>4. CASE ~(i < n)
      <4>1. i = n /\ n # 0
        BY <3>2, <3>4
      <4> QED BY <1>5, <3>1, <4>1
    <3> QED BY <3>3, <3>4
  <2>2. CASE r # s
    BY <1>9, <1>10, <2>2 DEF ScrapeInv, ScrapesCumulate
  <2> QED BY <2>1, <2>2
<1>11. ScrapesCumulate'
  BY <1>10 DEF ScrapesCumulate
<1>12. scraper'[s] = Off
  BY <1>1 DEF ScrapeInv, ScrapeTyped
<1> QED BY <1>9, <1>11, <1>12

LEMMA ScrapeStep ==
    ASSUME ObserveInv, ObserveInv', ScrapeInv, [MetricsNext]_metricsVars
    PROVE  ScrapeInv'
<1> USE DEF ScrapeInv, ScrapeTyped
<1>1. ASSUME NEW s \in Scrapers, \A r \in Scrapers : r # s => scraper'[r] = scraper[r],
             DOMAIN scraper' = Scrapers, rendered' \in [Scrapers -> Lines], ScrapesCumulate',
             scraper'[s] = Off \/ (scraper'[s] \in Scraping /\ Reading(s)')
      PROVE  ScrapeInv'
  <2>1. ASSUME NEW r \in Scrapers, scraper'[r] # Off
        PROVE  scraper'[r] \in Scraping /\ Reading(r)'
    <3>1. CASE r = s
      BY <1>1, <2>1, <3>1
    <3>2. CASE r # s
      <4>1. scraper'[r] = scraper[r] /\ scraper[r] # Off /\ scraper[r] \in Scraping /\ Reading(r)
        BY <1>1, <2>1, <3>2
      <4>2. Reading(r)'
        BY <4>1, ReadingStays
      <4> QED BY <4>1, <4>2
    <3> QED BY <3>1, <3>2
  <2> QED BY <1>1, <2>1
<1>2. CASE UNCHANGED <<scraper, rendered>>
  <2>1. ASSUME NEW r \in Scrapers, scraper'[r] # Off
        PROVE  scraper'[r] \in Scraping /\ Reading(r)'
    BY <1>2, <2>1, ReadingStays
  <2>2. ScrapesCumulate'
    BY <1>2 DEF ScrapesCumulate
  <2> QED BY <1>2, <2>1, <2>2
<1>3. CASE UNCHANGED metricsVars
  BY <1>2, <1>3 DEF metricsVars
<1>4. ASSUME NEW o \in Observers,
             \/ \E l \in LabelSets, v \in Samples : Observe(o, l, v)
             \/ LoadSum(o) \/ SwapSum(o) \/ Land(o)
      PROVE  ScrapeInv'
  <2>1. UNCHANGED <<scraper, rendered>>
    BY <1>4 DEF Observe, LoadSum, SwapSum, Land
  <2> QED BY <1>2, <2>1
<1>5. ASSUME NEW s \in Scrapers, NEW l \in LabelSets, StartScrape(s, l)
      PROVE  ScrapeInv'
  <2> DEFINE x == [at |-> "buckets", label |-> l, read |-> <<>>, total |-> 0]
  <2>1. /\ l \in DOMAIN children /\ scraper' = [scraper EXCEPT ![s] = x]
        /\ UNCHANGED <<children, rendered>>
    BY <1>5 DEF StartScrape
  <2>2. x \in Scraping /\ x.read = <<>> /\ x.label = l
    BY DEF Scraping
  <2> HIDE DEF x
  <2>3. /\ scraper'[s] = x /\ DOMAIN scraper' = Scrapers
        /\ \A r \in Scrapers : r # s => scraper'[r] = scraper[r]
    BY <2>1
  <2>4. Reading(s)'
    <3>1. scraper'[s].read = <<>> /\ scraper'[s].label = l /\ l \in DOMAIN children'
      BY <2>1, <2>2, <2>3
    <3>2. Len(<<>>) = 0
      OBVIOUS
    <3> QED BY <3>1, <3>2, BoundsAre DEF Reading
  <2>5. ScrapesCumulate'
    BY <2>1 DEF ScrapesCumulate
  <2> QED BY <1>1, <2>1, <2>2, <2>3, <2>4, <2>5
<1>6. ASSUME NEW s \in Scrapers, ReadBucket(s) \/ ReadTotal(s)
      PROVE  ScrapeInv'
  <2>1. /\ DOMAIN scraper' = Scrapers /\ rendered' = rendered
        /\ \A r \in Scrapers : r # s => scraper'[r] = scraper[r]
    BY <1>6 DEF ReadBucket, ReadTotal
  <2>2. scraper'[s] \in Scraping /\ Reading(s)'
    BY <1>6, ReadBucketKeeps, ReadTotalKeeps
  <2>3. ScrapesCumulate'
    BY <2>1 DEF ScrapesCumulate
  <2> QED BY <1>1, <2>1, <2>2, <2>3
<1>7. ASSUME NEW s \in Scrapers, ReadSum(s)
      PROVE  ScrapeInv'
  <2>1. /\ DOMAIN scraper' = Scrapers
        /\ \A r \in Scrapers : r # s => scraper'[r] = scraper[r]
    BY <1>7 DEF ReadSum
  <2>2. /\ scraper'[s] = Off /\ rendered' \in [Scrapers -> Lines] /\ ScrapesCumulate'
    BY <1>7, ReadSumKeeps
  <2> QED BY <1>1, <2>1, <2>2
<1> QED BY <1>3, <1>4, <1>5, <1>6, <1>7 DEF MetricsNext

-----------------------------------------------------------------------------
(* Metrics: the theorems.                                                    *)

MetricsInv == ObserveInv /\ ScrapeInv

\* The count of a histogram, its sum and its buckets tell of an observation as
\* far as its observer has come, whoever was faster at the swap, and a scrape has
\* read no more than is there (metrics.go:240-296).
THEOREM MetricsInvariance == MetricsSpec => []MetricsInv
<1>1. MetricsInit => MetricsInv
  BY ObserveInit, ScrapeInit DEF MetricsInv
<1>2. MetricsInv /\ [MetricsNext]_metricsVars => MetricsInv'
  <2> SUFFICES ASSUME ObserveInv, ScrapeInv, [MetricsNext]_metricsVars PROVE MetricsInv'
    BY DEF MetricsInv
  <2>1. ObserveInv'
    BY ObserveStep
  <2>2. ScrapeInv'
    BY <2>1, ScrapeStep
  <2> QED BY <2>1, <2>2 DEF MetricsInv
<1> QED BY <1>1, <1>2, PTL DEF MetricsSpec

\* What is rendered is a histogram, and what was observed is counted once
\* (metrics.go:257-296).
THEOREM ScrapesAreCoherent == MetricsSpec => []ScrapeCoherent
<1>1. MetricsInv => ScrapeCoherent
  <2> SUFFICES ASSUME MetricsInv PROVE ScrapeCoherent
    OBVIOUS
  <2>1. ASSUME \A o \in Observers : observer[o] = Off, NEW l \in DOMAIN children
        PROVE  /\ children[l].count = Len(observed[l])
               /\ children[l].sum = SumOver(observed[l], DOMAIN observed[l])
               /\ \A i \in DOMAIN Bounds :
                     children[l].counts[i] = Cardinality(InBucket(observed[l], i))
    <3>1. l \in LabelSets /\ Child(l) = children[l]
      BY DEF MetricsInv, ObserveInv, ObserveTyped, Child
    <3>2. Landed(l) = DOMAIN observed[l] /\ Summed(l) = DOMAIN observed[l]
      BY <2>1 DEF Landed, Summed, Of
    <3>3. \A i : InBucket(observed[l], i) \cap DOMAIN observed[l] = InBucket(observed[l], i)
      BY DEF InBucket, Below
    <3> HIDE DEF Landed, Summed
    <3> QED BY <3>1, <3>2, <3>3, BoundsAre DEF MetricsInv, ObserveInv, Accounted
  <2>2. ObservationsCounted
    BY <2>1 DEF ObservationsCounted
  <2> QED BY <2>2 DEF MetricsInv, ScrapeInv, ScrapeCoherent
<1> QED BY <1>1, MetricsInvariance, PTL
-----------------------------------------------------------------------------
(* Settings and admission: what their variables hold.                        *)

HasTop(S) == \E m \in S : \A x \in S : m >= x

\* A finite set of numbers has a greatest: a smallest that has none would still have
\* none without one of its elements.
LEMMA TopOf ==
    ASSUME NEW S \in SUBSET Nat, IsFiniteSet(S), S # {}
    PROVE  Max(S) \in S /\ \A x \in S : Max(S) >= x
<1> DEFINE Bad == {k \in Nat : \E T \in SUBSET Nat : /\ IsFiniteSet(T) /\ Cardinality(T) = k
                                                     /\ T # {} /\ ~HasTop(T)}
<1>1. Bad = {}
  <2> SUFFICES ASSUME Bad # {} PROVE FALSE
    OBVIOUS
  <2>1. PICK k \in Bad : \A x \in Bad : k <= x
    <3>1. Bad \in SUBSET Nat
      OBVIOUS
    <3> HIDE DEF Bad
    <3> QED BY <3>1, LeastOf
  <2>2. PICK T \in SUBSET Nat : IsFiniteSet(T) /\ Cardinality(T) = k /\ T # {} /\ ~HasTop(T)
    BY <2>1
  <2>3. PICK x \in T : x \in Nat
    BY <2>2
  <2> DEFINE U == T \ {x}
  <2>4. k \in Nat /\ IsFiniteSet(U) /\ Cardinality(U) = k - 1 /\ Cardinality(U) \in Nat /\ U \in SUBSET Nat
    BY <2>1, <2>2, <2>3, FS_RemoveElement, FS_CardinalityType
  <2>5. k - 1 \notin Bad
    <3>1. ~(k <= k - 1)
      BY <2>4
    <3> QED BY <2>1, <3>1
  <2>6. U = {} \/ HasTop(U)
    BY <2>4, <2>5
  <2>7. HasTop(T)
    <3>1. CASE U = {}
      <4>1. \A y \in T : y = x
        BY <3>1
      <4> QED BY <2>3, <4>1 DEF HasTop
    <3>2. CASE HasTop(U)
      <4>1. PICK m \in U : \A y \in U : m >= y
        BY <3>2 DEF HasTop
      <4>2. m \in Nat /\ m \in T /\ \A y \in T : y \in Nat /\ (y = x \/ y \in U)
        BY <2>2
      <4>3. CASE m >= x
        BY <4>1, <4>2, <4>3 DEF HasTop
      <4>4. CASE ~(m >= x)
        <5>1. x >= m /\ x >= x
          BY <2>3, <4>2, <4>4
        <5>2. \A y \in U : x >= y
          BY <2>3, <4>1, <4>2, <5>1
        <5>3. \A y \in T : x >= y
          BY <4>2, <5>1, <5>2
        <5> QED BY <5>3 DEF HasTop
      <4> QED BY <4>3, <4>4
    <3> QED BY <2>6, <3>1, <3>2
  <2> QED BY <2>2, <2>7
<1>2. Cardinality(S) \in Nat
  BY FS_CardinalityType
<1>3. HasTop(S)
  BY <1>1, <1>2
<1> QED BY <1>3 DEF HasTop, Max

MostTokens == Max(Rates \cup {1})

\* No bucket holds more than the greatest burst.
LEMMA MostIs ==
    /\ MostTokens \in Nat /\ MostTokens >= 1
    /\ \A r \in Rates : r \in Nat /\ BurstOf(r) \in Nat /\ BurstOf(r) >= r /\ BurstOf(r) >= 1
                        /\ BurstOf(r) <= MostTokens
<1> DEFINE S == Rates \cup {1}
<1>1. S \in SUBSET Nat /\ IsFiniteSet(S) /\ S # {} /\ 1 \in S
  BY FS_AddElement, SettingsAssumption DEF SettingsAssumption
<1>2. MostTokens \in S /\ \A x \in S : MostTokens >= x
  <2> HIDE DEF S
  <2>1. Max(S) \in S /\ \A x \in S : Max(S) >= x
    BY <1>1, TopOf
  <2> QED BY <2>1 DEF S, MostTokens
<1>3. ASSUME NEW r \in Rates
      PROVE  r \in Nat /\ BurstOf(r) \in Nat /\ BurstOf(r) >= r /\ BurstOf(r) >= 1 /\ BurstOf(r) <= MostTokens
  <2> DEFINE B == {1, r}
  <2>1. r \in Nat /\ r \in S
    BY <1>1
  <2>2. B \in SUBSET Nat /\ IsFiniteSet(B) /\ B # {}
    <3>1. IsFiniteSet({r}) /\ B = {r} \cup {1}
      BY FS_Singleton
    <3>2. IsFiniteSet(B)
      BY <3>1, FS_AddElement
    <3> QED BY <2>1, <3>2
  <2>3. Max(B) \in B /\ \A x \in B : Max(B) >= x
    <3> HIDE DEF B
    <3> QED BY <2>2, TopOf
  <2> QED BY <1>1, <1>2, <2>1, <2>3 DEF BurstOf
<1> QED BY <1>1, <1>2, <1>3

\* A refill stays within the burst, or adds nothing.
LEMMA Refilled ==
    ASSUME limits \in Rates, tokens \in 0..MostTokens, refilled \in Nat, clock \in Nat
    PROVE  Refill \in 0..MostTokens
<1>1. /\ limits \in Nat /\ MostTokens \in Nat /\ tokens \in Nat
      /\ BurstOf(limits) \in Nat /\ BurstOf(limits) <= MostTokens
  BY MostIs
<1>2. CASE limits > 0 /\ clock > refilled
  <2> DEFINE gain == (clock - refilled) * limits
  <2> DEFINE B == {BurstOf(limits), tokens + gain}
  <2>1. clock - refilled \in Nat
    BY <1>2
  <2>2. gain \in Nat
    BY <1>1, <2>1
  <2>3. B \in SUBSET Nat /\ B # {}
    BY <1>1, <2>2
  <2>4. Min(B) \in B /\ \A x \in B : Min(B) <= x
    <3> HIDE DEF B
    <3> QED BY <2>3, LeastOf DEF Min
  <2>5. Min(B) \in Nat /\ Min(B) <= BurstOf(limits)
    BY <2>3, <2>4
  <2>6. Refill = Min(B)
    BY <1>2 DEF Refill
  <2> QED BY <1>1, <2>5, <2>6
<1>3. CASE ~(limits > 0 /\ clock > refilled)
  BY <1>3 DEF Refill
<1> QED BY <1>2, <1>3

\* A document that takes each field from one of two.
LEMMA FieldsMakeOne ==
    ASSUME NEW x \in Documents, NEW y \in Documents, NEW S \in SUBSET Fields
    PROVE  [f \in Fields |-> IF f \in S THEN x[f] ELSE y[f]] \in Documents
<1> DEFINE d == [f \in Fields |-> IF f \in S THEN x[f] ELSE y[f]]
<1>1. x["rate"] \in Rates /\ y["rate"] \in Rates /\ x["retention"] \in Retentions /\ y["retention"] \in Retentions
  BY DEF Documents
<1>2. d["rate"] \in Rates /\ d["retention"] \in Retentions
  BY <1>1 DEF Fields
<1>3. d = [rate |-> d["rate"], retention |-> d["retention"]]
  BY DEF Fields
<1> HIDE DEF d
<1>4. d \in Documents
  BY <1>2, <1>3 DEF Documents
<1> QED BY <1>4 DEF d

Updates ==
    {NotApplying} \cup [stage : {"merged", "persisted", "installed"}, named : SUBSET Fields, next : Documents]

LEMMA UpdateIs ==
    ASSUME NEW u \in Updates, u.stage # "off"
    PROVE  /\ u.named \in SUBSET Fields /\ u.next \in Documents
           /\ \A s \in {"merged", "persisted", "installed"} : [u EXCEPT !.stage = s] \in Updates
BY DEF Updates, NotApplying

LEMMA SettingsStart == SettingsInit => SettingsTypeOK
<1> SUFFICES ASSUME SettingsInit PROVE SettingsTypeOK
  OBVIOUS
<1>1. Base \in Documents /\ Base.rate \in Rates
  BY SettingsAssumption DEF SettingsAssumption, Documents
<1>2. BurstOf(Base.rate) \in 0..MostTokens
  BY <1>1, MostIs
<1>3. {MaxApplies, MaxClock, MaxBoots} \subseteq Nat
  BY SettingsAssumption DEF SettingsAssumption
<1> QED BY <1>1, <1>2, <1>3 DEF SettingsInit, SettingsTypeOK, MostTokens

LEMMA ManagerKeeps ==
    ASSUME SettingsTypeOK, NEW a \in Admins,
           \/ \E fields \in SUBSET Fields, values \in Documents : Merge(a, fields, values)
           \/ Persist(a) \/ PersistFails(a) \/ Install(a) \/ FireHooks(a)
    PROVE  SettingsTypeOK'
<1>1. /\ persisted \in Documents /\ current \in Documents /\ lastSet \in Documents
      /\ applying \in [Admins -> Updates] /\ limits \in Rates
      /\ applies \in 0..MaxApplies /\ MaxApplies \in Nat /\ lock \in Admins \cup {Nobody}
  BY SettingsAssumption DEF SettingsTypeOK, Updates, SettingsAssumption
<1>2. UNCHANGED <<boots, tokens, refilled, day, events, admitted, clock>>
  BY DEF Merge, Persist, PersistFails, Install, FireHooks, limiterVars
<1>3. ASSUME /\ persisted' \in Documents /\ current' \in Documents /\ lastSet' \in Documents
             /\ applying' \in [Admins -> Updates] /\ limits' \in Rates
             /\ applies' \in 0..MaxApplies /\ lock' \in Admins \cup {Nobody}
      PROVE  SettingsTypeOK'
  BY <1>2, <1>3 DEF SettingsTypeOK, Updates
<1>4. NotApplying \in Updates /\ NotApplying.stage = "off"
  BY DEF Updates, NotApplying
<1>5. ASSUME NEW fields \in SUBSET Fields, NEW values \in Documents, Merge(a, fields, values)
      PROVE  SettingsTypeOK'
  <2> DEFINE next == [f \in Fields |-> IF f \in fields THEN values[f] ELSE current[f]]
  <2> DEFINE u == [stage |-> "merged", named |-> fields, next |-> next]
  <2>1. next \in Documents
    BY <1>1, FieldsMakeOne
  <2>2. applying' = [applying EXCEPT ![a] = u]
    BY <1>5 DEF Merge
  <2> HIDE DEF next
  <2>3. u \in Updates
    BY <2>1 DEF Updates
  <2> HIDE DEF u
  <2>4. applying' \in [Admins -> Updates]
    BY <1>1, <2>2, <2>3
  <2>5. /\ UNCHANGED <<persisted, current, lastSet, limits>> /\ lock' = a
        /\ applies < MaxApplies /\ applies' = applies + 1
    BY <1>5 DEF Merge, limiterVars
  <2> QED BY <1>1, <1>3, <2>4, <2>5
<1>6. CASE Persist(a)
  <2>1. applying[a] \in Updates /\ applying[a].stage = "merged"
    BY <1>1, <1>6 DEF Persist
  <2>2. applying[a].next \in Documents /\ applying[a].named \in SUBSET Fields
        /\ [applying[a] EXCEPT !.stage = "persisted"] \in Updates
    BY <2>1, UpdateIs
  <2>3. persisted' = applying[a].next
        /\ applying' = [applying EXCEPT ![a] = [applying[a] EXCEPT !.stage = "persisted"]]
        /\ UNCHANGED <<current, lock, applies, limits>>
    BY <1>6 DEF Persist, limiterVars
  <2>4. lastSet' \in Documents
    <3>1. lastSet' = [f \in Fields |-> IF f \in applying[a].named THEN applying[a].next[f] ELSE lastSet[f]]
      BY <1>6, <2>3 DEF Persist
    <3> DEFINE x == applying[a].next
    <3> DEFINE S == applying[a].named
    <3>2. lastSet' = [f \in Fields |-> IF f \in S THEN x[f] ELSE lastSet[f]] /\ x \in Documents /\ S \in SUBSET Fields
      BY <2>2, <3>1
    <3> HIDE DEF x, S
    <3> QED BY <1>1, <3>2, FieldsMakeOne
  <2>5. applying' \in [Admins -> Updates]
    BY <1>1, <2>2, <2>3
  <2> QED BY <1>1, <1>3, <2>2, <2>3, <2>4, <2>5
<1>7. CASE PersistFails(a)
  BY <1>1, <1>3, <1>4, <1>7 DEF PersistFails, limiterVars
<1>8. CASE Install(a)
  <2>1. applying[a] \in Updates /\ applying[a].stage = "persisted"
    BY <1>1, <1>8 DEF Install
  <2>2. applying[a].next \in Documents /\ [applying[a] EXCEPT !.stage = "installed"] \in Updates
    BY <2>1, UpdateIs
  <2>3. current' = applying[a].next
        /\ applying' = [applying EXCEPT ![a] = [applying[a] EXCEPT !.stage = "installed"]]
        /\ UNCHANGED <<persisted, lastSet, lock, applies, limits>>
    BY <1>8 DEF Install, limiterVars
  <2>4. applying' \in [Admins -> Updates]
    BY <1>1, <2>2, <2>3
  <2> QED BY <1>1, <1>3, <2>2, <2>3, <2>4
<1>9. CASE FireHooks(a)
  <2>1. applying[a] \in Updates /\ applying[a].stage = "installed"
    BY <1>1, <1>9 DEF FireHooks
  <2>2. applying[a].next.rate \in Rates
    BY <2>1, UpdateIs DEF Documents
  <2> QED BY <1>1, <1>3, <1>4, <1>9, <2>2 DEF FireHooks
<1> QED BY <1>5, <1>6, <1>7, <1>8, <1>9

LEMMA LimiterKeeps ==
    ASSUME SettingsTypeOK, NEW q \in Requests, Admit(q) \/ \E n \in 0..MostEvents : Record(q, n)
    PROVE  SettingsTypeOK'
<1>1. /\ limits \in Rates /\ tokens \in 0..MostTokens /\ refilled \in 0..MaxClock /\ clock \in 0..MaxClock
      /\ MaxClock \in Nat /\ events \in Nat /\ admitted \in SUBSET Requests /\ MostEvents \in Nat
  BY SettingsAssumption DEF SettingsTypeOK, SettingsAssumption, MostTokens
<1>2. Refill \in 0..MostTokens /\ MostTokens \in Nat /\ CountToday \in Nat /\ limits \in Nat
  BY <1>1, MostIs, Refilled DEF CountToday
<1>3. UNCHANGED <<managerVars, boots, limits, clock>>
  BY DEF Admit, Record
<1>4. refilled' \in 0..MaxClock /\ day' \in {0, 1}
  BY <1>1 DEF Admit, Record, Touch, Today
<1>5. tokens' \in 0..MostTokens
  <2>1. CASE tokens' = Refill
    BY <1>2, <2>1
  <2>2. CASE tokens' # Refill
    <3>1. Admit(q) /\ limits > 0 /\ Refill >= 1 /\ tokens' = Refill - 1
      BY <1>2, <2>2 DEF Admit, Record
    <3> QED BY <1>2, <3>1
  <2> QED BY <2>1, <2>2
<1>6. events' \in Nat /\ admitted' \in SUBSET Requests
  BY <1>1, <1>2 DEF Admit, Record
<1> QED BY <1>3, <1>4, <1>5, <1>6 DEF SettingsTypeOK, MostTokens, managerVars

\* Whatever the order of updates, requests and restarts, the settings are valid
\* documents, and the bucket holds no more than the greatest burst that was ever
\* configured, nor less than nothing (settings.go:119-153, admission.go:86-144).
THEOREM SettingsTyped == SettingsSpec => []SettingsTypeOK
<1>1. ASSUME SettingsTypeOK, [SettingsNext]_settingsVars PROVE SettingsTypeOK'
  <2>1. CASE Tick
    BY <1>1, <2>1, SettingsAssumption DEF Tick, SettingsTypeOK, managerVars, limiterVars, SettingsAssumption
  <2>2. CASE Boot
    <3>1. persisted \in Documents /\ persisted.rate \in Rates
      BY <1>1 DEF SettingsTypeOK, Documents
    <3>2. BurstOf(persisted.rate) \in 0..Max(Rates \cup {1})
      BY <3>1, MostIs DEF MostTokens
    <3>3. applying' \in [Admins -> Updates]
      BY <2>2 DEF Boot, Updates
    <3>4. boots' \in 0..MaxBoots
      BY <1>1, <2>2, SettingsAssumption DEF Boot, SettingsTypeOK, SettingsAssumption
    <3>5. refilled' \in 0..MaxClock /\ day' \in {0, 1} /\ tokens' = BurstOf(persisted.rate) /\ limits' \in Rates
          /\ current' \in Documents /\ lock' = Nobody /\ events' = 0 /\ admitted' = {}
          /\ UNCHANGED <<persisted, lastSet, applies, clock>>
      BY <1>1, <2>2, <3>1 DEF Boot, SettingsTypeOK, Today
    <3> QED BY <1>1, <3>1, <3>2, <3>3, <3>4, <3>5 DEF SettingsTypeOK, Updates
  <2>3. CASE UNCHANGED settingsVars
    BY <1>1, <2>3 DEF settingsVars, managerVars, limiterVars, SettingsTypeOK
  <2> QED BY <1>1, <2>1, <2>2, <2>3, ManagerKeeps, LimiterKeeps DEF SettingsNext
<1> QED BY <1>1, SettingsStart, PTL DEF SettingsSpec

-----------------------------------------------------------------------------
(* The components side by side.                                            *)

\* Each component runs by itself, or rests.
LEMMA ControlRunsEach ==
    ControlSpec => AlertSpec /\ SettingsSpec /\ PipelineSpec /\ MetricsSpec
<1>1. ControlInit => AlertInit /\ SettingsInit /\ PipelineInit /\ MetricsInit
  BY DEF ControlInit
<1>2. [ControlNext]_controlVars => [AlertNext]_alertVars /\ [SettingsNext]_settingsVars
  BY DEF ControlNext, controlVars
<1>3. [ControlNext]_controlVars => [PipelineNext]_pipelineVars /\ [MetricsNext]_metricsVars
  BY DEF ControlNext, controlVars
<1> QED BY <1>1, <1>2, <1>3, PTL DEF ControlSpec, AlertSpec, SettingsSpec, PipelineSpec, MetricsSpec

\* What an operator steers or watches has its type, in every state of each component
\* (scheduler.go:58-66, settings.go:119-153, admission.go:86-144, pipelines.go:49-92).
THEOREM ControlTyped == ControlSpec => []ControlTypeOK
BY ControlRunsEach, AlertsTyped, SettingsTyped, PipelinesTyped, PTL DEF ControlTypeOK
=============================================================================
