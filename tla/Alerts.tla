------------------------------- MODULE Alerts -------------------------------
(***************************************************************************)
(* Alerting: the scheduler of internal/alert, which evaluates the rules    *)
(* that are due, saves what it found and notifies on transitions, against  *)
(* the rule and channel API of internal/api/alerts.go, both on the tables  *)
(* of internal/store/sqlite/alerts.go.                                     *)
(*                                                                         *)
(* Abstractions.                                                           *)
(*   - What a query returns is a choice from Results: the measure column   *)
(*     of its rows, in order.                                              *)
(*   - A rule's interval is over at some time (Elapse).  Windows, severity *)
(*     and the wording of messages are left out.                           *)
(*   - All channels are of type omni-notify: a receiver's open incidents   *)
(*     are known by what it fingerprints, the labels of the event.         *)
(***************************************************************************)
EXTENDS Integers, Sequences, SequencesExt

CONSTANTS
    RuleIds,
    Channels,
    Definitions,  \* what a rule can be set to: [name, cond, channels, enabled]
    Results,      \* what its query can return: sequences of measures
    NotANumber,   \* a measure of no rows: toFloat refuses it
    MaxPuts,      \* bound: rules created and updated
    MaxDeletes,   \* bound: rules and channels deleted
    MaxTrouble    \* bound: failed reads, evaluations, saves and deliveries, and restarts

ASSUME AlertsAssumption ==
    /\ Definitions # {}
    /\ \A d \in Definitions :
          /\ d = [name |-> d.name, cond |-> d.cond, channels |-> d.channels, enabled |-> d.enabled]
          /\ d.cond.op \in {"gt", "gte", "lt", "lte", "eq", "ne"}
          /\ d.cond.value \in Int
          /\ d.channels \in Seq(Channels)
          /\ d.enabled \in BOOLEAN
    /\ Results \subseteq Seq(Int \cup {NotANumber})
    /\ MaxPuts \in Nat
    /\ MaxDeletes \in Nat
    /\ MaxTrouble \in Nat

VARIABLES
    \* -- the database -----------------------------------------------------
    rules,      \* rules[r], for the rules there are: a definition and a state
    channels,   \* channels there are
    \* -- the scheduler ----------------------------------------------------
    resting,    \* rules not yet due: next[r] is in the future
    pass,       \* "idle", "listed" (rules, not yet channels), "running"
    todo,       \* the rules of this pass still to be looked at, as listed
    reachable,  \* the channels of this pass
    job,        \* the rule at hand, NoJob between rules
    \* -- an update of a rule in the API -------------------------------------
    update,     \* the request, NoUpdate between requests
    \* -- history ------------------------------------------------------------
    edited,     \* edited[r]: the definition last put
    judged,     \* judged[r]: the state last saved, or put at creation
    streak,     \* streak[r]: "firing" notes since r was last seen not firing
    unsaved,    \* unsaved[r]: failed saves of "firing" in that time
    incidents,  \* incidents[c]: events of channel c that fired and did not resolve
    puts, deletes, trouble

dbVars     == <<rules, channels>>
passVars   == <<resting, pass, todo, reachable, job>>
notedVars  == <<streak, unsaved, incidents>>
alertVars  == <<dbVars, passVars, update, edited, judged, notedVars, puts, deletes, trouble>>

NoJob    == [stage |-> "none"]
NoUpdate == [stage |-> "none"]

Trouble ==
    /\ trouble < MaxTrouble
    /\ trouble' = trouble + 1

-----------------------------------------------------------------------------
(* Evaluate. *)

Match(cond, v) ==
    CASE cond.op = "gt"  -> v > cond.value
      [] cond.op = "gte" -> v >= cond.value
      [] cond.op = "lt"  -> v < cond.value
      [] cond.op = "lte" -> v <= cond.value
      [] cond.op = "eq"  -> v = cond.value
      [] cond.op = "ne"  -> v # cond.value

MoreExtreme(op, a, b) ==
    \/ op \in {"gt", "gte", "ne"} /\ a > b
    \/ op \in {"lt", "lte"} /\ a < b

Measures(rows) == {i \in DOMAIN rows : rows[i] # NotANumber}

\* The worst measure, kept while the rows go by; a result without measures
\* compares as zero.
Value(cond, rows) ==
    LET kept[n \in 0..Len(rows)] ==
            IF n = 0 THEN [seen |-> FALSE, value |-> 0]
            ELSE IF /\ n \in Measures(rows)
                    /\ ~kept[n - 1].seen \/ MoreExtreme(cond.op, rows[n], kept[n - 1].value)
                 THEN [seen |-> TRUE, value |-> rows[n]]
                 ELSE kept[n - 1]
    IN  kept[Len(rows)].value

\* Does any group meet the condition?
Fires(cond, rows) ==
    IF Measures(rows) = {} THEN Match(cond, 0)
    ELSE \E i \in Measures(rows) : Match(cond, rows[i])

-----------------------------------------------------------------------------
(* The scheduler. *)

Definition(rule) == [name |-> rule.name, cond |-> rule.cond,
                     channels |-> rule.channels, enabled |-> rule.enabled]
Rule(def, state) == [name |-> def.name, cond |-> def.cond, channels |-> def.channels,
                     enabled |-> def.enabled, state |-> state]

\* RunDue reads the rules, oldest first, and then the channels.
ListRules ==
    /\ pass = "idle"
    /\ \E order \in SetToSeqs(DOMAIN rules) :
          todo' = [i \in DOMAIN order |-> [id |-> order[i], rule |-> rules[order[i]]]]
    /\ pass' = "listed"
    /\ UNCHANGED <<dbVars, resting, reachable, job, update, edited, judged, notedVars,
                   puts, deletes, trouble>>

ListChannels ==
    /\ pass = "listed"
    /\ pass' = "running"
    /\ reachable' = channels
    /\ UNCHANGED <<dbVars, resting, todo, job, update, edited, judged, notedVars,
                   puts, deletes, trouble>>

ListFails ==
    /\ pass = "listed"
    /\ Trouble
    /\ pass' = "idle"
    /\ todo' = <<>>
    /\ UNCHANGED <<dbVars, resting, reachable, job, update, edited, judged, notedVars,
                   puts, deletes>>

\* Mutated: one due time is kept for all rules.
DueTogether(entry) == entry.rule.enabled /\ resting = {}

\* Disabled and not yet due rules are passed over.
Due(entry) == entry.rule.enabled /\ entry.id \notin resting

Skip ==
    /\ pass = "running"
    /\ job = NoJob
    /\ todo # <<>>
    /\ ~Due(Head(todo))
    /\ todo' = Tail(todo)
    /\ UNCHANGED <<dbVars, resting, pass, reachable, job, update, edited, judged, notedVars,
                   puts, deletes, trouble>>

\* due claims the slot before the evaluation.
Claim ==
    /\ pass = "running"
    /\ job = NoJob
    /\ todo # <<>>
    /\ Due(Head(todo))
    /\ resting' = resting \cup {Head(todo).id}
    /\ job' = [stage |-> "evaluating", id |-> Head(todo).id, rule |-> Head(todo).rule]
    /\ todo' = Tail(todo)
    /\ UNCHANGED <<dbVars, pass, reachable, update, edited, judged, notedVars,
                   puts, deletes, trouble>>

PassDone ==
    /\ pass = "running"
    /\ job = NoJob
    /\ todo = <<>>
    /\ pass' = "idle"
    /\ reachable' = {}
    /\ UNCHANGED <<dbVars, resting, todo, job, update, edited, judged, notedVars,
                   puts, deletes, trouble>>

Judged(state, value) ==
    job' = [stage |-> "saving", id |-> job.id, rule |-> job.rule, state |-> state,
            value |-> value]

NotFiring(r) ==
    /\ streak' = [streak EXCEPT ![r] = 0]
    /\ unsaved' = [unsaved EXCEPT ![r] = 0]

Evaluate ==
    /\ job.stage = "evaluating"
    /\ \E rows \in Results :
          IF Fires(job.rule.cond, rows)
          THEN /\ Judged("firing", Value(job.rule.cond, rows))
               /\ UNCHANGED <<streak, unsaved>>
          ELSE /\ Judged("ok", Value(job.rule.cond, rows))
               /\ NotFiring(job.id)
    /\ UNCHANGED <<dbVars, resting, pass, todo, reachable, update, edited, judged, incidents,
                   puts, deletes, trouble>>

EvaluateFails ==
    /\ job.stage = "evaluating"
    /\ Trouble
    /\ Judged("unknown", 0)
    /\ NotFiring(job.id)
    /\ UNCHANGED <<dbVars, resting, pass, todo, reachable, update, edited, judged, incidents,
                   puts, deletes>>

\* Mutated: everything but a repetition of "firing" is told.
TellAny(state, prev) == state # prev

\* Into firing, and from firing to ok.
Transition(state, prev) ==
    \/ state = "firing" /\ prev # "firing"
    \/ state = "ok" /\ prev = "firing"

\* After the save: the note goes to the channels of the rule that exist.
Notify ==
    IF Transition(job.state, job.rule.state)
    THEN /\ job' = [job EXCEPT !.stage = "sending", !.rule.channels =
                       SelectSeq(@, LAMBDA c : c \in reachable)]
         /\ streak' = [streak EXCEPT ![job.id] = IF job.state = "firing" THEN @ + 1 ELSE @]
    ELSE /\ job' = NoJob
         /\ UNCHANGED streak

\* Mutated: the rule is saved as it was listed.
SaveRule(r) == rules' = [rules EXCEPT ![r] = [job.rule EXCEPT !.state = job.state]]

\* SaveRuleState writes the scheduler's columns, if the rule is still there.
SaveState(r) == rules' = [rules EXCEPT ![r].state = job.state]

Save ==
    /\ job.stage = "saving"
    /\ IF job.id \in DOMAIN rules
       THEN /\ SaveState(job.id)
            /\ judged' = [judged EXCEPT ![job.id] = job.state]
       ELSE UNCHANGED <<rules, judged>>
    /\ Notify
    /\ UNCHANGED <<channels, resting, pass, todo, reachable, update, edited, unsaved, incidents,
                   puts, deletes, trouble>>

\* A save that fails is logged, and the pass goes on.
SaveFails ==
    /\ job.stage = "saving"
    /\ Trouble
    /\ unsaved' = [unsaved EXCEPT ![job.id] = IF job.state = "firing" THEN @ + 1 ELSE @]
    /\ Notify
    /\ UNCHANGED <<dbVars, resting, pass, todo, reachable, update, edited, judged, incidents,
                   puts, deletes>>

\* The labels, which the receiver takes an event for the same by.
Fingerprint(r, rule) == <<r, rule.name>>

Received(c) ==
    LET f == Fingerprint(job.id, job.rule)
    IN  incidents' = [incidents EXCEPT ![c] = IF job.state = "firing" THEN @ \cup {f} ELSE @ \ {f}]

\* One channel after the other; one that fails does not stop the rest.
Send ==
    /\ job.stage = "sending"
    /\ job.rule.channels # <<>>
    /\ \/ Received(Head(job.rule.channels)) /\ UNCHANGED trouble
       \/ Trouble /\ UNCHANGED incidents
    /\ job' = [job EXCEPT !.rule.channels = Tail(@)]
    /\ UNCHANGED <<dbVars, resting, pass, todo, reachable, update, edited, judged,
                   streak, unsaved, puts, deletes>>

Sent ==
    /\ job.stage = "sending"
    /\ job.rule.channels = <<>>
    /\ job' = NoJob
    /\ UNCHANGED <<dbVars, resting, pass, todo, reachable, update, edited, judged, notedVars,
                   puts, deletes, trouble>>

Elapse(r) ==
    /\ r \in resting
    /\ resting' = resting \ {r}
    /\ UNCHANGED <<dbVars, pass, todo, reachable, job, update, edited, judged, notedVars,
                   puts, deletes, trouble>>

\* The process dies; next is in memory, the rules' states are not.
Restart ==
    /\ Trouble
    /\ resting' = {}
    /\ pass' = "idle"
    /\ todo' = <<>>
    /\ reachable' = {}
    /\ job' = NoJob
    /\ update' = NoUpdate
    /\ UNCHANGED <<dbVars, edited, judged, notedVars, puts, deletes>>

-----------------------------------------------------------------------------
(* The API.  A rule comes to life in PutRule, with an ID of its own. *)

Put == puts < MaxPuts /\ puts' = puts + 1

Inserted(r, def, state) ==
    /\ rules' = [x \in DOMAIN rules \cup {r} |-> IF x = r THEN Rule(def, state) ELSE rules[x]]
    /\ edited' = [edited EXCEPT ![r] = def]
    /\ judged' = [judged EXCEPT ![r] = state]
    /\ NotFiring(r)

Create(r, def) ==
    /\ judged[r] = "none"
    /\ Put
    /\ Inserted(r, def, "unknown")
    /\ UNCHANGED <<channels, passVars, update, incidents, deletes, trouble>>

\* handleAlertUpdate finds the rule and PutRule reads it, for the state to keep.
UpdateReads(r, def) ==
    /\ update = NoUpdate
    /\ judged[r] # "none"
    /\ Put
    /\ update' = [stage |-> "read", id |-> r, def |-> def, state |->
                     IF r \in DOMAIN rules THEN rules[r].state ELSE "unknown"]
    /\ UNCHANGED <<dbVars, passVars, edited, judged, notedVars, deletes, trouble>>

\* On conflict the scheduler's columns are left as they are.
KeepState(old, state) == old

\* The upsert.  A rule deleted meanwhile is inserted again.
UpdateWrites ==
    /\ update.stage = "read"
    /\ IF update.id \in DOMAIN rules
       THEN /\ rules' = [rules EXCEPT ![update.id] = Rule(update.def, KeepState(@.state, update.state))]
            /\ edited' = [edited EXCEPT ![update.id] = update.def]
            /\ UNCHANGED <<judged, streak, unsaved>>
       ELSE Inserted(update.id, update.def, update.state)
    /\ update' = NoUpdate
    /\ UNCHANGED <<channels, passVars, incidents, puts, deletes, trouble>>

Delete == deletes < MaxDeletes /\ deletes' = deletes + 1

DeleteRule(r) ==
    /\ r \in DOMAIN rules
    /\ Delete
    /\ rules' = [x \in DOMAIN rules \ {r} |-> rules[x]]
    /\ UNCHANGED <<channels, passVars, update, edited, judged, notedVars, puts, trouble>>

DeleteChannel(c) ==
    /\ c \in channels
    /\ Delete
    /\ channels' = channels \ {c}
    /\ UNCHANGED <<rules, passVars, update, edited, judged, notedVars, puts, trouble>>

-----------------------------------------------------------------------------
NoRules == [r \in {} |-> 0]

AlertInit ==
    /\ rules = NoRules
    /\ channels = Channels
    /\ resting = {}
    /\ pass = "idle"
    /\ todo = <<>>
    /\ reachable = {}
    /\ job = NoJob
    /\ update = NoUpdate
    /\ edited = [r \in RuleIds |-> CHOOSE d \in Definitions : TRUE]
    /\ judged = [r \in RuleIds |-> "none"]
    /\ streak = [r \in RuleIds |-> 0]
    /\ unsaved = [r \in RuleIds |-> 0]
    /\ incidents = [c \in Channels |-> {}]
    /\ puts = 0
    /\ deletes = 0
    /\ trouble = 0

Pass ==
    \/ ListRules \/ ListChannels \/ Skip \/ Claim \/ PassDone
    \/ Evaluate \/ Save \/ Send \/ Sent

AlertNext ==
    \/ Pass
    \/ ListFails \/ EvaluateFails \/ SaveFails \/ Restart
    \/ \E r \in RuleIds :
          \/ Elapse(r)
          \/ DeleteRule(r)
          \/ \E d \in Definitions : Create(r, d) \/ UpdateReads(r, d)
    \/ UpdateWrites
    \/ \E c \in Channels : DeleteChannel(c)

AlertSpec == AlertInit /\ [][AlertNext]_alertVars

\* The scheduler's goroutine is scheduled, its ticker and its timeouts fire.
AlertFairness == WF_alertVars(Pass) /\ \A r \in RuleIds : WF_alertVars(Elapse(r))

-----------------------------------------------------------------------------
(* Properties. *)

States == {"ok", "firing", "unknown"}

AlertTypeOK ==
    /\ \A r \in DOMAIN rules :
          r \in RuleIds /\ Definition(rules[r]) \in Definitions /\ rules[r].state \in States
    /\ channels \subseteq Channels
    /\ resting \subseteq RuleIds
    /\ pass \in {"idle", "listed", "running"}
    /\ \A i \in DOMAIN todo : todo[i].id \in RuleIds /\ todo[i].rule.state \in States
    /\ reachable \subseteq Channels
    /\ job.stage \in {"none", "evaluating", "saving", "sending"}
    /\ update.stage \in {"none", "read"}
    /\ edited \in [RuleIds -> Definitions]
    /\ judged \in [RuleIds -> States \cup {"none"}]
    /\ streak \in [RuleIds -> Nat]
    /\ unsaved \in [RuleIds -> Nat]

\* "A rule that stays broken for an hour produces two messages, not one per
\* interval" (scheduler.go:22-25): while a rule goes on firing it is told once,
\* and once more for each time its state could not be saved, through edits of
\* the rule, crashes of the server and failed deliveries.
ToldOnce == \A r \in RuleIds : streak[r] <= 1 + unsaved[r]

\* SaveRuleState "cannot race a concurrent edit of the rule's definition"
\* (alerts.go:144-145), and an update keeps the evaluation state (alerts.go:
\* 89-90): what the database holds of a rule is the definition last put and the
\* state last judged, however a pass, an update and a delete interleave.
NeitherOverwrites ==
    \A r \in DOMAIN rules :
        Definition(rules[r]) = edited[r] /\ rules[r].state = judged[r]

\* The value in a notification is "the worst case rather than whichever group
\* happened to sort last" (evaluate.go:81-83): for an ordering condition it
\* explains the state it comes with.
ValueExplainsState ==
    job.stage = "sending" /\ job.rule.cond.op \in {"gt", "gte", "lt", "lte"} =>
        ((job.state = "firing") <=> Match(job.rule.cond, job.value))

\* What a receiver is told: once per time a rule fires, and with a value that
\* explains it.
ToldOnceAndTruly == ToldOnce /\ ValueExplainsState

\* A rule that is enabled and due is evaluated, whatever fails in between
\* (scheduler.go:186-189).
DueIsEvaluated ==
    \A r \in RuleIds :
        (r \in DOMAIN rules /\ rules[r].enabled /\ r \notin resting)
            ~> (r \in resting \/ r \notin DOMAIN rules \/ ~rules[r].enabled)
=============================================================================
