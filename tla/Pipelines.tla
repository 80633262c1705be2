------------------------------ MODULE Pipelines ------------------------------
(***************************************************************************)
(* Ingest pipelines: the stages that enrich an event before it is accepted *)
(* (internal/pipeline/pipeline.go), the set of those that are active       *)
(* (set.go), and the API that saves and reloads them                       *)
(* (internal/api/pipelines.go on internal/store/sqlite/pipelines.go).      *)
(*                                                                         *)
(* Abstractions.                                                           *)
(*   - A text is one of a few; the tables below say what patterns capture  *)
(*     in it and what the conversions of Go make of it.                    *)
(*   - Of the first-class texts an event has its message and its service;  *)
(*     raw and source are read and written alike.                          *)
(*   - A match is a test of one field for equality (see Query for more).   *)
(*   - IDs are given in the order of creation, and stand for its time: one *)
(*     that is written back with a time of its own keeps it in "created".  *)
(***************************************************************************)
EXTENDS Integers, FiniteSets, Sequences, SequencesExt

CONSTANTS
    Editors,       \* requests that edit pipelines
    Workers,       \* requests that ingest an event
    PipelineIds,   \* 1..n
    Pipes,         \* what a client can save:
                   \* [match, stages, enabled, order, compiles, created], created 0
    SavedBefore,   \* what the store may hold when the server starts
    Arrivals,      \* events as they arrive
    PipeTexts,     \* texts
    Captured,      \* Captured[p][t], if pattern p matches text t: its captures
    Printed,       \* Printed[t], if t looks like a number: the text it prints as again
    TimeIn,        \* TimeIn[t], if t has a time: that time
    LevelIn,       \* LevelIn[t]: ParseLevel
    MaxEdits,      \* bounds: edits that change the store,
    MaxReloadFails \*   failed listings

NoPipe == [compiles |-> FALSE, enabled |-> FALSE, order |-> 0, match |-> <<>>, stages |-> <<>>,
           created |-> 0]

\* What the store holds of one: it has a time of creation.
CreatedAt(p, time) == [p EXCEPT !.created = time]

Rows == {CreatedAt(p, time) : p \in Pipes, time \in -MaxEdits..Cardinality(PipelineIds)}
NoText == ""
FirstClass == {"message", "service", "level"}

Levels == {LevelIn[t] : t \in PipeTexts}

\* The shape of an event: its attributes are whatever a producer or a stage made.
IsEvent(e) ==
    /\ e = [message |-> e.message, service |-> e.service, level |-> e.level,
            time |-> e.time, attrs |-> e.attrs]
    /\ {e.message, e.service} \subseteq PipeTexts /\ e.level \in Levels
    /\ \A k \in DOMAIN e.attrs : e.attrs[k] \in PipeTexts

\* What compileStage lets through.
IsStage(s) ==
    /\ s.type \in {"extract", "timestamp", "level", "service", "rename", "remove", "set"}
    /\ s.failPipeline \in BOOLEAN
    /\ s.type = "extract" => s.pattern \in DOMAIN Captured
    /\ s.type = "set" => s.value \in PipeTexts

ASSUME PipelinesAssumption ==
    /\ \A p \in Pipes \cup {NoPipe} :
          /\ p = [match |-> p.match, stages |-> p.stages, enabled |-> p.enabled,
                  order |-> p.order, compiles |-> p.compiles, created |-> 0]
          /\ p.order \in Int /\ {p.enabled, p.compiles} \subseteq BOOLEAN
          /\ p.compiles => /\ p.stages \in Seq(ToSet(p.stages)) /\ p.stages # <<>>
                           /\ \A s \in ToSet(p.stages) : IsStage(s)
    /\ IsFiniteSet(PipelineIds) /\ PipelineIds = 1..Cardinality(PipelineIds)
    /\ SavedBefore \subseteq [PipelineIds -> Rows \cup {NoPipe}]
    /\ \A t \in SavedBefore, i \in PipelineIds : t[i] # NoPipe => t[i].created = i
    /\ \A t \in SavedBefore, i, j \in PipelineIds :
          i < j /\ t[j] # NoPipe => t[i] # NoPipe
    /\ \A e \in Arrivals : IsEvent(e)
    /\ Printed \in [DOMAIN Printed -> PipeTexts \ {NoText}] /\ DOMAIN Printed \subseteq PipeTexts
    /\ DOMAIN TimeIn \subseteq PipeTexts
    /\ NoText \in PipeTexts \ (DOMAIN Printed \cup DOMAIN TimeIn)
    /\ \A p \in DOMAIN Captured, t \in PipeTexts :
          t \in DOMAIN Captured[p] =>
             \A k \in DOMAIN Captured[p][t] : Captured[p][t][k] \in PipeTexts
    /\ LevelIn \in [PipeTexts -> PipeTexts]
    /\ {MaxEdits, MaxReloadFails} \subseteq Nat

VARIABLES
    saved,     \* the table: saved[i], NoPipe if there is none
    active,    \* Set.compiled
    created,   \* pipelines created so far
    editor,    \* editor[a]: [stage, id, list, met], met if it overlapped another edit
    worker,    \* worker[w]: [set, at, event, given]
    tables,    \* history: what the table has been
    behind,    \* history: the last reload failed, or met another edit
    edits,
    reloadFails

pipelineVars == <<saved, created, active, editor, worker, tables, behind, edits, reloadFails>>

-----------------------------------------------------------------------------
(* Stages.  Each returns the event, or fails and leaves it. *)

Done(e) == [ok |-> TRUE, event |-> e]
Failed(e) == [ok |-> FALSE, event |-> e]

\* readField: an empty first-class field counts as absent, an attribute does not.
Has(e, f) == IF f \in FirstClass THEN e[f] # NoText ELSE f \in DOMAIN e.attrs
Read(e, f) == IF f \in FirstClass THEN e[f] ELSE e.attrs[f]

Without(attrs, fs) == [k \in DOMAIN attrs \ fs |-> attrs[k]]

\* What looks like a number becomes one, and is read as that prints.
AsAttr(t) == IF t \in DOMAIN Printed THEN Printed[t] ELSE t

WriteAttr(e, k, t) ==
    [e EXCEPT !.attrs = [x \in DOMAIN @ \cup {k} |-> IF x = k THEN AsAttr(t) ELSE @[x]]]

TakesPart(captures) == {k \in DOMAIN captures : captures[k] # NoText}

\* A capture with the name of a first-class field lands there.
LandEvent(e, captures) ==
    LET part == TakesPart(captures)
        new  == part \ FirstClass
    IN  [e EXCEPT
           !.message = IF "message" \in part THEN captures["message"] ELSE @,
           !.service = IF "service" \in part THEN captures["service"] ELSE @,
           !.level   = IF "level" \in part THEN LevelIn[captures["level"]] ELSE @,
           !.attrs   = [k \in DOMAIN @ \cup new |->
                           IF k \in new THEN AsAttr(captures[k]) ELSE @[k]]]

Extract(e, s) ==
    IF Read(e, s.field) \notin DOMAIN Captured[s.pattern] THEN Failed(e)
    ELSE Done(LandEvent(e, Captured[s.pattern][Read(e, s.field)]))

SetTime(e, s) ==
    IF Read(e, s.field) \in DOMAIN TimeIn
    THEN Done([e EXCEPT !.time = TimeIn[Read(e, s.field)]]) ELSE Failed(e)

\* rename writes an attribute whatever its target is called, then deletes the
\* attribute it read.
Rename(e, s) ==
    LET written == WriteAttr(e, s.to, Read(e, s.field))
    IN  Done([written EXCEPT !.attrs = Without(@, {s.field})])

RunStage(e, s) ==
    CASE s.type = "remove" -> Done([e EXCEPT !.attrs = Without(@, s.fields)])
      [] s.type = "set" -> Done(WriteAttr(e, s.to, s.value))
      [] s.type \notin {"remove", "set"} /\ ~Has(e, s.field) -> Failed(e)
      [] s.type = "extract" /\ Has(e, s.field) -> Extract(e, s)
      [] s.type = "timestamp" /\ Has(e, s.field) -> SetTime(e, s)
      [] s.type = "level" /\ Has(e, s.field) ->
            Done([e EXCEPT !.level = LevelIn[Read(e, s.field)]])
      [] s.type = "service" /\ Has(e, s.field) -> Done([e EXCEPT !.service = Read(e, s.field)])
      [] s.type = "rename" /\ Has(e, s.field) -> Rename(e, s)

\* Pipeline.Apply: a stage that fails is skipped, or ends the pipeline.
NextStage(r, s) ==
    IF ~r.ok THEN r
    ELSE LET next == RunStage(r.event, s)
         IN  [ok |-> next.ok \/ ~s.failPipeline, event |-> next.event]

ApplyStages(e, p) ==
    LET run[n \in 0..Len(p.stages)] ==
            IF n = 0 THEN Done(e) ELSE NextStage(run[n - 1], p.stages[n])
    IN  run[Len(p.stages)].event

Applies(e, p) == p.match = <<>> \/ (Has(e, p.match[1]) /\ Read(e, p.match[1]) = p.match[2])

ApplyPipeline(e, p) == IF Applies(e, p) THEN ApplyStages(e, p) ELSE e

-----------------------------------------------------------------------------
(* The active set. *)

Enabled(p) == p.enabled

\* By order and then by creation.
Before(table, i, j) ==
    \/ table[i].order < table[j].order
    \/ table[i].order = table[j].order /\ table[i].created < table[j].created

Chosen(table) == {i \in PipelineIds : Enabled(table[i])}

InOrder(table) ==
    CHOOSE ids \in [1..Cardinality(Chosen(table)) -> Chosen(table)] :
       /\ ToSet(ids) = Chosen(table)
       /\ \A m, n \in DOMAIN ids : m < n => Before(table, ids[m], ids[n])

AllCompile(table) == \A i \in PipelineIds : Enabled(table[i]) => table[i].compiles

Compiled(table) == LET ids == InOrder(table) IN [n \in DOMAIN ids |-> table[ids[n]]]

\* Mutated: what does not compile is passed over, and the rest installed.
InstallWhatCompiles(table) ==
    active' = Compiled([i \in PipelineIds |-> IF table[i].compiles THEN table[i] ELSE NoPipe])

\* Replace: all or nothing.
InstallSet(table) == active' = IF AllCompile(table) THEN Compiled(table) ELSE active

-----------------------------------------------------------------------------
(* The API. *)

Idle == [stage |-> "idle", id |-> 0, list |-> <<>>, met |-> FALSE]

Editing == {a \in Editors : editor[a].stage \in {"put", "listed"}}

\* Mutated: the pipelines are listed before the change.
ListFirst(a, table) ==
    /\ edits < MaxEdits
    /\ edits' = edits + 1
    /\ editor' = [editor EXCEPT ![a] = [Idle EXCEPT !.stage = "listed", !.list = saved]]
    /\ saved' = table
    /\ tables' = tables \cup {table}
    /\ UNCHANGED <<active, worker, behind, reloadFails>>

\* The store changes; a reload that is under way may miss it.
Change(a, table) ==
    /\ edits < MaxEdits
    /\ edits' = edits + 1
    /\ saved' = table
    /\ tables' = tables \cup {table}
    /\ editor' = [b \in Editors |->
                     IF b = a THEN [stage |-> "put", id |-> 0, list |-> <<>>, met |-> Editing # {}]
                     ELSE [editor[b] EXCEPT !.met = @ \/ b \in Editing]]
    /\ UNCHANGED <<active, worker, behind, reloadFails>>

\* A pipeline that does not compile is refused, before it is put.
CreatePipeline(a, p) ==
    /\ editor[a] = Idle
    /\ p.compiles
    /\ created + 1 \in PipelineIds
    /\ created' = created + 1
    /\ Change(a, [saved EXCEPT ![created'] = CreatedAt(p, created')])

FindPipeline(a, i) ==
    /\ editor[a] = Idle
    /\ edits < MaxEdits
    /\ saved[i] # NoPipe
    /\ editor' = [editor EXCEPT ![a] = [Idle EXCEPT !.stage = "found", !.id = i]]
    /\ UNCHANGED <<saved, created, active, worker, tables, behind, edits, reloadFails>>

\* The upsert.  A row that is there keeps its time; one deleted meanwhile is
\* inserted again, with the time PutPipeline last saw, or with none: that sorts
\* before any time, and after what was inserted without one before.
NoTime == edits - MaxEdits

TimesOf(i) == IF saved[i] # NoPipe THEN {saved[i].created} ELSE {i, NoTime}

Update(a, p) ==
    /\ editor[a].stage = "found"
    /\ p.compiles
    /\ \E time \in TimesOf(editor[a].id) :
          Change(a, [saved EXCEPT ![editor[a].id] = CreatedAt(p, time)])
    /\ UNCHANGED created

DeletePipeline(a, i) ==
    /\ editor[a] = Idle
    /\ saved[i] # NoPipe
    /\ Change(a, [saved EXCEPT ![i] = NoPipe])
    /\ UNCHANGED created

ListPipelines(a) ==
    /\ editor[a].stage = "put"
    /\ editor' = [editor EXCEPT ![a].stage = "listed", ![a].list = saved]
    /\ UNCHANGED <<saved, created, active, worker, tables, behind, edits, reloadFails>>

\* The edit is answered all the same.
ListingFails(a) ==
    /\ editor[a].stage = "put"
    /\ reloadFails < MaxReloadFails
    /\ reloadFails' = reloadFails + 1
    /\ behind' = TRUE
    /\ editor' = [editor EXCEPT ![a] = Idle]
    /\ UNCHANGED <<saved, created, active, worker, tables, edits>>

ReplaceSet(a) ==
    /\ editor[a].stage = "listed"
    /\ InstallSet(editor[a].list)
    /\ behind' = (editor[a].met \/ ~AllCompile(editor[a].list))
    /\ editor' = [editor EXCEPT ![a] = Idle]
    /\ UNCHANGED <<saved, created, worker, tables, edits, reloadFails>>

-----------------------------------------------------------------------------
(* Ingest.  Set.Apply loads the set once, and runs one pipeline after another. *)

Resting == [set |-> <<>>, at |-> 0, event |-> <<>>, given |-> <<>>]

StartApply(w, e) ==
    /\ worker[w].at = 0
    /\ worker' = [worker EXCEPT ![w] = [set |-> active, at |-> 1, event |-> e, given |-> e]]
    /\ UNCHANGED <<saved, created, active, editor, tables, behind, edits, reloadFails>>

RunPipeline(w) ==
    /\ worker[w].at \in DOMAIN worker[w].set
    /\ worker' = [worker EXCEPT ![w].event = ApplyPipeline(@, worker[w].set[worker[w].at]),
                                ![w].at = @ + 1]
    /\ UNCHANGED <<saved, created, active, editor, tables, behind, edits, reloadFails>>

\* The event goes on to the queue, whatever failed.
Applied(w) == worker[w].at > Len(worker[w].set)

Accepted(w) ==
    /\ worker[w].at # 0
    /\ Applied(w)
    /\ worker' = [worker EXCEPT ![w] = Resting]
    /\ UNCHANGED <<saved, created, active, editor, tables, behind, edits, reloadFails>>

-----------------------------------------------------------------------------
\* main.run: the stored pipelines are installed, or none if one does not compile.
PipelineInit ==
    /\ saved \in SavedBefore
    /\ created = Cardinality({i \in PipelineIds : saved[i] # NoPipe})
    /\ active = IF AllCompile(saved) THEN Compiled(saved) ELSE <<>>
    /\ tables = {saved}
    /\ behind = ~AllCompile(saved)
    /\ editor = [a \in Editors |-> Idle]
    /\ worker = [w \in Workers |-> Resting]
    /\ edits = 0
    /\ reloadFails = 0

PipelineNext ==
    \/ \E a \in Editors :
          \/ \E p \in Pipes : CreatePipeline(a, p) \/ Update(a, p)
          \/ \E i \in PipelineIds : FindPipeline(a, i) \/ DeletePipeline(a, i)
          \/ ListPipelines(a) \/ ListingFails(a) \/ ReplaceSet(a)
    \/ \E w \in Workers :
          (\E e \in Arrivals : StartApply(w, e)) \/ RunPipeline(w) \/ Accepted(w)

PipelineSpec == PipelineInit /\ [][PipelineNext]_pipelineVars

-----------------------------------------------------------------------------
(* Properties. *)

PipelineTypeOK ==
    /\ saved \in [PipelineIds -> Rows \cup {NoPipe}]
    /\ created \in 0..Cardinality(PipelineIds)
    /\ \A n \in DOMAIN active : active[n] \in Rows
    /\ \A a \in Editors : editor[a].stage \in {"idle", "found", "put", "listed"}
    /\ \A w \in Workers : worker[w].at \in 0..(Len(worker[w].set) + 1)
    /\ behind \in BOOLEAN
    /\ edits \in 0..MaxEdits
    /\ reloadFails \in 0..MaxReloadFails

\* "An edit takes effect on the next event rather than the next restart"
\* (pipelines.go:19-20): with no edit under way, the active set is what is
\* saved, unless a reload failed or met another edit.
SavedTakesEffect ==
    Editing = {} /\ ~behind => active = Compiled(saved)

\* The sets that were saved as a whole; none before there was one.
SavedSets == {<<>>} \cup {Compiled(t) : t \in {u \in tables : AllCompile(u)}}

Through(e, set) ==
    LET enriched[n \in 0..Len(set)] ==
            IF n = 0 THEN e ELSE ApplyPipeline(enriched[n - 1], set[n])
    IN  enriched

\* A Replace is all or nothing (set.go:39-41), for the set and for an event that
\* is being enriched meanwhile: what is accepted went through every pipeline,
\* in order, of what the store once held, all of it, and of nothing else.
OneSetPerEvent ==
    \A w \in Workers :
        worker[w].at # 0 /\ Applied(w) =>
            /\ worker[w].set \in SavedSets
            /\ worker[w].event = Through(worker[w].given, worker[w].set)[Len(worker[w].set)]

Filled(e) == \A k \in DOMAIN e.attrs : e.attrs[k] # NoText

SetsBlank(p) == \E s \in ToSet(p.stages) : s.type = "set" /\ s.value = NoText

\* A pipeline never loses the line (set.go:68-70).  Nor does it blank anything
\* else: a field of the event is filled or absent, unless an attribute arrived
\* empty or a stage sets one so ("a missing field is absent rather than
\* present-and-empty", grok.go:187-188).
NothingBlanked ==
    \A w \in Workers : LET x == worker[w] IN
        x.at # 0 =>
            /\ x.given.message # NoText => x.event.message # NoText
            /\ Filled(x.given) /\ ~(\E n \in DOMAIN x.set : SetsBlank(x.set[n])) =>
                  /\ x.given.service # NoText => x.event.service # NoText
                  /\ Filled(x.event)

\* What comes out of enrichment is a whole event, of one whole set
\* (set.go:39-41, 68-70).
ComesOutWhole == OneSetPerEvent /\ NothingBlanked
=============================================================================
