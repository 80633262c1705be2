# Verification of omni-logging

TLA+ models of omni-logging, a log server in Go, with TLC configurations that
check them on small instances and TLAPS proofs for all sizes. The source of
every definition is the code under `src/`; `PROJECT.json` gives its lines.

## The system

One `omnilog serve` process accepts events over HTTP (JSON, NDJSON, raw lines),
syslog and OTLP. Every path ends in `Ingestor.Enqueue`, which appends the event
to a write-ahead log and puts it in a bounded queue. One writer goroutine moves
batches to SQLite, advances the log's checkpoint, and publishes the batch to
the live-tail hub. A separate `omnilog forward` process tails files and posts
batches, from a spool that is a second instance of the same log.

| Component | State | Operations | Hard part | What makes it correct |
|---|---|---|---|---|
| Write-ahead log (`internal/wal`) | segment files, checkpoint file, active handle, next number | Open, Append, Sync, SetCheckpoint, Replay, Close | torn tails, failed writes, pruning, renumbering after a crash or power loss | what was acknowledged is replayed until a checkpoint covers it; what was refused never is |
| Ingestor (`internal/ingest/ingest.go`) | queue, closed flag, the writer's batch and highest number, stalled flag | Enqueue, run, writeBatch, Recover, Stop | concurrent Enqueue and Stop, failed batches, crashes between commit and checkpoint | an accepted event is never lost, a refused one never appears, Stop returns |
| Ingest handlers and dedupe window (`handler.go`, `dedupe.go`) | batch IDs seen | Seen, eviction, handler | a retry that meets the handler it repeats; eviction; restart | a batch is ingested again only when it was forgotten; answered "duplicate" only when accepted |
| Forwarder and spool (`internal/forward`) | spool, dead-letter file, the batch being posted | deliver, post, settle, drainSpool, shutdown | lost answers, restarts of both sides, shutdown during a retry | at-least-once, oldest first |
| Admission (`internal/admission`) | token buckets, daily counters | Allow, Record, SetLimits | check and record are apart; day rollover | the bucket never exceeds its burst; overshoot is bounded by the requests in flight |
| Live-tail hub (`internal/tail/hub.go`) | subscribers, drop counts | Subscribe, Publish, evict, Close | eviction racing Close | no send on a closed channel, one close; Publish never waits |
| SSE stream (`internal/tail/sse.go`) | subscription, replayed IDs, last ID of the client | history, live loop, resume | history and live overlap; resume by ID against commit order; writes that wait for the client | each event once, none missed between history and live |
| Alert scheduler (`internal/alert`) | rules' states, next due times | RunDue, persist, dispatch, rule API | stale rule snapshots, failed saves, unknown state | two messages per outage, not one per pass |
| Settings manager (`internal/settings`) | current and stored document, hooks | Apply, ApplyJSON, Load | concurrent partial updates | store, memory and hooks agree; no lost update |
| Pipelines (`internal/pipeline`, `internal/api/pipelines.go`) | stored specs, active set | save, delete, Replace, Apply | concurrent reloads | the active set ends at what is stored; an event goes through one set that was stored |
| Event store (`internal/store/sqlite`) | logs, FTS rows, schema version | Append, Purge, Search, Stream, migrate | re-applied events, purge against rowids | one row and one FTS row per event |
| Query language and search (`internal/query`, `search.go`) | none | parse, match, SQL, cursors | the in-memory matcher against the SQL | the two agree; a page walk visits each event once |
| Syslog listener and parser (`internal/syslog`) | connections | accept, serve, read a frame, parse, Stop | connection cap, Stop during accept, framing and escapes | the cap holds, Stop returns, a message arrives as it was sent |
| OTLP receiver (`internal/otlp`) | none between requests | decode, offer, answer | a resource after its records; size limits; frames | the answer accounts for every record; each record has its resource |
| Metrics (`internal/metrics`) | histograms, counters | Observe, render | a scrape during an observation | buckets are cumulative, no observation is lost |
| Go SDK client (`sdk/omnilog`) and the NDJSON handler (`handler.go`) | queue, counters; the handlers of its batches | Send, run, Close; emit | Send after Close, batches that do not encode, a handler that outlives the request, records refused in an answer of 200 | no event is counted twice or arrives twice; what counts as sent was taken, but for what was refused |
| API server, config, query client, web UI | none | | | |

They interact by calls (handlers, syslog and OTLP call `Enqueue`; the writer
calls the store and the hub), by the queue between `Enqueue` and the writer, by
the two logs on disk between one process and the next, and by HTTP between the
forwarder and the server. `PROJECT.json` lists every component with its status
and, under `hazards`, what can go wrong in each that a test would hardly reach.

## Modules

| Module | Models |
|---|---|
| `DurableLog` | The abstract log: numbered payloads past a checkpoint, of which a power loss takes at most the newest unsynced part. |
| `Wal` | `internal/wal/wal.go`, down to files, synced lengths and handles. `Log` maps it to `DurableLog`. |
| `Ingest` | The durable write path of `ingest.go` with the start and stop order of `main.go`, built on `DurableLog`. |
| `Ingest_proofs` | TLAPS proofs about `Ingest`. |
| `Delivery` | The forwarder with its spool (`DurableLog` again) against the raw handler with its dedupe window. |
| `Tail` | The hub and the SSE handler against the batch writer, with clients that reconnect. |
| `Search` | The store as readers see it: migrations, rows and full-text rows, retention, page walks, exports. |
| `Query` | A filter or a term evaluated in memory and in SQL; time ranges. |
| `Syslog` | The listener (connections, loops, Stop), the framing and the parser. |
| `Otlp` | One export over HTTP or gRPC, from its frames to the answer. |
| `Sdk` | The Go client, and the server's NDJSON handler for what it posts. |
| `Alerts` | The scheduler's pass against the rule and channel API. |
| `Settings` | The settings manager and the limiter that follows it. |
| `Pipelines` | Stages, the active set, and the API that saves and reloads. |
| `Metrics` | A histogram, observed and scraped at once. |
| `Edge` | `Tail`, `Search`, `Query`, `Syslog`, `Otlp` and `Sdk` side by side. |
| `Control` | `Alerts`, `Settings`, `Pipelines` and `Metrics` side by side. |
| `Wal_proofs`, `Delivery_proofs`, `Tail_proofs`, `Alerts_proofs` | TLAPS proofs about the module of the same name. |
| `Search_proofs` | TLAPS proofs about `Search` and `Query`. |
| `Edge_proofs` | TLAPS proofs about `Sdk`, `Otlp` and `Syslog`, and about `Edge` as a whole. |
| `Control_proofs` | TLAPS proofs about `Settings`, `Pipelines` and `Metrics`, and about `Control` as a whole. |
| `MCIngest`, `MCDelivery`, `MCEdge`, `MCControl` | Instances of `Ingest`, `Delivery`, `Edge` and `Control` for TLC. |

`Ingest` and `Delivery` rest on `DurableLog`; `Wal` shows the code's log is one.
The parts of `Edge`, and those of `Control`, share no state in the code
beyond what each module already has of the others, so nothing is gained from
their product: a variable `part` picks one at the start, and the others rest in
one initial state. One run then checks all of them, at the sum of their sizes, and
what is proved of a component's own specification holds of it there
(`EdgeRunsEach`, `ControlRunsEach`).

**Wal.** `files` and `synced` are the directory: a segment's records, and how
many of them are on stable storage. `segments`, `active`, `activeSize`,
`nextSeq`, `checkpoint` are the fields of `WAL`. Each method is an action, since
`w.mu` makes it atomic; each way it can fail is an action with its rollback; a
crash inside Append or SetCheckpoint leaves any prefix of its file operations. A
record is one unit long, so `MaxSegment` counts records; bytes that do not
decode are the entry `Torn`. `owed` and `refused` are history: records whose
Append returned nil and payloads whose Append did not.

**Ingest.** `sending` is the caller that holds `enqMu` between `wal.Append` and
the channel send; `queue` is the channel; `writer` is the goroutine's program
counter, with its `batch`, `maxSeq` and `checkpointStalled`. `phase` and
`cursor` are the process: off, in `Recover`, or serving. `store` is what SQLite
has committed and `flushed` what of it a power loss spares. `owed` is what
`Enqueue` accepted, less what a power loss took before any fsync. Three
constants say what the environment does: `StoreSyncs` (does a commit survive a
power loss?), `SyncCovers` (does `wal.Sync` cover every record?), and the bounds.

**Delivery.** `batch`, `seq`, `outcome` are `deliver`, `post` and `settle` at
work on one batch; `stopping` and `final` are the cancelled context and
`finalFlush`. `seen` is the dedupe window, `handling` the handler the forwarder
waits on, `orphans` those whose client has gone, `accepted` how many lines of a
batch the server took. A request that never arrives, or is turned away with a
429 or 5xx before the batch ID is looked at, changes nothing and is stuttering.
`HandlersFinish`, `DeadLetterWorks` and `LinesAtStop` switch three outcomes of
the code on and off.

**Tail.** `writing`, `fresh`, `unsent` and `toEvict` are the writer from the
commit of a batch through `Publish` to the evictions after it. `Publish` holds
the read lock from `Publish` to `PublishDone`, and `Offer` is one turn of its
loop, which passes over an event the stream does not want; `Connect`, `Evict` and `CloseSub` need the write lock. `at[c]` is the
handler's place, `resume`, `history` and `replayed` its locals; `lastId` is what
the client will send as `Last-Event-ID`. `frame[c]` is what the handler is writing:
until `FrameWritten` it does nothing else, since the server sets no write timeout
(`main.go:397`) and the client may have stopped reading. Events are committed in any
order of their IDs (an ID is made before `enqMu` is taken), and `skipped` is history:
what a resume has passed over. A subscriber is a stream's current
connection, and an eviction names the connection it was decided for.

**Search.** `rows` and `index` are `logs` and `logs_fts`, by rowid; rowids are
given out as SQLite does, so that they are used again after a purge. `version`
is `user_version`, and each migration is one transaction. A walk reads a page
and its total with two statements, and appends, purges and failures may come
between any two. `streaming` are the exports that hold read connections.

**Query.** One step evaluates the filter as `Filter.matches` does, one as
`filterCond` makes SQLite do; constants say what the conversions of Go and of
SQLite make of each text, and no table serves both sides where the code has two:
`Folded` is Go's folding and `SqlLower` SQLite's, which is for ASCII letters only;
a glob has the texts it matches at all and those it matches within a line;
`Printed` has what either side writes for a number, an object or an array;
`GoTokens` and `SqlTokens` are `ftsTokenize` and `unicode61`. `BuildRange` is the
time range of `Params.Build`.

**Syslog.** `conn[c].wire` is what a sender has written and the server not yet
read, in tokens: the characters that matter, and words. `ServeFrame` finds a
frame (octet-counted or up to a newline), and `Parse` reads it as RFC
5424, RFC 3164 or a plain line. `tcp`, `udp`, `stop` and `tracked` are the two
loops, `Stop` and `Server.conns`. Senders may stop in the middle of a message,
hang or leave. `logged` is what was sent whole, `parsed` what the sink was given.

**Otlp.** A request is a sequence of frames of `ResourceLogs`, each the sequence
of its fields in wire order. `ReadRequest` applies authentication and the size
limits, `DecodeFrame` decodes one frame, and `OfferRecord` hands one event to the
sink, which may refuse it.

**Sdk.** `queue` is the channel, `sending` and `sender` the goroutine with its
batch, and the counters are those of `Stats`. `Post` starts a handler in `requests`,
which takes its batch record by record (`Emit`: the NDJSON branch of `handler.go`): a
malformed record is refused by itself, the first that the buffer does not take with
all that follow, and a body that breaks off leaves accepted what came before. `Answer`
is what the client makes of it: 2xx counts the whole batch as sent, anything else as
failed. It may give up on a handler that goes on, so that two handlers are at work on
batches of one client. `events` and `delivered` are history.

**Alerts.** `rules` and `channels` are the tables. `RunDue` is taken apart where
others can step in: the listing of rules, that of channels, and for each rule
the evaluation, the save and each delivery; `todo` holds the rules as listed.
`update` is an API request between its read and its write. `judged`, `edited`,
`streak`, `unsaved` and `incidents` are history.

**Settings.** An update is four steps under `applyMu` (merge, persist, install,
hooks), each visible to others because the store, the memory and the limiter
are read without that lock. `Admit` is `Limiter.Allow`, `Record` is its other
half, a critical section of its own; time comes in ticks.

**Pipelines.** A stage is an operator from an event to an event or a failure; a
worker takes the active set once and applies one pipeline per step, as
`Set.Apply` does without a lock. `editor[a]` is a request between its read, its
write, its listing and its `Replace`. A row has the time it was created at, which
orders pipelines of the same order; an update that races a delete inserts a row with
no such time (`sqlite/pipelines.go:72-76`), which comes before all that have one. `tables`
is history: what the store has held, so that a worker's set can be traced to it. `behind` says that the last reload failed
or overlapped another edit.

**Metrics.** An observation is the count, load and swap of the sum, then the
bucket; a scrape reads the buckets one by one, then the count and the sum.

## Runs

| Run | Shows |
|---|---|
| `wal_power` | Rotation, pruning, a crash and a power loss: acknowledged records are replayed, in order; only covered segments are deleted; `Wal` implements `DurableLog`. |
| `wal_faults` | I/O errors with `SyncOnAppend`: a rejected record is never replayed, and `Wal` still implements `DurableLog`. |
| `ingest_safety` | The write path with two crashes, a power loss and an error: nothing accepted is lost, nothing refused appears, the inductive invariant of the proofs (which has the types as its first conjunct) holds. |
| `ingest_live` | Every accepted event reaches the store and Stop returns. |
| `delivery` | Crashes, power loss, a graceful stop, cut connections, a forgotten ID and spool errors: at-least-once, once per server memory, oldest first, and in the end. |
| `edge` | Streams show each event once and miss none (`EachShownOnce`); no channel of the hub is closed twice or sent on once closed (`ClosedOnceUnsent`); the index matches the rows and a page walk is exact under appends and purges (`SearchIsExact`); a filter means the same to a stream and to a search (`QueryMeansOneThing`); a syslog message arrives as it was sent (`ArrivesAsSent`); an OTLP answer accounts for every record (`AnswerCounts`); the client counts no event twice and has none arrive twice, and what it counts as sent the server took (`ClientAccounts`); and Publish, searches, Stop and Close return and streams end (`NobodyWaits`). |
| `control` | A firing rule is told once, with a value that explains it (`ToldOnceAndTruly`); a pass and an edit do not overwrite each other (`NeitherOverwrites`); concurrent settings updates are not lost and all copies agree (`UpdatesAgree`); a quota is overrun by what is in flight at most (`OverrunBounded`); a saved pipeline takes effect (`SavedTakesEffect`); an event goes through one set that the store held as a whole and comes out with nothing blanked (`ComesOutWhole`); a scrape is coherent (`ScrapeCoherent`); and a rule that is due is evaluated (`DueIsEvaluated`). |
| `wal_checkpoint_lost`, `wal_sync`, `ingest_commit_lost`, `delivery_dedupe`, `delivery_stop` | Violations: places where code and documentation disagree (below). |

Bounds. `wal_power` has segments of two records and seven appends, enough for
three rotations, a pruned and a torn segment and numbering that restarts from
the checkpoint alone. `wal_faults` has two errors, so that a failed rotation or
rollback can be followed by another. `ingest_safety` has four events, a queue
and batches of two, so that a batch fills, the queue fills, and one batch fails
while a later one succeeds; two crashes put a crash inside recovery; events are
symmetric there. `ingest_live` has a queue of one, which callers find full.
`delivery` has three batches of two lines and two forwarder restarts.

In `edge`, a stream with a channel of one and eviction at the first drop meets
three events, one of them not wanted, in batches of one and two and in any order
of their IDs, and connects twice, so that an eviction decided for one connection
can meet the next, and a resume an event with a smaller ID. A client may leave
each frame unread for ever. `Search` has pages of one, two events with the same time,
and databases of every older version, with a right, a wrong and an empty index.
`Query` pairs every filter of its small language with every value; the texts are
chosen by what Go and SQLite make of them: numbers, numeric prefixes, exponents,
boolean words, upper case, letters that only Go folds (an accent, a long s, a dotted
I), an infinity, an object and an array, a line break, the empty text; words have one
with an accent and one that both sides divide. `Syslog` has two
connections for one slot, two messages, and one cut-off point within each
framing; its messages hold every character that is quoted or escaped, and
`Numerals` are the lengths that occur. `Otlp` has
resources before, after and around their records, up to three `ResourceLogs` and
two frames against a limit of two. `Sdk` has a queue and batches of two and three
Sends, each of any kind (plain, malformed, not encodable): enough for a batch of
several kinds, and for a second handler while the first is still at work.

In `control`, one rule is enabled and one is not; two puts, one delete and one
failure let an edit fall between any two steps of a pass. Two administrators
make two updates of any fields to any values; two requests meet a quota of two,
before and after midnight. Two editors and one worker have three rows and five
pipelines, of all stage types, among them one that is disabled, one that does not
compile, and two of the same order, which the creation time tells apart; and three
events, one without a message, one without a service and one with an attribute
that arrives empty. Two observers and one
scraper have two buckets and a value beyond them.

Deadlock is not checked, because every bound lets the model end: no more
appends, crashes, batches, connections or edits.

Assumptions and exceptions of `edge` and `control`:

- `EachShownOnce` excepts what a resume has passed over by its ID (`skipped`), and a stream that has dropped events.
- `StreamsEnd`, in `NobodyWaits`, excepts a stream whose handler stays in one write for ever (below).
- `QueryMeansOneThing` leaves out the cases that `Parts` and `PartsInText` name, where the two evaluations differ (below).
- `AnswerCounts` counts records of requests within the limits at which reading stops without an error (`WithinLimits`).
- `SavedTakesEffect` leaves out a reload that failed or overlapped another edit (`behind`).
- `ClientAccounts` promises a counter for every event only as long as all of them encode, and excepts from what was sent the records that the server refused in an answer of 200; a late arrival out of order is one of a batch that counts as failed. `CloseReturns` excepts a process that a Send after Close has brought down.
- `ComesOutWhole` lets an attribute or the service be blank where the event arrived with an empty attribute, or a stage sets one.
- `ToldOnce` allows one more message for each failed save, which is what the code does.

Assumptions of the other passing runs, each lifted in a violation run where there is one:

- `CkptLossy = FALSE`: a power loss does not empty the checkpoint file (lifted in `wal_checkpoint_lost`).
- `MaxFaults = 0` in `wal_power`, where `SyncCoversAcked` is checked (lifted in `wal_sync`).
- `StoreSyncs` in `ingest_safety` (lifted in `ingest_commit_lost`). `ingest_live` runs without it, with no power loss.
- `SyncCovers` in `ingest_safety`, needed only for `CheckpointBehindSync`.
- `HandlersFinish` (lifted in `delivery_dedupe`), no `LinesAtStop` (lifted in `delivery_stop`), and `DeadLetterWorks`, in `delivery`. `DeadLetterWorks` is lifted in no run: `settle` acknowledges a refused batch even when its dead-letter record could not be written.

### Where code and documentation disagree

1. `wal_checkpoint_lost`: the checkpoint file is renamed without an fsync of its data. If a power loss empties it, numbering restarts inside the last segment; a rotation then reopens a file of the same name, and pruning deletes the active segment.
2. `wal_sync`: after a rotation whose fsync failed, `Sync` returns nil while acknowledged records of the retired segment are not synced.
3. `ingest_commit_lost`: SQLite runs with `synchronous(NORMAL)`, so a power loss may roll back a commit the checkpoint has already passed; the design document says it cannot.
4. `delivery_dedupe`: the batch ID is recorded on arrival. After a partial acceptance (queue full, body cut off) the retry is answered "duplicate", and the remaining lines are lost.
5. `delivery_stop`: the final flush can deliver a later batch than the one just abandoned, and its acknowledgement moves the spool's checkpoint over both.

Met while modelling, and followed by the models, but not the subject of a run:

- Matching (`match.go:44-48`, "never disagree", "glob/LIKE is ASCII case-insensitive"):
  - a JSON `null` is a value to the matcher and NULL to SQLite; the matcher takes `1` and `TRUE` for booleans anywhere;
  - a glob is compiled with `(?i)` (`match.go:203`), which folds letters of any script, while LIKE folds ASCII only (`search.go:140`), and its `*` stops at a line break;
  - `isBoolLiteral` folds with `EqualFold`, so that a `true` or `false` spelt with a letter that folds to an ASCII one (`falſe`) names a boolean to SQL, but to the matcher, which lowers it, a text;
  - large numbers, objects and arrays print differently (`map[a:1]` against `{"a":1}`), and so text filters on them differ;
  - SQLite reads a number from a text that only begins with one, and none from `inf`, which is one to Go; a level that is a number only in lower case (`İnf`, whose first letter is no ASCII one) is compared as a number by the matcher and as a text by the store, which looks at it before it is lowered;
  - `ftsTokenize` keeps the diacritics that `unicode61` removes (`match.go:289-312`), so `cafe` finds `café` in a search and not in a stream; a term finds `nil` in a null attribute in the store, and a phrase that runs from one attribute into the next depends on Go's map order (`match.go:282`, `sqlite.go:258`).
- Streams: resume goes by ID ("Everything up to and including this ID has already been delivered", `sse.go:95-97`), so an event committed after one with a larger ID is skipped. "Streams end as soon as it fires" (`sse.go:31-35`): a handler that is in a write to a client that does not read, with no write timeout (`main.go:397`), does not look at the closing channel and holds shutdown up.
- Alerts: firing, then unknown, then ok sends no resolution (`scheduler.go:168`); a rename between firing and resolution leaves the receiver's incident open, against `notify.go:107-108`; an update that races a delete inserts the rule again.
- Pipelines: one stored pipeline that does not compile keeps all from being installed and fails every later reload, where `main.go` says ingest "simply runs without it"; `set.go:84` says "stored unenriched", but the stages before the failing one have been applied; overlapping saves may leave the older listing active; an update that races a delete inserts again; a dry run over the saved pipelines runs disabled ones too; a `timestamp` stage fails on a number captured into an attribute, because `writeAttr` made it a float (`pipeline.go:338`); a `service` stage with an empty attribute blanks the service; a rename of a field to itself loses it, and rename and set to a first-class name write an attribute.
- Settings and admission: counters start again with the process.
- Search: a page and its total are two statements and may disagree.
- OTLP: a gzip body over HTTP that is cut at the cap may decode to fewer records with no error (`handler.go:110-112`), and gRPC frames past the limit are not seen when it falls on a frame boundary (`grpc.go:181-189`); records of frames before a bad one stay accepted though the answer is an error; a JSON object with both spellings of a field drops one.
- Syslog: a newline-framed message that starts with a digit is read as octet-counted; the size check after `readLineLimited` is never reached (`server.go:300-315`); one error of accept or of a UDP read ends that listener for good; a backslash before any other character is dropped from a structured-data value, where RFC 5424 keeps it; a BSD line without a host takes its tag for the host.
- Go client: Send after Close panics (`client.go:149`); an event that does not encode drops its batch, which no counter shows (`client.go:219`), against `client.go:75-77`; a batch of which the server refused records in an answer of 200 counts as sent, all of it (`client.go:254-259`, `handler.go:99-104`), and one that it took in part, or after the client's timeout, as failed, all of it.

### Fairness

`Ingest` assumes weak fairness of the send under `enqMu`, of the writer
goroutine (its ticker included), of startup, and of the end of `runServe` after
Stop: goroutines are scheduled and a server that is down is started again.
Nothing makes callers, signals, crashes or faults occur. `Delivery` assumes the
same of the forwarder and of each handler, and that the server is reachable and
willing at some attempt; without that a spooled batch waits, which is what the
code intends. Stops, crashes, cut connections and forgotten IDs are bounded, so
that a batch is not abandoned for ever.

In `edge` and `control` fairness is asked only of what the server schedules by
itself, and is weak but for the end of a stream. `TailFairness`: the writer goroutine, the handlers'
progress through history and their leaving, and for a live stream strong fairness of
its end, since it may be ready only between writes and a select with several ready
cases picks each some time (Go picks at random). Nothing is asked of a client: no
frame has to be read, and a handler in a write has nothing to be fair about.
`SearchFairness`: migrations and the open at startup, and the steps of a search once it has a connection; exports are never obliged to end.
`SyslogFairness`: after Stop, the loops see their closed listeners, the handlers
their closed connections, and the wait group its zero; senders need do nothing.
`SdkFairness`: the sending goroutine, with its ticker and the HTTP timeout; the server
need never answer.
`AlertFairness`: the scheduler's goroutine and the passing of a rule's interval;
every failure is bounded.

## Proofs

`Ingest_proofs` proves, for every set of payloads, buffer and batch size and all
bounds, that `Spec` keeps `Inv`, and from it `TypeOK`, `AcceptedSurvives` and
`PublishedStored` and `ServesRecovered` (these three if no power loss takes back
a commit: `StoreKeepsCommits`), `RefusedNeverStored`, `SlotGuaranteed`, and
`CheckpointBehindSync` (if `SyncCovers`).

`AcceptedSurvives` is not inductive. When the writer moves the checkpoint to
`maxSeq`, the records dropped from the log must be in the store, and that is so
only because the queue holds log records in log order, past the batch
(`QueueInLogOrder`); because as long as the checkpoint may move no record past it
has been forgotten (`NothingSkipped`, which is where `checkpointStalled` comes
in); because the program counter says what has been written (`WriterProgress`);
and because `Recover` has applied what its cursor passed (`RecoveredToCursor`).
`RefusedNeverStored` needs `OfferedOnly`: an event in the store or the log was
offered, so a later refusal cannot be of one already there. Each conjunct has a
lemma with one step per action; `NextInv` puts them together. TLC checks `Inv`
in `ingest_safety`.

`Control_proofs` proves `UpdatesAgree` and `OverrunBounded` for any number of
updates and requests at once, under `SettingsAssumption` (the set of requests is
finite, "nobody" is not an administrator). `UpdatesAgree` speaks only of the time
between updates. Its invariant says that one update runs at a time
(`OneApplies`), and which copies have the new document at each of its stages
(`HalfwayAgrees`): before the persist it differs from the old one only in the
fields the update names, so no field that another update wrote is taken back.
A restart in the middle is covered because the store has at any time what was
written last. `OverrunBounded` is inductive but for its types.

It proves `SavedTakesEffect`, `ComesOutWhole` and the types of `Pipelines` for any
pipelines, stages, patterns and number of editors and workers, under
`PipelinesAssumption`: texts, captures and levels have their types, what the store
holds at startup fills a prefix of the IDs, and the empty text is neither a number
nor a time. `SavedTakesEffect` speaks only of the time between edits. Its invariant
says that two edits under way both know that they met (`NoneAlone`), so that an
edit that met none and has listed the table holds what is saved (`ListedIsSaved`).
`ComesOutWhole` has two parts. `OneSetPerEvent` follows from `Enriching` (a worker's
event is what came in, after as many pipelines of the set it took as it has run) and
`Recorded`: the set of a worker, the active set and every listing under way come from a
table in `tables`. That a listing has one order needs
the creation times to tell rows apart (`Apart`): a row has the time of its creation or
none, and those with none differ by the edit that inserted them (`BornBy`). `NothingBlanked` says of each stage that a message is not lost, and
that from an event with no blank attribute a stage that sets none makes neither a blank
attribute nor a blank service (`Improves`), over all stages and all pipelines. That a set
has an order at all (`CanBeOrdered`, for any finite set of pipelines) and that a claim
about each stage holds of all of them are least counterexamples too.

It proves `ScrapeCoherent` for any observers, scrapers, labels, buckets and values.
That the sum loses nothing to a swap is not local to the swap: `Accounted` says
which observations are in the sum (all but those whose observer has not swapped
yet) and which are in their bucket, and each observer owes an observation of its own
(`EachItsOwn`). A failed swap then leaves the debt as it was, and a successful one
pays it once (`SumGains`). A scrape reads bucket after bucket while observations
land; it is cumulative, and within the count it reads last, because what it has
added up so far is at most what has landed up to that bound by now (`Reading`,
`ToldGrows`), and because the count goes first in `Observe`. `InBucketIs` ties the
bucket that a value is put in to the cumulative ones a reader sees.

`SettingsTyped` is the bound on the bucket: it is refilled to at most the burst of
the limits in force, which may be lower than what it holds, and so never above the
greatest burst that was ever configured (`MostIs`, for any finite set of rates).

`Edge_proofs` proves `ClientAccounts` for any queue, batch size, kinds and number of
events, with any number of handlers at work at once. The batches posted follow one
another, before the batch at hand and that before the queue (`Ordering`, `InPlace`), so
that no event is in two of them; what arrived came from a batch, at a place its handler
is past (`Brought`); all that a handler is past has arrived or was refused, until the
buffer is full (`Complete`); and a batch whose handler is not done when a later one
begins is one that the client has counted as failed (`InTurn`).

It proves `AnswerCounts` for any requests and limits, under `OtlpAssumption`: a
request is a well-formed sequence of frames, and its records are numbered in the
order of the wire. `OtlpInv` says how far the handler has come: of the first n frames
k are decoded, what was read of the others is each of them, a part of it, or garbage
(`Progress`), what landed lies before what waits (`InSendingOrder`), and each event is
that of one record, with the attributes of its resource wherever in the message the
resource stands (`EventsOf`). A request within its limits is read whole, and then
landed, waiting and refused add up to the records of the k frames, which become all
of them at the answer (`Right`).

It proves `ArrivesAsSent` for any connections, messages, framings and cut-off points,
under `SyslogAssumption` (each length has one numeral) and from `ParsesBack`: each
message, by itself, reads as it was meant. That is a statement about the parser
alone, which computes on concrete text; TLC exercises it, since every message of the
instance is among those sent, alone and after others. What is proved is the rest, in
which the order of events matters: where a frame ends does not depend on what follows
it, nor on how often the server reads. The invariant (`Faithful`) gives the wire of a
connection marks: it is the frames not yet read, one after the other, and then the
beginning of one (`OnWire`). A frame cut off makes at most one event, and only after
all whole ones. The proof found that a newline-framed message must carry no newline
in any of its parts, where the model had asked it of the text only (`Carries`).
`ConnsCapped` has the cap: the handlers of the connections counted are those that
run (`Tracking`), and one more is counted only below the limit.

`EdgeTyped` and `ControlTyped` put the types of all components together, for the
specifications that the runs `edge` and `control` check. They need each component's
own invariant, since the histories and cursors keep their types only by it.

`Wal_proofs` proves that `Wal` implements `DurableLog`, step by step, and
`AckedReplayable`, `ReplayInOrder`, `PruneOnlyApplied`, `SyncCoversAcked` and
`RefusedNotReplayed` with their types. `Inv` has two layers. The first needs no
assumption: a rollback truncates the active file to a length it has
(`HandleBacked`), and whatever is in a file came from a call that was not refused
(`PayloadsAccounted`), which is all `RefusedNotReplayed` needs. The second holds
under `Sound`, and says why numbering can be rebuilt from directory and
checkpoint: numbers grow along a file and from file to file, and name the files
(`Numbered`); a file begins where an older one ends or below the checkpoint
(`StartsFollow`); what is torn is the end of the newest file (`TornAtEnd`); no
number is missing past the checkpoint (`NoGap`), and the next is free
(`NextIsFree`). The refinement follows, because what the files hold past the
checkpoint is then a sequence with consecutive numbers. `SyncCoversAcked` needs
`MaxFaults = 0` (lifted in `wal_sync`), which makes retired files stable
(`RetiredSynced`).

`SoundOptions` is `~CkptLossy` (lifted in `wal_checkpoint_lost`) and no I/O errors
together with power losses. The second half was met in the proof, which fails
without it, and TLC shows why (segments of one record, five appends, one power
loss, two errors). A rotation whose fsync failed leaves its segment unsynced
though newer ones are begun (`wal.go:140-156`); a power loss empties those files;
`Open` then resumes below the name of the last file, and a later rotation opens
that file again, whose size it takes for 0 though it appends
(`wal.go:176-203`). A write that fails next is rolled back to that size, and the
acknowledged record in the file is gone, although the truncation is there to
drop only "partially written bytes" (`wal.go:151-153`).

`Delivery_proofs` proves `OneCopyPerMemory` with no assumption, `OldestFirst` under
`OrderlyStop` (no `LinesAtStop`, and `DeadLetterWorks`), and `SpooledNotLost` under
`OrderlyStop` and `HandlersFinish`: the switches of the runs, for the same
reasons. `OneCopyPerMemory` needs that an ID in the window stands for one handler
that the server has not forgotten (`WindowCounts`). `SpooledNotLost` needs that the
checkpoint passes only what was sent, which is not local to the acknowledgement:
every record the forwarder is past has been sent, but for the one in hand
(`BehindSent`), the batch in hand is the record it will acknowledge (`BatchAtSeq`),
a settled attempt left its batch somewhere (`SettledSent`), and a batch whose ID
was recorded has been accepted or is still at its handler (`HandledAccepted`).

`Tail_proofs` proves `ClosedOnceUnsent`, `ShownOnce` and the types for any number of
streams, events and connections, and `EachShownOnce` with no assumption on the order in
which events are committed. `HubInv` says that what Publish has still to send is sent
under the lock, to registered streams, and that the channel of a registered stream is
open. That no event is
shown twice (`Once`) rests on keeping apart the places where an event can be: what
was committed before the subscription can come from the history alone, what comes
later from the channel and perhaps from the history too, and `replayed` remembers
it in that case until the channel has brought it. That none is missed (`Reaches`)
says where an event committed after the subscription is at every moment: with the
writer, in the channel, remembered, shown, or passed over by a resume, and then its ID
is none above the one the client came with. `BackfillIsHistory` shows that the newest
`Limit` wanted events exist as an ordered sequence for any set of events.

`Search_proofs` proves `SearchIsExact` and the types for any database an earlier
version left, any events and any page size, under `SearchAssumption` (among it that
`logs.id` is a primary key). That the index equals the rows once the rebuild has run
is inductive with the fact that a new row gets a rowid in use nowhere
(`NextIsFree`). That a walk is exact is not local to a page: the cursor is the last
event received, and what the client is owed has been received or is found and lies
past the cursor (`WalkInv`), whatever is appended or purged between two statements;
a page takes the first of what lies past it, and what it leaves out comes after its
last event (`PageOf`), so that a page that is not full ends the walk.

It proves `QueryMeansOneThing` for any texts, foldings, patterns, tokenizers, filters and
values. Nothing is said there of what a conversion computes: `QueryAssumption` asks of
the tables that lowering a text twice is lowering it once, that "0" and "1" come from no
other text, that what SQLite folds Go folds, that a glob matches within a line only what
it matches at all, and that SQLite always reads some number. The proof goes operator by
operator (`FiltersAgree`) and needed two exceptions that `Parts` did not have: a text
that only Go takes for a number, and a level that is one only in lower case. Both are in
the code, and TLC has them in its tables since. Of terms it shows that with no word that
the tokenizers read differently both sides look for the same words among the same words
(`PartsInText`).

`Alerts_proofs` proves `NeitherOverwrites`, `ToldOnceAndTruly` and the types with no
assumption but `AlertsAssumption`. `NeitherOverwrites` is inductive but for its types
(`Stored`): a step of either side writes its own half of a row and takes the other
half from the row, not from its listing. `ToldOnce` is not: a rule that is not down
as firing may still be told, and it can be so in the table, in the stale listing
of the pass or in its hands; in each of these places no message may have gone out
that a failed save does not explain (`MayBeTold`), and a pass looks at each rule
once (`EachOnce`).
`ValueIsWorst` is about the evaluation loop: for every result, of any length, it
ends with the value furthest past the threshold among the rows that have one.

Induction. The library's induction theorems are out of reach, but where a claim
about data is first-order, a least counterexample does: the numbers at which it
fails have a least element, which the steps of the loop exclude. `ValueIsWorst`,
the lemmas on sorted listings (`Wal_proofs`, `Tail_proofs`, `Search_proofs`), the sums
of `Metrics`, the stages of `Pipelines`, sequences of sequences (`FlattenSeq`, in
`Otlp`) and the maximum of a finite set are proved in that way.

Only model-checked: liveness (out of the prover's reach), and `ParsesBack`. The parser
of `Syslog` computes with folds that take an operator, over text from which it
removes a piece at a time; that it undoes `MessageText` for every message is an
induction over both, without a first-order claim a least counterexample could start
from.

## Not modelled

- The grammar of the query language (`parse.go`) and aggregation (`agg.go`, its SQL and buckets), stats and facets: pure text to SQL, without state. What an aggregation returns is a choice in `Alerts`.
- Encodings: protobuf, JSON, the division of a body into records, gzip, SSE framing, the text format of metrics, timestamps, cursors as text, grok's expansion into regular expressions.
- The HTTP server, authentication, compression and rate headers: stateless; what a handler changes is modelled with it. Configuration is read once.
- File tailing and rotation detection of the forwarder, and delivery without a spool.
- The arithmetic by which a full dedupe window evicts: `Delivery` lets the server forget any ID.
- Event IDs and normalisation: one event at a time; within a millisecond IDs are random, so there is no order to check.
- Backup and the integrity check, which only read; the conformance suite, which is a test helper.
- Webhook formats and receivers of other types, the test endpoints and the update of channels.
- The query client, the slog handler, the JavaScript and Python clients, and the web UI.

File removal, truncation and directory fsync are assumed to work. `PROJECT.json`
gives each component's reason.

## Plan

What is left, in order:

1. Aggregation: histogram buckets and their bounds (those of times before 1970 among them) against a reference definition.
2. Forwarder: tailing across rotation and truncation, with the saved offset, in front of `Delivery`.
3. The dedupe window's eviction arithmetic, as a step over a small clock.
4. `Tail` on top of `Ingest`: one writer for both, in place of a writer that commits any event in any order.

Abstract specifications worth stating: an at-least-once queue that `Delivery`
implements, and a register that `Settings` implements.

Theorems worth proving next: `ParsesBack`, for structured data with a parser written
as a function of the position; that `Delivery` implements an at-least-once queue.

## Running

    tlc -config MCIngest_safety.cfg MCIngest
    tlc -config MCEdge.cfg MCEdge
    tlapm Ingest_proofs.tla
    tlapm Edge_proofs.tla

Each run's module and configuration are in `PROJECT.json`.
