-------------------------------- MODULE Otlp --------------------------------
(***************************************************************************)
(* The OpenTelemetry receiver (internal/otlp): a request is decoded, its   *)
(* records are offered to the ingestor one by one, and the answer says how *)
(* many did not land; over HTTP (handler.go) and over gRPC (grpc.go).      *)
(*                                                                         *)
(* Abstractions.                                                           *)
(*   - A message is the sequence of its fields, as on the wire: a resource *)
(*     may come after its records.  One that does not decode is Garbage.   *)
(*   - Of the attributes those are kept that name a service or a host, and *)
(*     one more; a value is a text, "" for one that renders as empty.      *)
(*   - Times are numbers, 0 for none.  A size is a number of ResourceLogs; *)
(*     the header of a gRPC frame counts one, and so does all of a frame   *)
(*     or body that is compressed.                                         *)
(*   - A request's records are numbered in the order they are sent.        *)
(***************************************************************************)
EXTENDS Naturals, Sequences, FiniteSetsExt, SequencesExt, TLC

CONSTANTS
    Exports,      \* requests: [via, frames, authorized, gzip]
    MaxBody,      \* size limit of a request over HTTP, of a message over gRPC
    ServiceKeys,  \* attributes that name the service, best first
    HostKeys,     \*   and the host
    OtlpNow       \* the clock

Unset == ""

Garbage == <<[tag |-> "garbage"]>>

IsSeq(s) == Len(s) \in Nat /\ s = [i \in 1..Len(s) |-> s[i]]

KeyValues(kvs) ==
    IsSeq(kvs) /\ \A i \in DOMAIN kvs : kvs[i] = [key |-> kvs[i].key, value |-> kvs[i].value]

\* The fields of a ResourceLogs, and of a ScopeLogs in it.
LogsShape(fields) ==
    IsSeq(fields) /\ \A i \in DOMAIN fields :
        \/ fields[i].tag = "garbage"
        \/ fields[i].tag = "resource" /\ KeyValues(fields[i].is)
        \/ /\ fields[i].tag = "scopes" /\ IsSeq(fields[i].is)
           /\ \A j \in DOMAIN fields[i].is :
                 LET field == fields[i].is[j] IN
                 \/ field.tag = "scope"
                 \/ field.tag = "record" /\ field.is.id \in Nat /\ KeyValues(field.is.attrs)

\* The records a request sends: <<frame, ResourceLogs, ScopeLogs, record>>.
Records(x) ==
    UNION {UNION {UNION {
        {<<i, j, k, l>> : l \in {l \in DOMAIN x.frames[i][j][k].is : x.frames[i][j][k].is[l].tag = "record"}} :
            k \in {k \in DOMAIN x.frames[i][j] : x.frames[i][j][k].tag = "scopes"}} :
            j \in DOMAIN x.frames[i]} : i \in DOMAIN x.frames}

RecordAt(x, p) == x.frames[p[1]][p[2]][p[3]].is[p[4]].is

\* The order on the wire.
Earlier(p, q) ==
    \E n \in 1..4 : p[n] < q[n] /\ \A m \in 1..(n - 1) : p[m] = q[m]

ASSUME OtlpAssumption ==
    /\ \A x \in Exports :
          /\ x.via \in {"http", "grpc"}
          /\ IsSeq(x.frames)
          /\ \A i \in DOMAIN x.frames :
                IsSeq(x.frames[i]) /\ \A j \in DOMAIN x.frames[i] : LogsShape(x.frames[i][j])
          /\ \A p, q \in Records(x) : Earlier(p, q) => RecordAt(x, p).id < RecordAt(x, q).id
          /\ x.via = "http" => Len(x.frames) = 1
          /\ {x.authorized, x.gzip} \subseteq BOOLEAN
    /\ MaxBody \in Nat
    /\ OtlpNow \in Nat \ {0}

VARIABLES
    export,    \* the request at hand
    handling,  \* "receiving", "reading", "offering", "answered"
    frames,    \* messages still to be decoded
    offered,   \* events decoded and not yet offered to the sink
    landed,    \* history: events the sink took, in order
    refused,   \* events it refused
    answer     \* [status, rejected], NoAnswer before

otlpVars == <<export, handling, frames, offered, landed, refused, answer>>

NoAnswer == [status |-> "none", rejected |-> 0]

-----------------------------------------------------------------------------
(* Decoding. *)

\* An attribute without a key is dropped, a later one of the same key wins.
Attributes(kvs) ==
    LET LastOf(k) == CHOOSE i \in DOMAIN kvs : kvs[i].key = k
                        /\ \A j \in DOMAIN kvs : j > i => kvs[j].key # k
    IN  [k \in {kvs[i].key : i \in DOMAIN kvs} \ {Unset} |-> kvs[LastOf(k)].value]

FirstAttr(attrs, keys) ==
    LET set == SelectSeq(keys, LAMBDA k : k \in DOMAIN attrs /\ attrs[k] # Unset)
    IN  IF set = <<>> THEN Unset ELSE set[1]

Valued(attrs, key) == IF key = Unset THEN Unset ELSE attrs[key]

\* The number counts, the text if there is none.
SeverityToLevel(number, level) ==
    CASE number = 0 -> IF level = Unset THEN "info" ELSE level
      [] number \in 1..8 -> "debug"
      [] number \in 9..12 -> "info"
      [] number \in 13..16 -> "warn"
      [] number \in 17..20 -> "error"
      [] number > 20 -> "fatal"

\* finishEvent: a record's own attributes win over its resource's, the scope
\* names the service if the resource does not.
FinishEvent(rec, resource, scope) ==
    LET own == Attributes(rec.attrs)
        service == Valued(resource, FirstAttr(resource, ServiceKeys))
    IN  [id      |-> rec.id,
         attrs   |-> [k \in DOMAIN own \cup DOMAIN resource |->
                        IF k \in DOMAIN own THEN own[k] ELSE resource[k]],
         service |-> IF service = Unset THEN scope ELSE service,
         source  |-> Valued(resource, FirstAttr(resource, HostKeys)),
         level   |-> SeverityToLevel(rec.number, rec.text),
         time    |-> IF rec.time > 0 THEN rec.time
                     ELSE IF rec.seen > 0 THEN rec.seen ELSE OtlpNow]

\* The last name counts.
ScopeName(fields) ==
    LET names == SelectSeq(fields, LAMBDA f : f.tag = "scope")
    IN  IF names = <<>> THEN Unset ELSE Last(names).is

DecodeScopeLogs(fields, resource) ==
    FlattenSeq([i \in DOMAIN fields |->
        IF fields[i].tag = "record"
        THEN <<FinishEvent(fields[i].is, resource, ScopeName(fields))>> ELSE <<>>])

\* Mutated: the records are decoded as they come, with the resource so far.
ResourceSoFar(fields, i) ==
    FlattenSeq([j \in 1..(i - 1) |-> IF fields[j].tag = "resource" THEN fields[j].is ELSE <<>>])

\* The records wait until the resource is known, wherever it stands.
ResourceOf(fields, i) ==
    FlattenSeq([j \in DOMAIN fields |-> IF fields[j].tag = "resource" THEN fields[j].is ELSE <<>>])

DecodeResourceLogs(fields) ==
    FlattenSeq([i \in DOMAIN fields |->
        IF fields[i].tag = "scopes"
        THEN DecodeScopeLogs(fields[i].is, Attributes(ResourceOf(fields, i))) ELSE <<>>])

Decodes(frame) == \A i \in DOMAIN frame : \A j \in DOMAIN frame[i] : frame[i][j].tag # "garbage"

Decode(frame) == FlattenSeq([i \in DOMAIN frame |-> DecodeResourceLogs(frame[i])])

-----------------------------------------------------------------------------
(* Handling. *)

Answered(status) ==
    /\ handling' = "answered"
    /\ answer' = [status |-> status, rejected |-> IF status = "ok" THEN refused ELSE 0]

Arrives(x) ==
    /\ handling \in {"receiving", "answered"}
    /\ export' = x
    /\ handling' = "reading"
    /\ frames' = x.frames
    /\ offered' = <<>> /\ landed' = <<>> /\ refused' = 0
    /\ answer' = NoAnswer

Wire(x, i) == IF x.gzip THEN 1 ELSE Len(x.frames[i])

\* What may still be read of the stream when frame i starts.
Room(x, i) == MaxBody + 1 - FoldSet(LAMBDA j, n : n + 1 + Wire(x, j), 0, 1..(i - 1))

\* At the limit of the stream the rest of it is not seen.
Seen(x) == {i \in DOMAIN x.frames : Room(x, i) > 0}

TooLarge(x) == {i \in Seen(x) : Len(x.frames[i]) > MaxBody}
Truncated(x) == {i \in Seen(x) : Wire(x, i) >= Room(x, i)}

\* readFrames, with decompressFrame.  All frames are read before one is decoded.
ReadFrames ==
    LET bad == TooLarge(export) \cup Truncated(export)
        first == CHOOSE i \in bad : \A j \in bad : i <= j
    IN  IF bad = {}
        THEN /\ frames' = SubSeq(frames, 1, Cardinality(Seen(export)))
             /\ handling' = "offering"
             /\ UNCHANGED answer
        ELSE /\ Answered(IF Wire(export, first) > MaxBody \/ first \notin Truncated(export)
                         THEN "too large" ELSE "invalid")
             /\ UNCHANGED frames

\* readBody.  A compressed body is read up to the limit and the rest dropped:
\* what is left of it decodes if the limit falls between two ResourceLogs.
ReadBody ==
    IF Len(frames[1]) <= MaxBody
    THEN handling' = "offering" /\ UNCHANGED <<frames, answer>>
    ELSE IF export.gzip
    THEN /\ frames' \in {<<SubSeq(frames[1], 1, MaxBody)>>, <<<<Garbage>>>>}
         /\ handling' = "offering"
         /\ UNCHANGED answer
    ELSE Answered("too large") /\ UNCHANGED frames

ReadRequest ==
    /\ handling = "reading"
    /\ CASE ~export.authorized -> Answered("unauthenticated") /\ UNCHANGED frames
         [] export.authorized /\ export.via = "grpc" -> ReadFrames
         [] export.authorized /\ export.via = "http" -> ReadBody
    /\ UNCHANGED <<export, offered, landed, refused>>

\* A gRPC frame that does not decode ends the call, after those before it.
DecodeFrame ==
    /\ handling = "offering"
    /\ offered = <<>>
    /\ frames # <<>>
    /\ IF Decodes(Head(frames))
       THEN offered' = Decode(Head(frames)) /\ UNCHANGED <<handling, answer>>
       ELSE Answered("invalid") /\ UNCHANGED offered
    /\ frames' = Tail(frames)
    /\ UNCHANGED <<export, landed, refused>>

\* The sink is Ingestor.Enqueue: the buffer may be full.
OfferRecord ==
    /\ handling = "offering"
    /\ offered # <<>>
    /\ offered' = Tail(offered)
    /\ \/ landed' = Append(landed, Head(offered)) /\ UNCHANGED refused
       \/ refused' = refused + 1 /\ UNCHANGED landed
    /\ UNCHANGED <<export, handling, frames, answer>>

Reply ==
    /\ handling = "offering"
    /\ offered = <<>>
    /\ frames = <<>>
    /\ Answered("ok")
    /\ UNCHANGED <<export, frames, offered, landed, refused>>

-----------------------------------------------------------------------------
OtlpInit ==
    /\ export \in Exports
    /\ handling = "receiving"
    /\ frames = <<>> /\ offered = <<>> /\ landed = <<>> /\ refused = 0
    /\ answer = NoAnswer

OtlpNext == (\E x \in Exports : Arrives(x)) \/ ReadRequest \/ DecodeFrame \/ OfferRecord \/ Reply

OtlpSpec == OtlpInit /\ [][OtlpNext]_otlpVars

-----------------------------------------------------------------------------
(* Properties. *)

OtlpTypeOK ==
    /\ export \in Exports
    /\ handling \in {"receiving", "reading", "offering", "answered"}
    /\ refused \in Nat
    /\ answer.status \in {"none", "ok", "invalid", "too large", "unauthenticated"}

\* The attributes a record is sent with that have a key: its own, and those of its
\* resource that it does not set itself.
SentWith(x, p) ==
    LET group == x.frames[p[1]][p[2]]
        own == ToSet(RecordAt(x, p).attrs)
        theirs == UNION {ToSet(group[i].is) : i \in {j \in DOMAIN group : group[j].tag = "resource"}}
    IN  {kv \in own \cup {kv \in theirs : \A o \in own : o.key # kv.key} : kv.key # Unset}

\* Nothing of the request lies beyond a limit at which reading stops silently.
WithinLimits(x) ==
    IF x.via = "http" THEN Len(x.frames[1]) <= MaxBody ELSE Seen(x) = DOMAIN x.frames

\* The collector retries what the answer says was refused, so the answer to a
\* request that was understood accounts for every record of it; and the records
\* land in order, each with the attributes of the resource it was sent under,
\* wherever in the message that stands.  An error means that nothing landed, but
\* for the gRPC frames before a bad one.
AnswerCounts ==
    /\ answer.status = "ok" /\ WithinLimits(export) =>
          Len(landed) + answer.rejected = Cardinality(Records(export))
    /\ \A i, j \in DOMAIN landed : i < j => landed[i].id < landed[j].id
    /\ \A i \in DOMAIN landed : \E p \in Records(export) :
          /\ RecordAt(export, p).id = landed[i].id
          /\ DOMAIN landed[i].attrs = {kv.key : kv \in SentWith(export, p)}
          /\ \A k \in DOMAIN landed[i].attrs :
                [key |-> k, value |-> landed[i].attrs[k]] \in SentWith(export, p)
    /\ answer.status \in {"invalid", "too large", "unauthenticated"} /\ landed # <<>> =>
          export.via = "grpc" /\ Len(export.frames) > 1
=============================================================================
