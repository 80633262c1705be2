------------------------------- MODULE Query --------------------------------
(***************************************************************************)
(* What a filter means: in memory, where live tail asks Filter.matches     *)
(* (internal/query/match.go) of an event, and in SQL, where the store      *)
(* evaluates filterCond (internal/store/sqlite/search.go) on its row.  And *)
(* what a time range means: Params.Build (internal/query/build.go).        *)
(*                                                                         *)
(* Abstractions.                                                           *)
(*   - A text is one of a few; the tables below say what the conversions   *)
(*     of Go and of SQLite make of it.                                     *)
(*   - An event is the value its filter looks at: [kind |-> "text", is |-> *)
(*     t], a "number", a "bool", a "nested" object or array, a JSON "null" *)
(*     or nothing ("absent").                                              *)
(*   - A glob or a regular expression is the set of texts it matches as    *)
(*     they are written; a glob then takes all that fold to one of them.   *)
(*   - To a free-text term an event is its words as they are written: those*)
(*     of message, raw, service and source as its head, and those of its   *)
(*     attributes.  GoTokens and SqlTokens say what the tokenizers make of *)
(*     a word.                                                             *)
(*   - A time is a number, 0 when there is none.                           *)
(***************************************************************************)
EXTENDS Integers, Sequences, SequencesExt

CONSTANTS
    Texts,      \* texts an event or a filter may hold
    ByteOrder,  \* ByteOrder[t]: position of t among the texts
    Lower,      \* Lower[t]: strings.ToLower(t)
    SqlLower,   \* SqlLower[t]: lower(t) of SQLite, which changes ASCII letters only
    Folded,     \* Folded[t]: what strings.EqualFold and (?i) take t for
    GoNumber,   \* GoNumber[t]: strconv.ParseFloat, NaN when it fails
    SqlNumber,  \* SqlNumber[t]: CAST(t AS REAL), the longest numeric prefix
    Globs,      \* Globs[p]: the texts that p matches as [all |-> S, inLine |-> S],
                \* the latter with every '*' within a line
    Regexes,    \* Regexes[p]: the texts that a regular expression matches
    Printed,    \* Printed[n]: a JSON number, object or array as [go |-> t, sql |-> t]
    FilterOps,  \* filters, as [field, op, value]
    Values,     \* what they look at
    Tokens,     \* what tokenizers make of words
    GoTokens,   \* GoTokens[w]: the tokens of the written word w to ftsTokenize
    SqlTokens,  \* SqlTokens[w]: those to FTS5's unicode61, which drops diacritics
    Beginning,  \* Beginning[t]: the tokens that t is a prefix of
    Terms,      \* free-text terms, as sequences of written words
    FullTexts,  \* events by their words: [head, attrs], attrs of [key, value]
    Written,    \* bounds an expression may name, as [last, from, to]
    Asked,      \* bounds a request's parameters may name
    QueryNow    \* the clock

NaN == -999

NoText == ""

Orderings == {">", ">=", "<", "<="}

\* What a filter of the parser compares with (parse.go), and an attribute's value.
FilterShape(f) ==
    /\ f.field \in {"attr", "level", "message"}
    /\ \/ f.op \in {"=", "!="} \cup Orderings /\ f.value \in Texts
       \/ f.op = "like" /\ f.value \in DOMAIN Globs
       \/ f.op = "regex" /\ f.value \in DOMAIN Regexes
       \/ f.op = "exists"
       \/ f.op = "in" /\ f.value \subseteq Texts

ValueShape(v) ==
    \/ v.kind = "text" /\ v.is \in Texts
    \/ v.kind \in {"number", "nested"} /\ v.is \in DOMAIN Printed
    \/ v.kind = "bool" /\ v.is \in BOOLEAN
    \/ v.kind \in {"null", "absent"}

BoolLiterals == {"true", "false"}

RangeBounds == [last : Nat, from : Nat, to : Nat]

ASSUME QueryAssumption ==
    /\ Lower \in [Texts -> Texts]
    /\ \A t \in Texts : Lower[Lower[t]] = Lower[t]
    /\ {NoText, "0", "1", "true", "false"} \subseteq Texts
    /\ \A t \in {"0", "1", "true", "false"} : Lower[t] = t
    /\ \A t \in Texts : Lower[t] \in {"0", "1"} => Lower[t] = t
    /\ SqlLower \in [Texts -> Texts]
    /\ \A t \in Texts, b \in BoolLiterals : Lower[t] = b <=> SqlLower[t] = b
    /\ \A t, u \in Texts : SqlLower[t] = SqlLower[u] => Folded[t] = Folded[u]
    /\ Folded["true"] # Folded["false"]
    /\ ByteOrder \in [Texts -> Nat]
    /\ GoNumber \in [Texts -> Int]
    /\ SqlNumber \in [Texts -> Int \ {NaN}]
    /\ \A p \in DOMAIN Globs : Globs[p].inLine \subseteq Globs[p].all /\ Globs[p].all \subseteq Texts
    /\ \A p \in DOMAIN Regexes : Regexes[p] \subseteq Texts
    /\ \A n \in DOMAIN Printed : Printed[n] \in [go : Texts, sql : Texts]
    /\ \A f \in FilterOps : FilterShape(f)
    /\ \A v \in Values : ValueShape(v)
    /\ Written \cup Asked \subseteq RangeBounds
    /\ \A w \in DOMAIN GoTokens : GoTokens[w] \in Seq(Tokens)
    /\ SqlTokens \in [DOMAIN GoTokens -> Seq(Tokens)]
    /\ Terms \subseteq Seq(DOMAIN GoTokens)
    /\ Beginning \in [Tokens -> SUBSET Tokens]
    /\ QueryNow \in Nat \ {0}

VARIABLES
    filter,     \* the filter, or the term, of a live tail and of a search
    value,      \* the value of the event it looks at, or its words
    tailSays,   \* "unknown", or whether the hub offers the event
    storeSays,  \* "unknown", or whether the store finds the row
    written,    \* the bounds in the expression
    asked,      \* the bounds among the request's parameters
    range       \* the range that Build makes of them, or NoRange

queryVars == <<filter, value, tailSays, storeSays, written, asked, range>>

IsAttr(f) == f.field = "attr"

\* Levels are stored in lower case.
Norm(f, t) == IF f.field = "level" THEN Lower[t] ELSE t

-----------------------------------------------------------------------------
(* In memory. *)

\* Mutated: a boolean reads "true", as it does in the full text.
Stringify(v) ==
    CASE v.kind = "bool"   -> IF v.is THEN "true" ELSE "false"
      [] v.kind \in {"number", "nested"} -> Printed[v.is].go
      [] v.kind = "text"   -> v.is
      [] OTHER             -> NoText

\* compareString: a boolean reads as SQLite renders it.
CompareString(v) ==
    CASE v.kind = "bool"   -> IF v.is THEN "1" ELSE "0"
      [] v.kind \in {"number", "nested"} -> Printed[v.is].go
      [] v.kind = "text"   -> v.is
      [] OTHER             -> NoText

\* boolEqual: either spelling of a boolean, on both sides.
BoolEqual(actual, want) ==
    \/ Lower[want] = "true"  /\ Lower[actual] \in {"true", "1"}
    \/ Lower[want] = "false" /\ Lower[actual] \in {"false", "0"}

Compares(op, a, b) ==
    CASE op = ">" -> a > b [] op = ">=" -> a >= b [] op = "<" -> a < b [] op = "<=" -> a <= b

\* What is no number counts as 0.
Coerced(t) == IF GoNumber[t] = NaN THEN 0 ELSE GoNumber[t]

\* compareMatch: numbers if the filter names one, texts otherwise.
CompareMatch(op, actual, want) ==
    IF GoNumber[want] # NaN
    THEN Compares(op, Coerced(actual), GoNumber[want])
    ELSE Compares(op, ByteOrder[actual], ByteOrder[want])

\* globMatch: the expression it makes of a glob folds letters of any script, and
\* its '.' stops at the end of a line.
GlobMatch(p, t) == \E u \in Globs[p].inLine : Folded[u] = Folded[t]

\* Filter.matches.
Matches(f, v) ==
    LET present == v.kind # "absent"
        actual  == CompareString(v)
        want    == Norm(f, f.value)
    IN  CASE f.op = "exists" -> IF IsAttr(f) THEN present ELSE actual # NoText
          [] f.op = "!="     -> ~present \/ (~BoolEqual(actual, want) /\ actual # want)
          [] f.op = "="      -> present /\ (BoolEqual(actual, want) \/ actual = want)
          [] f.op = "in"     -> present /\ actual \in {Norm(f, t) : t \in f.value}
          [] f.op = "like"   -> present /\ GlobMatch(f.value, actual)
          [] f.op = "regex"  -> present /\ actual \in Regexes[f.value]
          [] OTHER           -> present /\ CompareMatch(f.op, actual, want)

-----------------------------------------------------------------------------
(* In SQL.  A condition on NULL is not true. *)

IsNull(v) == v.kind \in {"absent", "null"}

\* CAST(json_extract(...) AS TEXT): an object or an array is its JSON.
SqlText(v) ==
    CASE v.kind = "bool"   -> IF v.is THEN "1" ELSE "0"
      [] v.kind \in {"number", "nested"} -> Printed[v.is].sql
      [] v.kind = "text"   -> v.is

IsBoolLiteral(t) == \E b \in BoolLiterals : Folded[t] = Folded[b]

\* attrBoolCond: the JSON type, or the text.
AttrBoolCond(v, t) ==
    LET want == IF Folded[t] = Folded["true"] THEN "true" ELSE "false"
    IN  \/ v.kind = "bool" /\ want = IF v.is THEN "true" ELSE "false"
        \/ ~IsNull(v) /\ SqlLower[SqlText(v)] = want

\* globToLike: LIKE folds ASCII letters only, and its '%' knows no lines.
SqlLike(p, t) == \E u \in Globs[p].all : SqlLower[u] = SqlLower[t]

FilterCond(f, v) ==
    LET want == Norm(f, f.value)
        isBool == IsAttr(f) /\ IsBoolLiteral(f.value)
    IN  CASE f.op = "exists" -> ~IsNull(v) /\ (IsAttr(f) \/ SqlText(v) # NoText)
          [] f.op = "!="     ->
                \/ IsNull(v)
                \/ IF isBool THEN ~AttrBoolCond(v, f.value) ELSE SqlText(v) # want
          [] f.op = "="      ->
                IF isBool THEN AttrBoolCond(v, f.value) ELSE ~IsNull(v) /\ SqlText(v) = want
          [] f.op = "in" -> ~IsNull(v) /\ SqlText(v) \in {Norm(f, t) : t \in f.value}
          [] f.op = "like"  -> ~IsNull(v) /\ SqlLike(f.value, SqlText(v))
          [] f.op = "regex" -> ~IsNull(v) /\ SqlText(v) \in Regexes[f.value]
          [] OTHER ->
                /\ ~IsNull(v)
                /\ IF GoNumber[f.value] # NaN
                   THEN Compares(f.op, SqlNumber[SqlText(v)], GoNumber[f.value])
                   ELSE Compares(f.op, ByteOrder[SqlText(v)], ByteOrder[want])

-----------------------------------------------------------------------------
(* Free text: the words of message, raw, service and source, then those of *)
(* the attributes, in the order in which Go walks the map that time.       *)

\* The value of a JSON null.
NoWords == <<"(null)">>

Tokenize(tokens, words) == FlattenSeq([i \in DOMAIN words |-> tokens[words[i]]])

Words(tokens, event, order, null) ==
    Tokenize(tokens, event.head) \o FlattenSeq([i \in DOMAIN order |->
        Tokenize(tokens, order[i].key)
          \o IF order[i].value = NoWords THEN null ELSE Tokenize(tokens, order[i].value)])

\* The last word of a term may be the beginning of one.
ContainsTokens(have, want) ==
    /\ want # <<>>
    /\ \E i \in 0..(Len(have) - Len(want)) :
          /\ \A j \in 1..(Len(want) - 1) : have[i + j] = want[j]
          /\ have[i + Len(want)] \in Beginning[Last(want)]

\* stringify: a null has no words.
FtsTokens(event, order) == Words(GoTokens, event, order, <<>>)

\* ftsText: it is written as Go prints it.
FtsText(event, order) == Words(SqlTokens, event, order, <<"nil">>)

\* termMatchesTokens, and the MATCH of ftsMatchExpr.
TermMatches(event, order, term) ==
    ContainsTokens(FtsTokens(event, order), Tokenize(GoTokens, term))
TermFound(event, order, term) ==
    ContainsTokens(FtsText(event, order), Tokenize(SqlTokens, term))

-----------------------------------------------------------------------------
(* The time range. *)

NoRange  == [to |-> NaN, from |-> NaN]
NoBounds == [last |-> 0, from |-> 0, to |-> 0]

\* The lower bound is decided wholly by one source, the expression if it has one.
LowerSource(w, a) == IF w.from # 0 \/ w.last # 0 THEN w ELSE a

\* A relative window ends at the upper bound, or now.
BuildRange(w, a) ==
    LET to    == IF w.to # 0 THEN w.to ELSE a.to
        lower == LowerSource(w, a)
    IN  [to   |-> to,
         from |-> IF lower.from # 0 THEN lower.from
                  ELSE IF lower.last # 0 THEN (IF to = 0 THEN QueryNow ELSE to) - lower.last
                  ELSE 0]

-----------------------------------------------------------------------------
QueryInit ==
    /\ \/ /\ filter \in FilterOps
          /\ value \in Values
          /\ ~IsAttr(filter) => value.kind = "text"
          /\ filter.field = "level" => value.is = Lower[value.is]
          /\ written = NoBounds /\ asked = NoBounds
       \/ /\ filter \in [field : {"text"}, op : {"term"}, value : Terms]
          /\ value \in FullTexts
          /\ written = NoBounds /\ asked = NoBounds
       \/ /\ filter = [field |-> "message", op |-> "exists", value |-> NoText]
          /\ value = [kind |-> "text", is |-> NoText]
          /\ written \in Written /\ asked \in Asked
    /\ tailSays = "unknown" /\ storeSays = "unknown" /\ range = NoRange

Verdict(b) == IF b THEN "yes" ELSE "no"

\* The batch writer publishes the event: does the subscriber get it?
AskTail ==
    /\ tailSays = "unknown"
    /\ IF filter.op = "term"
       THEN \E order \in SetToSeqs(value.attrs) :
              tailSays' = Verdict(TermMatches(value, order, filter.value))
       ELSE tailSays' = Verdict(Matches(filter, value))
    /\ UNCHANGED <<filter, value, storeSays, written, asked, range>>

\* A search with the same filter: does it find the row?
AskStore ==
    /\ storeSays = "unknown"
    /\ IF filter.op = "term"
       THEN \E order \in SetToSeqs(value.attrs) :
              storeSays' = Verdict(TermFound(value, order, filter.value))
       ELSE storeSays' = Verdict(FilterCond(filter, value))
    /\ UNCHANGED <<filter, value, tailSays, written, asked, range>>

Build ==
    /\ range = NoRange
    /\ range' = BuildRange(written, asked)
    /\ UNCHANGED <<filter, value, tailSays, storeSays, written, asked>>

QueryNext == AskTail \/ AskStore \/ Build

QuerySpec == QueryInit /\ [][QueryNext]_queryVars

-----------------------------------------------------------------------------
(* Properties. *)

QueryTypeOK ==
    /\ tailSays \in {"unknown", "yes", "no"}
    /\ storeSays \in {"unknown", "yes", "no"}
    /\ range \in [to : Int, from : Int]

\* Two ways in which a glob is not the same to both: a '*' has to run over the
\* end of a line, or a letter is folded that is not ASCII.
GlobsPart(p, t) ==
    \/ \E u \in Globs[p].all \ Globs[p].inLine : SqlLower[u] = SqlLower[t]
    \/ \E u \in Globs[p].inLine : Folded[u] = Folded[t] /\ SqlLower[u] # SqlLower[t]

\* Where the two evaluations part: a JSON null is a value to the matcher and
\* NULL to SQLite; the matcher takes "1" and "TRUE" for a boolean anywhere, SQL
\* only a JSON boolean, or an attribute's "TRUE", and it folds more letters to
\* tell that the filter names one; Go and SQLite print large numbers, objects and
\* arrays differently, and read differently a text that only begins with a
\* number, or that only Go takes for one ("inf"); a level that is a number only
\* in lower case is one to the matcher.
Parts(f, v) ==
    \/ v.kind = "null"
    \/ /\ f.op \in {"=", "!="} /\ Lower[f.value] \in BoolLiterals
       /\ \/ v.kind # "bool" /\ CompareString(v) \in {"0", "1"}
          \/ ~IsAttr(f)
    \/ f.op \in {"=", "!="} /\ IsAttr(f) /\ IsBoolLiteral(f.value) /\ Lower[f.value] \notin BoolLiterals
    \/ v.kind \in {"number", "nested"} /\ Printed[v.is].go # Printed[v.is].sql
         /\ f.op # "exists" /\ (f.op \in Orderings => GoNumber[f.value] = NaN)
    \/ f.op \in Orderings /\ GoNumber[f.value] # NaN /\ ~IsNull(v)
         /\ SqlNumber[SqlText(v)] # Coerced(CompareString(v))
    \/ f.op \in Orderings /\ GoNumber[f.value] # GoNumber[Norm(f, f.value)]
    \/ f.op = "like" /\ v.kind # "absent" /\ GlobsPart(f.value, CompareString(v))

\* Nor do they agree on a term that finds "nil" in a null attribute, that runs
\* from one attribute into the next, whose order is not fixed, or where a word of
\* the term or of the event is not the same to both tokenizers.
WordsOf(term, event) ==
    Range(term) \cup Range(event.head)
        \cup UNION {Range(a.key) \cup (IF a.value = NoWords THEN {} ELSE Range(a.value)) : a \in event.attrs}

PartsInText(term, event) ==
    \/ \E a \in event.attrs : a.value = NoWords
    \/ \E w \in WordsOf(term, event) : GoTokens[w] # SqlTokens[w]
    \/ \E o, p \in SetToSeqs(event.attrs) :
          TermMatches(event, o, term) # TermMatches(event, p, term)

\* "Live tail and search never disagree" (match.go:44-48): a stream shows an
\* event exactly if a search with the same filter or term finds it, but for Parts.
TailAgreesWithSearch ==
    /\ "unknown" \notin {tailSays, storeSays}
    /\ ~(IF filter.op = "term" THEN PartsInText(filter.value, value) ELSE Parts(filter, value))
    => tailSays = storeSays

\* "A `from=` in the query cannot be half-overridden by a `last=` on the
\* request" (build.go:53-56): with a lower bound in the expression, the lower
\* bounds of the request make no difference.
ExpressionWins ==
    range # NoRange /\ (written.from # 0 \/ written.last # 0) =>
        \A a \in Asked : a.to = asked.to => range = BuildRange(written, a)

\* The same query means the same to a stream and to a search, and in an expression
\* what it means there.
QueryMeansOneThing == TailAgreesWithSearch /\ ExpressionWins
=============================================================================
