-------------------------------- MODULE MCEdge --------------------------------
(***************************************************************************)
(* The edges of the server (Edge) on small instances.                      *)
(***************************************************************************)
EXTENDS Edge

CONSTANTS c1, c2

-----------------------------------------------------------------------------
(* Tail: of three events one is not wanted; IDs and stamps differ in order. *)

MCStamp == <<3, 1, 2>>

(* Search: of three events two have the same time; a database of an older *)
(* version has an index that is right, one that is not, or none.          *)

MCLogTime == <<1, 1, 2>>
MCOldRows == <<1, 2>>
MCOldIndexes == {MCOldRows, 2 :> 1 @@ 3 :> 2, NoRows}

KeyValue(k, v) == [key |-> k, value |-> v]

(* Query: texts in their byte order, with what Go and SQLite read in them. *)
(* Letters that are not ASCII are spelt out: Go and (?i) fold the acute    *)
(* ones, and a long s to s; "Infinity" with a dotted I is a number to Go   *)
(* only in lower case.  A ";" ends a line.                                 *)

InByteOrder == <<"", "0", "1", "1000000", "12x", "1e+06", "5", "A", "TRUE", "[1]", "a", "a;b", "false",
                 "fal(long s)e", "inf", "map[a:1]", "true", "{a:1}", "E(acute)", "e(acute)", "dotted Inf">>
MCTexts == ToSet(InByteOrder)
MCByteOrder == [t \in MCTexts |-> CHOOSE i \in DOMAIN InByteOrder : InByteOrder[i] = t]
MCSqlLower == [t \in MCTexts |-> CASE t = "A" -> "a" [] t = "TRUE" -> "true" [] OTHER -> t]
MCLower == [t \in MCTexts |-> CASE t = "dotted Inf" -> "inf" [] t = "E(acute)" -> "e(acute)" [] OTHER -> MCSqlLower[t]]
MCFolded ==
    [t \in MCTexts |-> CASE t = "fal(long s)e" -> "false" [] t = "E(acute)" -> "e(acute)" [] OTHER -> MCSqlLower[t]]
MCGoNumber ==
    [t \in MCTexts |-> CASE t = "0" -> 0 [] t = "1" -> 1 [] t = "5" -> 5
                         [] t \in {"1000000", "1e+06"} -> 1000 [] t = "inf" -> 9999 [] OTHER -> NaN]
MCSqlNumber ==
    [t \in MCTexts |-> IF t = "12x" THEN 12 ELSE IF MCGoNumber[t] = NaN \/ t = "inf" THEN 0 ELSE MCGoNumber[t]]
Glob(across, within) == [all |-> across \cup within, inLine |-> within]
MCGlobs ==
    "a*" :> Glob({"a;b"}, {"a"}) @@ "1*" :> Glob({}, {"1", "1000000", "12x", "1e+06"}) @@ "*b" :> Glob({"a;b"}, {})
    @@ "E(acute)*" :> Glob({}, {"E(acute)"}) @@ "map*" :> Glob({}, {"map[a:1]"})
MCRegexes == "^a" :> {"a", "a;b"} @@ "1" :> {"1", "1000000", "12x", "1e+06", "[1]", "map[a:1]", "{a:1}"}
Shown(go, sql) == [go |-> go, sql |-> sql]
MCPrinted ==
    0 :> Shown("0", "0") @@ 1 :> Shown("1", "1") @@ 5 :> Shown("5", "5") @@ 1000 :> Shown("1e+06", "1000000")
    @@ 90 :> Shown("[1]", "[1]") @@ 91 :> Shown("map[a:1]", "{a:1}")
MCFilterOps ==
    LET fields == {"attr", "level", "message"}
    IN  [field : fields, op : {"=", "!=", "<"}, value : MCTexts]
        \cup [field : fields, op : {"like"}, value : DOMAIN MCGlobs]
        \cup [field : fields, op : {"regex"}, value : DOMAIN MCRegexes]
        \cup [field : fields, op : {"exists"}, value : {""}]
        \cup [field : fields, op : {"in"}, value : {{"A", "1"}, {"a", "true"}}]
MCValues ==
    [kind : {"text"}, is : MCTexts] \cup [kind : {"number"}, is : {0, 1, 5, 1000}]
    \cup [kind : {"nested"}, is : {90, 91}]
    \cup [kind : {"bool"}, is : BOOLEAN] \cup [kind : {"null", "absent"}, is : {""}]
MCTokens == {"con", "connect", "user", "nil", "5", "cafe", "caf(e acute)"}
MCSqlTokens ==
    [w \in {"con", "connect", "user", "nil", "5", "user-5", "cafe", "caf(e acute)"} |->
        CASE w = "user-5" -> <<"user", "5">> [] w = "caf(e acute)" -> <<"cafe">> [] OTHER -> <<w>>]
MCGoTokens == "caf(e acute)" :> <<"caf(e acute)">> @@ MCSqlTokens
MCBeginning == [t \in MCTokens |-> {t} \cup IF t = "con" THEN {"connect"} ELSE {}]
MCTerms == {<<>>, <<"con">>, <<"connect">>, <<"user", "con">>, <<"con", "user">>, <<"connect", "user">>,
            <<"user-5">>, <<"nil">>, <<"5", "user">>, <<"cafe">>}
MCFullTexts ==
    [head : {<<>>, <<"con", "user">>, <<"connect">>, <<"caf(e acute)">>, <<"user-5", "con">>},
     attrs : {{}, {KeyValue(<<"user">>, <<"5">>)}, {KeyValue(<<"user">>, NoWords)},
              {KeyValue(<<"user">>, <<"5">>), KeyValue(<<"connect">>, <<>>)}}]
MCWritten == [last : {0, 1}, from : {0, 1}, to : {0, 1}]
MCAsked == [last : {0, 2}, from : {0, 2}, to : {0, 2}]

(* Syslog: structured data with everything that is quoted or escaped, a   *)
(* BSD message, and a line that is none, with a newline in it.            *)

Log(form, source, service, procid, elements, text) ==
    [form |-> form, source |-> source, service |-> service, procid |-> procid,
     elements |-> elements, text |-> text]
MCMessages == {
    Log("5424", <<>>, <<"app">>, <<"7">>,
        <<[id |-> "a", params |-> <<KeyValue("k", <<"x", "]", " ", "y">>),
                                    KeyValue("q", <<"\"", "=", "[">>)>>],
          [id |-> "b", params |-> <<>>]>>,
        <<"[", "not", "]", " ", "data">>),
    Log("3164", <<"gw">>, <<"cron">>, <<"9">>, <<>>, <<"done", ":", " ", "ok">>),
    Log("plain", <<>>, <<>>, <<>>, <<>>, <<"oops", "\n", "at">>)}
MCNumerals == [n \in 0..120 |-> ToString(n)]
MCPriorities == {"<13>"}
MCStamps == {"Oct 11 22:14:15"}

(* Otlp: the resource before, after and around its records, in one, two   *)
(* and three ResourceLogs and frames, up to and beyond the limit.         *)

Res(kvs) == [tag |-> "resource", is |-> kvs]
Rec(n, kvs) ==
    [tag |-> "record", is |-> [id |-> n, attrs |-> kvs, number |-> 0, text |-> "", time |-> 0, seen |-> 0]]
Scopes(fields) == [tag |-> "scopes", is |-> fields]
TwoRecords == Scopes(<<Rec(1, <<KeyValue("zone", "x")>>), [tag |-> "scope", is |-> "lib"], Rec(2, <<>>)>>)
OneRecord == Scopes(<<Rec(3, <<KeyValue("", "lost")>>)>>)
Shop == Res(<<KeyValue("service.name", ""), KeyValue("k8s", "shop"), KeyValue("zone", "eu")>>)
Zones == Res(<<KeyValue("zone", "us"), KeyValue("zone", "ap")>>)
FirstLogs == {<<Shop, TwoRecords>>, <<TwoRecords, Shop>>, <<Zones, TwoRecords, Shop>>}
SecondLogs == {<<OneRecord, Zones>>, <<OneRecord>>}
MCFrames ==
    {<<<<a>>>> : a \in FirstLogs} \cup {<<<<a>>, <<Garbage>>>> : a \in FirstLogs} \cup {<<<<Garbage>>>>}
    \cup UNION {{<<<<a, b>>>>, <<<<a>>, <<b>>>>, <<<<a, b, <<>>>>>>, <<<<a, b>>, <<<<>>>>>>} :
                    a \in FirstLogs, b \in SecondLogs}
MCExports ==
    {x \in [via : {"http", "grpc"}, frames : MCFrames, authorized : BOOLEAN, gzip : BOOLEAN] :
        x.via = "http" => Len(x.frames) = 1}
MCServiceKeys == <<"service.name", "k8s">>
MCHostKeys == <<"host">>
=============================================================================
