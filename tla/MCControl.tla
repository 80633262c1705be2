------------------------------ MODULE MCControl ------------------------------
(***************************************************************************)
(* The components an operator steers or watches (Control) on small         *)
(* instances.                                                              *)
(***************************************************************************)
EXTENDS Control

CONSTANTS c1, nan

-----------------------------------------------------------------------------
(* Alerts: a rule whose threshold falls below, one of the opposite         *)
(* direction that is disabled; results with and without a measure.         *)

Definition5(name, op, enabled) ==
    [name |-> name, cond |-> [op |-> op, value |-> 5], channels |-> <<c1>>, enabled |-> enabled]
MCDefinitions == {Definition5("a", "lt", TRUE), Definition5("b", "gt", FALSE)}
MCResults == {<<nan, 9>>, <<9, 1>>}

(* Settings. *)

MCBase == [rate |-> 2, retention |-> 7]

(* Pipelines: one that extracts, captures a group that takes no part, and  *)
(* ends there if its pattern does not match; one that matches errors only, *)
(* alone in its order or not; one that is disabled and one that does not   *)
(* compile.  One event arrives with an attribute that is empty.            *)

Stage(type, field, to) ==
    [type |-> type, field |-> field, to |-> to, value |-> to, fields |-> {to},
     pattern |-> "line", failPipeline |-> FALSE]
Extracting ==
    [match |-> <<>>, enabled |-> TRUE, order |-> 1, compiles |-> TRUE, created |-> 0,
     stages |-> <<Stage("rename", "u", "v"), Stage("service", "v", ""),
                  [Stage("extract", "message", "") EXCEPT !.failPipeline = TRUE],
                  Stage("timestamp", "t", ""), Stage("remove", "u", "t")>>]
OfErrors ==
    [match |-> <<"level", "error">>, enabled |-> TRUE, order |-> 1, compiles |-> TRUE, created |-> 0,
     stages |-> <<Stage("level", "service", ""), Stage("service", "message", ""), Stage("set", "", "u")>>]
Broken == [OfErrors EXCEPT !.compiles = FALSE]
MCPipes == {Extracting, OfErrors, Broken, [OfErrors EXCEPT !.order = 0],
            [Extracting EXCEPT !.enabled = FALSE]}
MCNothing == [i \in PipelineIds |-> NoPipe]
MCSavedBefore == {MCNothing, [MCNothing EXCEPT ![1] = CreatedAt(Broken, 1)],
                  [MCNothing EXCEPT ![1] = CreatedAt(Extracting, 1), ![2] = CreatedAt(OfErrors, 2)]}

Arriving(message, service, level) ==
    [message |-> message, service |-> service, level |-> level, time |-> 0,
     attrs |-> [k \in {} |-> ""]]
MCArrivals == {Arriving("error 12", "api", "info"), Arriving("12", "", "error"),
               [Arriving("", "api", "error") EXCEPT !.attrs = [k \in {"u"} |-> ""]]}
MCPipeTexts == {"", "error 12", "12", "error", "api", "info", "u"}
MCCaptured ==
    [p \in {"line"} |-> [t \in {"error 12"} |->
        [k \in {"level", "t", "message"} |->
            CASE k = "level" -> "error" [] k = "t" -> "12" [] OTHER -> ""]]]
MCPrinted == [t \in {"12"} |-> t]
MCTimeIn == [t \in {"12"} |-> 12]
MCLevelIn == [t \in MCPipeTexts |-> IF t = "error" THEN "error" ELSE "info"]

(* Metrics: one sample in each bucket, and one above them. *)

MCBounds == <<1, 3>>
=============================================================================
