-------------------------------- MODULE Edge --------------------------------
(***************************************************************************)
(* The edges of the server: what comes in (Syslog, Otlp), the client that  *)
(* sends it (Sdk), and what is read (Tail, Search, Query).  These          *)
(* components share no state: one of them is chosen at the start and runs, *)
(* the others rest in one initial state, in which the fairness of none of  *)
(* them asks for a step.                                                   *)
(***************************************************************************)
EXTENDS Tail, Search, Query, Syslog, Otlp, Sdk

VARIABLE part

edgeVars == <<part, tailVars, searchVars, queryVars, syslogVars, otlpVars, sdkVars>>

-----------------------------------------------------------------------------
EdgeInit ==
    /\ part \in {"tail", "search", "query", "syslog", "otlp", "sdk"}
    /\ TailInit /\ SyslogInit /\ SdkInit
    /\ part = "search" \/ version = Latest + 1
    /\ SearchInit
    /\ \/ part = "query"
       \/ /\ filter = [field |-> "message", op |-> "exists", value |-> NoText]
          /\ value = [kind |-> "text", is |-> NoText]
          /\ written = NoBounds /\ asked = NoBounds
    /\ QueryInit
    /\ part = "otlp" \/ export = CHOOSE x \in Exports : TRUE
    /\ OtlpInit

EdgeNext ==
    /\ \/ part = "tail"   /\ TailNext   /\ UNCHANGED <<searchVars, queryVars, syslogVars, otlpVars, sdkVars>>
       \/ part = "search" /\ SearchNext /\ UNCHANGED <<tailVars, queryVars, syslogVars, otlpVars, sdkVars>>
       \/ part = "query"  /\ QueryNext  /\ UNCHANGED <<tailVars, searchVars, syslogVars, otlpVars, sdkVars>>
       \/ part = "syslog" /\ SyslogNext /\ UNCHANGED <<tailVars, searchVars, queryVars, otlpVars, sdkVars>>
       \/ part = "otlp"   /\ OtlpNext   /\ UNCHANGED <<tailVars, searchVars, queryVars, syslogVars, sdkVars>>
       \/ part = "sdk"    /\ SdkNext    /\ UNCHANGED <<tailVars, searchVars, queryVars, syslogVars, otlpVars>>
    /\ UNCHANGED part

EdgeSpec ==
    /\ EdgeInit /\ [][EdgeNext]_edgeVars
    /\ TailFairness /\ SearchFairness /\ SyslogFairness /\ SdkFairness

-----------------------------------------------------------------------------
EdgeTypeOK == TailTypeOK /\ SearchTypeOK /\ QueryTypeOK /\ SyslogTypeOK /\ OtlpTypeOK /\ SdkTypeOK

\* Nobody waits for a client that is slow or never leaves: Publish returns, the
\* streams end at a shutdown, a search is answered while exports stream, the
\* syslog server stops while senders are connected, and the client's Close
\* returns (hub.go:77-80, sse.go:33-37, export.go:14-17, server.go:129,
\* client.go:174-181).
NobodyWaits == PublishReturns /\ StreamsEnd /\ SearchAnswered /\ StopReturns /\ CloseReturns
=============================================================================
