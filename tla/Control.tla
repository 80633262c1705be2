------------------------------ MODULE Control -------------------------------
(***************************************************************************)
(* The components an operator steers or watches: alert rules (Alerts),     *)
(* runtime settings and the limiter that follows them (Settings), ingest   *)
(* pipelines (Pipelines) and the metrics registry (Metrics).  They share   *)
(* no state: one of them is chosen at the start and runs, the others rest  *)
(* in one initial state.                                                   *)
(***************************************************************************)
EXTENDS Alerts, Settings, Pipelines, Metrics

VARIABLE part

controlVars == <<part, alertVars, settingsVars, pipelineVars, metricsVars>>

-----------------------------------------------------------------------------
ControlInit ==
    /\ part \in {"alerts", "settings", "pipelines", "metrics"}
    /\ AlertInit /\ SettingsInit /\ MetricsInit
    /\ part = "pipelines" \/ saved = [i \in PipelineIds |-> NoPipe]
    /\ PipelineInit

ControlNext ==
    /\ \/ part = "alerts"    /\ AlertNext    /\ UNCHANGED <<settingsVars, pipelineVars, metricsVars>>
       \/ part = "settings"  /\ SettingsNext /\ UNCHANGED <<alertVars, pipelineVars, metricsVars>>
       \/ part = "pipelines" /\ PipelineNext /\ UNCHANGED <<alertVars, settingsVars, metricsVars>>
       \/ part = "metrics"   /\ MetricsNext  /\ UNCHANGED <<alertVars, settingsVars, pipelineVars>>
    /\ UNCHANGED part

\* Only the scheduler has to act; where it rests nothing is asked of it.
ControlSpec ==
    /\ ControlInit /\ [][ControlNext]_controlVars
    /\ part # "alerts" \/ AlertFairness

-----------------------------------------------------------------------------
\* What the components hold has its type; a bucket of the limiter never holds
\* more than its burst (admission.go:139-144).
ControlTypeOK == AlertTypeOK /\ SettingsTypeOK /\ PipelineTypeOK
=============================================================================
