----------------------------- MODULE MCServices -----------------------------
(***************************************************************************)
(* What runs beside the requests as long as the process lives, checked       *)
(* together: the maintenance monitor (HealthMonitor), the configuration and  *)
(* its watcher (ConfigStore), start and shutdown (ServerProcess) and the     *)
(* webhooks (Webhooks).                                                      *)
(*                                                                         *)
(* They share no variable, so interleaving them would only multiply their  *)
(* states: part names the one that runs, from any of its initial states and *)
(* with its own fairness, while the others rest.                            *)
(***************************************************************************)
EXTENDS HealthMonitor, ConfigStore, ServerProcess, Webhooks

VARIABLE part

Parts == {"monitor", "config", "process", "hooks"}

vars == <<part, monitorVars, configVars, processVars, hooksVars>>

\* The fixed initial state in which a part rests.
MonitorRest ==
    /\ MonitorInit /\ ~mcfg.selfHealing /\ mcfg.maxAttempts = 0
    /\ world = [db |-> TRUE, disk |-> TRUE, junk |-> FALSE]
ConfigRest  == ConfigInit /\ file = Absent /\ envMode = "none" /\ flagPort = "none"
ProcessRest == ProcessInit /\ pidFile = 0

Starts(p, Init, Rest) == IF part = p THEN Init ELSE Rest

ServicesInit ==
    /\ part \in Parts
    /\ Starts("monitor", MonitorInit, MonitorRest)
    /\ Starts("config", ConfigInit, ConfigRest)
    /\ Starts("process", ProcessInit, ProcessRest)
    /\ WebhooksInit

ServicesNext ==
    \/ /\ part = "monitor" /\ MonitorNext
       /\ UNCHANGED <<part, configVars, processVars, hooksVars>>
    \/ /\ part = "config" /\ ConfigNext
       /\ UNCHANGED <<part, monitorVars, processVars, hooksVars>>
    \/ /\ part = "process" /\ ProcessNext
       /\ UNCHANGED <<part, monitorVars, configVars, hooksVars>>
    \/ /\ part = "hooks" /\ WebhooksNext
       /\ UNCHANGED <<part, monitorVars, configVars, processVars>>

\* The fairness of the four specifications, each for the part that runs.
ServicesFair ==
    /\ WF_monitorVars(part = "monitor" /\ TickStep)
    /\ WF_configVars(part = "config" /\ SrvStep)
    /\ \A i \in Inst : WF_processVars(/\ part = "process" /\ (StartStep(i) \/ StopStep(i))
                                     /\ UNCHANGED namesakes)
    /\ \A n \in Notices : WF_hooksVars(part = "hooks" /\ Deliver(n))

ServicesSpec == ServicesInit /\ [][ServicesNext]_vars /\ ServicesFair

----------------------------------------------------------------------------
MCMonitorConfigs ==
    [selfHealing : BOOLEAN, maxAttempts : {0, 1}, onEnter : {TRUE}, onExit : {TRUE}]

OneHost == [n \in Notices |-> "h"]
=============================================================================
