----------------------------- MODULE MCUpkeep -----------------------------
(***************************************************************************)
(* What the scheduler and the background goroutines keep up, checked          *)
(* together: hidden services (HiddenService), updates (Updater), the times   *)
(* of the tasks (Cron) and the GeoIP databases (GeoDatabases).               *)
(*                                                                         *)
(* As in MCServices, part names the one that runs while the others rest.     *)
(***************************************************************************)
EXTENDS HiddenService, Updater, MCCron, GeoDatabases

VARIABLE part

Parts == {"hidden", "updater", "cron", "geo"}

vars == <<part, hiddenVars, updateVars, cronVars, geoVars>>

\* The fixed initial state in which a part rests.
HiddenRest  == HiddenInit /\ kind = "sam"
UpdaterRest == UpdaterInit /\ branch = "stable" /\ autoInstall
CronRest    == cron = [kind |-> "every", d |-> 3] /\ from = 0 /\ next = 3 /\ search = "found"

Starts(p, Init, Rest) == IF part = p THEN Init ELSE Rest

UpkeepInit ==
    /\ part \in Parts
    /\ Starts("hidden", HiddenInit, HiddenRest)
    /\ Starts("updater", UpdaterInit, UpdaterRest)
    /\ Starts("cron", CronInit, CronRest)
    /\ GeoInit

UpkeepNext ==
    \/ /\ part = "hidden" /\ HiddenNext
       /\ UNCHANGED <<part, updateVars, cronVars, geoVars>>
    \/ /\ part = "updater" /\ UpdaterNext
       /\ UNCHANGED <<part, hiddenVars, cronVars, geoVars>>
    \/ /\ part = "cron" /\ CronNext
       /\ UNCHANGED <<part, hiddenVars, updateVars, geoVars>>
    \/ /\ part = "geo" /\ GeoNext
       /\ UNCHANGED <<part, hiddenVars, updateVars, cronVars>>

\* The fairness of the four specifications, each for the part that runs.
UpkeepFair ==
    /\ \A a \in Actors : WF_hiddenVars(part = "hidden" /\ Proceeds(a))
    /\ WF_hiddenVars(part = "hidden" /\ AfterStart)
    /\ WF_hiddenVars(part = "hidden" /\ (MonitorLook \/ MonitorProbe))
    /\ WF_hiddenVars(part = "hidden" /\ HealthCheck)
    /\ WF_hiddenVars(part = "hidden" /\ Close)
    /\ WF_updateVars(part = "updater" /\ UpdateCheckRuns)
    /\ WF_updateVars(part = "updater" /\ UpdateDayPasses)
    /\ \A a \in Updaters : WF_updateVars(part = "updater" /\ UpdaterStep(a))
    /\ WF_updateVars(part = "updater" /\ ClientStep)
    /\ WF_cronVars(part = "cron" /\ CronNext)
    /\ WF_geoVars(part = "geo" /\ GeoWork)
    /\ \A l \in Lookups : /\ WF_geoVars(part = "geo" /\ LookupDone(l))
                          /\ WF_geoVars(part = "geo" /\ LookupLock(l))

UpkeepSpec == UpkeepInit /\ [][UpkeepNext]_vars /\ UpkeepFair

----------------------------------------------------------------------------
\* The tags v1.0.9, 1.0.10-beta and 1.0.10, built as 1.0.9, 1.0.10-beta and 1.0.10.
Channels   == <<"stable", "beta", "stable">>
PlainTags  == <<FALSE, TRUE, TRUE>>
Number(n, t) == [numeric |-> TRUE, value |-> n, text |-> t]
Text(t)      == [numeric |-> FALSE, value |-> 0, text |-> t]
Patches    == <<Number(9, 5), Text(4), Number(10, 3)>>
Versions   == [r \in 1 .. 3 |-> <<Number(1, 2), Number(0, 1), Patches[r]>>]
TwoDBs   == <<"asn", "country">>
=============================================================================
