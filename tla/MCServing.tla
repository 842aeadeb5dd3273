----------------------------- MODULE MCServing -----------------------------
(***************************************************************************)
(* The parts that serve one request or run one command, checked together:   *)
(* what a request passes (Requests), the limiter (RateLimiter), the secrets *)
(* (AppSecrets), reports and keys (SecurityReports, ProjectKeys), restore   *)
(* (Restore), log files (LogFiles), certificates (Certificates), the layout *)
(* of the database (Schema) and --service (ServiceManager).                 *)
(*                                                                         *)
(* They share no variable, so interleaving them would only multiply their  *)
(* states: part names the one that runs, from any of its initial states,   *)
(* while the others rest.  The behaviours are those of the ten             *)
(* specifications side by side.                                             *)
(***************************************************************************)
EXTENDS Requests, RateLimiter, AppSecrets, SecurityReports, ProjectKeys, Restore, LogFiles,
        Certificates, Schema, ServiceManager

VARIABLE part

Parts == {"requests", "limiter", "secrets", "reports", "keys", "restore", "logs", "certs",
          "schema", "service"}

vars == <<part, requestVars, limiterVars, secretsVars, reportsVars, keysVars, restoreVars,
          logVars, certVars, schemaVars, serviceVars>>

\* The fixed initial state in which a part rests.
RequestsRest ==
    /\ RequestsInit /\ live = [csrf |-> TRUE, secFetch |-> TRUE, allow |-> {},
                                 exempt |-> {}, metrics |-> {}]
    /\ blocked = {} /\ resolved = {}
LimiterRest  == LimiterInit /\ limit = MaxLimit
RestoreRest  ==
    /\ RestoreInit /\ tables = TRUE
    /\ archive = [content |-> "whole", writing |-> FALSE, sum |-> TRUE, enc |-> FALSE]
LogRest      == LogInit /\ logcfg = CHOOSE c \in LogConfigs : TRUE
CertRest     == CertInit /\ tlsMode = [how |-> "off", dual |-> FALSE]
SchemaRest   == SchemaInit /\ layout = {}
ServiceRest  == ServiceInit /\ manager = "systemd"

\* The checks of requests are on at the start, as they are by default; the operator has
\* opened a path and the metrics to somebody and put a proxy in front, or none of it, and
\* keeps both lists of addresses or neither.
Checked ==
    /\ live.csrf /\ live.secFetch
    /\ live.exempt = {} <=> live.metrics = {}
    /\ live.exempt = {} <=> resolved = {}
    /\ live.allow = {} <=> blocked = {}

Starts(p, Init, Rest) == IF part = p THEN Init ELSE Rest

ServingInit ==
    /\ part \in Parts
    /\ Starts("requests", RequestsInit /\ Checked, RequestsRest)
    /\ Starts("limiter", LimiterInit, LimiterRest)
    /\ SecretsInit /\ SecurityReportsInit /\ ProjectKeysInit
    /\ Starts("restore", RestoreInit, RestoreRest)
    /\ Starts("logs", LogInit, LogRest)
    /\ Starts("certs", CertInit, CertRest)
    /\ Starts("schema", SchemaInit, SchemaRest)
    /\ Starts("service", ServiceInit, ServiceRest)

ServingNext ==
    \/ /\ part = "requests" /\ RequestsNext
       /\ UNCHANGED <<part, limiterVars, secretsVars, reportsVars, keysVars, restoreVars,
                      logVars, certVars, schemaVars, serviceVars>>
    \/ /\ part = "limiter" /\ LimiterNext
       /\ UNCHANGED <<part, requestVars, secretsVars, reportsVars, keysVars, restoreVars,
                      logVars, certVars, schemaVars, serviceVars>>
    \/ /\ part = "secrets" /\ SecretsNext
       /\ UNCHANGED <<part, requestVars, limiterVars, reportsVars, keysVars, restoreVars,
                      logVars, certVars, schemaVars, serviceVars>>
    \/ /\ part = "reports" /\ SecurityReportsNext
       /\ UNCHANGED <<part, requestVars, limiterVars, secretsVars, keysVars, restoreVars,
                      logVars, certVars, schemaVars, serviceVars>>
    \/ /\ part = "keys" /\ ProjectKeysNext
       /\ UNCHANGED <<part, requestVars, limiterVars, secretsVars, reportsVars, restoreVars,
                      logVars, certVars, schemaVars, serviceVars>>
    \/ /\ part = "restore" /\ RestoreNext
       /\ UNCHANGED <<part, requestVars, limiterVars, secretsVars, reportsVars, keysVars,
                      logVars, certVars, schemaVars, serviceVars>>
    \/ /\ part = "logs" /\ LogNext
       /\ UNCHANGED <<part, requestVars, limiterVars, secretsVars, reportsVars, keysVars,
                      restoreVars, certVars, schemaVars, serviceVars>>
    \/ /\ part = "certs" /\ CertNext
       /\ UNCHANGED <<part, requestVars, limiterVars, secretsVars, reportsVars, keysVars,
                      restoreVars, logVars, schemaVars, serviceVars>>
    \/ /\ part = "schema" /\ SchemaNext
       /\ UNCHANGED <<part, requestVars, limiterVars, secretsVars, reportsVars, keysVars,
                      restoreVars, logVars, certVars, serviceVars>>
    \/ /\ part = "service" /\ ServiceNext
       /\ UNCHANGED <<part, requestVars, limiterVars, secretsVars, reportsVars, keysVars,
                      restoreVars, logVars, certVars, schemaVars>>

ServingSpec == ServingInit /\ [][ServingNext]_vars

----------------------------------------------------------------------------
\* The requests clients send, each for one of the decisions on the way.
Base == [peer |-> "c1", claims |-> "none", method |-> "GET", route |-> "view",
         path |-> "plain", site |-> "other", ours |-> FALSE, frame |-> FALSE,
         navigate |-> FALSE, upgrade |-> FALSE, bearer |-> "none", cookie |-> "none",
         submitted |-> "none"]

Form == [Base EXCEPT !.method = "POST", !.route = "pastes", !.cookie = "valid"]

Framed == [Base EXCEPT !.site = "cross", !.frame = TRUE]

MCKinds ==
    { Base,
      [Base EXCEPT !.path = "slash"], [Base EXCEPT !.path = "dots"],
      [Base EXCEPT !.method = "OPTIONS"],
      [Base EXCEPT !.peer = "lan", !.claims = "c1"],
      [Base EXCEPT !.peer = "proxy", !.claims = "c1"],
      [Base EXCEPT !.claims = "c2"],
      [Base EXCEPT !.peer = "local", !.route = "metrics"],
      [Base EXCEPT !.peer = "lan", !.route = "metrics"],
      [Base EXCEPT !.peer = "proxy", !.claims = "c2", !.route = "metrics"],
      [Base EXCEPT !.route = "remove", !.method = "DELETE"],
      [Base EXCEPT !.route = "scheduler", !.method = "POST", !.bearer = "good"],
      [Base EXCEPT !.route = "scheduler", !.method = "POST", !.bearer = "bad"],
      Framed, [Framed EXCEPT !.route = "emb"],
      [Form EXCEPT !.submitted = "cookie"],
      [Form EXCEPT !.ours = TRUE, !.submitted = "other", !.navigate = TRUE],
      [Form EXCEPT !.submitted = "other"],
      [Form EXCEPT !.upgrade = TRUE],
      [Form EXCEPT !.cookie = "invalid", !.submitted = "cookie"],
      [Form EXCEPT !.site = "cross"],
      [Form EXCEPT !.site = "cross", !.route = "upload"],
      [Form EXCEPT !.site = "cross", !.cookie = "none"],
      [Form EXCEPT !.ours = TRUE, !.navigate = TRUE, !.route = "apiNew"] }

\* Entries of server.logs: held or appended to by others, rotation, retention.
Entry(isHeld, daily, max, keep, n, compress, external) ==
    [held |-> isHeld, daily |-> daily, maxSize |-> max, keep |-> keep, n |-> n,
     compress |-> compress, external |-> external]

MCLogConfigs ==
    { Entry(TRUE, TRUE, 1, "count", 1, FALSE, FALSE),
      Entry(TRUE, TRUE, 0, "age", 1, FALSE, FALSE),
      Entry(TRUE, FALSE, 1, "none", 0, FALSE, FALSE),
      Entry(TRUE, TRUE, 0, "forever", 0, FALSE, TRUE),
      Entry(TRUE, FALSE, 1, "count", 0, FALSE, TRUE),
      Entry(FALSE, TRUE, 2, "forever", 0, FALSE, FALSE),
      Entry(FALSE, TRUE, 0, "count", 1, TRUE, FALSE),
      Entry(FALSE, TRUE, 1, "count", 1, FALSE, FALSE),
      Entry(FALSE, TRUE, 0, "none", 0, FALSE, FALSE) }

\* A new file, files of versions before and after burn_after, a current one.
MCOldLayouts ==
    { {}, {"pastes"}, {"pastes", "burn_after"},
      {"pastes", "burn_after", "content_type", "scheduler", "secrets", "reports"}, Complete }

=============================================================================
