----------------------------- MODULE AppSecrets -----------------------------
(***************************************************************************)
(* The secrets in table app_secrets (EnsureAppSecret in                    *)
(* database/database.go) and what the server signs with them: the CSRF     *)
(* cookie, the answer token of the built-in captcha and the rotating       *)
(* security_id.                                                             *)
(*                                                                         *)
(* A process that starts calls EnsureAppSecret twice: once to make sure the *)
(* row exists (the result is dropped) and once to cache the value.  Each   *)
(* call is a SELECT, then on an empty table an INSERT, then on a conflict a *)
(* second SELECT; another process may work on the same table in between,   *)
(* and with Faults every statement may fail.                               *)
(*                                                                         *)
(* The two secrets differ only in their key, so one stands for both.  An   *)
(* HMAC is injective in its key: a token is the secret it was made with    *)
(* and the time it was made.                                                *)
(***************************************************************************)
EXTENDS Naturals, FiniteSets

CONSTANTS
    Procs,       \* processes that open the database: servers, the command line
    Secrets,     \* values crypto/rand may return, never the same one twice
    NoSecret,
    CaptchaTTL,  \* captchaTTL
    IDWindow,    \* securityIDWindow
    SecretsMaxTime,
    Faults       \* may a statement fail?

ASSUME SecretsAssumption ==
    /\ NoSecret \notin Secrets
    /\ CaptchaTTL \in Nat /\ SecretsMaxTime \in Nat
    /\ IDWindow \in Nat \ {0}
    /\ Faults \in BOOLEAN

VARIABLES
    secretRow,   \* the value in app_secrets, NoSecret while there is no row
    booting,     \* per process: position in its startup
    generated,   \* per process: the random bytes it is about to insert
    csrfSecret,  \* per process: the value cached in Server
    drawn,       \* the values crypto/rand has returned so far
    clock,
    held,        \* the token a browser last got with a page
    verdict      \* outcome of the last submitted token

secretsVars == <<secretRow, booting, generated, csrfSecret, drawn, clock, held, verdict>>

Tokens == [kind : {"csrf", "captcha", "security_id"}, key : Secrets \cup {NoSecret},
           made : 0..SecretsMaxTime]

NoToken == [kind |-> "none"]

NoVerdict == [outcome |-> "none"]

SecretsTypeOK ==
    /\ secretRow \in Secrets \cup {NoSecret}
    /\ booting \in [Procs -> {"down", "ensure", "ensureInsert", "ensureReread",
                              "load", "loadInsert", "loadReread", "up"}]
    /\ generated \in [Procs -> Secrets \cup {NoSecret}]
    /\ csrfSecret \in [Procs -> Secrets \cup {NoSecret}]
    /\ drawn \subseteq Secrets
    /\ clock \in 0..SecretsMaxTime
    /\ held \in Tokens \cup {NoToken}
    /\ \/ verdict = NoVerdict
       \/ verdict \in [outcome : {"accepted", "rejected"}, token : Tokens,
                       keyed : BOOLEAN, time : 0..SecretsMaxTime]

SecretsInit ==
    /\ secretRow = NoSecret
    /\ booting = [p \in Procs |-> "down"]
    /\ generated = [p \in Procs |-> NoSecret]
    /\ csrfSecret = [p \in Procs |-> NoSecret]
    /\ drawn = {}
    /\ clock = 0
    /\ held = NoToken
    /\ verdict = NoVerdict

----------------------------------------------------------------------------
\* The first call of EnsureAppSecret moves on to the second, whose result is
\* kept; an error of the first is logged, an error of the second leaves the
\* cached secret empty.
AfterEnsure(p, result) ==
    IF booting[p] \in {"ensure", "ensureInsert", "ensureReread"}
    THEN /\ booting' = [booting EXCEPT ![p] = "load"]
         /\ UNCHANGED csrfSecret
    ELSE /\ booting' = [booting EXCEPT ![p] = "up"]
         /\ csrfSecret' = [csrfSecret EXCEPT ![p] = result]

ProcessStart(p) ==
    /\ booting[p] = "down"
    /\ booting' = [booting EXCEPT ![p] = "ensure"]
    /\ UNCHANGED <<secretRow, generated, csrfSecret, drawn, clock, held, verdict>>

\* The first SELECT; ErrNoRows leads to the random bytes and the INSERT.
EnsureSelect(p) ==
    /\ booting[p] \in {"ensure", "load"}
    /\ \/ /\ \/ secretRow # NoSecret /\ AfterEnsure(p, secretRow)
             \/ Faults /\ AfterEnsure(p, NoSecret)
          /\ UNCHANGED <<generated, drawn>>
       \/ /\ secretRow = NoSecret
          /\ \E s \in Secrets \ drawn :
                /\ generated' = [generated EXCEPT ![p] = s]
                /\ drawn' = drawn \cup {s}
          /\ booting' = [booting EXCEPT ![p] =
                IF @ = "ensure" THEN "ensureInsert" ELSE "loadInsert"]
          /\ UNCHANGED csrfSecret
    /\ UNCHANGED <<secretRow, clock, held, verdict>>

\* The INSERT: it succeeds on an empty table, conflicts with the primary key
\* otherwise, and may fail; every error leads to the second SELECT.
EnsureInsert(p) ==
    /\ booting[p] \in {"ensureInsert", "loadInsert"}
    /\ \/ /\ secretRow = NoSecret
          /\ secretRow' = generated[p]
          /\ AfterEnsure(p, generated[p])
       \/ /\ secretRow # NoSecret \/ Faults
          /\ booting' = [booting EXCEPT ![p] =
                IF @ = "ensureInsert" THEN "ensureReread" ELSE "loadReread"]
          /\ UNCHANGED <<secretRow, csrfSecret>>
    /\ UNCHANGED <<generated, drawn, clock, held, verdict>>

\* Mutated form: the process that lost keeps its own secret.
EnsureRereadKeepsOwn(p) ==
    /\ booting[p] \in {"ensureReread", "loadReread"}
    /\ AfterEnsure(p, generated[p])
    /\ UNCHANGED <<secretRow, generated, drawn, clock, held, verdict>>

\* The second SELECT: the row of the process that won, or the error.
EnsureReread(p) ==
    /\ booting[p] \in {"ensureReread", "loadReread"}
    /\ \/ AfterEnsure(p, secretRow)
       \/ Faults /\ AfterEnsure(p, NoSecret)
    /\ UNCHANGED <<secretRow, generated, drawn, clock, held, verdict>>

\* The process ends or is killed anywhere; the table survives it.
ProcessEnds(p) ==
    /\ booting[p] # "down"
    /\ booting' = [booting EXCEPT ![p] = "down"]
    /\ csrfSecret' = [csrfSecret EXCEPT ![p] = NoSecret]
    /\ generated' = [generated EXCEPT ![p] = NoSecret]
    /\ UNCHANGED <<secretRow, drawn, clock, held, verdict>>

----------------------------------------------------------------------------
\* generateCSRFToken (only with a secret: csrfMiddleware is off without one),
\* generateSimpleCaptcha (signs with whatever is cached) and currentSecurityID
\* (empty without a secret).
HandOut(p, kind) ==
    /\ booting[p] = "up"
    /\ kind # "captcha" => csrfSecret[p] # NoSecret
    /\ held' = [kind |-> kind, key |-> csrfSecret[p], made |-> clock]
    /\ verdict' = NoVerdict
    /\ UNCHANGED <<secretRow, booting, generated, csrfSecret, drawn, clock>>

\* validateCSRFToken, validateSimpleCaptcha and validSecurityID.  A security_id
\* is that of the window it was computed in; this window's and the previous
\* one's are accepted.
ValidToken(p, t) ==
    /\ t.key = csrfSecret[p]
    /\ t.kind = "captcha" => clock <= t.made + CaptchaTTL
    /\ t.kind = "security_id" =>
          /\ csrfSecret[p] # NoSecret
          /\ (t.made \div IDWindow) \in {clock \div IDWindow, (clock \div IDWindow) - 1}

\* A form comes back.  Without a secret csrfMiddleware lets everything through.
Submit(p, t) ==
    /\ booting[p] = "up" /\ t # NoToken
    /\ verdict' = [outcome |-> IF \/ ValidToken(p, t)
                                  \/ t.kind = "csrf" /\ csrfSecret[p] = NoSecret
                               THEN "accepted" ELSE "rejected",
                   token |-> t, keyed |-> csrfSecret[p] # NoSecret, time |-> clock]
    /\ UNCHANGED <<secretRow, booting, generated, csrfSecret, drawn, clock, held>>

SecretsTime ==
    /\ clock < SecretsMaxTime
    /\ clock' = clock + 1 /\ verdict' = NoVerdict
    /\ UNCHANGED <<secretRow, booting, generated, csrfSecret, drawn, held>>

SecretsNext ==
    \/ \E p \in Procs :
          \/ ProcessStart(p) \/ EnsureSelect(p) \/ EnsureInsert(p) \/ EnsureReread(p)
          \/ ProcessEnds(p)
          \/ \E kind \in {"csrf", "captcha", "security_id"} : HandOut(p, kind)
          \/ Submit(p, held)
    \/ SecretsTime

SecretsSpec == SecretsInit /\ [][SecretsNext]_secretsVars

----------------------------------------------------------------------------
\* A process that cached a secret cached the one in the table, although two
\* processes may have generated one each on an empty database: otherwise they
\* would not accept each other's tokens, nor their own after a restart.
OneSecret == \A p \in Procs : csrfSecret[p] # NoSecret => csrfSecret[p] = secretRow

\* A token signed with a secret keeps working on every process that has its
\* secret, across restarts: a CSRF cookie for ever, a captcha for its ten
\* minutes, a security_id for at least one whole window after it was shown.
TokensKeepWorking ==
    (verdict.outcome = "rejected") =>
        LET t == verdict.token IN
        \/ t.key = NoSecret \/ ~verdict.keyed
        \/ t.kind = "captcha" /\ verdict.time > t.made + CaptchaTTL
        \/ t.kind = "security_id" /\ verdict.time > t.made + IDWindow

\* What two processes and a browser may rely on together: one secret, and tokens that
\* outlive restarts.
SecretsSound == SecretsTypeOK /\ OneSecret /\ TokensKeepWorking

=============================================================================
