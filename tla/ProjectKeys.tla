----------------------------- MODULE ProjectKeys -----------------------------
(***************************************************************************)
(* The project's PGP keypair: generated by the server on its first start    *)
(* (server/pgp_keypair.go), managed by `--maintenance pgp`                   *)
(* (maintenance/pgp.go), described by one row of table security_keypair      *)
(* (database/security_keypair.go), and used to seal security reports.        *)
(*                                                                         *)
(* The server and a command work on the same files and row without a lock;  *)
(* a command may be killed, and a write may fail, between any two steps.    *)
(* What a command asks the operator is in module Restore (the gate is the   *)
(* same); exporting a key changes none of this state.                        *)
(*                                                                         *)
(* A key stands for both halves.  Time is in days.                           *)
(***************************************************************************)
EXTENDS Naturals

CONSTANTS
    Keys,        \* keys pgp.Generate may return or an operator may import
    NoKey,
    RotatedGrace,\* rotatedKeyGrace
    KeysMaxDay,  \* bound on the days that pass
    MaxRuns      \* bound on the server starts and commands

ASSUME KeysAssumption == 
    /\ NoKey \notin Keys
    /\ RotatedGrace \in Nat /\ KeysMaxDay \in Nat /\ MaxRuns \in Nat

VARIABLES
    pub,        \* pgp.pub.asc
    priv,       \* pgp.priv.asc.enc
    parked,     \* pgp.priv.asc.enc.old
    wroteOn,    \* the day each key was written, which is its file's mtime for ever
    meta,       \* the row of security_keypair
    publishKey, \* web.security.publish_pgp_key
    worker,     \* the server and the command: position, key, row read
    reports,    \* keys that reports have been sealed with
    today,
    runs,       \* server starts and commands so far
    turns,      \* history: rotations since a key was the current one
    tidy,       \* history: no interrupted command, no import, no delete so far
    spoiled,    \* history: a private key has been lost for good
    overlapped  \* history: two workers were at work at the same time

keysVars == <<pub, priv, parked, wroteOn, meta, publishKey, worker, reports, today,
              runs, turns, tidy, spoiled, overlapped>>

Workers == {"server", "command"}

NoRow == [key |-> NoKey, revoked |-> FALSE]
Rows == [key : Keys \cup {NoKey}, revoked : BOOLEAN]

AtRest == [pc |-> "rest", op |-> "none", key |-> NoKey, row |-> NoRow]

ProjectKeysTypeOK ==
    /\ {pub, priv, parked} \subseteq Keys \cup {NoKey}
    /\ wroteOn \in [Keys -> 0..KeysMaxDay]
    /\ meta \in Rows
    /\ publishKey \in BOOLEAN
    /\ worker \in [Workers -> [pc : {"rest", "ensure", "check", "park", "pub", "priv", "meta",
                                     "prune", "submit", "readRow", "record", "remove",
                                     "save", "revoke", "up"},
                               op : {"none", "start", "generate", "rotate", "publish",
                                     "import", "delete"},
                               key : Keys \cup {NoKey}, row : Rows]]
    /\ reports \subseteq Keys
    /\ today \in 0..KeysMaxDay /\ runs \in 0..MaxRuns
    /\ turns \in [Keys -> 0..2]
    /\ tidy \in BOOLEAN /\ spoiled \in BOOLEAN /\ overlapped \in BOOLEAN

ProjectKeysInit ==
    /\ pub = NoKey /\ priv = NoKey /\ parked = NoKey
    /\ wroteOn = [k \in Keys |-> 0]
    /\ meta = NoRow
    /\ publishKey = TRUE
    /\ worker = [w \in Workers |-> AtRest]
    /\ reports = {} /\ today = 0 /\ runs = 0
    /\ turns = [k \in Keys |-> 0]
    /\ tidy = TRUE /\ spoiled = FALSE /\ overlapped = FALSE

----------------------------------------------------------------------------
filesVars == <<pub, priv, parked, wroteOn, meta, publishKey>>
historyVars == <<reports, today, turns>>

Busy(w) == worker[w].pc \notin {"rest", "up"}

\* Between the decision to replace the key and the row that names the new one.
Replacing == {"park", "pub", "priv", "meta"}
Replaces(w) == worker[w].pc \in Replacing

Go(w, pc) == worker' = [worker EXCEPT ![w].pc = pc]

Overlap == overlapped' = (overlapped \/ \E w \in Workers : Busy(w))

Begin(w, pc, op) ==
    /\ worker[w].pc = "rest" /\ runs < MaxRuns
    /\ runs' = runs + 1
    /\ worker' = [worker EXCEPT ![w] = [AtRest EXCEPT !.pc = pc, !.op = op]]
    /\ Overlap
    /\ UNCHANGED <<filesVars, historyVars, tidy, spoiled>>

\* pgp.Generate, or a key the operator brings: one nobody has seen yet.
Unused == {k \in Keys : /\ k \notin {pub, priv, parked, meta.key} \cup reports
                        /\ \A w \in Workers : k \notin {worker[w].key, worker[w].row.key}
                        /\ turns[k] = 0}

WithFreshKey(w, pc) ==
    /\ Unused # {}
    /\ worker' = [worker EXCEPT ![w].pc = pc, ![w].key = CHOOSE k \in Unused : TRUE]

Active == meta.key # NoKey /\ ~meta.revoked

\* server.New: ensureSecurityKeypair leaves an active keypair alone; it does
\* nothing at all when publishing is off.
ServerStart == Begin("server", "ensure", "start")

EnsureSecurityKeypair ==
    /\ worker["server"].pc = "ensure"
    /\ IF ~publishKey \/ (Active /\ pub # NoKey) THEN Go("server", "prune")
       ELSE WithFreshKey("server", "pub")
    /\ spoiled' = (spoiled \/ (Replaces("server")' /\ Replaces("command")))
    /\ UNCHANGED <<filesVars, historyVars, tidy, overlapped, runs>>

\* pruneRotatedKey: by the modification time, which a rename does not change.
PruneRotatedKey ==
    /\ worker["server"].pc = "prune"
    /\ parked' = IF parked # NoKey /\ today > wroteOn[parked] + RotatedGrace THEN NoKey ELSE parked
    /\ Go("server", IF worker["server"].key = NoKey THEN "up" ELSE "submit")
    /\ UNCHANGED <<pub, priv, wroteOn, meta, publishKey, historyVars, tidy, spoiled, overlapped, runs>>

----------------------------------------------------------------------------
\* RunPGP: one command at a time.
Command(op) == Begin("command", "check", op)

\* The checks with which generate, rotate, publish, import and delete begin.
CommandCheck ==
    LET op == worker["command"].op
        Refused == worker' = [worker EXCEPT !["command"] = AtRest]
    IN  /\ worker["command"].pc = "check"
        /\ \/ op = "generate" /\ IF Active /\ pub # NoKey THEN Refused ELSE WithFreshKey("command", "pub")
           \/ op = "rotate" /\ IF Active THEN WithFreshKey("command", "park") ELSE Refused
           \/ op = "publish" /\ IF pub = NoKey THEN Refused
                                ELSE worker' = [worker EXCEPT !["command"].pc = "submit",
                                                              !["command"].key = pub]
           \/ op = "import" /\ WithFreshKey("command", "priv")
           \/ op = "delete" /\ worker' = [worker EXCEPT !["command"].pc = "remove",
                                                        !["command"].row = meta]
        /\ tidy' = (tidy /\ op \notin {"import", "delete"})
        /\ spoiled' = (\/ spoiled \/ op \in {"import", "delete"}
                       \/ Replaces("command")' /\ Replaces("server"))
        /\ UNCHANGED <<filesVars, historyVars, overlapped, runs>>

\* Mutated form: the outgoing private key is not kept.
ParkPrivateKeyNot ==
    /\ worker["command"].pc = "park" /\ Go("command", "pub")
    /\ UNCHANGED <<filesVars, historyVars, tidy, spoiled, overlapped, runs>>

\* rotate: the outgoing private key is renamed, over one parked before.
ParkPrivateKey ==
    /\ worker["command"].pc = "park" /\ Go("command", "pub")
    /\ parked' = IF priv = NoKey THEN parked ELSE priv
    /\ priv' = NoKey
    /\ turns' = [k \in Keys |-> IF k = priv THEN 1
                                ELSE IF turns[k] = 1 /\ priv # NoKey THEN 2 ELSE turns[k]]
    /\ UNCHANGED <<pub, wroteOn, meta, publishKey, reports, today, tidy, spoiled, overlapped, runs>>

\* installKeypair (both packages): public key, private key, row.  importKey
\* writes the private key first and parks nothing.
WritePublicKey(w) ==
    /\ worker[w].pc = "pub"
    /\ pub' = worker[w].key
    /\ Go(w, IF worker[w].op = "import" THEN "meta" ELSE "priv")
    /\ UNCHANGED <<priv, parked, wroteOn, meta, publishKey, historyVars, tidy, spoiled, overlapped, runs>>

WritePrivateKey(w) ==
    /\ worker[w].pc = "priv"
    /\ priv' = worker[w].key /\ wroteOn' = [wroteOn EXCEPT ![worker[w].key] = today]
    /\ Go(w, IF worker[w].op = "import" THEN "pub" ELSE "meta")
    /\ UNCHANGED <<pub, parked, meta, publishKey, historyVars, tidy, spoiled, overlapped, runs>>

\* UpsertSecurityKeypair
WriteRow(w) ==
    /\ worker[w].pc = "meta"
    /\ meta' = [key |-> worker[w].key, revoked |-> FALSE]
    /\ worker' = [worker EXCEPT ![w] =
          CASE @.op = "start" -> [@ EXCEPT !.pc = "prune"]
            [] @.op = "import" -> AtRest
            [] OTHER -> [@ EXCEPT !.pc = "submit"]]
    /\ UNCHANGED <<pub, priv, parked, wroteOn, publishKey, historyVars, tidy, spoiled, overlapped, runs>>

Finished(w) ==
    worker' = [worker EXCEPT ![w] = IF w = "server" THEN [AtRest EXCEPT !.pc = "up", !.op = "start"]
                                    ELSE AtRest]

\* publishToKeyservers, publishAll: five attempts per keyserver; when none takes
\* the key nothing is recorded.
SubmitToKeyserver(w) ==
    /\ worker[w].pc = "submit"
    /\ \/ Go(w, "readRow")
       \/ Finished(w)
    /\ UNCHANGED <<filesVars, historyVars, tidy, spoiled, overlapped, runs>>

\* The row is read, and the whole of it written back.
ReadRow(w) ==
    /\ worker[w].pc = "readRow"
    /\ IF meta = NoRow THEN Finished(w)
       ELSE worker' = [worker EXCEPT ![w].pc = "record", ![w].row = meta]
    /\ UNCHANGED <<filesVars, historyVars, tidy, spoiled, overlapped, runs>>

RecordPublish(w) ==
    /\ worker[w].pc = "record"
    /\ meta' = worker[w].row
    /\ Finished(w)
    /\ UNCHANGED <<pub, priv, parked, wroteOn, publishKey, historyVars, tidy, spoiled, overlapped, runs>>

\* delete: the files, the configuration, the row as read at the beginning.
DeleteFiles ==
    /\ worker["command"].pc = "remove" /\ Go("command", "save")
    /\ pub' = NoKey /\ priv' = NoKey /\ parked' = NoKey
    /\ UNCHANGED <<wroteOn, meta, publishKey, historyVars, tidy, spoiled, overlapped, runs>>

DisablePublishing ==
    /\ worker["command"].pc = "save" /\ Go("command", "revoke")
    /\ publishKey' = FALSE
    /\ UNCHANGED <<pub, priv, parked, wroteOn, meta, historyVars, tidy, spoiled, overlapped, runs>>

Revoke ==
    /\ worker["command"].pc = "revoke" /\ Finished("command")
    /\ meta' = IF worker["command"].row = NoRow THEN meta
               ELSE [worker["command"].row EXCEPT !.revoked = TRUE]
    /\ UNCHANGED <<pub, priv, parked, wroteOn, publishKey, historyVars, tidy, spoiled, overlapped, runs>>

----------------------------------------------------------------------------
\* A write fails, or the worker is killed; a server that could not install its key
\* starts all the same.  What is lost for good: the private half of a public key that
\* is served already, or the first key, whose row is missing, so that the next start
\* replaces it.
Stops(w) ==
    /\ worker[w].pc # "rest"
    /\ \/ worker' = [worker EXCEPT ![w] = AtRest]
       \/ /\ w = "server" /\ Replaces(w)
          /\ worker' = [worker EXCEPT ![w] = [AtRest EXCEPT !.pc = "prune", !.op = "start"]]
    /\ tidy' = (tidy /\ worker[w].pc \notin Replacing \cup {"remove", "save", "revoke"})
    /\ spoiled' = (spoiled \/ worker[w].pc = "priv" \/ (worker[w].pc = "meta" /\ ~Active))
    /\ UNCHANGED <<filesVars, historyVars, overlapped, runs>>

\* encryptSecurityReport: the server reads the public key for every report; without
\* one the report is sealed with the encryption key, which never changes.
SealReport ==
    /\ worker["server"].pc \in {"submit", "readRow", "record", "up"}
    /\ pub # NoKey
    /\ reports' = reports \cup {pub}
    /\ UNCHANGED <<filesVars, worker, today, turns, tidy, spoiled, overlapped, runs>>

KeysTime ==
    /\ today < KeysMaxDay /\ today' = today + 1
    /\ UNCHANGED <<filesVars, worker, reports, turns, tidy, spoiled, overlapped, runs>>

ProjectKeysNext ==
    \/ ServerStart \/ EnsureSecurityKeypair \/ PruneRotatedKey
    \/ \E op \in {"generate", "rotate", "publish", "import", "delete"} : Command(op)
    \/ CommandCheck \/ ParkPrivateKey \/ DeleteFiles \/ DisablePublishing \/ Revoke
    \/ \E w \in Workers : \/ WritePublicKey(w) \/ WritePrivateKey(w) \/ WriteRow(w)
                          \/ SubmitToKeyserver(w) \/ ReadRow(w) \/ RecordPublish(w) \/ Stops(w)
    \/ SealReport \/ KeysTime

ProjectKeysSpec == ProjectKeysInit /\ [][ProjectKeysNext]_keysVars

----------------------------------------------------------------------------
\* decryptSecurityReport tries the current private key and the parked one.
Readable(k) == k \in {priv, parked}

\* The parked key has done its time, counted from the day the key was generated.
AgedOut(k) == today > wroteOn[k] + RotatedGrace

\* A report stays readable across restarts, publishing and one rotation, at least until
\* its key is RotatedGrace days old, wherever commands and starts are interrupted and
\* whatever they do next to each other, except: an import or a deletion, two that
\* replace the key at the same time, an interruption between the public and the private
\* key, and one before the first key has its row (Stops).  Between the two files of a new
\* key reports wait for the second.
ReportsReadable ==
    ~spoiled => \A k \in reports :
        \/ Readable(k)
        \/ turns[k] = 2 \/ (turns[k] = 1 /\ AgedOut(k))
        \/ \E w \in Workers : worker[w].pc = "priv" /\ worker[w].key = k

\* The row names the key that is served, once nobody is at work, as long as no
\* replacement was interrupted and no command overlapped the server's start.
RowNamesKey ==
    (/\ tidy /\ ~overlapped /\ pub # NoKey
     /\ \A w \in Workers : ~Busy(w)) => meta.key = pub /\ priv = pub

\* What server and commands keep together: sealed reports stay readable and the row
\* names the key in the files.
KeysUsable == ProjectKeysTypeOK /\ ReportsReadable /\ RowNamesKey

=============================================================================
