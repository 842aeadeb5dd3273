---------------------------- MODULE GeoDatabases ----------------------------
(***************************************************************************)
(* The downloaded data files: the GeoIP databases (geoip/geoip.go), which   *)
(* every request looks its address up in, and the security lists that the   *)
(* tasks blocklist_update and cve_update fetch (task/task.go).              *)
(*                                                                         *)
(* A file is missing, torn, not a database at all (an error page served     *)
(* with status 200), or a release of the database.  Open and Update go      *)
(* through the configured databases one after the other; Update holds the   *)
(* write lock of the lookups from its first removal to its last reopening.  *)
(***************************************************************************)
EXTENDS Naturals, Sequences

CONSTANTS
    Databases,    \* the configured databases in their order
    Lookups,      \* requests that look up an address
    MaxReleases,  \* bound on the releases
    MaxUpdates    \* bound on the runs of geoip_update and of the list tasks

DBs          == {Databases[k] : k \in DOMAIN Databases}
Missing      == 0
TornFile     == MaxReleases + 1
NotADatabase == MaxReleases + 2
NoHandle     == 0

ASSUME GeoAssumption == /\ MaxReleases \in Nat \ {0} /\ MaxUpdates \in Nat
                        /\ Databases \in Seq(DBs) /\ Len(Databases) > 0

VARIABLES
    release,    \* the newest release at the download address
    mmdb,       \* the databases in the GeoIP directory
    tmpFile,    \* {database}.tmp
    reader,     \* d.asnDB, d.countDB, d.cityDB, d.whoisDB: the release that is open
    geo,        \* [pc, at, k]: what Open, Update or Close is doing, with which database
    lookup,     \* where each lookup is
    list,       \* a security list, downloaded through a temporary file
    listTask,   \* "idle" or "fetch"
    updates

geoVars == <<release, mmdb, tmpFile, reader, geo, lookup, list, listTask, updates>>

\* "open" and "update" are the phases of Open and Update, each at one of the
\* steps of ensureFile; "wait" is Update waiting for the write lock.
FileSteps == {"stat", "fetch", "copy", "reopen"}
GeoTypeOK ==
    /\ release \in 1 .. MaxReleases
    /\ mmdb \in [DBs -> 0 .. NotADatabase] /\ tmpFile \in [DBs -> 0 .. NotADatabase]
    /\ reader \in [DBs -> 0 .. MaxReleases]
    /\ geo \in [pc : {"down", "open", "up", "wait", "update", "closed"}, at : FileSteps,
                k : 1 .. Len(Databases)]
    /\ lookup \in [Lookups -> {"idle", "wait", "read"}]
    /\ list \in 0 .. NotADatabase /\ listTask \in {"idle", "fetch"} /\ updates \in 0 .. MaxUpdates

GeoInit ==
    /\ release = 1 /\ mmdb = [d \in DBs |-> Missing]
    /\ tmpFile = [d \in DBs |-> Missing] /\ reader = [d \in DBs |-> NoHandle]
    /\ geo = [pc |-> "down", at |-> "stat", k |-> 1]
    /\ lookup = [l \in Lookups |-> "idle"] /\ list = Missing /\ listTask = "idle" /\ updates = 0

listVars == <<list, listTask>>
FileWork == geo.pc \in {"open", "update"}
Current  == Databases[geo.k]

----------------------------------------------------------------------------
\* Open and Update, database by database.

\* The next database; after the last one the lock is released.
NextDatabase == geo' = IF geo.k < Len(Databases) THEN [geo EXCEPT !.k = @ + 1, !.at = "stat"]
                       ELSE [pc |-> "up", at |-> "stat", k |-> 1]

\* server.New calls geoip.Open.
OpenDatabases ==
    /\ geo.pc = "down" /\ geo' = [geo EXCEPT !.pc = "open"]
    /\ UNCHANGED <<release, mmdb, tmpFile, reader, lookup, listVars, updates>>

\* UpdateGeoIP: the task asks for the write lock, and new lookups queue behind it.
UpdateGeoIP ==
    /\ geo.pc = "up" /\ updates < MaxUpdates
    /\ geo' = [geo EXCEPT !.pc = "wait"] /\ updates' = updates + 1
    /\ UNCHANGED <<release, mmdb, tmpFile, reader, lookup, listVars>>

LockForUpdate ==
    /\ geo.pc = "wait" /\ \A l \in Lookups : lookup[l] # "read"
    /\ geo' = [geo EXCEPT !.pc = "update"]
    /\ UNCHANGED <<release, mmdb, tmpFile, reader, lookup, listVars, updates>>

\* ensureFile: a file that is there is used; Update has removed it before.
StatFile ==
    /\ FileWork /\ geo.at = "stat"
    /\ mmdb' = IF geo.pc = "update" THEN [mmdb EXCEPT ![Current] = Missing] ELSE mmdb
    /\ geo' = [geo EXCEPT !.at = IF mmdb'[Current] = Missing THEN "fetch" ELSE "reopen"]
    /\ UNCHANGED <<release, tmpFile, reader, lookup, listVars, updates>>

\* The request: it fails, times out after five minutes, or is answered.
FetchFails ==
    /\ FileWork /\ geo.at = "fetch" /\ NextDatabase
    /\ UNCHANGED <<release, mmdb, tmpFile, reader, lookup, listVars, updates>>
FetchAnswered ==
    /\ FileWork /\ geo.at = "fetch"
    /\ tmpFile' = [tmpFile EXCEPT ![Current] = TornFile] /\ geo' = [geo EXCEPT !.at = "copy"]
    /\ UNCHANGED <<release, mmdb, reader, lookup, listVars, updates>>

DownloadDB == FetchFails \/ FetchAnswered

\* The body is complete and renamed into place, or the copy fails and is removed.
CopyFails ==
    /\ FileWork /\ geo.at = "copy"
    /\ tmpFile' = [tmpFile EXCEPT ![Current] = Missing] /\ NextDatabase
    /\ UNCHANGED <<release, mmdb, reader, lookup, listVars, updates>>
CopyDone ==
    /\ FileWork /\ geo.at = "copy"
    /\ \E got \in {release, NotADatabase} : mmdb' = [mmdb EXCEPT ![Current] = got]
    /\ tmpFile' = [tmpFile EXCEPT ![Current] = Missing]
    /\ geo' = [geo EXCEPT !.at = "reopen"]
    /\ UNCHANGED <<release, reader, lookup, listVars, updates>>

\* Mutated form: the old handle is closed first.
ReopenedAfterClose(d) == IF mmdb[d] \in 1 .. MaxReleases THEN mmdb[d] ELSE NoHandle

\* maxminddb.Open: the handle is replaced if the new file opens, else the old one,
\* whose file is still mapped, goes on.
Reopened(d) == IF mmdb[d] \in 1 .. MaxReleases THEN mmdb[d] ELSE reader[d]

Reopen ==
    /\ FileWork /\ geo.at = "reopen"
    /\ reader' = [reader EXCEPT ![Current] = Reopened(Current)]
    /\ NextDatabase /\ UNCHANGED <<release, mmdb, tmpFile, lookup, listVars, updates>>

\* Close, which waits for the lookups, and the death of the process.
CloseDatabases ==
    /\ geo.pc = "up" /\ \A l \in Lookups : lookup[l] # "read"
    /\ geo' = [geo EXCEPT !.pc = "closed"] /\ reader' = [d \in DBs |-> NoHandle]
    /\ UNCHANGED <<release, mmdb, tmpFile, lookup, listVars, updates>>
GeoDies ==
    /\ geo.pc # "down" /\ geo' = [pc |-> "down", at |-> "stat", k |-> 1]
    /\ reader' = [d \in DBs |-> NoHandle]
    /\ lookup' = [l \in Lookups |-> "idle"] /\ listTask' = "idle"
    /\ UNCHANGED <<release, mmdb, tmpFile, list, updates>>

----------------------------------------------------------------------------
\* Lookup: the read lock, held while the open databases are read.
LookupStart(l) ==
    /\ geo.pc \in {"up", "wait", "update", "closed"} /\ lookup[l] = "idle"
    /\ lookup' = [lookup EXCEPT ![l] = "wait"]
    /\ UNCHANGED <<release, mmdb, tmpFile, reader, geo, listVars, updates>>
LookupLock(l) ==
    /\ lookup[l] = "wait" /\ geo.pc \in {"up", "closed"}
    /\ lookup' = [lookup EXCEPT ![l] = "read"]
    /\ UNCHANGED <<release, mmdb, tmpFile, reader, geo, listVars, updates>>
LookupDone(l) ==
    /\ lookup[l] = "read" /\ lookup' = [lookup EXCEPT ![l] = "idle"]
    /\ UNCHANGED <<release, mmdb, tmpFile, reader, geo, listVars, updates>>

----------------------------------------------------------------------------
\* securityFetchTask and downloadFile: any body of a 2xx answer that is not empty is
\* renamed over the list; a failure keeps the copy that is there.
ListTask ==
    /\ geo.pc # "down" /\ listTask = "idle" /\ updates < MaxUpdates
    /\ listTask' = "fetch" /\ updates' = updates + 1
    /\ UNCHANGED <<release, mmdb, tmpFile, reader, geo, lookup, list>>
DownloadFile ==
    /\ listTask = "fetch" /\ listTask' = "idle" /\ list' \in {list, release, NotADatabase}
    /\ UNCHANGED <<release, mmdb, tmpFile, reader, geo, lookup, updates>>

NewRelease ==
    /\ release < MaxReleases /\ release' = release + 1
    /\ UNCHANGED <<mmdb, tmpFile, reader, geo, lookup, listVars, updates>>

----------------------------------------------------------------------------
GeoWork == LockForUpdate \/ StatFile \/ DownloadDB \/ CopyFails \/ CopyDone \/ Reopen
GeoNext ==
    \/ OpenDatabases \/ UpdateGeoIP \/ GeoWork \/ CloseDatabases \/ GeoDies
    \/ \E l \in Lookups : LookupStart(l) \/ LookupLock(l) \/ LookupDone(l)
    \/ ListTask \/ DownloadFile \/ NewRelease

\* The goroutines run, a download has a deadline, and a lookup that waits
\* gets its turn when the writer is done.
GeoSpec == /\ GeoInit /\ [][GeoNext]_geoVars /\ WF_geoVars(GeoWork)
           /\ \A l \in Lookups : WF_geoVars(LookupDone(l)) /\ WF_geoVars(LookupLock(l))

----------------------------------------------------------------------------
\* A database that a running server has open is only ever replaced by a release at
\* least as new, whatever the download brings and wherever Update fails: Update keeps
\* the open handle when the new file is missing or does not open.
UpdateKeepsServing ==
    [][\A d \in DBs : reader[d] # NoHandle /\ geo'.pc \notin {"down", "closed"}
                               => reader'[d] >= reader[d]]_geoVars

\* No crash leaves a torn database or list under its own name, where ensureFile
\* would take it for a complete one and never download it again.
FilesWhole == (\A d \in DBs : mmdb[d] # TornFile) /\ list # TornFile

\* A request whose lookup waits for Update, which holds the lock while it downloads,
\* gets its answer in the end.
LookupsAnswered == \A l \in Lookups : lookup[l] = "wait" ~> lookup[l] # "wait"

\* What an update promises the requests together: whole files, no older handle, and an
\* answer to every lookup.
GeoSound == [](GeoTypeOK /\ FilesWhole) /\ UpdateKeepsServing /\ LookupsAnswered

=============================================================================
