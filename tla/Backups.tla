------------------------------- MODULE Backups -------------------------------
(***************************************************************************)
(* The backup directory and everything that writes to it: the tasks        *)
(* backup_daily and backup_hourly, the command `--maintenance backup',     *)
(* the retention sweep at startup, and the cleanup that the maintenance    *)
(* monitor runs when the disk is full.                                     *)
(*                                                                         *)
(* The archives are the dated ones (<<"full", d>> of backup_daily and      *)
(* <<"manual", d>> of the command) and the rolling ones, each of which is  *)
(* built in a temporary file and renamed.  An archive is abstracted to     *)
(* whether VerifyBackup accepts it and to the version of the data it was   *)
(* made from; its size is that version, for the data only grow.            *)
(*                                                                         *)
(* maintenance.Backup reads the live files twice, once for the checksum    *)
(* and once for the archive, while the server goes on writing to them.     *)
(* A crash is the death of a process: what it wrote stays.                 *)
(***************************************************************************)
EXTENDS Naturals, FiniteSets

CONSTANTS
    MaxDay,         \* bound on the days
    MaxVer,         \* bound on the versions of the data
    MaxBackups,     \* retention.max_backups as configured
    KeepOf,         \* keep_weekly, keep_monthly, keep_yearly
    TierDays,       \* the Sundays, the firsts of a month, the New Year's days
    SizeCap,        \* retention.max_total_size, 0 = no cap
    CleanKeep,      \* maintenance.cleanup.backup_keep_count
    Jobs,           \* the jobs in use
    MaxBusy,        \* bound on the jobs that run at the same time
    Faults,         \* TRUE: creating, writing, verifying or renaming may fail
    RemovesFail     \* TRUE: os.Remove may fail; its error is ignored

AllJobs == {"daily", "hourly", "cli", "cleaner"}
Tiers   == {"yearly", "monthly", "weekly"}

ASSUME BackupNumbers == /\ MaxDay \in Nat \ {0} /\ MaxVer \in Nat \ {0} /\ MaxBackups \in Nat
                        /\ SizeCap \in Nat /\ CleanKeep \in Nat \ {0} /\ MaxBusy \in Nat
ASSUME BackupTiers   == KeepOf \in [Tiers -> Nat] /\ TierDays \in [Tiers -> SUBSET (1 .. MaxDay)]
ASSUME BackupJobs    == Jobs \subseteq AllJobs /\ Faults \in BOOLEAN /\ RemovesFail \in BOOLEAN

VARIABLES
    dated,      \* the dated archives in the backup directory
    tmp,        \* {project}-daily.tar.gz.tmp and {project}-hourly.tar.gz.tmp
    roll,       \* {project}-daily.tar.gz and {project}-hourly.tar.gz
    job,        \* the running jobs
    total,      \* applySizeCap's running total
    up,         \* the server has finished its startup sweep
    ver,        \* version of the live configuration and database
    today,      \* the date
    proven      \* history: some dated archive has passed verification

vars == <<dated, tmp, roll, job, total, up, ver, today, proven>>

Days    == 1 .. MaxDay
Names   == {"full", "manual"} \X Days
Rollers == {"daily", "hourly"}
File    == [kind : {"none", "torn", "bad", "good"}, ver : Nat]
None    == [kind |-> "none", ver |-> 0]
Torn    == [kind |-> "torn", ver |-> 0]

Labels == {"idle", "hash", "archive", "open", "write", "verify", "discard", "rename",
           "list", "prune", "measure", "cap"}

\* A job: what it builds ("roll" in a temporary file) or that it only sweeps, the
\* date in the file name, the versions its two passes read, and the files it has
\* yet to delete.
Job  == [pc : Labels, op : {"full", "manual", "roll", "sweep", "clean"}, day : Days,
         hash : Nat, arch : Nat, todo : SUBSET Names]
Idle == [pc |-> "idle", op |-> "sweep", day |-> 1, hash |-> 0, arch |-> 0,
         todo |-> {}]

StateOK ==
    /\ dated \in [Names -> File]
    /\ tmp \in [Rollers -> File] /\ roll \in [Rollers -> File]
    /\ job \in [AllJobs -> Job]
    /\ up \in BOOLEAN /\ proven \in BOOLEAN
    /\ ver \in 1 .. MaxVer /\ today \in Days
TypeOK == StateOK /\ total \in Nat

At(j, label)   == job[j].pc = label
Goto(j, label) == job' = [job EXCEPT ![j].pc = label]
Finish(j)      == job' = [job EXCEPT ![j] = Idle]
OnDisk(n)      == dated[n].kind # "none"
Fulls          == {n \in Names : n[1] = "full" /\ OnDisk(n)}

-----------------------------------------------------------------------------
(***************************************************************************)
(* maintenance.Backup: checksum pass, archive pass, one os.WriteFile that  *)
(* truncates whatever is there.                                            *)
(***************************************************************************)
Building(j) == IF job[j].op = "roll" THEN tmp[j] ELSE dated[<<job[j].op, job[j].day>>]

Put(j, f) ==
    IF job[j].op = "roll"
    THEN tmp' = [tmp EXCEPT ![j] = f] /\ UNCHANGED dated
    ELSE dated' = [dated EXCEPT ![<<job[j].op, job[j].day>>] = f] /\ UNCHANGED tmp

\* The task removes the file it was building; the command just returns.
Fail(j) == IF j = "cli" THEN Finish(j) ELSE Goto(j, "discard")

\* A job may start: a scheduled one only while the server is up.
Ready(j) ==
    /\ j \in Jobs /\ At(j, "idle") /\ (up \/ j = "cli")
    /\ Cardinality({i \in AllJobs : ~At(i, "idle")}) < MaxBusy

\* Mutated form: the file name carries the next day's date.
BeginTomorrow(j, o) ==
    /\ Ready(j)
    /\ job' = [job EXCEPT ![j].pc = "hash", ![j].op = o, ![j].day = today + 1]
    /\ UNCHANGED <<dated, tmp, roll, total, up, ver, today, proven>>

Begin(j, o) ==
    /\ Ready(j)
    /\ job' = [job EXCEPT ![j].pc = "hash", ![j].op = o, ![j].day = today]
    /\ UNCHANGED <<dated, tmp, roll, total, up, ver, today, proven>>

BackupDaily   == Begin("daily", "full")
BackupHourly  == Begin("hourly", "roll")
BackupCommand == Begin("cli", "manual")

Hash(j) ==
    /\ At(j, "hash")
    /\ job' = [job EXCEPT ![j].hash = ver, ![j].pc = "archive"]
    /\ UNCHANGED <<dated, tmp, roll, total, up, ver, today, proven>>

Archive(j) ==
    /\ At(j, "archive")
    /\ \/ job' = [job EXCEPT ![j].arch = ver, ![j].pc = "open"]
       \/ Faults /\ Fail(j)
    /\ UNCHANGED <<dated, tmp, roll, total, up, ver, today, proven>>

Open(j) ==
    /\ At(j, "open")
    /\ \/ Put(j, Torn) /\ Goto(j, "write")
       \/ Faults /\ Fail(j) /\ UNCHANGED <<dated, tmp>>
    /\ UNCHANGED <<roll, total, up, ver, today, proven>>

Built(j) == [kind |-> IF job[j].hash = job[j].arch THEN "good" ELSE "bad",
             ver  |-> job[j].arch]

Write(j) ==
    /\ At(j, "write")
    /\ \/ /\ Put(j, Built(j))
          /\ IF j = "cli" THEN Finish(j)
             ELSE job' = [job EXCEPT ![j].pc = "verify", ![j].hash = 0, ![j].arch = 0]
       \/ Faults /\ Fail(j) /\ UNCHANGED <<dated, tmp>>
    /\ UNCHANGED <<roll, total, up, ver, today, proven>>

-----------------------------------------------------------------------------
(***************************************************************************)
(* The tasks: verify, then go on to the rolling archive or rename it.      *)
(***************************************************************************)
\* Mutated form: the archive is not opened.
VerifyExists(f) == f.kind # "none"

\* Exists, decrypts, unpacks, and the checksum agrees with the manifest.
VerifyBackup(f) == f.kind = "good"

Verify(j) ==
    /\ At(j, "verify")
    /\ \/ /\ VerifyBackup(Building(j)) /\ job[j].op = "full"
          /\ job' = [job EXCEPT ![j].op = "roll", ![j].pc = "hash"]
          /\ proven' = TRUE
       \/ /\ VerifyBackup(Building(j)) /\ job[j].op = "roll"
          /\ Goto(j, "rename") /\ UNCHANGED proven
       \/ /\ ~VerifyBackup(Building(j)) \/ Faults
          /\ Goto(j, "discard") /\ UNCHANGED proven
    /\ UNCHANGED <<dated, tmp, roll, total, up, ver, today>>

\* backup_daily goes on to the retention, whatever became of the rolling archive.
AfterRoll(j) == IF j = "daily" THEN Goto(j, "list") ELSE Finish(j)

Discard(j) ==
    /\ At(j, "discard")
    /\ Put(j, None) \/ (RemovesFail /\ UNCHANGED <<dated, tmp>>)
    /\ IF job[j].op = "roll" THEN AfterRoll(j) ELSE Finish(j)
    /\ UNCHANGED <<roll, total, up, ver, today, proven>>

\* Mutated form: the rolling archive is removed to make room for the new one.
RenameInTwoSteps(j) ==
    /\ At(j, "rename")
    /\ \/ /\ roll[j].kind = "none"
          /\ roll' = [roll EXCEPT ![j] = tmp[j]] /\ tmp' = [tmp EXCEPT ![j] = None]
          /\ AfterRoll(j)
       \/ /\ roll[j].kind # "none"
          /\ roll' = [roll EXCEPT ![j] = None]
          /\ UNCHANGED <<tmp, job>>
    /\ UNCHANGED <<dated, total, up, ver, today, proven>>

Rename(j) ==
    /\ At(j, "rename")
    /\ \/ /\ roll' = [roll EXCEPT ![j] = tmp[j]]
          /\ tmp' = [tmp EXCEPT ![j] = None]
          /\ AfterRoll(j)
       \/ Faults /\ Goto(j, "discard") /\ UNCHANGED <<roll, tmp>>
    /\ UNCHANGED <<dated, total, up, ver, today, proven>>

-----------------------------------------------------------------------------
(***************************************************************************)
(* Retention and cleanup: list the directory, then delete file by file.    *)
(***************************************************************************)
\* The highest-priority tier of a date, among the tiers that are enabled.
Classify(d) ==
    LET is(tier) == d \in TierDays[tier] /\ KeepOf[tier] > 0
    IN  IF is("yearly") THEN "yearly" ELSE IF is("monthly") THEN "monthly"
        ELSE IF is("weekly") THEN "weekly" ELSE "daily"

\* BackupDaily raises max_backups to 1; the startup sweep takes it as it is.
MaxBackupsOf(o) == IF o # "sweep" /\ MaxBackups < 1 THEN 1 ELSE MaxBackups
Limit(tier, o)  == IF tier = "daily" THEN MaxBackupsOf(o) ELSE KeepOf[tier]

\* Mutated form: the archives are counted from the oldest.
DoomedOldestFirst(o) ==
    {n \in Fulls : Cardinality({m \in Fulls : m[2] <= n[2] /\ Classify(m[2]) = Classify(n[2])})
                       > Limit(Classify(n[2]), o)}

\* Counting from the newest, what exceeds the limit of its tier.
Doomed(o) ==
    {n \in Fulls : Cardinality({m \in Fulls : m[2] >= n[2] /\ Classify(m[2]) = Classify(n[2])})
                       > Limit(Classify(n[2]), o)}

\* applyRetention reads the directory.
List ==
    /\ At("daily", "list")
    /\ job' = [job EXCEPT !["daily"].todo = Doomed(job["daily"].op), !["daily"].pc = "prune"]
    /\ UNCHANGED <<dated, tmp, roll, total, up, ver, today, proven>>

RemoveDated(n) ==
    dated' = [dated EXCEPT ![n] = None] \/ (RemovesFail /\ UNCHANGED dated)

\* Newest first, for retention and cleanup alike.
Prune(j) ==
    /\ At(j, "prune")
    /\ \E n \in job[j].todo :
         /\ \A m \in job[j].todo : m[2] <= n[2]
         /\ RemoveDated(n)
         /\ job' = [job EXCEPT ![j].todo = @ \ {n}]
    /\ UNCHANGED <<tmp, roll, total, up, ver, today, proven>>

Pruned(j) ==
    /\ At(j, "prune") /\ job[j].todo = {}
    /\ IF j = "daily" THEN Goto(j, "measure") ELSE Finish(j)
    /\ UNCHANGED <<dated, tmp, roll, total, up, ver, today, proven>>

\* What a set of archives holds, unit by unit: their size is how many there are.
Data(S) == {u \in S \X (1 .. MaxVer) : u[2] <= dated[u[1]].ver}

\* applySizeCap reads the directory again.
Measure ==
    /\ At("daily", "measure")
    /\ job' = [job EXCEPT !["daily"].todo = Fulls, !["daily"].pc = "cap"]
    /\ total' = Cardinality(Data(Fulls))
    /\ UNCHANGED <<dated, tmp, roll, up, ver, today, proven>>

OverCap == SizeCap > 0 /\ total > SizeCap /\ Cardinality(job["daily"].todo) > 1

\* Oldest first, and never the newest.
CapSize ==
    /\ At("daily", "cap") /\ OverCap
    /\ \E n \in job["daily"].todo :
         /\ \A m \in job["daily"].todo : n[2] <= m[2]
         /\ job' = [job EXCEPT !["daily"].todo = @ \ {n}]
         /\ \/ /\ OnDisk(n) /\ dated' = [dated EXCEPT ![n] = None]
               /\ total' = total - dated[n].ver
            \/ (~OnDisk(n) \/ RemovesFail) /\ UNCHANGED <<dated, total>>
    /\ UNCHANGED <<tmp, roll, up, ver, today, proven>>

\* The task, or the startup sweep, ends; after the sweep the server comes up.
RetentionDone ==
    /\ At("daily", "cap") /\ ~OverCap
    /\ Finish("daily")
    /\ up' = TRUE /\ total' = 0
    /\ UNCHANGED <<dated, tmp, roll, ver, today, proven>>

\* maintenanceCleanup -> trimBackups: all but the newest CleanKeep dated archives.
TrimBackups ==
    LET files == {n \in Names : OnDisk(n)} IN
    /\ Ready("cleaner")
    /\ Cardinality(files) > CleanKeep
    /\ \E kept \in SUBSET files :
         /\ Cardinality(kept) = CleanKeep
         /\ \A k \in kept, n \in files \ kept : n[2] <= k[2]
         /\ job' = [job EXCEPT !["cleaner"].todo = files \ kept, !["cleaner"].op = "clean",
                               !["cleaner"].pc = "prune"]
    /\ UNCHANGED <<dated, tmp, roll, total, up, ver, today, proven>>

-----------------------------------------------------------------------------
(***************************************************************************)
(* The server, its data and time.                                          *)
(***************************************************************************)
\* Mutated form: the server starts without a sweep.
BootWithoutSweep ==
    /\ ~up
    /\ up' = TRUE
    /\ UNCHANGED <<dated, tmp, roll, job, total, ver, today, proven>>

\* RetentionSweep, before the scheduler starts.
Boot ==
    /\ ~up /\ At("daily", "idle")
    /\ job' = [job EXCEPT !["daily"].pc = "list", !["daily"].op = "sweep"]
    /\ UNCHANGED <<dated, tmp, roll, total, up, ver, today, proven>>

\* The server dies in the middle of whatever its jobs were doing.
Crash ==
    /\ up \/ ~At("daily", "idle")
    /\ up' = FALSE /\ total' = 0
    /\ job' = [j \in AllJobs |-> IF j = "cli" THEN job[j] ELSE Idle]
    /\ UNCHANGED <<dated, tmp, roll, ver, today, proven>>

\* The command is interrupted.
Interrupt ==
    /\ ~At("cli", "idle")
    /\ Finish("cli")
    /\ UNCHANGED <<dated, tmp, roll, total, up, ver, today, proven>>

\* Somebody creates a paste, or changes the configuration.
DataWrite ==
    /\ ver < MaxVer
    /\ ver' = ver + 1
    /\ UNCHANGED <<dated, tmp, roll, job, total, up, today, proven>>

NextDay ==
    /\ today < MaxDay
    /\ today' = today + 1
    /\ UNCHANGED <<dated, tmp, roll, job, total, up, ver, proven>>

Init ==
    /\ dated = [n \in Names |-> None]
    /\ tmp = [j \in Rollers |-> None] /\ roll = [j \in Rollers |-> None]
    /\ job = [j \in AllJobs |-> Idle]
    /\ up = FALSE /\ proven = FALSE /\ total = 0
    /\ ver = 1 /\ today = 1

Next ==
    \/ BackupDaily \/ BackupHourly \/ BackupCommand
    \/ \E j \in {"daily", "hourly", "cli"} :
          Hash(j) \/ Archive(j) \/ Open(j) \/ Write(j)
    \/ \E j \in Rollers : Verify(j) \/ Discard(j) \/ Rename(j)
    \/ List \/ Measure \/ CapSize \/ RetentionDone \/ TrimBackups
    \/ \E j \in {"daily", "cleaner"} : Prune(j) \/ Pruned(j)
    \/ Boot \/ Crash \/ Interrupt \/ DataWrite \/ NextDay

Spec == Init /\ [][Next]_vars

-----------------------------------------------------------------------------
(***************************************************************************)
(* Properties.                                                             *)
(***************************************************************************)
\* A rolling archive is a verified one at every moment: no crash, full disk, data
\* change between the two passes or failed step leaves a broken file under its name
\* (BackupDaily and BackupHourly verify the temporary file before the rename).
RollingSound == \A j \in Rollers : roll[j].kind \in {"none", "good"}

\* A rolling archive never disappears and never goes back to older data.
RollingNeverLost ==
    [][\A j \in Rollers : roll[j].kind # "none" =>
          roll'[j].kind # "none" /\ roll[j].ver <= roll'[j].ver]_vars

\* Retention (not the cleanup) removes a dated archive only when one of the same or
\* a later day stays: neither the tiers, nor the size cap, nor a cleanup that
\* deletes files from under it make it remove the newest (applyRetention,
\* applySizeCap).
Retains(n) ==
    /\ job["daily"].pc \in {"prune", "cap"}
    /\ n \in job["daily"].todo /\ n \notin job'["daily"].todo
    => \E m \in Names \ {n} : m[2] >= n[2] /\ dated'[m].kind # "none"
RetentionLeavesNewer ==
    [][\A n \in Names : OnDisk(n) /\ dated'[n].kind = "none" => Retains(n)]_vars

\* Dated archives do not pile up, however often the server dies before it gets to
\* the retention: no tier is ever more than one over its limit, and between runs none
\* is, because the startup sweep makes up for it (applyRetention, RetentionSweep).
InTier(tier) == {n \in Fulls : Classify(n[2]) = tier}
NoAccumulation ==
    \A tier \in Tiers \cup {"daily"} :
        Cardinality(InTier(tier)) <=
            Limit(tier, "full") + (IF up /\ At("daily", "idle") THEN 0 ELSE 1)

\* Once a dated archive has been verified, failed runs preserve it or a newer one:
\* at rest there is a dated archive that VerifyBackup accepts.
AtRest == up /\ \A j \in AllJobs : At(j, "idle")
VerifiedBackupKept ==
    proven /\ AtRest => \E n \in Names : n[1] = "full" /\ VerifyBackup(dated[n])

-----------------------------------------------------------------------------
(***************************************************************************)
(* The inductive invariant behind the two properties of the rolling files. *)
(***************************************************************************)
\* What a job that builds a rolling archive has read is at least as new as the
\* archive it will replace, and what it renames has been verified.
BuildOK(j) ==
    LET q == job[j] IN
    /\ roll[j].kind \in {"none", "good"} /\ roll[j].ver <= ver
    /\ q.arch <= ver
    /\ q.pc \in {"open", "write"} => roll[j].ver <= q.arch
    /\ q.pc \in {"verify", "rename"} /\ q.op = "roll" => roll[j].ver <= tmp[j].ver /\ tmp[j].ver <= ver
    /\ q.pc = "rename" => q.op = "roll" /\ tmp[j].kind = "good"

IInv == StateOK /\ \A j \in Rollers : BuildOK(j)
=============================================================================
