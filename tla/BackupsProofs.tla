---------------------------- MODULE BackupsProofs ----------------------------
(***************************************************************************)
(* Proofs about the rolling archives, for any number of days and versions, *)
(* any retention settings, jobs and failures.                              *)
(*                                                                         *)
(* The property itself is not inductive: that a rename installs a verified *)
(* archive, and a newer one, depends on what the job read before.  BuildOK *)
(* follows a version from the archive pass through the temporary file.     *)
(***************************************************************************)
EXTENDS Backups, FiniteSetTheorems, WellFoundedInduction, TLAPS

\* What the proofs need of the types.
LEMMA Typing ==
  ASSUME StateOK
  PROVE  /\ job \in [AllJobs -> Job] /\ dated \in [Names -> File]
         /\ tmp \in [Rollers -> File] /\ roll \in [Rollers -> File]
         /\ ver \in Nat /\ today \in Days
         /\ Idle \in Job /\ None \in File /\ Torn \in File
  BY BackupNumbers DEF StateOK, Idle, Job, Labels, Days, None, Torn, File

\* The initial state satisfies the invariant: no file and no job.
LEMMA InitIInv == Init => IInv
  <1> SUFFICES ASSUME Init PROVE IInv
    OBVIOUS
  <1>1. 1 \in Days /\ 1 \in 1 .. MaxVer /\ Idle \in Job /\ None \in File
    BY BackupNumbers DEF Days, Idle, Job, Labels, None, File
  <1>2. StateOK
    BY <1>1 DEF Init, StateOK
  <1>3. ASSUME NEW j \in Rollers PROVE BuildOK(j)
    BY <1>3 DEF Init, BuildOK, Rollers, AllJobs, Idle, None
  <1> QED
    BY <1>2, <1>3 DEF IInv

\* The shape of the proofs below: a step of job j has to keep the types right and to
\* establish what its new position claims; the other jobs' files stay.
LEMMA StepInv ==
  ASSUME NEW j \in AllJobs, IInv, StateOK', ver' = ver,
         \A i \in AllJobs \ {j} : job'[i] = job[i],
         \A i \in Rollers \ {j} : tmp'[i] = tmp[i] /\ roll'[i] = roll[i],
         j \in Rollers => BuildOK(j)'
  PROVE  IInv'
  <1>1. ASSUME NEW i \in Rollers, i # j PROVE BuildOK(i)'
    <2>1. BuildOK(i) /\ job'[i] = job[i] /\ tmp'[i] = tmp[i] /\ roll'[i] = roll[i]
      BY <1>1 DEF IInv, Rollers, AllJobs
    <2> QED
      BY <2>1 DEF BuildOK
  <1> QED
    BY <1>1 DEF IInv

\* A job that only moves on: no archive changes and the new label promises nothing
\* about the files.
LEMMA MoveInv ==
  ASSUME NEW j \in AllJobs, NEW q \in Job, IInv, job' = [job EXCEPT ![j] = q],
         q.pc \notin {"open", "write", "verify", "rename"}, q.arch \in {0, job[j].arch},
         dated' \in [Names -> File], up' \in BOOLEAN,
         UNCHANGED <<roll, ver, today, proven>>,
         tmp' \in [Rollers -> File], \A i \in Rollers \ {j} : tmp'[i] = tmp[i]
  PROVE  IInv'
  <1>1. job' \in [AllJobs -> Job] /\ job'[j] = q /\ \A i \in AllJobs \ {j} : job'[i] = job[i]
    BY Typing DEF IInv
  <1>2. StateOK'
    BY <1>1 DEF IInv, StateOK
  <1>3. ASSUME j \in Rollers PROVE BuildOK(j)'
    <2>1. BuildOK(j) /\ job[j].arch \in Nat /\ ver \in Nat /\ roll[j].ver \in Nat
      BY <1>3, Typing DEF IInv, Job, File
    <2> QED
      BY <1>1, <2>1 DEF BuildOK
  <1> QED
    BY <1>1, <1>2, <1>3, StepInv

\* The same with the update written field by field, as the actions do.
LEMMA GotoInv ==
  ASSUME NEW j \in AllJobs, NEW l \in Labels, IInv, Goto(j, l),
         l \notin {"open", "write", "verify", "rename"},
         dated' \in [Names -> File], UNCHANGED <<roll, up, ver, today, proven>>,
         tmp' \in [Rollers -> File], \A i \in Rollers \ {j} : tmp'[i] = tmp[i]
  PROVE  IInv'
  <1> DEFINE q == [job[j] EXCEPT !.pc = l]
  <1>1. q \in Job /\ q.pc = l /\ q.arch = job[j].arch /\ up' \in BOOLEAN
    BY Typing DEF IInv, StateOK, Job
  <1>2. job' = [job EXCEPT ![j] = q]
    BY Typing DEF IInv, Goto
  <1> HIDE DEF q
  <1> QED
    BY <1>1, <1>2, MoveInv

LEMMA FinishInv ==
  ASSUME NEW j \in AllJobs, IInv, Finish(j),
         dated' \in [Names -> File], up' \in BOOLEAN, UNCHANGED <<roll, ver, today, proven>>,
         tmp' \in [Rollers -> File], \A i \in Rollers \ {j} : tmp'[i] = tmp[i]
  PROVE  IInv'
  <1>1. Idle \in Job /\ Idle.pc = "idle" /\ Idle.arch = 0
    BY Typing DEF IInv, Idle
  <1> QED
    BY <1>1, MoveInv DEF Finish

\* Writing or removing the file a job builds keeps the directory well formed.
LEMMA PutTyped ==
  ASSUME NEW j \in AllJobs, NEW f \in File, IInv, Put(j, f)
  PROVE  /\ dated' \in [Names -> File] /\ tmp' \in [Rollers -> File]
         /\ \A i \in Rollers \ {j} : tmp'[i] = tmp[i]
         /\ job[j].op = "roll" /\ j \in Rollers => tmp'[j] = f
  BY Typing DEF IInv, Put

\* A failed step of maintenance.Backup: the command ends, a task goes to "discard".
LEMMA FailInv ==
  ASSUME NEW j \in AllJobs, IInv, Fail(j), UNCHANGED <<dated, tmp, roll, up, ver, today, proven>>
  PROVE  IInv'
  <1>1. /\ dated' \in [Names -> File] /\ up' \in BOOLEAN /\ tmp' \in [Rollers -> File]
        /\ \A i \in Rollers \ {j} : tmp'[i] = tmp[i]
    BY DEF IInv, StateOK
  <1> QED
    BY <1>1, GotoInv, FinishInv DEF Fail, Labels

(***************************************************************************)
(* maintenance.Backup.                                                     *)
(***************************************************************************)
LEMMA BeginInv ==
  ASSUME NEW j \in AllJobs, NEW o \in {"full", "roll", "manual"}, IInv, Begin(j, o)
  PROVE  IInv'
  <1> DEFINE q == [job[j] EXCEPT !.pc = "hash", !.op = o, !.day = today]
  <1>1. q \in Job /\ q.pc = "hash" /\ q.arch = job[j].arch
    BY Typing DEF IInv, Job, Labels
  <1>2. job' = [job EXCEPT ![j] = q]
    BY Typing DEF IInv, Begin
  <1>3. dated' \in [Names -> File] /\ up' \in BOOLEAN /\ tmp' \in [Rollers -> File] /\ tmp' = tmp
    BY DEF IInv, StateOK, Begin
  <1> HIDE DEF q
  <1> QED
    BY <1>1, <1>2, <1>3, MoveInv DEF Begin

LEMMA HashInv == ASSUME NEW j \in AllJobs, IInv, Hash(j) PROVE IInv'
  <1> DEFINE q == [job[j] EXCEPT !.hash = ver, !.pc = "archive"]
  <1>1. q \in Job /\ q.pc = "archive" /\ q.arch = job[j].arch
    BY Typing DEF IInv, Job, Labels
  <1>2. job' = [job EXCEPT ![j] = q]
    BY Typing DEF IInv, Hash
  <1>3. dated' \in [Names -> File] /\ up' \in BOOLEAN /\ tmp' \in [Rollers -> File] /\ tmp' = tmp
    BY DEF IInv, StateOK, Hash
  <1> HIDE DEF q
  <1> QED
    BY <1>1, <1>2, <1>3, MoveInv DEF Hash

\* The archive pass reads data at least as new as every rolling archive.
LEMMA ArchiveInv == ASSUME NEW j \in AllJobs, IInv, Archive(j) PROVE IInv'
  <1>1. CASE Fail(j)
    BY <1>1, FailInv DEF Archive
  <1>2. CASE job' = [job EXCEPT ![j].arch = ver, ![j].pc = "open"]
    <2>1. /\ job' \in [AllJobs -> Job] /\ \A i \in AllJobs \ {j} : job'[i] = job[i]
          /\ job'[j].pc = "open" /\ job'[j].arch = ver
      BY <1>2, Typing DEF IInv, Job, Labels
    <2>2. StateOK'
      BY <2>1 DEF IInv, StateOK, Archive
    <2>3. ASSUME j \in Rollers PROVE BuildOK(j)'
      BY <2>1, <2>3, Typing DEF IInv, BuildOK, Archive, File
    <2> QED
      BY <2>1, <2>2, <2>3, StepInv DEF Archive
  <1> QED
    BY <1>1, <1>2 DEF Archive

LEMMA OpenInv == ASSUME NEW j \in AllJobs, IInv, Open(j) PROVE IInv'
  <1>1. CASE Fail(j) /\ UNCHANGED <<dated, tmp>>
    BY <1>1, FailInv DEF Open
  <1>2. CASE Put(j, Torn) /\ Goto(j, "write")
    <2>1. /\ job' \in [AllJobs -> Job] /\ \A i \in AllJobs \ {j} : job'[i] = job[i]
          /\ job'[j].pc = "write" /\ job'[j].arch = job[j].arch /\ job[j].pc = "open"
      BY <1>2, Typing DEF IInv, Job, Labels, Goto, Open, At
    <2>2. StateOK' /\ \A i \in Rollers \ {j} : tmp'[i] = tmp[i]
      BY <1>2, <2>1, PutTyped, Typing DEF IInv, StateOK, Open
    <2>3. ASSUME j \in Rollers PROVE BuildOK(j)'
      BY <2>1, <2>3 DEF IInv, BuildOK, Open
    <2> QED
      BY <2>1, <2>2, <2>3, StepInv DEF Open
  <1> QED
    BY <1>1, <1>2 DEF Open

LEMMA WriteInv == ASSUME NEW j \in AllJobs, IInv, Write(j) PROVE IInv'
  <1>0. /\ job[j] \in Job /\ Built(j) \in File /\ Built(j).ver = job[j].arch
        /\ job[j].pc = "write"
    BY Typing DEF IInv, Job, Built, File, Write, At
  <1>1. CASE Fail(j) /\ UNCHANGED <<dated, tmp>>
    BY <1>1, FailInv DEF Write
  <1>2. CASE Put(j, Built(j)) /\ Finish(j)
    <2>1. dated' \in [Names -> File] /\ tmp' \in [Rollers -> File] /\ up' \in BOOLEAN
          /\ \A i \in Rollers \ {j} : tmp'[i] = tmp[i]
      BY <1>0, <1>2, PutTyped DEF IInv, StateOK, Write
    <2> QED
      BY <1>2, <2>1, FinishInv DEF Write
  <1>3. CASE /\ Put(j, Built(j))
             /\ job' = [job EXCEPT ![j].pc = "verify", ![j].hash = 0, ![j].arch = 0]
    <2>1. /\ job' \in [AllJobs -> Job] /\ \A i \in AllJobs \ {j} : job'[i] = job[i]
          /\ job'[j].pc = "verify" /\ job'[j].arch = 0 /\ job'[j].op = job[j].op
      <3> DEFINE q == [job[j] EXCEPT !.pc = "verify", !.hash = 0, !.arch = 0]
      <3>1. q \in Job /\ q.pc = "verify" /\ q.arch = 0 /\ q.op = job[j].op
        BY <1>0 DEF Job, Labels
      <3>2. job' = [job EXCEPT ![j] = q] /\ job \in [AllJobs -> Job]
        BY <1>3, Typing DEF IInv
      <3> QED
        BY <3>1, <3>2
    <2>2. StateOK' /\ (\A i \in Rollers \ {j} : tmp'[i] = tmp[i])
          /\ (job[j].op = "roll" /\ j \in Rollers => tmp'[j] = Built(j))
      BY <1>0, <1>3, <2>1, PutTyped DEF IInv, StateOK, Write
    <2>3. ASSUME j \in Rollers PROVE BuildOK(j)'
      <3>1. BuildOK(j) /\ ver \in Nat /\ ver' = ver /\ roll' = roll
        BY <2>3, Typing DEF IInv, Write
      <3> QED
        BY <1>0, <2>1, <2>2, <2>3, <3>1 DEF BuildOK
    <2> QED
      BY <2>1, <2>2, <2>3, StepInv DEF Write
  <1> QED
    BY <1>1, <1>2, <1>3 DEF Write

(***************************************************************************)
(* The tasks.                                                              *)
(***************************************************************************)
LEMMA VerifyInv == ASSUME NEW j \in Rollers, IInv, Verify(j) PROVE IInv'
  <1>0. /\ j \in AllJobs /\ dated' \in [Names -> File] /\ up' \in BOOLEAN
        /\ tmp' \in [Rollers -> File] /\ tmp' = tmp /\ dated' = dated /\ job[j].pc = "verify"
    BY DEF IInv, StateOK, Verify, Rollers, AllJobs, At
  <1>1. CASE Goto(j, "discard") /\ UNCHANGED proven
    BY <1>0, <1>1, GotoInv DEF Verify, Labels
  <1>2. CASE job' = [job EXCEPT ![j].op = "roll", ![j].pc = "hash"] /\ proven' = TRUE
    <2>1. /\ job' \in [AllJobs -> Job] /\ \A i \in AllJobs \ {j} : job'[i] = job[i]
          /\ job'[j].pc = "hash" /\ job'[j].arch = job[j].arch
      BY <1>0, <1>2, Typing DEF IInv, Job, Labels
    <2>2. StateOK'
      BY <1>2, <2>1 DEF IInv, StateOK, Verify
    <2>3. BuildOK(j)'
      BY <1>0, <2>1 DEF IInv, BuildOK, Verify
    <2> QED
      BY <1>0, <2>1, <2>2, <2>3, StepInv DEF Verify
  <1>3. CASE /\ VerifyBackup(Building(j)) /\ job[j].op = "roll"
             /\ Goto(j, "rename") /\ UNCHANGED proven
    <2>1. /\ job' \in [AllJobs -> Job] /\ \A i \in AllJobs \ {j} : job'[i] = job[i]
          /\ job'[j].pc = "rename" /\ job'[j].arch = job[j].arch /\ job'[j].op = "roll"
      BY <1>0, <1>3, Typing DEF IInv, Job, Labels, Goto
    <2>2. StateOK'
      BY <1>3, <2>1 DEF IInv, StateOK, Verify
    <2>3. BuildOK(j)'
      BY <1>0, <1>3, <2>1 DEF IInv, BuildOK, Verify, VerifyBackup, Building
    <2> QED
      BY <1>0, <2>1, <2>2, <2>3, StepInv DEF Verify
  <1> QED
    BY <1>1, <1>2, <1>3 DEF Verify

LEMMA DiscardInv == ASSUME NEW j \in Rollers, IInv, Discard(j) PROVE IInv'
  <1>1. j \in AllJobs /\ up' \in BOOLEAN /\ None \in File
    BY Typing DEF IInv, StateOK, Discard, Rollers, AllJobs
  <1>2. /\ dated' \in [Names -> File] /\ tmp' \in [Rollers -> File]
        /\ \A i \in Rollers \ {j} : tmp'[i] = tmp[i]
    BY <1>1, PutTyped, Typing DEF IInv, Discard
  <1>3. Goto(j, "list") \/ Finish(j)
    BY DEF Discard, AfterRoll
  <1> QED
    BY <1>1, <1>2, <1>3, GotoInv, FinishInv DEF Discard, Labels

\* The one step that changes a rolling archive.
LEMMA Renamed ==
  ASSUME NEW j \in Rollers, IInv, Rename(j), roll' # roll
  PROVE  /\ roll' = [roll EXCEPT ![j] = tmp[j]]
         /\ tmp[j].kind = "good" /\ roll[j].ver <= tmp[j].ver /\ tmp[j].ver <= ver
  BY DEF IInv, BuildOK, Rename, At

LEMMA RenameInv == ASSUME NEW j \in Rollers, IInv, Rename(j) PROVE IInv'
  <1>0. j \in AllJobs /\ up' \in BOOLEAN /\ dated' \in [Names -> File] /\ None \in File
    BY Typing DEF IInv, StateOK, Rename, Rollers, AllJobs
  <1>1. CASE Goto(j, "discard") /\ UNCHANGED <<roll, tmp>>
    BY <1>0, <1>1, GotoInv, Typing DEF Rename, Labels, IInv
  <1>2. CASE /\ roll' = [roll EXCEPT ![j] = tmp[j]]
             /\ tmp' = [tmp EXCEPT ![j] = None]
             /\ AfterRoll(j)
    <2>1. /\ tmp' \in [Rollers -> File] /\ roll' \in [Rollers -> File] /\ roll'[j] = tmp[j]
          /\ \A i \in Rollers \ {j} : tmp'[i] = tmp[i] /\ roll'[i] = roll[i]
      BY <1>0, <1>2, Typing DEF IInv
    <2>2. /\ job' \in [AllJobs -> Job] /\ \A i \in AllJobs \ {j} : job'[i] = job[i]
          /\ job'[j].pc \in {"list", "idle"} /\ job'[j].arch \in {0, job[j].arch}
      BY <1>0, <1>2, Typing DEF IInv, AfterRoll, Goto, Finish, Job, Labels, Idle
    <2>3. StateOK'
      BY <1>0, <2>1, <2>2 DEF IInv, StateOK, Rename
    <2>4. BuildOK(j)'
      <3>1. BuildOK(j) /\ job[j].pc = "rename" /\ ver \in Nat /\ ver' = ver
        BY Typing DEF IInv, Rename, At
      <3> QED
        BY <2>1, <2>2, <3>1 DEF BuildOK
    <2> QED
      BY <1>0, <2>1, <2>2, <2>3, <2>4, StepInv DEF Rename
  <1> QED
    BY <1>1, <1>2 DEF Rename

(***************************************************************************)
(* Retention and cleanup: only the dated archives and the to-do lists.     *)
(***************************************************************************)
LEMMA TodoInv ==
  ASSUME NEW j \in AllJobs, NEW S \in SUBSET Names, NEW l \in {"prune", "cap"},
         NEW o \in {job[j].op, "clean"}, IInv,
         job' = [job EXCEPT ![j] = [job[j] EXCEPT !.todo = S, !.pc = l, !.op = o]],
         dated' \in [Names -> File], UNCHANGED <<tmp, roll, up, ver, today, proven>>
  PROVE  IInv'
  <1> DEFINE q == [job[j] EXCEPT !.todo = S, !.pc = l, !.op = o]
  <1>1. q \in Job /\ q.pc = l /\ q.arch = job[j].arch
    BY Typing DEF IInv, Job, Labels
  <1>2. up' \in BOOLEAN /\ tmp' \in [Rollers -> File]
    BY DEF IInv, StateOK
  <1>3. job' = [job EXCEPT ![j] = q]
    OBVIOUS
  <1> HIDE DEF q
  <1> QED
    BY <1>1, <1>2, <1>3, MoveInv

LEMMA ListInv == ASSUME IInv, List PROVE IInv'
  <1> DEFINE S == Doomed(job["daily"].op)
  <1>1. S \in SUBSET Names
    BY DEF Doomed, Fulls
  <1>2. "daily" \in AllJobs /\ job["daily"] \in Job /\ job \in [AllJobs -> Job]
    BY Typing DEF IInv, AllJobs
  <1>3. job' = [job EXCEPT !["daily"] =
                  [job["daily"] EXCEPT !.todo = S, !.pc = "prune", !.op = job["daily"].op]]
    BY <1>2 DEF List, Job
  <1> HIDE DEF S
  <1> QED
    BY <1>1, <1>2, <1>3, TodoInv DEF List, IInv, StateOK

LEMMA MeasureInv == ASSUME IInv, Measure PROVE IInv'
  <1>1. Fulls \in SUBSET Names
    BY DEF Fulls
  <1>2. "daily" \in AllJobs /\ job["daily"] \in Job /\ job \in [AllJobs -> Job]
    BY Typing DEF IInv, AllJobs
  <1>3. job' = [job EXCEPT !["daily"] =
                  [job["daily"] EXCEPT !.todo = Fulls, !.pc = "cap", !.op = job["daily"].op]]
    BY <1>2 DEF Measure, Job
  <1> QED
    BY <1>1, <1>2, <1>3, TodoInv DEF Measure, IInv, StateOK

\* Removing one file from the directory and from the to-do list.
LEMMA RemoveInv ==
  ASSUME NEW j \in AllJobs, NEW n \in Names, IInv, job[j].pc \in {"prune", "cap"},
         job' = [job EXCEPT ![j].todo = @ \ {n}],
         dated' = [dated EXCEPT ![n] = None] \/ UNCHANGED dated,
         UNCHANGED <<tmp, roll, up, ver, today, proven>>
  PROVE  IInv'
  <1>1. job \in [AllJobs -> Job] /\ job[j] \in Job /\ dated' \in [Names -> File]
    BY Typing DEF IInv
  <1>2. job[j].todo \ {n} \in SUBSET Names
    BY <1>1 DEF Job
  <1>3. job' = [job EXCEPT ![j] = [job[j] EXCEPT !.todo = job[j].todo \ {n},
                                                 !.pc = job[j].pc, !.op = job[j].op]]
    BY <1>1 DEF Job
  <1> QED
    BY <1>1, <1>2, <1>3, TodoInv

LEMMA PruneInv == ASSUME NEW j \in AllJobs, IInv, Prune(j) PROVE IInv'
  <1>1. PICK n \in job[j].todo : RemoveDated(n) /\ job' = [job EXCEPT ![j].todo = @ \ {n}]
    BY DEF Prune
  <1>2. n \in Names
    BY <1>1, Typing DEF IInv, Job
  <1> QED
    BY <1>1, <1>2, RemoveInv DEF Prune, RemoveDated, At

LEMMA CapSizeInv == ASSUME IInv, CapSize PROVE IInv'
  <1>1. PICK n \in job["daily"].todo :
            /\ job' = [job EXCEPT !["daily"].todo = @ \ {n}]
            /\ dated' = [dated EXCEPT ![n] = None] \/ UNCHANGED dated
    BY DEF CapSize
  <1>2. n \in Names /\ "daily" \in AllJobs
    BY <1>1, Typing DEF IInv, Job, AllJobs
  <1> QED
    BY <1>1, <1>2, RemoveInv DEF CapSize, At

LEMMA TrimInv == ASSUME IInv, TrimBackups PROVE IInv'
  <1>1. PICK S \in SUBSET Names :
            job' = [job EXCEPT !["cleaner"].todo = S, !["cleaner"].op = "clean",
                               !["cleaner"].pc = "prune"]
    BY DEF TrimBackups
  <1>2. "cleaner" \in AllJobs /\ job["cleaner"] \in Job /\ job \in [AllJobs -> Job]
    BY Typing DEF IInv, AllJobs
  <1>3. job' = [job EXCEPT !["cleaner"] =
                  [job["cleaner"] EXCEPT !.todo = S, !.pc = "prune", !.op = "clean"]]
    BY <1>1, <1>2 DEF Job
  <1> QED
    BY <1>2, <1>3, TodoInv DEF TrimBackups, IInv, StateOK

(***************************************************************************)
(* The server, and the theorems.                                           *)
(***************************************************************************)
LEMMA BootInv == ASSUME IInv, Boot PROVE IInv'
  <1> DEFINE q == [job["daily"] EXCEPT !.pc = "list", !.op = "sweep"]
  <1>1. "daily" \in AllJobs /\ q \in Job /\ q.pc = "list" /\ q.arch = job["daily"].arch
    BY Typing DEF IInv, Job, Labels, AllJobs
  <1>2. job' = [job EXCEPT !["daily"] = q]
    BY Typing DEF IInv, Boot, AllJobs
  <1>3. dated' \in [Names -> File] /\ up' \in BOOLEAN /\ tmp' \in [Rollers -> File] /\ tmp' = tmp
    BY DEF IInv, StateOK, Boot
  <1> HIDE DEF q
  <1> QED
    BY <1>1, <1>2, <1>3, MoveInv DEF Boot

LEMMA CrashInv == ASSUME IInv, Crash PROVE IInv'
  <1>1. job' \in [AllJobs -> Job] /\ \A j \in Rollers : job'[j] = Idle
    BY Typing DEF IInv, Crash, Rollers, AllJobs
  <1>2. StateOK'
    BY <1>1 DEF IInv, StateOK, Crash
  <1>3. ASSUME NEW j \in Rollers PROVE BuildOK(j)'
    BY <1>1, <1>3, Typing DEF IInv, BuildOK, Crash, Idle
  <1> QED
    BY <1>2, <1>3 DEF IInv

LEMMA EnvironmentInv == ASSUME IInv, DataWrite \/ NextDay PROVE IInv'
  <1>1. /\ ver' \in 1 .. MaxVer /\ ver' \in Nat /\ ver \in Nat /\ ver <= ver' /\ today' \in Days
        /\ UNCHANGED <<dated, tmp, roll, job, up, proven>>
    BY BackupNumbers DEF IInv, StateOK, DataWrite, NextDay, Days
  <1>2. StateOK'
    BY <1>1 DEF IInv, StateOK
  <1>3. ASSUME NEW j \in Rollers PROVE BuildOK(j)'
    <2>1. BuildOK(j) /\ tmp[j].ver \in Nat /\ roll[j].ver \in Nat /\ job[j].arch \in Nat
      BY <1>3, Typing DEF IInv, File, Job, Rollers, AllJobs
    <2> QED
      BY <1>1, <2>1 DEF BuildOK
  <1> QED
    BY <1>2, <1>3 DEF IInv

\* Every step keeps the invariant.
LEMMA NextIInv == IInv /\ [Next]_vars => IInv'
  <1> SUFFICES ASSUME IInv, [Next]_vars PROVE IInv'
    OBVIOUS
  <1>1. CASE BackupDaily \/ BackupHourly \/ BackupCommand
    BY <1>1, BeginInv DEF BackupDaily, BackupHourly, BackupCommand, AllJobs
  <1>2. CASE \E j \in {"daily", "hourly", "cli"} : Hash(j) \/ Archive(j) \/ Open(j) \/ Write(j)
    BY <1>2, HashInv, ArchiveInv, OpenInv, WriteInv DEF AllJobs
  <1>3. CASE \E j \in Rollers : Verify(j) \/ Discard(j) \/ Rename(j)
    BY <1>3, VerifyInv, DiscardInv, RenameInv
  <1>4. CASE List \/ Measure \/ CapSize \/ TrimBackups
    BY <1>4, ListInv, MeasureInv, CapSizeInv, TrimInv
  <1>5. CASE \E j \in {"daily", "cleaner"} : Prune(j)
    BY <1>5, PruneInv DEF AllJobs
  <1>6. CASE \E j \in {"daily", "cleaner"} : Pruned(j)
    <2>1. PICK j \in {"daily", "cleaner"} : Pruned(j)
      BY <1>6
    <2>2. /\ j \in AllJobs /\ dated' \in [Names -> File] /\ up' \in BOOLEAN
          /\ tmp' \in [Rollers -> File] /\ tmp' = tmp
      BY <2>1 DEF Pruned, IInv, StateOK, AllJobs
    <2> QED
      BY <2>1, <2>2, GotoInv, FinishInv DEF Pruned, Labels
  <1>7. CASE RetentionDone \/ Interrupt
    <2>1. /\ dated' \in [Names -> File] /\ up' \in BOOLEAN
          /\ tmp' \in [Rollers -> File] /\ tmp' = tmp
      BY <1>7 DEF RetentionDone, Interrupt, IInv, StateOK
    <2> QED
      BY <1>7, <2>1, FinishInv DEF RetentionDone, Interrupt, AllJobs
  <1>8. CASE Boot \/ Crash \/ DataWrite \/ NextDay
    BY <1>8, BootInv, CrashInv, EnvironmentInv
  <1>9. CASE UNCHANGED vars
    BY <1>9 DEF vars, IInv, StateOK, BuildOK
  <1> QED
    BY <1>1, <1>2, <1>3, <1>4, <1>5, <1>6, <1>7, <1>8, <1>9 DEF Next

\* The inductive invariant holds in every reachable state of the backup directory.
THEOREM Invariance == Spec => []IInv
  BY InitIInv, NextIInv, PTL DEF Spec

\* At every moment, crashes and failures included, a rolling archive is absent or one
\* that VerifyBackup accepted.
THEOREM RollingAlwaysSound == Spec => []RollingSound
  <1>1. IInv => RollingSound
    BY DEF IInv, BuildOK, RollingSound
  <1> QED
    BY <1>1, Invariance, PTL

\* No step of any job removes a rolling archive or replaces it by an older one.
THEOREM RollingNeverGoesBack == Spec => RollingNeverLost
  <1> DEFINE Kept == \A j \in Rollers : roll[j].kind # "none" =>
                        roll'[j].kind # "none" /\ roll[j].ver <= roll'[j].ver
  <1>1. ASSUME IInv, [Next]_vars PROVE Kept
    <2>0. \A i \in Rollers : roll[i].ver \in Nat
      BY <1>1, Typing DEF IInv, File
    <2>1. CASE roll' = roll
      BY <2>0, <2>1
    <2>2. CASE roll' # roll
      <3>1. PICK j \in Rollers : Rename(j)
        BY <1>1, <2>2
        DEF Next, vars, BackupDaily, BackupHourly, BackupCommand, Begin, Hash, Archive, Open,
            Write, Verify, Discard, List, Measure, CapSize, RetentionDone, TrimBackups, Prune,
            Pruned, Boot, Crash, Interrupt, DataWrite, NextDay
      <3>2. /\ roll' = [roll EXCEPT ![j] = tmp[j]]
            /\ tmp[j].kind = "good" /\ roll[j].ver <= tmp[j].ver
        BY <1>1, <2>2, <3>1, Renamed
      <3> QED
        BY <1>1, <2>0, <3>2, Typing DEF IInv
    <2> QED
      BY <2>1, <2>2
  <1>2. IInv /\ [Next]_vars => [Kept]_vars
    BY <1>1
  <1> QED
    BY <1>2, Invariance, PTL DEF Spec, RollingNeverLost
-----------------------------------------------------------------------------
(***************************************************************************)
(* The dated archives.  Retention counts what it lists and deletes later,  *)
(* so both properties need what the job's list still promises: AllTiersOK  *)
(* bounds each tier at every position of backup_daily, and KeepersOK names *)
(* the archive that neither retention nor the cleanup is going to delete.  *)
(***************************************************************************)
TierNames == Tiers \cup {"daily"}

\* Who builds what, and who sweeps.
JobsOK ==
    /\ job["cli"].pc \in {"idle", "hash", "archive", "open", "write"}
    /\ job["cli"].pc # "idle" => job["cli"].op = "manual"
    /\ job["hourly"].pc \in {"idle", "hash", "archive", "open", "write", "verify", "discard", "rename"}
    /\ job["hourly"].pc # "idle" => job["hourly"].op = "roll"
    /\ job["cleaner"].pc \in {"idle", "prune"}
    /\ job["daily"].pc \in {"hash", "archive", "open", "write", "verify", "discard"} =>
          job["daily"].op \in {"full", "roll"}
    /\ job["daily"].pc = "rename" => job["daily"].op = "roll"
    /\ job["daily"].pc \in {"list", "prune", "measure", "cap"} => job["daily"].op \in {"roll", "sweep"}

\* How many archives a tier has: one too many only while one is being built or waits
\* for retention, and never one that retention has on its list.
TierOK(t) ==
    LET q == job["daily"]  L == Limit(t, "full") IN
    /\ Cardinality(InTier(t)) <= L + 1
    /\ up /\ q.pc = "idle" => Cardinality(InTier(t)) <= L
    /\ q.op = "full" /\ q.pc # "idle" => Cardinality(InTier(t) \ {<<"full", q.day>>}) <= L
    /\ q.pc = "prune" => Cardinality(InTier(t) \ q.todo) <= L
    /\ q.pc \in {"measure", "cap"} => Cardinality(InTier(t)) <= L

AllTiersOK == \A t \in TierNames : TierOK(t)

\* Work on the dated archive has not got to its verification, or there is none.
Unverified == job["daily"].pc = "idle" \/ job["daily"].op = "full"

\* An archive at least as new as all the cleanup deletes stays, unless backup_daily
\* discards it as a failed one.
CleanerKeeps ==
    job["cleaner"].todo # {} =>
        \E k \in Names \ job["cleaner"].todo :
            /\ \A n \in job["cleaner"].todo : n[2] <= k[2]
            /\ \/ OnDisk(k)
               \/ /\ k[1] = "full" /\ Unverified
                  /\ k[2] <= (IF job["daily"].pc = "idle" THEN today ELSE job["daily"].day)

\* The archive that outlives the list of the retention: newer than all the tiers
\* give up, and not older than any the size cap looks at.
RetentionKeeps ==
    LET q == job["daily"]  c == job["cleaner"] IN
    /\ q.pc \in {"prune", "cap"} => \A n \in q.todo : n[1] = "full"
    /\ q.pc = "prune" /\ q.todo # {} =>
         \E m \in Names \ (q.todo \cup c.todo) : OnDisk(m) /\ \A n \in q.todo : n[2] < m[2]
    /\ q.pc = "cap" /\ q.todo # {} =>
         \E m \in Names \ c.todo : OnDisk(m) /\ \A n \in q.todo : n[2] <= m[2]

\* The job's date is not in the future, and the cleanup runs only under a server.
DatesOK == job["daily"].pc # "idle" /\ job["daily"].op = "full" => job["daily"].day <= today
ServerCleans == ~up => job["cleaner"].todo = {}

KeepersOK == CleanerKeeps /\ RetentionKeeps /\ DatesOK /\ ServerCleans
\* What a step of a job that builds an archive does: only the file it builds changes,
\* only a discard removes it, and a dated archive is left for the rolling one when it
\* has been verified.
BuildStep(j) ==
    LET q == job[j]  p == job'[j]  own == <<q.op, q.day>> IN
    /\ q.pc \in {"hash", "archive", "open", "write", "verify", "discard", "rename"}
    /\ UNCHANGED <<up, today>>
    /\ \A i \in AllJobs \ {j} : job'[i] = job[i]
    /\ \A n \in Names : n # own \/ q.op = "roll" => dated'[n] = dated[n]
    /\ q.op # "roll" /\ OnDisk(own) /\ dated'[own].kind = "none" => q.pc = "discard"
    /\ \/ /\ p = Idle /\ j # "daily"
       \/ /\ p = Idle /\ q.pc = "discard" /\ q.op = "full"
          /\ RemovesFail \/ dated'[own].kind = "none"
       \/ /\ p.pc \in {"archive", "open", "write", "discard"} \cup
                      (IF j = "cli" THEN {} ELSE {"verify"})
          /\ p.op = q.op /\ p.day = q.day /\ p.todo = q.todo
          /\ p.pc = "discard" => j # "cli"
       \/ /\ p.pc = "rename" /\ p.op = "roll" /\ q.op = "roll" /\ p.todo = q.todo /\ j # "cli"
       \/ /\ q.pc = "verify" /\ q.op = "full" /\ OnDisk(own) /\ p.pc = "hash" /\ p.op = "roll" /\ p.todo = q.todo
       \/ /\ j = "daily" /\ q.op = "roll" /\ p.pc = "list" /\ p.op = "roll" /\ p.todo = q.todo

\* Names and sizes.
LEMMA NamesFinite == IsFiniteSet(Names)
  <1>1. IsFiniteSet(Days)
    BY BackupNumbers, FS_Interval DEF Days
  <1>2. IsFiniteSet({"full"} \cup {"manual"})
    BY FS_Singleton, FS_AddElement
  <1>3. {"full", "manual"} = {"full"} \cup {"manual"}
    OBVIOUS
  <1> QED
    BY <1>1, <1>2, <1>3, FS_Product DEF Names

\* A part of the directory has no more archives than the whole.
LEMMA CountLess ==
  ASSUME NEW S, NEW T \in SUBSET Names, S \subseteq T
  PROVE  /\ IsFiniteSet(S) /\ IsFiniteSet(T)
         /\ Cardinality(S) \in Nat /\ Cardinality(T) \in Nat /\ Cardinality(S) <= Cardinality(T)
  <1>1. IsFiniteSet(T)
    BY NamesFinite, FS_Subset
  <1>2. IsFiniteSet(S) /\ Cardinality(S) <= Cardinality(T)
    BY <1>1, FS_Subset
  <1> QED
    BY <1>1, <1>2, FS_CardinalityType

\* The limits are numbers, and those of the sweep are not higher.
LEMMA LimitType ==
  ASSUME NEW t \in TierNames, NEW o
  PROVE  Limit(t, o) \in Nat /\ Limit(t, "full") \in Nat /\ Limit(t, o) <= Limit(t, "full")
  BY BackupNumbers, BackupTiers DEF Limit, MaxBackupsOf, TierNames, Tiers

\* A nonempty set of archives has an oldest and a newest one.
LEMMA OldestNewest ==
  ASSUME NEW S \in SUBSET Names, S # {}
  PROVE  /\ \E x \in S : \A y \in S : x[2] <= y[2]
         /\ \E x \in S : \A y \in S : y[2] <= x[2]
  <1> DEFINE Lt == OpToRel(<, Nat)
             Low == {n[2] : n \in S}
             High == {MaxDay - n[2] : n \in S}
  <1>1. \A n \in S : n[2] \in Nat /\ MaxDay - n[2] \in Nat
    BY BackupNumbers DEF Names, Days
  <1>2. \A a, b \in Nat : a < b => <<a, b>> \in Lt
    BY DEF OpToRel
  <1>3. Low \subseteq Nat /\ Low # {} /\ High \subseteq Nat /\ High # {}
    BY <1>1
  <1>4. IsWellFoundedOn(Lt, Nat)
    BY NatLessThanWellFounded
  <1> HIDE DEF Lt
  <1>5. PICK a \in Low : \A b \in Low : ~(<<b, a>> \in Lt)
    BY <1>3, <1>4, WFMin
  <1>6. PICK c \in High : \A b \in High : ~(<<b, c>> \in Lt)
    BY <1>3, <1>4, WFMin
  <1>7. PICK x \in S : x[2] = a
    BY <1>5
  <1>8. PICK z \in S : MaxDay - z[2] = c
    BY <1>6
  <1>9. \A y \in S : x[2] <= y[2]
    <2>1. ASSUME NEW y \in S, y[2] < x[2] PROVE FALSE
      BY <1>1, <1>2, <1>5, <1>7, <2>1
    <2> QED
      BY <1>1, <2>1
  <1>10. \A y \in S : y[2] <= z[2]
    <2>1. ASSUME NEW y \in S, z[2] < y[2] PROVE FALSE
      <3>1. MaxDay - y[2] < MaxDay - z[2]
        BY <2>1, <1>1, BackupNumbers DEF Names, Days
      <3> QED
        BY <1>1, <1>2, <1>6, <1>8, <3>1
    <2> QED
      BY <1>1, <2>1
  <1> QED
    BY <1>9, <1>10
\* Every step of the jobs that build archives is such a step.
LEMMA BuildStepPut ==
  ASSUME NEW j \in {"daily", "hourly", "cli"}, NEW f \in File, IInv, JobsOK, Put(j, f),
         job[j].pc \in {"open", "write", "discard"}
  PROVE  LET own == <<job[j].op, job[j].day>> IN
         /\ \A n \in Names : n # own \/ job[j].op = "roll" => dated'[n] = dated[n]
         /\ job[j].op # "roll" => own \in Names
         /\ job[j].op # "roll" => dated'[own] = f
  <1>1. job[j] \in Job /\ dated \in [Names -> File] /\ job[j].day \in Days
    BY Typing DEF IInv, AllJobs, Job
  <1>2. job[j].op # "roll" => job[j].op \in {"full", "manual"}
    BY DEF JobsOK
  <1> QED
    BY <1>1, <1>2 DEF Put, Names

LEMMA BuildSteps ==
  ASSUME IInv, JobsOK, NEW j \in {"daily", "hourly", "cli"},
         \/ Hash(j) \/ Archive(j) \/ Open(j) \/ Write(j)
         \/ j \in Rollers /\ (Verify(j) \/ Discard(j) \/ Rename(j))
  PROVE  BuildStep(j)
  <1>0. /\ job \in [AllJobs -> Job] /\ j \in AllJobs /\ dated \in [Names -> File]
        /\ job[j] \in Job /\ None \in File /\ Torn \in File /\ Torn.kind # "none"
    BY Typing DEF IInv, AllJobs, Torn
  <1>1. ASSUME NEW l \in Labels, Goto(j, l)
        PROVE  /\ \A i \in AllJobs \ {j} : job'[i] = job[i]
               /\ job'[j].pc = l /\ job'[j].op = job[j].op /\ job'[j].day = job[j].day
               /\ job'[j].todo = job[j].todo
    BY <1>0, <1>1 DEF Goto, Job
  <1>2. ASSUME Finish(j)
        PROVE  (\A i \in AllJobs \ {j} : job'[i] = job[i]) /\ job'[j] = Idle
    BY <1>0, <1>2 DEF Finish
  <1>3. ASSUME Fail(j), UNCHANGED <<up, today, dated>>,
               job[j].pc \in {"archive", "open", "write"}
        PROVE  BuildStep(j)
    <2>1. CASE j = "cli"
      BY <1>2, <1>3, <2>1 DEF BuildStep, Fail, OnDisk
    <2>2. CASE j # "cli"
      BY <1>1, <1>3, <2>2 DEF BuildStep, Fail, OnDisk, Labels
    <2> QED
      BY <2>1, <2>2
  <1>4. CASE Hash(j)
    <2>1. /\ \A i \in AllJobs \ {j} : job'[i] = job[i]
          /\ job'[j].pc = "archive" /\ job'[j].op = job[j].op /\ job'[j].day = job[j].day
          /\ job'[j].todo = job[j].todo
      BY <1>0, <1>4 DEF Hash, Job
    <2> QED
      BY <1>4, <2>1 DEF Hash, BuildStep, OnDisk, At
  <1>5. CASE Archive(j)
    <2>1. CASE job' = [job EXCEPT ![j].arch = ver, ![j].pc = "open"]
      <3>1. /\ \A i \in AllJobs \ {j} : job'[i] = job[i]
            /\ job'[j].pc = "open" /\ job'[j].op = job[j].op /\ job'[j].day = job[j].day
            /\ job'[j].todo = job[j].todo
        BY <1>0, <2>1 DEF Job
      <3> QED
        BY <1>5, <3>1 DEF Archive, BuildStep, OnDisk, At
    <2> QED
      BY <1>3, <1>5, <2>1 DEF Archive, At
  <1>6. CASE Open(j)
    <2>1. CASE Put(j, Torn) /\ Goto(j, "write")
      <3>1. "write" \in Labels /\ job[j].pc = "open"
        BY <1>6 DEF Labels, Open, At
      <3>2. LET own == <<job[j].op, job[j].day>> IN
            /\ \A n \in Names : n # own \/ job[j].op = "roll" => dated'[n] = dated[n]
            /\ job[j].op # "roll" => dated'[own] = Torn
        BY <1>0, <2>1, <3>1, BuildStepPut
      <3> QED
        BY <1>0, <1>1, <1>6, <2>1, <3>1, <3>2 DEF Open, BuildStep
    <2> QED
      BY <1>3, <1>6, <2>1 DEF Open, At
  <1>7. CASE Write(j)
    <2>1. CASE Put(j, Built(j)) /\ ~(Fail(j) /\ UNCHANGED <<dated, tmp>>)
      <3>1. job[j].pc = "write" /\ Built(j) \in File /\ Built(j).kind # "none"
        BY <1>0, <1>7 DEF Write, At, Built, File, Job
      <3>2. LET own == <<job[j].op, job[j].day>> IN
            /\ \A n \in Names : n # own \/ job[j].op = "roll" => dated'[n] = dated[n]
            /\ job[j].op # "roll" => dated'[own].kind # "none"
        BY <2>1, <3>1, BuildStepPut
      <3>3. CASE j = "cli"
        BY <1>2, <1>7, <2>1, <3>1, <3>2, <3>3 DEF Write, BuildStep
      <3>4. CASE j # "cli"
        <4>1. /\ \A i \in AllJobs \ {j} : job'[i] = job[i]
              /\ job'[j].pc = "verify" /\ job'[j].op = job[j].op /\ job'[j].day = job[j].day
              /\ job'[j].todo = job[j].todo
          BY <1>0, <1>7, <2>1, <3>4 DEF Write, Job
        <4> QED
          BY <1>7, <3>1, <3>2, <3>4, <4>1 DEF Write, BuildStep
      <3> QED
        BY <3>3, <3>4
    <2>2. CASE Fail(j) /\ UNCHANGED <<dated, tmp>>
      BY <1>3, <1>7, <2>2 DEF Write, At
    <2> QED
      BY <1>7, <2>1, <2>2 DEF Write
  <1>8. CASE j \in Rollers /\ Verify(j)
    <2>0. /\ job[j].pc = "verify" /\ UNCHANGED <<dated, up, today>> /\ j # "cli"
      BY <1>8 DEF Verify, At, Rollers
    <2>1. CASE Goto(j, "discard")
      BY <1>1, <2>0, <2>1 DEF BuildStep, OnDisk, Labels
    <2>2. CASE job[j].op = "roll" /\ Goto(j, "rename")
      BY <1>1, <2>0, <2>2 DEF BuildStep, OnDisk, Labels
    <2>3. CASE /\ VerifyBackup(Building(j)) /\ job[j].op = "full"
               /\ job' = [job EXCEPT ![j].op = "roll", ![j].pc = "hash"]
      <3>1. /\ \A i \in AllJobs \ {j} : job'[i] = job[i]
            /\ job'[j].pc = "hash" /\ job'[j].op = "roll" /\ job'[j].todo = job[j].todo
        BY <1>0, <2>3 DEF Job
      <3>2. OnDisk(<<job[j].op, job[j].day>>)
        BY <2>3 DEF VerifyBackup, Building, OnDisk
      <3> QED
        BY <2>0, <2>3, <3>1, <3>2 DEF BuildStep, OnDisk
    <2> QED
      BY <1>8, <2>1, <2>2, <2>3 DEF Verify
  <1>9. CASE j \in Rollers /\ Discard(j)
    <2>0. /\ job[j].pc = "discard" /\ UNCHANGED <<up, today>> /\ j # "cli"
      BY <1>9 DEF Discard, At, Rollers
    <2>1. LET own == <<job[j].op, job[j].day>> IN
          /\ \A n \in Names : n # own \/ job[j].op = "roll" => dated'[n] = dated[n]
          /\ job[j].op # "roll" => RemovesFail \/ dated'[own].kind = "none"
      BY <1>0, <1>9, <2>0, BuildStepPut DEF Discard, None
    <2>2. CASE job[j].op = "roll" /\ j = "daily"
      BY <1>1, <1>9, <2>0, <2>1, <2>2 DEF Discard, AfterRoll, BuildStep, Labels
    <2>3. CASE job[j].op = "roll" /\ j # "daily"
      BY <1>2, <1>9, <2>0, <2>1, <2>3 DEF Discard, AfterRoll, BuildStep
    <2>4. CASE job[j].op # "roll"
      <3>1. job[j].op = "full"
        BY <1>9, <2>0, <2>4 DEF JobsOK, Rollers
      <3> QED
        BY <1>2, <1>9, <2>0, <2>1, <2>4, <3>1 DEF Discard, BuildStep
    <2> QED
      BY <2>2, <2>3, <2>4
  <1>10. CASE j \in Rollers /\ Rename(j)
    <2>0. /\ job[j].pc = "rename" /\ UNCHANGED <<dated, up, today>> /\ j # "cli" /\ job[j].op = "roll"
      BY <1>10 DEF Rename, At, Rollers, JobsOK
    <2>1. CASE Goto(j, "discard")
      BY <1>1, <2>0, <2>1 DEF BuildStep, OnDisk, Labels
    <2>2. CASE AfterRoll(j)
      BY <1>1, <1>2, <2>0, <2>2 DEF BuildStep, OnDisk, Labels, AfterRoll
    <2> QED
      BY <1>10, <2>1, <2>2 DEF Rename
  <1> QED
    BY <1>4, <1>5, <1>6, <1>7, <1>8, <1>9, <1>10
\* What the other steps do to the jobs.
Only(j) == \A i \in AllJobs \ {j} : job'[i] = job[i]

LEMMA BeginMoves ==
  ASSUME IInv, NEW j \in {"daily", "hourly", "cli"}, NEW o, Begin(j, o)
  PROVE  /\ Only(j) /\ job[j].pc = "idle" /\ (up \/ j = "cli")
         /\ job'[j].pc = "hash" /\ job'[j].op = o /\ job'[j].day = today /\ job'[j].todo = job[j].todo
         /\ UNCHANGED <<dated, up, today>>
  <1>1. job \in [AllJobs -> Job] /\ j \in AllJobs /\ job[j] \in Job
    BY Typing DEF IInv, AllJobs
  <1> QED
    BY <1>1 DEF Begin, Ready, At, Only, Job

LEMMA ListMoves ==
  ASSUME IInv, List \/ Measure
  PROVE  /\ Only("daily") /\ UNCHANGED <<dated, up, today>> /\ job'["daily"].op = job["daily"].op
         /\ List => /\ job["daily"].pc = "list" /\ job'["daily"].pc = "prune"
                    /\ job'["daily"].todo = Doomed(job["daily"].op)
         /\ Measure => /\ job["daily"].pc = "measure" /\ job'["daily"].pc = "cap"
                       /\ job'["daily"].todo = Fulls
  <1>1. job \in [AllJobs -> Job] /\ "daily" \in AllJobs /\ job["daily"] \in Job
    BY Typing DEF IInv, AllJobs
  <1>2. CASE List
    <2>1. job["daily"].pc = "list" /\ ~Measure
      BY <1>2 DEF List, Measure, At
    <2> QED
      BY <1>1, <1>2, <2>1 DEF List, Only, Job, At
  <1>3. CASE Measure
    <2>1. job["daily"].pc = "measure" /\ ~List
      BY <1>3 DEF List, Measure, At
    <2> QED
      BY <1>1, <1>3, <2>1 DEF Measure, Only, Job, At
  <1> QED
    BY <1>2, <1>3

\* One file comes off the list, and goes unless the removal fails.
LEMMA RemoveMoves ==
  ASSUME IInv, NEW j \in {"daily", "cleaner"}, Prune(j) \/ (j = "daily" /\ CapSize)
  PROVE  \E n \in job[j].todo :
            /\ n \in Names /\ Only(j) /\ UNCHANGED <<up, today>>
            /\ job'[j].pc = job[j].pc /\ job'[j].op = job[j].op /\ job'[j].todo = job[j].todo \ {n}
            /\ dated' = [dated EXCEPT ![n] = None] \/ UNCHANGED dated
            /\ RemovesFail \/ dated'[n].kind = "none"
            /\ Prune(j) => job[j].pc = "prune" /\ \A m \in job[j].todo : m[2] <= n[2]
            /\ ~Prune(j) => /\ job[j].pc = "cap" /\ Cardinality(job[j].todo) > 1
                            /\ \A m \in job[j].todo : n[2] <= m[2]
  <1>1. /\ job \in [AllJobs -> Job] /\ j \in AllJobs /\ job[j] \in Job
        /\ dated \in [Names -> File] /\ job[j].todo \subseteq Names
    BY Typing DEF IInv, AllJobs, Job
  <1>2. ASSUME NEW n \in Names, job' = [job EXCEPT ![j].todo = @ \ {n}]
        PROVE  /\ Only(j) /\ job'[j].pc = job[j].pc /\ job'[j].op = job[j].op
               /\ job'[j].todo = job[j].todo \ {n}
    BY <1>1, <1>2 DEF Only, Job
  <1>3. CASE Prune(j)
    <2>1. PICK n \in job[j].todo :
            /\ \A m \in job[j].todo : m[2] <= n[2]
            /\ RemoveDated(n) /\ job' = [job EXCEPT ![j].todo = @ \ {n}]
      BY <1>3 DEF Prune
    <2>2. RemovesFail \/ dated'[n].kind = "none"
      BY <1>1, <2>1 DEF RemoveDated, None
    <2> QED
      BY <1>1, <1>2, <1>3, <2>1, <2>2 DEF Prune, RemoveDated, At
  <1>4. CASE ~Prune(j)
    <2>1. PICK n \in job["daily"].todo :
            /\ \A m \in job["daily"].todo : n[2] <= m[2]
            /\ job' = [job EXCEPT !["daily"].todo = @ \ {n}]
            /\ \/ OnDisk(n) /\ dated' = [dated EXCEPT ![n] = None]
               \/ (~OnDisk(n) \/ RemovesFail) /\ UNCHANGED dated
      BY <1>4 DEF CapSize
    <2>2. RemovesFail \/ dated'[n].kind = "none"
      BY <1>1, <1>4, <2>1 DEF None, OnDisk
    <2> QED
      BY <1>1, <1>2, <1>4, <2>1, <2>2 DEF CapSize, OverCap, At
  <1> QED
    BY <1>3, <1>4

LEMMA PrunedMoves ==
  ASSUME IInv, NEW j \in {"daily", "cleaner"}, Pruned(j)
  PROVE  /\ Only(j) /\ UNCHANGED <<dated, up, today>> /\ job[j].pc = "prune" /\ job[j].todo = {}
         /\ j = "daily" => job'[j].pc = "measure" /\ job'[j].op = job[j].op /\ job'[j].todo = {}
         /\ j = "cleaner" => job'[j] = Idle
  <1>1. job \in [AllJobs -> Job] /\ j \in AllJobs /\ job[j] \in Job
    BY Typing DEF IInv, AllJobs
  <1> QED
    BY <1>1 DEF Pruned, Only, Job, At, Goto, Finish

LEMMA TrimMoves ==
  ASSUME IInv, TrimBackups
  PROVE  \E kept \in SUBSET {n \in Names : OnDisk(n)} :
            /\ kept # {} /\ Only("cleaner") /\ UNCHANGED <<dated, up, today>> /\ up
            /\ job'["cleaner"].pc = "prune"
            /\ job'["cleaner"].todo = {n \in Names : OnDisk(n)} \ kept
            /\ \A k \in kept, n \in {m \in Names : OnDisk(m)} \ kept : n[2] <= k[2]
  <1>1. job \in [AllJobs -> Job] /\ "cleaner" \in AllJobs /\ job["cleaner"] \in Job
    BY Typing DEF IInv, AllJobs
  <1> DEFINE files == {n \in Names : OnDisk(n)}
  <1>2. PICK kept \in SUBSET files :
            /\ Cardinality(kept) = CleanKeep
            /\ \A k \in kept, n \in files \ kept : n[2] <= k[2]
            /\ job' = [job EXCEPT !["cleaner"].todo = files \ kept, !["cleaner"].op = "clean",
                                  !["cleaner"].pc = "prune"]
    BY DEF TrimBackups
  <1>3. kept # {}
    BY <1>2, BackupNumbers, FS_EmptySet
  <1>4. Only("cleaner") /\ job'["cleaner"].pc = "prune" /\ job'["cleaner"].todo = files \ kept
    BY <1>1, <1>2 DEF Only, Job
  <1>5. up /\ UNCHANGED <<dated, up, today>>
    BY DEF TrimBackups, Ready
  <1> QED
    BY <1>2, <1>3, <1>4, <1>5

LEMMA ServerMoves ==
  ASSUME IInv
  PROVE  /\ Boot => /\ Only("daily") /\ UNCHANGED <<dated, up, today>> /\ ~up
                    /\ job["daily"].pc = "idle" /\ job'["daily"].pc = "list"
                    /\ job'["daily"].op = "sweep" /\ job'["daily"].todo = job["daily"].todo
         /\ Crash => /\ UNCHANGED <<dated, today>> /\ up' = FALSE /\ job'["cli"] = job["cli"]
                     /\ \A i \in AllJobs \ {"cli"} : job'[i] = Idle
         /\ Interrupt => Only("cli") /\ job'["cli"] = Idle /\ UNCHANGED <<dated, up, today>>
         /\ RetentionDone => /\ Only("daily") /\ job'["daily"] = Idle /\ up' = TRUE
                             /\ job["daily"].pc = "cap" /\ UNCHANGED <<dated, today>>
  <1>1. /\ job \in [AllJobs -> Job] /\ "daily" \in AllJobs /\ "cli" \in AllJobs
        /\ job["daily"] \in Job
    BY Typing DEF IInv, AllJobs
  <1>2. ASSUME Boot
        PROVE  /\ Only("daily") /\ UNCHANGED <<dated, up, today>> /\ ~up
               /\ job["daily"].pc = "idle" /\ job'["daily"].pc = "list"
               /\ job'["daily"].op = "sweep" /\ job'["daily"].todo = job["daily"].todo
    BY <1>1, <1>2 DEF Boot, Only, Job, At
  <1>3. ASSUME Crash
        PROVE  /\ UNCHANGED <<dated, today>> /\ up' = FALSE /\ job'["cli"] = job["cli"]
               /\ \A i \in AllJobs \ {"cli"} : job'[i] = Idle
    BY <1>1, <1>3 DEF Crash
  <1>4. ASSUME Interrupt
        PROVE  Only("cli") /\ job'["cli"] = Idle /\ UNCHANGED <<dated, up, today>>
    BY <1>1, <1>4 DEF Interrupt, Finish, Only
  <1>5. ASSUME RetentionDone
        PROVE  /\ Only("daily") /\ job'["daily"] = Idle /\ up' = TRUE
               /\ job["daily"].pc = "cap" /\ UNCHANGED <<dated, today>>
    BY <1>1, <1>5 DEF RetentionDone, Finish, Only, At
  <1> QED
    BY <1>2, <1>3, <1>4, <1>5
\* The steps there are, as the lemmas above describe them.
LEMMA Steps ==
  ASSUME IInv, JobsOK, [Next]_vars
  PROVE  \/ \E j \in {"daily", "hourly", "cli"} : BuildStep(j)
         \/ Begin("daily", "full") \/ Begin("hourly", "roll") \/ Begin("cli", "manual")
         \/ List \/ Measure \/ TrimBackups
         \/ \E j \in {"daily", "cleaner"} : Prune(j) \/ (j = "daily" /\ CapSize)
         \/ \E j \in {"daily", "cleaner"} : Pruned(j)
         \/ Boot \/ Crash \/ Interrupt \/ RetentionDone
         \/ UNCHANGED <<dated, job, up>> /\ today <= today'
  <1>1. CASE \E j \in {"daily", "hourly", "cli"} : Hash(j) \/ Archive(j) \/ Open(j) \/ Write(j)
    BY <1>1, BuildSteps
  <1>2. CASE \E j \in Rollers : Verify(j) \/ Discard(j) \/ Rename(j)
    <2>1. PICK j \in Rollers : Verify(j) \/ Discard(j) \/ Rename(j)
      BY <1>2
    <2>2. j \in {"daily", "hourly", "cli"}
      BY DEF Rollers
    <2> QED
      BY <2>1, <2>2, BuildSteps
  <1>3. CASE DataWrite \/ NextDay \/ UNCHANGED vars
    BY <1>3, Typing DEF DataWrite, NextDay, vars, IInv, Days
  <1> QED
    BY <1>1, <1>2, <1>3 DEF Next, BackupDaily, BackupHourly, BackupCommand

\* Everybody keeps to what is theirs to build.
LEMMA JobsStep == ASSUME IInv, JobsOK, [Next]_vars PROVE JobsOK'
  <1>0. Idle.pc = "idle" /\ AllJobs = {"daily", "hourly", "cli", "cleaner"}
    BY DEF Idle, AllJobs
  <1>1. ASSUME NEW j \in {"daily", "hourly", "cli"}, BuildStep(j) PROVE JobsOK'
    <2>0. Only(j)
      BY <1>1 DEF BuildStep, Only
    <2>1. CASE j = "daily"
      BY <1>0, <1>1, <2>0, <2>1 DEF BuildStep, JobsOK, Only
    <2>2. CASE j = "hourly"
      BY <1>0, <1>1, <2>0, <2>2 DEF BuildStep, JobsOK, Only
    <2>3. CASE j = "cli"
      BY <1>0, <1>1, <2>0, <2>3 DEF BuildStep, JobsOK, Only
    <2> QED
      BY <2>1, <2>2, <2>3
  <1>2. CASE Begin("daily", "full")
    BY <1>0, <1>2, BeginMoves DEF JobsOK, Only
  <1>3. CASE Begin("hourly", "roll")
    BY <1>0, <1>3, BeginMoves DEF JobsOK, Only
  <1>4. CASE Begin("cli", "manual")
    BY <1>0, <1>4, BeginMoves DEF JobsOK, Only
  <1>5. CASE List \/ Measure
    BY <1>0, <1>5, ListMoves DEF JobsOK, Only
  <1>6. CASE TrimBackups
    BY <1>0, <1>6, TrimMoves DEF JobsOK, Only
  <1>7. ASSUME NEW j \in {"daily", "cleaner"}, Prune(j) \/ (j = "daily" /\ CapSize) PROVE JobsOK'
    <2>1. Only(j) /\ job'[j].pc = job[j].pc /\ job'[j].op = job[j].op
      BY <1>7, RemoveMoves
    <2> QED
      BY <1>0, <2>1 DEF JobsOK, Only
  <1>8. ASSUME NEW j \in {"daily", "cleaner"}, Pruned(j) PROVE JobsOK'
    BY <1>0, <1>8, PrunedMoves DEF JobsOK, Only
  <1>9. CASE Boot
    BY <1>0, <1>9, ServerMoves DEF JobsOK, Only
  <1>10. CASE Crash
    BY <1>0, <1>10, ServerMoves DEF JobsOK
  <1>11. CASE Interrupt
    BY <1>0, <1>11, ServerMoves DEF JobsOK, Only
  <1>12. CASE RetentionDone
    BY <1>0, <1>12, ServerMoves DEF JobsOK, Only
  <1>13. CASE UNCHANGED <<dated, job, up>>
    BY <1>13 DEF JobsOK
  <1> QED
    BY <1>1, <1>2, <1>3, <1>4, <1>5, <1>6, <1>7, <1>8, <1>9, <1>10, <1>11, <1>12, <1>13, Steps
(***************************************************************************)
(* The tiers.                                                              *)
(***************************************************************************)
\* What retention leaves of a tier is within the limit: everything it keeps is at
\* least as new as the oldest it keeps, which is within the limit by definition.
LEMMA DoomedLeaves ==
  ASSUME NEW t \in TierNames, NEW o
  PROVE  Cardinality(InTier(t) \ Doomed(o)) <= Limit(t, "full")
  <1> DEFINE S == InTier(t) \ Doomed(o)
  <1> SUFFICES Cardinality(S) <= Limit(t, "full")
    OBVIOUS
  <1>0. S \in SUBSET Names /\ InTier(t) \in SUBSET Names /\ Fulls \in SUBSET Names
    BY DEF InTier, Fulls
  <1>1. CASE S = {}
    BY <1>1, FS_EmptySet, LimitType
  <1>2. CASE S # {}
    <2>1. PICK x \in S : \A y \in S : x[2] <= y[2]
      BY <1>0, <1>2, OldestNewest
    <2> DEFINE T == {m \in Fulls : m[2] >= x[2] /\ Classify(m[2]) = Classify(x[2])}
    <2>2. S \subseteq T /\ T \in SUBSET Names
      <3>1. \A y \in S : y \in Fulls /\ Classify(y[2]) = t
        BY DEF InTier
      <3>2. \A y \in S : y[2] >= x[2]
        <4>1. \A y \in S : y[2] \in Nat /\ x[2] \in Nat
          BY <1>0, <2>1, BackupNumbers DEF Names, Days
        <4> QED
          BY <2>1, <4>1
      <3> QED
        BY <1>0, <2>1, <3>1, <3>2
    <2>3. Cardinality(T) <= Limit(t, o)
      <3>1. x \in Fulls /\ x \notin Doomed(o) /\ Classify(x[2]) = t
        BY <2>1 DEF InTier
      <3>2. ~(Cardinality(T) > Limit(t, o))
        BY <3>1 DEF Doomed
      <3> QED
        BY <2>2, <3>2, CountLess, LimitType
    <2> HIDE DEF T, S
    <2> QED
      BY <2>2, <2>3, CountLess, LimitType
  <1> QED
    BY <1>1, <1>2

\* One more archive in a tier.
LEMMA TierGrows ==
  ASSUME NEW S \in SUBSET Names, NEW d \in Names, NEW L \in Nat, Cardinality(S \ {d}) <= L
  PROVE  Cardinality(S) <= L + 1
  <1>1. IsFiniteSet(S) /\ IsFiniteSet(S \ {d}) /\ Cardinality(S) \in Nat /\ Cardinality(S \ {d}) \in Nat
    BY CountLess
  <1>2. Cardinality(S) <= Cardinality(S \ {d}) + 1
    BY <1>1, FS_RemoveElement
  <1> QED
    BY <1>1, <1>2

\* Steps of the other jobs, and removals: the tier only shrinks.
LEMMA TierFrame ==
  ASSUME NEW t \in TierNames, TierOK(t), InTier(t)' \subseteq InTier(t),
         job'["daily"] = job["daily"], up' = up
  PROVE  TierOK(t)'
  <1>0. InTier(t) \in SUBSET Names /\ Limit(t, "full") \in Nat /\ Limit(t, "full")' = Limit(t, "full")
    BY LimitType DEF InTier, Fulls, Limit, MaxBackupsOf
  <1>1. ASSUME NEW X
        PROVE  /\ Cardinality(InTier(t)' \ X) <= Cardinality(InTier(t) \ X)
               /\ Cardinality(InTier(t)' \ X) \in Nat /\ Cardinality(InTier(t) \ X) \in Nat
    <2>1. InTier(t)' \ X \subseteq InTier(t) \ X /\ InTier(t) \ X \in SUBSET Names
      BY <1>0
    <2> QED
      BY <2>1, CountLess
  <1>2. /\ Cardinality(InTier(t)') <= Cardinality(InTier(t))
        /\ Cardinality(InTier(t)') \in Nat /\ Cardinality(InTier(t)) \in Nat
    BY <1>0, CountLess
  <1>3. /\ Cardinality(InTier(t)' \ {<<"full", job["daily"].day>>})
              <= Cardinality(InTier(t) \ {<<"full", job["daily"].day>>})
        /\ Cardinality(InTier(t)' \ {<<"full", job["daily"].day>>}) \in Nat
        /\ Cardinality(InTier(t) \ {<<"full", job["daily"].day>>}) \in Nat
    BY <1>1
  <1>4. /\ Cardinality(InTier(t)' \ job["daily"].todo) <= Cardinality(InTier(t) \ job["daily"].todo)
        /\ Cardinality(InTier(t)' \ job["daily"].todo) \in Nat
        /\ Cardinality(InTier(t) \ job["daily"].todo) \in Nat
    BY <1>1
  <1> QED
    BY <1>0, <1>2, <1>3, <1>4 DEF TierOK
\* Which archives a tier has depends on the files alone.
LEMMA TierFiles ==
  ASSUME NEW t
  PROVE  /\ InTier(t) \in SUBSET Names /\ InTier(t)' \in SUBSET Names
         /\ InTier(t)' \subseteq
               InTier(t) \cup {n \in Names : n[1] = "full" /\ dated'[n] # dated[n] /\ dated'[n].kind # "none"}
         /\ dated' = dated => InTier(t)' = InTier(t)
  BY DEF InTier, Fulls, OnDisk

\* backup_daily builds: the new archive is the only one that may be too many, and a
\* failed one is gone when the task ends.
LEMMA TierBuild ==
  ASSUME IInv, JobsOK, ~RemovesFail, BuildStep("daily"), NEW t \in TierNames, TierOK(t)
  PROVE  TierOK(t)'
  <1> DEFINE q == job["daily"]  p == job'["daily"]  D == <<"full", job["daily"].day>>
             L == Limit(t, "full")
  <1>0. L \in Nat /\ L' = L /\ D \in Names /\ D[1] = "full"
    <2>1. job["daily"] \in Job
      BY Typing DEF IInv, AllJobs
    <2> QED
      BY <2>1, LimitType DEF Limit, MaxBackupsOf, Names, Job
  <1>1. CASE q.op = "full"
    <2>1. InTier(t)' \ {D} \subseteq InTier(t) \ {D} /\ Cardinality(InTier(t) \ {D}) <= L
      BY <1>1, TierFiles DEF BuildStep, TierOK
    <2>2. Cardinality(InTier(t)' \ {D}) <= L
      <3>1. InTier(t) \ {D} \in SUBSET Names
        BY TierFiles
      <3> QED
        BY <1>0, <2>1, <3>1, CountLess
    <2>3. Cardinality(InTier(t)') <= L + 1
      BY <1>0, <2>2, TierFiles, TierGrows
    <2>4. CASE p = Idle
      <3>1. D \notin InTier(t)'
        BY <1>1, <2>4 DEF BuildStep, InTier, Fulls, OnDisk, Idle
      <3>2. InTier(t)' \ {D} = InTier(t)'
        BY <3>1
      <3>3. Cardinality(InTier(t)') <= L /\ p.pc = "idle"
        BY <2>2, <2>4, <3>2 DEF Idle
      <3> QED
        BY <1>0, <2>3, <3>3 DEF TierOK
    <2>5. CASE p # Idle
      <3>1. /\ p.pc \notin {"idle", "prune", "measure", "cap"}
            /\ p.op = "full" => p.day = q.day
        BY <1>1, <2>5 DEF BuildStep
      <3> QED
        BY <1>0, <2>2, <2>3, <3>1 DEF TierOK
    <2> QED
      BY <2>4, <2>5
  <1>2. CASE q.op = "roll"
    <2>1. InTier(t)' \subseteq InTier(t)
      BY <1>2, TierFiles DEF BuildStep
    <2>2. Cardinality(InTier(t)') <= L + 1
      BY <1>0, <2>1, TierFiles, CountLess DEF TierOK
    <2>3. p.op = "roll" /\ p.pc \notin {"idle", "prune", "measure", "cap"}
      BY <1>2 DEF BuildStep
    <2> QED
      BY <1>0, <2>2, <2>3 DEF TierOK
  <1>3. q.op \in {"full", "roll"}
    BY DEF BuildStep, JobsOK
  <1> QED
    BY <1>1, <1>2, <1>3

\* Retention: the list, one removal, and the end of the list.
LEMMA TierRetention ==
  ASSUME IInv, JobsOK, ~RemovesFail, NEW t \in TierNames, TierOK(t),
         List \/ Measure \/ Pruned("daily") \/ Prune("daily") \/ CapSize \/ RetentionDone
  PROVE  TierOK(t)'
  <1> DEFINE q == job["daily"]  p == job'["daily"]  L == Limit(t, "full")
  <1>0. /\ L \in Nat /\ L' = L /\ InTier(t) \in SUBSET Names
        /\ Cardinality(InTier(t)) \in Nat /\ Cardinality(InTier(t)) <= L + 1
    BY LimitType, TierFiles, CountLess DEF Limit, MaxBackupsOf, TierOK
  <1>1. CASE List
    <2>1. /\ InTier(t)' = InTier(t) /\ p.pc = "prune" /\ p.op = q.op /\ q.op # "full"
          /\ p.todo = Doomed(q.op)
      BY <1>1, ListMoves, TierFiles DEF JobsOK
    <2>2. Cardinality(InTier(t) \ Doomed(q.op)) <= L
      BY DoomedLeaves
    <2> QED
      BY <1>0, <2>1, <2>2 DEF TierOK
  <1>2. CASE Measure
    <2>1. InTier(t)' = InTier(t) /\ q.pc = "measure" /\ p.pc = "cap" /\ p.op = q.op /\ q.op # "full"
      BY <1>2, ListMoves, TierFiles DEF JobsOK
    <2> QED
      BY <1>0, <2>1 DEF TierOK
  <1>3. CASE Pruned("daily")
    <2>1. /\ InTier(t)' = InTier(t) /\ q.pc = "prune" /\ q.todo = {} /\ p.pc = "measure"
          /\ p.op = q.op /\ q.op # "full" /\ InTier(t) \ q.todo = InTier(t)
      BY <1>3, PrunedMoves, TierFiles DEF JobsOK
    <2> QED
      BY <1>0, <2>1 DEF TierOK
  <1>4. CASE Prune("daily") \/ CapSize
    <2>1. PICK n \in q.todo :
            /\ n \in Names /\ up' = up
            /\ p.pc = q.pc /\ p.op = q.op /\ p.todo = q.todo \ {n}
            /\ dated' = [dated EXCEPT ![n] = None] \/ UNCHANGED dated
            /\ dated'[n].kind = "none" /\ q.pc \in {"prune", "cap"}
      BY <1>4, RemoveMoves
    <2>2. InTier(t)' \subseteq InTier(t) /\ n \notin InTier(t)' /\ q.op # "full"
      BY <2>1, TierFiles, Typing DEF IInv, InTier, Fulls, OnDisk, None, JobsOK
    <2>3. /\ InTier(t)' \ p.todo \subseteq InTier(t) \ q.todo
          /\ InTier(t) \ q.todo \in SUBSET Names
      BY <1>0, <2>1, <2>2
    <2>4. /\ Cardinality(InTier(t)') <= Cardinality(InTier(t)) /\ Cardinality(InTier(t)') \in Nat
      BY <1>0, <2>2, CountLess
    <2>5. /\ Cardinality(InTier(t)' \ p.todo) <= Cardinality(InTier(t) \ q.todo)
          /\ Cardinality(InTier(t)' \ p.todo) \in Nat /\ Cardinality(InTier(t) \ q.todo) \in Nat
      BY <2>3, CountLess
    <2> QED
      BY <1>0, <2>1, <2>2, <2>4, <2>5 DEF TierOK
  <1>5. CASE RetentionDone
    <2>1. InTier(t)' = InTier(t) /\ q.pc = "cap" /\ p = Idle
      BY <1>5, ServerMoves, TierFiles
    <2> QED
      BY <1>0, <2>1 DEF TierOK, Idle
  <1> QED
    BY <1>1, <1>2, <1>3, <1>4, <1>5

\* Every step keeps the tiers.
LEMMA TiersStep ==
  ASSUME IInv, JobsOK, AllTiersOK, ~RemovesFail, [Next]_vars
  PROVE  AllTiersOK'
  <1> SUFFICES ASSUME NEW t \in TierNames PROVE TierOK(t)'
    BY DEF AllTiersOK
  <1>0. /\ TierOK(t) /\ InTier(t) \in SUBSET Names /\ Limit(t, "full") \in Nat
        /\ Limit(t, "full")' = Limit(t, "full")
        /\ Cardinality(InTier(t)) \in Nat
    BY LimitType, TierFiles, CountLess DEF AllTiersOK, Limit, MaxBackupsOf
  <1>1. ASSUME NEW j \in {"daily", "hourly", "cli"}, BuildStep(j) PROVE TierOK(t)'
    <2>1. CASE j = "daily"
      BY <1>0, <1>1, <2>1, TierBuild
    <2>2. CASE j # "daily"
      <3>1. job[j].op # "full" /\ job'["daily"] = job["daily"] /\ up' = up
        BY <1>1, <2>2 DEF BuildStep, JobsOK, AllJobs
      <3>2. \A n \in Names : n[1] = "full" => dated'[n] = dated[n]
        BY <1>1, <3>1 DEF BuildStep
      <3>3. InTier(t)' \subseteq InTier(t)
        BY <3>2, TierFiles
      <3> QED
        BY <1>0, <3>1, <3>3, TierFrame
    <2> QED
      BY <2>1, <2>2
  <1>2. CASE Begin("daily", "full")
    <2>1. /\ InTier(t)' = InTier(t) /\ up /\ up' = up /\ job["daily"].pc = "idle"
          /\ job'["daily"].pc = "hash"
      BY <1>2, BeginMoves, TierFiles
    <2>2. Cardinality(InTier(t)) <= Limit(t, "full")
      BY <1>0, <2>1 DEF TierOK
    <2>3. ASSUME NEW X
          PROVE  Cardinality(InTier(t) \ X) \in Nat /\ Cardinality(InTier(t) \ X) <= Limit(t, "full")
      <3>1. InTier(t) \ X \subseteq InTier(t)
        OBVIOUS
      <3> QED
        BY <1>0, <2>2, <3>1, CountLess
    <2>4. Cardinality(InTier(t) \ {<<"full", job'["daily"].day>>}) <= Limit(t, "full")
      BY <2>3
    <2> QED
      BY <1>0, <2>1, <2>2, <2>4 DEF TierOK
  <1>3. CASE Begin("hourly", "roll") \/ Begin("cli", "manual") \/ TrimBackups \/ Interrupt
    <2>1. dated' = dated /\ job'["daily"] = job["daily"] /\ up' = up
      BY <1>3, BeginMoves, TrimMoves, ServerMoves DEF Only, AllJobs
    <2> QED
      BY <1>0, <2>1, TierFiles, TierFrame
  <1>4. CASE List \/ Measure \/ Pruned("daily") \/ Prune("daily") \/ CapSize \/ RetentionDone
    BY <1>0, <1>4, TierRetention
  <1>5. CASE Prune("cleaner")
    <2>1. /\ job'["daily"] = job["daily"] /\ up' = up
          /\ \E n \in Names : dated' = [dated EXCEPT ![n] = None] \/ UNCHANGED dated
      BY <1>5, RemoveMoves DEF Only, AllJobs
    <2>2. InTier(t)' \subseteq InTier(t)
      BY <2>1, Typing DEF IInv, InTier, Fulls, OnDisk, None
    <2> QED
      BY <1>0, <2>1, <2>2, TierFrame
  <1>6. CASE Pruned("cleaner")
    <2>1. dated' = dated /\ job'["daily"] = job["daily"] /\ up' = up
      BY <1>6, PrunedMoves DEF Only, AllJobs
    <2> QED
      BY <1>0, <2>1, TierFiles, TierFrame
  <1>7. CASE Boot \/ Crash
    <2>0. dated' = dated
      BY <1>7, ServerMoves
    <2>1. InTier(t)' = InTier(t)
      BY <2>0, TierFiles
    <2>2. ASSUME Boot PROVE ~up' /\ job'["daily"].pc = "list" /\ job'["daily"].op = "sweep"
      BY <2>2, ServerMoves
    <2>3. ASSUME Crash PROVE ~up' /\ job'["daily"].pc = "idle"
      <3>1. "daily" \in AllJobs \ {"cli"} /\ Idle.pc = "idle"
        BY DEF AllJobs, Idle
      <3> QED
        BY <2>3, <3>1, ServerMoves
    <2> QED
      BY <1>0, <1>7, <2>1, <2>2, <2>3 DEF TierOK
  <1>8. CASE UNCHANGED <<dated, job, up>>
    BY <1>0, <1>8, TierFiles, TierFrame
  <1> QED
    BY <1>1, <1>2, <1>3, <1>4, <1>5, <1>6, <1>7, <1>8, Steps

\* Dated archives do not pile up, for any calendar, tiers and limits and whatever the
\* crashes, as long as removing a file works: no tier is more than one over its limit,
\* and none at all between runs of a server that is up.
THEOREM ArchivesDoNotPileUp == ASSUME ~RemovesFail PROVE Spec => []NoAccumulation
  <1>1. Init => JobsOK /\ AllTiersOK
    <2> SUFFICES ASSUME Init PROVE JobsOK /\ AllTiersOK
      OBVIOUS
    <2>1. JobsOK /\ job["daily"] = Idle /\ ~up
      BY DEF Init, JobsOK, Idle, AllJobs
    <2>2. ASSUME NEW t \in TierNames PROVE TierOK(t)
      <3>1. InTier(t) = {}
        BY DEF Init, InTier, Fulls, OnDisk, None
      <3> QED
        BY <2>1, <3>1, FS_EmptySet, LimitType DEF TierOK, Idle
    <2> QED
      BY <2>1, <2>2 DEF AllTiersOK
  <1>2. IInv /\ JobsOK /\ AllTiersOK /\ [Next]_vars => (JobsOK /\ AllTiersOK)'
    BY JobsStep, TiersStep
  <1>3. JobsOK /\ AllTiersOK => NoAccumulation
    <2> SUFFICES ASSUME AllTiersOK, NEW t \in Tiers \cup {"daily"}
                 PROVE  Cardinality(InTier(t)) <=
                          Limit(t, "full") + (IF up /\ At("daily", "idle") THEN 0 ELSE 1)
      BY DEF NoAccumulation
    <2>1. TierOK(t) /\ Limit(t, "full") \in Nat
      BY LimitType DEF AllTiersOK, TierNames
    <2> QED
      BY <2>1 DEF TierOK, At
  <1> QED
    BY <1>1, <1>2, <1>3, Invariance, PTL DEF Spec
(***************************************************************************)
(* The archive that stays.                                                 *)
(***************************************************************************)
LEMMA NamePairs == \A n \in Names : n[2] \in Nat /\ n[2] \in Days /\ n = <<n[1], n[2]>>
  BY BackupNumbers DEF Names, Days

\* The newest full archive is in no tier's list.
LEMMA DoomedOlder ==
  ASSUME MaxBackups >= 1, NEW o, Fulls # {}
  PROVE  \E x \in Fulls : (\A y \in Fulls : y[2] <= x[2]) /\ \A n \in Doomed(o) : n[2] < x[2]
  <1>0. Fulls \in SUBSET Names
    BY DEF Fulls
  <1>1. PICK x \in Fulls : \A y \in Fulls : y[2] <= x[2]
    BY <1>0, OldestNewest
  <1>2. ASSUME NEW n \in Doomed(o), ~(n[2] < x[2]) PROVE FALSE
    <2> DEFINE T == {m \in Fulls : m[2] >= n[2] /\ Classify(m[2]) = Classify(n[2])}
    <2>1. n \in Fulls /\ Cardinality(T) > Limit(Classify(n[2]), o)
      BY DEF Doomed
    <2>2. n[2] = x[2] /\ n = x
      BY <1>0, <1>1, <1>2, <2>1, NamePairs DEF Fulls
    <2>3. T \subseteq {x}
      <3>1. ASSUME NEW m \in T PROVE m = x
        BY <1>0, <1>1, <2>2, <3>1, NamePairs DEF Fulls
      <3> QED
        BY <3>1
    <2> HIDE DEF T
    <2>4. Cardinality(T) \in Nat /\ Cardinality(T) <= 1
      <3>1. IsFiniteSet({x}) /\ Cardinality({x}) = 1
        BY FS_Singleton
      <3>2. IsFiniteSet(T) /\ Cardinality(T) <= 1
        BY <2>3, <3>1, FS_Subset
      <3> QED
        BY <3>2, FS_CardinalityType
    <2>5. Limit(Classify(n[2]), o) \in Nat /\ Limit(Classify(n[2]), o) >= 1
      <3>1. MaxBackupsOf(o) \in Nat /\ MaxBackupsOf(o) >= 1
        BY BackupNumbers DEF MaxBackupsOf
      <3>2. \/ Classify(n[2]) = "daily"
            \/ Classify(n[2]) \in Tiers /\ KeepOf[Classify(n[2])] > 0
        BY DEF Classify, Tiers
      <3>3. Classify(n[2]) \in Tiers => KeepOf[Classify(n[2])] \in Nat /\ Classify(n[2]) # "daily"
        BY BackupTiers DEF Tiers
      <3> QED
        BY <3>1, <3>2, <3>3 DEF Limit
    <2> QED
      BY <2>1, <2>4, <2>5
  <1>3. \A n \in Doomed(o) : n[2] < x[2]
    BY <1>2
  <1> QED
    BY <1>1, <1>3

\* Steps that touch neither the retention nor the cleanup and remove no archive.
LEMMA KeepFrame ==
  ASSUME IInv, IInv', KeepersOK, job'["daily"] = job["daily"], job'["cleaner"] = job["cleaner"],
         up' = up, today <= today',
         \A n \in Names : OnDisk(n) => OnDisk(n)'
  PROVE  KeepersOK'
  <1>0. /\ today \in Nat /\ today' \in Nat /\ job["daily"].day \in Nat
        /\ \A n \in Names : n[2] \in Nat
    <2>1. job["daily"] \in Job /\ today \in Days /\ today' \in Days
      BY Typing DEF IInv, StateOK, AllJobs
    <2> QED
      BY <2>1, NamePairs, BackupNumbers DEF Job, Days
  <1>1. CleanerKeeps'
    BY <1>0 DEF KeepersOK, CleanerKeeps, Unverified
  <1>2. RetentionKeeps'
    BY DEF KeepersOK, RetentionKeeps
  <1>3. DatesOK' /\ ServerCleans'
    BY <1>0 DEF KeepersOK, DatesOK, ServerCleans
  <1> QED
    BY <1>1, <1>2, <1>3 DEF KeepersOK

\* backup_daily builds: what it discards is remembered as the archive it will make
\* again, and what it verifies takes its place.
LEMMA KeepBuild ==
  ASSUME IInv, JobsOK, KeepersOK, BuildStep("daily")
  PROVE  KeepersOK'
  <1> DEFINE q == job["daily"]  p == job'["daily"]  c == job["cleaner"]  D == <<q.op, q.day>>
  <1>0. /\ today \in Nat /\ today' = today /\ q.day \in Nat /\ c.todo \subseteq Names
        /\ \A n \in Names : n[2] \in Nat /\ n = <<n[1], n[2]>>
        /\ job'["cleaner"] = c /\ up' = up /\ q.pc # "idle" /\ q.day \in Days
    <2>1. q \in Job /\ c \in Job /\ today \in Days
      BY Typing DEF IInv, StateOK, AllJobs
    <2> QED
      BY <2>1, NamePairs, BackupNumbers DEF Job, Days, BuildStep, AllJobs
  <1>1. RetentionKeeps'
    BY DEF RetentionKeeps, BuildStep, Idle
  <1>2. DatesOK' /\ ServerCleans'
    BY <1>0 DEF KeepersOK, DatesOK, ServerCleans, BuildStep, Idle
  <1>3. CleanerKeeps'
    <2> SUFFICES ASSUME c.todo # {}
                 PROVE  \E k \in Names \ c.todo :
                          /\ \A n \in c.todo : n[2] <= k[2]
                          /\ \/ dated'[k].kind # "none"
                             \/ /\ k[1] = "full" /\ Unverified'
                                /\ k[2] <= (IF p.pc = "idle" THEN today ELSE p.day)
      BY <1>0 DEF CleanerKeeps, OnDisk
    <2>1. PICK k \in Names \ c.todo :
            /\ \A n \in c.todo : n[2] <= k[2]
            /\ \/ OnDisk(k)
               \/ k[1] = "full" /\ q.op = "full" /\ k[2] <= q.day
      BY <1>0 DEF KeepersOK, CleanerKeeps, Unverified
    <2>2. CASE q.op = "roll"
      <3>1. OnDisk(k) /\ dated'[k] = dated[k]
        BY <2>1, <2>2 DEF BuildStep
      <3> QED
        BY <2>1, <3>1 DEF OnDisk
    <2>3. CASE q.op = "full"
      <3>0. D \in Names /\ D[1] = "full" /\ D[2] = q.day /\ q.day <= today
        BY <1>0, <2>3 DEF Names, KeepersOK, DatesOK
      <3>1. CASE p = Idle
        <4>1. CASE k = D
          BY <1>0, <2>1, <3>0, <3>1, <4>1 DEF Unverified, Idle
        <4>2. CASE k # D
          <5>1. dated'[k] = dated[k]
            BY <4>2, <2>1 DEF BuildStep
          <5> QED
            BY <1>0, <2>1, <3>0, <3>1, <5>1 DEF Unverified, Idle, OnDisk
        <4> QED
          BY <4>1, <4>2
      <3>2. CASE p.op = "full" /\ p.pc # "idle" /\ p.day = q.day
        <4>1. CASE k = D
          BY <1>0, <2>1, <3>0, <3>2, <4>1 DEF Unverified
        <4>2. CASE k # D
          <5>1. dated'[k] = dated[k]
            BY <4>2, <2>1 DEF BuildStep
          <5> QED
            BY <1>0, <2>1, <3>0, <3>2, <5>1 DEF Unverified, OnDisk
        <4> QED
          BY <4>1, <4>2
      <3>3. CASE OnDisk(D) /\ p.pc = "hash" /\ p.op = "roll"
        <4>1. dated'[D].kind # "none"
          <5>1. q.pc # "discard"
            BY <2>3, <3>3 DEF BuildStep, Idle
          <5> QED
            BY <2>3, <3>3, <5>1 DEF BuildStep
        <4>2. CASE k = D
          BY <2>1, <4>1, <4>2
        <4>3. CASE k # D /\ OnDisk(k)
          BY <2>1, <4>3 DEF BuildStep, OnDisk
        <4>4. CASE ~OnDisk(k)
          <5>1. k[2] <= q.day /\ (\A n \in c.todo : n[2] <= D[2])
            BY <1>0, <2>1, <3>0, <4>4
          <5>2. D \notin c.todo
            BY <1>0, <2>1, <3>0, <4>4
          <5> QED
            BY <3>0, <4>1, <5>1, <5>2
        <4> QED
          BY <4>2, <4>3, <4>4
      <3> QED
        BY <2>3, <3>1, <3>2, <3>3 DEF BuildStep
    <2>4. q.op \in {"full", "roll"}
      BY DEF BuildStep, JobsOK
    <2> QED
      BY <2>2, <2>3, <2>4
  <1> QED
    BY <1>1, <1>2, <1>3 DEF KeepersOK
\* The lists of the retention are made: the newest full archive stays, or one that
\* is no older and that the cleanup keeps.
LEMMA KeepList ==
  ASSUME IInv, JobsOK, KeepersOK, MaxBackups >= 1, List \/ Measure
  PROVE  KeepersOK'
  <1> DEFINE q == job["daily"]  p == job'["daily"]  c == job["cleaner"]
  <1>0. /\ \A n \in Names : n[2] \in Nat /\ n = <<n[1], n[2]>>
        /\ job'["cleaner"] = c /\ dated' = dated /\ up' = up /\ c.todo \subseteq Names
        /\ q.pc \in {"list", "measure"} /\ q.op # "full" /\ p.op # "full" /\ p.pc # "idle"
        /\ \A n \in Names : OnDisk(n)' <=> OnDisk(n)
    <2>1. c \in Job /\ job'["cleaner"] = c /\ dated' = dated /\ up' = up
      BY Typing, ListMoves DEF IInv, StateOK, AllJobs, Only
    <2>2. q.pc \in {"list", "measure"} /\ q.op # "full" /\ p.op # "full" /\ p.pc # "idle"
      BY ListMoves DEF JobsOK
    <2> QED
      BY <2>1, <2>2, NamePairs DEF Job, OnDisk
  <1>1. c.todo # {} => \E k \in Names \ c.todo : OnDisk(k) /\ \A n \in c.todo : n[2] <= k[2]
    BY <1>0 DEF KeepersOK, CleanerKeeps, Unverified
  <1>2. CleanerKeeps'
    BY <1>0, <1>1 DEF CleanerKeeps
  <1>3. DatesOK' /\ ServerCleans'
    BY <1>0 DEF KeepersOK, DatesOK, ServerCleans
  <1>4. ASSUME NEW x \in Fulls
        PROVE  \E m \in Names \ c.todo : OnDisk(m) /\ x[2] <= m[2]
    <2>0. x \in Names /\ OnDisk(x) /\ x[2] \in Nat
      BY <1>0 DEF Fulls
    <2>1. CASE x \notin c.todo
      BY <2>0, <2>1
    <2>2. CASE x \in c.todo
      BY <1>1, <2>2
    <2> QED
      BY <2>1, <2>2
  <1>5. CASE List
    <2>1. p.pc = "prune" /\ p.todo = Doomed(q.op) /\ Doomed(q.op) \subseteq Fulls
      BY <1>5, ListMoves DEF Doomed
    <2>2. ASSUME p.todo # {}
          PROVE  \E m \in Names \ (p.todo \cup c.todo) : OnDisk(m) /\ \A n \in p.todo : n[2] < m[2]
      <3>1. PICK x \in Fulls : \A n \in Doomed(q.op) : n[2] < x[2]
        BY <2>1, <2>2, DoomedOlder
      <3>2. PICK m \in Names \ c.todo : OnDisk(m) /\ x[2] <= m[2]
        BY <1>4
      <3>3. x \in Names /\ \A n \in Doomed(q.op) : n \in Names
        BY <2>1 DEF Fulls
      <3>4. \A n \in p.todo : n[2] < m[2]
        BY <1>0, <2>1, <3>1, <3>2, <3>3
      <3>5. m \notin p.todo
        BY <1>0, <3>2, <3>4
      <3> QED
        BY <3>2, <3>4, <3>5
    <2>3. \A n \in p.todo : n[1] = "full"
      BY <2>1 DEF Fulls
    <2>4. RetentionKeeps'
      BY <1>0, <2>1, <2>2, <2>3 DEF RetentionKeeps
    <2> QED
      BY <1>2, <1>3, <2>4 DEF KeepersOK
  <1>6. CASE Measure
    <2>1. p.pc = "cap" /\ p.todo = Fulls
      BY <1>6, ListMoves
    <2>2. ASSUME p.todo # {}
          PROVE  \E m \in Names \ c.todo : OnDisk(m) /\ \A n \in p.todo : n[2] <= m[2]
      <3>0. Fulls \in SUBSET Names
        BY DEF Fulls
      <3>1. PICK x \in Fulls : \A n \in Fulls : n[2] <= x[2]
        BY <2>1, <2>2, <3>0, OldestNewest
      <3>2. PICK m \in Names \ c.todo : OnDisk(m) /\ x[2] <= m[2]
        BY <1>4
      <3> QED
        BY <1>0, <2>1, <3>0, <3>1, <3>2
    <2>3. \A n \in p.todo : n[1] = "full"
      BY <2>1 DEF Fulls
    <2>4. RetentionKeeps'
      BY <1>0, <2>1, <2>2, <2>3 DEF RetentionKeeps
    <2> QED
      BY <1>2, <1>3, <2>4 DEF KeepersOK
  <1> QED
    BY <1>5, <1>6

\* What retention removes, an archive that stays is at least as new as.
LEMMA RetentionRemoves ==
  ASSUME IInv, JobsOK, KeepersOK, NEW n \in job["daily"].todo,
         \/ job["daily"].pc = "prune"
         \/ job["daily"].pc = "cap" /\ Cardinality(job["daily"].todo) > 1
                                    /\ \A m \in job["daily"].todo : n[2] <= m[2]
  PROVE  \E m \in Names \ (job["cleaner"].todo \cup {n}) :
            /\ OnDisk(m) /\ n[2] <= m[2]
            /\ \A i \in job["daily"].todo \ {n} : i[2] <= m[2]
            /\ job["daily"].pc = "prune" =>
                  m \notin job["daily"].todo /\ \A i \in job["daily"].todo : i[2] < m[2]
  <1> DEFINE q == job["daily"]  c == job["cleaner"]
  <1>0. /\ \A i \in Names : i[2] \in Nat /\ i = <<i[1], i[2]>>
        /\ q.todo \subseteq Names
    <2>1. q \in Job
      BY Typing DEF IInv, AllJobs
    <2> QED
      BY <2>1, NamePairs DEF Job
  <1>1. CASE q.pc = "prune"
    <2>1. PICK m \in Names \ (q.todo \cup c.todo) : OnDisk(m) /\ \A i \in q.todo : i[2] < m[2]
      BY <1>1 DEF KeepersOK, RetentionKeeps
    <2> QED
      BY <1>0, <2>1
  <1>2. CASE q.pc = "cap"
    <2>1. PICK m \in Names \ c.todo : OnDisk(m) /\ \A i \in q.todo : i[2] <= m[2]
      BY <1>2 DEF KeepersOK, RetentionKeeps
    <2>2. PICK i \in q.todo : i # n
      <3>1. q.todo # {n}
        BY <1>2, FS_Singleton
      <3> QED
        BY <3>1
    <2>3. \A r \in q.todo : r[1] = "full"
      BY <1>2 DEF KeepersOK, RetentionKeeps
    <2>4. n[2] # i[2] /\ n[2] <= i[2] /\ i[2] <= m[2]
      BY <1>0, <1>2, <2>1, <2>2, <2>3
    <2>5. m # n
      BY <1>0, <2>4
    <2> QED
      BY <1>2, <2>1, <2>5
  <1> QED
    BY <1>1, <1>2

\* One archive is removed, by the retention or by the cleanup.
LEMMA KeepRemove ==
  ASSUME IInv, JobsOK, KeepersOK, NEW j \in {"daily", "cleaner"}, Prune(j) \/ (j = "daily" /\ CapSize)
  PROVE  KeepersOK'
  <1> DEFINE q == job["daily"]  p == job'["daily"]  c == job["cleaner"]
  <1>0. (\A i \in Names : i[2] \in Nat) /\ c.todo \subseteq Names /\ q.todo \subseteq Names
        /\ dated \in [Names -> File]
    <2>1. c \in Job /\ q \in Job
      BY Typing DEF IInv, AllJobs
    <2> QED
      BY <2>1, NamePairs, Typing DEF Job, IInv
  <1>1. PICK n \in job[j].todo :
            /\ n \in Names /\ Only(j) /\ UNCHANGED <<up, today>>
            /\ job'[j].pc = job[j].pc /\ job'[j].op = job[j].op /\ job'[j].todo = job[j].todo \ {n}
            /\ dated' = [dated EXCEPT ![n] = None] \/ UNCHANGED dated
            /\ Prune(j) => job[j].pc = "prune"
            /\ ~Prune(j) => /\ job[j].pc = "cap" /\ Cardinality(job[j].todo) > 1
                            /\ \A m \in job[j].todo : n[2] <= m[2]
    BY RemoveMoves
  <1>2. \A m \in Names \ {n} : OnDisk(m) => OnDisk(m)'
    BY <1>0, <1>1 DEF OnDisk
  <1>3. CASE j = "daily"
    <2>1. job'["cleaner"] = c /\ q.pc \in {"prune", "cap"} /\ q.op # "full"
          /\ p.pc = q.pc /\ p.op = q.op /\ p.todo = q.todo \ {n}
      BY <1>1, <1>3 DEF Only, AllJobs, JobsOK
    <2>2. PICK m \in Names \ (c.todo \cup {n}) :
            /\ OnDisk(m) /\ n[2] <= m[2]
            /\ \A i \in q.todo \ {n} : i[2] <= m[2]
            /\ q.pc = "prune" => m \notin q.todo /\ \A i \in q.todo : i[2] < m[2]
      BY <1>1, <1>3, RetentionRemoves
    <2>3. RetentionKeeps'
      BY <1>2, <2>1, <2>2 DEF RetentionKeeps, KeepersOK
    <2>4. CleanerKeeps'
      <3> SUFFICES ASSUME c.todo # {}
                   PROVE  \E k \in Names \ c.todo : OnDisk(k)' /\ \A i \in c.todo : i[2] <= k[2]
        BY <2>1 DEF CleanerKeeps
      <3>1. PICK k \in Names \ c.todo : OnDisk(k) /\ \A i \in c.todo : i[2] <= k[2]
        BY <2>1 DEF KeepersOK, CleanerKeeps, Unverified
      <3>2. CASE k # n
        BY <1>2, <3>1, <3>2
      <3>3. CASE k = n
        BY <1>0, <1>2, <2>2, <3>1, <3>3
      <3> QED
        BY <3>2, <3>3
    <2>5. DatesOK' /\ ServerCleans'
      BY <1>1, <2>1 DEF KeepersOK, DatesOK, ServerCleans
    <2> QED
      BY <2>3, <2>4, <2>5 DEF KeepersOK
  <1>4. CASE j = "cleaner"
    <2>1. p = q /\ job'["cleaner"].todo = c.todo \ {n} /\ n \in c.todo /\ today' = today /\ up' = up
      BY <1>1, <1>4 DEF Only, AllJobs
    <2>2. RetentionKeeps'
      BY <1>2, <2>1 DEF RetentionKeeps, KeepersOK
    <2>3. CleanerKeeps'
      BY <1>2, <2>1 DEF CleanerKeeps, KeepersOK, Unverified
    <2>4. DatesOK' /\ ServerCleans'
      BY <2>1 DEF KeepersOK, DatesOK, ServerCleans
    <2> QED
      BY <2>2, <2>3, <2>4 DEF KeepersOK
  <1> QED
    BY <1>3, <1>4

\* The cleanup makes its list: it keeps one of the newest of all the archives.
LEMMA KeepTrim ==
  ASSUME IInv, JobsOK, KeepersOK, TrimBackups
  PROVE  KeepersOK'
  <1> DEFINE q == job["daily"]  files == {n \in Names : OnDisk(n)}
  <1>1. PICK kept \in SUBSET files :
            /\ kept # {} /\ Only("cleaner") /\ UNCHANGED <<dated, up, today>> /\ up
            /\ job'["cleaner"].todo = files \ kept
            /\ \A k \in kept, n \in files \ kept : n[2] <= k[2]
    BY TrimMoves
  <1>2. /\ \A n \in Names : n[2] \in Nat
        /\ job'["daily"] = q /\ q.todo \subseteq Names
        /\ \A n \in Names : OnDisk(n)' <=> OnDisk(n)
    <2>1. q \in Job
      BY Typing DEF IInv, AllJobs
    <2> QED
      BY <1>1, <2>1, NamePairs DEF Job, Only, AllJobs, OnDisk
  <1>3. PICK k \in kept : k \in Names /\ OnDisk(k)
    BY <1>1
  <1>4. CleanerKeeps'
    <2>1. \A n \in files \ kept : n[2] <= k[2]
      BY <1>1, <1>3
    <2> QED
      BY <1>1, <1>2, <1>3, <2>1 DEF CleanerKeeps
  <1>5. ASSUME NEW m \in Names, OnDisk(m)
        PROVE  \E r \in Names \ (files \ kept) : OnDisk(r) /\ m[2] <= r[2] /\ (r = m \/ r = k)
    <2>1. CASE m \in kept
      BY <1>2, <1>5, <2>1
    <2>2. CASE m \notin kept
      <3>1. m[2] <= k[2]
        BY <1>1, <1>3, <1>5, <2>2
      <3> QED
        BY <1>3, <3>1
    <2> QED
      BY <2>1, <2>2
  <1>6. RetentionKeeps'
    <2>1. ASSUME q.pc = "prune", q.todo # {}
          PROVE  \E r \in Names \ (q.todo \cup (files \ kept)) : OnDisk(r) /\ \A n \in q.todo : n[2] < r[2]
      <3>1. PICK m \in Names : OnDisk(m) /\ \A n \in q.todo : n[2] < m[2]
        BY <2>1 DEF KeepersOK, RetentionKeeps
      <3>2. PICK r \in Names \ (files \ kept) : OnDisk(r) /\ m[2] <= r[2]
        BY <1>5, <3>1
      <3>3. \A n \in q.todo : n[2] < r[2]
        BY <1>2, <3>1, <3>2
      <3>4. r \notin q.todo
        BY <1>2, <3>2, <3>3
      <3> QED
        BY <3>2, <3>3, <3>4
    <2>2. ASSUME q.pc = "cap", q.todo # {}
          PROVE  \E r \in Names \ (files \ kept) : OnDisk(r) /\ \A n \in q.todo : n[2] <= r[2]
      <3>1. PICK m \in Names : OnDisk(m) /\ \A n \in q.todo : n[2] <= m[2]
        BY <2>2 DEF KeepersOK, RetentionKeeps
      <3>2. PICK r \in Names \ (files \ kept) : OnDisk(r) /\ m[2] <= r[2]
        BY <1>5, <3>1
      <3> QED
        BY <1>2, <3>1, <3>2
    <2> QED
      BY <1>1, <1>2, <2>1, <2>2 DEF KeepersOK, RetentionKeeps
  <1>7. DatesOK' /\ ServerCleans'
    BY <1>1, <1>2 DEF KeepersOK, DatesOK, ServerCleans
  <1> QED
    BY <1>4, <1>6, <1>7 DEF KeepersOK
\* Every step leaves a newer archive where it leaves a list.
LEMMA KeepersStep ==
  ASSUME IInv, IInv', JobsOK, KeepersOK, MaxBackups >= 1, [Next]_vars
  PROVE  KeepersOK'
  <1>0. AllJobs = {"daily", "hourly", "cli", "cleaner"} /\ today \in Nat
    BY Typing, BackupNumbers DEF AllJobs, IInv, Days
  <1>1. ASSUME NEW j \in {"daily", "hourly", "cli"}, BuildStep(j) PROVE KeepersOK'
    <2>1. CASE j = "daily"
      BY <1>1, <2>1, KeepBuild
    <2>2. CASE j # "daily"
      <3>1. /\ job'["daily"] = job["daily"] /\ job'["cleaner"] = job["cleaner"]
            /\ up' = up /\ today' = today
        BY <1>0, <1>1, <2>2 DEF BuildStep
      <3>2. job[j].op = "roll" \/ job[j].pc # "discard"
        BY <1>1, <2>2 DEF BuildStep, JobsOK
      <3>3. \A n \in Names : OnDisk(n) => OnDisk(n)'
        BY <1>1, <3>2 DEF BuildStep, OnDisk
      <3> QED
        BY <1>0, <3>1, <3>3, KeepFrame
    <2> QED
      BY <2>1, <2>2
  <1>2. CASE Begin("daily", "full")
    <2>1. /\ job'["cleaner"] = job["cleaner"] /\ dated' = dated /\ up' = up /\ today' = today
          /\ job["daily"].pc = "idle" /\ job'["daily"].pc = "hash" /\ job'["daily"].op = "full"
          /\ job'["daily"].day = today
      BY <1>0, <1>2, BeginMoves DEF Only
    <2>2. CleanerKeeps'
      BY <2>1 DEF KeepersOK, CleanerKeeps, Unverified, OnDisk
    <2>3. RetentionKeeps' /\ ServerCleans'
      BY <2>1 DEF RetentionKeeps, ServerCleans, KeepersOK
    <2>4. DatesOK'
      BY <1>0, <2>1 DEF DatesOK
    <2> QED
      BY <2>2, <2>3, <2>4 DEF KeepersOK
  <1>3. CASE Begin("hourly", "roll") \/ Begin("cli", "manual") \/ Interrupt
    <2>1. /\ job'["daily"] = job["daily"] /\ job'["cleaner"] = job["cleaner"]
          /\ up' = up /\ today' = today /\ dated' = dated
      BY <1>0, <1>3, BeginMoves, ServerMoves DEF Only
    <2> QED
      BY <1>0, <2>1, KeepFrame DEF OnDisk
  <1>4. CASE List \/ Measure
    BY <1>4, KeepList
  <1>5. CASE TrimBackups
    BY <1>5, KeepTrim
  <1>6. ASSUME NEW j \in {"daily", "cleaner"}, Prune(j) \/ (j = "daily" /\ CapSize)
        PROVE  KeepersOK'
    BY <1>6, KeepRemove
  <1>7. CASE Pruned("daily")
    <2>1. /\ job'["cleaner"] = job["cleaner"] /\ dated' = dated /\ up' = up /\ today' = today
          /\ job["daily"].pc = "prune" /\ job["daily"].op # "full"
          /\ job'["daily"].pc = "measure" /\ job'["daily"].op = job["daily"].op
      BY <1>0, <1>7, PrunedMoves DEF Only, JobsOK
    <2> QED
      BY <2>1 DEF KeepersOK, CleanerKeeps, RetentionKeeps, ServerCleans, DatesOK, Unverified, OnDisk
  <1>8. CASE Pruned("cleaner")
    <2>1. /\ job'["daily"] = job["daily"] /\ dated' = dated /\ up' = up /\ today' = today
          /\ job["cleaner"].todo = {} /\ job'["cleaner"].todo = {}
      BY <1>0, <1>8, PrunedMoves DEF Only, Idle
    <2> QED
      BY <2>1 DEF KeepersOK, CleanerKeeps, RetentionKeeps, ServerCleans, DatesOK, OnDisk
  <1>9. CASE Boot
    <2>1. /\ job'["cleaner"] = job["cleaner"] /\ ~up /\ job'["daily"].pc = "list"
          /\ job'["daily"].op = "sweep"
      BY <1>0, <1>9, ServerMoves DEF Only
    <2>2. job["cleaner"].todo = {}
      BY <2>1 DEF KeepersOK, ServerCleans
    <2> QED
      BY <2>1, <2>2 DEF KeepersOK, CleanerKeeps, RetentionKeeps, ServerCleans, DatesOK
  <1>10. CASE Crash
    <2>1. job'["cleaner"].todo = {} /\ job'["daily"].pc = "idle"
      BY <1>0, <1>10, ServerMoves DEF Idle
    <2> QED
      BY <2>1 DEF KeepersOK, CleanerKeeps, RetentionKeeps, ServerCleans, DatesOK
  <1>11. CASE RetentionDone
    <2>1. /\ job'["cleaner"] = job["cleaner"] /\ dated' = dated /\ up'
          /\ job["daily"].pc = "cap" /\ job["daily"].op # "full" /\ job'["daily"].pc = "idle"
      BY <1>0, <1>11, ServerMoves DEF Only, JobsOK, Idle
    <2>2. CleanerKeeps'
      BY <2>1 DEF KeepersOK, CleanerKeeps, Unverified, OnDisk
    <2> QED
      BY <2>1, <2>2 DEF KeepersOK, RetentionKeeps, ServerCleans, DatesOK
  <1>12. CASE UNCHANGED <<dated, job, up>> /\ today <= today'
    BY <1>12, KeepFrame DEF OnDisk
  <1> QED
    BY <1>1, <1>2, <1>3, <1>4, <1>5, <1>6, <1>7, <1>8, <1>9, <1>10, <1>11, <1>12, Steps

\* Whatever the tiers, the size cap, the calendar and the cleanup that deletes files
\* at the same time: retention with max_backups of at least 1 removes an archive only
\* when one of the same or a later day stays.
THEOREM RetentionNeverTakesNewest == ASSUME MaxBackups >= 1 PROVE Spec => RetentionLeavesNewer
  <1> DEFINE Leaves == \A n \in Names : OnDisk(n) /\ dated'[n].kind = "none" => Retains(n)
  <1>1. Init => JobsOK /\ KeepersOK
    <2> SUFFICES ASSUME Init PROVE JobsOK /\ KeepersOK
      OBVIOUS
    <2>1. \A j \in {"daily", "hourly", "cli", "cleaner"} : job[j].pc = "idle" /\ job[j].todo = {}
      BY DEF Init, Idle, AllJobs
    <2>2. JobsOK
      BY <2>1 DEF JobsOK
    <2> QED
      BY <2>1, <2>2 DEF KeepersOK, CleanerKeeps, RetentionKeeps, ServerCleans, DatesOK
  <1>2. IInv /\ IInv' /\ JobsOK /\ KeepersOK /\ [Next]_vars => (JobsOK /\ KeepersOK)'
    BY JobsStep, KeepersStep
  <1>3. ASSUME IInv, JobsOK, KeepersOK, [Next]_vars PROVE Leaves
    <2> SUFFICES ASSUME NEW n \in Names, OnDisk(n), dated'[n].kind = "none",
                        job["daily"].pc \in {"prune", "cap"}, n \in job["daily"].todo,
                        n \notin job'["daily"].todo
                 PROVE  \E m \in Names \ {n} : m[2] >= n[2] /\ dated'[m].kind # "none"
      BY DEF Retains
    <2>0. dated' # dated /\ job'["daily"] # job["daily"] /\ "daily" \in AllJobs
          /\ dated \in [Names -> File] /\ \A i \in Names : i[2] \in Nat
      BY <1>3, Typing, NamePairs DEF OnDisk, AllJobs, IInv
    <2>1. Prune("daily") \/ CapSize
      <3>1. ASSUME NEW j \in {"daily", "hourly", "cli"}, BuildStep(j) PROVE FALSE
        BY <2>0, <3>1 DEF BuildStep
      <3>2. ~Begin("daily", "full") /\ ~Begin("hourly", "roll") /\ ~Begin("cli", "manual")
        BY <1>3, <2>0, BeginMoves
      <3>3. ~List /\ ~Measure /\ ~TrimBackups
        BY <1>3, <2>0, ListMoves, TrimMoves
      <3>4. ASSUME NEW j \in {"daily", "cleaner"}, Pruned(j) PROVE FALSE
        BY <1>3, <2>0, <3>4, PrunedMoves
      <3>5. ~Boot /\ ~Crash /\ ~Interrupt /\ ~RetentionDone
        BY <1>3, <2>0, ServerMoves
      <3>6. ~Prune("cleaner")
        BY <1>3, <2>0, RemoveMoves DEF Only
      <3> QED
        BY <1>3, <2>0, <3>1, <3>2, <3>3, <3>4, <3>5, <3>6, Steps
    <2>2. PICK r \in job["daily"].todo :
            /\ r \in Names
            /\ dated' = [dated EXCEPT ![r] = None] \/ UNCHANGED dated
            /\ Prune("daily") => job["daily"].pc = "prune"
            /\ ~Prune("daily") => /\ job["daily"].pc = "cap" /\ Cardinality(job["daily"].todo) > 1
                                  /\ \A m \in job["daily"].todo : r[2] <= m[2]
      BY <1>3, <2>1, RemoveMoves
    <2>3. r = n
      BY <2>0, <2>2 DEF OnDisk
    <2>4. PICK m \in Names \ {n} : OnDisk(m) /\ n[2] <= m[2]
      BY <1>3, <2>2, <2>3, RetentionRemoves
    <2>5. dated'[m] = dated[m]
      BY <2>0, <2>2, <2>3, <2>4
    <2> QED
      BY <2>0, <2>4, <2>5 DEF OnDisk
  <1>4. IInv /\ JobsOK /\ KeepersOK /\ [Next]_vars => [Leaves]_vars
    BY <1>3
  <1> QED
    BY <1>1, <1>2, <1>4, Invariance, PTL DEF Spec, RetentionLeavesNewer
(***************************************************************************)
(* The types, with applySizeCap's running total: it never goes below what  *)
(* the archives still on its list hold, whoever else removes files, so the *)
(* subtractions stay in the numbers.                                       *)
(***************************************************************************)
\* No archive holds more than the data there can be.
VersOK == /\ \A n \in Names : dated[n].ver <= MaxVer
          /\ \A j \in AllJobs : job[j].arch <= MaxVer

TotalOK == /\ total \in Nat
           /\ job["daily"].pc = "cap" =>
                /\ \A n \in job["daily"].todo : n[1] = "full"
                /\ Cardinality(Data(Fulls \cap job["daily"].todo)) <= total

\* Versions come from the live data and are copied from job to file.
Copied(n) == dated'[n] \in {dated[n], None, Torn} \/ \E j \in AllJobs : dated'[n].ver = job[j].arch
Carried(j) == job'[j].arch \in {0, job[j].arch, ver}

LEMMA VersFrame ==
  ASSUME IInv, VersOK, \A n \in Names : Copied(n), \A j \in AllJobs : Carried(j)
  PROVE  VersOK'
  <1>1. ver \in 1 .. MaxVer /\ MaxVer \in Nat /\ None.ver = 0 /\ Torn.ver = 0
    BY BackupNumbers DEF IInv, StateOK, None, Torn
  <1>2. ASSUME NEW n \in Names PROVE dated'[n].ver <= MaxVer
    <2>1. CASE dated'[n] \in {dated[n], None, Torn}
      BY <1>1, <2>1 DEF VersOK
    <2>2. CASE \E j \in AllJobs : dated'[n].ver = job[j].arch
      BY <2>2 DEF VersOK
    <2> QED
      BY <2>1, <2>2 DEF Copied
  <1>3. ASSUME NEW j \in AllJobs PROVE job'[j].arch <= MaxVer
    BY <1>1 DEF VersOK, Carried
  <1> QED
    BY <1>2, <1>3 DEF VersOK

\* A step that moves one job to a position that is not new data.
LEMMA VersMove ==
  ASSUME IInv, NEW j \in AllJobs, NEW q \in Job, job' = [job EXCEPT ![j] = q],
         q.arch \in {0, job[j].arch, ver}
  PROVE  \A i \in AllJobs : Carried(i)
  <1>1. job \in [AllJobs -> Job]
    BY Typing DEF IInv
  <1> QED
    BY <1>1 DEF Carried

LEMMA VersPut ==
  ASSUME IInv, NEW j \in AllJobs, NEW f \in File, Put(j, f),
         f \in {None, Torn} \/ f.ver = job[j].arch
  PROVE  \A n \in Names : Copied(n)
  <1>1. dated \in [Names -> File]
    BY Typing DEF IInv
  <1>2. CASE UNCHANGED dated
    BY <1>2 DEF Copied
  <1>3. CASE dated' = [dated EXCEPT ![<<job[j].op, job[j].day>>] = f]
    <2> TAKE n \in Names
    <2>1. dated'[n] \in {dated[n], f}
      BY <1>1, <1>3
    <2> QED
      BY <2>1 DEF Copied
  <1> QED
    BY <1>2, <1>3 DEF Put
LEMMA VersGoto ==
  ASSUME IInv, NEW j \in AllJobs, NEW label \in Labels,
         Goto(j, label) \/ Finish(j)
  PROVE  \A i \in AllJobs : Carried(i)
  <1>1. job \in [AllJobs -> Job] /\ job[j] \in Job /\ Idle \in Job /\ Idle.arch = 0
    BY Typing DEF IInv, Idle
  <1>2. CASE Goto(j, label)
    <2>1. [job[j] EXCEPT !.pc = label] \in Job /\ [job[j] EXCEPT !.pc = label].arch = job[j].arch
      BY <1>1 DEF Job
    <2>2. job' = [job EXCEPT ![j] = [job[j] EXCEPT !.pc = label]]
      BY <1>2 DEF Goto
    <2> QED
      BY <2>1, <2>2, VersMove
  <1>3. CASE Finish(j)
    BY <1>1, <1>3, VersMove DEF Finish
  <1> QED
    BY <1>2, <1>3

LEMMA VersBuild ==
  ASSUME IInv, NEW j \in AllJobs, Hash(j) \/ Archive(j) \/ Open(j) \/ Write(j)
  PROVE  (\A n \in Names : Copied(n)) /\ (\A i \in AllJobs : Carried(i))
  <1>1. /\ job \in [AllJobs -> Job] /\ job[j] \in Job /\ None \in File /\ Torn \in File
        /\ ver \in Nat /\ "discard" \in Labels /\ "write" \in Labels
    BY Typing DEF IInv, Labels
  <1>2. ASSUME UNCHANGED dated PROVE \A n \in Names : Copied(n)
    BY <1>2 DEF Copied
  <1>3. ASSUME Fail(j) PROVE \A i \in AllJobs : Carried(i)
    BY <1>1, <1>3, VersGoto DEF Fail
  <1>4. CASE Hash(j)
    <2>1. job' = [job EXCEPT ![j] = [job[j] EXCEPT !.hash = ver, !.pc = "archive"]]
      BY <1>1, <1>4 DEF Hash, Job
    <2>2. [job[j] EXCEPT !.hash = ver, !.pc = "archive"] \in Job
      BY <1>1 DEF Job, Labels
    <2>3. [job[j] EXCEPT !.hash = ver, !.pc = "archive"].arch = job[j].arch
      BY <1>1 DEF Job
    <2> QED
      BY <1>2, <1>4, <2>1, <2>2, <2>3, VersMove DEF Hash
  <1>5. CASE Archive(j)
    <2>1. CASE job' = [job EXCEPT ![j].arch = ver, ![j].pc = "open"]
      <3>1. job' = [job EXCEPT ![j] = [job[j] EXCEPT !.arch = ver, !.pc = "open"]]
        BY <1>1, <2>1 DEF Job
      <3>2. [job[j] EXCEPT !.arch = ver, !.pc = "open"] \in Job
        BY <1>1 DEF Job, Labels
      <3>3. [job[j] EXCEPT !.arch = ver, !.pc = "open"].arch = ver
        BY <1>1 DEF Job
      <3> QED
        BY <1>2, <1>5, <3>1, <3>2, <3>3, VersMove DEF Archive
    <2> QED
      BY <1>2, <1>3, <1>5, <2>1 DEF Archive
  <1>6. CASE Open(j)
    <2>1. CASE Put(j, Torn) /\ Goto(j, "write")
      BY <1>1, <2>1, VersPut, VersGoto
    <2> QED
      BY <1>2, <1>3, <1>6, <2>1 DEF Open
  <1>7. CASE Write(j)
    <2>1. Built(j) \in File /\ Built(j).ver = job[j].arch
      BY <1>1 DEF Built, File, Job
    <2>2. CASE Finish(j)
      BY <1>1, <1>7, <2>1, <2>2, <1>2, VersPut, VersGoto DEF Write
    <2>3. CASE job' = [job EXCEPT ![j].pc = "verify", ![j].hash = 0, ![j].arch = 0] /\ Put(j, Built(j))
      <3>1. job' = [job EXCEPT ![j] = [job[j] EXCEPT !.pc = "verify", !.hash = 0, !.arch = 0]]
        BY <1>1, <2>3 DEF Job
      <3>2. [job[j] EXCEPT !.pc = "verify", !.hash = 0, !.arch = 0] \in Job
        BY <1>1 DEF Job, Labels
      <3>3. [job[j] EXCEPT !.pc = "verify", !.hash = 0, !.arch = 0].arch = 0
        BY <1>1 DEF Job
      <3> QED
        BY <2>1, <2>3, <3>1, <3>2, <3>3, VersMove, VersPut
    <2>4. CASE Fail(j) /\ UNCHANGED dated
      BY <1>2, <1>3, <2>4
    <2> QED
      BY <1>7, <2>2, <2>3, <2>4 DEF Write
  <1> QED
    BY <1>4, <1>5, <1>6, <1>7

LEMMA VersTask ==
  ASSUME IInv, NEW j \in Rollers, Verify(j) \/ Discard(j) \/ Rename(j)
  PROVE  (\A n \in Names : Copied(n)) /\ (\A i \in AllJobs : Carried(i))
  <1>1. /\ j \in AllJobs /\ job \in [AllJobs -> Job] /\ job[j] \in Job /\ None \in File
        /\ "discard" \in Labels /\ "rename" \in Labels /\ "list" \in Labels
    BY Typing DEF IInv, Labels, Rollers, AllJobs
  <1>2. ASSUME UNCHANGED dated PROVE \A n \in Names : Copied(n)
    BY <1>2 DEF Copied
  <1>3. ASSUME AfterRoll(j) PROVE \A i \in AllJobs : Carried(i)
    BY <1>1, <1>3, VersGoto DEF AfterRoll
  <1>4. CASE Verify(j)
    <2>1. CASE job' = [job EXCEPT ![j].op = "roll", ![j].pc = "hash"]
      <3>1. job' = [job EXCEPT ![j] = [job[j] EXCEPT !.op = "roll", !.pc = "hash"]]
        BY <1>1, <2>1 DEF Job
      <3>2. [job[j] EXCEPT !.op = "roll", !.pc = "hash"] \in Job
        BY <1>1 DEF Job, Labels
      <3>3. [job[j] EXCEPT !.op = "roll", !.pc = "hash"].arch = job[j].arch
        BY <1>1 DEF Job
      <3> QED
        BY <1>1, <1>2, <1>4, <3>1, <3>2, <3>3, VersMove DEF Verify
    <2> QED
      BY <1>1, <1>2, <1>4, <2>1, VersGoto DEF Verify
  <1>5. CASE Discard(j)
    <2>1. \A n \in Names : Copied(n)
      BY <1>1, <1>2, <1>5, VersPut DEF Discard
    <2> QED
      BY <1>1, <1>3, <1>5, <2>1, VersGoto DEF Discard
  <1>6. CASE Rename(j)
    BY <1>1, <1>2, <1>3, <1>6, VersGoto DEF Rename
  <1> QED
    BY <1>4, <1>5, <1>6
LEMMA VersOther ==
  ASSUME IInv,
         \/ Begin("daily", "full") \/ Begin("hourly", "roll") \/ Begin("cli", "manual")
         \/ List \/ Measure \/ CapSize \/ TrimBackups
         \/ \E j \in {"daily", "cleaner"} : Prune(j) \/ Pruned(j)
         \/ Boot \/ Crash \/ Interrupt \/ RetentionDone
         \/ DataWrite \/ NextDay \/ UNCHANGED vars
  PROVE  (\A n \in Names : Copied(n)) /\ (\A i \in AllJobs : Carried(i))
  <1>1. /\ job \in [AllJobs -> Job] /\ dated \in [Names -> File] /\ Idle.arch = 0
        /\ "measure" \in Labels /\ {"daily", "hourly", "cli", "cleaner"} = AllJobs
    BY Typing DEF IInv, Idle, Labels, AllJobs
  <1>2. ASSUME UNCHANGED dated PROVE \A n \in Names : Copied(n)
    BY <1>2 DEF Copied
  <1>3. ASSUME NEW m \in Names, dated' = [dated EXCEPT ![m] = None] PROVE \A n \in Names : Copied(n)
    BY <1>1, <1>3 DEF Copied
  <1>4. ASSUME NEW j \in AllJobs, job' = [job EXCEPT ![j] = job'[j]], job'[j].arch = job[j].arch
        PROVE  \A i \in AllJobs : Carried(i)
    BY <1>1, <1>4 DEF Carried
  <1>5. ASSUME NEW j \in AllJobs, NEW o, Begin(j, o) PROVE (\A n \in Names : Copied(n)) /\ (\A i \in AllJobs : Carried(i))
    <2>1. \A i \in AllJobs : job'[i].arch = job[i].arch
      BY <1>1, <1>5 DEF Begin, Job
    <2> QED
      BY <1>2, <1>5, <2>1 DEF Begin, Carried
  <1>6. CASE List \/ Measure \/ TrimBackups \/ Boot
    <2>1. \A i \in AllJobs : job'[i].arch = job[i].arch
      <3>1. CASE List
        BY <1>1, <3>1 DEF List, Job
      <3>2. CASE Measure
        BY <1>1, <3>2 DEF Measure, Job
      <3>3. CASE TrimBackups
        <4>1. PICK T \in SUBSET Names :
                 job' = [job EXCEPT !["cleaner"].todo = T, !["cleaner"].op = "clean",
                                    !["cleaner"].pc = "prune"]
          BY <3>3 DEF TrimBackups
        <4> QED
          BY <1>1, <4>1 DEF Job
      <3>4. CASE Boot
        BY <1>1, <3>4 DEF Boot, Job
      <3> QED
        BY <1>6, <3>1, <3>2, <3>3, <3>4
    <2> QED
      BY <1>2, <1>6, <2>1 DEF List, Measure, TrimBackups, Boot, Carried
  <1>7. ASSUME NEW j \in {"daily", "cleaner"}, Prune(j) \/ (j = "daily" /\ CapSize)
        PROVE  (\A n \in Names : Copied(n)) /\ (\A i \in AllJobs : Carried(i))
    <2>1. PICK n \in Names : dated' = [dated EXCEPT ![n] = None] \/ UNCHANGED dated
      BY <1>7, RemoveMoves
    <2>2. PICK m \in job[j].todo : job' = [job EXCEPT ![j].todo = @ \ {m}]
      BY <1>7 DEF Prune, CapSize
    <2>3. \A i \in AllJobs : job'[i].arch = job[i].arch
      BY <1>1, <2>2 DEF Job
    <2> QED
      BY <1>2, <1>3, <2>1, <2>3 DEF Carried
  <1>8. ASSUME NEW j \in {"daily", "cleaner"}, Pruned(j)
        PROVE  (\A n \in Names : Copied(n)) /\ (\A i \in AllJobs : Carried(i))
    BY <1>1, <1>2, <1>8, VersGoto DEF Pruned
  <1>9. CASE Interrupt \/ RetentionDone
    BY <1>1, <1>2, <1>9, VersGoto DEF Interrupt, RetentionDone
  <1>10. CASE Crash
    <2>1. \A i \in AllJobs : job'[i] \in {job[i], Idle}
      BY <1>1, <1>10 DEF Crash
    <2> QED
      BY <1>1, <1>2, <1>10, <2>1 DEF Crash, Carried
  <1>11. CASE DataWrite \/ NextDay \/ UNCHANGED vars
    BY <1>2, <1>11 DEF DataWrite, NextDay, vars, Carried
  <1>12. "daily" \in AllJobs /\ "hourly" \in AllJobs /\ "cli" \in AllJobs
    BY <1>1
  <1> QED
    BY <1>5, <1>6, <1>7, <1>8, <1>9, <1>10, <1>11, <1>12

LEMMA VersStep == ASSUME IInv, VersOK, [Next]_vars PROVE VersOK'
  <1>1. CASE \E j \in {"daily", "hourly", "cli"} : Hash(j) \/ Archive(j) \/ Open(j) \/ Write(j)
    BY <1>1, VersBuild, VersFrame DEF AllJobs
  <1>2. CASE \E j \in Rollers : Verify(j) \/ Discard(j) \/ Rename(j)
    BY <1>2, VersTask, VersFrame
  <1>3. CASE \/ BackupDaily \/ BackupHourly \/ BackupCommand
             \/ List \/ Measure \/ CapSize \/ TrimBackups
             \/ \E j \in {"daily", "cleaner"} : Prune(j) \/ Pruned(j)
             \/ Boot \/ Crash \/ Interrupt \/ RetentionDone
             \/ DataWrite \/ NextDay \/ UNCHANGED vars
    BY <1>3, VersOther, VersFrame DEF BackupDaily, BackupHourly, BackupCommand
  <1> QED
    BY <1>1, <1>2, <1>3 DEF Next

\* Sizes: finite, smaller for fewer archives, and each archive counts its version.
LEMMA DataFinite ==
  ASSUME NEW S \in SUBSET Names
  PROVE  IsFiniteSet(Data(S)) /\ Cardinality(Data(S)) \in Nat
  <1>1. IsFiniteSet(S) /\ IsFiniteSet(1 .. MaxVer)
    BY NamesFinite, FS_Subset, FS_Interval, BackupNumbers
  <1>2. IsFiniteSet(S \X (1 .. MaxVer))
    BY <1>1, FS_Product
  <1>3. Data(S) \subseteq S \X (1 .. MaxVer)
    BY DEF Data
  <1>4. IsFiniteSet(Data(S))
    BY <1>2, <1>3, FS_Subset
  <1> QED
    BY <1>4, FS_CardinalityType

LEMMA DataOne ==
  ASSUME IInv, VersOK, NEW S \in SUBSET Names, NEW n \in S
  PROVE  Cardinality(Data(S)) = Cardinality(Data(S \ {n})) + dated[n].ver
  <1> DEFINE own == {n} \X (1 .. dated[n].ver)
  <1>1. dated[n] \in File /\ dated[n].ver \in Nat /\ dated[n].ver <= MaxVer /\ MaxVer \in Nat
    BY Typing, BackupNumbers DEF IInv, VersOK, File
  <1>2. IsFiniteSet({n}) /\ Cardinality({n}) = 1
    BY FS_Singleton
  <1>3. IsFiniteSet(1 .. dated[n].ver) /\ Cardinality(1 .. dated[n].ver) = dated[n].ver
    <2> DEFINE v == dated[n].ver
    <2>1. 1 \in Int /\ v \in Int
      BY <1>1
    <2> HIDE DEF v
    <2>2. IsFiniteSet(1 .. v) /\ Cardinality(1 .. v) = IF 1 > v THEN 0 ELSE v - 1 + 1
      BY <2>1, FS_Interval
    <2>3. v \in Nat
      BY <1>1 DEF v
    <2> QED
      BY <2>2, <2>3 DEF v
  <1>4. IsFiniteSet(own) /\ Cardinality(own) = 1 * dated[n].ver
    <2> DEFINE one == {n}  vs == 1 .. dated[n].ver
    <2>1. IsFiniteSet(one) /\ IsFiniteSet(vs) /\ Cardinality(one) = 1 /\ Cardinality(vs) = dated[n].ver
      BY <1>2, <1>3
    <2> HIDE DEF one, vs
    <2>2. IsFiniteSet(one \X vs) /\ Cardinality(one \X vs) = Cardinality(one) * Cardinality(vs)
      BY <2>1, FS_Product
    <2> QED
      BY <2>1, <2>2 DEF one, vs
  <1>5. Data(S) = Data(S \ {n}) \cup own /\ Data(S \ {n}) \cap own = {}
    BY <1>1 DEF Data
  <1>6. IsFiniteSet(Data(S \ {n})) /\ Cardinality(Data(S \ {n})) \in Nat
    BY DataFinite
  <1>7. Cardinality(Data(S)) =
           Cardinality(Data(S \ {n})) + Cardinality(own) - Cardinality(Data(S \ {n}) \cap own)
    BY <1>4, <1>5, <1>6, FS_Union
  <1>8. Cardinality(Data(S \ {n}) \cap own) = 0
    BY <1>5, FS_EmptySet
  <1>9. Cardinality(own) = dated[n].ver
    BY <1>1, <1>4
  <1> HIDE DEF own
  <1> QED
    BY <1>1, <1>6, <1>7, <1>8, <1>9
\* As long as the size cap is at work, nobody adds to the archives it has listed.
LEMMA TotalFrame ==
  ASSUME IInv, TotalOK, total' = total, job'["daily"].pc = "cap" =>
           /\ job["daily"].pc = "cap" /\ job'["daily"].todo = job["daily"].todo
           /\ \A n \in Names : n[1] = "full" => dated'[n] \in {dated[n], None}
  PROVE  TotalOK'
  <1> DEFINE S == Fulls' \cap job'["daily"].todo
             T == Fulls \cap job["daily"].todo
             DS == {u \in S \X (1 .. MaxVer) : u[2] <= dated'[u[1]].ver}
  <1>1. CASE job'["daily"].pc = "cap"
    <2>1. S \subseteq T /\ \A n \in S : dated'[n] = dated[n]
      BY <1>1 DEF Fulls, OnDisk, None
    <2>2. T \in SUBSET Names
      BY DEF Fulls
    <2>3. DS \subseteq Data(T)
      BY <2>1 DEF Data
    <2>4. IsFiniteSet(Data(T)) /\ Cardinality(Data(T)) \in Nat
      BY <2>2, DataFinite
    <2>5. Cardinality(DS) <= Cardinality(Data(T)) /\ Cardinality(DS) \in Nat
      BY <2>3, <2>4, FS_Subset, FS_CardinalityType
    <2>6. /\ Cardinality(Data(T)) <= total /\ total \in Nat
          /\ \A n \in job'["daily"].todo : n[1] = "full"
      BY <1>1 DEF TotalOK
    <2>7. Cardinality(DS) <= total'
      BY <2>4, <2>5, <2>6
    <2>8. Data(Fulls \cap job["daily"].todo)' = DS
      BY DEF Data
    <2> QED
      BY <2>6, <2>7, <2>8 DEF TotalOK
  <1>2. CASE job'["daily"].pc # "cap"
    BY <1>2 DEF TotalOK
  <1> QED
    BY <1>1, <1>2

\* The listing: the total is what the listed archives hold.
LEMMA TotalMeasure == ASSUME IInv, Measure PROVE TotalOK'
  <1> DEFINE c == Cardinality(Data(Fulls))
  <1>1. job'["daily"].todo = Fulls /\ UNCHANGED dated /\ total' = c
    BY ListMoves DEF Measure
  <1>2. Fulls' = Fulls /\ (Data(Fulls \cap job["daily"].todo))' = Data(Fulls)
    BY <1>1 DEF Fulls, OnDisk, Data
  <1>3. c \in Nat /\ \A n \in Fulls : n[1] = "full"
    BY DataFinite DEF Fulls
  <1> QED
    BY <1>1, <1>2, <1>3 DEF TotalOK

\* A removal: the archive that goes was counted.
LEMMA TotalCap == ASSUME IInv, VersOK, TotalOK, CapSize PROVE TotalOK'
  <1>1. PICK n \in job["daily"].todo :
           /\ job' = [job EXCEPT !["daily"].todo = @ \ {n}]
           /\ \/ OnDisk(n) /\ dated' = [dated EXCEPT ![n] = None] /\ total' = total - dated[n].ver
              \/ UNCHANGED <<dated, total>>
    BY DEF CapSize
  <1>2. /\ job \in [AllJobs -> Job] /\ "daily" \in AllJobs /\ dated \in [Names -> File]
        /\ job["daily"].todo \subseteq Names
    BY Typing DEF IInv, AllJobs, Job
  <1>3. job'["daily"].todo = job["daily"].todo \ {n}
    BY <1>1, <1>2 DEF Job
  <1> DEFINE T == Fulls \cap job["daily"].todo
             S == Fulls' \cap job'["daily"].todo
             DS == {u \in S \X (1 .. MaxVer) : u[2] <= dated'[u[1]].ver}
  <1>4. T \in SUBSET Names /\ T \ {n} \in SUBSET Names /\ n \in Names
    BY <1>2 DEF Fulls
  <1>5. S \subseteq T \ {n} /\ \A m \in S : dated'[m] = dated[m]
    BY <1>1, <1>2, <1>3 DEF Fulls, OnDisk, None
  <1>6. DS \subseteq Data(T \ {n})
    BY <1>5 DEF Data
  <1>7. Data(Fulls \cap job["daily"].todo)' = DS
    BY DEF Data
  <1>8. /\ IsFiniteSet(Data(T \ {n})) /\ Cardinality(Data(T \ {n})) \in Nat
        /\ Cardinality(Data(T)) \in Nat /\ IsFiniteSet(Data(T))
    BY <1>4, DataFinite
  <1>9. Cardinality(DS) <= Cardinality(Data(T \ {n})) /\ Cardinality(DS) \in Nat
    BY <1>6, <1>8, FS_Subset, FS_CardinalityType
  <1>10. /\ Cardinality(Data(T)) <= total /\ total \in Nat
         /\ \A m \in job["daily"].todo : m[1] = "full"
    BY DEF TotalOK, CapSize, At
  <1>11. CASE n \in T /\ total' = total - dated[n].ver
    <2>1. Cardinality(Data(T)) = Cardinality(Data(T \ {n})) + dated[n].ver
      BY <1>4, <1>11, DataOne
    <2>2. dated[n].ver \in Nat
      BY <1>2, <1>4 DEF File
    <2>3. total' \in Nat /\ Cardinality(DS) <= total'
      BY <1>8, <1>9, <1>10, <1>11, <2>1, <2>2
    <2> QED
      BY <1>3, <1>7, <1>10, <2>3 DEF TotalOK
  <1>12. CASE total' = total
    <2>1. Data(T \ {n}) \subseteq Data(T)
      BY DEF Data
    <2>2. Cardinality(Data(T \ {n})) <= Cardinality(Data(T))
      BY <1>8, <2>1, FS_Subset
    <2>3. total' \in Nat /\ Cardinality(DS) <= total'
      BY <1>8, <1>9, <1>10, <1>12, <2>2
    <2> QED
      BY <1>3, <1>7, <1>10, <2>3 DEF TotalOK
  <1> QED
    BY <1>1, <1>4, <1>10, <1>11, <1>12 DEF Fulls

LEMMA TotalStep == ASSUME IInv, JobsOK, VersOK, TotalOK, [Next]_vars PROVE TotalOK'
  <1>0. Idle.pc = "idle" /\ {"daily", "hourly", "cli", "cleaner"} = AllJobs
    BY DEF Idle, AllJobs
  <1>1. CASE Measure
    BY <1>1, TotalMeasure
  <1>2. CASE CapSize
    BY <1>2, TotalCap
  <1>3. CASE RetentionDone \/ Crash
    <2>1. total' = 0 /\ job'["daily"] = Idle
      BY <1>0, <1>3, ServerMoves DEF RetentionDone, Crash
    <2> QED
      BY <1>0, <2>1 DEF TotalOK
  <1>4. CASE ~(Measure \/ CapSize \/ RetentionDone \/ Crash)
    <2>1. total' = total
      BY <1>4
      DEF Next, vars, BackupDaily, BackupHourly, BackupCommand, Begin, Hash, Archive, Open, Write,
          Verify, Discard, Rename, List, TrimBackups, Prune, Pruned, Boot, Interrupt, DataWrite, NextDay
    <2>2. ASSUME job'["daily"] = job["daily"], UNCHANGED dated PROVE TotalOK'
      BY <2>1, <2>2, TotalFrame
    <2>3. ASSUME job'["daily"].pc # "cap" PROVE TotalOK'
      BY <2>1, <2>3 DEF TotalOK
    <2>4. ASSUME NEW j \in {"daily", "hourly", "cli"}, BuildStep(j) PROVE TotalOK'
      <3>1. CASE j = "daily"
        <4>1. job'["daily"].pc # "cap"
          BY <1>0, <2>4, <3>1 DEF BuildStep
        <4> QED
          BY <2>3, <4>1
      <3>2. CASE j # "daily"
        <4>1. job'["daily"] = job["daily"] /\ job[j].op # "full"
          BY <1>0, <2>4, <3>2 DEF BuildStep, JobsOK
        <4>2. \A n \in Names : n[1] = "full" => dated'[n] = dated[n]
          BY <2>4, <4>1 DEF BuildStep, Names
        <4> QED
          BY <2>1, <4>1, <4>2, TotalFrame
      <3> QED
        BY <3>1, <3>2
    <2>5. CASE Begin("daily", "full") \/ Begin("hourly", "roll") \/ Begin("cli", "manual")
      BY <1>0, <2>2, <2>3, <2>5, BeginMoves DEF Only
    <2>6. CASE List
      BY <2>3, <2>6, ListMoves
    <2>7. CASE TrimBackups
      BY <1>0, <2>2, <2>7, TrimMoves DEF Only
    <2>8. ASSUME NEW j \in {"daily", "cleaner"}, Prune(j) PROVE TotalOK'
      <3>1. PICK n \in Names : /\ Only(j)
                               /\ dated' = [dated EXCEPT ![n] = None] \/ UNCHANGED dated
                               /\ job'[j].pc = job[j].pc /\ job[j].pc = "prune"
        BY <2>8, RemoveMoves
      <3>2. dated \in [Names -> File]
        BY Typing DEF IInv
      <3>3. \A m \in Names : dated'[m] \in {dated[m], None}
        BY <3>1, <3>2
      <3>4. CASE j = "daily"
        BY <2>3, <3>1, <3>4
      <3>5. CASE j = "cleaner"
        <4>1. job'["daily"] = job["daily"]
          BY <1>0, <3>1, <3>5 DEF Only
        <4> QED
          BY <2>1, <3>3, <4>1, TotalFrame
      <3> QED
        BY <3>4, <3>5
    <2>9. ASSUME NEW j \in {"daily", "cleaner"}, Pruned(j) PROVE TotalOK'
      <3>1. CASE j = "daily"
        BY <2>3, <2>9, <3>1, PrunedMoves
      <3>2. CASE j = "cleaner"
        BY <1>0, <2>2, <2>9, <3>2, PrunedMoves DEF Only
      <3> QED
        BY <3>1, <3>2
    <2>10. CASE Boot
      BY <2>3, <2>10, ServerMoves
    <2>11. CASE Interrupt
      BY <1>0, <2>2, <2>11, ServerMoves DEF Only
    <2>12. CASE UNCHANGED <<dated, job, up>>
      BY <2>2, <2>12
    <2> QED
      BY <1>4, <2>4, <2>5, <2>6, <2>7, <2>8, <2>9, <2>10, <2>11, <2>12, Steps
  <1> QED
    BY <1>1, <1>2, <1>3, <1>4

\* TypeOK: all state stays well formed through every interleaving of jobs, removals and
\* crashes; in particular applySizeCap's total never drops below zero.
THEOREM TypeCorrect == Spec => []TypeOK
  <1> DEFINE J == JobsOK /\ VersOK /\ TotalOK
  <1>1. Init => J
    <2> SUFFICES ASSUME Init PROVE J
      OBVIOUS
    <2>1. \A j \in {"daily", "hourly", "cli", "cleaner"} : job[j] = Idle
      BY DEF Init, AllJobs
    <2>2. Idle.pc = "idle" /\ Idle.arch = 0 /\ None.ver = 0 /\ MaxVer \in Nat
      BY BackupNumbers DEF Idle, None
    <2>3. JobsOK /\ TotalOK
      BY <2>1, <2>2 DEF JobsOK, TotalOK, Init
    <2>4. VersOK
      BY <2>1, <2>2 DEF VersOK, Init, AllJobs
    <2> QED
      BY <2>3, <2>4
  <1>2. IInv /\ J /\ [Next]_vars => J'
    BY JobsStep, VersStep, TotalStep
  <1>3. IInv /\ J => TypeOK
    BY DEF IInv, TotalOK, TypeOK
  <1> QED
    BY <1>1, <1>2, <1>3, Invariance, PTL DEF Spec

=============================================================================
