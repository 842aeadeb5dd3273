------------------------------- MODULE Restore -------------------------------
(***************************************************************************)
(* The sensitive maintenance commands: the authorisation gate              *)
(* (maintenance/authorize.go) and restore (Restore, VerifyBackup,           *)
(* extractEntry in maintenance/maintenance.go, the restore, mode, setup and *)
(* data cases of main.go).                                                  *)
(*                                                                         *)
(* The command works on the live files while the server may be running and *)
(* a backup may write an archive of the same name, in place or, for the     *)
(* rolling ones, by renaming a verified one; it may fail or be killed       *)
(* between any two steps.  A file is written by truncating it and copying   *)
(* into it.  A torn archive does not match its checksum: it is damaged, or  *)
(* its files changed while the backup read them.                            *)
(***************************************************************************)
EXTENDS Naturals, FiniteSets

CONSTANTS
    RestoreFiles,  \* the entries of a backup, server.db among them
    MaxCommands    \* bound on commands, and on the times the archive is replaced

ASSUME RestoreAssumption == "server.db" \in RestoreFiles /\ MaxCommands \in Nat

VARIABLES
    installed, \* content of each live file: old, new (from the archive), cut, bad
    tables,    \* does the live database hold pastes or tokens?
    archive,   \* the backup file: its content, is it being written?, checksum?, encrypted?
    cmd,       \* the running command
    suspect,   \* history: a restore read what it had not verified, or what has no checksum
    ran,       \* history: the last command that was let through, and why
    commands   \* commands so far

restoreVars == <<installed, tables, archive, cmd, suspect, ran, commands>>

Kinds == {"restore", "mode", "setup", "data"}
Users == {"root", "service", "other"}

NoCmd == [pc |-> "none", kind |-> "restore", user |-> "other", secret |-> "none",
          left |-> {}, at |-> "none", from |-> "whole", overlap |-> FALSE]

Archives == [content : {"whole", "torn", "cut", "gone"}, writing : BOOLEAN, sum : BOOLEAN,
             enc : BOOLEAN]

RestoreTypeOK ==
    /\ installed \in [RestoreFiles -> {"old", "new", "cut", "bad"}]
    /\ tables \in BOOLEAN
    /\ archive \in Archives
    /\ cmd \in [pc : {"none", "gate", "verify", "read", "extract", "copy", "run", "complete"},
                kind : Kinds, user : Users, secret : {"none", "right", "wrong"},
                left : SUBSET RestoreFiles, at : RestoreFiles \cup {"none"},
                from : {"whole", "torn", "cut"}, overlap : BOOLEAN]
    /\ suspect \in BOOLEAN
    /\ ran \in {"none", "firstrun", "root", "token"}
    /\ commands \in 0..MaxCommands

RestoreInit ==
    /\ installed = [f \in RestoreFiles |-> "old"]
    /\ tables \in BOOLEAN
    /\ archive \in Archives /\ ~archive.writing
    /\ cmd = NoCmd /\ suspect = FALSE /\ ran = "none" /\ commands = 0

----------------------------------------------------------------------------
\* The command is given: by whom, and what he answers when asked for a token, a
\* confirmation or the password of the archive.
Give ==
    /\ cmd.pc = "none" /\ commands < MaxCommands
    /\ commands' = commands + 1
    /\ \E k \in Kinds, u \in Users, s \in {"none", "right", "wrong"} :
          cmd' = [NoCmd EXCEPT !.pc = "gate", !.kind = k, !.user = u, !.secret = s]
    /\ UNCHANGED <<installed, tables, archive, suspect, ran>>

\* databaseEmpty: no rows, or no tables; a database cut to nothing has no tables.
\* A damaged one is an error, and that is not empty.
DatabaseEmpty ==
    \/ installed["server.db"] = "cut"
    \/ installed["server.db"] \in {"old", "new"} /\ ~tables

\* authorizeSetup, authorizeRestore, authorizeMode, authorizeDataOp: the ground on
\* which the command may run, "none" when it is refused.
Gate(c) ==
    CASE c.kind \in {"setup", "restore"} /\ DatabaseEmpty -> "firstrun"
      [] c.user = "root" -> IF c.kind \in {"setup", "restore"} /\ c.secret # "right"
                            THEN "none" ELSE "root"
      [] c.user = "service" /\ c.kind # "setup" /\ c.secret = "right" -> "token"
      [] OTHER -> "none"

Authorize ==
    /\ cmd.pc = "gate"
    /\ ran' = Gate(cmd)
    /\ cmd' = IF Gate(cmd) = "none" THEN NoCmd
              ELSE [cmd EXCEPT !.pc = IF cmd.kind = "restore" THEN "verify" ELSE "run"]
    /\ UNCHANGED <<installed, tables, archive, suspect, commands>>

\* SetMode, Setup and RunData are modules ConfigStore and PasteStore.
RunOther ==
    /\ cmd.pc = "run" /\ cmd' = NoCmd
    /\ UNCHANGED <<installed, tables, archive, suspect, ran, commands>>

\* os.ReadFile and, for an .enc file, decrypt: what a reading of the archive may bring,
\* "none" when it fails.  While the file is written a reading sees what is there so
\* far, or part of the old and part of the new; decrypt accepts neither.
Readings(a, secret) ==
    CASE a.content = "gone" \/ (a.enc /\ secret # "right") -> {"none"}
      [] a.enc /\ (a.writing \/ a.content = "cut") -> {"none"}
      [] ~a.enc /\ a.writing -> {"torn", "cut", "none"}
      [] ~a.enc /\ a.content = "cut" -> {"cut", "none"}
      [] OTHER -> {a.content}

\* Mutated form: the checksum is not compared.
VerifyHeaderOnly ==
    /\ cmd.pc = "verify"
    /\ \E r \in Readings(archive, cmd.secret) :
          cmd' = IF r \in {"whole", "torn"}
                 THEN [cmd EXCEPT !.pc = "read", !.overlap = archive.writing] ELSE NoCmd
    /\ UNCHANGED <<installed, tables, archive, suspect, ran, commands>>

\* VerifyBackup into a temporary directory: decryption, manifest, header of the
\* database, and the checksum if the manifest has one.  An archive that is cut has no
\* end, and its manifest is its last entry.
VerifyBackup ==
    /\ cmd.pc = "verify"
    /\ \E r \in Readings(archive, cmd.secret) :
          cmd' = IF r = "whole" \/ (r = "torn" /\ ~archive.sum)
                 THEN [cmd EXCEPT !.pc = "read", !.overlap = archive.writing] ELSE NoCmd
    /\ UNCHANGED <<installed, tables, archive, suspect, ran, commands>>

\* The archive is read a second time for the extraction.
ReadArchive ==
    /\ cmd.pc = "read"
    /\ \E r \in Readings(archive, cmd.secret) :
          IF r = "none" THEN cmd' = NoCmd /\ UNCHANGED suspect
          ELSE /\ cmd' = [cmd EXCEPT !.pc = "extract", !.left = RestoreFiles, !.from = r]
               /\ suspect' = (suspect \/ cmd.overlap \/ ~archive.sum)
    /\ UNCHANGED <<installed, tables, archive, ran, commands>>

\* extractEntry: O_TRUNC ...
ExtractOpen ==
    /\ cmd.pc = "extract"
    /\ \E f \in cmd.left :
          /\ installed' = [installed EXCEPT ![f] = "cut"]
          /\ cmd' = [cmd EXCEPT !.pc = "copy", !.at = f, !.left = @ \ {f}]
    /\ UNCHANGED <<tables, archive, suspect, ran, commands>>

\* ... and io.Copy.  A cut archive ends with an error (Interrupted), after its last
\* whole entry or within one; else the last entry completes the restore.
ExtractCopy ==
    /\ cmd.pc = "copy"
    /\ installed' = [installed EXCEPT ![cmd.at] = IF cmd.from = "torn" THEN "bad" ELSE "new"]
    /\ tables' = IF cmd.at = "server.db" THEN TRUE ELSE tables
    /\ cmd' = CASE cmd.left # {} -> [cmd EXCEPT !.pc = "extract", !.at = "none"]
                 [] cmd.left = {} /\ cmd.from = "cut" -> NoCmd
                 [] OTHER -> [cmd EXCEPT !.pc = "complete", !.at = "none"]
    /\ UNCHANGED <<archive, suspect, ran, commands>>

\* "Restore complete", and the audit entry.
ReportRestore ==
    /\ cmd.pc = "complete" /\ cmd' = NoCmd
    /\ UNCHANGED <<installed, tables, archive, suspect, ran, commands>>

\* A write fails (disk full, permission), the archive ends early, or the command is
\* killed: what has been written so far stays.
Interrupted ==
    /\ cmd.pc # "none" /\ cmd' = NoCmd
    /\ UNCHANGED <<installed, tables, archive, suspect, ran, commands>>

\* The running server creates the first paste.
FirstPaste ==
    /\ ~tables /\ installed["server.db"] \in {"old", "new"}
    /\ tables' = TRUE
    /\ UNCHANGED <<installed, archive, cmd, suspect, ran, commands>>

\* The backup task renames a rolling archive that it has verified over the old one.
ReplaceArchive ==
    /\ commands < MaxCommands /\ commands' = commands + 1
    /\ ~archive.writing
    /\ archive' = [archive EXCEPT !.content = "whole", !.sum = TRUE]
    /\ UNCHANGED <<installed, tables, cmd, suspect, ran>>

\* Backup: os.WriteFile truncates a dated archive of that name, not verified ...
BackupWrites ==
    /\ commands < MaxCommands /\ commands' = commands + 1
    /\ ~archive.writing
    /\ archive' = [archive EXCEPT !.content = "cut", !.writing = TRUE, !.sum = TRUE]
    /\ cmd' = IF cmd.pc = "read" THEN [cmd EXCEPT !.overlap = TRUE] ELSE cmd
    /\ UNCHANGED <<installed, tables, suspect, ran>>

\* ... and writes it, whole or not; its files may have changed while it read them.
BackupWritten ==
    /\ archive.writing
    /\ \E c \in {"whole", "torn", "cut"} :
          archive' = [archive EXCEPT !.content = c, !.writing = FALSE]
    /\ UNCHANGED <<installed, tables, cmd, suspect, ran, commands>>

\* The backup task removes the archive that it then fails to verify.
BackupDiscarded ==
    /\ archive.content \in {"torn", "cut"} /\ ~archive.writing
    /\ archive' = [archive EXCEPT !.content = "gone"]
    /\ UNCHANGED <<installed, tables, cmd, suspect, ran, commands>>

RestoreNext ==
    \/ Give \/ Authorize \/ RunOther \/ VerifyBackup \/ ReadArchive \/ ExtractOpen
    \/ ExtractCopy \/ ReportRestore \/ Interrupted \/ FirstPaste
    \/ ReplaceArchive \/ BackupWrites \/ BackupWritten \/ BackupDiscarded

RestoreSpec == RestoreInit /\ [][RestoreNext]_restoreVars

----------------------------------------------------------------------------
\* What is not as some backup took it reaches a live file only from an archive whose
\* manifest has no checksum, or from one that a backup wrote in place between the
\* verification and the second reading: a damaged archive, one that cannot be
\* decrypted, and a rolling archive replaced in between never do harm.
NothingFromBadArchive == suspect \/ \A f \in RestoreFiles : installed[f] # "bad"

\* With the same exceptions, a restore that reports completion has brought back every file.
CompleteMeansRestored ==
    cmd.pc = "complete" => suspect \/ \A f \in RestoreFiles : installed[f] = "new"

\* A command of a user who is not root runs only with the right operator token,
\* or on a database without rows; and the latter never for mode and data.
GateHolds ==
    cmd.pc \in {"verify", "read", "extract", "copy", "run", "complete"} =>
        \/ cmd.user = "root"
        \/ cmd.user = "service" /\ cmd.secret = "right"
        \/ ran = "firstrun" /\ cmd.kind \in {"setup", "restore"}

\* What --maintenance promises together: what a restore brings back is what was backed
\* up, and nobody passes the gate without the right to.
RestoreSound ==
    RestoreTypeOK /\ NothingFromBadArchive /\ CompleteMeansRestored /\ GateHolds

=============================================================================
