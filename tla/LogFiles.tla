------------------------------ MODULE LogFiles ------------------------------
(***************************************************************************)
(* One log file with its rotation and retention (logging/rotate.go,         *)
(* logging/logging.go).                                                     *)
(*                                                                         *)
(* access.log, server.log and the like are held open by a fileWriter, whose *)
(* mutex makes writeLine, rotateCheck and reopen single steps.  audit.log   *)
(* and security.log are opened for each line by audit.Writer and            *)
(* securityLog, while the fileWriter of the same path only rotates: nothing *)
(* orders the two, so they are separate steps here.  An external logrotate  *)
(* may rename the live file and send SIGUSR1.  The process may stop at any  *)
(* time.                                                                    *)
(*                                                                         *)
(* A line is its number; a size is a number of lines.  A file handle is     *)
(* represented by the name its file has now, so a rename moves it along and *)
(* removing the file leaves the handle Unlinked.  Modification times order  *)
(* files as their last lines do.                                            *)
(***************************************************************************)
EXTENDS Naturals, FiniteSets

CONSTANTS
    LogConfigs,  \* the server.logs.* entries an instance tries
    MaxLines,    \* bound on the lines written
    LogMaxDay,      \* bound on the days that pass
    Seconds      \* bound on the seconds of a day in which something happens

\* ParseRotate and ParseKeep: what a log entry of server.yml comes to; and whether
\* the writer holds the file open, and logrotate is at work as well.
LogPolicy == [held : BOOLEAN, daily : BOOLEAN, maxSize : Nat,
              keep : {"none", "count", "age", "forever"}, n : Nat,
              compress : BOOLEAN, external : BOOLEAN]

ASSUME LogAssumption ==
    /\ LogConfigs \subseteq LogPolicy
    /\ \A c \in LogConfigs : c.compress => ~c.held  \* AuditConfig alone has compress
    /\ MaxLines \in Nat /\ LogMaxDay \in Nat /\ Seconds \in Nat \ {0}

VARIABLES
    logcfg,      \* the fields newFileWriter fills in
    files,       \* the files of the directory: lines, last line, day of the last change
    handle,      \* the descriptor of the fileWriter, or that of the audit writer
    periodStart, \* fileWriter.periodStart: its day
    rotor,       \* position of a rotation-only fileWriter in doRotate
    date,        \* the day and the second
    acked,       \* lines whose writer returned without an error, with their day
    expired      \* lines in files that the keep policy removed

logVars == <<logcfg, files, handle, periodStart, rotor, date, acked, expired>>

Name == [kind : {"live", "rotated", "external", "none", "unlinked"}, day : 0..LogMaxDay,
         sec : 0..Seconds, gz : BOOLEAN]

Special(kind) == [kind |-> kind, day |-> 0, sec |-> 0, gz |-> FALSE]
Live == Special("live")
External == Special("external")
NoFile == Special("none")
Unlinked == Special("unlinked")

Line == [n : 1..MaxLines, day : 0..LogMaxDay]
File == [lines : SUBSET Line, last : 0..MaxLines, day : 0..LogMaxDay]

LogTypeOK ==
    /\ logcfg \in LogConfigs
    /\ DOMAIN files \subseteq Name /\ \A f \in DOMAIN files : files[f] \in File
    /\ handle \in DOMAIN files \cup {NoFile, Unlinked}
    /\ periodStart \in 0..LogMaxDay
    /\ rotor \in [pc : {"idle", "trim", "unlink", "prune"}, name : Name]
    /\ date \in [day : 0..LogMaxDay, sec : 1..Seconds]
    /\ acked \subseteq Line /\ expired \subseteq Line

Idle == [pc |-> "idle", name |-> NoFile]

LogInit ==
    /\ logcfg \in LogConfigs
    /\ files = [f \in {} |-> 0]
    /\ handle = NoFile /\ periodStart = 0 /\ rotor = Idle
    /\ date = [day |-> 0, sec |-> 1]
    /\ acked = {} /\ expired = {}

----------------------------------------------------------------------------
Put(d, name, file) == [f \in DOMAIN d \cup {name} |-> IF f = name THEN file ELSE d[f]]
Without(d, S) == [f \in DOMAIN d \ S |-> d[f]]
Lines(d, S) == UNION {d[f].lines : f \in S \cap DOMAIN d}
Follow(h, S) == IF h \in S THEN Unlinked ELSE h

\* fileWriter.open: O_CREATE.
Opened(d) == IF Live \in DOMAIN d THEN d
             ELSE Put(d, Live, [lines |-> {}, last |-> 0, day |-> date.day])

\* Mutated form: opening a file starts a new period.
PeriodNow(d) == date.day

\* fileWriter.open: a file that has lines continues the period of its mtime.
PeriodOf(d) == IF d[Live].lines = {} THEN date.day ELSE d[Live].day

\* needsRotate before one more line, for the file behind the handle.
NeedsRotate(file, start) ==
    /\ file.lines # {}
    /\ \/ logcfg.maxSize > 0 /\ Cardinality(file.lines) + 1 > logcfg.maxSize
       \/ logcfg.daily /\ start # date.day

\* doRotate: the name carries the date, and the time as well when that name is
\* taken (only the uncompressed name is looked for).
RotatedName(d) ==
    LET dated == [kind |-> "rotated", day |-> date.day, sec |-> 0, gz |-> FALSE]
    IN  IF dated \in DOMAIN d THEN [dated EXCEPT !.sec = date.sec] ELSE dated

\* Bound: at most two rotations in one second.  A file rotates after a period or
\* a megabyte at least; a third one in the same second would overwrite the second.
Unhurried(d) == RotatedName(d) \notin DOMAIN d

\* prune: which of the files path.* the keep policy removes.  Count keeps those
\* with fewer than n newer ones.
Prune(d) ==
    LET rotated == DOMAIN d \ {Live} IN
    CASE logcfg.keep = "none" -> rotated
      [] logcfg.keep = "count" ->
           {f \in rotated : Cardinality({g \in rotated : d[g].last > d[f].last}) >= logcfg.n}
      [] logcfg.keep = "age" -> {f \in rotated : date.day > d[f].day + logcfg.n}
      [] OTHER -> {}

\* doRotate under the mutex, the handle closed: the directory and the lines it
\* expires, or an error: the rename fails (there may be no live file), or what
\* follows it.  Files are removed one at a time, each removal may fail, and the process
\* may be killed after any of them, so any part of them may be gone.  Without
\* compression keep "none" removes the new file only.
RotateOutcomes(d) ==
    LET renamed == Put(Without(d, {Live}), RotatedName(d), d[Live])
        doomed == IF logcfg.keep = "none" THEN {RotatedName(d)} ELSE Prune(renamed)
        Outcome(out, ok) ==
            [files |-> Without(renamed, out), ok |-> ok, gone |-> Lines(renamed, out)]
    IN  {[files |-> d, ok |-> FALSE, gone |-> {}]} \cup
        (IF Live \notin DOMAIN d THEN {}
         ELSE {Outcome(out, FALSE) : out \in SUBSET doomed} \cup {Outcome(doomed, TRUE)})

NextLine == [n |-> Cardinality(acked) + 1, day |-> date.day]

\* A line written to a file that has been removed goes with it.
AppendLine(d, name) ==
    IF name = Unlinked THEN d
    ELSE Put(d, name, [lines |-> d[name].lines \cup {NextLine}, last |-> NextLine.n,
                       day |-> date.day])

\* writeLine of a file that is held open: rotation first; a failing rotation
\* drops the line, and its error reaches the caller.  A file that prune removed behind
\* the handle, after logrotate's rename, may or may not be due.
WriteLine ==
    LET opened == IF handle = NoFile THEN Opened(files) ELSE files
        fd == IF handle = NoFile THEN Live ELSE handle
        start == IF handle = NoFile THEN PeriodOf(opened) ELSE periodStart
        due == IF fd = Unlinked THEN BOOLEAN ELSE {NeedsRotate(opened[fd], start)}
    IN  /\ logcfg.held /\ Cardinality(acked) < MaxLines
        /\ \/ /\ TRUE \in due
              /\ Live \in DOMAIN opened => Unhurried(opened)
              /\ \E o \in RotateOutcomes(opened) :
                    /\ expired' = expired \cup o.gone
                    /\ periodStart' = date.day
                    /\ IF o.ok
                       THEN /\ files' = AppendLine(Opened(o.files), Live)
                            /\ handle' = Live /\ acked' = acked \cup {NextLine}
                       ELSE files' = o.files /\ handle' = NoFile /\ UNCHANGED acked
           \/ /\ FALSE \in due
              /\ files' = AppendLine(opened, fd)
              /\ handle' = fd /\ periodStart' = start
              /\ acked' = acked \cup {NextLine} /\ UNCHANGED expired
        /\ UNCHANGED <<logcfg, rotor, date>>

\* rotateCheck: does the live file rotate now?  It may be over its size already.
CheckHits ==
    LET start == IF logcfg.held /\ handle # NoFile THEN periodStart ELSE files[Live].day IN
    /\ Live \in DOMAIN files /\ files[Live].lines # {}
    /\ \/ logcfg.maxSize > 0 /\ Cardinality(files[Live].lines) >= logcfg.maxSize
       \/ logcfg.daily /\ start # date.day

\* rotateCheck of a file that is held open (the log_rotation task).
RotateCheck ==
    /\ logcfg.held
    /\ IF CheckHits
       THEN /\ Unhurried(files)
            /\ \E o \in RotateOutcomes(files) :
                  files' = o.files /\ expired' = expired \cup o.gone
            /\ handle' = NoFile /\ periodStart' = date.day
       ELSE /\ \E out \in SUBSET Prune(files) :
                  /\ files' = Without(files, out) /\ handle' = Follow(handle, out)
                  /\ expired' = expired \cup Lines(files, out)
            /\ UNCHANGED periodStart
    /\ UNCHANGED <<logcfg, rotor, date, acked>>

\* reopen (SIGUSR1).
Reopen ==
    /\ logcfg.held
    /\ files' = Opened(files) /\ handle' = Live /\ periodStart' = PeriodOf(Opened(files))
    /\ UNCHANGED <<logcfg, rotor, date, acked, expired>>

\* logrotate renames the live file (external); a held handle goes with it.
ExternalRename ==
    /\ logcfg.external /\ Live \in DOMAIN files /\ External \notin DOMAIN files
    /\ files' = Put(Without(files, {Live}), External, files[Live])
    /\ handle' = IF handle = Live THEN External ELSE handle
    /\ UNCHANGED <<logcfg, periodStart, rotor, date, acked, expired>>

----------------------------------------------------------------------------
\* audit.Writer.Log and securityLog: open, then write, under a mutex the
\* rotation does not take.
LineOpen ==
    /\ ~logcfg.held /\ handle = NoFile /\ Cardinality(acked) < MaxLines
    /\ files' = Opened(files) /\ handle' = Live
    /\ UNCHANGED <<logcfg, periodStart, rotor, date, acked, expired>>

LineWrite ==
    /\ ~logcfg.held /\ handle # NoFile
    /\ files' = AppendLine(files, handle)
    /\ handle' = NoFile /\ acked' = acked \cup {NextLine}
    /\ UNCHANGED <<logcfg, periodStart, rotor, date, expired>>

\* rotateCheck of the rotation-only writer, and doRotate up to the rename.
CheckRename ==
    /\ ~logcfg.held /\ rotor = Idle
    /\ IF CheckHits
       THEN /\ Unhurried(files)
            /\ files' = Put(Without(files, {Live}), RotatedName(files), files[Live])
            /\ handle' = IF handle = Live THEN RotatedName(files) ELSE handle
            /\ rotor' = [pc |-> "trim", name |-> RotatedName(files)]
       ELSE /\ rotor' = [Idle EXCEPT !.pc = "prune"]
            /\ UNCHANGED <<files, handle>>
    /\ UNCHANGED <<logcfg, periodStart, date, acked, expired>>

\* keep none removes the rotated file; compress copies it (gzipAndRemove creates
\* or truncates name.gz).
TrimRotated ==
    LET zipped == [rotor.name EXCEPT !.gz = TRUE] IN
    /\ rotor.pc = "trim"
    /\ IF logcfg.keep = "none"
       THEN /\ files' = Without(files, {rotor.name})
            /\ handle' = Follow(handle, {rotor.name})
            /\ expired' = expired \cup Lines(files, {rotor.name})
            /\ rotor' = Idle
       ELSE /\ files' = IF logcfg.compress
                       THEN Put(files, zipped, [files[rotor.name] EXCEPT !.day = date.day])
                       ELSE files
            /\ rotor' = [rotor EXCEPT !.pc = IF logcfg.compress THEN "unlink" ELSE "prune"]
            /\ UNCHANGED <<handle, expired>>
    /\ UNCHANGED <<logcfg, periodStart, date, acked>>

\* gzipAndRemove: the original goes once the copy is complete.
UnlinkZipped ==
    /\ rotor.pc = "unlink"
    /\ files' = Without(files, {rotor.name}) /\ handle' = Follow(handle, {rotor.name})
    /\ rotor' = [rotor EXCEPT !.pc = "prune"]
    /\ UNCHANGED <<logcfg, periodStart, date, acked, expired>>

PruneRotated ==
    /\ rotor.pc = "prune"
    /\ \E out \in SUBSET Prune(files) :
          /\ files' = Without(files, out) /\ handle' = Follow(handle, out)
          /\ expired' = expired \cup Lines(files, out)
    /\ rotor' = Idle
    /\ UNCHANGED <<logcfg, periodStart, date, acked>>

----------------------------------------------------------------------------
\* The process ends (Close) or is killed; the next one starts with no handle.
LogRestart ==
    /\ handle # NoFile \/ rotor # Idle
    /\ handle' = NoFile /\ rotor' = Idle
    /\ UNCHANGED <<logcfg, files, periodStart, date, acked, expired>>

LogTime ==
    /\ \/ date.sec < Seconds /\ date' = [date EXCEPT !.sec = @ + 1]
       \/ date.day < LogMaxDay /\ date' = [day |-> date.day + 1, sec |-> 1]
    /\ UNCHANGED <<logcfg, files, handle, periodStart, rotor, acked, expired>>

LogNext ==
    \/ WriteLine \/ RotateCheck \/ Reopen \/ ExternalRename
    \/ LineOpen \/ LineWrite \/ CheckRename \/ TrimRotated \/ UnlinkZipped \/ PruneRotated
    \/ LogRestart \/ LogTime

LogSpec == LogInit /\ [][LogNext]_logVars

----------------------------------------------------------------------------
\* A line whose writer got no error is in one of the files until the keep policy
\* removes its file: no rename, restart, failing rotation or late write loses it.
\* For the files others append to, as long as rotation only renames; for those that
\* logrotate renames, as long as it alone removes them.
OnlyRenames == logcfg.keep = "forever" /\ ~logcfg.compress

LinesKept ==
    OnlyRenames \/ (logcfg.held /\ ~logcfg.external) =>
        acked \subseteq expired \cup Lines(files, DOMAIN files)

\* prune removes what is beyond the policy, in whatever order its removals succeed, fail
\* and are cut off: every line that counted retention has removed is older than n rotated
\* files that are there still, and every line that aged retention has removed was
\* written more than n days ago.  A compressed copy that stands beside its
\* original counts twice, and is left out.
NewestStay ==
    \A l \in expired :
        /\ logcfg.keep = "count" /\ ~logcfg.compress =>
              Cardinality({f \in DOMAIN files \ {Live} : files[f].last > l.n}) >= logcfg.n
        /\ logcfg.keep = "age" => date.day > l.day + logcfg.n

\* A held file that rotates daily never mixes the lines of two days, whatever
\* restarts, failing rotations and external renames happen in between.
OneDayPerFile ==
    logcfg.held /\ logcfg.daily =>
        \A f \in DOMAIN files : \A l, m \in files[f].lines : l.day = m.day

\* What the log files promise together: acknowledged lines are kept, retention removes
\* no more than it should, and days are not mixed.
LogsSound == LogTypeOK /\ LinesKept /\ NewestStay /\ OneDayPerFile

=============================================================================
