------------------------------ MODULE Updater -------------------------------
(***************************************************************************)
(* Self-update: the server's binary, which the task update_check and the   *)
(* command `--update yes' replace, and the command line client's, which    *)
(* `pastebin-cli --update yes' replaces.                                   *)
(*                                                                         *)
(* Releases are numbered in the order of their publication; a file is the  *)
(* number of the release it is a complete copy of, or Garbled (a cut       *)
(* download, an error page saved because DoUpdate does not look at the     *)
(* status).  What a release is called and what its binary calls itself are  *)
(* two things: the release workflow tags v1.2.3 what it builds as 1.2.3,    *)
(* `make release' uses one name for both.  A process that restarts itself   *)
(* keeps its arguments, so the command runs once more from the new binary.  *)
(* The server and the command are the updaters of one binary and know       *)
(* nothing of each other.                                                   *)
(***************************************************************************)
EXTENDS Naturals, FiniteSets, FiniteSetsExt

CONSTANTS
    Channel,        \* per release: "stable", or what the tag of a prerelease says: "beta",
                    \* "daily", or "other" (the tag `daily' itself)
    TagIsVersion,   \* per release: is its tag the version its binary carries
    Version,        \* per release: the three segments of that version
    Branches,       \* the values server.update.branch may have
    DeferDays,      \* server.update.defer_days
    UpdateMaxDay,   \* bound on the days
    MaxUpdateFailures  \* bound on the failing steps and crashes

Releases == DOMAIN Channel
Garbled  == 0

\* A segment of a version: is it a number, which one, and its place among the segments
\* compared as strings.
Segments == [numeric : BOOLEAN, value : Nat, text : Nat]

ASSUME UpdateNumbers == /\ Cardinality(Releases) \in Nat
                        /\ Releases = 1 .. Cardinality(Releases) /\ Releases # {}
                        /\ Channel[1] = "stable"
                        /\ TagIsVersion \in [Releases -> BOOLEAN]
                        /\ Version \in [Releases -> [1 .. 3 -> Segments]]
                        /\ DeferDays \in Nat /\ UpdateMaxDay \in Nat /\ MaxUpdateFailures \in Nat

VARIABLES
    published,  \* the releases 1 .. published are out
    since,      \* the day each of them was published
    branch,     \* server.update.branch in server.yml
    autoInstall,\* server.update.auto_install, which stays what it is
    binary,     \* the server's binary file
    upd,        \* per updater: position, version it runs, branch it read, release, temp file
    clientFile, \* the client's binary file
    clientStep, \* the client's update: position, version it runs, staged file
    updDay,
    updateFailures

updateVars == <<published, since, branch, autoInstall, binary, upd, clientFile, clientStep, updDay,
                updateFailures>>

Updaters == {"task", "cli"}
Files    == Releases \cup {Garbled}

UpdaterTypeOK ==
    /\ published \in Releases
    /\ since \in [Releases -> 0 .. UpdateMaxDay]
    /\ branch \in Branches /\ autoInstall \in BOOLEAN
    /\ binary \in Files /\ clientFile \in Files
    /\ upd \in [Updaters -> [pc : {"idle", "check", "found", "saved", "proven", "installed"},
                             runs : Files, branch : Branches, rel : Releases, temp : Files]]
    /\ clientStep \in [pc : {"idle", "check", "saved", "copy", "staged", "installed"},
                       runs : Files, temp : Files, beside : Files]
    /\ updDay \in 0 .. UpdateMaxDay /\ updateFailures \in 0 .. MaxUpdateFailures

\* What an updater that has finished leaves: the command's process is gone.
AtEase(a, u) == [u EXCEPT !.pc = "idle", !.rel = 1, !.temp = Garbled,
                          !.runs = IF a = "cli" THEN 1 ELSE @]
ClientAtEase == [pc |-> "idle", runs |-> 1, temp |-> Garbled, beside |-> Garbled]

UpdaterInit ==
    /\ published = 1 /\ since = [r \in Releases |-> 0]
    /\ branch \in Branches /\ autoInstall \in BOOLEAN
    /\ binary = 1 /\ clientFile = 1
    /\ upd = [a \in Updaters |->
                [pc |-> "idle", runs |-> 1, branch |-> branch, rel |-> 1, temp |-> Garbled]]
    /\ clientStep = ClientAtEase
    /\ updDay = 0 /\ updateFailures = 0

worldVars  == <<published, since, branch, autoInstall, updDay>>
clientVars == <<clientFile, clientStep>>

\* Each channel also takes the releases of the more stable ones.
MatchesBranch(r, b) ==
    \/ Channel[r] = "stable"
    \/ Channel[r] = "beta" /\ b \in {"beta", "daily"}
    \/ Channel[r] = "daily" /\ b = "daily"

\* The comparison of a release's tag with the version a process runs.
IsCurrent(r, v) == r = v /\ TagIsVersion[r]

\* What is offered to a process that runs version v: at most one release.
CheckForUpdate(v, b) ==
    LET stable  == {r \in 1 .. published : Channel[r] = "stable"}
        matches == {r \in 1 .. published : MatchesBranch(r, b) /\ ~IsCurrent(r, v)}
    IN  IF b = "stable" THEN {r \in {Max(stable)} : ~IsCurrent(r, v)}
        ELSE IF matches = {} THEN {} ELSE {Max(matches)}

\* The scheduler starts the task; an operator the command, which reads server.yml.
UpdateCheckRuns ==
    /\ upd["task"].pc = "idle"
    /\ upd' = [upd EXCEPT !["task"].pc = "check"]
    /\ UNCHANGED <<worldVars, clientVars, binary, updateFailures>>

UpdateYes ==
    /\ upd["cli"].pc = "idle"
    /\ upd' = [upd EXCEPT !["cli"] = [@ EXCEPT !.pc = "check", !.runs = binary,
                                               !.branch = branch]]
    /\ UNCHANGED <<worldVars, clientVars, binary, updateFailures>>

\* Mutated form: the comparison the wrong way round.
DeferredUntilStale(a, r) == a = "task" /\ updDay - since[r] >= DeferDays

\* A release the task must leave alone for now; the command does not look at its age.
Deferred(a, r) == a = "task" /\ updDay - since[r] < DeferDays

\* The task only notifies unless auto_install is set, which is not the default.
UpdateCheck(a) ==
    LET offered == CheckForUpdate(upd[a].runs, upd[a].branch)
        wanted  == {r \in offered : ~Deferred(a, r)}
    IN  /\ upd[a].pc = "check"
        /\ upd' = [upd EXCEPT ![a] =
                     IF wanted = {} \/ (a = "task" /\ ~autoInstall) THEN AtEase(a, @)
                     ELSE [@ EXCEPT !.pc = "found", !.rel = CHOOSE r \in wanted : TRUE]]
        /\ UNCHANGED <<worldVars, clientVars, binary, updateFailures>>

\* The download into a temporary file beside the binary.
DoUpdate(a) ==
    /\ upd[a].pc = "found"
    /\ \/ upd' = [upd EXCEPT ![a] = [@ EXCEPT !.pc = "saved", !.temp = upd[a].rel]]
          /\ UNCHANGED updateFailures
       \/ /\ updateFailures < MaxUpdateFailures /\ updateFailures' = updateFailures + 1
          /\ upd' = [upd EXCEPT ![a] = [@ EXCEPT !.pc = "saved", !.temp = Garbled]]
    /\ UNCHANGED <<worldVars, clientVars, binary>>

\* fetchExpectedChecksum and verifyChecksum: checksums.txt names the complete file.
VerifyChecksum(a) ==
    /\ upd[a].pc = "saved"
    /\ upd' = [upd EXCEPT ![a] = IF @.temp = @.rel THEN [@ EXCEPT !.pc = "proven"]
                                 ELSE AtEase(a, @)]
    /\ UNCHANGED <<worldVars, clientVars, binary, updateFailures>>

\* The rename over the running binary.
ReplaceBinary(a) ==
    /\ upd[a].pc = "proven"
    /\ binary' = upd[a].temp
    /\ upd' = [upd EXCEPT ![a].pc = "installed"]
    /\ UNCHANGED <<worldVars, clientVars, updateFailures>>

\* The process image is replaced by whatever the binary file holds by now: the server
\* starts anew and reads server.yml, the command runs again with its arguments.
RestartSelf(a) ==
    /\ upd[a].pc = "installed"
    /\ upd' = [upd EXCEPT ![a] =
                 [pc |-> IF a = "cli" THEN "check" ELSE "idle", runs |-> binary,
                  branch |-> branch, rel |-> 1, temp |-> Garbled]]
    /\ UNCHANGED <<worldVars, clientVars, binary, updateFailures>>

\* A request, the checksum, the rename or the exec fails, or the process dies; a server
\* that dies is started again from the file.
UpdateAborted(a) ==
    /\ upd[a].pc # "idle"
    /\ updateFailures < MaxUpdateFailures /\ updateFailures' = updateFailures + 1
    /\ \E died \in BOOLEAN :
         upd' = [upd EXCEPT ![a] =
                   AtEase(a, IF died THEN [@ EXCEPT !.runs = binary, !.branch = branch]
                             ELSE @)]
    /\ UNCHANGED <<worldVars, clientVars, binary>>

\* `--update branch': the next start of the server and the next command see it.
SetUpdateBranch ==
    /\ branch' \in Branches \ {branch}
    /\ updateFailures < MaxUpdateFailures /\ updateFailures' = updateFailures + 1
    /\ UNCHANGED <<published, since, autoInstall, updDay, clientVars, binary, upd>>

ReleaseAppears ==
    /\ published + 1 \in Releases /\ updDay + DeferDays <= UpdateMaxDay
    /\ published' = published + 1
    /\ since' = [since EXCEPT ![published + 1] = updDay]
    /\ UNCHANGED <<branch, autoInstall, updDay, clientVars, binary, upd, updateFailures>>

UpdateDayPasses ==
    /\ updDay < UpdateMaxDay /\ updDay' = updDay + 1
    /\ UNCHANGED <<published, since, branch, autoInstall, clientVars, binary, upd, updateFailures>>

-----------------------------------------------------------------------------
(* The client: the server it talks to offers the release it runs itself.    *)
Untouched == UNCHANGED <<worldVars, binary, upd>>

\* Two segments are compared as numbers if both are numbers and else as strings.
SegmentRank(s, t) == IF s.numeric /\ t.numeric THEN s.value ELSE s.text

\* The first segment that differs decides.  (Builds that call themselves dev or unknown
\* are no releases.)
VersionLessThan(a, b) ==
    LET s == Version[a]
        t == Version[b]
    IN  \E i \in 1 .. 3 :
           /\ SegmentRank(s[i], t[i]) < SegmentRank(t[i], s[i])
           /\ \A j \in 1 .. i - 1 : SegmentRank(s[j], t[j]) = SegmentRank(t[j], s[j])

ClientUpdateYes ==
    /\ clientStep.pc = "idle"
    /\ clientStep' = [clientStep EXCEPT !.pc = "check", !.runs = clientFile]
    /\ Untouched /\ UNCHANGED <<clientFile, updateFailures>>

\* cmdUpdate and the download, written and hashed in one pass: a file whose sum differs
\* is never staged.
ClientDownload ==
    /\ clientStep.pc = "check"
    /\ clientStep' =
         IF VersionLessThan(clientStep.runs, upd["task"].runs)
         THEN [clientStep EXCEPT !.pc = "saved", !.temp = upd["task"].runs]
         ELSE ClientAtEase
    /\ Untouched /\ UNCHANGED <<clientFile, updateFailures>>

\* The rename over the binary; between file systems it fails and the file is copied
\* beside the binary first.
ClientRename ==
    /\ clientStep.pc = "saved"
    /\ \/ /\ clientFile' = clientStep.temp
          /\ clientStep' = [clientStep EXCEPT !.pc = "installed"]
       \/ /\ clientStep' = [clientStep EXCEPT !.pc = "copy", !.beside = Garbled]
          /\ UNCHANGED clientFile
    /\ Untouched /\ UNCHANGED updateFailures

\* The copy, and the rename of what was copied.
ReplaceCrossDevice ==
    /\ \/ /\ clientStep.pc = "copy"
          /\ clientStep' = [clientStep EXCEPT !.pc = "staged", !.beside = clientStep.temp]
          /\ UNCHANGED clientFile
       \/ /\ clientStep.pc = "staged"
          /\ clientStep' = [clientStep EXCEPT !.pc = "installed"]
          /\ clientFile' = clientStep.beside
    /\ Untouched /\ UNCHANGED updateFailures

\* The new binary runs the same command.
ReExec ==
    /\ clientStep.pc = "installed"
    /\ clientStep' = [clientStep EXCEPT !.pc = "check", !.runs = clientFile,
                                       !.temp = Garbled, !.beside = Garbled]
    /\ Untouched /\ UNCHANGED <<clientFile, updateFailures>>

\* The download fails or its sum differs, the disk fills up, the process is killed.
ClientAborted ==
    /\ clientStep.pc # "idle"
    /\ updateFailures < MaxUpdateFailures /\ updateFailures' = updateFailures + 1
    /\ clientStep' = ClientAtEase
    /\ Untouched /\ UNCHANGED clientFile

-----------------------------------------------------------------------------
UpdaterStep(a) ==
    UpdateCheck(a) \/ DoUpdate(a) \/ VerifyChecksum(a) \/ ReplaceBinary(a) \/ RestartSelf(a)

ClientStep == ClientDownload \/ ClientRename \/ ReplaceCrossDevice \/ ReExec

UpdaterNext ==
    \/ UpdateCheckRuns \/ UpdateYes \/ SetUpdateBranch
    \/ \E a \in Updaters : UpdaterStep(a) \/ UpdateAborted(a)
    \/ ClientUpdateYes \/ ClientStep \/ ClientAborted
    \/ ReleaseAppears \/ UpdateDayPasses

\* The scheduler runs the task again and again, days pass, and a step that has begun
\* goes on: every one of them has a timeout.
UpdaterFair ==
    /\ WF_updateVars(UpdateCheckRuns) /\ WF_updateVars(UpdateDayPasses)
    /\ \A a \in Updaters : WF_updateVars(UpdaterStep(a))
    /\ WF_updateVars(ClientStep)

UpdaterSpec == UpdaterInit /\ [][UpdaterNext]_updateVars /\ UpdaterFair

-----------------------------------------------------------------------------
(* Whatever is downloaded, whoever installs at the same time and wherever a *)
(* process dies, both binary files are complete releases at every moment:   *)
(* the next start of the server and of the client works (DoUpdate,          *)
(* downloadAndApplyUpdate).                                                 *)
BinariesWhole == binary # Garbled /\ clientFile # Garbled

\* A version of three numbers, as releases have them; betas and dailies need not.
HasNumber(r) == \A i \in 1 .. 3 : Version[r][i].numeric

NumberAt(r, i) == Version[r][i].value

\* An older release by the numbers.
Before(a, b) ==
    \/ NumberAt(a, 1) < NumberAt(b, 1)
    \/ NumberAt(a, 1) = NumberAt(b, 1) /\ NumberAt(a, 2) < NumberAt(b, 2)
    \/ /\ NumberAt(a, 1) = NumberAt(b, 1) /\ NumberAt(a, 2) = NumberAt(b, 2)
       /\ NumberAt(a, 3) < NumberAt(b, 3)

(* A client is never replaced by an older release, major, minor and patch   *)
(* being compared as numbers, although it asks a server that may have gone  *)
(* back itself.  Only between two numbered releases: versionLessThan takes  *)
(* 1.0.10 for older than 1.0.10-beta, and that for older than 1.0.9.        *)
ClientMovesForward ==
    [][HasNumber(clientFile) /\ HasNumber(clientFile') => ~Before(clientFile', clientFile)]_updateVars

LatestStable == Max({r \in 1 .. published : Channel[r] = "stable"})

(* What the two liveness properties need: the server and the command follow *)
(* the stable branch, and its latest release is tagged with its version, as *)
(* `make release' does it.  Under a tag v1.2.3 both never take themselves   *)
(* for up to date, and install the same release again and again.            *)
StableAndTagged ==
    /\ branch = "stable" /\ \A a \in Updaters : upd[a].branch = "stable"
    /\ TagIsVersion[LatestStable]

(* With auto_install the server comes to run the latest stable release and  *)
(* stays with it, although the exec after its own update may pick up an      *)
(* older one which the command has put there (UpdateCheck, RestartSelf).    *)
(* The file may stay older than the process: a command that was given the   *)
(* previous release may install it late and be killed before it runs again. *)
SettlesOnStable ==
    autoInstall /\ <>[]StableAndTagged => <>[](upd["task"].runs = LatestStable)

(* `--update yes', which runs again from every binary it installs, comes to *)
(* its end (main.go, RestartSelf).                                          *)
StableCommandEnds ==
    <>[]StableAndTagged => (upd["cli"].pc # "idle" ~> upd["cli"].pc = "idle")

\* What updating promises together: whole binaries, clients that only move forward,
\* and a stable branch that settles.
UpdaterSound ==
    /\ [](UpdaterTypeOK /\ BinariesWhole)
    /\ ClientMovesForward /\ SettlesOnStable /\ StableCommandEnds

=============================================================================
