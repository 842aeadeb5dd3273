--------------------------- MODULE ServiceManager ---------------------------
(***************************************************************************)
(* --service: installing, removing, disabling, starting and stopping the   *)
(* server under the system's service manager (service/service.go).         *)
(*                                                                         *)
(* A command is a sequence of steps, each a file operation or a call of    *)
(* the manager.  Some errors end the command, others are ignored; a step   *)
(* may fail, the command may be killed and the machine may reboot anywhere *)
(* in between.  The managers themselves are external and modelled by what  *)
(* the code expects of their commands.  Windows is left out.               *)
(***************************************************************************)
EXTENDS Naturals, Sequences

CONSTANTS
    Managers,           \* what DetectServiceManager may find
    MaxServiceCommands, \* bound: commands given
    MaxServiceFaults    \* bound: steps that fail

AllManagers == {"systemd", "openrc", "sysv", "runit", "launchd", "bsdrc"}

ASSUME ServiceAssumption ==
    /\ Managers \subseteq AllManagers
    /\ MaxServiceCommands \in Nat /\ MaxServiceFaults \in Nat

VARIABLES
    manager,
    unit,      \* the service file is there
    exe,       \* the binary at GetBinaryPath
    enabled,   \* the manager starts the service at boot
    online,    \* the server runs under the manager
    dirs,      \* configuration, data, logs, backups and the service account exist
    todo,      \* steps the current command has left
    svcCmd,    \* the current command
    given, svcFaults,
    unstopped, \* history: a call that stops the server has failed
    cutCopy    \* history: a copy of the binary was begun and not finished

machineVars == <<unit, exe, enabled, online, dirs>>
serviceVars == <<manager, machineVars, todo, svcCmd, given, svcFaults, unstopped, cutCopy>>

ServiceCommands == {"install", "uninstall", "disable", "start", "stop", "restart", "reload"}

Steps == {"unit", "truncate", "copy", "reload", "enable", "disable", "start", "stop",
          "remove", "purge"}

ServiceTypeOK ==
    /\ manager \in Managers
    /\ {unit, enabled, online, dirs, unstopped, cutCopy} \subseteq BOOLEAN
    /\ exe \in {"none", "torn", "whole"}
    /\ todo \in Seq(Steps) /\ Len(todo) <= 6
    /\ svcCmd \in ServiceCommands \cup {"none"}
    /\ given \in 0..MaxServiceCommands /\ svcFaults \in 0..MaxServiceFaults

\* A machine without the service; launchd starts what it finds unless told not to.
ServiceInit ==
    /\ manager \in Managers
    /\ unit = FALSE /\ exe = "none" /\ enabled = (manager = "launchd")
    /\ online = FALSE /\ dirs = FALSE
    /\ todo = <<>> /\ svcCmd = "none"
    /\ given = 0 /\ svcFaults = 0 /\ unstopped = FALSE /\ cutCopy = FALSE

----------------------------------------------------------------------------
(***************************************************************************)
(* The steps of every command.  copyBinary truncates the file and writes   *)
(* it; installRunit copies nothing, and only three of the managers are     *)
(* told to start the service at boot.                                      *)
(***************************************************************************)
CopyBinary == <<"truncate", "copy">>

InstallSystemd(copy) == <<"unit">> \o copy \o <<"reload", "enable">>
InstallOpenRC(copy)  == <<"unit">> \o copy \o <<"enable">>
InstallSysV(copy)    == <<"unit">> \o copy \o <<"enable">>
InstallRunit         == <<"unit", "enable">>
InstallLaunchd(copy) == <<"unit">> \o copy
InstallBSDRC(copy)   == <<"unit">> \o copy

UninstallSystemd == <<"stop", "disable", "remove", "reload">>
UninstallOpenRC  == <<"stop", "disable", "remove">>
UninstallSysV    == <<"stop", "disable", "remove">>
UninstallRunit   == <<"stop", "disable", "remove">>
UninstallLaunchd == <<"stop", "remove">>
UninstallBSDRC   == <<"stop", "remove">>

\* Install ends with Start, whose failure is only reported.
InstallService(copy) ==
    (CASE manager = "systemd" -> InstallSystemd(copy) [] manager = "openrc" -> InstallOpenRC(copy)
       [] manager = "sysv"    -> InstallSysV(copy)    [] manager = "runit"  -> InstallRunit
       [] manager = "launchd" -> InstallLaunchd(copy) [] manager = "bsdrc"  -> InstallBSDRC(copy))
    \o <<"start">>

\* Mutated form: the service file goes first, and some managers stop nothing
\* without it.
UninstallRemovesFirst == <<"remove", "stop", "purge">>

UninstallService ==
    (CASE manager = "systemd" -> UninstallSystemd [] manager = "openrc"  -> UninstallOpenRC
       [] manager = "sysv"    -> UninstallSysV    [] manager = "runit"   -> UninstallRunit
       [] manager = "launchd" -> UninstallLaunchd [] manager = "bsdrc"   -> UninstallBSDRC)
    \o <<"purge">>

Disable == <<"stop", "disable">>
Restart == <<"stop", "start">>

\* The signal changes nothing here; two managers restart instead.
Reload == IF manager \in {"launchd", "bsdrc"} THEN Restart ELSE <<>>

\* Errors that end a command.  Those of systemd's and OpenRC's enable do, SysV's
\* and runit's are dropped; of Uninstall only the removal counts, and not runit's.
\* Disable goes on when the server does not stop, as launchd's restart does.
Fatal(step) ==
    CASE svcCmd = "install" ->
            \/ step \in {"unit", "truncate", "copy", "reload"}
            \/ step = "enable" /\ manager \in {"systemd", "openrc"}
      [] svcCmd = "uninstall" -> step = "remove" /\ manager # "runit"
      [] svcCmd = "disable" -> FALSE
      [] OTHER -> manager # "launchd"

\* isPrivileged, canEscalate, execElevated: install and uninstall run as root or
\* not at all; the other commands leave it to the manager to refuse.
Escalates(user) == user \in {"root", "admin"}

\* The binary that installs may be the installed one, which is then not copied.
Given(cmd) ==
    \/ cmd = "install" /\ todo' = InstallService(CopyBinary)
    \/ cmd = "install" /\ exe = "whole" /\ todo' = InstallService(<<>>)
    \/ cmd = "uninstall" /\ todo' = UninstallService
    \/ cmd = "disable" /\ todo' = Disable
    \/ cmd = "start" /\ todo' = <<"start">>
    \/ cmd = "stop" /\ todo' = <<"stop">>
    \/ cmd = "restart" /\ todo' = Restart
    \/ cmd = "reload" /\ todo' = Reload

\* main: --service, with confirmDestructive answered with yes.
Service(cmd, user) ==
    /\ todo = <<>> /\ given < MaxServiceCommands
    /\ cmd \in {"install", "uninstall"} => Escalates(user)
    /\ Given(cmd)
    /\ svcCmd' = cmd /\ given' = given + 1
    /\ UNCHANGED <<manager, machineVars, svcFaults, unstopped, cutCopy>>

----------------------------------------------------------------------------
\* What the managers need to do their part: all but systemd act on the service
\* file, runit and rc.d only on a service that is enabled.
CanStop == /\ manager = "systemd" \/ unit
           /\ manager \in {"runit", "bsdrc"} => enabled

CanStart == /\ unit /\ exe = "whole"
            /\ manager \in {"runit", "bsdrc", "launchd"} => enabled

\* A running program cannot be written to, except on macOS.
Writable == online => manager = "launchd"

Possible(step) ==
    CASE step = "truncate" -> Writable
      [] step = "enable" -> unit
      [] step = "stop" -> online => CanStop
      [] step = "start" -> online \/ CanStart
      [] OTHER -> TRUE

\* The server provisions its account and its directories when it starts.
Provisions == dirs' = TRUE

Works(step) ==
    /\ unit'    = (IF step = "unit" THEN TRUE ELSE IF step = "remove" THEN FALSE ELSE unit)
    /\ exe'     = (IF step = "truncate" THEN "torn" ELSE IF step = "copy" THEN "whole" ELSE exe)
    /\ enabled' = (IF step = "enable" THEN TRUE ELSE IF step = "disable" THEN FALSE ELSE enabled)
    /\ online' = (IF step = "start" THEN TRUE ELSE IF step = "stop" THEN FALSE ELSE online)
    /\ IF step = "start" THEN Provisions
       ELSE dirs' = (IF step = "purge" THEN FALSE ELSE dirs)
    /\ cutCopy' = (IF step = "truncate" THEN TRUE ELSE IF step = "copy" THEN FALSE ELSE cutCopy)

StepDone ==
    /\ todo # <<>> /\ Possible(Head(todo))
    /\ Works(Head(todo)) /\ todo' = Tail(todo)
    /\ UNCHANGED <<manager, svcCmd, given, svcFaults, unstopped>>

\* The step cannot work, or fails for a reason of its own.
StepFails ==
    /\ todo # <<>>
    /\ Possible(Head(todo)) => svcFaults < MaxServiceFaults
    /\ svcFaults' = IF Possible(Head(todo)) THEN svcFaults + 1 ELSE svcFaults
    /\ todo' = IF Fatal(Head(todo)) THEN <<>> ELSE Tail(todo)
    /\ unstopped' = (unstopped \/ (Head(todo) = "stop" /\ Possible("stop")))
    /\ UNCHANGED <<manager, machineVars, svcCmd, given, cutCopy>>

----------------------------------------------------------------------------
\* The machine reboots, in the middle of a command too.
Reboot ==
    /\ todo' = <<>>
    /\ online' = (unit /\ enabled /\ exe = "whole")
    /\ dirs' = (dirs \/ online')
    /\ UNCHANGED <<manager, unit, exe, enabled, svcCmd, given, svcFaults, unstopped, cutCopy>>

ServerExits ==
    /\ online /\ online' = FALSE
    /\ UNCHANGED <<manager, unit, exe, enabled, dirs, todo, svcCmd, given, svcFaults,
                   unstopped, cutCopy>>

CommandKilled ==
    /\ todo # <<>> /\ todo' = <<>>
    /\ UNCHANGED <<manager, machineVars, svcCmd, given, svcFaults, unstopped, cutCopy>>

\* "Add '%s_enable="YES"' to /etc/rc.conf", as installBSDRC asks.
OperatorEnables ==
    /\ manager = "bsdrc" /\ ~enabled /\ enabled' = TRUE
    /\ UNCHANGED <<manager, unit, exe, online, dirs, todo, svcCmd, given, svcFaults,
                   unstopped, cutCopy>>

ServiceNext ==
    \/ \E cmd \in ServiceCommands, user \in {"root", "admin", "other"} : Service(cmd, user)
    \/ StepDone \/ StepFails \/ Reboot \/ ServerExits \/ CommandKilled \/ OperatorEnables

ServiceSpec == ServiceInit /\ [][ServiceNext]_serviceVars

----------------------------------------------------------------------------
\* Uninstall deletes the directories only when no server uses them, unless a call
\* that stops it has failed, and when no service file is left that would start one
\* again (whose removal under runit is not checked).
PurgeAfterStop ==
    (todo # <<>> /\ Head(todo) = "purge") =>
        /\ online => unstopped
        /\ unit => manager = "runit"

\* Where Install itself enables the service, what starts at boot is a complete
\* binary, whichever step failed, was killed or repeated before; only a copy cut
\* short in place over an older installation breaks it.  (runit's Install never
\* copies the binary.)
BootsWhole ==
    manager \in {"systemd", "openrc", "sysv"} /\ unit /\ enabled /\ ~cutCopy => exe = "whole"

\* What the --service commands promise together: no purge under a running server and
\* no boot into a binary cut short.
ServiceSound == ServiceTypeOK /\ PurgeAfterStop /\ BootsWhole

=============================================================================
