---------------------------- MODULE ServerProcess ----------------------------
(***************************************************************************)
(* Starting and stopping the server: the PID file (pid/pid.go), the order   *)
(* of the steps in main.go, binding and privilege drop, serving and the     *)
(* bounded shutdown (Run, runDualPort, bindAndDrop in server/server.go).    *)
(*                                                                         *)
(* Several instances of the program may be started on one machine, may be  *)
(* killed anywhere, and share the PID file and the port.  Process ids are  *)
(* recycled, also to programs that only have a name like the server's: the  *)
(* client, and the program itself run for a command.  Inside a container    *)
(* there is no PID file; that case is left out.  The tasks and hidden      *)
(* services an instance starts are modules Scheduler and HiddenService.    *)
(***************************************************************************)
EXTENDS Naturals

CONSTANTS
    Inst,          \* instances of the program
    Pids,          \* process ids
    MaxLaunches    \* bound on starts, of instances and of namesakes

ASSUME ProcessAssumption == Pids \subseteq Nat \ {0} /\ MaxLaunches \in Nat

VARIABLES
    inst,        \* per instance: position, pid, open requests, user, told to stop
    namesakes,   \* pids of other living processes with "pastebin" in the executable's name
    pidFile,     \* content of the PID file: 0 when absent
    port,        \* the instance that holds the listen port, or "free"
    launches,    \* starts so far
    refused,     \* history: who had the pid in the file when an instance was refused
    overlap      \* history: an instance was launched while another started or stopped

processVars == <<inst, namesakes, pidFile, port, launches, refused, overlap>>

Gone == [pc |-> "down", pid |-> 0, busy |-> FALSE, root |-> FALSE, stop |-> FALSE]

InstanceType ==
    [pc : {"down", "boot", "tasks", "check", "unlink", "write", "services", "bind", "drop",
           "serve", "draining", "closing", "cleanup"},
     pid : Pids \cup {0}, busy : BOOLEAN, root : BOOLEAN, stop : BOOLEAN]

ProcessTypeOK ==
    /\ inst \in [Inst -> InstanceType]
    /\ namesakes \in SUBSET Pids
    /\ pidFile \in Pids \cup {0}
    /\ port \in Inst \cup {"free"}
    /\ launches \in 0..MaxLaunches
    /\ refused \in {"none", "instance", "namesake", "wrongly"}
    /\ overlap \in BOOLEAN

ProcessInit ==
    /\ inst = [i \in Inst |-> Gone]
    /\ namesakes = {}
    /\ pidFile \in Pids \cup {0}      \* left by an instance that was killed
    /\ port = "free"
    /\ launches = 0
    /\ refused = "none"
    /\ overlap = FALSE

Alive(i) == inst[i].pc # "down"

\* Serving, and nobody has told it to stop.
Serving(i) == inst[i].pc = "serve" /\ ~inst[i].stop

\* isProcessRunning, and isOurProcess: "pastebin" is part of the executable's name.
OurProcess(pid) == pid \in namesakes \/ \E i \in Inst : Alive(i) /\ inst[i].pid = pid

To(i, pc) == inst' = [inst EXCEPT ![i].pc = pc]

\* os.Exit or a kill: no deferred call runs, so the PID file stays.
Exits(i) ==
    /\ inst' = [inst EXCEPT ![i] = Gone]
    /\ port' = IF port = i THEN "free" ELSE port

----------------------------------------------------------------------------
Launch(i) ==
    /\ ~Alive(i) /\ launches < MaxLaunches
    /\ \E p \in {q \in Pids : ~OurProcess(q)}, root \in BOOLEAN :
          inst' = [inst EXCEPT ![i] = [Gone EXCEPT !.pc = "boot", !.pid = p, !.root = root]]
    /\ launches' = launches + 1
    /\ overlap' = (\/ overlap /\ \E j \in Inst : Alive(j)
                   \/ \E j \in Inst : Alive(j) /\ ~Serving(j))
    /\ UNCHANGED <<namesakes, pidFile, port, refused>>

\* Another process with such a name starts or ends; the file is no business of its.
NamesakeStarts ==
    /\ launches < MaxLaunches /\ launches' = launches + 1
    /\ \E p \in {q \in Pids : ~OurProcess(q)} : namesakes' = namesakes \cup {p}
    /\ UNCHANGED <<inst, pidFile, port, refused, overlap>>

NamesakeEnds ==
    /\ \E p \in namesakes : namesakes' = namesakes \ {p}
    /\ UNCHANGED <<inst, pidFile, port, launches, refused, overlap>>

\* main: the data directory and the database; exit 70 when it does not open.
BootDatabase(i) ==
    /\ inst[i].pc = "boot"
    /\ \/ To(i, "tasks") /\ UNCHANGED port
       \/ Exits(i)
    /\ UNCHANGED <<pidFile, launches, refused, overlap>>

\* main: the tasks are registered, the backup directory is swept and the
\* scheduler starts, all before the PID file is looked at.
BootTasks(i) ==
    /\ inst[i].pc = "tasks" /\ To(i, "check")
    /\ UNCHANGED <<pidFile, port, launches, refused, overlap>>

\* Who has the pid in the file when instance i is turned away.
Refuser(i) ==
    IF \E j \in Inst \ {i} : Alive(j) /\ inst[j].pid = pidFile THEN "instance"
    ELSE IF pidFile \in namesakes THEN "namesake" ELSE "wrongly"

\* Mutated form: a file with this very pid is taken for another instance's.
PidCheckTrustsOwn(i) ==
    /\ inst[i].pc = "check"
    /\ IF pidFile = 0 THEN To(i, "write") /\ UNCHANGED <<refused, port>>
       ELSE IF ~OurProcess(pidFile)
       THEN To(i, "unlink") /\ UNCHANGED <<refused, port>>
       ELSE Exits(i) /\ refused' = Refuser(i)
    /\ UNCHANGED <<pidFile, launches, overlap>>

\* CheckPIDFile: no file; or a stale one (this very pid, or no process of ours),
\* which is then removed; or another process of ours, and main exits with 74.
PidCheck(i) ==
    /\ inst[i].pc = "check"
    /\ IF pidFile = 0 THEN To(i, "write") /\ UNCHANGED <<refused, port>>
       ELSE IF pidFile = inst[i].pid \/ ~OurProcess(pidFile)
       THEN To(i, "unlink") /\ UNCHANGED <<refused, port>>
       ELSE Exits(i) /\ refused' = Refuser(i)
    /\ UNCHANGED <<pidFile, launches, overlap>>

PidUnlink(i) ==
    /\ inst[i].pc = "unlink" /\ To(i, "write")
    /\ pidFile' = 0
    /\ UNCHANGED <<port, launches, refused, overlap>>

\* WritePIDFile, after the check and not atomic with it.
PidWrite(i) ==
    /\ inst[i].pc = "write" /\ To(i, "services")
    /\ pidFile' = inst[i].pid
    /\ UNCHANGED <<port, launches, refused, overlap>>

\* Run: the hidden services, the maintenance monitor, the refresh of the proxies
\* and the termbin listener start in the background; none of them ends the start.
StartServices(i) ==
    /\ inst[i].pc = "services" /\ To(i, "bind")
    /\ UNCHANGED <<pidFile, port, launches, refused, overlap>>

\* net.Listen, for both ports in dual-port mode.  A port in use or missing TLS in
\* dual-port mode ends the process with 70.
Listen(i) ==
    /\ inst[i].pc = "bind"
    /\ \/ port = "free" /\ port' = i /\ To(i, "drop")
       \/ Exits(i)
    /\ UNCHANGED <<pidFile, launches, refused, overlap>>

\* applyPrivilegeDrop: root is given up if a service account resolves; a failing
\* drop ends the process.
DropPrivileges(i) ==
    /\ inst[i].pc = "drop"
    /\ \/ /\ \E root \in {inst[i].root, FALSE} :
                inst' = [inst EXCEPT ![i].pc = "serve", ![i].root = root]
          /\ UNCHANGED port
       \/ inst[i].root /\ Exits(i)
    /\ UNCHANGED <<pidFile, launches, refused, overlap>>

RequestBegins(i) ==
    /\ inst[i].pc = "serve" /\ ~inst[i].busy
    /\ inst' = [inst EXCEPT ![i].busy = TRUE]
    /\ UNCHANGED <<pidFile, port, launches, refused, overlap>>

RequestEnds(i) ==
    /\ inst[i].pc \in {"serve", "draining"} /\ inst[i].busy
    /\ inst' = [inst EXCEPT ![i].busy = FALSE]
    /\ UNCHANGED <<pidFile, port, launches, refused, overlap>>

\* The first shutdown signal, as soon as runServer listens for it: the goroutine removes
\* the PID file, whoever wrote it, and cancels the context.  Wherever the start has got
\* to, it goes on until the server would serve.
Signal(i) ==
    /\ inst[i].pc \in {"services", "bind", "drop", "serve"} /\ ~inst[i].stop
    /\ inst' = [inst EXCEPT ![i].stop = TRUE]
    /\ pidFile' = 0
    /\ overlap' = (overlap \/ \E j \in Inst \ {i} : Alive(j))
    /\ UNCHANGED <<port, launches, refused>>

\* The context is cancelled: http.Server.Shutdown closes the listeners ...
Shutdown(i) ==
    /\ inst[i].pc = "serve" /\ inst[i].stop /\ To(i, "draining")
    /\ port' = "free"
    /\ UNCHANGED <<pidFile, launches, refused, overlap>>

\* ... and waits for the open requests, at most ten seconds; when they do not
\* end, Run returns the error and main exits with 70.
Drain(i) ==
    /\ inst[i].pc = "draining"
    /\ IF inst[i].busy THEN Exits(i) ELSE To(i, "closing") /\ UNCHANGED port
    /\ UNCHANGED <<pidFile, launches, refused, overlap>>

\* The deferred calls of Run: termbin, audit, hidden services, the notifier
\* (bounded), cache, geoip.
CloseServices(i) ==
    /\ inst[i].pc = "closing" /\ To(i, "cleanup")
    /\ UNCHANGED <<pidFile, port, launches, refused, overlap>>

\* The deferred calls of main: the PID file is removed once more, the scheduler
\* stops, log files and database are closed.
Cleanup(i) ==
    /\ inst[i].pc = "cleanup" /\ Exits(i)
    /\ pidFile' = 0
    /\ UNCHANGED <<launches, refused, overlap>>

\* A kill, and Serve failing on its own (exit 70).
Kill(i) ==
    /\ Alive(i) /\ Exits(i)
    /\ UNCHANGED <<pidFile, launches, refused, overlap>>

StartStep(i) == StartServices(i) \/ Listen(i) \/ DropPrivileges(i)
StopStep(i)  == Shutdown(i) \/ Drain(i) \/ CloseServices(i) \/ Cleanup(i)

InstStep(i) ==
    \/ BootDatabase(i) \/ BootTasks(i) \/ PidCheck(i) \/ PidUnlink(i) \/ PidWrite(i)
    \/ StartStep(i) \/ RequestBegins(i) \/ RequestEnds(i) \/ Signal(i) \/ StopStep(i) \/ Kill(i)

ProcessNext ==
    \/ \E i \in Inst : Launch(i) \/ (InstStep(i) /\ UNCHANGED namesakes)
    \/ NamesakeStarts \/ NamesakeEnds

\* The steps of a shutdown are fair, and those of the start that a signal may meet:
\* none of them waits for anybody.  Nothing makes a request end.
ProcessSpec ==
    /\ ProcessInit /\ [][ProcessNext]_processVars
    /\ \A i \in Inst :
         WF_processVars((StartStep(i) \/ StopStep(i)) /\ UNCHANGED namesakes)

----------------------------------------------------------------------------
\* A start is refused only because another living process has the pid in the file and a
\* name like the server's: a file left by a killed instance blocks nobody once its pid is
\* free, nor when it was given to the starting process itself or to a stranger.  (Given
\* to a namesake, a client or a command, it does block a start: isOurProcess looks at
\* the name only.)
NoFalseRefusal == refused # "wrongly"

\* As long as nobody is launched while another instance starts or stops, the PID
\* file names the serving instance: a second start against it is refused and
\* leaves its file alone.  (With such an overlap it may not: check and write are
\* two steps, and a stopping instance removes the file twice without looking
\* whose it is.)
PidFileNamesServer ==
    ~overlap => \A i \in Inst : Serving(i) =>
        /\ pidFile = inst[i].pid
        /\ \A j \in Inst \ {i} : inst[j].pc \in {"down", "boot", "tasks", "check"}

\* A shutdown signal ends the process, however far its start has got and although open
\* requests may never end.
ShutdownEnds == \A i \in Inst : inst[i].stop ~> ~Alive(i)

\* What start and stop promise together: the PID file refuses whom it should, and a stop
\* signal ends the process.
ProcessSound == [](ProcessTypeOK /\ NoFalseRefusal /\ PidFileNamesServer) /\ ShutdownEnds

=============================================================================
