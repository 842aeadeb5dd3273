--------------------------- MODULE BackgroundProofs ---------------------------
(***************************************************************************)
(* Proofs about what runs beside the requests: start and stop of the       *)
(* server (ServerProcess), the hidden services (HiddenService), the        *)
(* updates (Updater), the GeoIP databases (GeoDatabases), the maintenance  *)
(* monitor (HealthMonitor), the webhooks (Webhooks) and the configuration  *)
(* with its watcher (ConfigStore).                                         *)
(*                                                                         *)
(* The safety parts of the properties that the runs check together with    *)
(* liveness, for every value of the constants.                             *)
(***************************************************************************)
EXTENDS ServerProcess, HiddenService, Updater, GeoDatabases, HealthMonitor, Webhooks, ConfigStore,
        FiniteSetTheorems, WellFoundedInduction, TLAPS

-----------------------------------------------------------------------------
(***************************************************************************)
(* ServerProcess.                                                          *)
(***************************************************************************)
\* The kernel gives no two living processes one pid.
PidsDistinct ==
    \A i \in Inst : Alive(i) =>
        inst[i].pid \in Pids \ namesakes /\ \A j \in Inst \ {i} : Alive(j) => inst[j].pid # inst[i].pid

BeforeCheck == {"down", "boot", "tasks", "check"}
HasWritten  == {"services", "bind", "drop", "serve"}
Settled(i)  == inst[i].pc = "down" \/ Serving(i)

\* Without an overlap: one instance at a time is on its way; it passes the check only
\* when nobody else is alive; and the file is its own from the write to the stop.
OneOnItsWay ==
    \A i, j \in Inst : i # j /\ ~Settled(i) => Settled(j)
AlonePastCheck ==
    \A i, j \in Inst : i # j =>
        /\ Serving(i) => inst[j].pc \in BeforeCheck
        /\ inst[i].pc \notin BeforeCheck /\ ~Serving(i) => inst[j].pc = "down"
FileIsOwn == \A i \in Inst : inst[i].pc \in HasWritten /\ ~inst[i].stop => pidFile = inst[i].pid

ProcessInv ==
    /\ ProcessTypeOK /\ NoFalseRefusal /\ PidsDistinct
    /\ ~overlap => OneOnItsWay /\ AlonePastCheck /\ FileIsOwn

LEMMA ProcessStart == ASSUME ProcessInit PROVE ProcessInv
  <1>1. Gone \in InstanceType /\ Gone.pc = "down"
    BY DEF Gone, InstanceType
  <1>2. 0 \in 0 .. MaxLaunches
    BY ProcessAssumption
  <1>3. ProcessTypeOK
    BY <1>1, <1>2 DEF ProcessInit, ProcessTypeOK
  <1> QED
    BY <1>1, <1>3 DEF ProcessInit, ProcessInv, NoFalseRefusal, PidsDistinct, OneOnItsWay, AlonePastCheck,
                      FileIsOwn, Alive, BeforeCheck, Settled, HasWritten

\* A step that moves one living instance, without looking at the file: it need only
\* end where what is known of instances still holds.
LEMMA ProcessMoves ==
  ASSUME ProcessInv, NEW i \in Inst, NEW x \in InstanceType,
         inst' = [inst EXCEPT ![i] = x],
         Alive(i), x.pc = "down" \/ x.pid = inst[i].pid,
         port' \in Inst \cup {"free"}, UNCHANGED <<namesakes, pidFile, launches, refused, overlap>>,
         x.pc = "down" \/ x.stop = inst[i].stop,
         \/ x.pc = "down" \/ x.pc = inst[i].pc
         \/ /\ inst[i].pc \in BeforeCheck /\ x.pc \in BeforeCheck
         \/ /\ inst[i].pc \notin BeforeCheck /\ ~Serving(i) /\ x.pc \notin BeforeCheck
            /\ x.pc \in HasWritten => inst[i].pc \in HasWritten
  PROVE  ProcessInv'
  <1>0. ProcessTypeOK /\ inst \in [Inst -> InstanceType]
    BY DEF ProcessInv, ProcessTypeOK
  <1>1. ProcessTypeOK' /\ NoFalseRefusal'
    BY <1>0 DEF ProcessInv, ProcessTypeOK, NoFalseRefusal
  <1>2. \A j \in Inst : inst'[j] = IF j = i THEN x ELSE inst[j]
    BY <1>0
  <1>9. ASSUME NEW j \in Inst
        PROVE  /\ j # i => /\ Serving(j)' <=> Serving(j)
                           /\ Settled(j)' <=> Settled(j)
                           /\ inst'[j].pc = inst[j].pc
               /\ Serving(i)' <=> x.pc = "serve" /\ ~x.stop
               /\ Settled(i)' <=> x.pc = "down" \/ Serving(i)'
    BY <1>2, <1>9 DEF Serving, Settled
  <1>3. PidsDistinct'
    BY <1>2 DEF ProcessInv, PidsDistinct, Alive
  <1>4. ~overlap => OneOnItsWay'
    BY <1>2, <1>9
    DEF ProcessInv, OneOnItsWay, AlonePastCheck, Alive, BeforeCheck, Settled, Serving, HasWritten
  <1>5. ~overlap => AlonePastCheck'
    BY <1>2, <1>9
    DEF ProcessInv, OneOnItsWay, AlonePastCheck, Alive, BeforeCheck, Settled, Serving, HasWritten
  <1>6. ~overlap => FileIsOwn'
    BY <1>2 DEF ProcessInv, FileIsOwn, Alive, BeforeCheck, HasWritten
  <1> QED
    BY <1>1, <1>3, <1>4, <1>5, <1>6 DEF ProcessInv

\* The two ways to move: to another place, and out.
LEMMA ProcessGoes ==
  ASSUME ProcessInv, NEW i \in Inst, NEW p, To(i, p), Alive(i),
         port' \in Inst \cup {"free"}, UNCHANGED <<namesakes, pidFile, launches, refused, overlap>>,
         \/ inst[i].pc = "boot" /\ p = "tasks"
         \/ inst[i].pc = "tasks" /\ p = "check"
         \/ inst[i].pc = "services" /\ p = "bind"
         \/ inst[i].pc = "bind" /\ p = "drop"
         \/ inst[i].pc = "serve" /\ inst[i].stop /\ p = "draining"
         \/ inst[i].pc = "draining" /\ p = "closing"
         \/ inst[i].pc = "closing" /\ p = "cleanup"
  PROVE  ProcessInv'
  <1> DEFINE x == [inst[i] EXCEPT !.pc = p]
  <1>1. inst[i] \in InstanceType
    BY DEF ProcessInv, ProcessTypeOK
  <1>2. x \in InstanceType /\ x.pc = p /\ x.pid = inst[i].pid /\ x.stop = inst[i].stop
    BY <1>1 DEF InstanceType
  <1>3. inst' = [inst EXCEPT ![i] = x]
    BY DEF To
  <1> HIDE DEF x
  <1> QED
    BY <1>2, <1>3, ProcessMoves DEF BeforeCheck, HasWritten, Serving

LEMMA ProcessEnds ==
  ASSUME ProcessInv, NEW i \in Inst, Exits(i), Alive(i),
         UNCHANGED <<namesakes, pidFile, launches, refused, overlap>>
  PROVE  ProcessInv'
  <1>1. Gone \in InstanceType /\ Gone.pc = "down"
    BY DEF Gone, InstanceType
  <1>2. port' \in Inst \cup {"free"}
    BY DEF ProcessInv, ProcessTypeOK, Exits
  <1>3. inst' = [inst EXCEPT ![i] = Gone]
    BY DEF Exits
  <1> QED
    BY <1>1, <1>2, <1>3, ProcessMoves

LEMMA ProcessLaunch == ASSUME ProcessInv, NEW i \in Inst, Launch(i) PROVE ProcessInv'
  <1>1. inst \in [Inst -> InstanceType] /\ launches \in 0 .. MaxLaunches /\ inst[i].pc = "down"
    BY DEF ProcessInv, ProcessTypeOK, Launch, Alive
  <1>2. PICK p \in Pids, root \in BOOLEAN :
          /\ ~OurProcess(p)
          /\ inst' = [inst EXCEPT ![i] = [Gone EXCEPT !.pc = "boot", !.pid = p, !.root = root]]
    BY DEF Launch
  <1> DEFINE x == [Gone EXCEPT !.pc = "boot", !.pid = p, !.root = root]
  <1>3. x \in InstanceType /\ x.pc = "boot" /\ x.pid = p
    BY <1>2 DEF InstanceType, Gone
  <1>4. inst' = [inst EXCEPT ![i] = x]
    BY <1>2
  <1> HIDE DEF x
  <1>5. \A j \in Inst : inst'[j] = IF j = i THEN x ELSE inst[j]
    BY <1>1, <1>4
  <1>6. launches' \in 0 .. MaxLaunches
    BY <1>1, ProcessAssumption DEF Launch
  <1>7. ProcessTypeOK' /\ NoFalseRefusal'
    BY <1>1, <1>3, <1>4, <1>6 DEF ProcessInv, ProcessTypeOK, NoFalseRefusal, Launch
  <1>8. PidsDistinct'
    <2>1. namesakes' = namesakes /\ p \in Pids \ namesakes
      BY <1>2 DEF Launch, OurProcess
    <2> QED
      BY <1>2, <1>3, <1>5, <2>1 DEF ProcessInv, PidsDistinct, OurProcess, Alive
  <1>9. ASSUME ~overlap' PROVE (OneOnItsWay /\ AlonePastCheck /\ FileIsOwn)'
    <2>1. \A j \in Inst : Settled(j)
      BY <1>9 DEF Launch, Settled, Alive
    <2>2. (\A j \in Inst : inst[j].pc = "down") \/ (AlonePastCheck /\ FileIsOwn)
      BY <1>9 DEF ProcessInv, Launch, Alive
    <2>3. OneOnItsWay'
      BY <1>3, <1>5, <2>1 DEF OneOnItsWay, Settled, Serving
    <2>4. AlonePastCheck'
      BY <1>1, <1>3, <1>5, <2>1, <2>2 DEF AlonePastCheck, Settled, Serving, BeforeCheck
    <2>5. FileIsOwn'
      BY <1>3, <1>5, <2>2 DEF FileIsOwn, HasWritten, Launch
    <2> QED
      BY <2>3, <2>4, <2>5
  <1> QED
    BY <1>7, <1>8, <1>9 DEF ProcessInv

\* CheckPIDFile lets an instance pass, without an overlap, only when it is alone: the
\* file names the one that serves, and nobody else has its pid.
LEMMA ProcessPidCheck == ASSUME ProcessInv, NEW i \in Inst, PidCheck(i), UNCHANGED namesakes PROVE ProcessInv'
  <1>1. inst \in [Inst -> InstanceType] /\ inst[i] \in InstanceType /\ inst[i].pc = "check"
    BY DEF ProcessInv, ProcessTypeOK, PidCheck
  <1>2. CASE pidFile = 0 \/ pidFile = inst[i].pid \/ ~OurProcess(pidFile)
    <2>1. PICK p \in {"write", "unlink"} : To(i, p)
      BY <1>2 DEF PidCheck
    <2> DEFINE x == [inst[i] EXCEPT !.pc = p]
    <2>2. x \in InstanceType /\ x.pc = p /\ x.pid = inst[i].pid
      BY <1>1, <2>1 DEF InstanceType
    <2>3. inst' = [inst EXCEPT ![i] = x]
      BY <2>1 DEF To
    <2>4. UNCHANGED <<pidFile, port, launches, refused, overlap>>
      BY <1>2 DEF PidCheck
    <2> HIDE DEF x
    <2>5. \A j \in Inst : inst'[j] = IF j = i THEN x ELSE inst[j]
      BY <1>1, <2>3
    <2>6. ProcessTypeOK' /\ NoFalseRefusal'
      BY <2>2, <2>3, <2>4 DEF ProcessInv, ProcessTypeOK, NoFalseRefusal
    <2>7. PidsDistinct'
      BY <1>1, <2>2, <2>5 DEF ProcessInv, PidsDistinct, Alive
    <2>8. ASSUME ~overlap, NEW j \in Inst, j # i PROVE inst[j].pc = "down"
      <3>1. Settled(j)
        BY <1>1, <2>8 DEF ProcessInv, OneOnItsWay, Settled, Serving
      <3>2. ASSUME Serving(j) PROVE FALSE
        <4>1. pidFile = inst[j].pid /\ Alive(j) /\ Alive(i)
          BY <1>1, <2>8, <3>2 DEF ProcessInv, FileIsOwn, HasWritten, Alive, Serving
        <4>2. pidFile \in Pids /\ pidFile # inst[i].pid
          BY <2>8, <4>1 DEF ProcessInv, PidsDistinct
        <4> QED
          BY <1>2, <4>1, <4>2, ProcessAssumption DEF OurProcess
      <3> QED
        BY <3>1, <3>2 DEF Settled
    <2>9. ~overlap => (OneOnItsWay /\ AlonePastCheck /\ FileIsOwn)'
      BY <2>1, <2>2, <2>5, <2>8
      DEF OneOnItsWay, AlonePastCheck, FileIsOwn, Settled, Serving, BeforeCheck, HasWritten
    <2> QED
      BY <2>4, <2>6, <2>7, <2>9 DEF ProcessInv
  <1>3. CASE ~(pidFile = 0 \/ pidFile = inst[i].pid \/ ~OurProcess(pidFile))
    <2>1. Exits(i) /\ UNCHANGED <<pidFile, launches, overlap>>
      BY <1>3 DEF PidCheck
    <2>2. pidFile \in namesakes \/ \E j \in Inst \ {i} : Alive(j) /\ inst[j].pid = pidFile
      BY <1>3 DEF OurProcess
    <2>3. refused' \in {"instance", "namesake"}
      BY <1>3, <2>2 DEF PidCheck, Refuser
    <2>4. Gone \in InstanceType /\ Gone.pc = "down"
      BY DEF Gone, InstanceType
    <2>5. inst' = [inst EXCEPT ![i] = Gone]
      BY <2>1 DEF Exits
    <2>6. \A j \in Inst : inst'[j] = IF j = i THEN Gone ELSE inst[j]
      BY <1>1, <2>5
    <2>7. ProcessTypeOK' /\ NoFalseRefusal'
      BY <2>1, <2>3, <2>4, <2>5 DEF ProcessInv, ProcessTypeOK, NoFalseRefusal, Exits
    <2>8. PidsDistinct'
      BY <2>4, <2>6 DEF ProcessInv, PidsDistinct, Alive
    <2>9. ~overlap => (OneOnItsWay /\ AlonePastCheck /\ FileIsOwn)'
      BY <2>1, <2>4, <2>6
      DEF ProcessInv, OneOnItsWay, AlonePastCheck, FileIsOwn, Settled, Serving, BeforeCheck, HasWritten
    <2> QED
      BY <2>1, <2>7, <2>8, <2>9 DEF ProcessInv
  <1> QED
    BY <1>2, <1>3

\* The steps that write or remove the file: without an overlap, only an instance that is
\* alone removes it.
LEMMA ProcessFile ==
  ASSUME ProcessInv, NEW i \in Inst, PidUnlink(i) \/ PidWrite(i) \/ Signal(i) \/ Cleanup(i),
         UNCHANGED namesakes
  PROVE  ProcessInv'
  <1>1. inst \in [Inst -> InstanceType] /\ inst[i] \in InstanceType /\ Alive(i)
    BY DEF ProcessInv, ProcessTypeOK, PidUnlink, PidWrite, Signal, Cleanup, Alive
  <1>2. PICK x \in InstanceType :
          /\ inst' = [inst EXCEPT ![i] = x]
          /\ x.pc = "down" \/ x.pid = inst[i].pid
          /\ x.pc \in HasWritten /\ ~x.stop => inst[i].pc = "write" /\ pidFile' = x.pid
    <2> DEFINE x == IF inst[i].pc = "cleanup" THEN Gone
                    ELSE IF inst[i].pc = "unlink" THEN [inst[i] EXCEPT !.pc = "write"]
                    ELSE IF inst[i].pc = "write" THEN [inst[i] EXCEPT !.pc = "services"]
                    ELSE [inst[i] EXCEPT !.stop = TRUE]
    <2>1. x \in InstanceType /\ (x.pc = "down" \/ x.pid = inst[i].pid)
      BY <1>1 DEF InstanceType, Gone
    <2>2. inst' = [inst EXCEPT ![i] = x]
      BY <1>1 DEF To, Exits, PidUnlink, PidWrite, Signal, Cleanup
    <2>3. x.pc \in HasWritten /\ ~x.stop => inst[i].pc = "write"
      BY <1>1 DEF InstanceType, Gone, HasWritten, PidUnlink, PidWrite, Signal, Cleanup
    <2>4. inst[i].pc = "write" => pidFile' = x.pid
      BY <1>1 DEF InstanceType, PidUnlink, PidWrite, Signal, Cleanup
    <2> HIDE DEF x
    <2> QED
      BY <2>1, <2>2, <2>3, <2>4
  <1>4. /\ pidFile' \in {0, inst[i].pid}
        /\ UNCHANGED <<launches, refused>> /\ port' \in Inst \cup {"free"}
        /\ overlap' \in BOOLEAN
        /\ ~overlap' => /\ ~overlap
                        /\ \/ inst[i].pc \in {"unlink", "write", "cleanup"}
                           \/ \A j \in Inst \ {i} : inst[j].pc = "down"
    BY <1>1 DEF ProcessInv, ProcessTypeOK, PidUnlink, PidWrite, Signal, Cleanup, Exits, Alive
  <1>6. \A j \in Inst : inst'[j] = IF j = i THEN x ELSE inst[j]
    BY <1>1, <1>2
  <1>7. inst[i].pid \in Pids
    BY <1>1 DEF ProcessInv, PidsDistinct
  <1>8. ProcessTypeOK' /\ NoFalseRefusal'
    BY <1>2, <1>4, <1>7 DEF ProcessInv, ProcessTypeOK, NoFalseRefusal
  <1>9. PidsDistinct'
    BY <1>1, <1>2, <1>6 DEF ProcessInv, PidsDistinct, Alive
  <1>10. ASSUME ~overlap' PROVE (OneOnItsWay /\ AlonePastCheck /\ FileIsOwn)'
    <2>1. \A j \in Inst \ {i} : inst'[j].pc = "down"
      BY <1>1, <1>4, <1>6, <1>10 DEF ProcessInv, AlonePastCheck, BeforeCheck, Serving
    <2>2. FileIsOwn'
      BY <1>2, <1>6, <2>1 DEF FileIsOwn, HasWritten
    <2>3. OneOnItsWay' /\ AlonePastCheck'
      BY <1>6, <2>1 DEF OneOnItsWay, AlonePastCheck, Settled, Serving, BeforeCheck
    <2> QED
      BY <2>2, <2>3
  <1> QED
    BY <1>8, <1>9, <1>10 DEF ProcessInv

\* Clients and commands come and go beside the instances.
LEMMA ProcessNamesakes == ASSUME ProcessInv, NamesakeStarts \/ NamesakeEnds PROVE ProcessInv'
  <1>1. /\ UNCHANGED <<inst, pidFile, port, refused, overlap>>
        /\ namesakes' \in SUBSET Pids /\ launches' \in 0 .. MaxLaunches
        /\ \A i \in Inst : Alive(i) /\ inst[i].pid \in Pids \ namesakes => inst[i].pid \notin namesakes'
    <2>1. MaxLaunches \in Nat /\ launches \in 0 .. MaxLaunches /\ namesakes \in SUBSET Pids
      BY ProcessAssumption DEF ProcessInv, ProcessTypeOK
    <2>2. CASE NamesakeStarts
      <3>1. launches' \in 0 .. MaxLaunches
        BY <2>1, <2>2 DEF NamesakeStarts
      <3>2. PICK p \in Pids : ~OurProcess(p) /\ namesakes' = namesakes \cup {p}
        BY <2>2 DEF NamesakeStarts
      <3> QED
        BY <2>1, <2>2, <3>1, <3>2 DEF NamesakeStarts, OurProcess
    <2>3. CASE NamesakeEnds
      BY <2>1, <2>3 DEF NamesakeEnds
    <2> QED
      BY <2>2, <2>3
  <1>2. ProcessTypeOK' /\ NoFalseRefusal'
    BY <1>1 DEF ProcessInv, ProcessTypeOK, NoFalseRefusal
  <1>3. PidsDistinct'
    BY <1>1 DEF ProcessInv, PidsDistinct, Alive
  <1> QED
    BY <1>1, <1>2, <1>3
    DEF ProcessInv, OneOnItsWay, AlonePastCheck, FileIsOwn, Settled, Serving

LEMMA ProcessStep == ASSUME ProcessInv, [ProcessNext]_processVars PROVE ProcessInv'
  <1>1. CASE UNCHANGED processVars
    BY <1>1
    DEF processVars, ProcessInv, ProcessTypeOK, NoFalseRefusal, PidsDistinct, OneOnItsWay,
        AlonePastCheck, FileIsOwn, Alive, Settled, Serving
  <1>2. ASSUME NEW i \in Inst, InstStep(i), UNCHANGED namesakes PROVE ProcessInv'
    <2>1. port \in Inst \cup {"free"} /\ inst[i] \in InstanceType
      BY DEF ProcessInv, ProcessTypeOK
    <2>3. CASE PidCheck(i)
      BY <1>2, <2>3, ProcessPidCheck
    <2>4. CASE PidUnlink(i) \/ PidWrite(i) \/ Signal(i) \/ Cleanup(i)
      BY <1>2, <2>4, ProcessFile
    <2>5. CASE BootDatabase(i) \/ BootTasks(i) \/ StartServices(i) \/ Listen(i)
      BY <1>2, <2>1, <2>5, ProcessGoes, ProcessEnds DEF BootDatabase, BootTasks, StartServices, Listen, Alive
    <2>6. CASE Shutdown(i) \/ Drain(i) \/ CloseServices(i) \/ Kill(i)
      BY <1>2, <2>1, <2>6, ProcessGoes, ProcessEnds DEF Shutdown, Drain, CloseServices, Kill, Alive
    <2>7. CASE DropPrivileges(i)
      <3>1. CASE Exits(i)
        BY <1>2, <2>7, <3>1, ProcessEnds DEF DropPrivileges, Alive
      <3>2. CASE ~Exits(i)
        <4>1. PICK root \in BOOLEAN : inst' = [inst EXCEPT ![i].pc = "serve", ![i].root = root]
          BY <2>1, <2>7, <3>2 DEF DropPrivileges, InstanceType
        <4> DEFINE x == [inst[i] EXCEPT !.pc = "serve", !.root = root]
        <4>2. x \in InstanceType /\ x.pc = "serve" /\ x.pid = inst[i].pid /\ x.stop = inst[i].stop
          BY <2>1, <4>1 DEF InstanceType
        <4>3. inst' = [inst EXCEPT ![i] = x]
          BY <2>1, <4>1 DEF InstanceType, ProcessInv, ProcessTypeOK
        <4> HIDE DEF x
        <4> QED
          BY <1>2, <2>1, <2>7, <3>2, <4>2, <4>3, ProcessMoves
          DEF DropPrivileges, Alive, BeforeCheck, HasWritten, Serving
      <3> QED
        BY <3>1, <3>2
    <2>8. CASE RequestBegins(i) \/ RequestEnds(i)
      <3>1. PICK b \in BOOLEAN : inst' = [inst EXCEPT ![i].busy = b]
        BY <2>8 DEF RequestBegins, RequestEnds
      <3> DEFINE x == [inst[i] EXCEPT !.busy = b]
      <3>2. x \in InstanceType /\ x.pc = inst[i].pc /\ x.pid = inst[i].pid /\ x.stop = inst[i].stop
        BY <2>1, <3>1 DEF InstanceType
      <3>3. inst' = [inst EXCEPT ![i] = x]
        BY <3>1
      <3>4. Alive(i) /\ UNCHANGED <<pidFile, port, launches, refused, overlap>>
        BY <2>8 DEF RequestBegins, RequestEnds, Alive
      <3> HIDE DEF x
      <3> QED
        BY <1>2, <2>1, <3>2, <3>3, <3>4, ProcessMoves
    <2> QED
      BY <1>2, <2>3, <2>4, <2>5, <2>6, <2>7, <2>8 DEF InstStep, StartStep, StopStep
  <1> QED
    BY <1>1, <1>2, ProcessLaunch, ProcessNamesakes DEF ProcessNext

\* NoFalseRefusal and PidFileNamesServer: a start is refused only because another living
\* process with such a name has the pid in the file, and without overlapping starts and
\* stops the PID file names the one that serves (CheckPIDFile, WritePIDFile), for any number
\* of instances, namesakes and pids.
THEOREM PidFileIsSound == ProcessSpec => [](ProcessTypeOK /\ NoFalseRefusal /\ PidFileNamesServer)
  <1>1. ProcessInit => ProcessInv
    BY ProcessStart
  <1>2. ProcessInv /\ [ProcessNext]_processVars => ProcessInv'
    BY ProcessStep
  <1>3. ProcessInv => ProcessTypeOK /\ NoFalseRefusal /\ PidFileNamesServer
    BY DEF ProcessInv, PidFileNamesServer, AlonePastCheck, FileIsOwn, BeforeCheck, HasWritten, Serving
  <1> QED
    BY <1>1, <1>2, <1>3, PTL DEF ProcessSpec

-----------------------------------------------------------------------------
(***************************************************************************)
(* HiddenService.  Who may be up depends on who holds the lock and how far *)
(* the holder is; children are numbered in the order of their starts, so    *)
(* the one being awaited is the newest.                                     *)
(***************************************************************************)
\* Children 1 .. m have been started, and the published one is among them.
Numbered(m) == /\ \A c \in Children : child[c] # "none" <=> c <= m
               /\ svc.child <= m

\* Only the published child is up; while a start is awaited, only the newest.  A start
\* over a published child is one of Tor, which fails.
UpOK(m) ==
    \A c \in Children : child[c] = "up" =>
        /\ lock = "free" => c = svc.child
        /\ \A a \in Actors : step[a] = "await" => c = m
        /\ \A a \in Actors : step[a] = "start" => a = "starter" /\ kind = "tor" /\ c = svc.child

ChildrenOK == \E m \in Children \cup {0} : Numbered(m) /\ UpOK(m)

\* Where the actors can be, and that exactly the holder of the lock is starting.
StepsOK ==
    /\ step["starter"] \in {"lock", "start", "await", "check", "done"}
    /\ step["monitor"] \in {"off", "idle", "probe", "lock", "start", "await"}
    /\ step["health"] \in {"idle", "lock", "start", "await"}
    /\ step["closer"] \in {"idle", "lock", "done"}
    /\ step["monitor"] # "off" => step["starter"] = "done"
    /\ step["monitor"] \in {"probe", "lock"} => seen # NoSvc
    /\ kind # "tor" => step["health"] = "idle"
    /\ \A a \in Actors : step[a] \in {"start", "await"} <=> lock = a

\* The I2P managers have one start, and nothing before it.
FirstStart == kind # "tor" /\ step["starter"] \in {"lock", "start", "await"} => svc = NoSvc

\* What Close leaves: no service, and nobody who could start one.
ClosedOK ==
    step["closer"] = "done" =>
        /\ ctxDone
        /\ ~(overtaken /\ kind # "tor") =>
              /\ svc = NoSvc /\ \A c \in Children : child[c] # "up"
              /\ \A a \in Actors : step[a] # "await"
              /\ kind # "tor" => lock = "free" /\ step["starter"] \in {"check", "done"}

\* Until a command replaces it there is one identity.
OneIdentity ==
    newKeys = 0 => /\ key \in {0, 1} /\ persisted \in {0, 1}
                   /\ svc # NoSvc => svc.address = 1

HiddenInv ==
    HiddenTypeOK /\ StepsOK /\ FirstStart /\ ClosedOK /\ OneIdentity /\ ChildrenOK

LEMMA NewestIs ==
  ASSUME HiddenTypeOK, NEW m \in Children \cup {0}, Numbered(m)
  PROVE  Newest = m
  <1> DEFINE P(c) == (c # 0 => child[c] # "none") /\ \A d \in Children : child[d] # "none" => d <= c
  <1>1. \A c \in Children \cup {0} : c \in Nat
    BY HiddenAssumption DEF Children
  <1>2. P(m)
    BY <1>1 DEF Numbered
  <1>3. \A c \in Children \cup {0} : P(c) => c = m
    <2> SUFFICES ASSUME NEW c \in Children \cup {0}, P(c) PROVE c = m
      OBVIOUS
    <2>1. c <= m
      BY <1>1 DEF Numbered
    <2>2. m <= c
      BY <1>1, <1>2
    <2> QED
      BY <1>1, <2>1, <2>2
  <1> QED
    BY <1>2, <1>3 DEF Newest

LEMMA HiddenStart == ASSUME HiddenInit PROVE HiddenInv
  <1>1. /\ MaxDeaths \in Nat /\ MaxStartFailures \in Nat /\ MaxNewKeys \in Nat
        /\ 0 \in 0 .. MaxDeaths /\ 0 \in 0 .. MaxStartFailures /\ 0 \in 0 .. MaxNewKeys
        /\ 0 \in Identities /\ Children \subseteq Nat \ {0}
    BY HiddenAssumption DEF Identities, Children
  <1>2. /\ step["starter"] = "lock" /\ step["monitor"] = "off" /\ step["health"] = "idle"
        /\ step["closer"] = "idle"
        /\ step \in [Actors -> {"idle", "off", "lock", "start", "await", "check", "probe", "done"}]
    BY DEF HiddenInit, Actors
  <1>3. NoSvc \in [child : Children \cup {0}, address : Identities] /\ NoSvc.child = 0
    BY <1>1 DEF NoSvc
  <1>4. HiddenTypeOK
    BY <1>1, <1>2, <1>3 DEF HiddenInit, HiddenTypeOK
  <1>5. StepsOK
    BY <1>2 DEF StepsOK, HiddenInit, Actors
  <1>6. Numbered(0) /\ UpOK(0)
    BY <1>1, <1>3 DEF Numbered, UpOK, HiddenInit
  <1> QED
    BY <1>2, <1>4, <1>5, <1>6 DEF HiddenInv, FirstStart, ClosedOK, OneIdentity, ChildrenOK, HiddenInit

\* What the steps use of the types.
LEMMA HiddenTypes ==
  ASSUME HiddenInv
  PROVE  /\ step \in [Actors -> {"idle", "off", "lock", "start", "await", "check", "probe", "done"}]
         /\ Actors = {"starter", "monitor", "health", "closer"}
         /\ child \in [Children -> {"none", "up", "dead"}]
         /\ svc \in [child : Children \cup {0}, address : Identities]
         /\ seen \in [child : Children \cup {0}, address : Identities]
         /\ Children \subseteq Nat /\ 0 \notin Children /\ lock \in Actors \cup {"free"} /\ "free" \notin Actors
         /\ MaxDeaths \in Nat /\ MaxStartFailures \in Nat /\ MaxNewKeys \in Nat
         /\ NoSvc \in [child : Children \cup {0}, address : Identities] /\ NoSvc.child = 0
  BY HiddenAssumption DEF HiddenInv, HiddenTypeOK, Actors, Children, Identities, NoSvc

\* Steps that touch neither child nor service nor lock, and take no one to a start.
LEMMA HiddenQuiet ==
  ASSUME HiddenInv,
         \/ AfterStart \/ MonitorLook \/ MonitorProbe \/ HealthCheck \/ CloseBegins \/ ReplaceIdentity
         \/ TakeLock("monitor") /\ svc # seen
  PROVE  HiddenInv'
  <1>0. UNCHANGED <<kind, lock, svc, child, startFailures, ctxDone, deaths, overtaken>> /\ seen' \in {seen, svc}
    BY DEF AfterStart, MonitorLook, MonitorProbe, HealthCheck, CloseBegins, ReplaceIdentity, TakeLock, countVars
  <1>1. HiddenTypeOK'
    <2>1. step' \in [Actors -> {"idle", "off", "lock", "start", "await", "check", "probe", "done"}]
      BY HiddenTypes
      DEF AfterStart, MonitorLook, MonitorProbe, HealthCheck, CloseBegins, ReplaceIdentity, TakeLock, Goes
    <2>2. key' \in Identities /\ persisted' \in Identities /\ newKeys' \in 0 .. MaxNewKeys
      BY HiddenTypes
      DEF AfterStart, MonitorLook, MonitorProbe, HealthCheck, CloseBegins, ReplaceIdentity, TakeLock,
          HiddenInv, HiddenTypeOK, Identities, countVars
    <2> QED
      BY <1>0, <2>1, <2>2, HiddenTypes DEF HiddenInv, HiddenTypeOK
  <1>2. StepsOK'
    BY <1>0, HiddenTypes
    DEF AfterStart, MonitorLook, MonitorProbe, HealthCheck, CloseBegins, ReplaceIdentity, TakeLock, Goes,
        HiddenInv, StepsOK, ServiceUp
  <1>3. /\ \A a \in Actors : /\ step'[a] = "start" => step[a] = "start"
                             /\ step'[a] = "await" => step[a] = "await"
        /\ step'["closer"] = "done" => step["closer"] = "done"
        /\ step'["starter"] = step["starter"] \/ (step["starter"] = "check" /\ step'["starter"] = "done")
    BY <1>0, HiddenTypes
    DEF AfterStart, MonitorLook, MonitorProbe, HealthCheck, CloseBegins, ReplaceIdentity, TakeLock, Goes
  <1>4. FirstStart' /\ ClosedOK'
    BY <1>0, <1>3 DEF HiddenInv, FirstStart, ClosedOK
  <1>5. OneIdentity'
    BY <1>0
    DEF AfterStart, MonitorLook, MonitorProbe, HealthCheck, CloseBegins, ReplaceIdentity, TakeLock,
        HiddenInv, HiddenTypeOK, OneIdentity, ServiceUp, countVars
  <1>6. ChildrenOK'
    BY <1>0, <1>3 DEF HiddenInv, ChildrenOK, Numbered, UpOK
  <1> QED
    BY <1>1, <1>2, <1>4, <1>5, <1>6 DEF HiddenInv

\* What closeSvcLocked does while nobody starts: no child is left.
LEMMA HiddenStops ==
  ASSUME HiddenInv, lock = "free"
  PROVE  /\ StopChild(child) \in [Children -> {"none", "up", "dead"}]
         /\ \A c \in Children : StopChild(child)[c] # "up"
         /\ \E m \in Children \cup {0} : \A c \in Children : StopChild(child)[c] # "none" <=> c <= m
  <1>1. PICK m \in Children \cup {0} : Numbered(m) /\ UpOK(m)
    BY DEF HiddenInv, ChildrenOK
  <1>2. \A c \in Children : StopChild(child)[c] = IF c = svc.child THEN "dead" ELSE child[c]
    BY DEF StopChild
  <1> QED
    BY <1>1, <1>2, HiddenTypes DEF Numbered, UpOK, StopChild

\* TakeLock, taken: a restart closes what is there first.
LEMMA HiddenTakes ==
  ASSUME HiddenInv, NEW a \in Actors, TakeLock(a), ~(a = "monitor" /\ svc # seen)
  PROVE  HiddenInv'
  <1>0. /\ UNCHANGED <<kind, seen, ctxDone, key, persisted, deaths, startFailures, newKeys, overtaken>>
        /\ lock = "free" /\ lock' = a /\ step[a] = "lock" /\ a # "closer"
        /\ a = "starter" => UNCHANGED <<svc, child>>
        /\ a # "starter" => child' = StopChild(child) /\ svc' = NoSvc
    BY DEF TakeLock, countVars
  <1>1. /\ step' \in [Actors -> {"idle", "off", "lock", "start", "await", "check", "probe", "done"}]
        /\ \A b \in Actors : step'[b] = IF b = a THEN "start" ELSE step[b]
    BY HiddenTypes DEF TakeLock, Goes
  <1>2. HiddenTypeOK'
    BY <1>0, <1>1, HiddenTypes, HiddenStops DEF HiddenInv, HiddenTypeOK
  <1>3. StepsOK'
    BY <1>0, <1>1, HiddenTypes DEF HiddenInv, StepsOK
  <1>4. FirstStart'
    BY <1>0, <1>1, HiddenTypes DEF HiddenInv, FirstStart
  <1>5. ClosedOK'
    BY <1>0, <1>1, HiddenTypes, HiddenStops DEF HiddenInv, ClosedOK, StepsOK
  <1>6. OneIdentity'
    BY <1>0 DEF HiddenInv, OneIdentity
  <1>7. ChildrenOK'
    <2>1. CASE a = "starter"
      <3>1. PICK m \in Children \cup {0} : Numbered(m) /\ UpOK(m)
        BY DEF HiddenInv, ChildrenOK
      <3>2. kind # "tor" => svc = NoSvc
        BY <1>0, <2>1 DEF HiddenInv, FirstStart
      <3>3. \A c \in Children : child[c] = "up" => kind = "tor" /\ c = svc.child
        BY <1>0, <3>1, <3>2, HiddenTypes DEF UpOK
      <3>4. \A b \in Actors : step'[b] # "await" /\ (step'[b] = "start" => b = a)
        BY <1>0, <1>1, HiddenTypes DEF HiddenInv, StepsOK
      <3>5. Numbered(m)' /\ UpOK(m)'
        BY <1>0, <2>1, <3>1, <3>3, <3>4, HiddenTypes DEF Numbered, UpOK
      <3> QED
        BY <3>5 DEF ChildrenOK
    <2>2. CASE a # "starter"
      <3>1. PICK m \in Children \cup {0} : \A c \in Children : child'[c] # "none" <=> c <= m
        BY <1>0, <2>2, HiddenStops
      <3>2. Numbered(m)' /\ UpOK(m)'
        BY <1>0, <2>2, <3>1, HiddenStops, HiddenTypes DEF Numbered, UpOK
      <3> QED
        BY <3>2 DEF ChildrenOK
    <2> QED
      BY <2>1, <2>2
  <1> QED
    BY <1>2, <1>3, <1>4, <1>5, <1>6, <1>7 DEF HiddenInv

LEMMA HiddenCloses == ASSUME HiddenInv, Close PROVE HiddenInv'
  <1>0. /\ UNCHANGED <<kind, seen, lock, key, persisted, deaths, startFailures, newKeys>>
        /\ lock = "free" /\ ctxDone' = TRUE /\ step["closer"] = "lock"
        /\ child' = StopChild(child) /\ svc' = NoSvc /\ overtaken' = (step["starter"] = "lock")
    BY DEF Close, countVars
  <1>1. /\ step' \in [Actors -> {"idle", "off", "lock", "start", "await", "check", "probe", "done"}]
        /\ \A b \in Actors : step'[b] = IF b = "closer" THEN "done" ELSE step[b]
    BY HiddenTypes DEF Close, Goes
  <1>2. HiddenTypeOK'
    BY <1>0, <1>1, HiddenTypes, HiddenStops DEF HiddenInv, HiddenTypeOK
  <1>3. StepsOK'
    BY <1>0, <1>1, HiddenTypes DEF HiddenInv, StepsOK
  <1>4. FirstStart' /\ OneIdentity'
    BY <1>0 DEF HiddenInv, FirstStart, OneIdentity
  <1>5. ClosedOK'
    <2>1. \A a \in Actors : step[a] # "start" /\ step[a] # "await"
      BY <1>0, HiddenTypes DEF HiddenInv, StepsOK
    <2>2. step["starter"] # "lock" => step'["starter"] \in {"check", "done"}
      BY <1>1, <2>1, HiddenTypes DEF HiddenInv, StepsOK
    <2>3. ~overtaken' => step'["starter"] \in {"check", "done"}
      BY <1>0, <2>2
    <2>4. \A a \in Actors : step'[a] # "await"
      BY <1>1, <2>1
    <2> QED
      BY <1>0, <2>3, <2>4, HiddenStops DEF ClosedOK
  <1>6. ChildrenOK'
    <2>1. PICK m \in Children \cup {0} : \A c \in Children : child'[c] # "none" <=> c <= m
      BY <1>0, HiddenStops
    <2>2. Numbered(m)' /\ UpOK(m)'
      BY <1>0, <2>1, HiddenStops, HiddenTypes DEF Numbered, UpOK
    <2> QED
      BY <2>2 DEF ChildrenOK
  <1> QED
    BY <1>2, <1>3, <1>4, <1>5, <1>6 DEF HiddenInv

\* A start that fails, before or after the child is there, gives the lock back.
LEMMA HiddenReleases ==
  ASSUME HiddenInv, NEW a \in Actors, lock = a, step[a] \in {"start", "await"}, lock' = "free",
         NEW ok \in BOOLEAN, Goes(a, AfterLock(a, ok)),
         UNCHANGED <<kind, seen, ctxDone, persisted, overtaken>>,
         UNCHANGED <<deaths, newKeys>>
  PROVE  /\ step' \in [Actors -> {"idle", "off", "lock", "start", "await", "check", "probe", "done"}]
         /\ \A b \in Actors : step'[b] # "start" /\ step'[b] # "await"
         /\ \A b \in Actors \ {a} : step'[b] = step[b]
         /\ a # "closer"
         /\ StepsOK' /\ (kind # "tor" => step'["starter"] \in {"check", "done"})
  <1>1. \A b \in Actors : step'[b] = IF b = a THEN AfterLock(a, ok) ELSE step[b]
    BY HiddenTypes DEF Goes
  <1>2. AfterLock(a, ok) \in {"idle", "check", "done"} /\ (a = "starter" <=> AfterLock(a, ok) # "idle")
    BY DEF AfterLock
  <1>3. step' \in [Actors -> {"idle", "off", "lock", "start", "await", "check", "probe", "done"}]
    BY <1>2, HiddenTypes DEF Goes
  <1>4. \A b \in Actors : step'[b] # "start" /\ step'[b] # "await"
    BY <1>1, <1>2, HiddenTypes DEF HiddenInv, StepsOK
  <1>5. a # "closer"
    BY DEF HiddenInv, StepsOK
  <1>6. kind # "tor" => step'["starter"] \in {"check", "done"}
    BY <1>1, <1>2, <1>5, HiddenTypes DEF HiddenInv, StepsOK
  <1>7. StepsOK'
    BY <1>1, <1>2, <1>4, <1>5, HiddenTypes DEF HiddenInv, StepsOK
  <1> QED
    BY <1>1, <1>2, <1>3, <1>4, <1>5, <1>6, <1>7

LEMMA HiddenNotStarted ==
  ASSUME HiddenInv, NEW a \in Actors, NotStarted(a), startFailures' \in 0 .. MaxStartFailures
  PROVE  HiddenInv'
  <1>0. /\ UNCHANGED <<kind, svc, child, seen, ctxDone, key, persisted, deaths, newKeys, overtaken>>
        /\ lock = a /\ step[a] = "start" /\ lock' = "free" /\ Goes(a, AfterLock(a, FALSE))
    BY DEF NotStarted
  <1>1. /\ step' \in [Actors -> {"idle", "off", "lock", "start", "await", "check", "probe", "done"}]
        /\ \A b \in Actors : step'[b] # "start" /\ step'[b] # "await"
        /\ \A b \in Actors \ {a} : step'[b] = step[b]
        /\ a # "closer"
        /\ StepsOK' /\ (kind # "tor" => step'["starter"] \in {"check", "done"})
    BY <1>0, HiddenReleases
  <1>2. HiddenTypeOK'
    BY <1>0, <1>1 DEF HiddenInv, HiddenTypeOK
  <1>3. FirstStart' /\ OneIdentity'
    BY <1>0, <1>1, HiddenTypes DEF HiddenInv, FirstStart, OneIdentity
  <1>4. ClosedOK'
    BY <1>0, <1>1, HiddenTypes DEF HiddenInv, ClosedOK
  <1>5. ChildrenOK'
    <2>1. PICK m \in Children \cup {0} : Numbered(m) /\ UpOK(m)
      BY DEF HiddenInv, ChildrenOK
    <2>2. Numbered(m)' /\ UpOK(m)'
      BY <1>0, <1>1, <2>1, HiddenTypes DEF Numbered, UpOK
    <2> QED
      BY <2>2 DEF ChildrenOK
  <1> QED
    BY <1>1, <1>2, <1>3, <1>4, <1>5 DEF HiddenInv

\* A child is started only where none is up.
LEMMA HiddenStarted ==
  ASSUME HiddenInv, NEW a \in Actors, Started(a),
         kind = "tor" => ~ctxDone /\ \A c \in Children : child[c] # "up"
  PROVE  HiddenInv'
  <1>0. /\ UNCHANGED <<kind, lock, svc, seen, ctxDone, key, persisted, deaths, startFailures, newKeys, overtaken>>
        /\ lock = a /\ step[a] = "start" /\ Goes(a, "await") /\ child' = [child EXCEPT ![Newest + 1] = "up"]
    BY DEF Started, countVars
  <1>1. PICK m \in Children \cup {0} : Numbered(m) /\ UpOK(m)
    BY DEF HiddenInv, ChildrenOK
  <1>2. Newest = m
    BY <1>1, NewestIs DEF HiddenInv
  <1>3. \A c \in Children : child[c] # "up"
    BY <1>0, <1>1 DEF UpOK
  <1>4. /\ step' \in [Actors -> {"idle", "off", "lock", "start", "await", "check", "probe", "done"}]
        /\ \A b \in Actors : step'[b] = IF b = a THEN "await" ELSE step[b]
    BY <1>0, HiddenTypes DEF Goes
  <1>5. child' \in [Children -> {"none", "up", "dead"}]
    BY <1>0, HiddenTypes
  <1>6. HiddenTypeOK'
    BY <1>0, <1>4, <1>5 DEF HiddenInv, HiddenTypeOK
  <1>7. StepsOK'
    BY <1>0, <1>4, HiddenTypes DEF HiddenInv, StepsOK
  <1>8. FirstStart' /\ OneIdentity'
    BY <1>0, <1>4, HiddenTypes DEF HiddenInv, FirstStart, OneIdentity
  <1>9. ClosedOK'
    <2>1. ASSUME step["closer"] = "done" PROVE overtaken /\ kind # "tor"
      BY <1>0, <2>1, HiddenTypes DEF HiddenInv, ClosedOK
    <2> QED
      BY <1>0, <1>4, <2>1, HiddenTypes DEF HiddenInv, ClosedOK, StepsOK
  <1>10. ChildrenOK'
    <2>1. CASE m + 1 \in Children
      <3>1. \A c \in Children : child'[c] = IF c = m + 1 THEN "up" ELSE child[c]
        BY <1>0, <1>2, <2>1, HiddenTypes
      <3>2. Numbered(m + 1)'
        BY <1>0, <1>1, <2>1, <3>1, HiddenTypes DEF Numbered
      <3>3. UpOK(m + 1)'
        BY <1>0, <1>3, <1>4, <3>1, HiddenTypes DEF UpOK, HiddenInv, StepsOK
      <3> QED
        BY <2>1, <3>2, <3>3 DEF ChildrenOK
    <2>2. CASE m + 1 \notin Children
      <3>1. \A c \in Children : child'[c] = child[c]
        BY <1>0, <1>2, <2>2, HiddenTypes
      <3>2. Numbered(m)' /\ UpOK(m)'
        BY <1>0, <1>1, <1>3, <3>1 DEF Numbered, UpOK
      <3> QED
        BY <3>2 DEF ChildrenOK
    <2> QED
      BY <2>1, <2>2
  <1> QED
    BY <1>6, <1>7, <1>8, <1>9, <1>10 DEF HiddenInv

LEMMA HiddenPublishes == ASSUME HiddenInv, NEW a \in Actors, Publish(a) PROVE HiddenInv'
  <1>0. /\ UNCHANGED <<kind, child, seen, ctxDone, persisted, deaths, startFailures, newKeys, overtaken>>
        /\ lock = a /\ step[a] = "await" /\ lock' = "free" /\ Goes(a, AfterLock(a, TRUE))
        /\ Up(Newest) /\ key' = Identity /\ svc' = [child |-> Newest, address |-> Identity]
    BY DEF Publish, countVars
  <1>1. PICK m \in Children \cup {0} : Numbered(m) /\ UpOK(m)
    BY DEF HiddenInv, ChildrenOK
  <1>2. Newest = m /\ m \in Children /\ child[m] = "up"
    BY <1>0, <1>1, NewestIs DEF HiddenInv, Up
  <1>3. /\ step' \in [Actors -> {"idle", "off", "lock", "start", "await", "check", "probe", "done"}]
        /\ \A b \in Actors : step'[b] # "start" /\ step'[b] # "await"
        /\ \A b \in Actors \ {a} : step'[b] = step[b]
        /\ a # "closer"
        /\ StepsOK' /\ (kind # "tor" => step'["starter"] \in {"check", "done"})
    BY <1>0, HiddenReleases
  <1>4. Identity \in Identities /\ (newKeys = 0 => Identity = 1)
    BY HiddenTypes DEF Identity, Identities, HiddenInv, HiddenTypeOK, OneIdentity
  <1>5. svc' \in [child : Children \cup {0}, address : Identities] /\ svc'.child = m /\ svc'.address = Identity
    BY <1>0, <1>2, <1>4
  <1>6. HiddenTypeOK'
    BY <1>0, <1>3, <1>4, <1>5, HiddenTypes DEF HiddenInv, HiddenTypeOK
  <1>7. FirstStart'
    BY <1>0, <1>3, HiddenTypes DEF HiddenInv, FirstStart, StepsOK
  <1>8. OneIdentity'
    BY <1>0, <1>4, <1>5 DEF HiddenInv, OneIdentity
  <1>9. ClosedOK'
    BY <1>0, <1>3, HiddenTypes DEF HiddenInv, ClosedOK
  <1>10. Numbered(m)' /\ UpOK(m)'
    BY <1>0, <1>1, <1>2, <1>3, <1>5, HiddenTypes DEF Numbered, UpOK
  <1> QED
    BY <1>3, <1>6, <1>7, <1>8, <1>9, <1>10 DEF HiddenInv, ChildrenOK

\* A wait that ends without an address; a SAM destination may have been stored.
LEMMA HiddenNoAddress ==
  ASSUME HiddenInv, NEW a \in Actors, AwaitTimesOut(a) \/ SamRefused(a)
  PROVE  HiddenInv'
  <1>0. /\ UNCHANGED <<kind, svc, seen, ctxDone, persisted, deaths, newKeys, overtaken>>
        /\ lock = a /\ step[a] = "await" /\ lock' = "free" /\ Goes(a, AfterLock(a, FALSE))
        /\ child' = [child EXCEPT ![Newest] = "dead"]
    BY DEF AwaitTimesOut, SamRefused, NoAddress
  <1>1. PICK m \in Children \cup {0} : Numbered(m) /\ UpOK(m)
    BY DEF HiddenInv, ChildrenOK
  <1>2. Newest = m
    BY <1>1, NewestIs DEF HiddenInv
  <1>3. /\ step' \in [Actors -> {"idle", "off", "lock", "start", "await", "check", "probe", "done"}]
        /\ \A b \in Actors : step'[b] # "start" /\ step'[b] # "await"
        /\ \A b \in Actors \ {a} : step'[b] = step[b]
        /\ a # "closer"
        /\ StepsOK' /\ (kind # "tor" => step'["starter"] \in {"check", "done"})
    BY <1>0, HiddenReleases
  <1>4. startFailures' \in 0 .. MaxStartFailures
    BY HiddenTypes DEF AwaitTimesOut, SamRefused, AnotherFailure, HiddenInv, HiddenTypeOK
  <1>11. key' \in Identities /\ (newKeys = 0 => key' \in {0, 1})
    BY HiddenTypes DEF AwaitTimesOut, SamRefused, Identity, Identities, HiddenInv, HiddenTypeOK, OneIdentity
  <1>5. \A c \in Children : child'[c] = IF c = m THEN "dead" ELSE child[c]
    BY <1>0, <1>2, HiddenTypes
  <1>6. child' \in [Children -> {"none", "up", "dead"}] /\ \A c \in Children : child'[c] # "up"
    BY <1>0, <1>1, <1>5, HiddenTypes DEF UpOK
  <1>7. HiddenTypeOK'
    BY <1>0, <1>3, <1>4, <1>6, <1>11 DEF HiddenInv, HiddenTypeOK
  <1>8. FirstStart' /\ OneIdentity'
    BY <1>0, <1>3, <1>11, HiddenTypes DEF HiddenInv, FirstStart, OneIdentity, StepsOK
  <1>9. ClosedOK'
    BY <1>0, <1>3, <1>6, HiddenTypes DEF HiddenInv, ClosedOK
  <1>10. Numbered(m)' /\ UpOK(m)'
    BY <1>0, <1>1, <1>5, <1>6, HiddenTypes DEF Numbered, UpOK
  <1> QED
    BY <1>3, <1>7, <1>8, <1>9, <1>10 DEF HiddenInv, ChildrenOK

LEMMA HiddenDies == ASSUME HiddenInv, ChildDies PROVE HiddenInv'
  <1>0. /\ UNCHANGED <<kind, lock, svc, step, seen, ctxDone, key, persisted, startFailures, newKeys, overtaken>>
        /\ deaths' \in 0 .. MaxDeaths
    BY HiddenTypes DEF ChildDies, HiddenInv, HiddenTypeOK
  <1>1. PICK d \in Children : child[d] = "up" /\ child' = [child EXCEPT ![d] = "dead"]
    BY DEF ChildDies
  <1>2. /\ child' \in [Children -> {"none", "up", "dead"}]
        /\ \A c \in Children : child'[c] = IF c = d THEN "dead" ELSE child[c]
    BY <1>1, HiddenTypes
  <1>3. HiddenTypeOK' /\ StepsOK' /\ FirstStart' /\ OneIdentity'
    BY <1>0, <1>2 DEF HiddenInv, HiddenTypeOK, StepsOK, FirstStart, OneIdentity
  <1>4. ClosedOK'
    BY <1>0, <1>2 DEF HiddenInv, ClosedOK
  <1>5. ChildrenOK'
    BY <1>0, <1>1, <1>2 DEF HiddenInv, ChildrenOK, Numbered, UpOK
  <1> QED
    BY <1>3, <1>4, <1>5 DEF HiddenInv

LEMMA HiddenStep == ASSUME HiddenInv, [HiddenNext]_hiddenVars PROVE HiddenInv'
  <1>1. CASE UNCHANGED hiddenVars
    BY <1>1
    DEF hiddenVars, HiddenInv, HiddenTypeOK, StepsOK, FirstStart, ClosedOK, OneIdentity, ChildrenOK, Numbered, UpOK
  <1>2. ASSUME NEW a \in Actors, TakeLock(a) \/ Locked(a) PROVE HiddenInv'
    <2>1. startFailures \in 0 .. MaxStartFailures /\ MaxStartFailures \in Nat
      BY HiddenTypes DEF HiddenInv, HiddenTypeOK
    <2>2. CASE TakeLock(a)
      BY <2>2, HiddenTakes, HiddenQuiet
    <2>3. CASE StartFails(a)
      BY <2>1, <2>3, HiddenNotStarted DEF StartFails
    <2>4. CASE StartTor(a)
      BY <2>1, <2>4, HiddenNotStarted, HiddenStarted DEF StartTor
    <2>5. CASE StartEepsite(a)
      BY <2>5, HiddenStarted DEF StartEepsite
    <2>6. CASE WaitForHostname(a) \/ WaitForKeysAddress(a) \/ SamCreateSession(a)
      BY <2>6, HiddenPublishes DEF WaitForHostname, WaitForKeysAddress, SamCreateSession
    <2>7. CASE AwaitTimesOut(a) \/ SamRefused(a)
      BY <2>7, HiddenNoAddress
    <2> QED
      BY <1>2, <2>2, <2>3, <2>4, <2>5, <2>6, <2>7 DEF Locked
  <1>3. CASE AfterStart \/ MonitorLook \/ MonitorProbe \/ HealthCheck \/ CloseBegins \/ ReplaceIdentity
    BY <1>3, HiddenQuiet
  <1> QED
    BY <1>1, <1>2, <1>3, HiddenCloses, HiddenDies DEF HiddenNext

\* OneChild and AddressKept: however Start, Restart, the monitor and Close of a manager
\* interleave and children die, there is at most one child, none is left after Close
\* (unless it overtook the start of an i2p child), and the address stays, for any numbers
\* of deaths, failures and commands.
THEOREM OneServiceChild == HiddenSpec => [](HiddenTypeOK /\ OneChild /\ AddressKept)
  <1>1. HiddenInit => HiddenInv
    BY HiddenStart
  <1>2. HiddenInv /\ [HiddenNext]_hiddenVars => HiddenInv'
    BY HiddenStep
  <1>3. HiddenInv => HiddenTypeOK /\ OneChild /\ AddressKept
    <2> SUFFICES ASSUME HiddenInv PROVE HiddenTypeOK /\ OneChild /\ AddressKept
      OBVIOUS
    <2> DEFINE U == {c \in Children : child[c] = "up"}
    <2>1. PICK m \in Children \cup {0} : Numbered(m) /\ UpOK(m)
      BY DEF HiddenInv, ChildrenOK
    <2>2. \A c, d \in U : c = d
      BY <2>1, HiddenTypes DEF UpOK, HiddenInv, StepsOK
    <2>3. Cardinality(U) <= 1
      <3>1. CASE U = {}
        BY <3>1, FS_EmptySet
      <3>2. CASE U # {}
        <4>1. PICK c \in U : U = {c}
          BY <2>2, <3>2
        <4>2. Cardinality({c}) = 1
          BY FS_Singleton
        <4> QED
          BY <4>1, <4>2
      <3> QED
        BY <3>1, <3>2
    <2>4. OneChild
      BY <2>3 DEF OneChild, HiddenInv, ClosedOK
    <2>5. AddressKept
      BY DEF AddressKept, ServiceUp, HiddenInv, OneIdentity
    <2> QED
      BY <2>4, <2>5 DEF HiddenInv
  <1> QED
    BY <1>1, <1>2, <1>3, PTL DEF HiddenSpec

-----------------------------------------------------------------------------
(***************************************************************************)
(* Updater.                                                                *)
(***************************************************************************)
\* A file that passed the checksum is complete.
ProvenIsWhole == \A a \in Updaters : upd[a].pc = "proven" => upd[a].temp # Garbled

\* A client that has something newer to install has compared it with the version it runs,
\* which is the one in the file.
ClientIsNewer ==
    /\ clientStep.pc \in {"check", "saved", "copy", "staged"} => clientStep.runs = clientFile
    /\ clientStep.pc \in {"saved", "copy", "staged"} =>
         clientStep.temp \in Releases /\ VersionLessThan(clientStep.runs, clientStep.temp)
    /\ clientStep.pc = "staged" => clientStep.beside = clientStep.temp

\* What runs has been started from the file, which was complete then.
RunsRelease == \A a \in Updaters : upd[a].runs \in Releases

UpdaterInv == UpdaterTypeOK /\ BinariesWhole /\ ProvenIsWhole /\ ClientIsNewer /\ RunsRelease

\* A client's file stays, or becomes a release that versionLessThan takes for newer.
ForwardStep ==
    \/ clientFile' = clientFile
    \/ clientFile' \in Releases /\ VersionLessThan(clientFile, clientFile')

LEMMA VersionValues == \A r \in Releases, i \in 1 .. 3 : Version[r][i].value \in Nat
  <1> SUFFICES ASSUME NEW r \in Releases, NEW i \in 1 .. 3 PROVE Version[r][i].value \in Nat
    OBVIOUS
  <1>1. Version \in [Releases -> [1 .. 3 -> Segments]]
    BY UpdateNumbers
  <1>2. Version[r] \in [1 .. 3 -> Segments]
    BY <1>1, Zenon
  <1>3. Version[r][i] \in Segments
    BY <1>2, Zenon
  <1> QED
    BY <1>3 DEF Segments

\* Between numbered releases, newer for versionLessThan is newer.
LEMMA NewerIsNotBefore ==
  ASSUME NEW a \in Releases, NEW b \in Releases, HasNumber(a), HasNumber(b), VersionLessThan(a, b)
  PROVE  ~Before(b, a)
  <1> DEFINE s(i) == Version[a][i].value
             t(i) == Version[b][i].value
  <1>2. 1 \in 1 .. 3 /\ 2 \in 1 .. 3 /\ 3 \in 1 .. 3
    OBVIOUS
  <1>3. /\ s(1) \in Nat /\ s(2) \in Nat /\ s(3) \in Nat
        /\ t(1) \in Nat /\ t(2) \in Nat /\ t(3) \in Nat
    BY <1>2, VersionValues
  <1>4. \A i \in 1 .. 3 : /\ SegmentRank(Version[a][i], Version[b][i]) = s(i)
                          /\ SegmentRank(Version[b][i], Version[a][i]) = t(i)
    <2> SUFFICES ASSUME NEW i \in 1 .. 3
                 PROVE  /\ SegmentRank(Version[a][i], Version[b][i]) = Version[a][i].value
                        /\ SegmentRank(Version[b][i], Version[a][i]) = Version[b][i].value
      OBVIOUS
    <2>1. Version[a][i].numeric /\ Version[b][i].numeric
      BY DEF HasNumber
    <2> DEFINE x == Version[a][i]
               y == Version[b][i]
    <2>2. x.numeric /\ y.numeric
      BY <2>1
    <2> HIDE DEF x, y
    <2>3. SegmentRank(x, y) = x.value /\ SegmentRank(y, x) = y.value
      BY <2>2 DEF SegmentRank
    <2> QED
      BY <2>3 DEF x, y
  <1>5. PICK i \in 1 .. 3 : s(i) < t(i) /\ \A j \in 1 .. i - 1 : s(j) = t(j)
    <2>1. PICK i \in 1 .. 3 :
            /\ SegmentRank(Version[a][i], Version[b][i]) < SegmentRank(Version[b][i], Version[a][i])
            /\ \A j \in 1 .. i - 1 :
                 SegmentRank(Version[a][j], Version[b][j]) = SegmentRank(Version[b][j], Version[a][j])
      BY DEF VersionLessThan
    <2>2. \A j \in 1 .. i - 1 : j \in 1 .. 3
      OBVIOUS
    <2> QED
      BY <1>4, <2>1, <2>2
  <1>6. \/ s(1) < t(1)
        \/ s(1) = t(1) /\ s(2) < t(2)
        \/ s(1) = t(1) /\ s(2) = t(2) /\ s(3) < t(3)
    <2>1. CASE i = 1
      BY <1>5, <2>1
    <2>2. CASE i = 2
      <3>1. 1 \in 1 .. i - 1
        BY <2>2
      <3> QED
        BY <1>5, <2>2, <3>1
    <2>3. CASE i = 3
      <3>1. 1 \in 1 .. i - 1 /\ 2 \in 1 .. i - 1
        BY <2>3
      <3> QED
        BY <1>5, <2>3, <3>1
    <2> QED
      BY <2>1, <2>2, <2>3
  <1>7. Before(b, a) =>
          \/ t(1) < s(1)
          \/ t(1) = s(1) /\ t(2) < s(2)
          \/ t(1) = s(1) /\ t(2) = s(2) /\ t(3) < s(3)
    BY DEF Before, NumberAt
  <1> HIDE DEF s, t
  <1> QED
    BY <1>3, <1>6, <1>7

LEMMA NotBeforeItself == ASSUME NEW a \in Releases PROVE ~Before(a, a)
  <1> DEFINE s(i) == Version[a][i].value
  <1>1. s(1) \in Nat /\ s(2) \in Nat /\ s(3) \in Nat
    BY VersionValues
  <1>2. Before(a, a) => s(1) < s(1) \/ s(2) < s(2) \/ s(3) < s(3)
    BY DEF Before, NumberAt
  <1> QED
    BY <1>1, <1>2

\* Releases are numbers, and a nonempty set of them has a latest one.
LEMMA ReleaseNumbers ==
  /\ Releases \subseteq Nat \ {0} /\ 1 \in Releases /\ Garbled \notin Releases /\ Garbled \in Files
  /\ Releases \subseteq Files /\ Files \subseteq Nat /\ \A r \in Releases : 1 .. r \subseteq Releases
  <1>1. PICK n \in Nat : Releases = 1 .. n /\ n # 0
    BY UpdateNumbers
  <1> QED
    BY <1>1 DEF Garbled, Files

LEMMA MaxOf ==
  ASSUME NEW S \in SUBSET Releases, S # {}
  PROVE  Max(S) \in S
  <1> DEFINE Lt == OpToRel(<, Nat)
             n == Cardinality(Releases)
             High == {n - r : r \in S}
  <1>1. n \in Nat /\ \A r \in S : r \in Nat /\ n - r \in Nat
    BY UpdateNumbers
  <1>2. \A a, b \in Nat : a < b => <<a, b>> \in Lt
    BY DEF OpToRel
  <1>3. High \subseteq Nat /\ High # {}
    BY <1>1
  <1>4. IsWellFoundedOn(Lt, Nat)
    BY NatLessThanWellFounded
  <1> HIDE DEF Lt, n
  <1>5. PICK c \in High : \A b \in High : ~(<<b, c>> \in Lt)
    BY <1>3, <1>4, WFMin
  <1>6. PICK x \in S : n - x = c
    BY <1>5
  <1>7. \A y \in S : x >= y
    <2>1. ASSUME NEW y \in S, ~(x >= y) PROVE FALSE
      <3>1. n - y < n - x
        BY <1>1, <2>1
      <3> QED
        BY <1>1, <1>2, <1>5, <1>6, <3>1
    <2> QED
      BY <2>1
  <1> QED
    BY <1>7 DEF Max

LEMMA OfferedAreReleases ==
  ASSUME UpdaterTypeOK, NEW v, NEW b
  PROVE  CheckForUpdate(v, b) \subseteq Releases
  <1> DEFINE stable  == {r \in 1 .. published : Channel[r] = "stable"}
             matches == {r \in 1 .. published : MatchesBranch(r, b) /\ ~IsCurrent(r, v)}
  <1>1. published \in Releases /\ published \in Nat /\ published # 0
    BY ReleaseNumbers DEF UpdaterTypeOK
  <1>2. 1 .. published \subseteq Releases
    BY <1>1, ReleaseNumbers
  <1>3. 1 \in stable /\ stable \subseteq Releases /\ matches \subseteq Releases
    BY <1>1, <1>2, UpdateNumbers
  <1>4. Max(stable) \in Releases /\ (matches # {} => Max(matches) \in Releases)
    BY <1>3, MaxOf
  <1> QED
    BY <1>4 DEF CheckForUpdate

LEMMA UpdaterStart == ASSUME UpdaterInit PROVE UpdaterInv
  <1>1. /\ 0 \in 0 .. UpdateMaxDay /\ 0 \in 0 .. MaxUpdateFailures
    BY UpdateNumbers
  <1>2. UpdaterTypeOK
    BY <1>1, ReleaseNumbers DEF UpdaterInit, UpdaterTypeOK, ClientAtEase
  <1> QED
    BY <1>2, ReleaseNumbers
    DEF UpdaterInit, UpdaterInv, BinariesWhole, ProvenIsWhole, ClientIsNewer, ClientAtEase, Garbled, RunsRelease

\* The steps of an updater: what it keeps and what it installs.
LEMMA UpdaterMoves ==
  ASSUME UpdaterInv, NEW a \in Updaters,
         UpdaterStep(a) \/ UpdateAborted(a) \/ (a = "task" /\ UpdateCheckRuns) \/ (a = "cli" /\ UpdateYes)
  PROVE  /\ \E u \in [pc : {"idle", "check", "found", "saved", "proven", "installed"},
                       runs : Files, branch : Branches, rel : Releases, temp : Files] :
               /\ upd' = [upd EXCEPT ![a] = u]
               /\ u.pc = "proven" => u.temp # Garbled
               /\ u.runs \in Releases
         /\ binary' \in {binary, upd[a].temp} /\ (binary' # binary => upd[a].pc = "proven")
         /\ updateFailures' \in 0 .. MaxUpdateFailures
         /\ UNCHANGED <<worldVars, clientVars>>
  <1> DEFINE UT == [pc : {"idle", "check", "found", "saved", "proven", "installed"},
                    runs : Files, branch : Branches, rel : Releases, temp : Files]
  <1>0. /\ upd[a] \in UT /\ binary \in Files /\ branch \in Branches /\ updateFailures \in 0 .. MaxUpdateFailures
        /\ MaxUpdateFailures \in Nat
        /\ 1 \in Releases /\ 1 \in Files /\ Garbled \in Files /\ Garbled \notin Releases /\ Releases \subseteq Files
        /\ binary \in Releases /\ upd[a].runs \in Releases
    BY UpdateNumbers, ReleaseNumbers DEF UpdaterInv, UpdaterTypeOK, BinariesWhole, RunsRelease, Files
  <1>1. \A u \in UT : AtEase(a, u) \in UT /\ AtEase(a, u).pc = "idle"
                      /\ (u.runs \in Releases => AtEase(a, u).runs \in Releases)
    BY <1>0 DEF AtEase
  <1>2. CASE UpdateCheck(a)
    <2> DEFINE wanted == {r \in CheckForUpdate(upd[a].runs, upd[a].branch) : ~Deferred(a, r)}
               r == CHOOSE q \in wanted : TRUE
               u == IF wanted = {} \/ (a = "task" /\ ~autoInstall) THEN AtEase(a, upd[a])
                    ELSE [upd[a] EXCEPT !.pc = "found", !.rel = r]
    <2>1. wanted \subseteq Releases
      BY OfferedAreReleases DEF UpdaterInv
    <2>2. upd' = [upd EXCEPT ![a] = u]
      BY <1>2 DEF UpdateCheck
    <2>3. wanted # {} => r \in Releases
      BY <2>1
    <2>4. u \in UT /\ u.pc # "proven" /\ u.runs \in Releases
      <3> HIDE DEF r
      <3> QED
        BY <1>0, <1>1, <2>3
    <2> HIDE DEF u
    <2> QED
      BY <1>0, <1>2, <2>2, <2>4 DEF UpdateCheck
  <1>3. CASE DoUpdate(a)
    <2>1. PICK t \in Files : upd' = [upd EXCEPT ![a] = [upd[a] EXCEPT !.pc = "saved", !.temp = t]]
      BY <1>0, <1>3 DEF DoUpdate
    <2>2. updateFailures' \in 0 .. MaxUpdateFailures
      BY <1>0, <1>3 DEF DoUpdate
    <2> DEFINE u == [upd[a] EXCEPT !.pc = "saved", !.temp = t]
    <2>3. u \in UT /\ u.pc # "proven" /\ u.runs \in Releases
      BY <1>0, <2>1
    <2>4. upd' = [upd EXCEPT ![a] = u]
      BY <2>1
    <2> HIDE DEF u
    <2> QED
      BY <1>3, <2>2, <2>3, <2>4 DEF DoUpdate
  <1>4. CASE VerifyChecksum(a)
    <2> DEFINE u == IF upd[a].temp = upd[a].rel THEN [upd[a] EXCEPT !.pc = "proven"] ELSE AtEase(a, upd[a])
    <2>1. u \in UT /\ (u.pc = "proven" => u.temp # Garbled) /\ u.runs \in Releases
      BY <1>0, <1>1
    <2>2. upd' = [upd EXCEPT ![a] = u]
      BY <1>4 DEF VerifyChecksum
    <2> HIDE DEF u
    <2> QED
      BY <1>0, <1>4, <2>1, <2>2 DEF VerifyChecksum
  <1>5. CASE ReplaceBinary(a)
    <2> DEFINE u == [upd[a] EXCEPT !.pc = "installed"]
    <2>1. u \in UT /\ u.pc # "proven" /\ u.runs \in Releases
      BY <1>0
    <2>2. upd' = [upd EXCEPT ![a] = u]
      BY <1>5 DEF ReplaceBinary
    <2> HIDE DEF u
    <2> QED
      BY <1>0, <1>5, <2>1, <2>2 DEF ReplaceBinary
  <1>6. CASE RestartSelf(a)
    <2> DEFINE u == [pc |-> IF a = "cli" THEN "check" ELSE "idle", runs |-> binary,
                     branch |-> branch, rel |-> 1, temp |-> Garbled]
    <2>1. u \in UT /\ u.pc # "proven" /\ u.runs \in Releases
      BY <1>0
    <2>2. upd' = [upd EXCEPT ![a] = u]
      BY <1>6 DEF RestartSelf
    <2> HIDE DEF u
    <2> QED
      BY <1>0, <1>6, <2>1, <2>2 DEF RestartSelf
  <1>7. CASE UpdateAborted(a)
    <2>1. PICK died \in BOOLEAN :
            upd' = [upd EXCEPT ![a] = AtEase(a, IF died THEN [upd[a] EXCEPT !.runs = binary, !.branch = branch]
                                                ELSE upd[a])]
      BY <1>7 DEF UpdateAborted
    <2> DEFINE w == IF died THEN [upd[a] EXCEPT !.runs = binary, !.branch = branch] ELSE upd[a]
    <2>2. w \in UT /\ w.runs \in Releases
      BY <1>0
    <2>3. upd' = [upd EXCEPT ![a] = AtEase(a, w)]
      BY <2>1
    <2> HIDE DEF w
    <2>4. AtEase(a, w) \in UT /\ AtEase(a, w).pc = "idle" /\ AtEase(a, w).runs \in Releases
      BY <1>1, <2>2
    <2>5. updateFailures' \in 0 .. MaxUpdateFailures /\ UNCHANGED <<worldVars, clientVars, binary>>
      BY <1>0, <1>7 DEF UpdateAborted
    <2> QED
      BY <2>3, <2>4, <2>5
  <1>8. CASE (a = "task" /\ UpdateCheckRuns) \/ (a = "cli" /\ UpdateYes)
    <2> DEFINE u == IF a = "task" THEN [upd[a] EXCEPT !.pc = "check"]
                    ELSE [upd[a] EXCEPT !.pc = "check", !.runs = binary, !.branch = branch]
    <2>1. u \in UT /\ u.pc # "proven" /\ u.runs \in Releases
      BY <1>0
    <2>2. upd' = [upd EXCEPT ![a] = u]
      BY <1>8 DEF UpdateCheckRuns, UpdateYes
    <2> HIDE DEF u
    <2> QED
      BY <1>0, <1>8, <2>1, <2>2 DEF UpdateCheckRuns, UpdateYes
  <1> QED
    BY <1>2, <1>3, <1>4, <1>5, <1>6, <1>7, <1>8 DEF UpdaterStep

\* The steps of a client: it only installs what is newer.
LEMMA ClientMoves ==
  ASSUME UpdaterInv, ClientUpdateYes \/ ClientStep \/ ClientAborted
  PROVE  /\ clientStep' \in [pc : {"idle", "check", "saved", "copy", "staged", "installed"},
                             runs : Files, temp : Files, beside : Files]
         /\ clientFile' \in Files /\ clientFile' # Garbled /\ ForwardStep /\ ClientIsNewer'
         /\ updateFailures' \in 0 .. MaxUpdateFailures
         /\ UNCHANGED <<worldVars, binary, upd>>
  <1> DEFINE CT == [pc : {"idle", "check", "saved", "copy", "staged", "installed"},
                    runs : Files, temp : Files, beside : Files]
             v == upd["task"].runs
  <1>0. /\ clientStep \in CT /\ clientFile \in Files /\ updateFailures \in 0 .. MaxUpdateFailures
        /\ v \in Files /\ MaxUpdateFailures \in Nat /\ Files \subseteq Nat /\ Garbled \in Files /\ 1 \in Files
        /\ ClientIsNewer /\ v \in Releases /\ clientFile # Garbled
        /\ Releases \subseteq Files /\ Garbled \notin Releases
    BY UpdateNumbers, ReleaseNumbers
    DEF UpdaterInv, UpdaterTypeOK, Updaters, BinariesWhole, RunsRelease
  <1>1. ClientAtEase \in CT /\ ClientAtEase.pc = "idle"
    BY <1>0 DEF ClientAtEase
  <1>2. UNCHANGED <<worldVars, binary, upd>> /\ updateFailures' \in 0 .. MaxUpdateFailures
    BY <1>0
    DEF ClientUpdateYes, ClientStep, ClientAborted, ClientDownload, ClientRename, ReplaceCrossDevice,
        ReExec, Untouched
  <1> SUFFICES clientStep' \in CT /\ clientFile' \in Files /\ clientFile' # Garbled /\ ForwardStep /\ ClientIsNewer'
    BY <1>2
  <1>3. CASE ClientUpdateYes \/ ReExec
    <2>1. clientStep' \in CT /\ clientStep'.pc = "check" /\ clientStep'.runs = clientFile
      BY <1>0, <1>3 DEF ClientUpdateYes, ReExec
    <2>2. clientFile' = clientFile
      BY <1>3 DEF ClientUpdateYes, ReExec
    <2> HIDE DEF CT
    <2> QED
      BY <1>0, <2>1, <2>2 DEF ClientIsNewer, ForwardStep
  <1>4. CASE ClientDownload
    <2>1. CASE VersionLessThan(clientStep.runs, v)
      <3>1. clientStep' = [clientStep EXCEPT !.pc = "saved", !.temp = v] /\ clientFile' = clientFile
        BY <1>4, <2>1 DEF ClientDownload
      <3>2. clientStep.runs = clientFile
        BY <1>0, <1>4 DEF ClientIsNewer, ClientDownload
      <3> HIDE DEF v
      <3>3. /\ clientStep' \in CT /\ clientStep'.pc = "saved" /\ clientStep'.temp = v
            /\ clientStep'.runs = clientStep.runs
        BY <1>0, <3>1
      <3> HIDE DEF CT
      <3> QED
        BY <1>0, <2>1, <3>1, <3>2, <3>3 DEF ClientIsNewer, ForwardStep
    <2>2. CASE ~VersionLessThan(clientStep.runs, v)
      <3>1. clientStep' = ClientAtEase /\ clientFile' = clientFile
        BY <1>4, <2>2 DEF ClientDownload
      <3> QED
        BY <1>0, <1>1, <3>1 DEF ClientIsNewer, ForwardStep
    <2> QED
      BY <2>1, <2>2
  <1>5. CASE ClientRename \/ ReplaceCrossDevice
    <2>1. clientStep' \in CT /\ clientStep'.runs = clientStep.runs /\ clientStep'.temp = clientStep.temp
      BY <1>0, <1>5 DEF ClientRename, ReplaceCrossDevice
    <2>2. /\ clientStep.pc \in {"saved", "copy", "staged"}
          /\ \/ clientFile' = clientFile /\ clientStep'.pc = "copy"
             \/ clientFile' = clientFile /\ clientStep'.pc = "staged" /\ clientStep'.beside = clientStep.temp
             \/ clientStep'.pc = "installed" /\ clientFile' = clientStep.temp
      BY <1>0, <1>5 DEF ClientRename, ReplaceCrossDevice, ClientIsNewer
    <2>3. clientFile' \in Files /\ clientFile' # Garbled /\ ForwardStep
      BY <1>0, <2>2 DEF ClientIsNewer, ForwardStep
    <2> HIDE DEF CT
    <2>4. ClientIsNewer'
      BY <1>0, <2>1, <2>2 DEF ClientIsNewer
    <2> QED
      BY <2>1, <2>3, <2>4
  <1>6. CASE ClientAborted
    <2>1. clientStep' = ClientAtEase /\ clientFile' = clientFile
      BY <1>6 DEF ClientAborted
    <2> QED
      BY <1>0, <1>1, <2>1 DEF ClientIsNewer, ForwardStep
  <1> QED
    BY <1>3, <1>4, <1>5, <1>6 DEF ClientStep

LEMMA UpdaterInduction == ASSUME UpdaterInv, [UpdaterNext]_updateVars PROVE UpdaterInv' /\ ForwardStep
  <1>0. /\ UpdaterTypeOK /\ BinariesWhole /\ ProvenIsWhole /\ ClientIsNewer /\ RunsRelease
        /\ MaxUpdateFailures \in Nat /\ UpdateMaxDay \in Nat
    BY UpdateNumbers, ReleaseNumbers DEF UpdaterInv, UpdaterTypeOK
  <1>1. CASE UNCHANGED updateVars
    BY <1>0, <1>1 DEF updateVars, UpdaterInv, UpdaterTypeOK, BinariesWhole, ProvenIsWhole, ClientIsNewer,
        RunsRelease, ForwardStep
  <1>2. ASSUME NEW a \in Updaters,
               UpdaterStep(a) \/ UpdateAborted(a) \/ (a = "task" /\ UpdateCheckRuns) \/ (a = "cli" /\ UpdateYes)
        PROVE  UpdaterInv' /\ ForwardStep
    <2> DEFINE UT == [pc : {"idle", "check", "found", "saved", "proven", "installed"},
                      runs : Files, branch : Branches, rel : Releases, temp : Files]
    <2>1. /\ binary' \in {binary, upd[a].temp} /\ (binary' # binary => upd[a].pc = "proven")
          /\ updateFailures' \in 0 .. MaxUpdateFailures
          /\ UNCHANGED <<worldVars, clientVars>>
      BY <1>2, UpdaterMoves
    <2>2. PICK u \in UT : upd' = [upd EXCEPT ![a] = u] /\ (u.pc = "proven" => u.temp # Garbled) /\ u.runs \in Releases
      BY <1>2, UpdaterMoves
    <2>3. upd \in [Updaters -> UT] /\ upd[a] \in UT
      BY <1>0 DEF UpdaterTypeOK
    <2>4. upd' \in [Updaters -> UT]
      BY <2>2, <2>3
    <2>5. binary' \in Files /\ BinariesWhole'
      BY <1>0, <2>1, <2>3 DEF UpdaterTypeOK, BinariesWhole, ProvenIsWhole, clientVars
    <2>6. ProvenIsWhole' /\ RunsRelease'
      BY <1>0, <2>2, <2>3 DEF ProvenIsWhole, RunsRelease
    <2>7. UpdaterTypeOK'
      BY <1>0, <2>1, <2>4, <2>5 DEF UpdaterTypeOK, worldVars, clientVars
    <2>8. ClientIsNewer' /\ clientFile' = clientFile
      BY <1>0, <2>1 DEF clientVars, ClientIsNewer
    <2> QED
      BY <1>0, <2>5, <2>6, <2>7, <2>8 DEF UpdaterInv, ForwardStep
  <1>3. CASE ClientUpdateYes \/ ClientStep \/ ClientAborted
    <2>1. UpdaterTypeOK' /\ ClientIsNewer' /\ ForwardStep /\ clientFile' # Garbled
          /\ UNCHANGED <<binary, upd>>
      BY <1>0, <1>3, ClientMoves DEF UpdaterTypeOK, worldVars
    <2>2. BinariesWhole'
      BY <1>0, <2>1 DEF BinariesWhole
    <2> QED
      BY <1>0, <2>1, <2>2 DEF UpdaterInv, ProvenIsWhole, RunsRelease
  <1>4. CASE SetUpdateBranch \/ ReleaseAppears \/ UpdateDayPasses
    <2>1. UNCHANGED <<clientFile, clientStep, binary, upd, autoInstall>>
      BY <1>4 DEF SetUpdateBranch, ReleaseAppears, UpdateDayPasses, clientVars
    <2>2. since' \in [Releases -> 0 .. UpdateMaxDay] /\ published' \in Releases
      BY <1>0, <1>4 DEF UpdaterTypeOK, SetUpdateBranch, ReleaseAppears, UpdateDayPasses
    <2>3. branch' \in Branches /\ updDay' \in 0 .. UpdateMaxDay /\ updateFailures' \in 0 .. MaxUpdateFailures
      BY <1>0, <1>4 DEF UpdaterTypeOK, SetUpdateBranch, ReleaseAppears, UpdateDayPasses
    <2> QED
      BY <1>0, <2>1, <2>2, <2>3
      DEF UpdaterInv, UpdaterTypeOK, BinariesWhole, ProvenIsWhole, ClientIsNewer, RunsRelease, ForwardStep
  <1>5. "task" \in Updaters /\ "cli" \in Updaters
    BY DEF Updaters
  <1> QED
    BY <1>1, <1>2, <1>3, <1>4, <1>5 DEF UpdaterNext

LEMMA ForwardStepsMoveForward ==
  ASSUME UpdaterInv, ForwardStep, HasNumber(clientFile), HasNumber(clientFile')
  PROVE  ~Before(clientFile', clientFile)
  <1>1. clientFile \in Releases
    BY DEF UpdaterInv, UpdaterTypeOK, BinariesWhole, Files
  <1> QED
    BY <1>1, NewerIsNotBefore, NotBeforeItself DEF ForwardStep

\* BinariesWhole and ClientMovesForward: the binaries are complete releases at every
\* moment (DoUpdate, downloadAndApplyUpdate), and a client is never replaced by a release
\* with a lower number (cmdUpdate), for any releases, tags, versions, branches and failures.
THEOREM UpdatesAreWhole == UpdaterSpec => [](UpdaterTypeOK /\ BinariesWhole) /\ ClientMovesForward
  <1>1. UpdaterInit => UpdaterInv
    BY UpdaterStart
  <1>2. UpdaterInv /\ [UpdaterNext]_updateVars => UpdaterInv'
    BY UpdaterInduction
  <1>3. UpdaterInv => UpdaterTypeOK /\ BinariesWhole
    BY DEF UpdaterInv
  <1>4. UpdaterInv /\ [UpdaterNext]_updateVars =>
          [HasNumber(clientFile) /\ HasNumber(clientFile') => ~Before(clientFile', clientFile)]_updateVars
    BY UpdaterInduction, ForwardStepsMoveForward
  <1> QED
    BY <1>1, <1>2, <1>3, <1>4, PTL DEF UpdaterSpec, ClientMovesForward

-----------------------------------------------------------------------------
(***************************************************************************)
(* GeoDatabases.                                                           *)
(***************************************************************************)
\* A database on disk is no newer than the newest release and no older than the one that
\* is open.
FilesAreNewer ==
    \A d \in DBs :
        /\ reader[d] <= release
        /\ mmdb[d] \in 1 .. MaxReleases => reader[d] <= mmdb[d] /\ mmdb[d] <= release

GeoInv == GeoTypeOK /\ FilesWhole /\ FilesAreNewer

LEMMA GeoNumbers ==
  ASSUME GeoTypeOK
  PROVE  /\ MaxReleases \in Nat /\ MaxReleases # 0 /\ MaxUpdates \in Nat
         /\ TornFile = MaxReleases + 1 /\ NotADatabase = MaxReleases + 2 /\ Missing = 0 /\ NoHandle = 0
         /\ release \in Nat /\ release <= MaxReleases /\ release # 0
         /\ Len(Databases) \in Nat /\ geo.k \in 1 .. Len(Databases) /\ Current \in DBs
         /\ mmdb \in [DBs -> 0 .. NotADatabase] /\ reader \in [DBs -> 0 .. MaxReleases]
  <1>1. geo.k \in 1 .. Len(Databases) /\ DOMAIN Databases = 1 .. Len(Databases) /\ Len(Databases) \in Nat
    BY GeoAssumption DEF GeoTypeOK
  <1>2. Current \in DBs
    BY <1>1 DEF Current, DBs
  <1>3. release \in Nat /\ release <= MaxReleases /\ release # 0 /\ MaxReleases \in Nat
    BY GeoAssumption DEF GeoTypeOK
  <1> QED
    BY <1>1, <1>2, <1>3, GeoAssumption DEF GeoTypeOK, TornFile, NotADatabase, Missing, NoHandle

LEMMA GeoStart == ASSUME GeoInit PROVE GeoInv
  <1>1. /\ MaxReleases \in Nat \ {0} /\ 1 \in 1 .. MaxReleases /\ 0 \in 0 .. MaxReleases
        /\ 0 \in 0 .. NotADatabase /\ 0 \in 0 .. MaxUpdates /\ 1 \in 1 .. Len(Databases)
        /\ TornFile # 0
    BY GeoAssumption DEF NotADatabase, TornFile
  <1>2. GeoTypeOK
    BY <1>1 DEF GeoInit, GeoTypeOK, FileSteps, Missing, NoHandle
  <1>3. FilesWhole /\ FilesAreNewer
    BY <1>1 DEF GeoInit, FilesWhole, FilesAreNewer, Missing, NoHandle
  <1> QED
    BY <1>2, <1>3 DEF GeoInv

\* A step replaces a file or a handle only in these ways.
LEMMA GeoSteps ==
  ASSUME GeoInv, [GeoNext]_geoVars
  PROVE  /\ \/ UNCHANGED <<mmdb, reader>>
            \/ UNCHANGED reader /\ mmdb' = [mmdb EXCEPT ![Current] = Missing]
            \/ UNCHANGED <<reader, release>>
               /\ \E got \in {release, NotADatabase} : mmdb' = [mmdb EXCEPT ![Current] = got]
            \/ UNCHANGED mmdb /\ reader' = [reader EXCEPT ![Current] = Reopened(Current)]
            \/ UNCHANGED mmdb /\ reader' = [d \in DBs |-> NoHandle] /\ geo'.pc \in {"down", "closed"}
         /\ list' \in {list, release, NotADatabase}
         /\ release' \in {release, release + 1} /\ release' \in 1 .. MaxReleases
  <1>r. release \in 1 .. MaxReleases /\ MaxReleases \in Nat
    BY GeoAssumption DEF GeoInv, GeoTypeOK
  <1>0. geo \in [pc : {"down", "open", "up", "wait", "update", "closed"}, at : FileSteps, k : 1 .. Len(Databases)]
    BY DEF GeoInv, GeoTypeOK
  <1>1. CASE OpenDatabases \/ UpdateGeoIP \/ LockForUpdate \/ UNCHANGED geoVars
    BY <1>r, <1>1 DEF OpenDatabases, UpdateGeoIP, LockForUpdate, geoVars, listVars
  <1>2. CASE StatFile
    BY <1>r, <1>2 DEF StatFile, listVars
  <1>3. CASE DownloadDB \/ CopyFails
    BY <1>r, <1>3 DEF DownloadDB, FetchFails, FetchAnswered, CopyFails, listVars
  <1>4. CASE CopyDone
    BY <1>r, <1>4 DEF CopyDone, listVars
  <1>5. CASE Reopen
    BY <1>r, <1>5 DEF Reopen, listVars
  <1>6. CASE CloseDatabases \/ GeoDies
    BY <1>0, <1>r, <1>6 DEF CloseDatabases, GeoDies, listVars
  <1>7. CASE (\E l \in Lookups : LookupStart(l) \/ LookupLock(l) \/ LookupDone(l))
    BY <1>r, <1>7 DEF LookupStart, LookupLock, LookupDone, listVars
  <1>8. CASE ListTask \/ DownloadFile \/ NewRelease
    BY <1>r, <1>8 DEF ListTask, DownloadFile, NewRelease, listVars
  <1> QED
    BY <1>1, <1>2, <1>3, <1>4, <1>5, <1>6, <1>7, <1>8 DEF GeoNext, GeoWork

LEMMA GeoTypes == ASSUME GeoInv, [GeoNext]_geoVars PROVE GeoTypeOK'
  <1> DEFINE GT == [pc : {"down", "open", "up", "wait", "update", "closed"}, at : FileSteps,
                    k : 1 .. Len(Databases)]
             Rest == /\ geo' \in GT /\ tmpFile' \in [DBs -> 0 .. NotADatabase] /\ updates' \in 0 .. MaxUpdates
                     /\ lookup' \in [Lookups -> {"idle", "wait", "read"}] /\ listTask' \in {"idle", "fetch"}
  <1>0. /\ GeoTypeOK /\ geo \in GT /\ tmpFile \in [DBs -> 0 .. NotADatabase] /\ updates \in 0 .. MaxUpdates
        /\ lookup \in [Lookups -> {"idle", "wait", "read"}] /\ listTask \in {"idle", "fetch"}
    BY DEF GeoInv, GeoTypeOK
  <1>1. /\ MaxUpdates \in Nat /\ Len(Databases) \in Nat /\ 1 \in 1 .. Len(Databases)
        /\ \A t \in {Missing, TornFile} : t \in 0 .. NotADatabase
    BY <1>0, GeoNumbers
  <1>2. NextDatabase => geo' \in GT
    <2>1. geo.k \in Nat /\ geo.k \in 1 .. Len(Databases) /\ (geo.k < Len(Databases) => geo.k + 1 \in 1 .. Len(Databases))
      BY <1>0, <1>1, GeoNumbers
    <2>2. \A n \in 1 .. Len(Databases) : [geo EXCEPT !.k = n, !.at = "stat"] \in GT
      BY <1>0 DEF FileSteps
    <2>3. [pc |-> "up", at |-> "stat", k |-> 1] \in GT
      BY <1>1 DEF FileSteps
    <2> HIDE DEF GT
    <2> QED
      BY <2>1, <2>2, <2>3 DEF NextDatabase
  <1>3. ASSUME OpenDatabases \/ UpdateGeoIP \/ LockForUpdate \/ StatFile PROVE Rest
    <2>1. geo' \in GT
      BY <1>0, <1>3 DEF OpenDatabases, UpdateGeoIP, LockForUpdate, StatFile, FileSteps
    <2> QED
      BY <1>0, <1>1, <1>3, <2>1 DEF OpenDatabases, UpdateGeoIP, LockForUpdate, StatFile, listVars
  <1>4. ASSUME DownloadDB \/ CopyFails \/ CopyDone \/ Reopen PROVE Rest
    <2>1. geo' \in GT
      BY <1>0, <1>2, <1>4 DEF DownloadDB, FetchFails, FetchAnswered, CopyFails, CopyDone, Reopen, FileSteps
    <2>2. tmpFile' \in [DBs -> 0 .. NotADatabase]
      BY <1>0, <1>1, <1>4 DEF DownloadDB, FetchFails, FetchAnswered, CopyFails, CopyDone, Reopen
    <2> QED
      BY <1>0, <1>4, <2>1, <2>2
      DEF DownloadDB, FetchFails, FetchAnswered, CopyFails, CopyDone, Reopen, listVars
  <1>5. ASSUME CloseDatabases \/ GeoDies PROVE Rest
    <2>1. geo' \in GT
      BY <1>0, <1>1, <1>5 DEF CloseDatabases, GeoDies, FileSteps
    <2> QED
      BY <1>0, <1>5, <2>1 DEF CloseDatabases, GeoDies, listVars
  <1>6. ASSUME \E l \in Lookups : LookupStart(l) \/ LookupLock(l) \/ LookupDone(l) PROVE Rest
    BY <1>0, <1>6 DEF LookupStart, LookupLock, LookupDone, listVars
  <1>7. ASSUME ListTask \/ DownloadFile \/ NewRelease \/ UNCHANGED geoVars PROVE Rest
    BY <1>0, <1>1, <1>7 DEF ListTask, DownloadFile, NewRelease, geoVars, listVars
  <1>8. Rest
    BY <1>3, <1>4, <1>5, <1>6, <1>7 DEF GeoNext, GeoWork
  <1>9. mmdb' \in [DBs -> 0 .. NotADatabase] /\ list' \in 0 .. NotADatabase
    <2>1. \A x \in {Missing, release, NotADatabase} : x \in 0 .. NotADatabase
      BY <1>0, GeoNumbers
    <2>2. mmdb \in [DBs -> 0 .. NotADatabase] /\ list \in 0 .. NotADatabase
      BY <1>0 DEF GeoTypeOK
    <2> QED
      BY <2>1, <2>2, GeoSteps
  <1>10. reader' \in [DBs -> 0 .. MaxReleases]
    <2>1. reader \in [DBs -> 0 .. MaxReleases] /\ NoHandle \in 0 .. MaxReleases /\ Current \in DBs
      BY <1>0, GeoNumbers
    <2>2. Reopened(Current) \in 0 .. MaxReleases
      BY <1>0, <2>1, GeoNumbers DEF Reopened
    <2> QED
      BY <2>1, <2>2, GeoSteps
  <1> QED
    BY <1>8, <1>9, <1>10, GeoSteps DEF GeoTypeOK

LEMMA GeoInduction ==
  ASSUME GeoInv, [GeoNext]_geoVars
  PROVE  /\ GeoInv'
         /\ \A d \in DBs : reader[d] # NoHandle /\ geo'.pc \notin {"down", "closed"} => reader'[d] >= reader[d]
  <1>0. GeoTypeOK /\ FilesWhole /\ FilesAreNewer
    BY DEF GeoInv
  <1>1. GeoTypeOK'
    BY GeoTypes
  <1>2. \A d \in DBs : reader[d] \in Nat /\ mmdb[d] \in Nat
    BY <1>0, GeoNumbers
  <1>3. FilesWhole'
    BY <1>0, GeoSteps, GeoNumbers DEF FilesWhole
  <1>4. ASSUME NEW d \in DBs
        PROVE  /\ reader'[d] <= release'
               /\ mmdb'[d] \in 1 .. MaxReleases => reader'[d] <= mmdb'[d] /\ mmdb'[d] <= release'
               /\ reader[d] # NoHandle /\ geo'.pc \notin {"down", "closed"} => reader'[d] >= reader[d]
    <2>1. /\ reader[d] \in Nat /\ mmdb[d] \in Nat /\ reader[d] <= release
          /\ mmdb[d] \in 1 .. MaxReleases => reader[d] <= mmdb[d] /\ mmdb[d] <= release
      BY <1>0, <1>2 DEF FilesAreNewer
    <2>2. release' \in {release, release + 1}
      BY GeoSteps
    <2>3. CASE UNCHANGED <<mmdb, reader>>
      BY <1>0, <2>1, <2>2, <2>3, GeoNumbers
    <2>4. CASE UNCHANGED reader /\ mmdb' = [mmdb EXCEPT ![Current] = Missing]
      BY <1>0, <2>1, <2>2, <2>4, GeoNumbers
    <2>5. CASE UNCHANGED <<reader, release>>
               /\ \E got \in {release, NotADatabase} : mmdb' = [mmdb EXCEPT ![Current] = got]
      BY <1>0, <2>1, <2>5, GeoNumbers
    <2>6. CASE UNCHANGED mmdb /\ reader' = [reader EXCEPT ![Current] = Reopened(Current)]
      BY <1>0, <2>1, <2>2, <2>6, GeoNumbers DEF Reopened
    <2>7. CASE UNCHANGED mmdb /\ reader' = [e \in DBs |-> NoHandle] /\ geo'.pc \in {"down", "closed"}
      BY <1>0, <2>1, <2>2, <2>7, GeoNumbers
    <2> QED
      BY <2>3, <2>4, <2>5, <2>6, <2>7, GeoSteps
  <1> QED
    BY <1>1, <1>3, <1>4 DEF GeoInv, FilesAreNewer

\* FilesWhole and UpdateKeepsServing: no torn database lies under its own name, and an open
\* one is only replaced by one at least as new (ensureFile, Update), for any list of
\* databases, number of releases and of updates.
THEOREM DatabasesStayWhole == GeoSpec => [](GeoTypeOK /\ FilesWhole) /\ UpdateKeepsServing
  <1>1. GeoInit => GeoInv
    BY GeoStart
  <1>2. GeoInv /\ [GeoNext]_geoVars => GeoInv'
    BY GeoInduction
  <1>3. GeoInv => GeoTypeOK /\ FilesWhole
    BY DEF GeoInv
  <1>4. GeoInv /\ [GeoNext]_geoVars =>
          [\A d \in DBs : reader[d] # NoHandle /\ geo'.pc \notin {"down", "closed"}
                               => reader'[d] >= reader[d]]_geoVars
    BY GeoInduction
  <1> QED
    BY <1>1, <1>2, <1>3, <1>4, PTL DEF GeoSpec, UpdateKeepsServing

-----------------------------------------------------------------------------
(***************************************************************************)
(* HealthMonitor.                                                          *)
(***************************************************************************)
\* The copy of the state that tick works with is the state, until Enter or Exit changed
\* it and has not yet told the operator.
CopyIsState ==
    /\ tick.pc \in {"clean", "ping", "disk", "decide", "leave"} => tick.state = monitor.state
    /\ tick.pc = "leave" => tick.state = "maintenance"
    /\ tick.pc = "notify" =>
          monitor.state = (IF tick.state = "maintenance" THEN "normal" ELSE "maintenance")

\* With both messages on, the last one tells the state, but for the one about to be sent.
LastTells ==
    mcfg.onEnter /\ mcfg.onExit =>
        /\ ~notices.repeated
        /\ tick.pc # "notify" => (notices.last = "enter" <=> monitor.state = "maintenance")
        /\ tick.pc = "notify" => (notices.last = "enter" <=> tick.state = "maintenance")

MonitorInv == MonitorTypeOK /\ CopyIsState /\ LastTells

LEMMA MonitorInduction == ASSUME MonitorInv, [MonitorNext]_monitorVars PROVE MonitorInv'
  <1> DEFINE States == {"starting", "normal", "maintenance"}
             Why == {"database_connection", "file_write", "none"}
             MT == [state : States, reason : Why, attempts : 0 .. AttemptCap]
             TT == [pc : {"idle", "clean", "ping", "disk", "decide", "leave", "notify"},
                    state : States, reason : Why, ok : BOOLEAN]
             NT == [last : {"none", "enter", "exit"}, repeated : BOOLEAN]
  <1>0. /\ Reasons \cup {"none"} = Why /\ mcfg \in MonitorConfigs
        /\ monitor \in MT /\ tick \in TT /\ world \in World /\ notices \in NT
        /\ CopyIsState /\ LastTells /\ AttemptCap \in Nat \ {0}
        /\ mcfg \in [selfHealing : BOOLEAN, maxAttempts : Nat, onEnter : BOOLEAN, onExit : BOOLEAN]
    BY MonitorAssumption DEF MonitorInv, MonitorTypeOK, Reasons
  <1>1. CASE TickBegin
    <2>1. monitor' \in MT /\ UNCHANGED mcfg
      BY <1>0, <1>1 DEF TickBegin, InMaintenance
    <2>2. tick' \in TT
      BY <1>0, <1>1 DEF TickBegin, InMaintenance
    <2>3. world' \in World /\ notices' \in NT
      BY <1>0, <1>1 DEF TickBegin, InMaintenance, World
    <2>4. CopyIsState'
      BY <1>0, <1>1 DEF TickBegin, InMaintenance, CopyIsState
    <2>5. LastTells'
      BY <1>0, <1>1 DEF TickBegin, InMaintenance, CopyIsState, LastTells
    <2> QED
      BY <1>0, <2>1, <2>2, <2>3, <2>4, <2>5 DEF MonitorInv, MonitorTypeOK
  <1>2. CASE MaintenanceCleanup
    <2>1. monitor' \in MT /\ UNCHANGED mcfg
      BY <1>0, <1>2 DEF MaintenanceCleanup
    <2>2. tick' \in TT
      BY <1>0, <1>2 DEF MaintenanceCleanup
    <2>3. world' \in World /\ notices' \in NT
      <3>1. [world EXCEPT !.disk = TRUE, !.junk = FALSE] \in World
        BY <1>0 DEF World
      <3>2. world' \in {world, [world EXCEPT !.disk = TRUE, !.junk = FALSE]} /\ notices' = notices
        BY <1>2 DEF MaintenanceCleanup
      <3> QED
        BY <1>0, <3>1, <3>2
    <2>4. CopyIsState'
      BY <1>0, <1>2 DEF MaintenanceCleanup, CopyIsState
    <2>5. LastTells'
      BY <1>0, <1>2 DEF MaintenanceCleanup, CopyIsState, LastTells
    <2> QED
      BY <1>0, <2>1, <2>2, <2>3, <2>4, <2>5 DEF MonitorInv, MonitorTypeOK
  <1>3. CASE CriticalPing
    <2>1. monitor' \in MT /\ UNCHANGED mcfg
      BY <1>0, <1>3 DEF CriticalPing
    <2>2. tick' \in TT
      BY <1>0, <1>3 DEF CriticalPing
    <2>3. world' \in World /\ notices' \in NT
      BY <1>0, <1>3 DEF CriticalPing, World
    <2>4. CopyIsState'
      BY <1>0, <1>3 DEF CriticalPing, CopyIsState
    <2>5. LastTells'
      BY <1>0, <1>3 DEF CriticalPing, CopyIsState, LastTells
    <2> QED
      BY <1>0, <2>1, <2>2, <2>3, <2>4, <2>5 DEF MonitorInv, MonitorTypeOK
  <1>4. CASE CriticalDisk
    <2>1. monitor' \in MT /\ UNCHANGED mcfg
      BY <1>0, <1>4 DEF CriticalDisk
    <2>2. tick' \in TT
      <3>1. \A b \in BOOLEAN, r \in Why : [tick EXCEPT !.pc = "decide", !.ok = b, !.reason = r] \in TT
        BY <1>0
      <3>2. world.disk \in BOOLEAN
        BY <1>0 DEF World
      <3>3. tick' = [tick EXCEPT !.pc = "decide", !.ok = world.disk,
                                 !.reason = IF world.disk THEN "none" ELSE "file_write"]
        BY <1>4 DEF CriticalDisk
      <3> QED
        BY <3>1, <3>2, <3>3
    <2>3. world' \in World /\ notices' \in NT
      BY <1>0, <1>4 DEF CriticalDisk, World
    <2>4. CopyIsState'
      BY <1>0, <1>4 DEF CriticalDisk, CopyIsState
    <2>5. LastTells'
      BY <1>0, <1>4 DEF CriticalDisk, CopyIsState, LastTells
    <2> QED
      BY <1>0, <2>1, <2>2, <2>3, <2>4, <2>5 DEF MonitorInv, MonitorTypeOK
  <1>5. CASE TickHeal
    <2>1. monitor' \in MT /\ UNCHANGED mcfg
      BY <1>0, <1>5 DEF TickHeal
    <2>2. tick' \in TT
      BY <1>0, <1>5 DEF TickHeal
    <2>3. world' \in World /\ notices' \in NT
      BY <1>0, <1>5 DEF TickHeal, World
    <2>4. CopyIsState'
      BY <1>0, <1>5 DEF TickHeal, CopyIsState
    <2>5. LastTells'
      BY <1>0, <1>5 DEF TickHeal, CopyIsState, LastTells
    <2> QED
      BY <1>0, <2>1, <2>2, <2>3, <2>4, <2>5 DEF MonitorInv, MonitorTypeOK
  <1>6. CASE MonitorExit
    <2>1. monitor' \in MT /\ UNCHANGED mcfg
      BY <1>0, <1>6 DEF MonitorExit
    <2>2. tick' \in TT
      BY <1>0, <1>6 DEF MonitorExit
    <2>3. world' \in World /\ notices' \in NT
      BY <1>0, <1>6 DEF MonitorExit, World
    <2>4. CopyIsState'
      BY <1>0, <1>6 DEF MonitorExit, CopyIsState
    <2>5. LastTells'
      BY <1>0, <1>6 DEF MonitorExit, CopyIsState, LastTells
    <2> QED
      BY <1>0, <2>1, <2>2, <2>3, <2>4, <2>5 DEF MonitorInv, MonitorTypeOK
  <1>7. CASE TickWatch
    <2>1. monitor' \in MT /\ UNCHANGED mcfg
      BY <1>0, <1>7 DEF TickWatch
    <2>2. tick' \in TT
      BY <1>0, <1>7 DEF TickWatch
    <2>3. world' \in World /\ notices' \in NT
      BY <1>0, <1>7 DEF TickWatch, World
    <2>4. CopyIsState'
      BY <1>0, <1>7 DEF TickWatch, CopyIsState
    <2>5. LastTells'
      BY <1>0, <1>7 DEF TickWatch, CopyIsState, LastTells
    <2> QED
      BY <1>0, <2>1, <2>2, <2>3, <2>4, <2>5 DEF MonitorInv, MonitorTypeOK
  <1>8. CASE MaintenanceNotify
    <2>1. monitor' \in MT /\ UNCHANGED mcfg
      BY <1>0, <1>8 DEF MaintenanceNotify
    <2>2. tick' \in TT
      BY <1>0, <1>8 DEF MaintenanceNotify
    <2>3. world' \in World /\ notices' \in NT
      BY <1>0, <1>8 DEF MaintenanceNotify, World
    <2>4. CopyIsState'
      BY <1>0, <1>8 DEF MaintenanceNotify, CopyIsState
    <2>5. LastTells'
      BY <1>0, <1>8 DEF MaintenanceNotify, CopyIsState, LastTells
    <2> QED
      BY <1>0, <2>1, <2>2, <2>3, <2>4, <2>5 DEF MonitorInv, MonitorTypeOK
  <1>9. CASE WorldChanges
    <2>1. monitor' \in MT /\ UNCHANGED mcfg
      BY <1>0, <1>9 DEF WorldChanges
    <2>2. tick' \in TT
      BY <1>0, <1>9 DEF WorldChanges
    <2>3. world' \in World /\ notices' \in NT
      BY <1>0, <1>9 DEF WorldChanges, World
    <2>4. CopyIsState'
      BY <1>0, <1>9 DEF WorldChanges, CopyIsState
    <2>5. LastTells'
      BY <1>0, <1>9 DEF WorldChanges, CopyIsState, LastTells
    <2> QED
      BY <1>0, <2>1, <2>2, <2>3, <2>4, <2>5 DEF MonitorInv, MonitorTypeOK
  <1>10. CASE UNCHANGED monitorVars
    <2>1. monitor' \in MT /\ UNCHANGED mcfg
      BY <1>0, <1>10 DEF monitorVars
    <2>2. tick' \in TT
      BY <1>0, <1>10 DEF monitorVars
    <2>3. world' \in World /\ notices' \in NT
      BY <1>0, <1>10 DEF monitorVars, World
    <2>4. CopyIsState'
      BY <1>0, <1>10 DEF monitorVars, CopyIsState
    <2>5. LastTells'
      BY <1>0, <1>10 DEF monitorVars, CopyIsState, LastTells
    <2> QED
      BY <1>0, <2>1, <2>2, <2>3, <2>4, <2>5 DEF MonitorInv, MonitorTypeOK
  <1> QED
    BY <1>1, <1>2, <1>3, <1>4, <1>5, <1>6, <1>7, <1>8, <1>9, <1>10 DEF MonitorNext, TickStep

\* NoticesAlternate: the operator hears of every entry into maintenance and of every exit
\* once (Enter, Exit, tick), whatever fails between two calls of a tick.
THEOREM NoticesAreExact == MonitorSpec => [](MonitorTypeOK /\ NoticesAlternate)
  <1>1. MonitorInit => MonitorInv
    <2> SUFFICES ASSUME MonitorInit PROVE MonitorInv
      OBVIOUS
    <2>1. 0 \in 0 .. AttemptCap
      BY MonitorAssumption
    <2>2. MonitorTypeOK
      BY <2>1 DEF MonitorInit, MonitorTypeOK, TickIdle, Reasons
    <2> QED
      BY <2>2 DEF MonitorInit, MonitorInv, CopyIsState, LastTells, TickIdle
  <1>2. MonitorInv /\ [MonitorNext]_monitorVars => MonitorInv'
    BY MonitorInduction
  <1>3. MonitorInv => MonitorTypeOK /\ NoticesAlternate
    BY DEF MonitorInv, LastTells, NoticesAlternate
  <1> QED
    BY <1>1, <1>2, <1>3, PTL DEF MonitorSpec

-----------------------------------------------------------------------------
(***************************************************************************)
(* Webhooks.                                                               *)
(***************************************************************************)
\* The dispatcher remembers the time of the last line about a host, and of no other.
LinesRemembered ==
    lastFail = lastLine /\ \A h \in Hosts : lastFail[h] # NoTime => lastFail[h] <= clock

HooksInv ==
    /\ WebhooksTypeOK /\ FailuresReported /\ QuietAfterShutdown /\ LinesRemembered
    /\ closing # "no" => cancelled
    /\ \A n \in Notices : delivery[n].pc = "sleep" => delivery[n].attempt < Backoffs

LEMMA HooksInduction == ASSUME HooksInv, [WebhooksNext]_hooksVars PROVE HooksInv'
  <1> DEFINE DT == [pc : {"new", "send", "sleep"} \cup Over, attempt : 0..Backoffs]
  <1>0. /\ WebhooksTypeOK /\ FailuresReported /\ QuietAfterShutdown /\ LinesRemembered
        /\ closing # "no" => cancelled
        /\ \A n \in Notices : delivery[n].pc = "sleep" => delivery[n].attempt < Backoffs
        /\ delivery \in [Notices -> DT] /\ lastFail \in [Hosts -> 0..NoTime] /\ lastLine \in [Hosts -> 0..NoTime]
        /\ clock \in Nat /\ clock <= HooksMaxTime /\ HooksMaxTime \in Nat /\ Backoffs \in Nat /\ LogWindow \in Nat
        /\ NoTime = HooksMaxTime + 1
    BY HooksAssumption DEF HooksInv, WebhooksTypeOK, NoTime
  <1>1. CASE UNCHANGED hooksVars
    BY <1>0, <1>1 DEF hooksVars, HooksInv, WebhooksTypeOK, FailuresReported, QuietAfterShutdown, LinesRemembered
  <1>2. CASE ShutdownBegins \/ ShutdownWaits \/ ClockTicks
    <2>1. WebhooksTypeOK'
      <3>1. clock' \in 0 .. HooksMaxTime
        BY <1>0, <1>2 DEF ShutdownBegins, ShutdownWaits, ClockTicks
      <3>2. closing' \in {"no", "waiting", "drained", "timedout"} /\ cancelled' \in BOOLEAN
        BY <1>0, <1>2 DEF WebhooksTypeOK, ShutdownBegins, ShutdownWaits, ClockTicks
      <3>3. UNCHANGED <<delivery, received, lastFail, lastLine, swallowed>>
        BY <1>2 DEF ShutdownBegins, ShutdownWaits, ClockTicks, logVars
      <3> QED
        BY <1>0, <3>1, <3>2, <3>3 DEF WebhooksTypeOK
    <2>2. FailuresReported' /\ QuietAfterShutdown' /\ UNCHANGED delivery
      BY <1>0, <1>2
      DEF FailuresReported, QuietAfterShutdown, ShutdownBegins, ShutdownWaits, ClockTicks, logVars
    <2>3. LinesRemembered' /\ (closing' # "no" => cancelled')
      BY <1>0, <1>2 DEF LinesRemembered, ShutdownBegins, ShutdownWaits, ClockTicks, logVars
    <2> QED
      BY <1>0, <2>1, <2>2, <2>3 DEF HooksInv
  <1>3. ASSUME NEW n \in Notices, Dispatch(n) \/ Deliver(n) PROVE HooksInv'
    <2>1. /\ UNCHANGED <<cancelled, closing, clock>>
          /\ UNCHANGED logVars \/ LogFailure(Host[n])
          /\ UNCHANGED received \/ (~cancelled /\ received' = received \cup {[n |-> n, late |-> closing = "drained"]})
      BY <1>3
      DEF Dispatch, Deliver, SendOK, SendFails, Sleep, Reaches, ReachesIgnoringCancel
    <2>2. delivery[n] \in DT
      BY <1>0
    <2>3. \E x \in DT : delivery' = [delivery EXCEPT ![n] = x] /\ (x.pc = "sleep" => x.attempt < Backoffs)
      <3>1. CASE Dispatch(n) \/ SendOK(n)
        <4>1. PICK p \in {"send", "delivered"} : delivery' = [delivery EXCEPT ![n] = [delivery[n] EXCEPT !.pc = p]]
          BY <3>1 DEF Dispatch, SendOK
        <4> DEFINE x == [delivery[n] EXCEPT !.pc = p]
        <4>2. x \in DT /\ x.pc # "sleep"
          BY <2>2, <4>1 DEF Over
        <4> QED
          BY <4>1, <4>2
      <3>2. CASE SendFails(n)
        <4> DEFINE x == [delivery[n] EXCEPT !.pc = IF delivery[n].attempt = Backoffs THEN "gaveup" ELSE "sleep"]
        <4>1. delivery' = [delivery EXCEPT ![n] = x]
          BY <3>2 DEF SendFails
        <4>2. x \in DT /\ (x.pc = "sleep" => x.attempt < Backoffs)
          BY <1>0, <2>2 DEF Over
        <4> QED
          BY <4>1, <4>2
      <3>3. CASE Sleep(n)
        <4> DEFINE x == IF cancelled THEN [delivery[n] EXCEPT !.pc = "dropped"]
                        ELSE [pc |-> "send", attempt |-> delivery[n].attempt + 1]
        <4>1. delivery' = [delivery EXCEPT ![n] = x]
          BY <3>3 DEF Sleep
        <4>2. delivery[n].attempt < Backoffs
          BY <1>0, <3>3 DEF Sleep
        <4>3. x \in DT /\ x.pc # "sleep"
          BY <1>0, <2>2, <4>2 DEF Over
        <4> QED
          BY <4>1, <4>3
      <3> QED
        BY <1>3, <3>1, <3>2, <3>3 DEF Deliver
    <2>4. delivery' \in [Notices -> DT] /\ \A k \in Notices : delivery'[k].pc = "sleep" => delivery'[k].attempt < Backoffs
      BY <1>0, <2>3
    <2>5. Host[n] \in Hosts
      BY DEF Hosts
    <2>6. /\ lastFail' \in [Hosts -> 0..NoTime] /\ lastLine' \in [Hosts -> 0..NoTime] /\ LinesRemembered'
      BY <1>0, <2>1, <2>5 DEF LogFailure, LinesRemembered, logVars
    <2>7. swallowed' \subseteq [host : Hosts, line : 0..NoTime, at : 0..HooksMaxTime] /\ FailuresReported'
      <3>1. CASE UNCHANGED logVars
        BY <1>0, <3>1 DEF WebhooksTypeOK, FailuresReported, logVars
      <3>2. CASE LogFailure(Host[n])
        <4> DEFINE x == [host |-> Host[n], line |-> lastLine[Host[n]], at |-> clock]
        <4>1. UNCHANGED swallowed \/ (swallowed' = swallowed \cup {x} /\ lastFail[Host[n]] # NoTime
                                                    /\ clock - lastFail[Host[n]] < LogWindow)
          BY <3>2 DEF LogFailure
        <4>2. x \in [host : Hosts, line : 0..NoTime, at : 0..HooksMaxTime] /\ x.line = lastFail[Host[n]] /\ x.at = clock
          BY <1>0, <2>5 DEF LinesRemembered
        <4> HIDE DEF x
        <4> QED
          BY <1>0, <4>1, <4>2 DEF WebhooksTypeOK, FailuresReported
      <3> QED
        BY <2>1, <3>1, <3>2
    <2>8. received' \subseteq [n : Notices, late : BOOLEAN] /\ QuietAfterShutdown'
      <3>1. ~cancelled => closing # "drained"
        BY <1>0
      <3> QED
        BY <1>0, <2>1, <3>1 DEF WebhooksTypeOK, QuietAfterShutdown
    <2>9. WebhooksTypeOK'
      BY <1>0, <2>1, <2>4, <2>6, <2>7, <2>8 DEF WebhooksTypeOK
    <2> QED
      BY <1>0, <2>1, <2>4, <2>6, <2>7, <2>8, <2>9 DEF HooksInv
  <1> QED
    BY <1>1, <1>2, <1>3 DEF WebhooksNext

\* FailuresReported and QuietAfterShutdown: a failure without a line has a recent one about
\* its host (logFailure), and a drained Shutdown is final, for any notices, hosts and windows.
THEOREM HooksAreQuiet == WebhooksSpec => [](WebhooksTypeOK /\ FailuresReported /\ QuietAfterShutdown)
  <1>1. WebhooksInit => HooksInv
    <2> SUFFICES ASSUME WebhooksInit PROVE HooksInv
      OBVIOUS
    <2>1. 0 \in 0 .. Backoffs /\ 0 \in 0 .. HooksMaxTime /\ NoTime \in 0 .. NoTime
      BY HooksAssumption DEF NoTime
    <2>2. WebhooksTypeOK
      BY <2>1 DEF WebhooksInit, WebhooksTypeOK
    <2> QED
      BY <2>2 DEF WebhooksInit, HooksInv, FailuresReported, QuietAfterShutdown, LinesRemembered
  <1>2. HooksInv /\ [WebhooksNext]_hooksVars => HooksInv'
    BY HooksInduction
  <1>3. HooksInv => WebhooksTypeOK /\ FailuresReported /\ QuietAfterShutdown
    BY DEF HooksInv
  <1> QED
    BY <1>1, <1>2, <1>3, PTL DEF WebhooksSpec

-----------------------------------------------------------------------------
(***************************************************************************)
(* ConfigStore.  WatcherKnowsFile is about a watcher at rest; the          *)
(* invariant says at every place of the start and of a reload which copy   *)
(* agrees with the file, or with what is about to be saved.                *)
(***************************************************************************)
\* ensureServerToken always finds a token that nobody holds.
NeverOutOfTokens ==
    \A a, b, c, d, e, f \in ConfTokens \cup {"none"} : ConfTokens \ {a, b, c, d, e, f} # {}

\* c is what a Load of d gives, as far as the watcher's promise goes.
Agrees(c, d) == c.theme = Validate(d).theme /\ c.token = d.token

Starting == srv.pc \in {"port", "smtp", "manage"}
SavingAtStart == srv.pc = "save" /\ srv.then \in {"port", "smtp", "manage"}
Sound == FileKnown /\ ~srv.unsaved

\* Where the server can be, and that it never runs with a value that is not allowed.
PlacesOK ==
    /\ srv.pc \in {"down", "load", "port", "smtp", "manage", "watch", "reload", "swap", "notify", "save"}
    /\ srv.pc = "save" => srv.then \in {"port", "smtp", "manage", "swap"}
    /\ srv.pc = "reload" => srv.unseen
    /\ srv.cfg.theme # "neon" /\ srv.next.theme # "neon"

\* The server starts without a file only when it could not save one.
AbsentIsUnsaved ==
    file.kind = "absent" /\ (Starting \/ (SavingAtStart /\ srv.then # "port")) => srv.unsaved

\* Until the watcher runs, what the server runs with agrees with the file or with what it
\* is about to save; at the swap the next configuration does, unless the file changed.
CfgAgrees ==
    /\ Sound /\ file.kind = "config" /\ (Starting \/ (srv.pc \in {"watch", "notify"} /\ ~srv.unseen))
          => Agrees(srv.cfg, file.c)
    /\ Sound /\ SavingAtStart => Agrees(srv.cfg, srv.buf)
    /\ ~srv.unsaved /\ file.kind = "config" /\ srv.pc = "swap" /\ ~srv.sinceStat => Agrees(srv.next, file.c)

ConfigInv == ConfigTypeOK /\ PlacesOK /\ AbsentIsUnsaved /\ CfgAgrees

LEMMA ConfTypes ==
  ASSUME ConfigTypeOK
  PROVE  /\ Defaults \in Conf /\ Down \in Process /\ Defaults.theme = "dark" /\ Defaults.token = "none"
         /\ srv \in Process /\ cli \in Process /\ srv.cfg \in Conf /\ srv.next \in Conf /\ srv.buf \in Conf
         /\ cli.cfg \in Conf /\ cli.buf \in Conf /\ file.c \in Conf
         /\ file.kind \in {"absent", "malformed", "config"}
  <1>1. Defaults \in Conf /\ Defaults.theme = "dark" /\ Defaults.token = "none"
    BY DEF Defaults, Conf
  <1>2. Down \in Process
    BY <1>1 DEF Down, Process
  <1>3. /\ srv \in Process /\ cli \in Process
    BY DEF ConfigTypeOK
  <1>4. srv.cfg \in Conf /\ srv.next \in Conf /\ srv.buf \in Conf /\ cli.cfg \in Conf /\ cli.buf \in Conf
    BY <1>3 DEF Process
  <1>5. file.c \in Conf /\ file.kind \in {"absent", "malformed", "config"}
    BY <1>1 DEF ConfigTypeOK, Absent, Malformed, FileOf
  <1> QED
    BY <1>1, <1>2, <1>3, <1>4, <1>5

\* What Load returns and saves: both agree, and without a save the result agrees with
\* the file.
LEMMA LoadIs ==
  ASSUME NeverOutOfTokens, ConfigTypeOK
  PROVE  /\ Load.cfg \in Conf /\ Load.buf \in Conf /\ Load.ok \in BOOLEAN /\ Load.saves \in BOOLEAN
         /\ Load.cfg.theme # "neon"
         /\ Load.saves => Agrees(Load.cfg, Load.buf)
         /\ ~Load.saves /\ file.kind = "config" => Agrees(Load.cfg, file.c)
         /\ file.kind = "absent" => Load.saves
  <1> DEFINE t == FreshToken
             c == Validate(LoadEnv(file.c))
             g == IF c.token = "none" THEN [c EXCEPT !.token = t] ELSE c
             env == LoadEnv(Defaults)
  <1>1. t \in ConfTokens \cup {"none"}
    <2>1. /\ file.c.token \in ConfTokens \cup {"none"} /\ srv.cfg.token \in ConfTokens \cup {"none"}
          /\ srv.next.token \in ConfTokens \cup {"none"} /\ srv.buf.token \in ConfTokens \cup {"none"}
          /\ cli.cfg.token \in ConfTokens \cup {"none"} /\ cli.buf.token \in ConfTokens \cup {"none"}
      BY ConfTypes DEF Conf
    <2> DEFINE t1 == file.c.token
               t2 == srv.cfg.token
               t3 == srv.next.token
               t4 == srv.buf.token
               t5 == cli.cfg.token
               t6 == cli.buf.token
    <2> HIDE DEF t1, t2, t3, t4, t5, t6
    <2>2. ASSUME \A u \in {t1, t2, t3, t4, t5, t6} : u \in ConfTokens \cup {"none"}
          PROVE  ConfTokens \ {t1, t2, t3, t4, t5, t6} # {}
      <3> USE DEF NeverOutOfTokens
      <3>1. \A b, c1, d, e, f \in ConfTokens \cup {"none"} : ConfTokens \ {t1, b, c1, d, e, f} # {}
        BY <2>2
      <3>2. \A c1, d, e, f \in ConfTokens \cup {"none"} : ConfTokens \ {t1, t2, c1, d, e, f} # {}
        BY <2>2, <3>1
      <3>3. \A d, e, f \in ConfTokens \cup {"none"} : ConfTokens \ {t1, t2, t3, d, e, f} # {}
        BY <2>2, <3>2
      <3>4. \A e, f \in ConfTokens \cup {"none"} : ConfTokens \ {t1, t2, t3, t4, e, f} # {}
        BY <2>2, <3>3
      <3> QED
        BY <2>2, <3>4
    <2>3. ConfTokens \ {file.c.token, srv.cfg.token, srv.next.token, srv.buf.token, cli.cfg.token,
                        cli.buf.token} # {}
      BY <2>1, <2>2 DEF t1, t2, t3, t4, t5, t6
    <2> QED
      BY <2>3 DEF FreshToken
  <1>2. \A d \in Conf : /\ LoadEnv(d) \in Conf /\ LoadEnv(d).theme = d.theme /\ LoadEnv(d).token = d.token
                        /\ Validate(d) \in Conf /\ Validate(d).token = d.token /\ Validate(d).theme # "neon"
                        /\ Validate(d).theme = IF d.theme = "neon" THEN "dark" ELSE d.theme
                        /\ \A u \in ConfTokens \cup {"none"} :
                              /\ [d EXCEPT !.token = u] \in Conf /\ [d EXCEPT !.token = u].theme = d.theme
                              /\ [d EXCEPT !.token = u].token = u
    BY ConfTypes DEF Conf, LoadEnv, Validate, ConfigTypeOK
  <1>3. /\ c \in Conf /\ c.theme = Validate(file.c).theme /\ c.token = file.c.token /\ c.theme # "neon"
        /\ env \in Conf /\ env.theme = "dark" /\ env.token = "none"
    BY <1>2, ConfTypes
  <1> HIDE DEF t, c, env
  <1>4. g \in Conf /\ g.theme = c.theme
    BY <1>1, <1>2, <1>3
  <1>5. CASE file.kind = "absent"
    <2>1. Load = [cfg |-> [env EXCEPT !.token = t], ok |-> TRUE, saves |-> TRUE, buf |-> [Defaults EXCEPT !.token = t]]
      BY <1>5 DEF Load, t, env
    <2>2. /\ Load.cfg = [env EXCEPT !.token = t] /\ Load.buf = [Defaults EXCEPT !.token = t]
          /\ Load.ok = TRUE /\ Load.saves = TRUE
      BY <2>1
    <2>3. /\ Load.cfg \in Conf /\ Load.buf \in Conf /\ Load.cfg.theme = "dark" /\ Load.buf.theme = "dark"
          /\ Load.cfg.token = t /\ Load.buf.token = t
      BY <1>1, <1>2, <1>3, <2>2, ConfTypes
    <2>4. Agrees(Load.cfg, Load.buf)
      BY <1>2, <2>3 DEF Agrees
    <2> QED
      BY <1>5, <2>2, <2>3, <2>4
  <1>6. CASE file.kind = "malformed"
    <2>1. Load = [cfg |-> env, ok |-> FALSE, saves |-> FALSE, buf |-> Defaults]
      BY <1>6 DEF Load, env
    <2>2. Load.cfg = env /\ Load.buf = Defaults /\ Load.ok = FALSE /\ Load.saves = FALSE
      BY <2>1
    <2> QED
      BY <1>3, <1>6, <2>2, ConfTypes
  <1>7. CASE file.kind = "config"
    <2>1. Load = [cfg |-> g, ok |-> TRUE, saves |-> g # c, buf |-> g]
      BY <1>7 DEF Load, t, c
    <2>2. Load.cfg = g /\ Load.buf = g /\ Load.ok = TRUE /\ Load.saves \in BOOLEAN /\ (Load.saves <=> g # c)
      BY <2>1
    <2> HIDE DEF g
    <2>3. Agrees(g, g) /\ (g = c => Agrees(g, file.c))
      BY <1>2, <1>3, <1>4 DEF Agrees
    <2> QED
      BY <1>3, <1>4, <1>7, <2>2, <2>3
  <1> QED
    BY <1>5, <1>6, <1>7, ConfTypes

\* What a new version of the file leaves the server with.
LEMMA NoticedIs ==
  ASSUME NEW s \in Process, NEW own \in BOOLEAN
  PROVE  /\ Noticed(s, own) \in Process
         /\ Noticed(s, own).pc = s.pc /\ Noticed(s, own).then = s.then /\ Noticed(s, own).cfg = s.cfg
         /\ Noticed(s, own).next = s.next /\ Noticed(s, own).buf = s.buf /\ Noticed(s, own).unsaved = s.unsaved
         /\ Noticed(s, own).unread = s.unread
         /\ Noticed(s, own).unseen = TRUE
         /\ Noticed(s, own).sinceStat = (s.pc \in {"reload", "save", "swap"})
         /\ s.missed => Noticed(s, own).missed
         /\ ~own /\ s.pc \in {"port", "smtp", "manage"} => Noticed(s, own).missed
         /\ ~own /\ s.pc = "save" /\ s.then # "swap" => Noticed(s, own).missed
         /\ own => Noticed(s, own).missed = s.missed
  <1> DEFINE x == Noticed(s, own)
  <1>1. /\ x.pc = s.pc /\ x.then = s.then /\ x.cfg = s.cfg /\ x.next = s.next /\ x.buf = s.buf
        /\ x.unsaved = s.unsaved /\ x.unread = s.unread /\ x.unseen = TRUE /\ x.sinceStat = (s.pc \in {"reload", "save", "swap"})
        /\ x.missed = (s.missed \/ (~own /\ s.pc \in {"port", "smtp", "manage", "save"}
                                         /\ (s.pc = "save" => s.then # "swap")))
    BY DEF Noticed, Process
  <1>2. x \in Process
    <2> DEFINE gone == s.missed \/ (~own /\ s.pc \in {"port", "smtp", "manage", "save"}
                                         /\ (s.pc = "save" => s.then # "swap"))
               late == s.pc \in {"reload", "save", "swap"}
    <2>1. \A b, d \in BOOLEAN : [s EXCEPT !.unseen = TRUE, !.sinceStat = b, !.missed = d] \in Process
      BY DEF Process
    <2>2. gone \in BOOLEAN /\ late \in BOOLEAN
      BY DEF Process
    <2>3. x = [s EXCEPT !.unseen = TRUE, !.sinceStat = late, !.missed = gone]
      BY DEF Noticed
    <2> HIDE DEF x, gone, late
    <2> QED
      BY <2>1, <2>2, <2>3
  <1>3. s.missed \in BOOLEAN
    BY DEF Process
  <1> HIDE DEF x
  <1>4. /\ s.missed => x.missed
        /\ ~own /\ s.pc \in {"port", "smtp", "manage"} => x.missed
        /\ ~own /\ s.pc = "save" /\ s.then # "swap" => x.missed
        /\ own => x.missed = s.missed
    BY <1>1, <1>3
  <1> QED
    BY <1>1, <1>2, <1>4 DEF x

\* The parts of the invariant that are about the server and the file.
LEMMA ConfigFrame ==
  ASSUME ConfigInv, UNCHANGED <<file, srv>>, ConfigTypeOK' PROVE ConfigInv'
  BY DEF ConfigInv, PlacesOK, AbsentIsUnsaved, CfgAgrees, Starting, SavingAtStart, Sound, FileKnown

\* The types, from those of what a step changes.
LEMMA ConfigTyped ==
  ASSUME ConfigInv, UNCHANGED <<envMode, flagPort>>, pending' \in SUBSET {"server.port"},
         file' \in {file, Malformed} \cup {FileOf(c) : c \in Conf}, srv' \in Process, cli' \in Process,
         edits' \in 0 .. MaxEdits, failures' \in 0 .. MaxFailures
  PROVE  ConfigTypeOK'
  BY DEF ConfigInv, ConfigTypeOK

LEMMA ConfigBounds ==
  ASSUME ConfigInv
  PROVE  /\ ConfigTypeOK /\ pending \in SUBSET {"server.port"}
         /\ edits \in 0 .. MaxEdits /\ failures \in 0 .. MaxFailures
         /\ edits < MaxEdits => edits + 1 \in 0 .. MaxEdits
         /\ Fails => failures' \in 0 .. MaxFailures
         /\ srv.missed \in BOOLEAN /\ srv.unsaved \in BOOLEAN /\ srv.unseen \in BOOLEAN /\ srv.sinceStat \in BOOLEAN
  <1>1. ConfigTypeOK /\ pending \in SUBSET {"server.port"} /\ edits \in 0 .. MaxEdits /\ failures \in 0 .. MaxFailures
    BY DEF ConfigInv, ConfigTypeOK
  <1>2. (edits < MaxEdits => edits + 1 \in 0 .. MaxEdits) /\ (Fails => failures' \in 0 .. MaxFailures)
    BY <1>1, ConfigAssumption DEF Fails
  <1>3. srv.missed \in BOOLEAN /\ srv.unsaved \in BOOLEAN /\ srv.unseen \in BOOLEAN /\ srv.sinceStat \in BOOLEAN
    BY <1>1, ConfTypes DEF Process
  <1> QED
    BY <1>1, <1>2, <1>3

LEMMA ConfigCliMoves ==
  ASSUME NeverOutOfTokens, ConfigInv, CliLoad \/ CliCommand \/ CliSetMode PROVE ConfigInv'
  <1>0. ConfigTypeOK
    BY ConfigBounds
  <1>1. UNCHANGED <<file, srv, envMode, flagPort, pending, failures>> /\ edits' \in 0 .. MaxEdits
    BY ConfigBounds DEF CliLoad, CliCommand, CliSetMode
  <1>2. cli' \in Process
    <2>1. CASE CliLoad
      <3>1. PICK command \in {"down", "command"} :
              cli' = [Down EXCEPT !.cfg = Load.cfg, !.buf = Load.buf, !.then = command,
                                  !.pc = IF Load.saves THEN "save" ELSE command]
        BY <2>1 DEF CliLoad
      <3>2. \A p \in {"save", "down", "command"}, c, d \in Conf :
              [Down EXCEPT !.cfg = c, !.buf = d, !.then = command, !.pc = p] \in Process
        BY <1>0, <3>1, ConfTypes DEF Process
      <3>3. Load.cfg \in Conf /\ Load.buf \in Conf
        BY <1>0, LoadIs
      <3> QED
        BY <3>1, <3>2, <3>3
    <2>2. CASE CliCommand
      BY <1>0, <2>2, ConfTypes DEF CliCommand, Process
    <2>3. CASE CliSetMode
      <3>1. [file.c EXCEPT !.mode = "dev"] \in Conf
        BY <1>0, ConfTypes DEF Conf
      <3>2. \A d \in Conf : [Down EXCEPT !.buf = d, !.pc = "save"] \in Process
        BY <1>0, ConfTypes DEF Process
      <3> QED
        BY <2>3, <3>1, <3>2 DEF CliSetMode
    <2> QED
      BY <2>1, <2>2, <2>3
  <1>3. ConfigTypeOK'
    BY <1>0, <1>1, <1>2, ConfigTyped, ConfigBounds, ConfTypes
  <1> QED
    BY <1>1, <1>3, ConfigFrame

\* Another party writes the file: the server has not seen it, or is told so.
LEMMA ConfigForeign ==
  ASSUME ConfigInv, srv' = Noticed(srv, FALSE), file' \in {Malformed} \cup {FileOf(c) : c \in Conf}, ConfigTypeOK'
  PROVE  ConfigInv'
  <1>0. /\ srv \in Process /\ PlacesOK /\ AbsentIsUnsaved /\ CfgAgrees
        /\ srv.missed \in BOOLEAN /\ srv.unsaved \in BOOLEAN /\ srv.unseen \in BOOLEAN /\ srv.sinceStat \in BOOLEAN
    BY ConfigBounds, ConfTypes DEF ConfigInv
  <1>1. file'.kind # "absent"
    BY DEF Malformed, FileOf
  <1>2. /\ srv'.pc = srv.pc /\ srv'.then = srv.then /\ srv'.cfg = srv.cfg /\ srv'.next = srv.next
        /\ srv'.unseen = TRUE /\ srv'.sinceStat = (srv.pc \in {"reload", "save", "swap"})
        /\ srv.pc \in {"port", "smtp", "manage"} => srv'.missed
        /\ srv.pc = "save" /\ srv.then # "swap" => srv'.missed
    BY <1>0, NoticedIs
  <1>3. PlacesOK' /\ AbsentIsUnsaved'
    BY <1>0, <1>1, <1>2 DEF PlacesOK, AbsentIsUnsaved
  <1>4. CfgAgrees'
    BY <1>0, <1>2 DEF CfgAgrees, Starting, SavingAtStart, Sound, FileKnown
  <1> QED
    BY <1>3, <1>4 DEF ConfigInv

LEMMA ConfigForeignMoves == ASSUME ConfigInv, CliSave \/ OperatorEdits PROVE ConfigInv'
  <1>0. ConfigTypeOK /\ srv \in Process /\ cli \in Process /\ cli.buf \in Conf /\ file.c \in Conf
    BY ConfigBounds, ConfTypes
  <1>1. Noticed(srv, FALSE) \in Process
    BY <1>0, NoticedIs
  <1>2. CASE CliSave
    <2>1. cli' \in Process
      <3>1. \A p \in {"down", "port", "smtp", "manage", "swap", "command"} : [cli EXCEPT !.pc = p] \in Process
        BY <1>0 DEF Process
      <3>2. cli.then \in {"down", "port", "smtp", "manage", "swap", "command"}
        BY <1>0 DEF Process
      <3> QED
        BY <1>0, <1>2, <3>1, <3>2, ConfTypes DEF CliSave
    <2>2. CASE file' = FileOf(cli.buf) /\ srv' = Noticed(srv, FALSE) /\ UNCHANGED failures
      <3>1. ConfigTypeOK'
        BY <1>0, <1>1, <1>2, <2>1, <2>2, ConfigTyped, ConfigBounds DEF CliSave
      <3> QED
        BY <1>0, <2>2, <3>1, ConfigForeign
    <2>3. CASE Fails /\ UNCHANGED <<file, srv>>
      <3>1. ConfigTypeOK'
        BY <1>0, <1>2, <2>1, <2>3, ConfigTyped, ConfigBounds DEF CliSave
      <3> QED
        BY <2>3, <3>1, ConfigFrame
    <2> QED
      BY <1>2, <2>2, <2>3 DEF CliSave
  <1>3. CASE OperatorEdits
    <2>1. file' \in {Malformed} \cup {FileOf(c) : c \in Conf}
      <3>1. [port : {"p1", "p2"}, mode : {"prod"}, theme : {"light", "neon"}, token : {file.c.token},
             dir : {"unset"}] \subseteq Conf
        BY <1>0 DEF Conf
      <3> QED
        BY <1>3, <3>1 DEF OperatorEdits
    <2>2. srv' = Noticed(srv, FALSE) /\ UNCHANGED <<envMode, flagPort, cli, pending, failures>>
          /\ edits' \in 0 .. MaxEdits
      BY <1>3, ConfigBounds DEF OperatorEdits
    <2>3. ConfigTypeOK'
      BY <1>0, <1>1, <2>1, <2>2, ConfigTyped, ConfigBounds
    <2> QED
      BY <2>1, <2>2, <2>3, ConfigForeign
  <1> QED
    BY <1>2, <1>3

\* The server starts and stops.
LEMMA ConfigStartStop == ASSUME ConfigInv, SrvStart \/ SrvStop PROVE ConfigInv'
  <1>0. ConfigTypeOK /\ Down \in Process /\ Defaults.theme # "neon" /\ cli \in Process
    BY ConfigBounds, ConfTypes
  <1>1. UNCHANGED <<file, envMode, flagPort, cli, edits, failures>> /\ pending' \in SUBSET {"server.port"}
    BY ConfigBounds DEF SrvStart, SrvStop
  <1>2. /\ srv' \in Process /\ srv'.pc \in {"load", "down"}
        /\ srv'.cfg = Defaults /\ srv'.next = Defaults
    <2>1. Down.pc = "down" /\ Down.cfg = Defaults /\ Down.next = Defaults
      BY DEF Down
    <2>2. LET s == [Down EXCEPT !.pc = "load"] IN
          s \in Process /\ s.pc = "load" /\ s.cfg = Down.cfg /\ s.next = Down.next
      BY <1>0 DEF Process
    <2> QED
      BY <1>0, <2>1, <2>2 DEF SrvStart, SrvStop
  <1>3. ConfigTypeOK'
    BY <1>0, <1>1, <1>2, ConfigTyped, ConfigBounds
  <1>4. PlacesOK' /\ AbsentIsUnsaved' /\ CfgAgrees'
    BY <1>0, <1>2 DEF PlacesOK, AbsentIsUnsaved, CfgAgrees, Starting, SavingAtStart
  <1> QED
    BY <1>3, <1>4 DEF ConfigInv

LEMMA ConfigLoad == ASSUME NeverOutOfTokens, ConfigInv, SrvLoad PROVE ConfigInv'
  <1>0. ConfigTypeOK /\ srv \in Process /\ cli \in Process /\ Defaults \in Conf /\ PlacesOK
    BY ConfigBounds, ConfTypes DEF ConfigInv
  <1>1. UNCHANGED <<file, envMode, flagPort, cli, pending, edits>> /\ failures' \in 0 .. MaxFailures
    BY ConfigBounds DEF SrvLoad
  <1> DEFINE l == Load
  <1>2. /\ l.cfg \in Conf /\ l.buf \in Conf /\ l.saves \in BOOLEAN /\ l.cfg.theme # "neon"
        /\ l.saves => Agrees(l.cfg, l.buf)
        /\ ~l.saves /\ file.kind = "config" => Agrees(l.cfg, file.c)
        /\ file.kind = "absent" => l.saves
    BY <1>0, LoadIs
  <1>3. CASE /\ file.kind # "absent"
             /\ srv' = [srv EXCEPT !.cfg = LoadEnv(Defaults), !.unread = TRUE, !.pc = "port"]
    <2>1. LoadEnv(Defaults) \in Conf /\ LoadEnv(Defaults).theme = "dark"
      BY <1>0, ConfTypes DEF LoadEnv, Conf, ConfigTypeOK
    <2>2. /\ srv' \in Process /\ srv'.cfg = LoadEnv(Defaults) /\ srv'.next = srv.next
          /\ srv'.unread = TRUE /\ srv'.pc = "port"
      BY <1>0, <1>3, <2>1 DEF Process
    <2>3. ConfigTypeOK'
      BY <1>0, <1>1, <2>2, ConfigTyped, ConfigBounds
    <2>4. PlacesOK' /\ AbsentIsUnsaved' /\ CfgAgrees'
      BY <1>0, <1>1, <1>3, <2>1, <2>2
         DEF PlacesOK, AbsentIsUnsaved, CfgAgrees, Starting, SavingAtStart, Sound, FileKnown
    <2> QED
      BY <2>3, <2>4 DEF ConfigInv
  <1> HIDE DEF l
  <1>4. CASE srv' = [srv EXCEPT !.cfg = l.cfg, !.buf = IF l.saves THEN l.buf ELSE Defaults,
                                !.then = IF l.saves THEN "port" ELSE "down",
                                !.pc = IF l.saves THEN "save" ELSE "port"]
    <2>1. /\ srv' \in Process /\ srv'.cfg = l.cfg /\ srv'.next = srv.next
          /\ l.saves => srv'.buf = l.buf /\ srv'.then = "port" /\ srv'.pc = "save"
          /\ ~l.saves => srv'.pc = "port"
      <3>1. CASE l.saves
        <4>1. srv' = [srv EXCEPT !.cfg = l.cfg, !.buf = l.buf, !.then = "port", !.pc = "save"]
          BY <1>4, <3>1
        <4> QED
          BY <1>0, <1>2, <3>1, <4>1 DEF Process
      <3>2. CASE ~l.saves
        <4>1. srv' = [srv EXCEPT !.cfg = l.cfg, !.buf = Defaults, !.then = "down", !.pc = "port"]
          BY <1>4, <3>2
        <4> QED
          BY <1>0, <1>2, <3>2, <4>1 DEF Process
      <3> QED
        BY <3>1, <3>2
    <2>2. ConfigTypeOK'
      BY <1>0, <1>1, <2>1, ConfigTyped, ConfigBounds
    <2>3. PlacesOK' /\ AbsentIsUnsaved'
      BY <1>0, <1>1, <1>2, <2>1 DEF PlacesOK, AbsentIsUnsaved, Starting, SavingAtStart
    <2>4. CfgAgrees'
      BY <1>1, <1>2, <2>1 DEF CfgAgrees, Starting, SavingAtStart, Agrees, Validate
    <2> QED
      BY <2>2, <2>3, <2>4 DEF ConfigInv
  <1> QED
    BY <1>3, <1>4 DEF SrvLoad, l

\* A save of its own: before the watcher runs the file is what the server runs with.
LEMMA ConfigSave == ASSUME ConfigInv, SrvSave PROVE ConfigInv'
  <1>0. /\ ConfigTypeOK /\ srv \in Process /\ cli \in Process /\ Defaults \in Conf /\ srv.buf \in Conf
        /\ PlacesOK /\ AbsentIsUnsaved /\ CfgAgrees
    BY ConfigBounds, ConfTypes DEF ConfigInv
  <1>1. UNCHANGED <<envMode, flagPort, cli, pending, edits>> /\ srv.pc = "save"
        /\ srv.then \in {"port", "smtp", "manage", "swap"}
    BY <1>0 DEF SrvSave, PlacesOK
  <1>2. CASE /\ file' = FileOf(srv.buf)
             /\ srv' = [Noticed(srv, TRUE) EXCEPT !.buf = Defaults, !.pc = srv.then, !.then = "down"]
             /\ UNCHANGED failures
    <2> DEFINE n == Noticed(srv, TRUE)
    <2>1. /\ n \in Process /\ n.cfg = srv.cfg /\ n.next = srv.next /\ n.unsaved = srv.unsaved
          /\ n.sinceStat = (srv.pc \in {"reload", "save", "swap"}) /\ n.missed = srv.missed /\ n.unread = srv.unread
      <3>1. TRUE \in BOOLEAN
        OBVIOUS
      <3> QED
        BY <1>0, <3>1, NoticedIs
    <2>2. srv' = [n EXCEPT !.buf = Defaults, !.pc = srv.then, !.then = "down"]
      BY <1>2
    <2> HIDE DEF n
    <2>3. /\ srv' \in Process /\ srv'.cfg = srv.cfg /\ srv'.next = srv.next /\ srv'.unsaved = srv.unsaved
          /\ srv'.sinceStat = n.sinceStat /\ srv'.missed = srv.missed /\ srv'.unread = srv.unread /\ srv'.pc = srv.then
      BY <1>0, <1>1, <2>1, <2>2 DEF Process
    <2>4. ConfigTypeOK'
      BY <1>0, <1>1, <1>2, <2>3, ConfigTyped, ConfigBounds
    <2>5. file'.kind = "config" /\ file'.c = srv.buf
      BY <1>2 DEF FileOf
    <2>6. PlacesOK' /\ AbsentIsUnsaved'
      BY <1>0, <1>1, <2>3, <2>5 DEF PlacesOK, AbsentIsUnsaved
    <2>7. CfgAgrees'
      BY <1>0, <1>1, <2>1, <2>3, <2>5 DEF CfgAgrees, Starting, SavingAtStart, Sound, FileKnown, Agrees, Validate
    <2> QED
      BY <2>4, <2>6, <2>7 DEF ConfigInv
  <1>3. CASE /\ Fails
             /\ srv' = [srv EXCEPT !.buf = Defaults, !.pc = srv.then, !.then = "down", !.unsaved = TRUE]
             /\ UNCHANGED file
    <2>1. /\ srv' \in Process /\ srv'.cfg = srv.cfg /\ srv'.next = srv.next /\ srv'.unsaved = TRUE
          /\ srv'.pc = srv.then
      BY <1>0, <1>1, <1>3 DEF Process
    <2>2. ConfigTypeOK'
      BY <1>0, <1>1, <1>3, <2>1, ConfigTyped, ConfigBounds
    <2>3. PlacesOK' /\ AbsentIsUnsaved' /\ CfgAgrees'
      BY <1>0, <1>1, <2>1 DEF PlacesOK, AbsentIsUnsaved, CfgAgrees, Sound, FileKnown, SavingAtStart
    <2> QED
      BY <2>2, <2>3 DEF ConfigInv
  <1> QED
    BY <1>2, <1>3 DEF SrvSave

LEMMA ConfigPort == ASSUME ConfigInv, SrvResolvePort PROVE ConfigInv'
  <1>0. /\ ConfigTypeOK /\ srv \in Process /\ cli \in Process /\ Defaults \in Conf /\ srv.cfg \in Conf
        /\ file.c \in Conf /\ file.kind \in {"absent", "malformed", "config"}
        /\ PlacesOK /\ AbsentIsUnsaved /\ CfgAgrees
    BY ConfigBounds, ConfTypes DEF ConfigInv
  <1>1. /\ UNCHANGED <<file, envMode, flagPort, cli, pending, edits>> /\ failures' \in 0 .. MaxFailures
        /\ srv.pc = "port"
    BY ConfigBounds DEF SrvResolvePort, SrvPortKnown, SrvPersistPort
  <1> DEFINE c == Flagged
             base == IF file.kind = "config" THEN file.c ELSE Defaults
             d1 == [Defaults EXCEPT !.port = "p1"]
             c1 == [c EXCEPT !.port = "p1"]
             b1 == [base EXCEPT !.port = "p1"]
  <1>2. /\ c \in Conf /\ c.theme = srv.cfg.theme /\ c.token = srv.cfg.token
        /\ c1 \in Conf /\ c1.theme = srv.cfg.theme /\ c1.token = srv.cfg.token
    BY <1>0 DEF Conf, ConfigTypeOK, Flagged
  <1>3. /\ b1 \in Conf /\ d1 \in Conf
        /\ file.kind = "config" => b1.theme = file.c.theme /\ b1.token = file.c.token
    BY <1>0 DEF Conf
  <1>4. \/ srv' = [srv EXCEPT !.cfg = c, !.pc = "smtp"]
        \/ srv' = [srv EXCEPT !.cfg = c1, !.pc = "smtp"]
        \/ /\ file.kind # "malformed"
           /\ srv' = [srv EXCEPT !.cfg = c1, !.buf = b1, !.then = "smtp", !.pc = "save"]
        \/ /\ file.kind # "absent"
           /\ srv' = [srv EXCEPT !.cfg = c1, !.buf = d1, !.then = "smtp", !.pc = "save", !.unread = TRUE]
    <2>1. CASE SrvPortKnown
      BY <2>1 DEF SrvPortKnown
    <2>2. CASE SrvPersistPort
      <3> DEFINE g == [srv EXCEPT !.cfg = c1]
                 Saves(x) == [g EXCEPT !.buf = x, !.then = "smtp", !.pc = "save"]
      <3>1. /\ [g EXCEPT !.pc = "smtp"] = [srv EXCEPT !.cfg = c1, !.pc = "smtp"]
            /\ \A x : /\ Saves(x) = [srv EXCEPT !.cfg = c1, !.buf = x, !.then = "smtp", !.pc = "save"]
                      /\ [Saves(x) EXCEPT !.unread = TRUE]
                            = [srv EXCEPT !.cfg = c1, !.buf = x, !.then = "smtp", !.pc = "save", !.unread = TRUE]
        BY <1>0 DEF Process
      <3>2. \/ srv' = (CASE file.kind = "malformed" -> [g EXCEPT !.pc = "smtp"]
                         [] file.kind = "config"    -> Saves([file.c EXCEPT !.port = "p1"])
                         [] file.kind = "absent"    -> Saves(d1))
            \/ file.kind # "absent" /\ srv' = [Saves(d1) EXCEPT !.unread = TRUE]
        BY <2>2 DEF SrvPersistPort
      <3> HIDE DEF Saves, g, c1, d1
      <3>3. CASE file.kind # "absent" /\ srv' = [Saves(d1) EXCEPT !.unread = TRUE]
        BY <3>1, <3>3
      <3>4. CASE srv' = (CASE file.kind = "malformed" -> [g EXCEPT !.pc = "smtp"]
                           [] file.kind = "config"    -> Saves([file.c EXCEPT !.port = "p1"])
                           [] file.kind = "absent"    -> Saves(d1))
        <4>1. CASE file.kind = "malformed"
          BY <3>1, <3>4, <4>1
        <4>2. CASE file.kind = "config"
          BY <3>1, <3>4, <4>2
        <4>3. CASE file.kind = "absent"
          <5>1. b1 = d1
            BY <4>3 DEF d1
          <5> QED
            BY <3>1, <3>4, <4>3, <5>1
        <4> QED
          BY <1>0, <4>1, <4>2, <4>3
      <3> QED
        BY <3>2, <3>3, <3>4
    <2> QED
      BY <2>1, <2>2 DEF SrvResolvePort
  <1> HIDE DEF c, c1, b1, d1
  <1>5. /\ srv' \in Process /\ srv'.next = srv.next /\ srv'.missed = srv.missed /\ srv'.unsaved = srv.unsaved
        /\ srv'.cfg.theme = srv.cfg.theme /\ srv'.cfg.token = srv.cfg.token
        /\ srv.unread => srv'.unread
        /\ \/ srv'.pc = "smtp"
           \/ srv'.pc = "save" /\ srv'.then = "smtp" /\ srv'.buf = b1 /\ file.kind # "malformed"
           \/ srv'.pc = "save" /\ srv'.then = "smtp" /\ srv'.unread /\ file.kind # "absent"
    <2>1. CASE srv' = [srv EXCEPT !.cfg = c, !.pc = "smtp"]
      BY <1>0, <1>2, <2>1 DEF Process
    <2>2. CASE srv' = [srv EXCEPT !.cfg = c1, !.pc = "smtp"]
      BY <1>0, <1>2, <2>2 DEF Process
    <2>3. CASE /\ file.kind # "malformed"
               /\ srv' = [srv EXCEPT !.cfg = c1, !.buf = b1, !.then = "smtp", !.pc = "save"]
      BY <1>0, <1>2, <1>3, <2>3 DEF Process
    <2>4. CASE /\ file.kind # "absent"
               /\ srv' = [srv EXCEPT !.cfg = c1, !.buf = d1, !.then = "smtp", !.pc = "save", !.unread = TRUE]
      BY <1>0, <1>2, <1>3, <2>4 DEF Process
    <2> QED
      BY <1>4, <2>1, <2>2, <2>3, <2>4
  <1>6. ConfigTypeOK'
    BY <1>0, <1>1, <1>5, ConfigTyped, ConfigBounds
  <1>7. PlacesOK' /\ AbsentIsUnsaved'
    BY <1>0, <1>1, <1>5 DEF PlacesOK, AbsentIsUnsaved, Starting, SavingAtStart
  <1>8. Sound' => Sound /\ file.kind # "absent"
    BY <1>0, <1>1, <1>5 DEF Sound, FileKnown, AbsentIsUnsaved, Starting
  <1>9. Sound /\ file.kind = "config" =>
          /\ srv'.cfg.token = file.c.token /\ srv'.cfg.theme = IF file.c.theme = "neon" THEN "dark" ELSE file.c.theme
    <2>1. Validate(file.c).theme = IF file.c.theme = "neon" THEN "dark" ELSE file.c.theme
      BY <1>0 DEF Validate, Conf, Defaults
    <2> QED
      BY <1>0, <1>1, <1>5, <2>1 DEF CfgAgrees, Starting, Agrees
  <1>10. /\ Validate(file.c).theme = IF file.c.theme = "neon" THEN "dark" ELSE file.c.theme
         /\ Validate(b1).theme = IF b1.theme = "neon" THEN "dark" ELSE b1.theme
    BY <1>0, <1>3 DEF Validate, Conf, Defaults
  <1>11. CfgAgrees'
    <2>1. Sound' /\ file.kind = "config" => Agrees(srv'.cfg, file.c)
      BY <1>8, <1>9, <1>10 DEF Agrees
    <2>2. Sound' /\ srv'.pc = "save" => Agrees(srv'.cfg, srv'.buf)
      BY <1>0, <1>3, <1>5, <1>8, <1>9, <1>10 DEF Agrees, Sound, FileKnown
    <2> QED
      BY <1>1, <1>5, <2>1, <2>2 DEF CfgAgrees, Starting, SavingAtStart, Agrees, Validate
  <1> QED
    BY <1>6, <1>7, <1>11 DEF ConfigInv

\* What follows the port, up to the watcher, and the two steps of a reload that read
\* no file.
LEMMA ConfigMoves ==
  ASSUME ConfigInv, SrvSmtp \/ SrvManage \/ SrvStat \/ SrvSwap \/ OnConfigChange PROVE ConfigInv'
  <1>0. /\ ConfigTypeOK /\ srv \in Process /\ cli \in Process /\ Defaults \in Conf /\ Defaults.theme # "neon"
        /\ srv.cfg \in Conf /\ srv.next \in Conf /\ PlacesOK /\ AbsentIsUnsaved /\ CfgAgrees
        /\ srv.unseen \in BOOLEAN /\ srv.sinceStat \in BOOLEAN
    BY ConfigBounds, ConfTypes DEF ConfigInv
  <1>1. UNCHANGED <<file, envMode, flagPort, cli, edits, failures>> /\ pending' \in SUBSET {"server.port"}
    BY ConfigBounds DEF SrvSmtp, SrvManage, SrvStat, SrvSwap, OnConfigChange
  <1>2. CASE SrvSmtp
    <2>1. /\ srv' \in Process /\ srv'.cfg = srv.cfg /\ srv'.next = srv.next
          /\ srv'.missed = srv.missed /\ srv'.unread = srv.unread /\ srv'.unsaved = srv.unsaved
          /\ srv'.pc = "manage" \/ (srv'.pc = "save" /\ srv'.then = "manage" /\ srv'.buf = srv.cfg)
      <3>1. \/ srv' = [srv EXCEPT !.buf = srv.cfg, !.then = "manage", !.pc = "save"]
            \/ srv' = [srv EXCEPT !.pc = "manage"]
        BY <1>2 DEF SrvSmtp
      <3>2. CASE srv' = [srv EXCEPT !.buf = srv.cfg, !.then = "manage", !.pc = "save"]
        BY <1>0, <3>2 DEF Process
      <3>3. CASE srv' = [srv EXCEPT !.pc = "manage"]
        BY <1>0, <3>3 DEF Process
      <3> QED
        BY <3>1, <3>2, <3>3
    <2>2. Agrees(srv.cfg, srv.cfg)
      BY <1>0 DEF Agrees, Validate, PlacesOK
    <2>3. ConfigTypeOK'
      BY <1>0, <1>1, <2>1, ConfigTyped, ConfigBounds
    <2>4. PlacesOK' /\ AbsentIsUnsaved' /\ CfgAgrees'
      BY <1>0, <1>1, <1>2, <2>1, <2>2
         DEF PlacesOK, AbsentIsUnsaved, CfgAgrees, Starting, SavingAtStart, Sound, FileKnown, SrvSmtp
    <2> QED
      BY <2>3, <2>4 DEF ConfigInv
  <1>3. CASE SrvManage
    <2>1. LET d == [srv.cfg EXCEPT !.dir = "data"] IN
          /\ d \in Conf /\ d.theme = srv.cfg.theme /\ d.token = srv.cfg.token
          /\ srv' = [srv EXCEPT !.unseen = FALSE, !.sinceStat = FALSE, !.cfg = d, !.pc = "watch"]
      BY <1>0, <1>3 DEF SrvManage, Conf, Process
    <2>2. /\ srv' \in Process /\ srv'.next = srv.next /\ srv'.pc = "watch"
          /\ srv'.missed = srv.missed /\ srv'.unread = srv.unread /\ srv'.unsaved = srv.unsaved
          /\ srv'.cfg.theme = srv.cfg.theme /\ srv'.cfg.token = srv.cfg.token
      BY <1>0, <2>1 DEF Process
    <2>3. ConfigTypeOK'
      BY <1>0, <1>1, <2>2, ConfigTyped, ConfigBounds
    <2>4. PlacesOK' /\ AbsentIsUnsaved' /\ CfgAgrees'
      BY <1>0, <1>1, <1>3, <2>2
         DEF PlacesOK, AbsentIsUnsaved, CfgAgrees, Starting, SavingAtStart, Sound, FileKnown, SrvManage, Agrees, Validate
    <2> QED
      BY <2>3, <2>4 DEF ConfigInv
  <1>4. CASE SrvStat
    <2>1. srv' \in Process /\ srv'.cfg = srv.cfg /\ srv'.next = srv.next /\ srv'.pc = "reload"
          /\ srv'.unseen = srv.unseen
      BY <1>0, <1>4 DEF SrvStat, Process
    <2>2. ConfigTypeOK'
      BY <1>0, <1>1, <2>1, ConfigTyped, ConfigBounds
    <2>3. PlacesOK' /\ AbsentIsUnsaved' /\ CfgAgrees'
      BY <1>0, <1>4, <2>1
         DEF PlacesOK, AbsentIsUnsaved, CfgAgrees, Starting, SavingAtStart, Sound, FileKnown, SrvStat
    <2> QED
      BY <2>2, <2>3 DEF ConfigInv
  <1>5. CASE SrvSwap
    <2>1. /\ srv' \in Process /\ srv'.cfg = srv.next /\ srv'.next = srv.next /\ srv'.pc = "notify"
          /\ srv'.unseen = srv.sinceStat /\ srv'.unsaved = srv.unsaved
      BY <1>0, <1>5 DEF SrvSwap, Process
    <2>2. ConfigTypeOK'
      BY <1>0, <1>1, <2>1, ConfigTyped, ConfigBounds
    <2>3. PlacesOK' /\ AbsentIsUnsaved' /\ CfgAgrees'
      BY <1>0, <1>1, <1>5, <2>1
         DEF PlacesOK, AbsentIsUnsaved, CfgAgrees, Starting, SavingAtStart, Sound, FileKnown, SrvSwap
    <2> QED
      BY <2>2, <2>3 DEF ConfigInv
  <1>6. CASE OnConfigChange
    <2>1. /\ srv' \in Process /\ srv'.cfg = srv.cfg /\ srv'.next = Defaults /\ srv'.pc = "watch"
          /\ srv'.unseen = srv.unseen /\ srv'.missed = srv.missed /\ srv'.unread = srv.unread /\ srv'.unsaved = srv.unsaved
      BY <1>0, <1>6 DEF OnConfigChange, Process
    <2>2. ConfigTypeOK'
      BY <1>0, <1>1, <2>1, ConfigTyped, ConfigBounds
    <2>3. PlacesOK' /\ AbsentIsUnsaved' /\ CfgAgrees'
      BY <1>0, <1>1, <1>6, <2>1
         DEF PlacesOK, AbsentIsUnsaved, CfgAgrees, Starting, SavingAtStart, Sound, FileKnown, OnConfigChange
    <2> QED
      BY <2>2, <2>3 DEF ConfigInv
  <1> QED
    BY <1>2, <1>3, <1>4, <1>5, <1>6

LEMMA ConfigReload == ASSUME NeverOutOfTokens, ConfigInv, SrvReload PROVE ConfigInv'
  <1>0. ConfigTypeOK /\ srv \in Process /\ cli \in Process /\ Defaults \in Conf /\ PlacesOK
    BY ConfigBounds, ConfTypes DEF ConfigInv
  <1>1. /\ UNCHANGED <<file, envMode, flagPort, cli, pending, edits>> /\ failures' \in 0 .. MaxFailures
        /\ srv.pc = "reload" /\ srv.unseen
    BY <1>0, ConfigBounds DEF SrvReload, PlacesOK
  <1> DEFINE l == Load
  <1>2. /\ l.cfg \in Conf /\ l.buf \in Conf /\ l.saves \in BOOLEAN /\ l.cfg.theme # "neon"
        /\ ~l.saves /\ file.kind = "config" => Agrees(l.cfg, file.c)
    BY <1>0, LoadIs
  <1>3. \/ srv' = [srv EXCEPT !.pc = "watch", !.sinceStat = FALSE]
        \/ srv' = [srv EXCEPT !.next = l.cfg, !.unsaved = FALSE, !.then = IF l.saves THEN "swap" ELSE "down",
                              !.buf = IF l.saves THEN l.buf ELSE Defaults,
                              !.pc = IF l.saves THEN "save" ELSE "swap"]
    BY DEF SrvReload
  <1> HIDE DEF l
  <1>4. CASE srv' = [srv EXCEPT !.pc = "watch", !.sinceStat = FALSE]
    <2>1. srv' \in Process /\ srv'.cfg = srv.cfg /\ srv'.next = srv.next /\ srv'.pc = "watch"
          /\ srv'.unseen = srv.unseen
      BY <1>0, <1>4 DEF Process
    <2>2. ConfigTypeOK'
      BY <1>0, <1>1, <2>1, ConfigTyped, ConfigBounds
    <2>3. PlacesOK' /\ AbsentIsUnsaved' /\ CfgAgrees'
      BY <1>0, <1>1, <2>1 DEF PlacesOK, AbsentIsUnsaved, CfgAgrees, Starting, SavingAtStart
    <2> QED
      BY <2>2, <2>3 DEF ConfigInv
  <1>5. CASE /\ l.saves
             /\ srv' = [srv EXCEPT !.next = l.cfg, !.unsaved = FALSE, !.then = "swap", !.buf = l.buf, !.pc = "save"]
    <2>1. srv' \in Process /\ srv'.cfg = srv.cfg /\ srv'.next = l.cfg /\ srv'.pc = "save"
          /\ srv'.then = "swap"
      BY <1>0, <1>2, <1>5 DEF Process
    <2>2. ConfigTypeOK'
      BY <1>0, <1>1, <2>1, ConfigTyped, ConfigBounds
    <2>3. PlacesOK' /\ AbsentIsUnsaved' /\ CfgAgrees'
      BY <1>0, <1>2, <2>1 DEF PlacesOK, AbsentIsUnsaved, CfgAgrees, Starting, SavingAtStart
    <2> QED
      BY <2>2, <2>3 DEF ConfigInv
  <1>6. CASE /\ ~l.saves
             /\ srv' = [srv EXCEPT !.next = l.cfg, !.unsaved = FALSE, !.then = "down", !.buf = Defaults, !.pc = "swap"]
    <2>1. srv' \in Process /\ srv'.cfg = srv.cfg /\ srv'.next = l.cfg /\ srv'.pc = "swap"
      BY <1>0, <1>2, <1>6 DEF Process
    <2>2. ConfigTypeOK'
      BY <1>0, <1>1, <2>1, ConfigTyped, ConfigBounds
    <2>3. PlacesOK' /\ AbsentIsUnsaved' /\ CfgAgrees'
      BY <1>0, <1>1, <1>2, <1>6, <2>1
         DEF PlacesOK, AbsentIsUnsaved, CfgAgrees, Starting, SavingAtStart, Agrees, Validate
    <2> QED
      BY <2>2, <2>3 DEF ConfigInv
  <1> QED
    BY <1>2, <1>3, <1>4, <1>5, <1>6

\* server.yml and the server that watches it (config/config.go, main.go): when the
\* watcher has nothing left to notice, the server runs with the theme and the operator
\* token the file has, whoever wrote it and however the server's own saves, the command
\* line's and the operator's edits interleave with its reloads, unless a version came
\* between the first Load and NewConfigManager or the start could not read the file - both
\* until the next reload - or a generated secret could not be saved.
\* As long as there is always a token that nobody holds.
THEOREM WatcherIsRight ==
  ASSUME NeverOutOfTokens PROVE ConfigSpec => [](ConfigTypeOK /\ WatcherKnowsFile)
  <1>1. ConfigInit => ConfigInv
    <2> SUFFICES ASSUME ConfigInit PROVE ConfigInv
      OBVIOUS
    <2>1. Defaults \in Conf /\ Defaults.theme = "dark" /\ [Defaults EXCEPT !.port = "p1"] \in Conf
      BY DEF Defaults, Conf
    <2>2. Down \in Process /\ Down.pc = "down" /\ Down.cfg = Defaults /\ Down.next = Defaults
      BY <2>1 DEF Down, Process
    <2>3. ConfigTypeOK
      BY <2>1, <2>2, ConfigAssumption DEF ConfigInit, ConfigTypeOK
    <2>4. PlacesOK /\ AbsentIsUnsaved /\ CfgAgrees
      BY <2>1, <2>2 DEF ConfigInit, PlacesOK, AbsentIsUnsaved, CfgAgrees, Starting, SavingAtStart
    <2> QED
      BY <2>3, <2>4 DEF ConfigInv
  <1>2. ConfigInv /\ [ConfigNext]_configVars => ConfigInv'
    <2>1. ConfigInv /\ UNCHANGED configVars => ConfigInv'
      <3> SUFFICES ASSUME ConfigInv, UNCHANGED configVars PROVE ConfigInv'
        OBVIOUS
      <3>1. ConfigTypeOK'
        BY DEF configVars, ConfigInv, ConfigTypeOK
      <3> QED
        BY <3>1, ConfigFrame DEF configVars
    <2> QED
      BY <2>1, ConfigStartStop, ConfigLoad, ConfigSave, ConfigPort, ConfigMoves, ConfigReload, ConfigCliMoves,
         ConfigForeignMoves DEF ConfigNext, SrvStep
  <1>3. ConfigInv => ConfigTypeOK /\ WatcherKnowsFile
    BY ConfigBounds DEF ConfigInv, CfgAgrees, WatcherKnowsFile, Sound, FileKnown, Agrees
  <1> QED
    BY <1>1, <1>2, <1>3, PTL DEF ConfigSpec
=============================================================================
