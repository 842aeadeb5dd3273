----------------------------- MODULE ConfigStore -----------------------------
(***************************************************************************)
(* server.yml and the configuration the server runs with: Load, Save,      *)
(* Validate, loadEnv, ResolvePort and ConfigManager (config/config.go), the *)
(* startup sequence of main.go that uses them and OnConfigChange            *)
(* (server/server.go).                                                      *)
(*                                                                         *)
(* Three parties write the file: the server (secrets and port it generates, *)
(* detected SMTP), the command line (Load and Save of its own), and the    *)
(* operator's editor.  Each write is a rename, so a reader sees one whole  *)
(* version, but reading and writing are separate steps.                    *)
(*                                                                         *)
(* A configuration is cut down to one setting of each kind: port (needs a  *)
(* restart; flag or generated), mode (environment), theme (validated, hot), *)
(* token (generated secret), dir (resolved at startup, in no file).        *)
(* Modification times only grow, and only "newer than the one seen" is     *)
(* asked of them: srv.unseen and srv.sinceStat stand for the comparisons.  *)
(***************************************************************************)
EXTENDS Naturals

CONSTANTS
    ConfTokens,   \* values ensureServerToken may generate
    MaxEdits,     \* bound on the operator's edits and command line calls
    MaxFailures   \* bound on failing reads and writes

ASSUME ConfigAssumption == MaxEdits \in Nat /\ MaxFailures \in Nat

VARIABLES
    file,      \* server.yml
    envMode,   \* MODE of the environment, "none" when unset
    flagPort,  \* --port, "none" when not given
    srv,       \* the server process
    cli,       \* a command line process
    pending,   \* pendingRestartKeys
    edits,     \* edits and command line calls so far
    failures   \* failed reads and writes so far

configVars == <<file, envMode, flagPort, srv, cli, pending, edits, failures>>

Conf == [port : {"unset", "p1", "p2"}, mode : {"prod", "dev"},
         theme : {"dark", "light", "neon"}, token : ConfTokens \cup {"none"},
         dir : {"unset", "data"}]

\* DefaultConfig
Defaults == [port |-> "unset", mode |-> "prod", theme |-> "dark", token |-> "none",
             dir |-> "unset"]

Absent    == [kind |-> "absent", c |-> Defaults]
Malformed == [kind |-> "malformed", c |-> Defaults]
FileOf(c) == [kind |-> "config", c |-> c]

Process == [pc : {"down", "load", "port", "smtp", "manage", "watch", "reload", "swap",
                  "notify", "command", "save"},
            then : {"down", "port", "smtp", "manage", "swap", "command"},
            cfg : Conf, next : Conf, buf : Conf,
            unseen : BOOLEAN, sinceStat : BOOLEAN,
            missed : BOOLEAN, unread : BOOLEAN, unsaved : BOOLEAN]

Down == [pc |-> "down", then |-> "down", cfg |-> Defaults, next |-> Defaults,
         buf |-> Defaults, unseen |-> FALSE, sinceStat |-> FALSE, missed |-> FALSE,
         unread |-> FALSE, unsaved |-> FALSE]

ConfigTypeOK ==
    /\ file \in {Absent, Malformed} \cup {FileOf(c) : c \in Conf}
    /\ envMode \in {"none", "dev"}
    /\ flagPort \in {"none", "p2"}
    /\ srv \in Process /\ cli \in Process
    /\ pending \subseteq {"server.port"}
    /\ edits \in 0..MaxEdits /\ failures \in 0..MaxFailures

ConfigInit ==
    /\ file \in {Absent, FileOf([Defaults EXCEPT !.port = "p1"])}
    /\ envMode \in {"none", "dev"}
    /\ flagPort \in {"none", "p2"}
    /\ srv = Down /\ cli = Down
    /\ pending = {}
    /\ edits = 0 /\ failures = 0

----------------------------------------------------------------------------
\* loadEnv: the environment wins over the file.
LoadEnv(c) == IF envMode = "none" THEN c ELSE [c EXCEPT !.mode = envMode]

\* Validate: a value that is not allowed is replaced by its default.
Validate(c) == IF c.theme = "neon" THEN [c EXCEPT !.theme = Defaults.theme] ELSE c

\* A token nobody holds (crypto/rand); which one makes no difference.
FreshToken == CHOOSE t \in ConfTokens \ {file.c.token, srv.cfg.token, srv.next.token,
                                         srv.buf.token, cli.cfg.token, cli.buf.token} : TRUE

\* Load of the present file: the result,
\* whether an error is returned, and what is saved before it returns.  Only on
\* the first run is the saved configuration free of the environment's values.
Load ==
    LET t == FreshToken IN
    CASE file.kind = "absent" ->
             [cfg |-> [LoadEnv(Defaults) EXCEPT !.token = t], ok |-> TRUE,
              saves |-> TRUE, buf |-> [Defaults EXCEPT !.token = t]]
      [] file.kind = "malformed" ->
             [cfg |-> LoadEnv(Defaults), ok |-> FALSE, saves |-> FALSE, buf |-> Defaults]
      [] OTHER ->
             LET c == Validate(LoadEnv(file.c))
                 g == IF c.token = "none" THEN [c EXCEPT !.token = t] ELSE c
             IN  [cfg |-> g, ok |-> TRUE, saves |-> g # c, buf |-> g]

\* What a new version of the file means to the server: its watcher has not seen
\* it, and if it comes between the first Load and NewConfigManager it never will.
Noticed(s, own) ==
    [s EXCEPT !.unseen = TRUE, !.sinceStat = s.pc \in {"reload", "save", "swap"},
              !.missed = @ \/ (~own /\ s.pc \in {"port", "smtp", "manage", "save"}
                                    /\ (s.pc = "save" => s.then # "swap"))]

Fails == failures < MaxFailures /\ failures' = failures + 1

----------------------------------------------------------------------------
SrvStart ==
    /\ srv.pc = "down" /\ srv' = [Down EXCEPT !.pc = "load"]
    /\ pending' = {}
    /\ UNCHANGED <<file, envMode, flagPort, cli, edits, failures>>

\* The process ends, or is killed between any two steps.
SrvStop ==
    /\ srv.pc # "down" /\ srv' = Down
    /\ UNCHANGED <<file, envMode, flagPort, cli, pending, edits, failures>>

\* main: the first Load.  Its error is only logged, and the server goes on with the
\* defaults: the file is malformed, or could not be read (unread).
SrvLoad ==
    /\ srv.pc = "load"
    /\ \/ /\ LET l == Load IN
                srv' = [srv EXCEPT !.cfg = l.cfg, !.buf = IF l.saves THEN l.buf ELSE Defaults,
                                !.then = IF l.saves THEN "port" ELSE "down",
                                !.pc = IF l.saves THEN "save" ELSE "port"]
          /\ UNCHANGED failures
       \/ /\ file.kind # "absent" /\ Fails
          /\ srv' = [srv EXCEPT !.cfg = LoadEnv(Defaults), !.unread = TRUE, !.pc = "port"]
    /\ UNCHANGED <<file, envMode, flagPort, cli, pending, edits>>

\* Save: a temporary file renamed into place.  Every caller at startup only logs
\* an error.
SrvSave ==
    /\ srv.pc = "save"
    /\ \/ /\ file' = FileOf(srv.buf)
          /\ srv' = [Noticed(srv, TRUE) EXCEPT !.buf = Defaults, !.pc = srv.then, !.then = "down"]
          /\ UNCHANGED failures
       \/ /\ Fails
          /\ srv' = [srv EXCEPT !.buf = Defaults, !.pc = srv.then, !.then = "down",
                                !.unsaved = TRUE]
          /\ UNCHANGED file
    /\ UNCHANGED <<envMode, flagPort, cli, pending, edits>>

\* The --port flag, then ResolvePort.
Flagged == IF flagPort = "none" THEN srv.cfg ELSE [srv.cfg EXCEPT !.port = flagPort]

SrvPortKnown ==
    /\ srv.pc = "port" /\ Flagged.port # "unset"
    /\ srv' = [srv EXCEPT !.cfg = Flagged, !.pc = "smtp"]
    /\ UNCHANGED <<file, envMode, flagPort, cli, pending, edits, failures>>

\* persistPortOnly reads the file again: it leaves a malformed one alone, but saves the
\* defaults over one it cannot read.
SrvPersistPort ==
    /\ srv.pc = "port" /\ Flagged.port = "unset"
    /\ LET generated == [srv EXCEPT !.cfg = [Flagged EXCEPT !.port = "p1"]]
           Saves(s, base) == [s EXCEPT !.buf = [base EXCEPT !.port = "p1"],
                                       !.then = "smtp", !.pc = "save"]
       IN  \/ /\ srv' = CASE file.kind = "malformed" -> [generated EXCEPT !.pc = "smtp"]
                          [] file.kind = "config"    -> Saves(generated, file.c)
                          [] file.kind = "absent"    -> Saves(generated, Defaults)
              /\ UNCHANGED failures
           \/ /\ file.kind # "absent" /\ Fails
              /\ srv' = [Saves(generated, Defaults) EXCEPT !.unread = TRUE]
    /\ UNCHANGED <<file, envMode, flagPort, cli, pending, edits>>

SrvResolvePort == SrvPortKnown \/ SrvPersistPort

\* email.AutoDetect: one of the candidates answers, or none.
AutoDetect == BOOLEAN

\* A host it finds is saved with the whole running configuration.
SrvSmtp ==
    /\ srv.pc = "smtp"
    /\ \E found \in AutoDetect :
          srv' = IF found THEN [srv EXCEPT !.buf = srv.cfg, !.then = "manage", !.pc = "save"]
                 ELSE [srv EXCEPT !.pc = "manage"]
    /\ UNCHANGED <<file, envMode, flagPort, cli, pending, edits, failures>>

\* NewConfigManager takes the modification time of now, not that of the version
\* Load read; then the data directory is filled in.
SrvManage ==
    /\ srv.pc = "manage"
    /\ srv' = [srv EXCEPT !.unseen = FALSE, !.sinceStat = FALSE, !.cfg.dir = "data", !.pc = "watch"]
    /\ UNCHANGED <<file, envMode, flagPort, cli, pending, edits, failures>>

\* checkFileChanges: the stat ...
SrvStat ==
    /\ srv.pc = "watch" /\ file.kind # "absent" /\ srv.unseen
    /\ srv' = [srv EXCEPT !.sinceStat = FALSE, !.pc = "reload"]
    /\ UNCHANGED <<file, envMode, flagPort, cli, pending, edits, failures>>

\* ... the Load: after an error (malformed, or unreadable for now) the old time
\* is kept, so the next tick tries again ...
SrvReload ==
    /\ srv.pc = "reload"
    /\ \/ /\ LET l == Load IN
                srv' = IF ~l.ok THEN [srv EXCEPT !.pc = "watch", !.sinceStat = FALSE]
                       ELSE [srv EXCEPT !.next = l.cfg, !.unsaved = FALSE,
                                        !.then = IF l.saves THEN "swap" ELSE "down",
                                        !.buf = IF l.saves THEN l.buf ELSE Defaults,
                                        !.pc = IF l.saves THEN "save" ELSE "swap"]
          /\ UNCHANGED failures
       \/ Fails /\ srv' = [srv EXCEPT !.pc = "watch", !.sinceStat = FALSE]
    /\ UNCHANGED <<file, envMode, flagPort, cli, pending, edits>>

\* Mutated form: the swap takes the time of the file as it is then.
SrvSwapLate ==
    /\ srv.pc = "swap"
    /\ srv' = [srv EXCEPT !.cfg = srv.next, !.unseen = FALSE, !.missed = FALSE,
                       !.unread = FALSE, !.pc = "notify"]
    /\ UNCHANGED <<file, envMode, flagPort, cli, pending, edits, failures>>

\* ... and under the lock the new configuration with the time of the stat.
SrvSwap ==
    /\ srv.pc = "swap"
    /\ srv' = [srv EXCEPT !.cfg = srv.next, !.unseen = srv.sinceStat, !.sinceStat = FALSE,
                       !.missed = FALSE, !.unread = FALSE, !.pc = "notify"]
    /\ UNCHANGED <<file, envMode, flagPort, cli, pending, edits, failures>>

\* OnConfigChange compares the new configuration with liveCfg, which is already
\* the new one.
OnConfigChange ==
    /\ srv.pc = "notify"
    /\ pending' = IF srv.cfg.port # srv.next.port THEN pending \cup {"server.port"} ELSE pending
    /\ srv' = [srv EXCEPT !.next = Defaults, !.pc = "watch"]
    /\ UNCHANGED <<file, envMode, flagPort, cli, edits, failures>>

----------------------------------------------------------------------------
\* A command line call that loads the configuration; some commands (--status,
\* token list) only load, others save what they loaded (SetUpdateBranch,
\* SetOnionAddress, SetB32Address, pgp delete).
CliLoad ==
    /\ cli.pc = "down" /\ edits < MaxEdits
    /\ edits' = edits + 1
    /\ \E command \in {"down", "command"} :
          LET l == Load IN
          /\ l.ok
          /\ cli' = [Down EXCEPT !.cfg = l.cfg, !.buf = l.buf, !.then = command,
                                 !.pc = IF l.saves THEN "save" ELSE command]
    /\ UNCHANGED <<file, envMode, flagPort, srv, pending, failures>>

CliCommand ==
    /\ cli.pc = "command"
    /\ cli' = [cli EXCEPT !.buf = cli.cfg, !.then = "down", !.pc = "save"]
    /\ UNCHANGED <<file, envMode, flagPort, srv, pending, edits, failures>>

\* SetMode rewrites the mode in the text of the file, without loading it.
CliSetMode ==
    /\ cli.pc = "down" /\ edits < MaxEdits /\ file.kind = "config"
    /\ edits' = edits + 1
    /\ cli' = [Down EXCEPT !.buf = [file.c EXCEPT !.mode = "dev"], !.pc = "save"]
    /\ UNCHANGED <<file, envMode, flagPort, srv, pending, failures>>

CliSave ==
    /\ cli.pc = "save"
    /\ cli' = IF cli.then = "down" THEN Down ELSE [cli EXCEPT !.pc = cli.then]
    /\ \/ file' = FileOf(cli.buf) /\ srv' = Noticed(srv, FALSE) /\ UNCHANGED failures
       \/ Fails /\ UNCHANGED <<file, srv>>
    /\ UNCHANGED <<envMode, flagPort, pending, edits>>

\* The operator edits the file, and may leave it malformed.
OperatorEdits ==
    /\ edits < MaxEdits /\ edits' = edits + 1
    /\ \/ file' = Malformed
       \/ \E c \in [port : {"p1", "p2"}, mode : {"prod"}, theme : {"light", "neon"},
                    token : {file.c.token}, dir : {"unset"}] : file' = FileOf(c)
    /\ srv' = Noticed(srv, FALSE)
    /\ UNCHANGED <<envMode, flagPort, cli, pending, failures>>

SrvStep == \/ SrvLoad \/ SrvSave \/ SrvResolvePort \/ SrvSmtp \/ SrvManage
           \/ SrvStat \/ SrvReload \/ SrvSwap \/ OnConfigChange

ConfigNext == SrvStart \/ SrvStop \/ SrvStep
              \/ CliLoad \/ CliCommand \/ CliSetMode \/ CliSave \/ OperatorEdits

\* Startup runs through and the watcher's ticker keeps firing.
ConfigSpec == ConfigInit /\ [][ConfigNext]_configVars /\ WF_configVars(SrvStep)

----------------------------------------------------------------------------
Watching == srv.pc \in {"watch", "reload", "swap", "notify"}

\* When the watcher has nothing left to notice, the server runs with what the
\* file says, validated, and with the file's operator token, whoever wrote the
\* file last and although the server itself rewrites it while reloading.  The ways
\* out: since its start the server has not reloaded the file, and a version was written
\* between the first Load and NewConfigManager (missed) or the file could not be read
\* (unread); or a generated secret could not be saved (unsaved).
FileKnown == ~srv.missed /\ ~srv.unread

WatcherKnowsFile ==
    (/\ srv.pc = "watch" /\ ~srv.unseen /\ FileKnown /\ ~srv.unsaved
     /\ file.kind = "config") =>
        /\ srv.cfg.theme = Validate(file.c).theme
        /\ srv.cfg.token = file.c.token

\* Once the file stays readable and well formed under a running server, its settings take
\* effect, although reloads failed in between - at the latest with the first change that
\* the watcher sees.
EditsTakeEffect ==
    <>[](Watching /\ FileKnown /\ file.kind = "config") =>
        <>[](srv.cfg.theme = Validate(file.c).theme)

\* What the watcher promises together: it does not believe to know a file it has not
\* loaded, and edits take effect in the end.
ConfigFollowed == [](ConfigTypeOK /\ WatcherKnowsFile) /\ EditsTakeEffect

=============================================================================
