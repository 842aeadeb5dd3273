---------------------------- MODULE HiddenService ----------------------------
(***************************************************************************)
(* The managers of the hidden services (tor/tor.go, i2p/i2p.go,              *)
(* i2p/process.go), with the goroutines that use them (server.go Run), the   *)
(* tor_health task (task.go) and the `tor regenerate' and `tor import-keys'  *)
(* commands (main.go).                                                      *)
(*                                                                         *)
(* A manager owns one child: the Tor process, the i2pd process or the        *)
(* session with a SAM bridge.  One mutex covers every start, from the        *)
(* search for the binary to the published address; three goroutines and the  *)
(* task compete for it.  Children die and starts fail a bounded number of    *)
(* times.  The listener and the configuration file of a child are rewritten  *)
(* on every start and left out.                                             *)
(***************************************************************************)
EXTENDS Naturals, FiniteSets

CONSTANTS
    Kinds,        \* which managers are considered
    MaxDeaths,    \* bound on the children that die
    MaxStartFailures,  \* bound on the starts that fail
    MaxNewKeys    \* bound on the commands that replace the identity

ASSUME HiddenAssumption ==
    /\ Kinds \subseteq {"tor", "i2pd", "sam"}
    /\ MaxDeaths \in Nat /\ MaxStartFailures \in Nat /\ MaxNewKeys \in Nat

VARIABLES
    kind,
    lock,       \* m.mu: the actor that holds it, or "free"
    svc,        \* m.svc: the child's number and the address it published, or NoSvc
    child,      \* per number: "none", "up", "dead"
    step,       \* per actor, where it is
    seen,       \* the service the monitor looked at
    ctxDone,  \* m.ctx is done
    key,        \* identity on disk, 0 when there is none
    persisted,  \* server.tor.onion_address or server.i2p.b32_address, 0 when empty
    deaths, startFailures, newKeys,
    overtaken   \* history: Close came before Start

hiddenVars == <<kind, lock, svc, child, step, seen, ctxDone, key, persisted, deaths,
                startFailures, newKeys, overtaken>>

Actors == {"starter", "monitor", "health", "closer"}
Children == 1..(MaxDeaths + MaxStartFailures + 2)
Identities == 0..(MaxNewKeys + 1)
NoSvc == [child |-> 0, address |-> 0]

Up(c) == c # 0 /\ child[c] = "up"
ServiceUp == svc # NoSvc

HiddenTypeOK ==
    /\ kind \in Kinds
    /\ lock \in Actors \cup {"free"}
    /\ {svc, seen} \subseteq [child : Children \cup {0}, address : Identities]
    /\ child \in [Children -> {"none", "up", "dead"}]
    /\ step \in [Actors -> {"idle", "off", "lock", "start", "await", "check", "probe", "done"}]
    /\ ctxDone \in BOOLEAN /\ overtaken \in BOOLEAN
    /\ key \in Identities /\ persisted \in Identities
    /\ deaths \in 0..MaxDeaths /\ startFailures \in 0..MaxStartFailures /\ newKeys \in 0..MaxNewKeys

HiddenInit ==
    /\ kind \in Kinds
    /\ lock = "free" /\ svc = NoSvc /\ seen = NoSvc
    /\ child = [c \in Children |-> "none"]
    /\ step = [a \in Actors |-> CASE a = "starter" -> "lock" [] a = "monitor" -> "off"
                                  [] a = "health" -> "idle" [] a = "closer" -> "idle"]
    /\ ctxDone = FALSE /\ key = 0 /\ persisted = 0
    /\ deaths = 0 /\ startFailures = 0 /\ newKeys = 0 /\ overtaken = FALSE

countVars == <<deaths, startFailures, newKeys>>

Goes(a, to) == step' = [step EXCEPT ![a] = to]

----------------------------------------------------------------------------
(* startLocked, closeSvcLocked: under the lock *)

Newest == CHOOSE c \in Children \cup {0} :
            /\ c # 0 => child[c] # "none"
            /\ \A d \in Children : child[d] # "none" => d <= c

\* What comes after an actor's critical section: the goroutine of Run goes on only
\* when Start succeeded.
AfterLock(a, ok) == IF a # "starter" THEN "idle" ELSE IF ok THEN "check" ELSE "done"

\* Mutated form: the child is forgotten and left running.
StopChildForgetsOnly(cs) == cs

\* closeSvcLocked stops the child and forgets it.
StopChild(cs) == [c \in Children |-> IF c = svc.child THEN "dead" ELSE cs[c]]

\* Start, Restart and the monitor; Start does not close what is there.
TakeLock(a) ==
    /\ a # "closer"
    /\ step[a] = "lock" /\ lock = "free"
    /\ IF a = "monitor" /\ svc # seen
       THEN Goes(a, "idle") /\ UNCHANGED <<lock, svc, child>>
       ELSE /\ lock' = a /\ Goes(a, "start")
            /\ IF a = "starter" THEN UNCHANGED <<svc, child>>
               ELSE child' = StopChild(child) /\ svc' = NoSvc
    /\ UNCHANGED <<kind, seen, ctxDone, key, persisted, countVars, overtaken>>

\* The start of Tor is bound to the context, and a second Tor on the same data
\* directory exits; neither holds for i2pd and the SAM session.  An absent binary is
\* one of the failures.
Started(a) ==
    /\ lock = a /\ step[a] = "start"
    /\ child' = [child EXCEPT ![Newest + 1] = "up"]
    /\ Goes(a, "await")
    /\ UNCHANGED <<kind, lock, svc, seen, ctxDone, key, persisted, countVars, overtaken>>

NotStarted(a) ==
    /\ lock = a /\ step[a] = "start"
    /\ lock' = "free" /\ Goes(a, AfterLock(a, FALSE))
    /\ UNCHANGED <<kind, svc, child, seen, ctxDone, key, persisted, deaths, newKeys, overtaken>>

StartFails(a) ==
    /\ startFailures < MaxStartFailures /\ startFailures' = startFailures + 1
    /\ NotStarted(a)

StartTor(a) ==
    /\ kind = "tor"
    /\ IF ctxDone \/ \E c \in Children : child[c] = "up"
       THEN NotStarted(a) /\ UNCHANGED startFailures
       ELSE Started(a)

StartEepsite(a) == kind # "tor" /\ Started(a)

\* The child makes an identity unless there is one on disk, and publishes its address.
Identity == IF key = 0 THEN newKeys + 1 ELSE key

Publish(a) ==
    /\ lock = a /\ step[a] = "await" /\ Up(Newest)
    /\ key' = Identity
    /\ svc' = [child |-> Newest, address |-> Identity]
    /\ lock' = "free" /\ Goes(a, AfterLock(a, TRUE))
    /\ UNCHANGED <<kind, child, seen, ctxDone, persisted, countVars, overtaken>>

WaitForHostname(a) == kind = "tor" /\ Publish(a)
WaitForKeysAddress(a) == kind = "i2pd" /\ Publish(a)
SamCreateSession(a) == kind = "sam" /\ Publish(a)

\* The child has died, or took longer than the bootstrap timeout, or the context is
\* done before there is an address: the child is closed, m.svc stays nil.
NoAddress(a) ==
    /\ lock = a /\ step[a] = "await"
    /\ lock' = "free" /\ Goes(a, AfterLock(a, FALSE))
    /\ child' = [child EXCEPT ![Newest] = "dead"]
    /\ UNCHANGED <<kind, svc, seen, ctxDone, persisted, deaths, newKeys, overtaken>>

AnotherFailure ==
    startFailures < MaxStartFailures /\ Up(Newest) /\ startFailures' = startFailures + 1

AwaitTimesOut(a) ==
    /\ kind # "sam" /\ NoAddress(a) /\ UNCHANGED key
    /\ \/ (~Up(Newest) \/ ctxDone) /\ UNCHANGED startFailures
       \/ AnotherFailure

\* samReadLine has no deadline and does not look at the context: only an answer of the
\* bridge, an error among them, or the end of the connection ends the handshake.  The
\* destination of a new session is stored before the last of the three answers.
SamRefused(a) ==
    /\ kind = "sam" /\ NoAddress(a) /\ key' \in {key, Identity}
    /\ \/ ~Up(Newest) /\ UNCHANGED startFailures
       \/ AnotherFailure

\* An actor that holds the lock and waits for the answer of a bridge that is there.
AwaitsBridge(a) == kind = "sam" /\ step[a] = "await" /\ Up(Newest)

----------------------------------------------------------------------------
(* The goroutine of Run: Start, then Monitor if the service is running *)

\* persistOnionAddress, persistB32Address: an address that is set stays.
AfterStart ==
    /\ step["starter"] = "check" /\ lock = "free"
    /\ step' = [step EXCEPT !["starter"] = "done",
                            !["monitor"] = IF ServiceUp THEN "idle" ELSE "off"]
    /\ persisted' = IF ServiceUp /\ persisted = 0 THEN svc.address ELSE persisted
    /\ UNCHANGED <<kind, lock, svc, child, seen, ctxDone, key, countVars, overtaken>>

\* Monitor: looks at m.svc, asks it without the lock, and restarts it under the lock
\* if it is still the one.  A SAM session is not asked.
MonitorLook ==
    /\ step["monitor"] = "idle"
    /\ \/ ctxDone /\ Goes("monitor", "off") /\ UNCHANGED seen
       \/ lock = "free" /\ ServiceUp /\ seen' = svc /\ Goes("monitor", "probe")
    /\ UNCHANGED <<kind, lock, svc, child, ctxDone, key, persisted, countVars, overtaken>>

MonitorProbe ==
    /\ step["monitor"] = "probe"
    /\ Goes("monitor", IF kind = "sam" \/ Up(seen.child) THEN "idle" ELSE "lock")
    /\ UNCHANGED <<kind, lock, svc, child, seen, ctxDone, key, persisted, countVars, overtaken>>

\* The task tor_health restarts a service that is not there.  The scheduler starts
\* before Run and catches up on missed tasks, so it may come before Start.
HealthCheck ==
    /\ kind = "tor" /\ step["health"] = "idle"
    /\ lock = "free" /\ ~ServiceUp /\ step["closer"] # "done"
    /\ Goes("health", "lock")
    /\ UNCHANGED <<kind, lock, svc, child, seen, ctxDone, key, persisted, countVars, overtaken>>

\* Close, when Run returns: the context is only cancelled under the lock.
CloseBegins ==
    /\ step["closer"] = "idle" /\ Goes("closer", "lock")
    /\ UNCHANGED <<kind, lock, svc, child, seen, ctxDone, key, persisted, countVars, overtaken>>

Close ==
    /\ step["closer"] = "lock" /\ lock = "free"
    /\ ctxDone' = TRUE
    /\ child' = StopChild(child) /\ svc' = NoSvc
    /\ Goes("closer", "done")
    /\ overtaken' = (step["starter"] = "lock")
    /\ UNCHANGED <<kind, lock, seen, key, persisted, countVars>>

----------------------------------------------------------------------------
ChildDies ==
    /\ deaths < MaxDeaths /\ deaths' = deaths + 1
    /\ \E c \in Children : child[c] = "up" /\ child' = [child EXCEPT ![c] = "dead"]
    /\ UNCHANGED <<kind, lock, svc, step, seen, ctxDone, key, persisted, startFailures,
                   newKeys, overtaken>>

\* RegenerateAddress and ApplyKeys of a command's own manager: the identity is removed
\* or replaced under the server's running child.
ReplaceIdentity ==
    /\ kind = "tor" /\ newKeys < MaxNewKeys /\ newKeys' = newKeys + 1
    /\ key' \in {0, newKeys + 2}
    /\ UNCHANGED <<kind, lock, svc, child, step, seen, ctxDone, persisted, deaths,
                   startFailures, overtaken>>

Locked(a) ==
    \/ StartTor(a) \/ StartEepsite(a) \/ StartFails(a)
    \/ WaitForHostname(a) \/ WaitForKeysAddress(a) \/ SamCreateSession(a)
    \/ AwaitTimesOut(a) \/ SamRefused(a)

HiddenNext ==
    \/ \E a \in Actors : TakeLock(a) \/ Locked(a)
    \/ AfterStart \/ MonitorLook \/ MonitorProbe \/ HealthCheck \/ CloseBegins \/ Close
    \/ ChildDies \/ ReplaceIdentity

\* Goroutines run, the wait for the address of Tor and i2pd has a timeout, the
\* scheduler runs tor_health every ten minutes.  A SAM bridge need not answer.  Weak
\* fairness is enough for the lock as well: within the bounds on deaths and failures
\* nobody takes it away for ever.
Proceeds(a) == TakeLock(a) \/ (Locked(a) /\ ~AwaitsBridge(a))

HiddenFair ==
    /\ \A a \in Actors : WF_hiddenVars(Proceeds(a))
    /\ WF_hiddenVars(AfterStart) /\ WF_hiddenVars(MonitorLook \/ MonitorProbe)
    /\ WF_hiddenVars(HealthCheck) /\ WF_hiddenVars(Close)

HiddenSpec == HiddenInit /\ [][HiddenNext]_hiddenVars /\ HiddenFair

----------------------------------------------------------------------------
\* However the monitor, the health task, the start and Close interleave, there is
\* never more than one child, and none is left once Close has returned and nobody
\* holds the lock - unless Close overtook the start of an i2p child.
OneChild ==
    /\ Cardinality({c \in Children : child[c] = "up"}) <= 1
    /\ (step["closer"] = "done" /\ lock = "free" /\ ~(overtaken /\ kind # "tor"))
          => \A c \in Children : child[c] # "up"

\* The address survives restarts: unless a command replaced the identity, every child
\* publishes the address that was stored first.
AddressKept == (ServiceUp /\ newKeys = 0 /\ persisted # 0) => svc.address = persisted

\* Close returns, because a start in flight gives the lock back; only a SAM bridge that
\* is connected and does not answer can hold it up.
CloseReturns ==
    (step["closer"] = "lock")
        ~> (step["closer"] = "done" \/ \E a \in Actors : AwaitsBridge(a))

\* A Tor that dies while the monitor runs is replaced, even when restarts fail.
MonitoredTorReturns ==
    (kind = "tor" /\ step["monitor"] # "off" /\ ServiceUp /\ ~Up(svc.child))
        ~> (Up(svc.child) \/ step["closer"] # "idle")

\* What the managers of Tor and I2P promise together: one child, one address, a Close
\* that returns unless a bridge keeps silent, and a monitor that brings Tor back.
HiddenSound ==
    [](HiddenTypeOK /\ OneChild /\ AddressKept) /\ CloseReturns /\ MonitoredTorReturns

=============================================================================
