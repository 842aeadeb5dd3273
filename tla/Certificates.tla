---------------------------- MODULE Certificates ----------------------------
(***************************************************************************)
(* How the server comes by its TLS certificate (ssl/ssl.go, selfsigned.go   *)
(* and the two places of server.go that ask for it): the search through the *)
(* directories of certbot, the program and the operator, the order of a     *)
(* certificate by dns-01, the self-signed pair of an overlay address, and   *)
(* the ACME account.  The process may die between any two steps.           *)
(*                                                                         *)
(* A key is a number; a certificate is the number of its key and the last   *)
(* day it is valid.  Files written with atomicWriteFile change in one step, *)
(* files written with os.WriteFile are torn in between.                     *)
(***************************************************************************)
EXTENDS Naturals

CONSTANTS
    CertModes,   \* how a missing certificate is come by: "dns", "autocert", "overlay", "off"
    CertLife,    \* days a certificate is valid
    MaxKeys,     \* bound on the keys made
    CertMaxDay   \* bound on the days

ASSUME CertAssumption ==
    /\ CertModes \subseteq {"dns", "autocert", "overlay", "off"}
    /\ CertLife \in Nat /\ MaxKeys \in Nat \ {0} /\ CertMaxDay \in Nat

NoPEM   == 0            \* the file does not exist
TornPEM == MaxKeys + 1  \* it does not parse

Dirs == {"certbot", "app", "local"}
Pair == [cert : 0 .. MaxKeys, until : 0 .. CertMaxDay + CertLife, key : 0 .. MaxKeys]

VARIABLES
    tlsMode,   \* the configured mode, and whether HTTP has a port of its own
    pair,      \* the certificate and the key in each directory
    account,   \* account.key and account.json: the key it is registered for
    maker,     \* the starting process: [pc, key, reg, made, until]
    serving,   \* what the running server uses: a key, or how it goes on
    keysMade,
    certDay,
    orders     \* history: certificates ordered while the program's own was valid

certVars == <<tlsMode, pair, account, maker, serving, keysMade, certDay, orders>>

CertSteps == {"down", "search", "accountKey", "accountWrite", "account", "register", "saveReg",
              "order", "self", "writeKey", "writeCert", "load", "up"}
MakerIdle == [pc |-> "down", dir |-> "app", key |-> 0, reg |-> 0, made |-> 0, until |-> 0]

CertTypeOK ==
    /\ tlsMode \in [how : CertModes, dual : BOOLEAN]
    /\ pair \in [Dirs -> Pair]
    /\ account \in [key : 0 .. TornPEM, reg : 0 .. TornPEM]
    /\ maker \in [pc : CertSteps, dir : Dirs, key : 0 .. MaxKeys, reg : 0 .. MaxKeys,
                  made : 0 .. MaxKeys, until : 0 .. CertMaxDay + CertLife]
    /\ serving \in {"none", "plain", "autocert"} \cup Dirs
    /\ keysMade \in 0 .. MaxKeys /\ certDay \in 0 .. CertMaxDay /\ orders \in BOOLEAN

CertInit ==
    /\ tlsMode \in [how : CertModes, dual : BOOLEAN]
    /\ pair = [d \in Dirs |-> [cert |-> NoPEM, until |-> 0, key |-> NoPEM]]
    /\ account = [key |-> NoPEM, reg |-> NoPEM] /\ maker = MakerIdle
    /\ serving = "none" /\ keysMade = 0 /\ certDay = 0 /\ orders = FALSE

MakerTo(label) == maker' = [maker EXCEPT !.pc = label]

----------------------------------------------------------------------------
\* findCertPair and validateCertFile: both files are there and the certificate has
\* not expired.  Whether the key belongs to the certificate is not looked at.
ValidPair(d) == pair[d].cert # NoPEM /\ pair[d].key # NoPEM /\ certDay <= pair[d].until

\* tlsConfigFromFiles: tls.LoadX509KeyPair refuses a key that is not the certificate's.
Loads(d) == pair[d].cert = pair[d].key /\ pair[d].cert # NoPEM

\* TLS setup failed: with HTTPS on a port of its own the start fails, else the
\* server goes on without TLS.
SetupFails ==
    IF tlsMode.dual THEN maker' = MakerIdle /\ UNCHANGED serving
    ELSE maker' = [MakerIdle EXCEPT !.pc = "up"] /\ serving' = "plain"

LoadFrom(d) ==
    IF Loads(d) THEN maker' = [MakerIdle EXCEPT !.pc = "up"] /\ serving' = d
    ELSE SetupFails

\* The directories in the order of GetTLSConfig.
FirstValid ==
    IF ValidPair("certbot") THEN "certbot"
    ELSE IF ValidPair("app") THEN "app"
    ELSE IF ValidPair("local") THEN "local" ELSE "none"

StartTLS ==
    /\ maker.pc = "down" /\ serving = "none" /\ MakerTo("search")
    /\ UNCHANGED <<tlsMode, pair, account, serving, keysMade, certDay, orders>>

\* GetTLSConfig: a pair that is found is used or fails; otherwise the mode decides.
GetTLSConfig ==
    /\ maker.pc = "search"
    /\ IF FirstValid # "none" THEN LoadFrom(FirstValid)
       ELSE CASE tlsMode.how = "dns"      -> MakerTo("accountKey") /\ UNCHANGED serving
              [] tlsMode.how = "autocert" -> /\ maker' = [MakerIdle EXCEPT !.pc = "up"]
                                             /\ serving' = "autocert"
              [] tlsMode.how = "overlay"  -> MakerTo("self") /\ UNCHANGED serving
              [] tlsMode.how = "off"      -> SetupFails
    /\ UNCHANGED <<tlsMode, pair, account, keysMade, certDay, orders>>

----------------------------------------------------------------------------
\* getLetsEncryptTLSConfigDNS01.

\* buildDNSProvider, the ACME client or an order fails.
OrderFails ==
    /\ maker.pc \in {"accountKey", "register", "order", "writeKey", "writeCert"}
    /\ tlsMode.how = "dns" /\ SetupFails
    /\ UNCHANGED <<tlsMode, pair, account, keysMade, certDay, orders>>

\* loadOrCreateAccountKey: a key that does not parse is replaced by a new one.
AccountKeyUsable(k) == k \in 1 .. MaxKeys

LoadAccountKey ==
    /\ maker.pc = "accountKey"
    /\ IF AccountKeyUsable(account.key)
       THEN /\ maker' = [maker EXCEPT !.pc = "account", !.key = account.key]
            /\ UNCHANGED <<account, keysMade>>
       ELSE /\ keysMade < MaxKeys /\ keysMade' = keysMade + 1
            /\ account' = [account EXCEPT !.key = TornPEM]
            /\ maker' = [maker EXCEPT !.pc = "accountWrite", !.key = keysMade + 1]
    /\ UNCHANGED <<tlsMode, pair, serving, certDay, orders>>
WriteAccountKey ==
    /\ maker.pc = "accountWrite" /\ account' = [account EXCEPT !.key = maker.key]
    /\ MakerTo("account")
    /\ UNCHANGED <<tlsMode, pair, serving, keysMade, certDay, orders>>

\* loadOrCreateLegoAccount: the registration, if it parses.
LoadRegistration ==
    /\ maker.pc = "account"
    /\ maker' = IF account.reg \in 1 .. MaxKeys
                THEN [maker EXCEPT !.pc = "order", !.reg = account.reg]
                ELSE [maker EXCEPT !.pc = "register"]
    /\ UNCHANGED <<tlsMode, pair, account, serving, keysMade, certDay, orders>>

\* Registration.Register, and saveLegoRegistration, whose failure is only logged.
Register ==
    /\ maker.pc = "register" /\ maker' = [maker EXCEPT !.pc = "saveReg", !.reg = maker.key]
    /\ account' = [account EXCEPT !.reg = TornPEM]
    /\ UNCHANGED <<tlsMode, pair, serving, keysMade, certDay, orders>>
SaveRegistration ==
    /\ maker.pc = "saveReg" /\ MakerTo("order")
    /\ account' \in {account, [account EXCEPT !.reg = maker.reg]}
    /\ UNCHANGED <<tlsMode, pair, serving, keysMade, certDay, orders>>

\* Certificate.Obtain: the authority serves the account the key belongs to.
Obtain ==
    /\ maker.pc = "order" /\ maker.reg = maker.key /\ keysMade < MaxKeys
    /\ keysMade' = keysMade + 1
    /\ maker' = [maker EXCEPT !.pc = "writeKey", !.dir = "app", !.made = keysMade + 1,
                              !.until = certDay + CertLife]
    /\ orders' = (orders \/ ValidPair("app"))
    /\ UNCHANGED <<tlsMode, pair, account, serving, certDay>>

\* ensureSelfSignedCert and generateSelfSigned: the pair of an overlay address is
\* made when there is none or it does not validate.
EnsureSelfSigned ==
    /\ maker.pc = "self"
    /\ IF ValidPair("local") THEN LoadFrom("local") /\ UNCHANGED keysMade
       ELSE /\ keysMade < MaxKeys /\ keysMade' = keysMade + 1
            /\ maker' = [maker EXCEPT !.pc = "writeKey", !.dir = "local", !.made = keysMade + 1,
                                      !.until = certDay + CertLife]
            /\ UNCHANGED serving
    /\ UNCHANGED <<tlsMode, pair, account, certDay, orders>>

\* Mutated form: the certificate is written first.
WriteKeyCertFirst ==
    /\ maker.pc = "writeKey" /\ MakerTo("writeCert")
    /\ pair' = [pair EXCEPT ![maker.dir].cert = maker.made, ![maker.dir].until = maker.until]
    /\ UNCHANGED <<tlsMode, account, serving, keysMade, certDay, orders>>

\* atomicWriteFile, first the key, then the certificate.
WriteKey ==
    /\ maker.pc = "writeKey" /\ MakerTo("writeCert")
    /\ pair' = [pair EXCEPT ![maker.dir].key = maker.made]
    /\ UNCHANGED <<tlsMode, account, serving, keysMade, certDay, orders>>
WriteCert ==
    /\ maker.pc = "writeCert" /\ MakerTo("load")
    /\ pair' = [pair EXCEPT ![maker.dir].cert = maker.made, ![maker.dir].until = maker.until]
    /\ UNCHANGED <<tlsMode, account, serving, keysMade, certDay, orders>>
LoadMade ==
    /\ maker.pc = "load" /\ LoadFrom(maker.dir)
    /\ UNCHANGED <<tlsMode, pair, account, keysMade, certDay, orders>>

----------------------------------------------------------------------------
\* certbot or the operator puts a matching pair into a directory while no server
\* is about to write to it.
Install(d) ==
    /\ d = "local" => maker.pc \in {"down", "up"}
    /\ keysMade < MaxKeys /\ keysMade' = keysMade + 1
    /\ pair' = [pair EXCEPT ![d] = [cert |-> keysMade + 1, until |-> certDay + CertLife,
                                     key |-> keysMade + 1]]
    /\ UNCHANGED <<tlsMode, account, maker, serving, certDay, orders>>

\* The process ends, at whatever step it is.
ServerDies ==
    /\ maker.pc # "down" /\ maker' = MakerIdle /\ serving' = "none"
    /\ UNCHANGED <<tlsMode, pair, account, keysMade, certDay, orders>>

CertDayPasses ==
    /\ certDay < CertMaxDay /\ certDay' = certDay + 1
    /\ UNCHANGED <<tlsMode, pair, account, maker, serving, keysMade, orders>>

CertNext ==
    \/ StartTLS \/ GetTLSConfig \/ OrderFails \/ LoadAccountKey \/ WriteAccountKey
    \/ LoadRegistration \/ Register \/ SaveRegistration \/ Obtain \/ EnsureSelfSigned
    \/ WriteKey \/ WriteCert \/ LoadMade
    \/ \E d \in {"certbot", "local"} : Install(d)
    \/ ServerDies \/ CertDayPasses

CertSpec == CertInit /\ [][CertNext]_certVars

----------------------------------------------------------------------------
\* A pair that the next start would choose can be loaded, wherever the last one was
\* cut short: GetTLSConfig does not look for another pair when the key turns out not
\* to be the certificate's, so such a pair would keep HTTPS from ever starting again.
ChosenPairLoads == \A d \in Dirs : ValidPair(d) => Loads(d)

\* The registration that is stored was made with the stored account key, through all
\* restarts and torn files: with another key the authority refuses every order.
RegistrationMatches == account.reg \in 1 .. MaxKeys => account.key = account.reg

\* A certificate the program has ordered is used until it expires: no restart orders
\* another one before (Let's Encrypt limits the orders for a name).
NoNeedlessOrder == ~orders

\* What every start finds, wherever the last one was cut short: a pair that loads, a
\* registration that fits its key, and no reason to order twice.
CertificatesSound == CertTypeOK /\ ChosenPairLoads /\ RegistrationMatches /\ NoNeedlessOrder

=============================================================================
