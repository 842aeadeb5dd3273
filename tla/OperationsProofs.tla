-------------------------- MODULE OperationsProofs --------------------------
(***************************************************************************)
(* Proofs about the parts an operator meets: the certificates, the         *)
(* --service commands and the log files.  Each has an inductive invariant  *)
(* that says what the steps still to come may rely on.                     *)
(***************************************************************************)
EXTENDS Certificates, ServiceManager, LogFiles, FiniteSetTheorems, WellFoundedInduction, TLAPS

(***************************************************************************)
(* Certificates.  A pair is replaced key first.  In between it has the new *)
(* key and the old certificate, which no start may choose: the invariant   *)
(* follows the reason why, from the search that found no valid pair to the *)
(* writing of the certificate.                                             *)
(***************************************************************************)
\* A certificate that could still be chosen.
CertAlive(d) == pair[d].cert # NoPEM /\ certDay <= pair[d].until

\* A live certificate has its own key beside it.
PairsOK == \A d \in Dirs : CertAlive(d) => pair[d].key = pair[d].cert

\* Positions at which the program's own pair is known not to be valid, and what the
\* process has in hand when it writes a pair or its registration.
Ordering == {"accountKey", "accountWrite", "account", "register", "saveReg", "order"}
MakerOK ==
    /\ maker.pc \in Ordering => ~CertAlive("app")
    /\ maker.pc \in {"writeKey", "writeCert"} =>
          maker.dir # "certbot" /\ maker.made # NoPEM /\ ~CertAlive(maker.dir)
    /\ maker.pc = "writeCert" => pair[maker.dir].key = maker.made
    /\ maker.pc = "accountWrite" => account.reg \notin 1 .. MaxKeys /\ maker.key # NoPEM
    /\ maker.pc \in {"account", "register", "saveReg"} =>
          account.key = maker.key /\ maker.key # NoPEM
    /\ maker.pc = "saveReg" => maker.reg = maker.key

CertInv == CertTypeOK /\ RegistrationMatches /\ NoNeedlessOrder /\ PairsOK /\ MakerOK
MakerType == [pc : CertSteps, dir : Dirs, key : 0 .. MaxKeys, reg : 0 .. MaxKeys,
              made : 0 .. MaxKeys, until : 0 .. CertMaxDay + CertLife]

LEMMA CertTyping ==
  ASSUME CertTypeOK
  PROVE  /\ maker \in MakerType /\ pair \in [Dirs -> Pair] /\ keysMade \in Nat
         /\ account \in [key : 0 .. TornPEM, reg : 0 .. TornPEM] /\ certDay \in Nat
         /\ MakerIdle \in MakerType /\ [MakerIdle EXCEPT !.pc = "up"] \in MakerType
         /\ MaxKeys \in Nat /\ CertMaxDay \in Nat /\ CertLife \in Nat
         /\ TornPEM \notin 1 .. MaxKeys /\ NoPEM \notin 1 .. MaxKeys /\ NoPEM = 0
  BY CertAssumption DEF CertTypeOK, MakerType, MakerIdle, CertSteps, Dirs, TornPEM, NoPEM

LEMMA CertInitInv == CertInit => CertInv
  <1> SUFFICES ASSUME CertInit PROVE CertInv
    OBVIOUS
  <1>0. /\ 0 \in 0 .. CertMaxDay + CertLife /\ 0 \in 0 .. MaxKeys /\ 0 \in 0 .. CertMaxDay
        /\ 0 \in 0 .. TornPEM
    BY CertAssumption DEF TornPEM
  <1>1. CertTypeOK
    <2>1. pair \in [Dirs -> Pair]
      BY <1>0 DEF CertInit, Pair, NoPEM
    <2>2. maker \in [pc : CertSteps, dir : Dirs, key : 0 .. MaxKeys, reg : 0 .. MaxKeys,
                     made : 0 .. MaxKeys, until : 0 .. CertMaxDay + CertLife]
      BY <1>0 DEF CertInit, MakerIdle, CertSteps, Dirs
    <2>3. account \in [key : 0 .. TornPEM, reg : 0 .. TornPEM]
      BY <1>0 DEF CertInit, NoPEM
    <2> QED
      BY <1>0, <2>1, <2>2, <2>3 DEF CertInit, CertTypeOK
  <1>2. RegistrationMatches /\ NoNeedlessOrder
    BY DEF CertInit, RegistrationMatches, NoNeedlessOrder, NoPEM
  <1>3. PairsOK
    BY DEF CertInit, PairsOK, CertAlive
  <1>4. MakerOK
    BY DEF CertInit, MakerOK, MakerIdle, Ordering
  <1> QED
    BY <1>1, <1>2, <1>3, <1>4 DEF CertInv

\* A pair that would be chosen is one with a live certificate.
LEMMA ValidIsAlive == ASSUME CertInv, NEW d \in Dirs PROVE ValidPair(d) <=> CertAlive(d)
  BY DEF CertInv, PairsOK, ValidPair, CertAlive

\* Steps that write no file.
LEMMA CertFrame ==
  ASSUME CertInv, UNCHANGED <<tlsMode, pair, account, certDay, orders>>,
         maker' \in MakerType, keysMade' \in 0 .. MaxKeys,
         serving' \in {"none", "plain", "autocert"} \cup Dirs, MakerOK'
  PROVE  CertInv'
  <1>1. CertTypeOK'
    BY DEF CertInv, CertTypeOK, MakerType
  <1>2. PairsOK' /\ RegistrationMatches' /\ NoNeedlessOrder'
    BY DEF CertInv, PairsOK, CertAlive, RegistrationMatches, NoNeedlessOrder
  <1> QED
    BY <1>1, <1>2 DEF CertInv

\* The search ends, with or without a certificate.
LEMMA CertEnds ==
  ASSUME CertInv, UNCHANGED <<tlsMode, pair, account, certDay, orders>>, keysMade' = keysMade,
         \/ maker' \in {MakerIdle, [MakerIdle EXCEPT !.pc = "up"]}
                 /\ serving' \in {serving, "none", "plain", "autocert"} \cup Dirs
         \/ SetupFails
         \/ \E d \in Dirs : LoadFrom(d)
  PROVE  CertInv'
  <1>1. maker' \in {MakerIdle, [MakerIdle EXCEPT !.pc = "up"]}
        /\ serving' \in {serving, "none", "plain", "autocert"} \cup Dirs
    BY DEF SetupFails, LoadFrom
  <1>2. maker' \in MakerType /\ maker'.pc \in {"down", "up"}
    BY <1>1, CertTyping DEF CertInv, MakerIdle
  <1>3. MakerOK'
    BY <1>2 DEF MakerOK, Ordering
  <1>4. keysMade' \in 0 .. MaxKeys /\ serving \in {"none", "plain", "autocert"} \cup Dirs
    BY DEF CertInv, CertTypeOK
  <1>5. serving' \in {"none", "plain", "autocert"} \cup Dirs
    BY <1>1, <1>4
  <1> QED
    BY <1>2, <1>3, <1>4, <1>5, CertFrame

LEMMA StartTLSInv == ASSUME CertInv, StartTLS PROVE CertInv'
  <1>1. maker' = [maker EXCEPT !.pc = "search"] /\ maker \in MakerType
    BY CertTyping DEF StartTLS, MakerTo, CertInv
  <1>2. maker' \in MakerType /\ maker'.pc = "search"
    BY <1>1 DEF MakerType, CertSteps
  <1>3. MakerOK'
    BY <1>2 DEF MakerOK, Ordering
  <1> QED
    BY <1>2, <1>3, CertFrame DEF StartTLS, CertInv, CertTypeOK

LEMMA GetTLSConfigInv == ASSUME CertInv, GetTLSConfig PROVE CertInv'
  <1>0. /\ maker \in MakerType /\ maker.pc = "search"
        /\ UNCHANGED <<tlsMode, pair, account, keysMade, certDay, orders>>
    BY CertTyping DEF GetTLSConfig, CertInv
  <1>1. CASE FirstValid # "none"
    <2>1. FirstValid \in Dirs /\ LoadFrom(FirstValid)
      BY <1>1 DEF FirstValid, Dirs, GetTLSConfig
    <2> QED
      BY <1>0, <2>1, CertEnds
  <1>2. CASE FirstValid = "none"
    <2>1. ~CertAlive("app") /\ ~CertAlive("local")
      BY <1>2, ValidIsAlive DEF FirstValid, Dirs
    <2>2. CASE tlsMode.how = "dns"
      <3>1. maker' = [maker EXCEPT !.pc = "accountKey"] /\ serving' = serving
        BY <1>2, <2>2 DEF GetTLSConfig, MakerTo
      <3>2. maker' \in MakerType /\ maker'.pc = "accountKey"
        BY <1>0, <3>1 DEF MakerType, CertSteps
      <3>3. MakerOK'
        BY <1>0, <2>1, <3>2 DEF MakerOK, Ordering, CertAlive
      <3> QED
        BY <1>0, <3>1, <3>2, <3>3, CertFrame DEF CertInv, CertTypeOK
    <2>3. CASE tlsMode.how = "overlay"
      <3>1. maker' = [maker EXCEPT !.pc = "self"] /\ serving' = serving
        BY <1>2, <2>3 DEF GetTLSConfig, MakerTo
      <3>2. maker' \in MakerType /\ maker'.pc = "self"
        BY <1>0, <3>1 DEF MakerType, CertSteps
      <3>3. MakerOK'
        BY <3>2 DEF MakerOK, Ordering
      <3> QED
        BY <1>0, <3>1, <3>2, <3>3, CertFrame DEF CertInv, CertTypeOK
    <2>4. CASE tlsMode.how \in {"autocert", "off"}
      <3>1. \/ maker' = [MakerIdle EXCEPT !.pc = "up"] /\ serving' = "autocert"
            \/ SetupFails
        BY <1>2, <2>4 DEF GetTLSConfig
      <3> QED
        BY <1>0, <3>1, CertEnds
    <2>5. tlsMode.how \in {"dns", "autocert", "overlay", "off"}
      BY CertAssumption DEF CertInv, CertTypeOK
    <2> QED
      BY <2>2, <2>3, <2>4, <2>5
  <1> QED
    BY <1>1, <1>2
\* The account: its key, then its registration, each torn while it is written.
LEMMA AccountInv ==
  ASSUME CertInv,
         LoadAccountKey \/ WriteAccountKey \/ LoadRegistration \/ Register \/ SaveRegistration
  PROVE  CertInv'
  <1>0. /\ maker \in MakerType /\ UNCHANGED <<tlsMode, pair, serving, certDay, orders>>
        /\ maker.pc \in Ordering /\ ~CertAlive("app")
        /\ account \in [key : 0 .. TornPEM, reg : 0 .. TornPEM]
        /\ account.key \in 0 .. TornPEM /\ account.reg \in 0 .. TornPEM
        /\ keysMade \in Nat /\ MaxKeys \in Nat /\ TornPEM = MaxKeys + 1 /\ NoPEM = 0
    BY CertTyping
    DEF CertInv, MakerOK, LoadAccountKey, WriteAccountKey, LoadRegistration, Register,
        SaveRegistration, Ordering, TornPEM, NoPEM
  <1>1. ASSUME maker' \in MakerType, maker'.pc \in Ordering, keysMade' \in 0 .. MaxKeys,
               account' \in [key : 0 .. TornPEM, reg : 0 .. TornPEM], RegistrationMatches',
               maker'.pc = "accountWrite" => account'.reg \notin 1 .. MaxKeys /\ maker'.key # 0,
               maker'.pc \in {"account", "register", "saveReg"} =>
                  account'.key = maker'.key /\ maker'.key # 0,
               maker'.pc = "saveReg" => maker'.reg = maker'.key
        PROVE  CertInv'
    <2>1. CertTypeOK'
      BY <1>0, <1>1 DEF CertInv, CertTypeOK, MakerType
    <2>2. PairsOK' /\ NoNeedlessOrder'
      BY <1>0 DEF CertInv, PairsOK, CertAlive, NoNeedlessOrder
    <2>3. MakerOK'
      BY <1>0, <1>1 DEF MakerOK, Ordering, CertAlive
    <2> QED
      BY <1>1, <2>1, <2>2, <2>3 DEF CertInv
  <1>2. keysMade \in 0 .. MaxKeys /\ RegistrationMatches
    BY DEF CertInv, CertTypeOK
  <1>3. CASE LoadAccountKey
    <2>1. CASE AccountKeyUsable(account.key)
      <3>1. /\ maker' = [maker EXCEPT !.pc = "account", !.key = account.key]
            /\ account' = account /\ keysMade' = keysMade /\ account.key \in 1 .. MaxKeys
        BY <1>3, <2>1 DEF LoadAccountKey, AccountKeyUsable
      <3>0. account.key \in 0 .. MaxKeys /\ account.key # 0
        BY <1>0, <3>1
      <3>2. /\ maker' \in MakerType /\ maker'.pc = "account" /\ maker'.key = account.key
            /\ maker'.key # 0
        BY <1>0, <3>0, <3>1 DEF MakerType, CertSteps
      <3> QED
        BY <1>0, <1>1, <1>2, <3>1, <3>2 DEF Ordering, RegistrationMatches
    <2>2. CASE ~AccountKeyUsable(account.key)
      <3>1. /\ maker' = [maker EXCEPT !.pc = "accountWrite", !.key = keysMade + 1]
            /\ account' = [account EXCEPT !.key = TornPEM] /\ keysMade' = keysMade + 1
            /\ keysMade < MaxKeys /\ account.key \notin 1 .. MaxKeys
        BY <1>3, <2>2 DEF LoadAccountKey, AccountKeyUsable
      <3>0. keysMade + 1 \in 0 .. MaxKeys /\ keysMade + 1 # 0
        BY <1>0, <3>1
      <3>2. /\ maker' \in MakerType /\ maker'.pc = "accountWrite" /\ maker'.key # 0
            /\ keysMade' \in 0 .. MaxKeys
        BY <1>0, <3>0, <3>1 DEF MakerType, CertSteps
      <3>3. account.reg \notin 1 .. MaxKeys
        BY <1>2, <3>1 DEF RegistrationMatches
      <3>4. /\ account' \in [key : 0 .. TornPEM, reg : 0 .. TornPEM] /\ account'.reg = account.reg
            /\ RegistrationMatches'
        BY <1>0, <3>1, <3>3 DEF RegistrationMatches
      <3> QED
        BY <1>1, <3>2, <3>3, <3>4 DEF Ordering
    <2> QED
      BY <2>1, <2>2
  <1>4. CASE WriteAccountKey
    <2>1. /\ maker' = [maker EXCEPT !.pc = "account"] /\ keysMade' = keysMade
          /\ account' = [account EXCEPT !.key = maker.key]
          /\ account.reg \notin 1 .. MaxKeys /\ maker.key # 0 /\ maker.key \in 0 .. MaxKeys
      BY <1>0, <1>4 DEF WriteAccountKey, MakerTo, CertInv, MakerOK, MakerType
    <2>2. maker' \in MakerType /\ maker'.pc = "account" /\ maker'.key = maker.key
      BY <1>0, <2>1 DEF MakerType, CertSteps
    <2>3. /\ account' \in [key : 0 .. TornPEM, reg : 0 .. TornPEM] /\ account'.key = maker.key
          /\ RegistrationMatches'
      BY <1>0, <2>1 DEF RegistrationMatches
    <2> QED
      BY <1>1, <1>2, <2>1, <2>2, <2>3 DEF Ordering
  <1>5. CASE LoadRegistration
    <2>0. /\ maker.pc = "account" /\ account' = account /\ keysMade' = keysMade
          /\ account.key = maker.key /\ maker.key # 0
      BY <1>0, <1>5 DEF LoadRegistration, CertInv, MakerOK
    <2>1. CASE account.reg \in 1 .. MaxKeys
      <3>1. maker' = [maker EXCEPT !.pc = "order", !.reg = account.reg]
        BY <1>5, <2>1 DEF LoadRegistration
      <3>0. account.reg \in 0 .. MaxKeys
        BY <1>0, <2>1
      <3>2. maker' \in MakerType /\ maker'.pc = "order"
        BY <1>0, <3>0, <3>1 DEF MakerType, CertSteps
      <3> QED
        BY <1>0, <1>1, <1>2, <2>0, <3>2 DEF Ordering, RegistrationMatches
    <2>2. CASE account.reg \notin 1 .. MaxKeys
      <3>1. maker' = [maker EXCEPT !.pc = "register"]
        BY <1>5, <2>2 DEF LoadRegistration
      <3>2. maker' \in MakerType /\ maker'.pc = "register" /\ maker'.key = maker.key
        BY <1>0, <3>1 DEF MakerType, CertSteps
      <3> QED
        BY <1>0, <1>1, <1>2, <2>0, <3>2 DEF Ordering, RegistrationMatches
    <2> QED
      BY <2>1, <2>2
  <1>6. CASE Register
    <2>1. /\ maker' = [maker EXCEPT !.pc = "saveReg", !.reg = maker.key] /\ keysMade' = keysMade
          /\ account' = [account EXCEPT !.reg = TornPEM]
          /\ account.key = maker.key /\ maker.key # 0
      BY <1>0, <1>6 DEF Register, CertInv, MakerOK
    <2>2. /\ maker' \in MakerType /\ maker'.pc = "saveReg" /\ maker'.key = maker.key
          /\ maker'.reg = maker.key
      BY <1>0, <2>1 DEF MakerType, CertSteps
    <2>3. /\ account' \in [key : 0 .. TornPEM, reg : 0 .. TornPEM] /\ account'.key = maker.key
          /\ RegistrationMatches'
      BY <1>0, <2>1 DEF RegistrationMatches
    <2> QED
      BY <1>1, <1>2, <2>1, <2>2, <2>3 DEF Ordering
  <1>7. CASE SaveRegistration
    <2>1. /\ maker' = [maker EXCEPT !.pc = "order"] /\ keysMade' = keysMade
          /\ account' \in {account, [account EXCEPT !.reg = maker.reg]}
          /\ account.key = maker.key /\ maker.reg = maker.key /\ maker.reg \in 0 .. MaxKeys
      BY <1>0, <1>7 DEF SaveRegistration, MakerTo, CertInv, MakerOK, MakerType
    <2>2. maker' \in MakerType /\ maker'.pc = "order"
      BY <1>0, <2>1 DEF MakerType, CertSteps
    <2>3. account' \in [key : 0 .. TornPEM, reg : 0 .. TornPEM] /\ RegistrationMatches'
      <3>1. CASE account' = account
        BY <1>0, <1>2, <3>1 DEF RegistrationMatches
      <3>2. CASE account' = [account EXCEPT !.reg = maker.reg]
        BY <1>0, <2>1, <3>2 DEF RegistrationMatches
      <3> QED
        BY <2>1, <3>1, <3>2
    <2> QED
      BY <1>1, <1>2, <2>1, <2>2, <2>3 DEF Ordering
  <1> QED
    BY <1>3, <1>4, <1>5, <1>6, <1>7

\* A new pair is made only where no certificate is alive, so nothing is ordered in vain.
LEMMA MakeInv == ASSUME CertInv, Obtain \/ EnsureSelfSigned PROVE CertInv'
  <1>0. /\ maker \in MakerType /\ UNCHANGED <<tlsMode, pair, account, certDay>>
        /\ keysMade \in Nat /\ MaxKeys \in Nat /\ CertMaxDay \in Nat /\ CertLife \in Nat
        /\ certDay \in 0 .. CertMaxDay /\ NoPEM = 0
    BY CertTyping DEF CertInv, CertTypeOK, Obtain, EnsureSelfSigned
  <1>1. CASE EnsureSelfSigned /\ ValidPair("local")
    <2>1. "local" \in Dirs /\ LoadFrom("local") /\ keysMade' = keysMade /\ orders' = orders
      BY <1>1 DEF EnsureSelfSigned, Dirs
    <2> QED
      BY <1>0, <2>1, CertEnds
  <1>2. ASSUME NEW d \in {"app", "local"}, ~CertAlive(d), keysMade < MaxKeys, orders' = orders,
               keysMade' = keysMade + 1, serving' = serving,
               maker' = [maker EXCEPT !.pc = "writeKey", !.dir = d, !.made = keysMade + 1,
                                      !.until = certDay + CertLife]
        PROVE  CertInv'
    <2>1. certDay + CertLife \in 0 .. CertMaxDay + CertLife /\ keysMade + 1 \in 0 .. MaxKeys
          /\ keysMade + 1 # 0
      BY <1>0, <1>2
    <2>2. /\ maker' \in MakerType /\ maker'.pc = "writeKey" /\ maker'.dir = d
          /\ maker'.made = keysMade + 1
      BY <1>0, <1>2, <2>1 DEF MakerType, CertSteps, Dirs
    <2>3. MakerOK'
      BY <1>0, <1>2, <2>1, <2>2 DEF MakerOK, Ordering, CertAlive
    <2> QED
      BY <1>0, <1>2, <2>1, <2>2, <2>3, CertFrame DEF CertInv, CertTypeOK
  <1>3. CASE EnsureSelfSigned /\ ~ValidPair("local")
    <2>1. ~CertAlive("local")
      BY <1>3, ValidIsAlive DEF Dirs
    <2> QED
      BY <1>2, <1>3, <2>1 DEF EnsureSelfSigned
  <1>4. CASE Obtain
    <2>1. ~CertAlive("app") /\ ~ValidPair("app")
      BY <1>4, ValidIsAlive DEF Dirs, Obtain, CertInv, MakerOK, Ordering
    <2>2. orders' = orders
      BY <1>4, <2>1 DEF Obtain, CertInv, NoNeedlessOrder, CertTypeOK
    <2> QED
      BY <1>2, <1>4, <2>1, <2>2 DEF Obtain
  <1> QED
    BY <1>1, <1>3, <1>4

\* The files of a pair: the key beside a dead certificate, then the certificate.
LEMMA WriteInv ==
  ASSUME CertInv, WriteKey \/ WriteCert \/ \E d \in {"certbot", "local"} : Install(d)
  PROVE  CertInv'
  <1>0. /\ maker \in MakerType /\ pair \in [Dirs -> Pair] /\ maker.dir \in Dirs
        /\ maker.made \in 0 .. MaxKeys /\ maker.until \in 0 .. CertMaxDay + CertLife
        /\ UNCHANGED <<tlsMode, account, serving, certDay, orders>>
        /\ keysMade \in Nat /\ MaxKeys \in Nat /\ CertMaxDay \in Nat /\ CertLife \in Nat
        /\ certDay \in 0 .. CertMaxDay /\ NoPEM = 0 /\ keysMade \in 0 .. MaxKeys
    BY CertTyping DEF CertInv, CertTypeOK, WriteKey, WriteCert, Install, MakerType
  <1>1. ASSUME NEW d \in Dirs, NEW f \in Pair, pair' = [pair EXCEPT ![d] = f],
               f.cert # NoPEM /\ certDay <= f.until => f.key = f.cert,
               maker' \in MakerType, keysMade' \in 0 .. MaxKeys, MakerOK'
        PROVE  CertInv'
    <2>1. CertTypeOK'
      BY <1>0, <1>1 DEF CertInv, CertTypeOK, MakerType
    <2>2. PairsOK'
      <3>1. ASSUME NEW e \in Dirs, CertAlive(e)' PROVE pair'[e].key = pair'[e].cert
        <4>1. CASE e = d
          BY <1>0, <1>1, <3>1, <4>1 DEF CertAlive
        <4>2. CASE e # d
          BY <1>0, <1>1, <3>1, <4>2 DEF CertAlive, CertInv, PairsOK
        <4> QED
          BY <4>1, <4>2
      <3> QED
        BY <3>1 DEF PairsOK
    <2>3. RegistrationMatches' /\ NoNeedlessOrder'
      BY <1>0 DEF CertInv, RegistrationMatches, NoNeedlessOrder
    <2> QED
      BY <1>1, <2>1, <2>2, <2>3 DEF CertInv
  <1>2. CASE WriteKey
    <2> DEFINE f == [pair[maker.dir] EXCEPT !.key = maker.made]
    <2>1. /\ maker.pc = "writeKey" /\ maker' = [maker EXCEPT !.pc = "writeCert"]
          /\ pair' = [pair EXCEPT ![maker.dir].key = maker.made] /\ keysMade' = keysMade
          /\ maker.dir # "certbot" /\ maker.made # NoPEM /\ ~CertAlive(maker.dir)
      BY <1>2 DEF WriteKey, MakerTo, CertInv, MakerOK
    <2>2. /\ pair[maker.dir] \in Pair /\ pair' = [pair EXCEPT ![maker.dir] = f]
      BY <1>0, <2>1
    <2>3. /\ f \in Pair /\ f.cert = pair[maker.dir].cert /\ f.until = pair[maker.dir].until
          /\ f.key = maker.made
      BY <1>0, <2>2 DEF Pair
    <2>4. /\ maker' \in MakerType /\ maker'.pc = "writeCert" /\ maker'.dir = maker.dir
          /\ maker'.made = maker.made
      BY <1>0, <2>1 DEF MakerType, CertSteps
    <2> HIDE DEF f
    <2>5. pair'[maker.dir] = f
      BY <1>0, <2>2
    <2>6. MakerOK'
      BY <1>0, <2>1, <2>3, <2>4, <2>5 DEF MakerOK, Ordering, CertAlive
    <2> QED
      <3>1. maker.dir \in Dirs /\ keysMade' \in 0 .. MaxKeys
        BY <1>0, <2>1 DEF MakerType, CertInv, CertTypeOK
      <3>2. f.cert # NoPEM /\ certDay <= f.until => f.key = f.cert
        BY <2>1, <2>3 DEF CertAlive
      <3> QED
        BY <1>1, <2>2, <2>3, <2>4, <2>6, <3>1, <3>2
  <1>3. CASE WriteCert
    <2> DEFINE f == [pair[maker.dir] EXCEPT !.cert = maker.made, !.until = maker.until]
    <2>1. /\ maker.pc = "writeCert" /\ maker' = [maker EXCEPT !.pc = "load"]
          /\ pair' = [pair EXCEPT ![maker.dir].cert = maker.made, ![maker.dir].until = maker.until]
          /\ pair[maker.dir].key = maker.made /\ keysMade' = keysMade
      BY <1>3 DEF WriteCert, MakerTo, CertInv, MakerOK
    <2>2. pair[maker.dir] \in Pair /\ pair' = [pair EXCEPT ![maker.dir] = f]
      BY <1>0, <2>1
    <2>3. f \in Pair /\ f.cert = maker.made /\ f.key = maker.made
      BY <1>0, <2>1, <2>2 DEF Pair
    <2>4. maker' \in MakerType /\ maker'.pc = "load"
      BY <1>0, <2>1 DEF MakerType, CertSteps
    <2>5. MakerOK'
      BY <2>4 DEF MakerOK, Ordering
    <2> HIDE DEF f
    <2>6. maker.dir \in Dirs /\ keysMade' \in 0 .. MaxKeys
      BY <1>0, <2>1 DEF MakerType, CertInv, CertTypeOK
    <2> QED
      BY <1>1, <2>2, <2>3, <2>4, <2>5, <2>6
  <1>4. ASSUME NEW d \in {"certbot", "local"}, Install(d) PROVE CertInv'
    <2> DEFINE f == [cert |-> keysMade + 1, until |-> certDay + CertLife, key |-> keysMade + 1]
    <2>1. /\ maker' = maker /\ keysMade' = keysMade + 1 /\ keysMade < MaxKeys
          /\ pair' = [pair EXCEPT ![d] = f] /\ d \in Dirs
          /\ d = "local" => maker.pc \in {"down", "up"}
      BY <1>4 DEF Install, Dirs
    <2>2. certDay + CertLife \in 0 .. CertMaxDay + CertLife /\ keysMade + 1 \in 0 .. MaxKeys
      BY <1>0, <2>1
    <2>3. f \in Pair /\ f.key = f.cert
      BY <2>2 DEF Pair
    <2>4. MakerOK'
      <3>1. \A e \in Dirs \ {d} : pair'[e] = pair[e]
        BY <1>0, <2>1
      <3>2. CASE maker.pc \in {"down", "up"}
        BY <2>1, <3>2 DEF MakerOK, Ordering
      <3>3. CASE d = "certbot"
        BY <1>0, <2>1, <3>1, <3>3 DEF CertInv, MakerOK, CertAlive, Dirs
      <3> QED
        BY <2>1, <3>2, <3>3
    <2> HIDE DEF f
    <2> QED
      BY <1>0, <1>1, <2>1, <2>2, <2>3, <2>4
  <1> QED
    BY <1>2, <1>3, <1>4

\* Time only makes certificates die.
LEMMA CertDayInv == ASSUME CertInv, CertDayPasses PROVE CertInv'
  <1>1. /\ UNCHANGED <<tlsMode, pair, account, maker, serving, keysMade, orders>>
        /\ certDay' = certDay + 1 /\ certDay \in Nat /\ certDay' \in 0 .. CertMaxDay
        /\ \A d \in Dirs : pair[d].until \in Nat
    BY CertTyping DEF CertDayPasses, CertInv, CertTypeOK, Pair
  <1>2. \A d \in Dirs : CertAlive(d)' => CertAlive(d)
    BY <1>1 DEF CertAlive
  <1>3. "app" \in Dirs /\ maker.dir \in Dirs
    BY CertTyping DEF Dirs, CertInv, MakerType
  <1>4. PairsOK' /\ MakerOK'
    BY <1>1, <1>2, <1>3 DEF CertInv, PairsOK, MakerOK
  <1>5. CertTypeOK' /\ RegistrationMatches' /\ NoNeedlessOrder'
    BY <1>1 DEF CertInv, CertTypeOK, RegistrationMatches, NoNeedlessOrder
  <1> QED
    BY <1>4, <1>5 DEF CertInv

LEMMA CertNextInv == CertInv /\ [CertNext]_certVars => CertInv'
  <1> SUFFICES ASSUME CertInv, [CertNext]_certVars PROVE CertInv'
    OBVIOUS
  <1>1. CASE OrderFails
    BY <1>1, CertEnds DEF OrderFails
  <1>2. CASE LoadMade
    <2>1. maker.dir \in Dirs
      BY CertTyping DEF CertInv, MakerType
    <2> QED
      BY <1>2, <2>1, CertEnds DEF LoadMade
  <1>3. CASE ServerDies
    BY <1>3, CertEnds DEF ServerDies
  <1>4. CASE UNCHANGED certVars
    <2>1. MakerOK' /\ maker' \in MakerType
      BY <1>4, CertTyping DEF CertInv, MakerOK, CertAlive, certVars
    <2> QED
      BY <1>4, <2>1, CertFrame DEF certVars, CertInv, CertTypeOK
  <1> QED
    BY <1>1, <1>2, <1>3, <1>4, StartTLSInv, GetTLSConfigInv, AccountInv, MakeInv, WriteInv,
       CertDayInv DEF CertNext

\* Wherever the process dies and whatever fails, every start finds a pair that loads
\* (ChosenPairLoads), a registration that fits the account key, and orders nothing
\* while its own certificate is valid.
THEOREM CertificatesAreSound == CertSpec => []CertificatesSound
  <1>1. CertInv => CertificatesSound
    <2> SUFFICES ASSUME CertInv PROVE CertificatesSound
      OBVIOUS
    <2>1. ASSUME NEW d \in Dirs, ValidPair(d) PROVE Loads(d)
      BY <2>1, ValidIsAlive DEF CertInv, PairsOK, Loads, ValidPair
    <2> QED
      BY <2>1 DEF CertInv, CertificatesSound, ChosenPairLoads
  <1> QED
    BY <1>1, CertInitInv, CertNextInv, PTL DEF CertSpec
(***************************************************************************)
(* --service.  What a step may rely on is what its command has done before *)
(* it or still has to do before it: the server is stopped before anything  *)
(* it needs is taken away, the service file is removed before the          *)
(* directories, and a binary is written before the service is enabled.     *)
(***************************************************************************)
Undoing == {"disable", "remove", "purge"}
Booting == {"systemd", "openrc", "sysv"}

\* Nothing that makes a server start comes before something that undoes it.
Ordered(s) == \A i, j \in 1 .. Len(s) : i < j /\ s[j] \in Undoing => s[i] \notin {"unit", "start"}

Before(s, j, step) == \E i \in 1 .. Len(s) : i < j /\ s[i] = step

Stopped == online => unstopped
Withdrawn == unit => manager = "runit"

TodoOK ==
    /\ Ordered(todo)
    /\ \A j \in 1 .. Len(todo) :
          /\ todo[j] = "purge" => svcCmd = "uninstall"
          /\ todo[j] \in {"enable", "truncate"} => svcCmd = "install"
          /\ todo[j] \in Undoing => Stopped \/ Before(todo, j, "stop")
          /\ todo[j] = "purge" => Withdrawn \/ Before(todo, j, "remove")
          /\ todo[j] = "enable" /\ manager \in Booting =>
                exe # "none" \/ Before(todo, j, "truncate")

\* A server that runs can be stopped, unless stopping it has failed before.
MachineOK ==
    /\ online /\ ~unstopped => CanStop
    /\ exe = "torn" => cutCopy
    /\ manager \in Booting /\ enabled => exe # "none"

ServiceInv == ServiceTypeOK /\ TodoOK /\ MachineOK
LEMMA ServiceTyping ==
  ASSUME ServiceTypeOK
  PROVE  /\ unit \in BOOLEAN /\ enabled \in BOOLEAN /\ online \in BOOLEAN /\ dirs \in BOOLEAN
         /\ unstopped \in BOOLEAN /\ cutCopy \in BOOLEAN /\ manager \in AllManagers
  BY ServiceAssumption DEF ServiceTypeOK

\* The plan of a command: what comes before what.
PlanOK(s, cmd) ==
    /\ s \in Seq(Steps) /\ Len(s) <= 6 /\ Ordered(s)
    /\ \A j \in 1 .. Len(s) :
          /\ s[j] = "purge" => cmd = "uninstall" /\ Before(s, j, "remove")
          /\ s[j] \in {"enable", "truncate"} => cmd = "install"
          /\ s[j] \in Undoing => Before(s, j, "stop")
          /\ s[j] = "enable" /\ manager \in Booting =>
                exe = "whole" \/ Before(s, j, "truncate")

LEMMA InstallPlan ==
  ASSUME manager \in AllManagers, NEW s, s = InstallService(CopyBinary)
  PROVE  PlanOK(s, "install")
  <1>1. CASE manager = "systemd"
    <2>1. /\ s \in Seq(Steps) /\ Len(s) = 6 /\ s[1] = "unit" /\ s[2] = "truncate"
          /\ s[3] = "copy" /\ s[4] = "reload" /\ s[5] = "enable" /\ s[6] = "start"
      BY <1>1 DEF InstallService, InstallSystemd, CopyBinary, Steps
    <2> QED
      BY <2>1 DEF PlanOK, Ordered, Before, Undoing
  <1>2. CASE manager = "openrc" \/ manager = "sysv"
    <2>1. /\ s \in Seq(Steps) /\ Len(s) = 5 /\ s[1] = "unit" /\ s[2] = "truncate"
          /\ s[3] = "copy" /\ s[4] = "enable" /\ s[5] = "start"
      <3>1. CASE manager = "openrc"
        BY <3>1 DEF InstallService, InstallOpenRC, InstallSysV, CopyBinary, Steps
      <3>2. CASE manager = "sysv"
        BY <3>2 DEF InstallService, InstallOpenRC, InstallSysV, CopyBinary, Steps
      <3> QED
        BY <1>2, <3>1, <3>2
    <2> QED
      BY <2>1 DEF PlanOK, Ordered, Before, Undoing
  <1>3. CASE manager = "runit"
    <2>1. /\ s \in Seq(Steps) /\ Len(s) = 3 /\ s[1] = "unit" /\ s[2] = "enable"
          /\ s[3] = "start"
      BY <1>3 DEF InstallService, InstallRunit, Steps
    <2> QED
      BY <1>3, <2>1 DEF PlanOK, Ordered, Before, Undoing, Booting
  <1>4. CASE manager = "launchd" \/ manager = "bsdrc"
    <2>1. /\ s \in Seq(Steps) /\ Len(s) = 4 /\ s[1] = "unit" /\ s[2] = "truncate"
          /\ s[3] = "copy" /\ s[4] = "start"
      <3>1. CASE manager = "launchd"
        BY <3>1 DEF InstallService, InstallLaunchd, InstallBSDRC, CopyBinary, Steps
      <3>2. CASE manager = "bsdrc"
        BY <3>2 DEF InstallService, InstallLaunchd, InstallBSDRC, CopyBinary, Steps
      <3> QED
        BY <1>4, <3>1, <3>2
    <2> QED
      BY <2>1 DEF PlanOK, Ordered, Before, Undoing
  <1> QED
    BY <1>1, <1>2, <1>3, <1>4 DEF AllManagers

LEMMA ReinstallPlan ==
  ASSUME manager \in AllManagers, exe = "whole", NEW s, s = InstallService(<<>>)
  PROVE  PlanOK(s, "install")
  <1>0. exe = "whole"
    OBVIOUS
  <1>1. CASE manager = "systemd"
    <2>1. /\ s \in Seq(Steps) /\ Len(s) = 4 /\ s[1] = "unit"
          /\ s[2] = "reload" /\ s[3] = "enable" /\ s[4] = "start"
      BY <1>1 DEF InstallService, InstallSystemd, Steps
    <2>2. Ordered(s)
      BY <2>1 DEF Ordered, Undoing
    <2>3. \A j \in 1 .. Len(s) : s[j] \notin Undoing \cup {"purge"}
      BY <2>1 DEF Undoing
    <2> QED
      BY <1>0, <2>1, <2>2, <2>3 DEF PlanOK
  <1>2. CASE manager = "openrc" \/ manager = "sysv" \/ manager = "runit"
    <2>1. /\ s \in Seq(Steps) /\ Len(s) = 3 /\ s[1] = "unit" /\ s[2] = "enable"
          /\ s[3] = "start"
      <3>1. CASE manager = "openrc"
        BY <3>1 DEF InstallService, InstallOpenRC, InstallSysV, InstallRunit, Steps
      <3>2. CASE manager = "sysv"
        BY <3>2 DEF InstallService, InstallOpenRC, InstallSysV, InstallRunit, Steps
      <3>3. CASE manager = "runit"
        BY <3>3 DEF InstallService, InstallOpenRC, InstallSysV, InstallRunit, Steps
      <3> QED
        BY <1>2, <3>1, <3>2, <3>3
    <2>2. Ordered(s)
      BY <2>1 DEF Ordered, Undoing
    <2>3. \A j \in 1 .. Len(s) : s[j] \notin Undoing \cup {"purge"}
      BY <2>1 DEF Undoing
    <2> QED
      BY <1>0, <2>1, <2>2, <2>3 DEF PlanOK
  <1>3. CASE manager = "launchd" \/ manager = "bsdrc"
    <2>1. s \in Seq(Steps) /\ Len(s) = 2 /\ s[1] = "unit" /\ s[2] = "start"
      <3>1. CASE manager = "launchd"
        BY <3>1 DEF InstallService, InstallLaunchd, InstallBSDRC, Steps
      <3>2. CASE manager = "bsdrc"
        BY <3>2 DEF InstallService, InstallLaunchd, InstallBSDRC, Steps
      <3> QED
        BY <1>3, <3>1, <3>2
    <2>2. Ordered(s)
      BY <2>1 DEF Ordered, Undoing
    <2>3. \A j \in 1 .. Len(s) : s[j] \notin Undoing \cup {"purge"}
      BY <2>1 DEF Undoing
    <2> QED
      BY <1>0, <2>1, <2>2, <2>3 DEF PlanOK
  <1> QED
    BY <1>1, <1>2, <1>3 DEF AllManagers

LEMMA UninstallPlan ==
  ASSUME manager \in AllManagers, NEW s, s = UninstallService
  PROVE  PlanOK(s, "uninstall")
  <1>1. CASE manager = "systemd"
    <2>1. /\ s \in Seq(Steps) /\ Len(s) = 5 /\ s[1] = "stop" /\ s[2] = "disable"
          /\ s[3] = "remove" /\ s[4] = "reload" /\ s[5] = "purge"
      BY <1>1 DEF UninstallService, UninstallSystemd, Steps
    <2> QED
      BY <2>1 DEF PlanOK, Ordered, Before, Undoing
  <1>2. CASE manager = "openrc" \/ manager = "sysv" \/ manager = "runit"
    <2>1. /\ s \in Seq(Steps) /\ Len(s) = 4 /\ s[1] = "stop" /\ s[2] = "disable"
          /\ s[3] = "remove" /\ s[4] = "purge"
      <3>1. CASE manager = "openrc"
        BY <3>1 DEF UninstallService, UninstallOpenRC, UninstallSysV, UninstallRunit, Steps
      <3>2. CASE manager = "sysv"
        BY <3>2 DEF UninstallService, UninstallOpenRC, UninstallSysV, UninstallRunit, Steps
      <3>3. CASE manager = "runit"
        BY <3>3 DEF UninstallService, UninstallOpenRC, UninstallSysV, UninstallRunit, Steps
      <3> QED
        BY <1>2, <3>1, <3>2, <3>3
    <2> QED
      BY <2>1 DEF PlanOK, Ordered, Before, Undoing
  <1>3. CASE manager = "launchd" \/ manager = "bsdrc"
    <2>1. /\ s \in Seq(Steps) /\ Len(s) = 3 /\ s[1] = "stop" /\ s[2] = "remove"
          /\ s[3] = "purge"
      <3>1. CASE manager = "launchd"
        BY <3>1 DEF UninstallService, UninstallLaunchd, UninstallBSDRC, Steps
      <3>2. CASE manager = "bsdrc"
        BY <3>2 DEF UninstallService, UninstallLaunchd, UninstallBSDRC, Steps
      <3> QED
        BY <1>3, <3>1, <3>2
    <2> QED
      BY <2>1 DEF PlanOK, Ordered, Before, Undoing
  <1> QED
    BY <1>1, <1>2, <1>3 DEF AllManagers

LEMMA ShortPlan ==
  ASSUME NEW cmd, NEW s, s \in {Disable, Restart, <<"start">>, <<"stop">>, <<>>}
  PROVE  PlanOK(s, cmd)
  <1>1. CASE s = Disable
    <2>1. s \in Seq(Steps) /\ Len(s) = 2 /\ s[1] = "stop" /\ s[2] = "disable"
      BY <1>1 DEF Disable, Steps
    <2> QED
      BY <2>1 DEF PlanOK, Ordered, Before, Undoing
  <1>2. CASE s = Restart
    <2>1. s \in Seq(Steps) /\ Len(s) = 2 /\ s[1] = "stop" /\ s[2] = "start"
      BY <1>2 DEF Restart, Steps
    <2> QED
      BY <2>1 DEF PlanOK, Ordered, Before, Undoing
  <1>3. CASE s = <<"start">> \/ s = <<"stop">>
    <2>1. s \in Seq(Steps) /\ Len(s) = 1 /\ s[1] \in {"start", "stop"}
      <3>1. CASE s = <<"start">>
        BY <3>1 DEF Steps
      <3>2. CASE s = <<"stop">>
        BY <3>2 DEF Steps
      <3> QED
        BY <1>3, <3>1, <3>2
    <2> QED
      BY <2>1 DEF PlanOK, Ordered, Before, Undoing
  <1>4. CASE s = <<>>
    <2>1. s \in Seq(Steps) /\ Len(s) = 0
      BY <1>4
    <2> QED
      BY <2>1 DEF PlanOK, Ordered
  <1> QED
    BY <1>1, <1>2, <1>3, <1>4
LEMMA TodoTail ==
  ASSUME ServiceInv, todo # <<>>
  PROVE  /\ Head(todo) = todo[1] /\ 1 \in 1 .. Len(todo) /\ Head(todo) \in Steps
         /\ Tail(todo) \in Seq(Steps) /\ Len(Tail(todo)) = Len(todo) - 1 /\ Len(todo) \in 0 .. 6
         /\ \A j \in 1 .. Len(Tail(todo)) : Tail(todo)[j] = todo[j + 1] /\ j + 1 \in 1 .. Len(todo)
  <1>1. todo \in Seq(Steps) /\ Len(todo) <= 6
    BY DEF ServiceInv, ServiceTypeOK
  <1>2. Len(todo) \in Nat /\ Len(todo) # 0
    <2>1. Len(todo) \in Nat
      BY <1>1
    <2>2. todo \in Seq(Steps) /\ Len(todo) = 0 => todo = <<>>
      OBVIOUS
    <2> QED
      BY <1>1, <2>1, <2>2
  <1>3. Head(todo) = todo[1] /\ 1 \in 1 .. Len(todo) /\ Len(todo) \in 0 .. 6
    <2>1. Head(todo) = todo[1]
      BY <1>1
    <2>2. \A n \in Nat : n # 0 /\ n <= 6 => 1 \in 1 .. n /\ n \in 0 .. 6
      OBVIOUS
    <2> QED
      BY <1>1, <1>2, <2>1, <2>2
  <1>4. Tail(todo) \in Seq(Steps) /\ Len(Tail(todo)) = Len(todo) - 1
    BY <1>1, <1>2
  <1>5. todo[1] \in Steps
    BY <1>1, <1>3
  <1>6. \A j \in 1 .. Len(Tail(todo)) : Tail(todo)[j] = todo[j + 1] /\ j + 1 \in 1 .. Len(todo)
    BY <1>1, <1>2, <1>4
  <1> QED
    BY <1>3, <1>4, <1>5, <1>6

\* What the rest of a command relies on when a step has been made.
LEMMA TodoGoesOn ==
  ASSUME ServiceInv, todo # <<>>, todo' = Tail(todo), manager' = manager, svcCmd' = svcCmd,
         Head(todo) = "stop" => Stopped',
         Head(todo) # "start" /\ Stopped => Stopped',
         Head(todo) = "remove" /\ svcCmd = "uninstall" => Withdrawn',
         Head(todo) # "unit" /\ Withdrawn => Withdrawn',
         Head(todo) = "truncate" => exe' # "none",
         exe # "none" => exe' # "none"
  PROVE  TodoOK'
  <1>1. /\ Head(todo) = todo[1] /\ 1 \in 1 .. Len(todo) /\ Len(todo') = Len(todo) - 1
        /\ Len(todo) \in Nat
        /\ \A j \in 1 .. Len(todo') : todo'[j] = todo[j + 1] /\ j + 1 \in 1 .. Len(todo)
    BY TodoTail
  <1>2. TodoOK
    BY DEF ServiceInv
  <1>3. ASSUME NEW j \in 1 .. Len(todo'), NEW step, Before(todo, j + 1, step)
        PROVE  Head(todo) = step \/ Before(todo', j, step)
    <2>1. PICK i \in 1 .. Len(todo) : i < j + 1 /\ todo[i] = step
      BY <1>3 DEF Before
    <2>2. CASE i = 1
      BY <1>1, <2>1, <2>2
    <2>3. CASE i # 1
      <3>1. i - 1 \in 1 .. Len(todo') /\ i - 1 < j /\ (i - 1) + 1 = i
        BY <1>1, <2>1, <2>3
      <3>2. todo'[i - 1] = step
        BY <1>1, <2>1, <3>1
      <3> QED
        BY <3>1, <3>2 DEF Before
    <2> QED
      BY <2>2, <2>3
  <1>4. Ordered(todo')
    <2> SUFFICES ASSUME NEW i \in 1 .. Len(todo'), NEW j \in 1 .. Len(todo'), i < j,
                        todo'[j] \in Undoing
                 PROVE  todo'[i] \notin {"unit", "start"}
      BY DEF Ordered
    <2>1. i + 1 \in 1 .. Len(todo) /\ j + 1 \in 1 .. Len(todo) /\ i + 1 < j + 1
      BY <1>1
    <2> QED
      BY <1>1, <1>2, <2>1 DEF TodoOK, Ordered
  <1>5. ASSUME NEW j \in 1 .. Len(todo')
        PROVE  /\ todo'[j] = "purge" => svcCmd' = "uninstall"
               /\ todo'[j] \in {"enable", "truncate"} => svcCmd' = "install"
               /\ todo'[j] \in Undoing => Stopped' \/ Before(todo', j, "stop")
               /\ todo'[j] = "purge" => Withdrawn' \/ Before(todo', j, "remove")
               /\ todo'[j] = "enable" /\ manager' \in Booting =>
                     exe' # "none" \/ Before(todo', j, "truncate")
    <2>1. todo'[j] = todo[j + 1] /\ j + 1 \in 1 .. Len(todo) /\ 1 < j + 1
      BY <1>1
    <2>2. /\ todo[j + 1] = "purge" => svcCmd = "uninstall"
          /\ todo[j + 1] \in {"enable", "truncate"} => svcCmd = "install"
          /\ todo[j + 1] \in Undoing => Stopped \/ Before(todo, j + 1, "stop")
          /\ todo[j + 1] = "purge" => Withdrawn \/ Before(todo, j + 1, "remove")
          /\ todo[j + 1] = "enable" /\ manager \in Booting =>
                exe # "none" \/ Before(todo, j + 1, "truncate")
      BY <1>2, <2>1 DEF TodoOK
    <2>3. todo[j + 1] \in Undoing => Head(todo) \notin {"unit", "start"}
      BY <1>1, <1>2, <2>1 DEF TodoOK, Ordered
    <2>4. todo[j + 1] \in Undoing => Stopped' \/ Before(todo', j, "stop")
      BY <1>3, <2>2, <2>3
    <2>5. todo[j + 1] = "purge" => Withdrawn' \/ Before(todo', j, "remove")
      BY <1>3, <2>2, <2>3 DEF Undoing
    <2>6. todo[j + 1] = "enable" /\ manager \in Booting =>
             exe' # "none" \/ Before(todo', j, "truncate")
      BY <1>3, <2>2
    <2> QED
      BY <2>1, <2>2, <2>4, <2>5, <2>6
  <1> QED
    BY <1>4, <1>5 DEF TodoOK

LEMMA TodoEnds == ASSUME todo' = <<>> PROVE TodoOK' /\ todo' \in Seq(Steps) /\ Len(todo') <= 6
  <1>1. Len(todo') = 0 /\ todo' \in Seq(Steps)
    OBVIOUS
  <1> QED
    BY <1>1 DEF TodoOK, Ordered

\* The first step of a command finds what the plan promises.
LEMMA HeadOK ==
  ASSUME ServiceInv, todo # <<>>
  PROVE  /\ Head(todo) \in Undoing => Stopped
         /\ Head(todo) = "purge" => Withdrawn
         /\ Head(todo) = "enable" /\ manager \in Booting => exe # "none"
         /\ Head(todo) \in {"enable", "truncate"} => svcCmd = "install"
         /\ Head(todo) = "purge" => svcCmd = "uninstall"
  <1>1. Head(todo) = todo[1] /\ 1 \in 1 .. Len(todo) /\ Len(todo) \in Nat
    BY TodoTail
  <1>2. \A step : ~Before(todo, 1, step)
    BY <1>1 DEF Before
  <1> QED
    BY <1>1, <1>2 DEF ServiceInv, TodoOK
LEMMA ServiceInitInv == ServiceInit => ServiceInv
  <1> SUFFICES ASSUME ServiceInit PROVE ServiceInv
    OBVIOUS
  <1>1. todo = <<>> /\ Len(todo) = 0 /\ todo \in Seq(Steps)
    BY DEF ServiceInit
  <1>2. ServiceTypeOK
    <2>1. unit \in BOOLEAN /\ enabled \in BOOLEAN /\ online \in BOOLEAN /\ dirs \in BOOLEAN
          /\ unstopped \in BOOLEAN /\ cutCopy \in BOOLEAN
      BY DEF ServiceInit
    <2>2. given \in 0 .. MaxServiceCommands /\ svcFaults \in 0 .. MaxServiceFaults
      BY ServiceAssumption DEF ServiceInit
    <2>3. /\ manager \in Managers /\ exe \in {"none", "torn", "whole"}
          /\ svcCmd \in ServiceCommands \cup {"none"}
      BY DEF ServiceInit
    <2> QED
      BY <1>1, <2>1, <2>2, <2>3 DEF ServiceTypeOK
  <1>3. TodoOK
    BY <1>1 DEF TodoOK, Ordered
  <1>4. MachineOK
    BY DEF ServiceInit, MachineOK, Booting
  <1> QED
    BY <1>2, <1>3, <1>4 DEF ServiceInv

\* A command is given.
LEMMA GivenInv ==
  ASSUME ServiceInv, NEW cmd \in ServiceCommands, NEW user, Service(cmd, user)
  PROVE  ServiceInv'
  <1>0. /\ UNCHANGED <<manager, svcFaults>> /\ unit' = unit /\ exe' = exe /\ enabled' = enabled
        /\ online' = online /\ dirs' = dirs /\ unstopped' = unstopped /\ cutCopy' = cutCopy
        /\ svcCmd' = cmd /\ given' = given + 1 /\ given < MaxServiceCommands /\ Given(cmd)
    BY DEF Service, machineVars
  <1>1. manager \in AllManagers
    BY ServiceTyping DEF ServiceInv
  <1>2. PICK s : s = todo' /\ PlanOK(s, cmd)
    <2>1. CASE cmd = "install" /\ todo' = InstallService(CopyBinary)
      BY <1>1, <2>1, InstallPlan
    <2>2. CASE cmd = "install" /\ exe = "whole" /\ todo' = InstallService(<<>>)
      BY <1>1, <2>2, ReinstallPlan
    <2>3. CASE cmd = "uninstall" /\ todo' = UninstallService
      BY <1>1, <2>3, UninstallPlan
    <2>4. CASE todo' \in {Disable, Restart, <<"start">>, <<"stop">>, <<>>}
      BY <2>4, ShortPlan
    <2> QED
      BY <1>0, <2>1, <2>2, <2>3, <2>4 DEF Given, Reload
  <1>3. given' \in 0 .. MaxServiceCommands
    BY <1>0, ServiceAssumption DEF ServiceInv, ServiceTypeOK
  <1>4. ServiceTypeOK'
    <2>1. {unit', enabled', online', dirs', unstopped', cutCopy'} \subseteq BOOLEAN
      BY <1>0 DEF ServiceInv, ServiceTypeOK
    <2>2. todo' \in Seq(Steps) /\ Len(todo') <= 6
      BY <1>2 DEF PlanOK
    <2> QED
      BY <1>0, <1>3, <2>1, <2>2 DEF ServiceInv, ServiceTypeOK
  <1>5. TodoOK'
    BY <1>0, <1>2 DEF PlanOK, TodoOK
  <1>6. MachineOK'
    BY <1>0 DEF ServiceInv, MachineOK, CanStop
  <1> QED
    BY <1>4, <1>5, <1>6 DEF ServiceInv

\* A step that works leaves what the next ones rely on.
LEMMA StepDoneInv == ASSUME ServiceInv, StepDone PROVE ServiceInv'
  <1> DEFINE step == Head(todo)
  <1>0. /\ todo # <<>> /\ Possible(step) /\ Works(step) /\ todo' = Tail(todo)
        /\ UNCHANGED <<manager, svcCmd, given, svcFaults>> /\ unstopped' = unstopped
    BY DEF StepDone
  <1>1. /\ step \in Undoing => Stopped
        /\ step = "enable" /\ manager \in Booting => exe # "none"
    BY <1>0, HeadOK
  <1>2. /\ unit' = (IF step = "unit" THEN TRUE ELSE IF step = "remove" THEN FALSE ELSE unit)
        /\ exe' = (IF step = "truncate" THEN "torn" ELSE IF step = "copy" THEN "whole" ELSE exe)
        /\ enabled' = (IF step = "enable" THEN TRUE ELSE IF step = "disable" THEN FALSE ELSE enabled)
        /\ online' = (IF step = "start" THEN TRUE ELSE IF step = "stop" THEN FALSE ELSE online)
        /\ cutCopy' = (IF step = "truncate" THEN TRUE ELSE IF step = "copy" THEN FALSE ELSE cutCopy)
        /\ dirs' \in BOOLEAN
    BY <1>0, ServiceTyping DEF Works, Provisions, ServiceInv
  <1>3. /\ todo' \in Seq(Steps) /\ Len(todo') <= 6
    BY <1>0, TodoTail
  <1> HIDE DEF step
  <1>4. ServiceTypeOK'
    <2>1. /\ unit' \in BOOLEAN /\ enabled' \in BOOLEAN /\ online' \in BOOLEAN
          /\ cutCopy' \in BOOLEAN /\ unstopped' \in BOOLEAN
      BY <1>0, <1>2, ServiceTyping DEF ServiceInv
    <2>2. exe' \in {"none", "torn", "whole"}
      BY <1>2 DEF ServiceInv, ServiceTypeOK
    <2> QED
      BY <1>0, <1>2, <1>3, <2>1, <2>2 DEF ServiceInv, ServiceTypeOK
  <1>5. TodoOK'
    <2>1. step = "stop" => Stopped'
      BY <1>2 DEF Stopped
    <2>2. step # "start" /\ Stopped => Stopped'
      BY <1>0, <1>2 DEF Stopped
    <2>3. step = "remove" => Withdrawn'
      BY <1>2 DEF Withdrawn
    <2>4. step # "unit" /\ Withdrawn => Withdrawn'
      BY <1>0, <1>2 DEF Withdrawn
    <2>5. /\ step = "truncate" => exe' # "none"
          /\ exe # "none" => exe' # "none"
      BY <1>2
    <2> QED
      BY <1>0, <2>1, <2>2, <2>3, <2>4, <2>5, TodoGoesOn DEF step
  <1>6. MachineOK'
    <2>1. ASSUME online', ~unstopped' PROVE CanStop'
      <3>1. CASE step = "start"
        <4>1. online \/ CanStart
          BY <1>0, <3>1 DEF Possible
        <4>2. CanStop
          BY <1>0, <2>1, <4>1 DEF CanStart, CanStop, ServiceInv, MachineOK
        <4> QED
          BY <1>0, <1>2, <3>1, <4>2 DEF CanStop
      <3>2. CASE step # "start"
        <4>1. online /\ ~unstopped
          BY <1>0, <1>2, <2>1, <3>2
        <4>2. step \notin Undoing /\ CanStop
          BY <1>1, <4>1 DEF Stopped, ServiceInv, MachineOK
        <4> QED
          BY <1>0, <1>2, <4>2 DEF CanStop, Undoing
      <3> QED
        BY <3>1, <3>2
    <2>2. exe' = "torn" => cutCopy'
      BY <1>2 DEF ServiceInv, MachineOK
    <2>3. manager' \in Booting /\ enabled' => exe' # "none"
      BY <1>0, <1>1, <1>2 DEF ServiceInv, MachineOK
    <2> QED
      BY <2>1, <2>2, <2>3 DEF MachineOK
  <1> QED
    BY <1>4, <1>5, <1>6 DEF ServiceInv

\* A step that fails ends the command, or its failure does not matter or is kept in
\* mind; a server that runs can be stopped, so what fails to stop it is a fault.
LEMMA StepFailsInv == ASSUME ServiceInv, StepFails PROVE ServiceInv'
  <1>0. /\ todo # <<>> /\ UNCHANGED <<manager, svcCmd, given>> /\ unit' = unit /\ exe' = exe
        /\ enabled' = enabled /\ online' = online /\ dirs' = dirs /\ cutCopy' = cutCopy
        /\ todo' = IF Fatal(Head(todo)) THEN <<>> ELSE Tail(todo)
        /\ unstopped' = (unstopped \/ (Head(todo) = "stop" /\ Possible("stop")))
        /\ svcFaults' = IF Possible(Head(todo)) THEN svcFaults + 1 ELSE svcFaults
        /\ Possible(Head(todo)) => svcFaults < MaxServiceFaults
    BY DEF StepFails, machineVars
  <1>1. svcFaults' \in 0 .. MaxServiceFaults
    BY <1>0, ServiceAssumption DEF ServiceInv, ServiceTypeOK
  <1>2. unstopped' \in BOOLEAN /\ (unstopped => unstopped')
    BY <1>0
  <1>3. MachineOK'
    BY <1>0, <1>2 DEF ServiceInv, MachineOK, CanStop
  <1>4. TodoOK' /\ todo' \in Seq(Steps) /\ Len(todo') <= 6
    <2>1. CASE todo' = <<>>
      BY <2>1, TodoEnds
    <2>2. CASE todo' # <<>>
      <3>1. todo' = Tail(todo) /\ ~Fatal(Head(todo))
        BY <1>0, <2>2
      <3>2. Stopped => Stopped'
        BY <1>0, <1>2 DEF Stopped
      <3>3. Withdrawn => Withdrawn'
        BY <1>0 DEF Withdrawn
      <3>4. Head(todo) = "stop" => Stopped'
        <4> SUFFICES ASSUME Head(todo) = "stop", online, ~unstopped PROVE unstopped'
          BY <1>0, <1>2 DEF Stopped
        <4>1. CanStop
          BY DEF ServiceInv, MachineOK
        <4>2. Possible("stop")
          BY <4>1 DEF Possible
        <4> QED
          BY <1>0, <4>2
      <3>5. Head(todo) = "remove" /\ svcCmd = "uninstall" => Withdrawn'
        BY <1>0, <3>1 DEF Fatal, Withdrawn
      <3>6. Head(todo) # "truncate"
        BY <1>0, <3>1, HeadOK DEF Fatal
      <3>7. TodoOK'
        BY <1>0, <3>1, <3>2, <3>3, <3>4, <3>5, <3>6, TodoGoesOn
      <3> QED
        BY <1>0, <3>1, <3>7, TodoTail
    <2> QED
      BY <2>1, <2>2
  <1>5. ServiceTypeOK'
    <2>1. {unit', enabled', online', dirs', unstopped', cutCopy'} \subseteq BOOLEAN
      BY <1>0, <1>2, ServiceTyping DEF ServiceInv
    <2> QED
      BY <1>0, <1>1, <1>4, <2>1 DEF ServiceInv, ServiceTypeOK
  <1> QED
    BY <1>3, <1>4, <1>5 DEF ServiceInv

LEMMA MachineInv ==
  ASSUME ServiceInv, Reboot \/ ServerExits \/ CommandKilled \/ OperatorEnables
  PROVE  ServiceInv'
  <1>0. /\ UNCHANGED <<manager, svcCmd, given, svcFaults>> /\ unit' = unit /\ exe' = exe
        /\ cutCopy' = cutCopy /\ unstopped' = unstopped
    BY DEF Reboot, ServerExits, CommandKilled, OperatorEnables, machineVars
  <1>1. /\ unit \in BOOLEAN /\ enabled \in BOOLEAN /\ online \in BOOLEAN /\ dirs \in BOOLEAN
        /\ unstopped \in BOOLEAN /\ cutCopy \in BOOLEAN
    BY ServiceTyping DEF ServiceInv
  <1>2. todo \in Seq(Steps) /\ Len(todo) <= 6 /\ TodoOK /\ MachineOK
    BY DEF ServiceInv, ServiceTypeOK
  <1>3. ASSUME enabled' \in BOOLEAN, online' \in BOOLEAN, dirs' \in BOOLEAN, MachineOK',
               \/ todo' = <<>>
               \/ todo' = todo /\ (Stopped => Stopped')
        PROVE  ServiceInv'
    <2>1. TodoOK' /\ todo' \in Seq(Steps) /\ Len(todo') <= 6
      <3>1. CASE todo' = <<>>
        BY <3>1, TodoEnds
      <3>2. CASE todo' = todo /\ (Stopped => Stopped')
        <4>1. Withdrawn => Withdrawn'
          BY <1>0 DEF Withdrawn
        <4> QED
          BY <1>0, <1>2, <3>2, <4>1 DEF TodoOK
      <3> QED
        BY <1>3, <3>1, <3>2
    <2>2. {unit', enabled', online', dirs', unstopped', cutCopy'} \subseteq BOOLEAN
      BY <1>0, <1>1, <1>3
    <2>3. ServiceTypeOK'
      BY <1>0, <2>1, <2>2 DEF ServiceInv, ServiceTypeOK
    <2> QED
      BY <1>3, <2>1, <2>3 DEF ServiceInv
  <1>4. CASE Reboot
    <2>1. /\ todo' = <<>> /\ online' = (unit /\ enabled /\ exe = "whole")
          /\ dirs' = (dirs \/ online') /\ enabled' = enabled
      BY <1>4 DEF Reboot
    <2>2. online' \in BOOLEAN /\ dirs' \in BOOLEAN /\ enabled' \in BOOLEAN
      BY <1>1, <2>1
    <2>3. MachineOK'
      BY <1>0, <1>2, <2>1 DEF MachineOK, CanStop
    <2> QED
      BY <1>3, <2>1, <2>2, <2>3
  <1>5. CASE ServerExits
    <2>1. online' = FALSE /\ enabled' = enabled /\ dirs' = dirs /\ todo' = todo
      BY <1>5 DEF ServerExits
    <2>2. MachineOK' /\ Stopped'
      BY <1>0, <1>2, <2>1 DEF MachineOK, Stopped
    <2> QED
      BY <1>1, <1>3, <2>1, <2>2
  <1>6. CASE CommandKilled
    <2>1. online' = online /\ enabled' = enabled /\ dirs' = dirs /\ todo' = <<>>
      BY <1>6 DEF CommandKilled, machineVars
    <2>2. MachineOK'
      BY <1>0, <1>2, <2>1 DEF MachineOK, CanStop
    <2> QED
      BY <1>1, <1>3, <2>1, <2>2
  <1>7. CASE OperatorEnables
    <2>1. /\ online' = online /\ enabled' = TRUE /\ dirs' = dirs /\ todo' = todo
          /\ manager = "bsdrc"
      BY <1>7 DEF OperatorEnables
    <2>2. MachineOK'
      BY <1>0, <1>2, <2>1 DEF MachineOK, CanStop, Booting
    <2>3. Stopped => Stopped'
      BY <1>0, <2>1 DEF Stopped
    <2> QED
      BY <1>1, <1>3, <2>1, <2>2, <2>3
  <1> QED
    BY <1>4, <1>5, <1>6, <1>7

\* ServiceSound: whichever step of a command fails, is killed or is cut short by a
\* reboot, Uninstall purges nothing a server uses and no manager boots into a binary
\* that Install did not finish, unless stopping failed or a copy was cut short.
THEOREM ServiceIsSound == ServiceSpec => []ServiceSound
  <1>1. ServiceInv => ServiceSound
    <2> SUFFICES ASSUME ServiceInv PROVE ServiceSound
      OBVIOUS
    <2>1. PurgeAfterStop
      BY HeadOK DEF PurgeAfterStop, Undoing, Stopped, Withdrawn
    <2>2. BootsWhole
      <3> SUFFICES ASSUME manager \in Booting, enabled, ~cutCopy PROVE exe = "whole"
        BY DEF BootsWhole, Booting
      <3>1. exe # "none" /\ exe # "torn" /\ exe \in {"none", "torn", "whole"}
        BY DEF ServiceInv, MachineOK, ServiceTypeOK
      <3> QED
        BY <3>1
    <2> QED
      BY <2>1, <2>2 DEF ServiceInv, ServiceSound
  <1>2. ServiceInv /\ [ServiceNext]_serviceVars => ServiceInv'
    <2> SUFFICES ASSUME ServiceInv, [ServiceNext]_serviceVars PROVE ServiceInv'
      OBVIOUS
    <2>1. CASE UNCHANGED serviceVars
      <3>1. /\ manager' = manager /\ todo' = todo /\ svcCmd' = svcCmd /\ given' = given
            /\ svcFaults' = svcFaults /\ unit' = unit /\ exe' = exe /\ enabled' = enabled
            /\ online' = online /\ dirs' = dirs /\ unstopped' = unstopped /\ cutCopy' = cutCopy
        BY <2>1 DEF serviceVars, machineVars
      <3>2. ServiceTypeOK'
        BY <3>1 DEF ServiceInv, ServiceTypeOK
      <3>3. TodoOK'
        <4>1. (Stopped <=> Stopped') /\ (Withdrawn <=> Withdrawn')
          BY <3>1 DEF Stopped, Withdrawn
        <4> QED
          BY <3>1, <4>1 DEF ServiceInv, TodoOK
      <3>4. MachineOK'
        BY <3>1 DEF ServiceInv, MachineOK, CanStop
      <3> QED
        BY <3>2, <3>3, <3>4 DEF ServiceInv
    <2>2. CASE \E cmd \in ServiceCommands, user \in {"root", "admin", "other"} : Service(cmd, user)
      BY <2>2, GivenInv
    <2>3. CASE StepDone \/ StepFails
      BY <2>3, StepDoneInv, StepFailsInv
    <2>4. CASE Reboot \/ ServerExits \/ CommandKilled \/ OperatorEnables
      BY <2>4, MachineInv
    <2> QED
      BY <2>1, <2>2, <2>3, <2>4 DEF ServiceNext
  <1> QED
    BY <1>1, <1>2, ServiceInitInv, PTL DEF ServiceSpec
(***************************************************************************)
(* Log files.  Retention looks at the number and the day of a file's last  *)
(* line.  Counted retention may remove any part of what it found, even a   *)
(* file newer than one it leaves: of the files found, the newest has the   *)
(* counted number of newer files beside it, none of which was found.       *)
(***************************************************************************)
\* The last line of a file gives its last number and day.
LastOK(file) ==
    /\ \A l \in file.lines : l.n <= file.last /\ l.day <= file.day
    /\ file.last = 0 \/ \E l \in file.lines : l.n = file.last

OneDay(d) == \A f \in DOMAIN d : \A l \in d[f].lines : l.day = d[f].day

Named(f) == f \in Name /\ (f = Live \/ f = External \/ f.kind = "rotated")

\* A directory whose lines are all among the acknowledged ones, a.
GoodDir(d, a, c) ==
    /\ IsFiniteSet(DOMAIN d)
    /\ \A f \in DOMAIN d : Named(f) /\ d[f] \in File /\ d[f].lines \subseteq a
    /\ \A f \in DOMAIN d : LastOK(d[f]) /\ d[f].day <= date.day
    /\ c.held /\ c.daily => OneDay(d)

\* Lines are numbered in the order they are written.
Numbered(a) ==
    /\ IsFiniteSet(a) /\ a \subseteq Line
    /\ \A l \in a : l.n <= Cardinality(a) /\ l.day <= date.day
    /\ \A l, m \in a : l.n < m.n => l.day <= m.day

\* A held handle is on the live file, or on one that logrotate took away; the period
\* it remembers is not after the lines of its file.
HandleOK ==
    /\ logcfg.held =>
         /\ handle \in {NoFile, Live, External, Unlinked}
         /\ handle \in {External, Unlinked} => logcfg.external /\ Live \notin DOMAIN files
         /\ handle \in DOMAIN files /\ files[handle].lines # {} => periodStart <= files[handle].day
    /\ ~logcfg.held /\ handle # NoFile => Cardinality(acked) < MaxLines
    /\ OnlyRenames => handle # Unlinked

RotorOK ==
    /\ logcfg.held => rotor.pc = "idle"
    /\ rotor.pc \in {"trim", "unlink"} => rotor.name \in DOMAIN files /\ rotor.name.kind = "rotated"
    /\ rotor.pc = "unlink" => logcfg.compress

\* NewestStay, of any files and expired lines.
NewerThan(d, k) == {f \in DOMAIN d \ {Live} : d[f].last > k}

Counting == logcfg.keep = "count" /\ ~logcfg.compress

Retained(d, e) ==
    /\ Counting => \A l \in e : Cardinality(NewerThan(d, l.n)) >= logcfg.n
    /\ logcfg.keep = "age" => \A l \in e : date.day > l.day + logcfg.n

LogInv ==
    /\ LogTypeOK /\ expired \subseteq acked /\ periodStart <= date.day
    /\ Numbered(acked) /\ GoodDir(files, acked, logcfg)
    /\ HandleOK /\ RotorOK /\ LinesKept /\ NewestStay

LEMMA LogTyping ==
    ASSUME LogInv
    PROVE  /\ logcfg \in LogPolicy /\ logcfg.held \in BOOLEAN /\ logcfg.daily \in BOOLEAN
           /\ logcfg.compress => ~logcfg.held
           /\ date.day \in 0 .. LogMaxDay /\ date.day \in Nat /\ date.sec \in 1 .. Seconds
           /\ acked \subseteq Line /\ Cardinality(acked) \in Nat
           /\ periodStart \in Nat /\ handle \in DOMAIN files \cup {NoFile, Unlinked}
<1>1. logcfg \in LogConfigs /\ logcfg \in LogPolicy
  BY LogAssumption DEF LogInv, LogTypeOK
<1>2. /\ logcfg.held \in BOOLEAN /\ logcfg.daily \in BOOLEAN
      /\ logcfg.compress => ~logcfg.held
  BY <1>1, LogAssumption DEF LogPolicy
<1>3. date.day \in 0 .. LogMaxDay /\ date.day \in Nat /\ date.sec \in 1 .. Seconds
  BY LogAssumption DEF LogInv, LogTypeOK
<1>4. acked \subseteq Line /\ IsFiniteSet(acked)
  BY DEF LogInv, LogTypeOK, Numbered
<1>5. periodStart \in Nat /\ handle \in DOMAIN files \cup {NoFile, Unlinked}
  BY LogAssumption DEF LogInv, LogTypeOK
<1> QED BY <1>1, <1>2, <1>3, <1>4, <1>5, FS_CardinalityType

LEMMA SpecialNames ==
    /\ Live \in Name /\ External \in Name /\ NoFile \in Name /\ Unlinked \in Name
    /\ Live # External /\ Live # NoFile /\ Live # Unlinked /\ External # NoFile
    /\ External # Unlinked /\ NoFile # Unlinked
    /\ \A f : Named(f) => f # NoFile /\ f # Unlinked
    /\ \A f : f.kind = "rotated" => f # NoFile /\ f # Unlinked /\ f # Live /\ f # External
BY LogAssumption DEF Live, External, NoFile, Unlinked, Special, Name, Named

LEMMA InLines ==
    ASSUME NEW d, NEW S, NEW l
    PROVE  l \in Lines(d, S) <=> \E f \in S \cap DOMAIN d : l \in d[f].lines
BY DEF Lines

\* Removing files leaves a good directory, and loses only their lines.
LEMMA GoodWithout ==
    ASSUME NEW d, NEW a, NEW c, GoodDir(d, a, c), NEW S
    PROVE  /\ GoodDir(Without(d, S), a, c)
           /\ Lines(d, DOMAIN d) = Lines(d, S) \cup Lines(Without(d, S), DOMAIN Without(d, S))
<1>1. PICK w : w = Without(d, S)
  OBVIOUS
<1>2. DOMAIN w = DOMAIN d \ S /\ \A f \in DOMAIN w : w[f] = d[f]
  BY <1>1 DEF Without
<1>3. IsFiniteSet(DOMAIN w)
  BY <1>2, FS_Subset DEF GoodDir
<1>4. \A f \in DOMAIN w : LastOK(w[f]) /\ w[f].day <= date.day
  BY <1>2 DEF GoodDir
<1>5. c.held /\ c.daily => OneDay(w)
  BY <1>2 DEF GoodDir, OneDay
<1>6. GoodDir(w, a, c)
  BY <1>2, <1>3, <1>4, <1>5 DEF GoodDir
<1>7. \A l : l \in Lines(d, DOMAIN d) <=> l \in Lines(d, S) \cup Lines(w, DOMAIN w)
  <2>1. \A l : l \in Lines(d, DOMAIN d) <=> \E f \in DOMAIN d : l \in d[f].lines
    BY InLines
  <2>2. \A l : l \in Lines(w, DOMAIN w) <=> \E f \in DOMAIN w : l \in w[f].lines
    BY InLines
  <2>3. \A l : l \in Lines(d, S) <=> \E f \in S \cap DOMAIN d : l \in d[f].lines
    BY InLines
  <2> QED BY <1>2, <2>1, <2>2, <2>3
<1> QED BY <1>1, <1>6, <1>7

\* Renaming the live file to a new name keeps every line.
LEMMA GoodRename ==
    ASSUME NEW d, NEW a, NEW c, GoodDir(d, a, c), Live \in DOMAIN d,
           NEW name, Named(name), name # Live, name \notin DOMAIN d
    PROVE  LET r == Put(Without(d, {Live}), name, d[Live])
           IN  /\ GoodDir(r, a, c) /\ Lines(r, DOMAIN r) = Lines(d, DOMAIN d)
               /\ Live \notin DOMAIN r /\ name \in DOMAIN r /\ r[name] = d[Live]
               /\ \A f \in DOMAIN d : f # Live => f \in DOMAIN r /\ r[f] = d[f]
<1>1. PICK r : r = Put(Without(d, {Live}), name, d[Live])
  OBVIOUS
<1>2. /\ DOMAIN r = (DOMAIN d \ {Live}) \cup {name} /\ r[name] = d[Live]
      /\ \A f \in DOMAIN d : f # Live => r[f] = d[f]
  <2>1. DOMAIN Without(d, {Live}) = DOMAIN d \ {Live}
        /\ \A f \in DOMAIN d \ {Live} : Without(d, {Live})[f] = d[f]
    BY DEF Without
  <2>2. /\ DOMAIN r = DOMAIN Without(d, {Live}) \cup {name} /\ r[name] = d[Live]
        /\ \A f \in DOMAIN Without(d, {Live}) : f # name => r[f] = Without(d, {Live})[f]
    BY <1>1 DEF Put
  <2> QED BY <2>1, <2>2
<1>3. IsFiniteSet(DOMAIN r)
  <2>1. PICK D : D = DOMAIN d \ {Live}
    OBVIOUS
  <2>2. IsFiniteSet(D)
    BY <2>1, FS_Subset DEF GoodDir
  <2>3. IsFiniteSet(D \cup {name})
    BY <2>2, FS_AddElement
  <2> QED BY <1>2, <2>1, <2>3
<1>4. \A f \in DOMAIN r : Named(f) /\ r[f] \in File /\ r[f].lines \subseteq a
  BY <1>2 DEF GoodDir
<1>5. \A f \in DOMAIN r : LastOK(r[f]) /\ r[f].day <= date.day
  BY <1>2 DEF GoodDir
<1>6. c.held /\ c.daily => OneDay(r)
  BY <1>2 DEF GoodDir, OneDay
<1>7. GoodDir(r, a, c)
  BY <1>3, <1>4, <1>5, <1>6 DEF GoodDir
<1>8. \A l : l \in Lines(d, DOMAIN d) <=> l \in Lines(r, DOMAIN r)
  <2>1. \A l : l \in Lines(d, DOMAIN d) <=> \E f \in DOMAIN d : l \in d[f].lines
    BY InLines
  <2>2. \A l : l \in Lines(r, DOMAIN r) <=> \E f \in DOMAIN r : l \in r[f].lines
    BY InLines
  <2> QED BY <1>2, <2>1, <2>2
<1>9. Lines(r, DOMAIN r) = Lines(d, DOMAIN d)
  BY <1>8
<1> QED BY <1>1, <1>2, <1>7, <1>9

\* More acknowledged lines leave a directory as good as it was.
LEMMA GoodGrows ==
    ASSUME NEW d, NEW a, NEW b, NEW c, GoodDir(d, a, c), a \subseteq b
    PROVE  GoodDir(d, b, c)
BY DEF GoodDir

\* Opening the live file creates it if need be, empty.
LEMMA GoodOpened ==
    ASSUME NEW d, NEW a, NEW c, GoodDir(d, a, c), date.day \in 0 .. LogMaxDay
    PROVE  LET p == Opened(d)
           IN  /\ GoodDir(p, a, c) /\ Lines(p, DOMAIN p) = Lines(d, DOMAIN d)
               /\ Live \in DOMAIN p
               /\ \A f \in DOMAIN d : f \in DOMAIN p /\ p[f] = d[f]
               /\ Live \notin DOMAIN d => p[Live].lines = {}
<1>1. PICK p : p = Opened(d)
  OBVIOUS
<1>2. CASE Live \in DOMAIN d
  <2>1. p = d
    BY <1>1, <1>2 DEF Opened
  <2> QED BY <1>1, <1>2, <2>1
<1>3. CASE Live \notin DOMAIN d
  <2>1. PICK new : new = [lines |-> {}, last |-> 0, day |-> date.day]
    OBVIOUS
  <2>2. new \in File /\ new.lines = {} /\ LastOK(new) /\ new.day <= date.day
    BY <2>1, LogAssumption DEF File, LastOK
  <2>3. p = Put(d, Live, new)
    BY <1>1, <1>3, <2>1 DEF Opened
  <2>4. DOMAIN p = DOMAIN d \cup {Live} /\ p[Live] = new /\ \A f \in DOMAIN d : p[f] = d[f]
    BY <1>3, <2>3 DEF Put
  <2>5. IsFiniteSet(DOMAIN p)
    BY <2>4, FS_AddElement DEF GoodDir
  <2>6. \A f \in DOMAIN p : Named(f) /\ p[f] \in File /\ p[f].lines \subseteq a
    BY <2>2, <2>4, SpecialNames DEF GoodDir, Named
  <2>8. \A f \in DOMAIN p : LastOK(p[f]) /\ p[f].day <= date.day
    BY <2>2, <2>4 DEF GoodDir
  <2>9. c.held /\ c.daily => OneDay(p)
    BY <2>2, <2>4 DEF GoodDir, OneDay
  <2>10. GoodDir(p, a, c)
    BY <2>5, <2>6, <2>8, <2>9 DEF GoodDir
  <2>11. \A l : l \in Lines(d, DOMAIN d) <=> l \in Lines(p, DOMAIN p)
    <3>1. \A l : l \in Lines(d, DOMAIN d) <=> \E f \in DOMAIN d : l \in d[f].lines
      BY InLines
    <3>2. \A l : l \in Lines(p, DOMAIN p) <=> \E f \in DOMAIN p : l \in p[f].lines
      BY InLines
    <3> QED BY <2>2, <2>4, <3>1, <3>2
  <2>12. Lines(p, DOMAIN p) = Lines(d, DOMAIN d)
    BY <2>11
  <2> QED BY <1>1, <1>3, <2>2, <2>4, <2>10, <2>12
<1> QED BY <1>2, <1>3

\* The next line is later than all before it.
LEMMA NextIsLast ==
    ASSUME Numbered(acked), Cardinality(acked) < MaxLines, date.day \in 0 .. LogMaxDay
    PROVE  /\ NextLine \in Line /\ NextLine.day = date.day
           /\ NextLine.n = Cardinality(acked) + 1
           /\ \A l \in acked : l.n < NextLine.n
           /\ Numbered(acked \cup {NextLine})
<1>1. Cardinality(acked) \in Nat
  BY FS_CardinalityType DEF Numbered
<1>2. PICK x : x = NextLine
  OBVIOUS
<1>3. x.n = Cardinality(acked) + 1 /\ x.day = date.day /\ x \in Line
  BY <1>1, <1>2, LogAssumption DEF NextLine, Line
<1>4. \A l \in acked : l.n < x.n /\ l.n \in Nat /\ l.day \in Nat
  BY <1>1, <1>3, LogAssumption DEF Numbered, Line
<1>5. x \notin acked
  BY <1>4
<1>6. IsFiniteSet(acked \cup {x}) /\ Cardinality(acked \cup {x}) = Cardinality(acked) + 1
  BY <1>5, FS_AddElement DEF Numbered
<1>7. date.day \in Nat
  BY LogAssumption
<1>8. \A l \in acked \cup {x} : l.n <= Cardinality(acked \cup {x}) /\ l.day <= date.day
  BY <1>1, <1>3, <1>4, <1>6, <1>7 DEF Numbered
<1>9. \A l, m \in acked \cup {x} : l.n < m.n => l.day <= m.day
  <2>1. ASSUME NEW l \in acked \cup {x}, NEW m \in acked \cup {x}, l.n < m.n PROVE l.day <= m.day
    <3>1. CASE l = x
      BY <1>1, <1>3, <1>4, <2>1, <3>1
    <3>2. CASE l # x /\ m = x
      BY <1>3, <1>8, <3>2
    <3>3. CASE l # x /\ m # x
      BY <2>1, <3>3 DEF Numbered
    <3> QED BY <3>1, <3>2, <3>3
  <2> QED BY <2>1
<1>10. Numbered(acked \cup {x})
  BY <1>3, <1>6, <1>8, <1>9 DEF Numbered
<1> QED BY <1>2, <1>3, <1>4, <1>10

\* A line joins a file that is of this day when it must be, as its last.
LEMMA GoodAppend ==
    ASSUME NEW d, NEW c, GoodDir(d, acked, c), NEW name \in DOMAIN d,
           Numbered(acked), Cardinality(acked) < MaxLines, date.day \in 0 .. LogMaxDay,
           c.held /\ c.daily /\ d[name].lines # {} => d[name].day = date.day
    PROVE  LET p == AppendLine(d, name)
           IN  /\ GoodDir(p, acked \cup {NextLine}, c)
               /\ Lines(p, DOMAIN p) = Lines(d, DOMAIN d) \cup {NextLine}
               /\ DOMAIN p = DOMAIN d /\ p[name].day = date.day
               /\ \A f \in DOMAIN d : f # name => p[f] = d[f]
               /\ d[name].last <= p[name].last
<1>1. PICK p : p = AppendLine(d, name)
  OBVIOUS
<1>2. PICK x : x = NextLine
  OBVIOUS
<1>3. x \in Line /\ x.day = date.day /\ x.n \in Nat /\ \A l \in acked : l.n < x.n /\ l.n \in Nat
  <2>1. x \in Line /\ x.day = date.day /\ \A l \in acked : l.n < x.n
    BY <1>2, NextIsLast
  <2> QED BY <2>1, LogAssumption DEF Line, Numbered
<1>4. PICK new : new = [lines |-> d[name].lines \cup {x}, last |-> x.n, day |-> date.day]
  OBVIOUS
<1>5. Named(name) /\ d[name] \in File /\ d[name].lines \subseteq acked
  BY DEF GoodDir
<1>6. new \in File /\ new.lines = d[name].lines \cup {x} /\ new.last = x.n /\ new.day = date.day
  BY <1>3, <1>4, <1>5, LogAssumption DEF File, Line
<1>7. p = Put(d, name, new)
  BY <1>1, <1>2, <1>4, <1>5, SpecialNames DEF AppendLine
<1>8. DOMAIN p = DOMAIN d /\ p[name] = new /\ \A f \in DOMAIN d : f # name => p[f] = d[f]
  BY <1>7 DEF Put
<1>9. \A f \in DOMAIN p : Named(f) /\ p[f] \in File /\ p[f].lines \subseteq acked \cup {x}
  BY <1>5, <1>6, <1>8 DEF GoodDir
<1>10. \A f \in DOMAIN p : LastOK(p[f]) /\ p[f].day <= date.day
  <2>1. \A l \in d[name].lines : l.n <= new.last /\ l.day <= new.day
    BY <1>3, <1>5, <1>6 DEF Numbered
  <2>2. LastOK(new) /\ new.day <= date.day
    BY <1>3, <1>6, <2>1, LogAssumption DEF LastOK
  <2> QED BY <1>8, <2>2 DEF GoodDir
<1>15. d[name].last <= new.last
  BY <1>3, <1>5, <1>6 DEF GoodDir, LastOK
<1>11. ASSUME c.held, c.daily PROVE OneDay(p)
  <2>1. OneDay(d)
    BY <1>11 DEF GoodDir
  <2>2. \A l \in new.lines : l.day = date.day
    BY <1>3, <1>6, <1>11, <2>1 DEF OneDay
  <2> QED BY <1>6, <1>8, <2>1, <2>2 DEF OneDay
<1>12. GoodDir(p, acked \cup {x}, c)
  BY <1>8, <1>9, <1>10, <1>11 DEF GoodDir
<1>13. \A l : l \in Lines(p, DOMAIN p) <=> l \in Lines(d, DOMAIN d) \cup {x}
  <2>1. \A l : l \in Lines(d, DOMAIN d) <=> \E f \in DOMAIN d : l \in d[f].lines
    BY InLines
  <2>2. \A l : l \in Lines(p, DOMAIN p) <=> \E f \in DOMAIN p : l \in p[f].lines
    BY InLines
  <2> QED BY <1>6, <1>8, <2>1, <2>2
<1>14. Lines(p, DOMAIN p) = Lines(d, DOMAIN d) \cup {x}
  BY <1>13
<1> QED BY <1>1, <1>2, <1>6, <1>8, <1>12, <1>14, <1>15

LEMMA RotatedNamed ==
    ASSUME NEW d, date.day \in 0 .. LogMaxDay, date.sec \in 1 .. Seconds
    PROVE  Named(RotatedName(d)) /\ RotatedName(d).kind = "rotated" /\ RotatedName(d) # Live
<1>1. PICK dated : dated = [kind |-> "rotated", day |-> date.day, sec |-> 0, gz |-> FALSE]
  OBVIOUS
<1>2. dated \in Name /\ dated.kind = "rotated"
  BY <1>1, LogAssumption DEF Name
<1>3. PICK timed : timed = [dated EXCEPT !.sec = date.sec]
  OBVIOUS
<1>4. timed \in Name /\ timed.kind = "rotated"
  BY <1>2, <1>3, LogAssumption DEF Name
<1>5. RotatedName(d) = dated \/ RotatedName(d) = timed
  BY <1>1, <1>3 DEF RotatedName
<1> QED BY <1>2, <1>4, <1>5, SpecialNames DEF Named

\* NewestStay is about the files and expired lines of the state.
LEMMA RetainedHere == LogInv => Retained(files, expired)
BY DEF LogInv, NewestStay, Retained, Counting, NewerThan

LEMMA GoodNumbers ==
    ASSUME NEW d, NEW a, NEW c, GoodDir(d, a, c)
    PROVE  /\ \A f \in DOMAIN d : d[f].last \in Nat /\ d[f].day \in Nat
           /\ \A k : IsFiniteSet(NewerThan(d, k)) /\ Cardinality(NewerThan(d, k)) \in Nat
<1>1. \A f \in DOMAIN d : d[f].last \in Nat /\ d[f].day \in Nat
  BY LogAssumption DEF GoodDir, File
<1>2. ASSUME NEW k PROVE IsFiniteSet(NewerThan(d, k)) /\ Cardinality(NewerThan(d, k)) \in Nat
  <2>1. NewerThan(d, k) \in SUBSET DOMAIN d
    BY DEF NewerThan
  <2> QED BY <2>1, FS_Subset, FS_CardinalityType DEF GoodDir
<1> QED BY <1>1, <1>2

\* As long as no rotated file goes or shrinks, nothing that retention relied on is lost.
LEMMA RetainedGrows ==
    ASSUME LogInv, NEW d, GoodDir(d, acked, logcfg), NEW q, NEW b, GoodDir(q, b, logcfg),
           \A f \in DOMAIN d : f # Live => f \in DOMAIN q /\ d[f].last <= q[f].last,
           NEW e, e \subseteq acked, Retained(d, e)
    PROVE  Retained(q, e)
<1>1. ASSUME Counting, NEW l \in e PROVE Cardinality(NewerThan(q, l.n)) >= logcfg.n
  <2>1. l.n \in Nat /\ logcfg.n \in Nat
    BY LogTyping, LogAssumption DEF Line, LogPolicy
  <2>2. NewerThan(d, l.n) \in SUBSET NewerThan(q, l.n)
    BY <2>1, GoodNumbers DEF NewerThan
  <2>3. PICK m, w : m = NewerThan(d, l.n) /\ w = NewerThan(q, l.n)
    OBVIOUS
  <2>4. /\ IsFiniteSet(w) /\ m \in SUBSET w /\ Cardinality(m) \in Nat /\ Cardinality(w) \in Nat
        /\ Cardinality(m) >= logcfg.n
    BY <1>1, <2>2, <2>3, GoodNumbers DEF Retained
  <2>5. Cardinality(m) <= Cardinality(w)
    BY <2>4, FS_Subset
  <2> QED BY <2>1, <2>3, <2>4, <2>5
<1> QED BY <1>1 DEF Retained

LEMMA RetainedStays ==
    ASSUME LogInv, NEW q, NEW b, GoodDir(q, b, logcfg),
           \A f \in DOMAIN files : f # Live => f \in DOMAIN q /\ (q[f] = files[f] \/ files[f].last <= q[f].last)
    PROVE  Retained(q, expired)
<1>1. GoodDir(files, acked, logcfg) /\ expired \subseteq acked /\ Retained(files, expired)
  BY RetainedHere DEF LogInv
<1>2. \A f \in DOMAIN files : files[f].last \in Nat
  BY <1>1, GoodNumbers
<1>3. \A f \in DOMAIN files : f # Live => f \in DOMAIN q /\ files[f].last <= q[f].last
  BY <1>2
<1> QED BY <1>1, <1>3, RetainedGrows

\* Of some files, one has the latest last line.
LEMMA LatestOf ==
    ASSUME NEW d, NEW a, NEW c, GoodDir(d, a, c), NEW S, S \subseteq DOMAIN d, S # {}
    PROVE  \E g \in S : \A f \in S : d[f].last <= d[g].last
  <1> DEFINE Lt == OpToRel(<, Nat)
             High == {MaxLines - d[f].last : f \in S}
  <1>1. /\ \A f \in S : d[f].last \in Nat /\ MaxLines - d[f].last \in Nat
        /\ MaxLines \in Nat
    BY LogAssumption DEF GoodDir, File
  <1>2. \A m, n \in Nat : m < n => <<m, n>> \in Lt
    BY DEF OpToRel
  <1>3. High \subseteq Nat /\ High # {}
    BY <1>1
  <1>4. IsWellFoundedOn(Lt, Nat)
    BY NatLessThanWellFounded
  <1> HIDE DEF Lt
  <1>5. PICK m \in High : \A n \in High : ~(<<n, m>> \in Lt)
    BY <1>3, <1>4, WFMin
  <1>6. PICK g \in S : MaxLines - d[g].last = m
    BY <1>5
  <1>7. \A f \in S : d[f].last <= d[g].last
    <2>1. ASSUME NEW f \in S, ~(d[f].last <= d[g].last) PROVE FALSE
      <3>1. MaxLines - d[f].last < MaxLines - d[g].last
        BY <1>1, <2>1
      <3> QED BY <1>1, <1>2, <1>5, <1>6, <3>1
    <2> QED BY <2>1
  <1> QED BY <1>7

\* Counted retention leaves n files newer than k, if there were n, whatever part of
\* what it found it removes: those newer than the newest it removes among them.
LEMMA StillNewer ==
    ASSUME LogInv, logcfg.keep = "count", NEW d, GoodDir(d, acked, logcfg), NEW S, S \subseteq Prune(d),
           NEW k \in Nat, Cardinality(NewerThan(d, k)) >= logcfg.n
    PROVE  Cardinality(NewerThan(Without(d, S), k)) >= logcfg.n
<1>1. logcfg.n \in Nat
  BY LogTyping DEF LogPolicy
<1>2. PICK w : w = Without(d, S)
  OBVIOUS
<1>3. DOMAIN w = DOMAIN d \ S /\ \A f \in DOMAIN w : w[f] = d[f]
  BY <1>2 DEF Without
<1>4. PICK T : T = S \cap NewerThan(d, k)
  OBVIOUS
<1>5. CASE T = {}
  <2>1. NewerThan(w, k) = NewerThan(d, k)
    BY <1>3, <1>4, <1>5 DEF NewerThan
  <2> QED BY <1>2, <2>1
<1>6. CASE T # {}
  <2>1. T \subseteq DOMAIN d
    BY <1>4 DEF NewerThan
  <2>2. PICK g \in T : \A f \in T : d[f].last <= d[g].last
    BY <1>6, <2>1, LatestOf
  <2>3. /\ \A f \in DOMAIN d : d[f].last \in Nat
        /\ \A m : IsFiniteSet(NewerThan(d, m)) /\ Cardinality(NewerThan(d, m)) \in Nat
    BY GoodNumbers
  <2>4. g \in Prune(d) /\ g \in DOMAIN d \ {Live} /\ d[g].last > k
    BY <1>4, <2>2 DEF NewerThan
  <2>5. PICK m : m = NewerThan(d, d[g].last)
    OBVIOUS
  <2>6. Cardinality(m) >= logcfg.n /\ Cardinality(m) \in Nat
    <3>1. m = {f \in DOMAIN d \ {Live} : d[f].last > d[g].last}
      BY <2>5 DEF NewerThan
    <3> QED BY <2>3, <2>4, <2>5, <3>1 DEF Prune
  <2>7. m \in SUBSET NewerThan(w, k)
    <3>1. ASSUME NEW f \in m PROVE f \in NewerThan(w, k)
      <4>1. f \in DOMAIN d \ {Live} /\ d[f].last > d[g].last
        BY <2>5, <3>1 DEF NewerThan
      <4>2. d[f].last > k /\ ~(d[f].last <= d[g].last)
        BY <2>3, <2>4, <4>1
      <4>3. f \in NewerThan(d, k)
        BY <4>1, <4>2 DEF NewerThan
      <4>4. f \notin S
        BY <1>4, <2>2, <4>2, <4>3
      <4> QED BY <1>3, <4>1, <4>2, <4>4 DEF NewerThan
    <3> QED BY <3>1
  <2>8. PICK v : v = NewerThan(w, k)
    OBVIOUS
  <2>9. GoodDir(w, acked, logcfg)
    BY <1>2, GoodWithout
  <2>10. IsFiniteSet(v) /\ Cardinality(v) \in Nat
    BY <2>8, <2>9, GoodNumbers
  <2>11. Cardinality(m) <= Cardinality(v)
    BY <2>7, <2>8, <2>10, FS_Subset
  <2> QED BY <1>1, <1>2, <2>6, <2>8, <2>10, <2>11
<1> QED BY <1>5, <1>6

LEMMA PruneRetains ==
    ASSUME LogInv, NEW d, GoodDir(d, acked, logcfg), NEW S, S \subseteq Prune(d),
           NEW e, e \subseteq acked, Retained(d, e)
    PROVE  Retained(Without(d, S), e \cup Lines(d, S))
<1>1. \A l \in Lines(d, S) : \E f \in S \cap DOMAIN d : l \in d[f].lines
  BY InLines
<1>2. \A l \in e \cup Lines(d, S) : l.n \in Nat /\ l.day \in Nat
  <2>1. e \cup Lines(d, S) \subseteq acked
    BY <1>1 DEF GoodDir
  <2> QED BY <2>1, LogTyping, LogAssumption DEF Line
<1>3. /\ \A f \in DOMAIN d : d[f].last \in Nat /\ d[f].day \in Nat
      /\ \A k : IsFiniteSet(NewerThan(d, k)) /\ Cardinality(NewerThan(d, k)) \in Nat
  BY GoodNumbers
<1>4. logcfg.n \in Nat /\ date.day \in Nat
  BY LogTyping DEF LogPolicy
<1>5. ASSUME Counting, NEW l \in e \cup Lines(d, S)
      PROVE  Cardinality(NewerThan(Without(d, S), l.n)) >= logcfg.n
  <2>1. CASE l \in e
    BY <1>2, <1>5, <2>1, StillNewer DEF Retained, Counting
  <2>2. CASE l \in Lines(d, S)
    <3>1. PICK f \in S \cap DOMAIN d : l \in d[f].lines
      BY <1>1, <2>2
    <3>2. PICK m, v : m = NewerThan(d, d[f].last) /\ v = NewerThan(d, l.n)
      OBVIOUS
    <3>3. Cardinality(m) >= logcfg.n
      <4>1. m = {g \in DOMAIN d \ {Live} : d[g].last > d[f].last}
        BY <3>2 DEF NewerThan
      <4> QED BY <1>5, <3>1, <4>1 DEF Prune, Counting
    <3>4. m \in SUBSET v
      <4>1. l.n <= d[f].last
        BY <3>1 DEF GoodDir, LastOK
      <4> QED BY <1>2, <1>3, <3>2, <4>1 DEF NewerThan
    <3>5. IsFiniteSet(v) /\ Cardinality(m) \in Nat /\ Cardinality(v) \in Nat
      BY <1>3, <3>2
    <3>6. Cardinality(m) <= Cardinality(v)
      BY <3>4, <3>5, FS_Subset
    <3>7. Cardinality(NewerThan(d, l.n)) >= logcfg.n
      BY <1>4, <3>2, <3>3, <3>5, <3>6
    <3> QED BY <1>2, <1>5, <3>7, StillNewer DEF Counting
  <2> QED BY <2>1, <2>2
<1>6. ASSUME logcfg.keep = "age", NEW l \in e \cup Lines(d, S)
      PROVE  date.day > l.day + logcfg.n
  <2>1. CASE l \in e
    BY <1>6, <2>1 DEF Retained
  <2>2. CASE l \in Lines(d, S)
    <3>1. PICK f \in S \cap DOMAIN d : l \in d[f].lines
      BY <1>1, <2>2
    <3>2. l.day <= d[f].day
      BY <3>1 DEF GoodDir, LastOK
    <3>3. date.day > d[f].day + logcfg.n
      BY <1>6, <3>1 DEF Prune
    <3> QED BY <1>2, <1>3, <1>4, <3>1, <3>2, <3>3
  <2> QED BY <2>1, <2>2
<1> QED BY <1>5, <1>6 DEF Retained

\* Pruning, of any part of what there is to prune.
LEMMA PruneKeeps ==
    ASSUME LogInv, NEW d, GoodDir(d, acked, logcfg), NEW S, S \subseteq Prune(d)
    PROVE  /\ GoodDir(Without(d, S), acked, logcfg)
           /\ Lines(d, S) \subseteq acked
           /\ Lines(d, DOMAIN d) = Lines(d, S) \cup Lines(Without(d, S), DOMAIN Without(d, S))
           /\ Live \notin S /\ (OnlyRenames => S = {})
<1>1. /\ GoodDir(Without(d, S), acked, logcfg)
      /\ Lines(d, DOMAIN d) = Lines(d, S) \cup Lines(Without(d, S), DOMAIN Without(d, S))
  BY GoodWithout
<1>2. Live \notin S /\ (OnlyRenames => S = {})
  BY DEF Prune, OnlyRenames
<1>3. \A l \in Lines(d, S) : \E f \in S \cap DOMAIN d : l \in d[f].lines
  BY InLines
<1>4. Lines(d, S) \subseteq acked
  BY <1>3 DEF GoodDir
<1> QED BY <1>1, <1>2, <1>4

\* A rotation under the mutex loses no line that it does not count as expired.
LEMMA RotationKeeps ==
    ASSUME LogInv, logcfg.held, NEW d, GoodDir(d, acked, logcfg), Retained(d, expired),
           Live \in DOMAIN d => Unhurried(d), NEW o \in RotateOutcomes(d)
    PROVE  /\ GoodDir(o.files, acked, logcfg) /\ o.gone \subseteq acked
           /\ Lines(d, DOMAIN d) = o.gone \cup Lines(o.files, DOMAIN o.files)
           /\ Retained(o.files, expired \cup o.gone)
           /\ o.ok => Live \notin DOMAIN o.files
           /\ External \in DOMAIN d => External \in DOMAIN o.files \/ ~OnlyRenames
<1>1. PICK r : r = Put(Without(d, {Live}), RotatedName(d), d[Live])
  OBVIOUS
<1>2. PICK doomed : doomed = IF logcfg.keep = "none" THEN {RotatedName(d)} ELSE Prune(r)
  OBVIOUS
<1>3. CASE o = [files |-> d, ok |-> FALSE, gone |-> {}]
  <2>1. o.files = d /\ o.gone = {} /\ ~o.ok /\ expired \cup o.gone = expired
    BY <1>3
  <2> QED BY <2>1
<1>4. CASE /\ Live \in DOMAIN d
           /\ \E out \in SUBSET doomed, ok \in BOOLEAN :
                o = [files |-> Without(r, out), ok |-> ok, gone |-> Lines(r, out)]
  <2>1. /\ GoodDir(r, acked, logcfg) /\ Lines(r, DOMAIN r) = Lines(d, DOMAIN d)
        /\ Live \notin DOMAIN r /\ \A f \in DOMAIN d : f # Live => f \in DOMAIN r /\ r[f] = d[f]
    <3>1. Named(RotatedName(d)) /\ RotatedName(d) # Live
      BY RotatedNamed, LogTyping
    <3>2. RotatedName(d) \notin DOMAIN d
      BY <1>4 DEF Unhurried
    <3> QED BY <1>1, <1>4, <3>1, <3>2, GoodRename
  <2>2. PICK out \in SUBSET doomed, ok \in BOOLEAN :
          o = [files |-> Without(r, out), ok |-> ok, gone |-> Lines(r, out)]
    BY <1>4
  <2>3. PICK w, l1 : w = Without(r, out) /\ l1 = Lines(r, out)
    OBVIOUS
  <2>4. o.files = w /\ o.gone = l1
    BY <2>2, <2>3
  <2>5. GoodDir(w, acked, logcfg) /\ Lines(r, DOMAIN r) = l1 \cup Lines(w, DOMAIN w)
    BY <2>1, <2>3, GoodWithout
  <2>6. l1 \subseteq acked
    <3>1. \A l \in l1 : \E f \in out \cap DOMAIN r : l \in r[f].lines
      BY <2>3, InLines
    <3> QED BY <2>1, <3>1 DEF GoodDir
  <2>7. Live \notin DOMAIN w
    BY <2>1, <2>3 DEF Without
  <2>8. Retained(w, expired \cup l1)
    <3>1. CASE logcfg.keep = "none"
      BY <3>1 DEF Retained, Counting
    <3>2. CASE logcfg.keep # "none"
      <4>1. expired \subseteq acked
        BY DEF LogInv
      <4>2. \A f \in DOMAIN d : f # Live => f \in DOMAIN r /\ d[f].last <= r[f].last
        BY <2>1, GoodNumbers
      <4>3. Retained(r, expired)
        BY <2>1, <4>1, <4>2, RetainedGrows
      <4>4. out \subseteq Prune(r)
        BY <1>2, <3>2
      <4> QED BY <2>1, <2>3, <4>1, <4>3, <4>4, PruneRetains
    <3> QED BY <3>1, <3>2
  <2>9. OnlyRenames => out = {}
    BY <1>2 DEF OnlyRenames, Prune
  <2>10. External \in DOMAIN d => External \in DOMAIN w \/ ~OnlyRenames
    BY <2>1, <2>3, <2>9, SpecialNames DEF Without
  <2> QED BY <2>1, <2>4, <2>5, <2>6, <2>7, <2>8, <2>10
<1>5. \/ o = [files |-> d, ok |-> FALSE, gone |-> {}]
      \/ /\ Live \in DOMAIN d
         /\ \E out \in SUBSET doomed, ok \in BOOLEAN :
              o = [files |-> Without(r, out), ok |-> ok, gone |-> Lines(r, out)]
  BY <1>1, <1>2 DEF RotateOutcomes
<1> QED BY <1>3, <1>4, <1>5

RotorType == [pc : {"idle", "trim", "unlink", "prune"}, name : Name]

\* The invariant after a step in which time stands still, put together from its parts.
LEMMA LogAssemble ==
    ASSUME LogInv, logcfg' = logcfg, date' = date, Numbered(acked'), GoodDir(files', acked', logcfg),
           expired' \subseteq acked', periodStart' \in Nat, periodStart' <= date.day,
           handle' \in DOMAIN files' \cup {NoFile, Unlinked}, rotor' \in RotorType,
           HandleOK', RotorOK', LinesKept', NewestStay'
    PROVE  LogInv'
<1>1. date.day \in 0 .. LogMaxDay /\ LogMaxDay \in Nat
  BY LogTyping, LogAssumption
<1>2. periodStart' \in 0 .. LogMaxDay
  BY <1>1
<1>3. acked' \subseteq Line /\ expired' \subseteq Line
  BY DEF Numbered
<1>4. DOMAIN files' \subseteq Name /\ \A f \in DOMAIN files' : files'[f] \in File
  BY DEF GoodDir, Named
<1>5. LogTypeOK'
  BY <1>2, <1>3, <1>4 DEF LogInv, LogTypeOK, RotorType
<1>6. Numbered(acked)' /\ GoodDir(files, acked, logcfg)' /\ periodStart' <= date'.day
  <2>1. Numbered(acked)'
    BY DEF Numbered
  <2>2. GoodDir(files, acked, logcfg)'
    BY DEF GoodDir, OneDay, LastOK
  <2> QED BY <2>1, <2>2
<1> QED BY <1>5, <1>6 DEF LogInv

\* Lines that expire and lines that arrive.
Sheds(gone, new) ==
    LET L == Lines(files', DOMAIN files') IN
    /\ logcfg' = logcfg /\ date' = date /\ gone \subseteq acked
    /\ expired' = expired \cup gone /\ acked' = acked \cup new
    /\ L \subseteq Lines(files, DOMAIN files) \cup new
    /\ OnlyRenames \/ (logcfg.held /\ ~logcfg.external) =>
          Lines(files, DOMAIN files) \cup new \subseteq gone \cup L
    /\ Retained(files', expired')

LEMMA Shed ==
    ASSUME LogInv, NEW gone, NEW new, Sheds(gone, new)
    PROVE  LinesKept' /\ NewestStay' /\ expired' \subseteq acked'
<1>0. PICK L : L = Lines(files', DOMAIN files')
  OBVIOUS
<1> USE <1>0 DEF Sheds
<1>1. expired \subseteq acked
  BY DEF LogInv
<1>2. LinesKept'
  <2>1. OnlyRenames' <=> OnlyRenames
    BY DEF OnlyRenames
  <2>2. OnlyRenames \/ (logcfg.held /\ ~logcfg.external) => acked \subseteq expired \cup Lines(files, DOMAIN files)
    BY DEF LogInv, LinesKept
  <2>3. OnlyRenames \/ (logcfg.held /\ ~logcfg.external) => acked' \subseteq expired' \cup L
    BY <2>2
  <2>4. Lines(files, DOMAIN files)' = L
    BY DEF Lines
  <2> QED BY <2>1, <2>3, <2>4 DEF LinesKept
<1>3. NewestStay'
  BY DEF NewestStay, Retained, Counting, NewerThan
<1> QED BY <1>1, <1>2, <1>3

\* The file a held writer is about to append to.
LEMMA WriteSetup ==
    ASSUME LogInv, logcfg.held, NEW opened, NEW fd, NEW start,
           opened = (IF handle = NoFile THEN Opened(files) ELSE files),
           fd = (IF handle = NoFile THEN Live ELSE handle),
           start = (IF handle = NoFile THEN PeriodOf(opened) ELSE periodStart)
    PROVE  /\ GoodDir(opened, acked, logcfg)
           /\ Lines(opened, DOMAIN opened) = Lines(files, DOMAIN files)
           /\ fd \in {Live, External, Unlinked} /\ fd # NoFile
           /\ fd # Unlinked => fd \in DOMAIN opened
           /\ Retained(opened, expired)
           /\ fd \in {External, Unlinked} => logcfg.external /\ Live \notin DOMAIN opened
           /\ start \in Nat /\ start <= date.day
           /\ fd # Unlinked /\ opened[fd].lines # {} => start <= opened[fd].day
           /\ OnlyRenames => fd # Unlinked
<1>1. /\ date.day \in 0 .. LogMaxDay /\ date.day \in Nat
      /\ handle \in DOMAIN files \cup {NoFile, Unlinked} /\ periodStart \in Nat
  BY LogTyping
<1>2. GoodDir(files, acked, logcfg) /\ HandleOK /\ periodStart <= date.day
  BY DEF LogInv
<1>3. CASE handle = NoFile
  <2>1. opened = Opened(files) /\ fd = Live /\ start = PeriodOf(opened)
    BY <1>3
  <2>2. /\ GoodDir(opened, acked, logcfg) /\ Lines(opened, DOMAIN opened) = Lines(files, DOMAIN files)
        /\ Live \in DOMAIN opened /\ Retained(opened, expired)
    <3>1. /\ GoodDir(Opened(files), acked, logcfg)
          /\ Lines(Opened(files), DOMAIN Opened(files)) = Lines(files, DOMAIN files)
          /\ Live \in DOMAIN Opened(files)
          /\ \A f \in DOMAIN files : f \in DOMAIN Opened(files) /\ Opened(files)[f] = files[f]
      BY <1>1, <1>2, GoodOpened
    <3>2. Retained(Opened(files), expired)
      BY <3>1, RetainedStays
    <3> QED BY <2>1, <3>1, <3>2
  <2>3. opened[Live].day \in Nat /\ opened[Live].day <= date.day
    BY <2>2, GoodNumbers DEF GoodDir
  <2>4. /\ start \in Nat /\ start <= date.day
        /\ opened[Live].lines # {} => start <= opened[Live].day
    BY <1>1, <2>1, <2>3 DEF PeriodOf
  <2> QED BY <2>1, <2>2, <2>4, SpecialNames
<1>4. CASE handle # NoFile
  <2>1. opened = files /\ fd = handle /\ start = periodStart
    BY <1>4
  <2>2. fd \in {Live, External, Unlinked}
    BY <1>2, <1>4, <2>1 DEF HandleOK
  <2>3. (fd # Unlinked => fd \in DOMAIN files) /\ Retained(files, expired)
    BY <1>1, <1>4, <2>1, RetainedHere
  <2>4. fd # Unlinked /\ files[fd].lines # {} => periodStart <= files[fd].day
    BY <1>2, <2>1, <2>3 DEF HandleOK
  <2>5. fd \in {External, Unlinked} => logcfg.external /\ Live \notin DOMAIN files
    BY <1>2, <2>1 DEF HandleOK
  <2>6. OnlyRenames => fd # Unlinked
    BY <1>2, <2>1 DEF HandleOK
  <2> QED BY <1>1, <1>2, <1>4, <2>1, <2>2, <2>3, <2>4, <2>5, <2>6
<1> QED BY <1>3, <1>4
\* What HandleOK asks of a held file, spelled out for the next state.
LEMMA HeldHandle ==
    ASSUME logcfg' = logcfg, logcfg.held, handle' \in {NoFile, Live, External, Unlinked},
           handle' \in {External, Unlinked} => logcfg.external /\ Live \notin DOMAIN files',
           handle' \in DOMAIN files' /\ files'[handle'].lines # {} => periodStart' <= files'[handle'].day,
           OnlyRenames => handle' # Unlinked
    PROVE  HandleOK'
<1>1. OnlyRenames' <=> OnlyRenames
  BY DEF OnlyRenames
<1> QED BY <1>1 DEF HandleOK

\* After a rotation: the writer has let go of the file.
LEMMA RotationLeaves ==
    ASSUME LogInv, logcfg.held, NEW q, NEW gone, GoodDir(q, acked, logcfg), gone \subseteq acked,
           Lines(files, DOMAIN files) = gone \cup Lines(q, DOMAIN q),
           Retained(q, expired \cup gone),
           expired' = expired \cup gone, periodStart' = date.day, UNCHANGED <<logcfg, rotor, date>>,
           files' = q, handle' = NoFile, acked' = acked
    PROVE  LogInv'
<1>1. date.day \in Nat
  BY LogTyping
<1>2. Numbered(acked) /\ rotor \in RotorType /\ RotorOK
  BY DEF LogInv, LogTypeOK, RotorType
<1>3. rotor' \in RotorType /\ RotorOK'
  BY <1>2 DEF RotorOK
<1>4. LinesKept' /\ NewestStay' /\ expired' \subseteq acked'
  <2>1. Sheds(gone, {})
    BY DEF Sheds
  <2> QED BY <2>1, Shed
<1>5. NoFile \notin DOMAIN q
  BY SpecialNames DEF GoodDir
<1>6. HandleOK'
  BY <1>5, HeldHandle, SpecialNames
<1> QED BY <1>1, <1>2, <1>3, <1>4, <1>6, LogAssemble

\* After a rotation: the line that caused it opens the new file.
LEMMA RotationReopens ==
    ASSUME LogInv, logcfg.held, Cardinality(acked) < MaxLines,
           NEW q, NEW gone, GoodDir(q, acked, logcfg), gone \subseteq acked,
           Lines(files, DOMAIN files) = gone \cup Lines(q, DOMAIN q),
           Retained(q, expired \cup gone),
           Live \notin DOMAIN q,
           expired' = expired \cup gone, periodStart' = date.day, UNCHANGED <<logcfg, rotor, date>>,
           NEW p, p = Opened(q), NEW x, x = NextLine,
           files' = AppendLine(p, Live), handle' = Live, acked' = acked \cup {x}
    PROVE  LogInv'
<1>1. date.day \in 0 .. LogMaxDay /\ date.day \in Nat
  BY LogTyping
<1>2. Numbered(acked) /\ rotor \in RotorType /\ RotorOK
  BY DEF LogInv, LogTypeOK, RotorType
<1>3. rotor' \in RotorType /\ RotorOK'
  BY <1>2 DEF RotorOK
<1>4. /\ GoodDir(p, acked, logcfg) /\ Lines(p, DOMAIN p) = Lines(q, DOMAIN q)
      /\ Live \in DOMAIN p /\ p[Live].lines = {}
      /\ \A f \in DOMAIN q : f \in DOMAIN p /\ p[f] = q[f]
  <2>1. /\ GoodDir(Opened(q), acked, logcfg)
        /\ Lines(Opened(q), DOMAIN Opened(q)) = Lines(q, DOMAIN q)
        /\ Live \in DOMAIN Opened(q) /\ Opened(q)[Live].lines = {}
        /\ \A f \in DOMAIN q : f \in DOMAIN Opened(q) /\ Opened(q)[f] = q[f]
    BY <1>1, GoodOpened
  <2> QED BY <2>1
<1>5. /\ GoodDir(files', acked', logcfg)
      /\ Lines(files', DOMAIN files') = Lines(q, DOMAIN q) \cup {x}
      /\ DOMAIN files' = DOMAIN p /\ files'[Live].day = date.day
      /\ \A f \in DOMAIN p : f # Live => files'[f] = p[f]
  <2>1. /\ GoodDir(AppendLine(p, Live), acked \cup {NextLine}, logcfg)
        /\ Lines(AppendLine(p, Live), DOMAIN AppendLine(p, Live)) = Lines(p, DOMAIN p) \cup {NextLine}
        /\ DOMAIN AppendLine(p, Live) = DOMAIN p /\ AppendLine(p, Live)[Live].day = date.day
        /\ \A f \in DOMAIN p : f # Live => AppendLine(p, Live)[f] = p[f]
    BY <1>1, <1>2, <1>4, GoodAppend
  <2> QED BY <1>4, <2>1
<1>6. Numbered(acked') /\ \A l \in acked : l.n < x.n
  BY <1>1, <1>2, NextIsLast
<1>7. LinesKept' /\ NewestStay' /\ expired' \subseteq acked'
  <2>1. /\ GoodDir(q, acked, logcfg) /\ expired \cup gone \subseteq acked
        /\ \A f \in DOMAIN q : q[f].last \in Nat
    BY GoodNumbers DEF LogInv
  <2>2. \A f \in DOMAIN q : f # Live => f \in DOMAIN files' /\ q[f].last <= files'[f].last
    BY <1>4, <1>5, <2>1
  <2>3. Retained(files', expired')
    BY <1>5, <2>1, <2>2, RetainedGrows
  <2>4. Sheds(gone, {x})
    BY <1>5, <2>3 DEF Sheds
  <2> QED BY <2>4, Shed
<1>8. HandleOK'
  BY <1>1, <1>5, HeldHandle, SpecialNames
<1> QED BY <1>1, <1>3, <1>4, <1>5, <1>6, <1>7, <1>8, LogAssemble

\* A write that does not.
LEMMA WriteAppends ==
    ASSUME LogInv, logcfg.held, Cardinality(acked) < MaxLines, NEW d, NEW fd, NEW start,
           GoodDir(d, acked, logcfg), Lines(d, DOMAIN d) = Lines(files, DOMAIN files),
           fd \in {Live, External, Unlinked},
           fd # Unlinked => fd \in DOMAIN d, Retained(d, expired),
           fd \in {External, Unlinked} => logcfg.external /\ Live \notin DOMAIN d,
           start \in Nat, start <= date.day,
           fd # Unlinked /\ d[fd].lines # {} => start <= d[fd].day,
           fd # Unlinked => ~NeedsRotate(d[fd], start),
           OnlyRenames => fd # Unlinked,
           files' = AppendLine(d, fd), handle' = fd, periodStart' = start,
           acked' = acked \cup {NextLine}, expired' = expired, UNCHANGED <<logcfg, rotor, date>>
    PROVE  LogInv'
<1>1. /\ date.day \in 0 .. LogMaxDay /\ date.day \in Nat
  BY LogTyping
<1>2. Numbered(acked) /\ rotor \in RotorType /\ RotorOK
  BY DEF LogInv, LogTypeOK, RotorType
<1>3. rotor' \in RotorType /\ RotorOK'
  BY <1>2 DEF RotorOK
<1>4. PICK x : x = NextLine
  OBVIOUS
<1>5. Numbered(acked') /\ acked' = acked \cup {x} /\ \A l \in acked : l.n < x.n
  BY <1>1, <1>2, <1>4, NextIsLast
<1>6. CASE fd = Unlinked
  <2>1. files' = d /\ Unlinked \notin DOMAIN d
    BY <1>6, SpecialNames DEF AppendLine, GoodDir
  <2>2. GoodDir(files', acked', logcfg)
    BY <1>5, <2>1, GoodGrows
  <2>3. expired' = expired \cup {} /\ Lines(files', DOMAIN files') \subseteq Lines(files, DOMAIN files) \cup {x}
        /\ logcfg.external /\ ~OnlyRenames /\ Retained(files', expired')
    BY <1>6, <2>1
  <2>4. LinesKept' /\ NewestStay' /\ expired' \subseteq acked'
    <3>1. Sheds({}, {x})
      BY <1>5, <2>3 DEF Sheds
    <3> QED BY <3>1, Shed
  <2>5. HandleOK'
    BY <1>6, <2>1, <2>3, HeldHandle
  <2> QED BY <1>1, <1>3, <1>5, <1>6, <2>1, <2>2, <2>4, <2>5, LogAssemble
<1>7. CASE fd # Unlinked
  <2>1. fd \in DOMAIN d
    BY <1>7
  <2>2. logcfg.daily /\ d[fd].lines # {} => d[fd].day = date.day
    <3>1. ASSUME logcfg.daily, d[fd].lines # {} PROVE d[fd].day = date.day
      <4>1. start = date.day
        BY <1>7, <3>1 DEF NeedsRotate
      <4>2. d[fd].day \in Nat /\ d[fd].day <= date.day
        BY <2>1, GoodNumbers DEF GoodDir
      <4> QED BY <1>1, <1>7, <3>1, <4>1, <4>2
    <3> QED BY <3>1
  <2>3. /\ GoodDir(files', acked', logcfg)
        /\ Lines(files', DOMAIN files') = Lines(d, DOMAIN d) \cup {x}
        /\ DOMAIN files' = DOMAIN d /\ files'[fd].day = date.day
        /\ \A f \in DOMAIN d : f # fd => files'[f] = d[f]
        /\ d[fd].last <= files'[fd].last
    <3>1. /\ GoodDir(AppendLine(d, fd), acked \cup {NextLine}, logcfg)
          /\ Lines(AppendLine(d, fd), DOMAIN AppendLine(d, fd)) = Lines(d, DOMAIN d) \cup {NextLine}
          /\ DOMAIN AppendLine(d, fd) = DOMAIN d /\ AppendLine(d, fd)[fd].day = date.day
          /\ \A f \in DOMAIN d : f # fd => AppendLine(d, fd)[f] = d[f]
          /\ d[fd].last <= AppendLine(d, fd)[fd].last
      BY <1>1, <1>2, <2>1, <2>2, GoodAppend
    <3> QED BY <1>4, <3>1
  <2>4. LinesKept' /\ NewestStay' /\ expired' \subseteq acked'
    <3>1. expired \subseteq acked /\ \A f \in DOMAIN d : d[f].last \in Nat
      BY GoodNumbers DEF LogInv
    <3>2. \A f \in DOMAIN d : f # Live => f \in DOMAIN files' /\ d[f].last <= files'[f].last
      BY <2>3, <3>1
    <3>3. Retained(files', expired)
      BY <2>3, <3>1, <3>2, RetainedGrows
    <3>4. Sheds({}, {x})
      BY <1>5, <2>3, <3>3 DEF Sheds
    <3> QED BY <3>4, Shed
  <2>5. HandleOK'
    BY <1>7, <2>1, <2>3, HeldHandle
  <2> QED BY <1>1, <1>3, <1>5, <2>1, <2>3, <2>4, <2>5, LogAssemble
<1> QED BY <1>6, <1>7

LEMMA WriteLineInv == ASSUME LogInv, WriteLine PROVE LogInv'
<1>1. PICK opened : opened = IF handle = NoFile THEN Opened(files) ELSE files
  OBVIOUS
<1>2. PICK fd, start : /\ fd = IF handle = NoFile THEN Live ELSE handle
                       /\ start = IF handle = NoFile THEN PeriodOf(opened) ELSE periodStart
  OBVIOUS
<1>3. PICK due : due = IF fd = Unlinked THEN BOOLEAN ELSE {NeedsRotate(opened[fd], start)}
  OBVIOUS
<1>4. logcfg.held /\ Cardinality(acked) < MaxLines /\ UNCHANGED <<logcfg, rotor, date>>
  BY DEF WriteLine
<1>5. \/ /\ TRUE \in due
         /\ Live \in DOMAIN opened => Unhurried(opened)
         /\ \E o \in RotateOutcomes(opened) :
               /\ expired' = expired \cup o.gone
               /\ periodStart' = date.day
               /\ IF o.ok
                  THEN /\ files' = AppendLine(Opened(o.files), Live)
                       /\ handle' = Live /\ acked' = acked \cup {NextLine}
                  ELSE files' = o.files /\ handle' = NoFile /\ UNCHANGED acked
      \/ /\ FALSE \in due
         /\ files' = AppendLine(opened, fd)
         /\ handle' = fd /\ periodStart' = start
         /\ acked' = acked \cup {NextLine} /\ UNCHANGED expired
  BY <1>1, <1>2, <1>3 DEF WriteLine
<1>6. /\ GoodDir(opened, acked, logcfg)
      /\ Lines(opened, DOMAIN opened) = Lines(files, DOMAIN files)
      /\ fd \in {Live, External, Unlinked}
      /\ fd # Unlinked => fd \in DOMAIN opened
      /\ Retained(opened, expired)
      /\ fd \in {External, Unlinked} => logcfg.external /\ Live \notin DOMAIN opened
      /\ start \in Nat /\ start <= date.day
      /\ fd # Unlinked /\ opened[fd].lines # {} => start <= opened[fd].day
      /\ OnlyRenames => fd # Unlinked
  BY <1>1, <1>2, <1>4, WriteSetup
<1>7. CASE /\ Live \in DOMAIN opened => Unhurried(opened)
           /\ \E o \in RotateOutcomes(opened) :
               /\ expired' = expired \cup o.gone
               /\ periodStart' = date.day
               /\ IF o.ok
                  THEN /\ files' = AppendLine(Opened(o.files), Live)
                       /\ handle' = Live /\ acked' = acked \cup {NextLine}
                  ELSE files' = o.files /\ handle' = NoFile /\ UNCHANGED acked
  <2>1. PICK o \in RotateOutcomes(opened) :
               /\ expired' = expired \cup o.gone
               /\ periodStart' = date.day
               /\ IF o.ok
                  THEN /\ files' = AppendLine(Opened(o.files), Live)
                       /\ handle' = Live /\ acked' = acked \cup {NextLine}
                  ELSE files' = o.files /\ handle' = NoFile /\ UNCHANGED acked
    BY <1>7
  <2>2. PICK q, gone : q = o.files /\ gone = o.gone
    OBVIOUS
  <2>3. /\ GoodDir(q, acked, logcfg) /\ gone \subseteq acked
        /\ Lines(files, DOMAIN files) = gone \cup Lines(q, DOMAIN q)
        /\ Retained(q, expired \cup gone)
        /\ o.ok => Live \notin DOMAIN q
    BY <1>4, <1>6, <1>7, <2>2, RotationKeeps
  <2>4. expired' = expired \cup gone /\ periodStart' = date.day
    BY <2>1, <2>2
  <2>5. CASE ~o.ok
    <3>1. files' = q /\ handle' = NoFile /\ acked' = acked
      BY <2>1, <2>2, <2>5
    <3> QED BY <1>4, <2>3, <2>4, <3>1, RotationLeaves
  <2>6. CASE o.ok
    <3>1. PICK p : p = Opened(q)
      OBVIOUS
    <3>2. PICK x : x = NextLine
      OBVIOUS
    <3>3. files' = AppendLine(p, Live) /\ handle' = Live /\ acked' = acked \cup {x}
      BY <2>1, <2>2, <2>6, <3>1, <3>2
    <3>4. Live \notin DOMAIN q
      BY <2>3, <2>6
    <3> QED BY <1>4, <2>3, <2>4, <3>1, <3>2, <3>3, <3>4, RotationReopens
  <2> QED BY <2>5, <2>6
<1>8. CASE /\ FALSE \in due
           /\ files' = AppendLine(opened, fd)
           /\ handle' = fd /\ periodStart' = start
           /\ acked' = acked \cup {NextLine} /\ UNCHANGED expired
  <2>1. fd # Unlinked => ~NeedsRotate(opened[fd], start)
    BY <1>3, <1>8, Zenon
  <2> QED BY <1>4, <1>6, <1>8, <2>1, WriteAppends
<1> QED BY <1>5, <1>7, <1>8
\* What HandleOK asks of a file others append to.
LEMMA LooseHandle ==
    ASSUME logcfg' = logcfg, ~logcfg.held, handle' # NoFile => Cardinality(acked') < MaxLines,
           OnlyRenames => handle' # Unlinked
    PROVE  HandleOK'
<1>1. OnlyRenames' <=> OnlyRenames
  BY DEF OnlyRenames
<1> QED BY <1>1 DEF HandleOK

\* Pruning behind a held handle can only take a file that logrotate renamed.
LEMMA RotateCheckInv == ASSUME LogInv, RotateCheck PROVE LogInv'
<1>1. logcfg.held /\ UNCHANGED <<logcfg, rotor, date, acked>>
  BY DEF RotateCheck
<1>2. /\ GoodDir(files, acked, logcfg) /\ Numbered(acked) /\ HandleOK /\ rotor \in RotorType /\ RotorOK
      /\ periodStart \in Nat /\ periodStart <= date.day
      /\ handle \in DOMAIN files \cup {NoFile, Unlinked}
  BY LogTyping DEF LogInv, LogTypeOK, RotorType
<1>3. rotor' \in RotorType /\ RotorOK'
  BY <1>1, <1>2 DEF RotorOK
<1>4. CASE CheckHits
  <2>1. PICK o \in RotateOutcomes(files) : files' = o.files /\ expired' = expired \cup o.gone
    BY <1>1, <1>4 DEF RotateCheck
  <2>2. PICK q, gone : q = o.files /\ gone = o.gone
    OBVIOUS
  <2>3. Unhurried(files) /\ handle' = NoFile /\ periodStart' = date.day
    BY <1>4 DEF RotateCheck
  <2>4. /\ GoodDir(q, acked, logcfg) /\ gone \subseteq acked
        /\ Lines(files, DOMAIN files) = gone \cup Lines(q, DOMAIN q)
        /\ Retained(q, expired \cup gone)
    BY <1>1, <1>2, <2>2, <2>3, RetainedHere, RotationKeeps
  <2>5. files' = q /\ expired' = expired \cup gone
    BY <2>1, <2>2
  <2> QED BY <1>1, <2>3, <2>4, <2>5, RotationLeaves
<1>5. CASE ~CheckHits
  <2>1. PICK out \in SUBSET Prune(files) :
          /\ files' = Without(files, out) /\ handle' = Follow(handle, out)
          /\ expired' = expired \cup Lines(files, out) /\ periodStart' = periodStart
    BY <1>5 DEF RotateCheck
  <2>2. PICK gone : gone = Lines(files, out)
    OBVIOUS
  <2>3. /\ GoodDir(files', acked, logcfg) /\ gone \subseteq acked
        /\ Lines(files, DOMAIN files) = gone \cup Lines(files', DOMAIN files')
        /\ Live \notin out /\ (OnlyRenames => out = {})
        /\ Retained(files', expired')
    <3>1. /\ GoodDir(Without(files, out), acked, logcfg)
          /\ Lines(files, out) \subseteq acked
          /\ Lines(files, DOMAIN files) = Lines(files, out) \cup Lines(Without(files, out), DOMAIN Without(files, out))
          /\ Live \notin out /\ (OnlyRenames => out = {})
      BY <1>2, <2>1, PruneKeeps
    <3>2. Retained(Without(files, out), expired \cup Lines(files, out))
      BY <1>2, <2>1, RetainedHere, PruneRetains DEF LogInv
    <3> QED BY <1>1, <2>1, <2>2, <3>1, <3>2
  <2>4. out \subseteq DOMAIN files /\ DOMAIN files' = DOMAIN files \ out
        /\ \A f \in DOMAIN files' : files'[f] = files[f]
    BY <2>1 DEF Prune, Without
  <2>5. handle' = IF handle \in out THEN Unlinked ELSE handle
    BY <2>1 DEF Follow
  <2>6. NoFile \notin DOMAIN files /\ Unlinked \notin DOMAIN files
    BY <1>2, SpecialNames DEF GoodDir
  <2>7. Sheds(gone, {})
    BY <1>1, <2>1, <2>2, <2>3 DEF Sheds
  <2>8. LinesKept' /\ NewestStay' /\ expired' \subseteq acked'
    BY <2>7, Shed
  <2>9. CASE handle \in out
    <3>1. handle = External /\ handle' = Unlinked /\ logcfg.external /\ Live \notin DOMAIN files'
      BY <1>1, <1>2, <2>3, <2>4, <2>5, <2>6, <2>9 DEF HandleOK
    <3>2. HandleOK'
      BY <1>1, <2>3, <2>4, <2>6, <2>9, <3>1, HeldHandle
    <3> QED BY <1>1, <1>2, <1>3, <2>1, <2>3, <2>8, <3>1, <3>2, LogAssemble
  <2>10. CASE handle \notin out
    <3>1. handle' = handle
      BY <2>5, <2>10
    <3>3. handle \in DOMAIN files' /\ files'[handle].lines # {} => periodStart <= files'[handle].day
      BY <1>1, <1>2, <2>4 DEF HandleOK
    <3>4. /\ handle \in {NoFile, Live, External, Unlinked}
          /\ handle \in {External, Unlinked} => logcfg.external /\ Live \notin DOMAIN files'
          /\ OnlyRenames => handle # Unlinked
      BY <1>1, <1>2, <2>4 DEF HandleOK
    <3>5. HandleOK'
      BY <1>1, <2>1, <3>1, <3>3, <3>4, HeldHandle
    <3>6. handle' \in DOMAIN files' \cup {NoFile, Unlinked}
      BY <1>2, <2>4, <2>10, <3>1
    <3> QED BY <1>1, <1>2, <1>3, <2>1, <2>3, <2>8, <3>5, <3>6, LogAssemble
  <2> QED BY <2>9, <2>10
<1> QED BY <1>4, <1>5

LEMMA ReopenInv == ASSUME LogInv, Reopen PROVE LogInv'
<1>1. /\ logcfg.held /\ handle' = Live /\ UNCHANGED <<logcfg, rotor, date, acked, expired>>
      /\ files' = Opened(files) /\ periodStart' = PeriodOf(Opened(files))
  BY DEF Reopen
<1>2. /\ GoodDir(files, acked, logcfg) /\ Numbered(acked) /\ rotor \in RotorType /\ RotorOK
      /\ date.day \in 0 .. LogMaxDay /\ date.day \in Nat
  BY LogTyping DEF LogInv, LogTypeOK, RotorType
<1>3. rotor' \in RotorType /\ RotorOK'
  BY <1>1, <1>2 DEF RotorOK
<1>4. PICK p : p = Opened(files)
  OBVIOUS
<1>5. /\ GoodDir(p, acked, logcfg) /\ Lines(p, DOMAIN p) = Lines(files, DOMAIN files)
      /\ Live \in DOMAIN p /\ Retained(p, expired)
  <2>1. /\ GoodDir(Opened(files), acked, logcfg)
        /\ Lines(Opened(files), DOMAIN Opened(files)) = Lines(files, DOMAIN files)
        /\ Live \in DOMAIN Opened(files)
        /\ \A f \in DOMAIN files : f \in DOMAIN Opened(files) /\ Opened(files)[f] = files[f]
    BY <1>1, <1>2, GoodOpened
  <2>2. Retained(Opened(files), expired)
    BY <2>1, RetainedStays
  <2> QED BY <1>4, <2>1, <2>2
<1>6. p[Live].day \in Nat /\ p[Live].day <= date.day
  BY <1>5, GoodNumbers DEF GoodDir
<1>7. /\ periodStart' \in Nat /\ periodStart' <= date.day
      /\ p[Live].lines # {} => periodStart' <= p[Live].day
  BY <1>1, <1>2, <1>4, <1>6 DEF PeriodOf
<1>8. files' = p
  BY <1>1, <1>4
<1>9. Sheds({}, {})
  BY <1>1, <1>5, <1>8 DEF Sheds
<1>10. LinesKept' /\ NewestStay' /\ expired' \subseteq acked'
  BY <1>9, Shed
<1>11. HandleOK'
  BY <1>1, <1>5, <1>7, <1>8, HeldHandle, SpecialNames
<1> QED BY <1>1, <1>2, <1>3, <1>5, <1>7, <1>8, <1>10, <1>11, LogAssemble

LEMMA ExternalRenameInv == ASSUME LogInv, ExternalRename PROVE LogInv'
<1>1. /\ logcfg.external /\ Live \in DOMAIN files /\ External \notin DOMAIN files
      /\ files' = Put(Without(files, {Live}), External, files[Live])
      /\ handle' = IF handle = Live THEN External ELSE handle
      /\ UNCHANGED <<logcfg, periodStart, rotor, date, acked, expired>>
  BY DEF ExternalRename
<1>2. /\ GoodDir(files, acked, logcfg) /\ Numbered(acked) /\ rotor \in RotorType /\ RotorOK /\ HandleOK
      /\ date.day \in 0 .. LogMaxDay /\ date.day \in Nat /\ periodStart \in Nat
      /\ periodStart <= date.day /\ handle \in DOMAIN files \cup {NoFile, Unlinked}
      /\ expired \subseteq acked
  BY LogTyping DEF LogInv, LogTypeOK, RotorType
<1>3. Named(External)
  BY SpecialNames DEF Named
<1>4. /\ GoodDir(files', acked, logcfg) /\ Lines(files', DOMAIN files') = Lines(files, DOMAIN files)
      /\ Live \notin DOMAIN files' /\ External \in DOMAIN files' /\ files'[External] = files[Live]
      /\ \A f \in DOMAIN files : f # Live => f \in DOMAIN files' /\ files'[f] = files[f]
  <2>1. PICK r : r = Put(Without(files, {Live}), External, files[Live])
    OBVIOUS
  <2>2. /\ GoodDir(r, acked, logcfg) /\ Lines(r, DOMAIN r) = Lines(files, DOMAIN files)
        /\ Live \notin DOMAIN r /\ External \in DOMAIN r /\ r[External] = files[Live]
        /\ \A f \in DOMAIN files : f # Live => f \in DOMAIN r /\ r[f] = files[f]
    <3>1. /\ GoodDir(files, acked, logcfg) /\ Live \in DOMAIN files /\ Named(External)
          /\ External # Live /\ External \notin DOMAIN files
      BY <1>1, <1>2, <1>3, SpecialNames
    <3> QED BY <2>1, <3>1, GoodRename
  <2> QED BY <1>1, <2>1, <2>2
<1>5. rotor' \in RotorType /\ RotorOK'
  BY <1>1, <1>2, <1>4, SpecialNames DEF RotorOK
<1>6. Sheds({}, {})
  <2>1. Retained(files', expired)
    BY <1>4, RetainedStays
  <2> QED BY <1>1, <1>4, <2>1 DEF Sheds
<1>7. LinesKept' /\ NewestStay' /\ expired' \subseteq acked'
  BY <1>6, Shed
<1>8. handle' \in DOMAIN files' \cup {NoFile, Unlinked}
  BY <1>1, <1>2, <1>4
<1>9. CASE logcfg.held
  <2>1. handle \in {NoFile, Live}
    BY <1>1, <1>2, <1>9 DEF HandleOK
  <2>2. NoFile \notin DOMAIN files'
    BY <1>4, SpecialNames DEF GoodDir
  <2>3. CASE handle = NoFile
    <3>1. handle' = NoFile
      BY <1>1, <2>3, SpecialNames
    <3>2. HandleOK'
      BY <1>1, <1>9, <2>2, <3>1, HeldHandle, SpecialNames
    <3> QED BY <1>1, <1>2, <1>4, <1>5, <1>7, <1>8, <3>2, LogAssemble
  <2>4. CASE handle = Live
    <3>1. handle' = External
      BY <1>1, <2>4
    <3>2. files[Live].lines # {} => periodStart <= files[Live].day
      BY <1>1, <1>2, <1>9, <2>4 DEF HandleOK
    <3>3. HandleOK'
      BY <1>1, <1>4, <1>9, <3>1, <3>2, HeldHandle, SpecialNames
    <3> QED BY <1>1, <1>2, <1>4, <1>5, <1>7, <1>8, <3>3, LogAssemble
  <2> QED BY <2>1, <2>3, <2>4
<1>10. CASE ~logcfg.held
  <2>1. handle' # NoFile => Cardinality(acked') < MaxLines
    BY <1>1, <1>2, <1>10, SpecialNames DEF HandleOK
  <2>2. OnlyRenames => handle' # Unlinked
    BY <1>1, <1>2, SpecialNames DEF HandleOK
  <2>3. HandleOK'
    BY <1>1, <1>10, <2>1, <2>2, LooseHandle
  <2> QED BY <1>1, <1>2, <1>4, <1>5, <1>7, <1>8, <2>3, LogAssemble
<1> QED BY <1>9, <1>10
\* Another package opens the file for one line.
LEMMA LineOpenInv == ASSUME LogInv, LineOpen PROVE LogInv'
<1>1. /\ ~logcfg.held /\ Cardinality(acked) < MaxLines /\ files' = Opened(files) /\ handle' = Live
      /\ UNCHANGED <<logcfg, periodStart, rotor, date, acked, expired>>
  BY DEF LineOpen
<1>2. /\ GoodDir(files, acked, logcfg) /\ Numbered(acked) /\ rotor \in RotorType /\ RotorOK
      /\ date.day \in 0 .. LogMaxDay /\ periodStart \in Nat /\ periodStart <= date.day
  BY LogTyping DEF LogInv, LogTypeOK, RotorType
<1>3. /\ GoodDir(files', acked, logcfg) /\ Lines(files', DOMAIN files') = Lines(files, DOMAIN files)
      /\ Live \in DOMAIN files'
      /\ \A f \in DOMAIN files : f \in DOMAIN files' /\ files'[f] = files[f]
  <2>1. /\ GoodDir(Opened(files), acked, logcfg)
        /\ Lines(Opened(files), DOMAIN Opened(files)) = Lines(files, DOMAIN files)
        /\ Live \in DOMAIN Opened(files)
        /\ \A f \in DOMAIN files : f \in DOMAIN Opened(files) /\ Opened(files)[f] = files[f]
    BY <1>2, GoodOpened
  <2> QED BY <1>1, <2>1
<1>4. rotor' \in RotorType /\ RotorOK'
  BY <1>1, <1>2, <1>3 DEF RotorOK
<1>5. Sheds({}, {})
  <2>1. Retained(files', expired)
    BY <1>3, RetainedStays
  <2> QED BY <1>1, <1>3, <2>1 DEF Sheds
<1>6. LinesKept' /\ NewestStay' /\ expired' \subseteq acked'
  BY <1>5, Shed
<1>7. HandleOK'
  BY <1>1, LooseHandle, SpecialNames
<1> QED BY <1>1, <1>2, <1>3, <1>4, <1>6, <1>7, LogAssemble

\* ... and writes it, wherever the file is by now.
LEMMA LineWriteInv == ASSUME LogInv, LineWrite PROVE LogInv'
<1>1. /\ ~logcfg.held /\ handle # NoFile /\ files' = AppendLine(files, handle) /\ handle' = NoFile
      /\ acked' = acked \cup {NextLine} /\ UNCHANGED <<logcfg, periodStart, rotor, date, expired>>
  BY DEF LineWrite
<1>2. /\ GoodDir(files, acked, logcfg) /\ Numbered(acked) /\ rotor \in RotorType /\ RotorOK /\ HandleOK
      /\ date.day \in 0 .. LogMaxDay /\ periodStart \in Nat /\ periodStart <= date.day
      /\ handle \in DOMAIN files \cup {NoFile, Unlinked}
  BY LogTyping DEF LogInv, LogTypeOK, RotorType
<1>3. Cardinality(acked) < MaxLines /\ (OnlyRenames => handle # Unlinked)
  BY <1>1, <1>2 DEF HandleOK
<1>4. PICK x : x = NextLine
  OBVIOUS
<1>5. Numbered(acked') /\ acked' = acked \cup {x}
  BY <1>1, <1>2, <1>3, <1>4, NextIsLast
<1>6. HandleOK'
  BY <1>1, LooseHandle, SpecialNames
<1>7. CASE handle = Unlinked
  <2>1. files' = files
    BY <1>1, <1>7 DEF AppendLine
  <2>2. GoodDir(files', acked', logcfg)
    BY <1>2, <1>5, <2>1, GoodGrows
  <2>3. rotor' \in RotorType /\ RotorOK'
    BY <1>1, <1>2, <2>1 DEF RotorOK
  <2>4. Sheds({}, {x})
    BY <1>1, <1>3, <1>5, <1>7, <2>1, RetainedHere DEF Sheds
  <2>5. LinesKept' /\ NewestStay' /\ expired' \subseteq acked'
    BY <2>4, Shed
  <2> QED BY <1>1, <1>2, <1>5, <1>6, <2>2, <2>3, <2>5, LogAssemble
<1>8. CASE handle # Unlinked
  <2>1. PICK h : h = handle
    OBVIOUS
  <2>2. h \in DOMAIN files
    BY <1>1, <1>2, <1>8, <2>1
  <2>3. /\ GoodDir(files', acked', logcfg)
        /\ Lines(files', DOMAIN files') = Lines(files, DOMAIN files) \cup {x}
        /\ DOMAIN files' = DOMAIN files /\ files[h].last <= files'[h].last
        /\ \A f \in DOMAIN files : f # h => files'[f] = files[f]
    <3>1. /\ GoodDir(AppendLine(files, h), acked \cup {NextLine}, logcfg)
          /\ Lines(AppendLine(files, h), DOMAIN AppendLine(files, h)) = Lines(files, DOMAIN files) \cup {NextLine}
          /\ DOMAIN AppendLine(files, h) = DOMAIN files /\ files[h].last <= AppendLine(files, h)[h].last
          /\ \A f \in DOMAIN files : f # h => AppendLine(files, h)[f] = files[f]
      BY <1>1, <1>2, <1>3, <2>2, GoodAppend
    <3> QED BY <1>1, <1>4, <2>1, <3>1
  <2>4. rotor' \in RotorType /\ RotorOK'
    BY <1>1, <1>2, <2>3 DEF RotorOK
  <2>5. Sheds({}, {x})
    <3>1. Retained(files', expired)
      BY <2>3, RetainedStays
    <3> QED BY <1>1, <1>5, <2>3, <3>1 DEF Sheds
  <2>6. LinesKept' /\ NewestStay' /\ expired' \subseteq acked'
    BY <2>5, Shed
  <2> QED BY <1>1, <1>2, <1>5, <1>6, <2>3, <2>4, <2>6, LogAssemble
<1> QED BY <1>7, <1>8

LEMMA CheckRenameInv == ASSUME LogInv, CheckRename PROVE LogInv'
<1>1. ~logcfg.held /\ UNCHANGED <<logcfg, periodStart, date, acked, expired>>
  BY DEF CheckRename
<1>2. /\ GoodDir(files, acked, logcfg) /\ Numbered(acked) /\ HandleOK
      /\ date.day \in 0 .. LogMaxDay /\ date.sec \in 1 .. Seconds
      /\ periodStart \in Nat /\ periodStart <= date.day
      /\ handle \in DOMAIN files \cup {NoFile, Unlinked}
  BY LogTyping DEF LogInv
<1>3. CASE CheckHits
  <2>1. PICK name : name = RotatedName(files)
    OBVIOUS
  <2>2. /\ name \notin DOMAIN files /\ files' = Put(Without(files, {Live}), name, files[Live])
        /\ handle' = (IF handle = Live THEN name ELSE handle)
        /\ rotor' = [pc |-> "trim", name |-> name] /\ Live \in DOMAIN files
    BY <1>3, <2>1 DEF CheckRename, CheckHits, Unhurried
  <2>3. Named(name) /\ name.kind = "rotated" /\ name # Live
    BY <1>2, <2>1, RotatedNamed
  <2>4. /\ GoodDir(files', acked, logcfg) /\ Lines(files', DOMAIN files') = Lines(files, DOMAIN files)
        /\ name \in DOMAIN files'
        /\ \A f \in DOMAIN files : f # Live => f \in DOMAIN files' /\ files'[f] = files[f]
    <3>1. PICK r : r = Put(Without(files, {Live}), name, files[Live])
      OBVIOUS
    <3>2. /\ GoodDir(r, acked, logcfg) /\ Lines(r, DOMAIN r) = Lines(files, DOMAIN files)
          /\ name \in DOMAIN r
          /\ \A f \in DOMAIN files : f # Live => f \in DOMAIN r /\ r[f] = files[f]
      <4>1. GoodDir(files, acked, logcfg) /\ Live \in DOMAIN files /\ Named(name) /\ name # Live /\ name \notin DOMAIN files
        BY <1>2, <2>2, <2>3
      <4>2. /\ GoodDir(r, acked, logcfg) /\ Lines(r, DOMAIN r) = Lines(files, DOMAIN files)
            /\ name \in DOMAIN r
        BY <3>1, <4>1, GoodRename
      <4>3. \A f \in DOMAIN files : f # Live => f \in DOMAIN r /\ r[f] = files[f]
        BY <3>1, <4>1, GoodRename
      <4> QED BY <4>2, <4>3
    <3> QED BY <2>2, <3>1, <3>2
  <2>5. rotor' \in RotorType /\ RotorOK'
    BY <1>1, <2>2, <2>3, <2>4 DEF RotorOK, RotorType, Named
  <2>6. Sheds({}, {})
    <3>1. Retained(files', expired)
      BY <2>4, RetainedStays
    <3> QED BY <1>1, <2>4, <3>1 DEF Sheds
  <2>7. LinesKept' /\ NewestStay' /\ expired' \subseteq acked'
    BY <2>6, Shed
  <2>8. name # NoFile /\ name # Unlinked
    BY <2>3, SpecialNames
  <2>9. HandleOK'
    <3>1. handle' # NoFile => Cardinality(acked') < MaxLines
      BY <1>1, <1>2, <2>2, SpecialNames DEF HandleOK
    <3>2. OnlyRenames => handle' # Unlinked
      BY <1>2, <2>2, <2>8 DEF HandleOK
    <3> QED BY <1>1, <3>1, <3>2, LooseHandle
  <2>10. handle' \in DOMAIN files' \cup {NoFile, Unlinked}
    BY <1>2, <2>2, <2>4
  <2> QED BY <1>1, <1>2, <2>4, <2>5, <2>7, <2>9, <2>10, LogAssemble
<1>4. CASE ~CheckHits
  <2>1. files' = files /\ handle' = handle /\ rotor' = [Idle EXCEPT !.pc = "prune"]
    BY <1>4 DEF CheckRename
  <2>2. rotor' \in RotorType /\ RotorOK'
    BY <1>1, <2>1, SpecialNames DEF RotorOK, RotorType, Idle
  <2>3. Sheds({}, {})
    BY <1>1, <2>1, RetainedHere DEF Sheds
  <2>4. LinesKept' /\ NewestStay' /\ expired' \subseteq acked'
    BY <2>3, Shed
  <2>5. HandleOK'
    BY <1>1, <1>2, <2>1, LooseHandle DEF HandleOK
  <2> QED BY <1>1, <1>2, <2>1, <2>2, <2>4, <2>5, LogAssemble
<1> QED BY <1>3, <1>4

\* A file that others append to goes away, with or without its lines being counted.
LEMMA FileGoes ==
    ASSUME LogInv, ~logcfg.held, NEW S, S \subseteq DOMAIN files, files' = Without(files, S), handle' = Follow(handle, S),
           NEW gone, gone \subseteq Lines(files, S), expired' = expired \cup gone,
           OnlyRenames => S = {}, Retained(files', expired'),
           UNCHANGED <<logcfg, periodStart, date, acked>>, rotor' \in RotorType,
           rotor'.pc \in {"idle", "prune"}
    PROVE  LogInv'
<1>1. /\ GoodDir(files, acked, logcfg) /\ Numbered(acked) /\ HandleOK
      /\ periodStart \in Nat /\ periodStart <= date.day
      /\ handle \in DOMAIN files \cup {NoFile, Unlinked}
  BY LogTyping DEF LogInv
<1>2. /\ GoodDir(files', acked, logcfg)
      /\ Lines(files, DOMAIN files) = Lines(files, S) \cup Lines(files', DOMAIN files')
  <2>1. /\ GoodDir(Without(files, S), acked, logcfg)
        /\ Lines(files, DOMAIN files) = Lines(files, S) \cup Lines(Without(files, S), DOMAIN Without(files, S))
    BY <1>1, GoodWithout
  <2> QED BY <2>1
<1>3. Lines(files, S) \subseteq acked
  <2>1. \A l \in Lines(files, S) : \E f \in S \cap DOMAIN files : l \in files[f].lines
    BY InLines
  <2> QED BY <1>1, <2>1 DEF GoodDir
<1>4. S = {} => Lines(files, S) = {}
  BY DEF Lines
<1>5. Sheds(gone, {})
  BY <1>2, <1>3, <1>4 DEF Sheds
<1>6. LinesKept' /\ NewestStay' /\ expired' \subseteq acked'
  BY <1>5, Shed
<1>7. handle' = IF handle \in S THEN Unlinked ELSE handle
  BY DEF Follow
<1>8. DOMAIN files' = DOMAIN files \ S
  BY DEF Without
<1>9. HandleOK'
  <2>1. NoFile \notin DOMAIN files
    BY <1>1, SpecialNames DEF GoodDir
  <2>2. handle' # NoFile => Cardinality(acked') < MaxLines
    BY <1>1, <1>7, <2>1 DEF HandleOK
  <2>3. OnlyRenames => handle' # Unlinked
    BY <1>1, <1>7 DEF HandleOK
  <2> QED BY <2>2, <2>3, LooseHandle
<1>10. RotorOK'
  BY DEF RotorOK
<1> QED BY <1>1, <1>2, <1>6, <1>7, <1>8, <1>9, <1>10, LogAssemble
LEMMA RotorAtWork == ASSUME LogInv, rotor.pc # "idle" PROVE ~logcfg.held /\ rotor \in RotorType
BY DEF LogInv, RotorOK, LogTypeOK, RotorType

\* The compressed copy beside the original.
LEMMA ZipInv ==
    ASSUME LogInv, TrimRotated, logcfg.keep # "none", logcfg.compress
    PROVE  LogInv'
<1>1. PICK name, zipped, copy : /\ name = rotor.name /\ zipped = [rotor.name EXCEPT !.gz = TRUE]
                                /\ copy = [files[rotor.name] EXCEPT !.day = date.day]
  OBVIOUS
<1>2. /\ rotor.pc = "trim" /\ files' = Put(files, zipped, copy)
      /\ rotor' = [rotor EXCEPT !.pc = "unlink"]
      /\ UNCHANGED <<logcfg, periodStart, date, acked, handle, expired>>
  BY <1>1 DEF TrimRotated
<1>3. ~logcfg.held /\ rotor \in RotorType
  BY <1>2, RotorAtWork
<1>4. /\ GoodDir(files, acked, logcfg) /\ Numbered(acked) /\ HandleOK /\ RotorOK
      /\ periodStart \in Nat /\ periodStart <= date.day /\ date.day \in 0 .. LogMaxDay
      /\ handle \in DOMAIN files \cup {NoFile, Unlinked}
  BY LogTyping DEF LogInv
<1>5. name \in DOMAIN files /\ name.kind = "rotated" /\ name \in Name
  BY <1>1, <1>2, <1>3, <1>4 DEF RotorOK, RotorType
<1>6. zipped \in Name /\ zipped.kind = "rotated"
  BY <1>1, <1>5 DEF Name
<1>7. files[name] \in File /\ files[name].lines \subseteq acked
  BY <1>4, <1>5 DEF GoodDir
<1>8. copy \in File /\ copy.lines = files[name].lines
  BY <1>1, <1>4, <1>7 DEF File
<1>9. /\ DOMAIN files' = DOMAIN files \cup {zipped} /\ files'[zipped] = copy
      /\ \A f \in DOMAIN files : f # zipped => files'[f] = files[f]
  BY <1>2 DEF Put
<1>10. IsFiniteSet(DOMAIN files')
  <2>1. PICK D : D = DOMAIN files
    OBVIOUS
  <2>2. IsFiniteSet(D \cup {zipped})
    BY <1>4, <2>1, FS_AddElement DEF GoodDir
  <2> QED BY <1>9, <2>1, <2>2
<1>11. \A f \in DOMAIN files' : Named(f) /\ files'[f] \in File /\ files'[f].lines \subseteq acked
  BY <1>4, <1>6, <1>7, <1>8, <1>9 DEF GoodDir, Named
<1>18. \A f \in DOMAIN files' : LastOK(files'[f]) /\ files'[f].day <= date.day
  <2>1. copy.last = files[name].last /\ copy.day = date.day
    BY <1>1, <1>7 DEF File
  <2>2. LastOK(files[name]) /\ \A l \in copy.lines : l.day <= date.day
    BY <1>4, <1>5, <1>7, <1>8 DEF GoodDir, Numbered
  <2>3. LastOK(copy) /\ copy.day <= date.day
    BY <1>4, <1>8, <2>1, <2>2, LogTyping DEF LastOK
  <2> QED BY <1>4, <1>9, <2>3 DEF GoodDir
<1>12. GoodDir(files', acked, logcfg)
  BY <1>3, <1>10, <1>11, <1>18 DEF GoodDir
<1>13. Lines(files', DOMAIN files') \subseteq Lines(files, DOMAIN files)
  <2>1. \A l : l \in Lines(files, DOMAIN files) <=> \E f \in DOMAIN files : l \in files[f].lines
    BY InLines
  <2>2. \A l \in Lines(files', DOMAIN files') : \E f \in DOMAIN files' : l \in files'[f].lines
    BY InLines
  <2> QED BY <1>5, <1>8, <1>9, <2>1, <2>2
<1>14. Sheds({}, {})
  <2>1. Retained(files', expired')
    BY <1>2, RetainedHere DEF Retained, Counting
  <2> QED BY <1>2, <1>3, <1>13, <2>1 DEF Sheds, OnlyRenames
<1>15. LinesKept' /\ NewestStay' /\ expired' \subseteq acked'
  BY <1>14, Shed
<1>16. rotor' \in RotorType /\ RotorOK'
  <2>1. rotor' \in RotorType /\ rotor'.pc = "unlink" /\ rotor'.name = name
    BY <1>1, <1>2, <1>3 DEF RotorType
  <2> QED BY <1>2, <1>3, <1>5, <1>9, <2>1 DEF RotorOK
<1>17. HandleOK'
  BY <1>2, <1>3, <1>4, LooseHandle DEF HandleOK
<1> QED BY <1>2, <1>4, <1>9, <1>12, <1>15, <1>16, <1>17, LogAssemble

LEMMA TrimRotatedInv == ASSUME LogInv, TrimRotated PROVE LogInv'
<1>1. rotor.pc = "trim" /\ UNCHANGED <<logcfg, periodStart, date, acked>>
  BY DEF TrimRotated
<1>2. ~logcfg.held /\ rotor \in RotorType
  BY <1>1, RotorAtWork
<1>3. CASE logcfg.keep = "none"
  <2>1. PICK S : S = {rotor.name}
    OBVIOUS
  <2>2. PICK gone : gone = Lines(files, S)
    OBVIOUS
  <2>3. /\ files' = Without(files, S) /\ handle' = Follow(handle, S)
        /\ expired' = expired \cup gone /\ rotor' = Idle
    BY <1>3, <2>1, <2>2 DEF TrimRotated
  <2>4. S \subseteq DOMAIN files
    BY <1>1, <2>1 DEF LogInv, RotorOK
  <2>5. rotor' \in RotorType /\ rotor'.pc = "idle" /\ ~OnlyRenames
    BY <1>3, <2>3, SpecialNames DEF Idle, RotorType, OnlyRenames
  <2>6. Retained(files', expired')
    BY <1>3 DEF Retained, Counting
  <2> QED BY <1>1, <1>2, <2>2, <2>3, <2>4, <2>5, <2>6, FileGoes
<1>4. CASE logcfg.keep # "none" /\ logcfg.compress
  BY <1>4, ZipInv
<1>5. CASE logcfg.keep # "none" /\ ~logcfg.compress
  <2>1. /\ files' = files /\ handle' = handle /\ expired' = expired
        /\ rotor' = [rotor EXCEPT !.pc = "prune"]
    BY <1>5 DEF TrimRotated
  <2>2. rotor' \in RotorType /\ rotor'.pc = "prune"
    BY <1>2, <2>1 DEF RotorType
  <2>3. RotorOK'
    BY <1>1, <1>2, <2>2 DEF RotorOK
  <2>4. /\ GoodDir(files, acked, logcfg) /\ Numbered(acked) /\ HandleOK
        /\ periodStart \in Nat /\ periodStart <= date.day
        /\ handle \in DOMAIN files \cup {NoFile, Unlinked}
    BY LogTyping DEF LogInv
  <2>5. Sheds({}, {})
    BY <1>1, <2>1, RetainedHere DEF Sheds
  <2>6. LinesKept' /\ NewestStay' /\ expired' \subseteq acked'
    BY <2>5, Shed
  <2>7. HandleOK'
    BY <1>1, <1>2, <2>1, <2>4, LooseHandle DEF HandleOK
  <2> QED BY <1>1, <2>1, <2>2, <2>3, <2>4, <2>6, <2>7, LogAssemble
<1> QED BY <1>3, <1>4, <1>5

LEMMA UnlinkZippedInv == ASSUME LogInv, UnlinkZipped PROVE LogInv'
<1>1. PICK S : S = {rotor.name}
  OBVIOUS
<1>2. /\ rotor.pc = "unlink" /\ files' = Without(files, S) /\ handle' = Follow(handle, S)
      /\ rotor' = [rotor EXCEPT !.pc = "prune"] /\ expired' = expired \cup {}
      /\ UNCHANGED <<logcfg, periodStart, date, acked>>
  BY <1>1 DEF UnlinkZipped
<1>3. ~logcfg.held /\ rotor \in RotorType
  BY <1>2, RotorAtWork
<1>4. S \subseteq DOMAIN files /\ ~OnlyRenames
  BY <1>1, <1>2 DEF LogInv, RotorOK, OnlyRenames
<1>5. rotor' \in RotorType /\ rotor'.pc = "prune"
  BY <1>2, <1>3 DEF RotorType
<1>6. PICK gone : gone = {}
  OBVIOUS
<1>7. gone \subseteq Lines(files, S) /\ expired' = expired \cup gone
  BY <1>2, <1>6
<1>8. Retained(files', expired')
  <2>1. logcfg.compress
    BY <1>2 DEF LogInv, RotorOK
  <2> QED BY <1>2, <2>1, RetainedHere DEF Retained, Counting
<1> QED BY <1>2, <1>3, <1>4, <1>5, <1>7, <1>8, FileGoes

LEMMA PruneRotatedInv == ASSUME LogInv, PruneRotated PROVE LogInv'
<1>1. PICK S \in SUBSET Prune(files) :
          /\ files' = Without(files, S) /\ handle' = Follow(handle, S)
          /\ expired' = expired \cup Lines(files, S)
  BY DEF PruneRotated
<1>2. PICK gone : gone = Lines(files, S)
  OBVIOUS
<1>3. /\ rotor.pc = "prune" /\ expired' = expired \cup gone /\ rotor' = Idle
      /\ UNCHANGED <<logcfg, periodStart, date, acked>>
  BY <1>1, <1>2 DEF PruneRotated
<1>4. ~logcfg.held
  BY <1>3, RotorAtWork
<1>5. S \subseteq DOMAIN files /\ (OnlyRenames => S = {})
  BY <1>1 DEF Prune, OnlyRenames
<1>6. rotor' \in RotorType /\ rotor'.pc = "idle"
  BY <1>3, SpecialNames DEF Idle, RotorType
<1>7. Retained(files', expired')
  BY <1>1, RetainedHere, PruneRetains DEF LogInv
<1> QED BY <1>1, <1>2, <1>3, <1>4, <1>5, <1>6, <1>7, FileGoes

\* The next process starts with no handle; the files are as they were.
LEMMA LogRestartInv == ASSUME LogInv, LogRestart PROVE LogInv'
<1>1. /\ handle' = NoFile /\ rotor' = Idle
      /\ UNCHANGED <<logcfg, files, periodStart, date, acked, expired>>
  BY DEF LogRestart
<1>2. /\ GoodDir(files, acked, logcfg) /\ Numbered(acked)
      /\ periodStart \in Nat /\ periodStart <= date.day /\ logcfg.held \in BOOLEAN
  BY LogTyping DEF LogInv
<1>3. rotor' \in RotorType /\ RotorOK'
  BY <1>1, SpecialNames DEF Idle, RotorType, RotorOK
<1>4. Sheds({}, {})
  BY <1>1, RetainedHere DEF Sheds
<1>5. LinesKept' /\ NewestStay' /\ expired' \subseteq acked'
  BY <1>4, Shed
<1>6. NoFile \notin DOMAIN files
  BY <1>2, SpecialNames DEF GoodDir
<1>7. HandleOK'
  <2>1. CASE logcfg.held
    BY <1>1, <1>6, <2>1, HeldHandle, SpecialNames
  <2>2. CASE ~logcfg.held
    BY <1>1, <2>2, LooseHandle, SpecialNames
  <2> QED BY <2>1, <2>2
<1> QED BY <1>1, <1>2, <1>3, <1>5, <1>7, LogAssemble

LEMMA LogTimeInv == ASSUME LogInv, LogTime PROVE LogInv'
<1>1. /\ UNCHANGED <<logcfg, files, handle, periodStart, rotor, acked, expired>>
      /\ \/ date.sec < Seconds /\ date' = [date EXCEPT !.sec = @ + 1]
         \/ date.day < LogMaxDay /\ date' = [day |-> date.day + 1, sec |-> 1]
  BY DEF LogTime
<1>2. /\ LogTypeOK /\ Numbered(acked) /\ GoodDir(files, acked, logcfg) /\ HandleOK /\ RotorOK
      /\ LinesKept /\ NewestStay /\ expired \subseteq acked /\ periodStart <= date.day
  BY DEF LogInv
<1>3. date \in [day : 0 .. LogMaxDay, sec : 1 .. Seconds]
  BY <1>2 DEF LogTypeOK
<1>4. date' \in [day : 0 .. LogMaxDay, sec : 1 .. Seconds] /\ date.day <= date'.day
      /\ date.day \in Nat /\ date'.day \in Nat
  BY <1>1, <1>3, LogAssumption
<1>5. LogTypeOK'
  BY <1>1, <1>2, <1>4 DEF LogTypeOK
<1>6. \A l \in acked : l.day \in Nat
  BY <1>2, LogAssumption DEF Numbered, Line
<1>7. Numbered(acked)'
  BY <1>1, <1>2, <1>4, <1>6 DEF Numbered
<1>8. periodStart' <= date'.day
  BY <1>1, <1>2, <1>4, LogTyping
<1>9. GoodDir(files, acked, logcfg)'
  <2>1. \A f \in DOMAIN files : files[f].day <= date'.day
    <3>1. \A f \in DOMAIN files : files[f].day \in Nat
      BY <1>2, GoodNumbers
    <3>2. \A f \in DOMAIN files : files[f].day <= date.day
      BY <1>2 DEF GoodDir
    <3> QED BY <1>4, <3>1, <3>2
  <2>2. /\ IsFiniteSet(DOMAIN files)
        /\ \A f \in DOMAIN files : Named(f) /\ files[f] \in File /\ files[f].lines \subseteq acked
        /\ \A f \in DOMAIN files : LastOK(files[f])
        /\ logcfg.held /\ logcfg.daily => OneDay(files)
    BY <1>2 DEF GoodDir
  <2>3. (logcfg.held /\ logcfg.daily => OneDay(files))'
    BY <1>1, <2>2 DEF OneDay
  <2>4. (\A f \in DOMAIN files : LastOK(files[f]) /\ files[f].day <= date.day)'
    BY <1>1, <2>1, <2>2 DEF LastOK
  <2>5. (\A f \in DOMAIN files : Named(f) /\ files[f] \in File /\ files[f].lines \subseteq acked)'
    BY <1>1, <2>2 DEF Named, Name, File, Line
  <2>6. IsFiniteSet(DOMAIN files)'
    BY <1>1, <2>2
  <2> QED BY <2>3, <2>4, <2>5, <2>6 DEF GoodDir
<1>10. HandleOK' /\ RotorOK'
  BY <1>1, <1>2 DEF HandleOK, RotorOK, OnlyRenames
<1>11. LinesKept'
  BY <1>1, <1>2 DEF LinesKept, OnlyRenames, Lines
<1>12. NewestStay'
  <2>1. logcfg.n \in Nat /\ \A l \in expired : l.day \in Nat
    BY <1>2, <1>6, LogTyping DEF LogPolicy
  <2> QED BY <1>1, <1>2, <1>4, <2>1 DEF NewestStay
<1> QED BY <1>1, <1>2, <1>5, <1>7, <1>8, <1>9, <1>10, <1>11, <1>12 DEF LogInv

LEMMA LogInitInv == LogInit => LogInv
<1> SUFFICES ASSUME LogInit PROVE LogInv
  OBVIOUS
<1>1. /\ logcfg \in LogConfigs /\ files = [f \in {} |-> 0] /\ handle = NoFile /\ periodStart = 0
      /\ rotor = Idle /\ date = [day |-> 0, sec |-> 1] /\ acked = {} /\ expired = {}
  BY DEF LogInit
<1>2. DOMAIN files = {}
  BY <1>1
<1>3. rotor \in RotorType /\ rotor.pc = "idle"
  BY <1>1, SpecialNames DEF Idle, RotorType
<1>4. date \in [day : 0 .. LogMaxDay, sec : 1 .. Seconds] /\ date.day = 0
  BY <1>1, LogAssumption
<1>5. LogTypeOK
  BY <1>1, <1>2, <1>3, <1>4, LogAssumption DEF LogTypeOK, RotorType
<1>6. Numbered(acked) /\ expired \subseteq acked /\ periodStart <= date.day
  BY <1>1, <1>4, FS_EmptySet DEF Numbered
<1>7. GoodDir(files, acked, logcfg)
  BY <1>2, FS_EmptySet DEF GoodDir, OneDay
<1>8. HandleOK /\ RotorOK
  BY <1>1, <1>2, <1>3, SpecialNames DEF HandleOK, RotorOK
<1>9. LinesKept /\ NewestStay
  BY <1>1 DEF LinesKept, NewestStay
<1> QED BY <1>5, <1>6, <1>7, <1>8, <1>9 DEF LogInv

\* One day per file is part of a good directory.
LEMMA LogsThen == LogInv => LogsSound
BY DEF LogInv, LogsSound, GoodDir, OneDay, OneDayPerFile

\* An acknowledged line is in a file of writeLine's directory until prune expires it, the
\* lines that prune expired are older than n rotated files that stay (counted retention) or
\* than n days (aged), whatever part of its removals succeed, and daily files hold one day,
\* for every rotation and retention policy and any number of lines, days, restarts, failing
\* rotations and external renames.
THEOREM LogsAreSound == LogSpec => []LogsSound
<1>1. ASSUME LogInv, UNCHANGED logVars PROVE LogInv'
  BY <1>1 DEF logVars, LogInv, LogTypeOK, Numbered, GoodDir, OneDay, LastOK,
              HandleOK, RotorOK, LinesKept, NewestStay, OnlyRenames, Lines
<1>2. LogInv /\ [LogNext]_logVars => LogInv'
  BY <1>1, WriteLineInv, RotateCheckInv, ReopenInv, ExternalRenameInv, LineOpenInv, LineWriteInv,
     CheckRenameInv, TrimRotatedInv, UnlinkZippedInv, PruneRotatedInv, LogRestartInv, LogTimeInv
     DEF LogNext
<1>3. LogSpec => []LogInv
  BY <1>2, LogInitInv, PTL DEF LogSpec
<1> QED BY <1>3, LogsThen, PTL
=============================================================================
