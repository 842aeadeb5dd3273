--------------------------- MODULE RecoveryProofs ---------------------------
(***************************************************************************)
(* Proofs about what brings a database forward and back: module Schema,    *)
(* for any number of processes that open the database, any old layouts and *)
(* any number of failing statements; and module Restore, for any set of    *)
(* archive entries and any number of commands.                             *)
(***************************************************************************)
EXTENDS Schema, Restore, TLAPS

(***************************************************************************)
(* Schema.  OpenMeansComplete is about the end of the list of statements;   *)
(* the invariant says the same of every place in it.                       *)
(***************************************************************************)
\* A process at statement i has seen what the statements before i bring.
SoFarPresent ==
    \A p \in Openers : \A j \in 1 .. Len(Statements) :
        j < opener[p].at => Statements[j].of \in layout

OpenAtTheEnd == \A p \in Openers : opener[p].end = "open" => opener[p].at = Len(Statements) + 1

SchemaInv ==
    /\ SchemaTypeOK /\ NobodyLockedOut
    /\ SoFarPresent /\ OpenAtTheEnd

\* The list of statements, and what it brings together: everything, and no more.
LEMMA StatementList ==
    /\ Len(Statements) = 12
    /\ \A i \in 1 .. Len(Statements) :
          /\ Statements[i].of \in Complete /\ Statements[i].columns \subseteq Complete
          /\ Statements[i].does \in {"table", "index", "column"}
          /\ Statements[i].does = "index" => Statements[i].of = "burn_after"
    /\ \A c \in Complete : \E i \in 1 .. Len(Statements) : Statements[i].of = c
<1>1. /\ Len(Statements) = 12
      /\ Statements[1] = Table("pastes", {"burn_after", "delete_token_hash", "content_type"})
      /\ Statements[2] = Index("burn_after")
      /\ Statements[3] = Table("scheduler", {}) /\ Statements[4] = Table("secrets", {})
      /\ Statements[5] = Table("tokens", {})
      /\ Statements[6] = Table("reports", {"token_last_used"})
      /\ Statements[7] = Table("keypair", {})
      /\ Statements[8] = Column("burn_after") /\ Statements[9] = Column("delete_token_hash")
      /\ Statements[10] = Column("content_type") /\ Statements[11] = Column("is_link")
      /\ Statements[12] = Column("token_last_used")
  BY DEF Statements, PasteStatements, ServerStatements, ReportStatements, Updates
<1>2. \A i \in 1 .. 12 : i \in {1, 2, 3, 4, 5, 6, 7, 8, 9, 10, 11, 12}
  OBVIOUS
<1>3. ASSUME NEW i \in 1 .. Len(Statements)
      PROVE  /\ Statements[i].of \in Complete /\ Statements[i].columns \subseteq Complete
             /\ Statements[i].does \in {"table", "index", "column"}
             /\ Statements[i].does = "index" => Statements[i].of = "burn_after"
  BY <1>1, <1>2 DEF Table, Index, Column, Complete
<1>4. ASSUME NEW c \in Complete PROVE \E i \in 1 .. Len(Statements) : Statements[i].of = c
  <2>1. /\ Statements[1].of = "pastes" /\ Statements[3].of = "scheduler"
        /\ Statements[4].of = "secrets" /\ Statements[5].of = "tokens"
        /\ Statements[6].of = "reports" /\ Statements[7].of = "keypair"
        /\ Statements[8].of = "burn_after" /\ Statements[9].of = "delete_token_hash"
        /\ Statements[10].of = "content_type" /\ Statements[11].of = "is_link"
        /\ Statements[12].of = "token_last_used"
    BY <1>1 DEF Table, Column
  <2>2. {1, 3, 4, 5, 6, 7, 8, 9, 10, 11, 12} \subseteq 1 .. Len(Statements)
    BY <1>1
  <2> QED BY <2>1, <2>2 DEF Complete
<1> QED BY <1>1, <1>3, <1>4

\* An old database that nobody has opened.
LEMMA SchemaStarts == SchemaInit => SchemaInv
<1> SUFFICES ASSUME SchemaInit PROVE SchemaInv
  OBVIOUS
<1>1. \A p \in Openers : opener[p].at = 0 /\ opener[p].end = "none"
  BY DEF SchemaInit, NotOpen
<1>2. opener \in [Openers -> [at : 0..Len(Statements) + 1, end : {"none", "open", "error"}]]
  BY StatementList DEF SchemaInit, NotOpen
<1>3. SchemaTypeOK
  <2>1. layout \subseteq Complete
    BY SchemaAssumption DEF SchemaInit
  <2>2. openings \in 0 .. MaxOpenings /\ schemaFaults \in 0 .. MaxSchemaFaults
    BY SchemaAssumption DEF SchemaInit
  <2> QED BY <1>2, <2>1, <2>2 DEF SchemaInit, SchemaTypeOK
<1>4. SoFarPresent
  BY <1>1 DEF SoFarPresent
<1> QED BY <1>1, <1>3, <1>4 DEF SchemaInv, NobodyLockedOut, OpenAtTheEnd

\* One statement of ensureSchema.
LEMMA StatementKeeps ==
    ASSUME NEW p \in Openers, SchemaInv, Statement(p)
    PROVE  SchemaInv'
<1> DEFINE i == opener[p].at
           s == Statements[i]
<1>1. i \in 1 .. Len(Statements) /\ Len(Statements) = 12
  BY StatementList DEF Statement
<1>2. /\ s.of \in Complete /\ s.columns \subseteq Complete
      /\ s.does \in {"table", "index", "column"} /\ (s.does = "index" => s.of = "burn_after")
  BY <1>1, StatementList
<1>3. UNCHANGED <<openings, schemaFaults>> /\ lacked' \in BOOLEAN /\ (lacked => lacked')
  BY DEF Statement, SchemaInv, SchemaTypeOK
<1> HIDE DEF s
<1>4. CASE Outcome(s) = "done" \/ Ignored(Outcome(s))
  <2>1. layout' = Executed(s) /\ opener' = [opener EXCEPT ![p] =
            [at |-> i + 1, end |-> IF i = Len(Statements) THEN "open" ELSE "none"]]
    BY <1>4 DEF Statement, s
  <2>2. layout \subseteq layout' /\ layout' \subseteq Complete /\ s.of \in layout'
    BY <1>2, <1>4, <2>1 DEF Executed, Outcome, Ignored, SchemaInv, SchemaTypeOK
  <2>3. SchemaTypeOK'
    BY <1>1, <1>3, <2>1, <2>2 DEF SchemaInv, SchemaTypeOK
  <2>4. SoFarPresent'
    BY <1>1, <2>1, <2>2 DEF SchemaInv, SchemaTypeOK, SoFarPresent, s
  <2>5. OpenAtTheEnd' /\ NobodyLockedOut'
    BY <1>1, <1>3, <2>1 DEF SchemaInv, SchemaTypeOK, OpenAtTheEnd, NobodyLockedOut
  <2> QED BY <2>3, <2>4, <2>5 DEF SchemaInv
<1>5. CASE ~(Outcome(s) = "done" \/ Ignored(Outcome(s)))
  <2>1. UNCHANGED layout /\ opener' = [opener EXCEPT ![p].end = "error"]
    BY <1>5 DEF Statement, s
  <2>2. Outcome(s) = "error" /\ s.of = "burn_after"
    BY <1>2, <1>5 DEF Outcome, Ignored
  <2>3. lacked'
    BY <2>2 DEF Statement, s
  <2> QED BY <1>1, <1>3, <2>1, <2>3
             DEF SchemaInv, SchemaTypeOK, SoFarPresent, OpenAtTheEnd, NobodyLockedOut
<1> QED BY <1>4, <1>5

\* Every step of every process keeps SchemaInv.
LEMMA OpeningKeeps == SchemaInv /\ [SchemaNext]_schemaVars => SchemaInv'
<1> SUFFICES ASSUME SchemaInv, [SchemaNext]_schemaVars PROVE SchemaInv'
  OBVIOUS
<1> USE SchemaAssumption, StatementList
<1>1. CASE \E p \in Openers : OpenDatabase(p)
  BY <1>1 DEF OpenDatabase, NotOpen, SchemaInv, SchemaTypeOK, SoFarPresent, OpenAtTheEnd,
              NobodyLockedOut
<1>2. CASE \E p \in Openers : Statement(p)
  BY <1>2, StatementKeeps
<1>3. CASE \E p \in Openers : StatementFails(p)
  BY <1>3 DEF StatementFails, SchemaInv, SchemaTypeOK, SoFarPresent, OpenAtTheEnd, NobodyLockedOut
<1>4. CASE \E p \in Openers : OpenerEnds(p)
  BY <1>4 DEF OpenerEnds, NotOpen, SchemaInv, SchemaTypeOK, SoFarPresent, OpenAtTheEnd,
              NobodyLockedOut
<1>5. CASE UNCHANGED schemaVars
  BY <1>5 DEF schemaVars, SchemaInv, SchemaTypeOK, SoFarPresent, OpenAtTheEnd, NobodyLockedOut
<1> QED BY <1>1, <1>2, <1>3, <1>4, <1>5 DEF SchemaNext

\* However many processes upgrade a database at the same time and wherever they are cut
\* off (newSQLiteDB, ensureSchema), an open database is complete and nobody is locked out
\* by the work of another.
THEOREM UpgradesAreSound == SchemaSpec => []SchemaSound
<1>1. SchemaSpec => []SchemaInv
  BY SchemaStarts, OpeningKeeps, PTL DEF SchemaSpec
<1>2. SchemaInv => SchemaSound
  <2> SUFFICES ASSUME SchemaInv, NEW p \in Openers, opener[p].end = "open" PROVE layout = Complete
    BY DEF SchemaInv, SchemaSound, OpenMeansComplete
  <2>1. \A j \in 1 .. Len(Statements) : Statements[j].of \in layout
    BY StatementList DEF SchemaInv, SoFarPresent, OpenAtTheEnd
  <2>2. layout \subseteq Complete
    BY DEF SchemaInv, SchemaTypeOK
  <2>3. \A c \in Complete : c \in layout
    BY <2>1, StatementList
  <2> QED BY <2>2, <2>3
<1> QED BY <1>1, <1>2, PTL

(***************************************************************************)
(* Restore.  NothingFromBadArchive is not inductive: whether the copy       *)
(* writes good content depends on what the command has verified and read   *)
(* before.  RestoreInv adds that knowledge to the position of the command. *)
(***************************************************************************)
\* What is not yet copied when the command is between two entries, or within one.
Awaited == IF cmd.pc = "copy" THEN cmd.left \cup {cmd.at} ELSE cmd.left

\* Between verification and the second reading an archive with a checksum stays whole,
\* unless a backup writes it in place; so what is extracted is good, file after file.
VerifiedFirst ==
    /\ archive.writing => archive.sum
    /\ cmd.pc = "read" =>
          cmd.overlap \/ ~archive.sum \/ (archive.content = "whole" /\ ~archive.writing)
    /\ cmd.pc = "copy" => cmd.at \in RestoreFiles
    /\ cmd.pc \in {"extract", "copy"} =>
          suspect \/ (cmd.from = "whole" /\ \A f \in RestoreFiles \ Awaited : installed[f] = "new")

RestoreInv == RestoreSound /\ VerifiedFirst

\* The commands and the states of live files that RestoreTypeOK allows.
Commands == [pc : {"none", "gate", "verify", "read", "extract", "copy", "run", "complete"},
             kind : Kinds, user : Users, secret : {"none", "right", "wrong"},
             left : SUBSET RestoreFiles, at : RestoreFiles \cup {"none"},
             from : {"whole", "torn", "cut"}, overlap : BOOLEAN]

Contents == [RestoreFiles -> {"old", "new", "cut", "bad"}]

\* A command that does not run is well formed.
LEMMA NoCmdType == NoCmd \in Commands /\ NoCmd.pc = "none"
BY DEF NoCmd, Kinds, Users, Commands

\* A fresh installation: nothing runs and every file is the old one.
LEMMA RestoreStarts == RestoreInit => RestoreInv
<1> SUFFICES ASSUME RestoreInit PROVE RestoreInv
  OBVIOUS
<1>1. /\ installed \in Contents /\ \A f \in RestoreFiles : installed[f] = "old"
      /\ tables \in BOOLEAN /\ archive \in Archives /\ ~archive.writing /\ cmd = NoCmd
      /\ suspect = FALSE /\ ran = "none" /\ commands \in 0 .. MaxCommands
  BY RestoreAssumption DEF RestoreInit, Contents
<1>2. RestoreTypeOK
  BY <1>1, NoCmdType DEF RestoreTypeOK, Commands, Contents
<1>3. NothingFromBadArchive /\ CompleteMeansRestored /\ GateHolds /\ VerifiedFirst
  BY <1>1, NoCmdType DEF NothingFromBadArchive, CompleteMeansRestored, GateHolds, VerifiedFirst
<1> QED BY <1>2, <1>3 DEF RestoreInv, RestoreSound

\* A command that passes the gate has the right to run.
LEMMA GateIsRight ==
    ASSUME RestoreInv, Authorize
    PROVE  /\ ran' \in {"none", "firstrun", "root", "token"}
           /\ GateHolds'
<1>1. Gate(cmd) \in {"none", "firstrun", "root", "token"}
  BY DEF Gate
<1>2. CASE Gate(cmd) = "none"
  BY <1>2, NoCmdType DEF Authorize, GateHolds
<1>3. CASE Gate(cmd) # "none"
  <2>1. \/ Gate(cmd) = "firstrun" /\ cmd.kind \in {"setup", "restore"}
        \/ cmd.user = "root"
        \/ cmd.user = "service" /\ cmd.secret = "right"
    BY <1>3 DEF Gate
  <2>2. cmd'.user = cmd.user /\ cmd'.kind = cmd.kind /\ cmd'.secret = cmd.secret
    BY <1>3 DEF Authorize, RestoreInv, RestoreSound, RestoreTypeOK
  <2> QED BY <1>1, <2>1, <2>2 DEF Authorize, GateHolds
<1> QED BY <1>1, <1>2, <1>3 DEF Authorize

\* The invariant, put together: a command that does not run needs nothing more, and
\* one that does may change its place, keeping who gave it.
LEMMA RestoreAssemble ==
    ASSUME RestoreInv, installed' \in Contents, tables' \in BOOLEAN, archive' \in Archives,
           cmd' \in Commands, suspect' \in BOOLEAN, commands' \in 0 .. MaxCommands, ran' = ran,
           NothingFromBadArchive', CompleteMeansRestored', VerifiedFirst',
           \/ cmd'.pc = "none"
           \/ /\ cmd.pc \in {"verify", "read", "extract", "copy", "run", "complete"}
              /\ cmd'.user = cmd.user /\ cmd'.secret = cmd.secret /\ cmd'.kind = cmd.kind
           \/ cmd'.pc \in {"gate"} \/ cmd' = cmd
    PROVE  RestoreInv'
<1>1. RestoreTypeOK'
  BY DEF RestoreInv, RestoreSound, RestoreTypeOK, Commands, Contents
<1>2. GateHolds'
  BY DEF RestoreInv, RestoreSound, GateHolds
<1> QED BY <1>1, <1>2 DEF RestoreInv, RestoreSound

\* The types of the state, and what the invariant says of it.
LEMMA RestoreFacts ==
    ASSUME RestoreInv
    PROVE  /\ installed \in Contents /\ tables \in BOOLEAN /\ archive \in Archives
           /\ cmd \in Commands /\ suspect \in BOOLEAN /\ commands \in 0 .. MaxCommands
           /\ NothingFromBadArchive /\ CompleteMeansRestored /\ VerifiedFirst
BY DEF RestoreInv, RestoreSound, RestoreTypeOK, Commands, Contents

\* A command that ends, whatever it leaves behind.
LEMMA CommandEnds ==
    ASSUME RestoreInv, cmd' = NoCmd, UNCHANGED <<installed, tables, archive, suspect, ran, commands>>
    PROVE  RestoreInv'
<1>1. NothingFromBadArchive' /\ CompleteMeansRestored' /\ VerifiedFirst'
  BY RestoreFacts, NoCmdType DEF NothingFromBadArchive, CompleteMeansRestored, VerifiedFirst
<1> QED BY <1>1, RestoreFacts, NoCmdType, RestoreAssemble

LEMMA GiveKeeps == ASSUME RestoreInv, Give PROVE RestoreInv'
<1>1. PICK k \in Kinds, u \in Users, s \in {"none", "right", "wrong"} :
           cmd' = [NoCmd EXCEPT !.pc = "gate", !.kind = k, !.user = u, !.secret = s]
  BY DEF Give
<1>2. cmd' \in Commands /\ cmd'.pc = "gate"
  BY <1>1, NoCmdType DEF Commands
<1>3. commands' \in 0 .. MaxCommands /\ UNCHANGED <<installed, tables, archive, suspect, ran>>
  BY RestoreFacts, RestoreAssumption DEF Give
<1>4. NothingFromBadArchive' /\ CompleteMeansRestored' /\ VerifiedFirst'
  BY <1>2, <1>3, RestoreFacts DEF NothingFromBadArchive, CompleteMeansRestored, VerifiedFirst
<1> QED BY <1>2, <1>3, <1>4, RestoreFacts, RestoreAssemble

LEMMA AuthorizeKeeps == ASSUME RestoreInv, Authorize PROVE RestoreInv'
<1>1. ran' \in {"none", "firstrun", "root", "token"} /\ GateHolds'
  BY GateIsRight
<1>2. cmd' \in Commands /\ cmd'.pc \notin {"read", "extract", "copy", "complete"}
  BY RestoreFacts, NoCmdType DEF Authorize, Commands
<1>3. UNCHANGED <<installed, tables, archive, suspect, commands>>
  BY DEF Authorize
<1>4. RestoreTypeOK'
  BY <1>1, <1>2, <1>3, RestoreFacts DEF RestoreTypeOK, Commands, Contents
<1>5. NothingFromBadArchive' /\ CompleteMeansRestored' /\ VerifiedFirst'
  BY <1>2, <1>3, RestoreFacts DEF NothingFromBadArchive, CompleteMeansRestored, VerifiedFirst
<1> QED BY <1>1, <1>4, <1>5 DEF RestoreInv, RestoreSound

\* What passes the verification is whole, unless it is not to be relied on.
LEMMA VerifyKeeps == ASSUME RestoreInv, VerifyBackup PROVE RestoreInv'
<1>1. PICK r \in Readings(archive, cmd.secret) :
          cmd' = IF r = "whole" \/ (r = "torn" /\ ~archive.sum)
                 THEN [cmd EXCEPT !.pc = "read", !.overlap = archive.writing] ELSE NoCmd
  BY DEF VerifyBackup
<1>2. cmd.pc = "verify" /\ UNCHANGED <<installed, tables, archive, suspect, ran, commands>>
  BY DEF VerifyBackup
<1>3. CASE cmd' = NoCmd
  BY <1>2, <1>3, CommandEnds
<1>4. CASE /\ r = "whole" \/ (r = "torn" /\ ~archive.sum)
           /\ cmd' = [cmd EXCEPT !.pc = "read", !.overlap = archive.writing]
  <2>1. /\ cmd' \in Commands /\ cmd'.pc = "read" /\ cmd'.overlap = archive.writing
        /\ cmd'.user = cmd.user /\ cmd'.secret = cmd.secret /\ cmd'.kind = cmd.kind
    BY <1>4, RestoreFacts DEF Commands, Archives
  <2>2. archive.writing \/ ~archive.sum \/ archive.content = "whole"
    BY <1>4, RestoreFacts DEF Readings, Archives
  <2>3. NothingFromBadArchive' /\ CompleteMeansRestored' /\ VerifiedFirst'
    BY <1>2, <2>1, <2>2, RestoreFacts DEF NothingFromBadArchive, CompleteMeansRestored, VerifiedFirst
  <2> QED BY <1>2, <2>1, <2>3, RestoreFacts, RestoreAssemble
<1> QED BY <1>1, <1>3, <1>4

LEMMA ReadKeeps == ASSUME RestoreInv, ReadArchive PROVE RestoreInv'
<1>1. PICK r \in Readings(archive, cmd.secret) :
          IF r = "none" THEN cmd' = NoCmd /\ UNCHANGED suspect
          ELSE /\ cmd' = [cmd EXCEPT !.pc = "extract", !.left = RestoreFiles, !.from = r]
               /\ suspect' = (suspect \/ cmd.overlap \/ ~archive.sum)
  BY DEF ReadArchive
<1>2. cmd.pc = "read" /\ UNCHANGED <<installed, tables, archive, ran, commands>>
  BY DEF ReadArchive
<1>3. CASE r = "none"
  BY <1>1, <1>2, <1>3, CommandEnds
<1>4. CASE r # "none"
  <2>1. r \in {"whole", "torn", "cut"}
    BY <1>4, RestoreFacts DEF Readings, Archives
  <2>2. /\ cmd' \in Commands /\ cmd'.pc = "extract" /\ cmd'.from = r /\ cmd'.left = RestoreFiles
        /\ cmd'.user = cmd.user /\ cmd'.secret = cmd.secret /\ cmd'.kind = cmd.kind
    BY <1>1, <1>4, <2>1, RestoreFacts DEF Commands
  <2>3. suspect' \in BOOLEAN /\ (suspect => suspect') /\ (suspect' \/ (archive.content = "whole" /\ ~archive.writing))
    BY <1>1, <1>2, <1>4, RestoreFacts DEF VerifiedFirst
  <2>4. suspect' \/ r = "whole"
    BY <1>1, <2>3, <1>4 DEF Readings
  <2>5. NothingFromBadArchive' /\ CompleteMeansRestored' /\ VerifiedFirst'
    BY <1>2, <2>2, <2>3, <2>4, RestoreFacts
       DEF NothingFromBadArchive, CompleteMeansRestored, VerifiedFirst, Awaited
  <2> QED BY <1>2, <2>2, <2>3, <2>5, RestoreFacts, RestoreAssemble
<1> QED BY <1>3, <1>4

LEMMA OpenKeeps == ASSUME RestoreInv, ExtractOpen PROVE RestoreInv'
<1>1. PICK f \in cmd.left :
           /\ installed' = [installed EXCEPT ![f] = "cut"]
           /\ cmd' = [cmd EXCEPT !.pc = "copy", !.at = f, !.left = @ \ {f}]
  BY DEF ExtractOpen
<1>2. cmd.pc = "extract" /\ UNCHANGED <<tables, archive, suspect, ran, commands>>
  BY DEF ExtractOpen
<1>3. f \in RestoreFiles
  BY RestoreFacts DEF Commands
<1>4. /\ cmd' \in Commands /\ cmd'.pc = "copy" /\ cmd'.at = f /\ cmd'.from = cmd.from
      /\ cmd'.left = cmd.left \ {f}
      /\ cmd'.user = cmd.user /\ cmd'.secret = cmd.secret /\ cmd'.kind = cmd.kind
  BY <1>1, <1>3, RestoreFacts DEF Commands
<1>5. installed' \in Contents /\ \A g \in RestoreFiles : installed'[g] = IF g = f THEN "cut" ELSE installed[g]
  BY <1>1, <1>3, RestoreFacts DEF Contents
<1>6. Awaited' = cmd.left /\ Awaited = cmd.left
  BY <1>2, <1>4 DEF Awaited
<1>7. NothingFromBadArchive' /\ CompleteMeansRestored'
  BY <1>2, <1>4, <1>5, RestoreFacts DEF NothingFromBadArchive, CompleteMeansRestored
<1>8. VerifiedFirst'
  BY <1>2, <1>3, <1>4, <1>5, <1>6, RestoreFacts DEF VerifiedFirst
<1> QED BY <1>2, <1>4, <1>5, <1>7, <1>8, RestoreFacts, RestoreAssemble

LEMMA CopyKeeps == ASSUME RestoreInv, ExtractCopy PROVE RestoreInv'
<1>1. /\ cmd.pc = "copy" /\ tables' \in BOOLEAN /\ UNCHANGED <<archive, suspect, ran, commands>>
      /\ installed' = [installed EXCEPT ![cmd.at] = IF cmd.from = "torn" THEN "bad" ELSE "new"]
      /\ cmd' = CASE cmd.left # {} -> [cmd EXCEPT !.pc = "extract", !.at = "none"]
                  [] cmd.left = {} /\ cmd.from = "cut" -> NoCmd
                  [] OTHER -> [cmd EXCEPT !.pc = "complete", !.at = "none"]
  BY RestoreFacts DEF ExtractCopy
<1>2. cmd.at \in RestoreFiles /\ cmd \in Commands
  BY <1>1, RestoreFacts DEF VerifiedFirst
<1>3. installed' \in Contents
      /\ \A g \in RestoreFiles : installed'[g] = IF g = cmd.at THEN (IF cmd.from = "torn" THEN "bad" ELSE "new")
                                                 ELSE installed[g]
  BY <1>1, <1>2, RestoreFacts DEF Contents
<1>4. suspect \/ (cmd.from = "whole" /\ \A g \in RestoreFiles \ cmd.left : installed'[g] = "new")
  BY <1>1, <1>3, RestoreFacts DEF VerifiedFirst, Awaited
<1>5. NothingFromBadArchive'
  BY <1>1, <1>3, <1>4, RestoreFacts DEF NothingFromBadArchive
<1>6. CASE cmd.left # {}
  <2>1. cmd' = [cmd EXCEPT !.pc = "extract", !.at = "none"]
    BY <1>1, <1>6
  <2>2. /\ cmd' \in Commands /\ cmd'.pc = "extract" /\ cmd'.from = cmd.from /\ cmd'.left = cmd.left
        /\ cmd'.user = cmd.user /\ cmd'.secret = cmd.secret /\ cmd'.kind = cmd.kind
    BY <1>2, <2>1 DEF Commands
  <2>3. CompleteMeansRestored' /\ VerifiedFirst'
    BY <1>1, <1>4, <2>2, RestoreFacts DEF CompleteMeansRestored, VerifiedFirst, Awaited
  <2> QED BY <1>1, <1>3, <1>5, <2>2, <2>3, RestoreFacts, RestoreAssemble
<1>7. CASE cmd.left = {} /\ cmd.from = "cut"
  <2>1. cmd' = NoCmd
    BY <1>1, <1>7
  <2>2. CompleteMeansRestored' /\ VerifiedFirst'
    BY <1>1, <2>1, NoCmdType, RestoreFacts DEF CompleteMeansRestored, VerifiedFirst
  <2> QED BY <1>1, <1>3, <1>5, <2>1, <2>2, NoCmdType, RestoreFacts, RestoreAssemble
<1>8. CASE cmd.left = {} /\ cmd.from # "cut"
  <2>1. cmd' = [cmd EXCEPT !.pc = "complete", !.at = "none"]
    BY <1>1, <1>8
  <2>2. /\ cmd' \in Commands /\ cmd'.pc = "complete"
        /\ cmd'.user = cmd.user /\ cmd'.secret = cmd.secret /\ cmd'.kind = cmd.kind
    BY <1>2, <2>1 DEF Commands
  <2>3. CompleteMeansRestored' /\ VerifiedFirst'
    BY <1>1, <1>4, <1>8, <2>2, RestoreFacts DEF CompleteMeansRestored, VerifiedFirst
  <2> QED BY <1>1, <1>3, <1>5, <2>2, <2>3, RestoreFacts, RestoreAssemble
<1> QED BY <1>6, <1>7, <1>8

\* The archive changes beside the command: renamed over, written in place, or removed.
LEMMA ArchiveKeeps ==
    ASSUME RestoreInv, ReplaceArchive \/ BackupWrites \/ BackupWritten \/ BackupDiscarded
    PROVE  RestoreInv'
<1>1. UNCHANGED <<installed, tables, suspect, ran>> /\ commands' \in 0 .. MaxCommands
  BY RestoreFacts, RestoreAssumption DEF ReplaceArchive, BackupWrites, BackupWritten, BackupDiscarded
<1>2. archive' \in Archives
  BY RestoreFacts DEF ReplaceArchive, BackupWrites, BackupWritten, BackupDiscarded, Archives
<1>3. /\ cmd' \in Commands /\ cmd'.pc = cmd.pc /\ cmd'.from = cmd.from /\ cmd'.left = cmd.left
      /\ cmd'.at = cmd.at /\ (cmd.overlap => cmd'.overlap)
      /\ cmd'.user = cmd.user /\ cmd'.secret = cmd.secret /\ cmd'.kind = cmd.kind
  <2>1. cmd' = cmd \/ cmd' = [cmd EXCEPT !.overlap = TRUE]
    BY DEF ReplaceArchive, BackupWrites, BackupWritten, BackupDiscarded
  <2> QED BY <2>1, RestoreFacts DEF Commands
<1>4. /\ archive'.writing => archive'.sum
      /\ cmd'.pc = "read" =>
            cmd'.overlap \/ ~archive'.sum \/ (archive'.content = "whole" /\ ~archive'.writing)
  <2>1. CASE ReplaceArchive
    BY <2>1, RestoreFacts DEF ReplaceArchive, Archives
  <2>2. CASE BackupWrites
    BY <2>2, RestoreFacts DEF BackupWrites, Archives, Commands
  <2>3. CASE BackupWritten
    BY <2>3, RestoreFacts DEF BackupWritten, Archives, VerifiedFirst
  <2>4. CASE BackupDiscarded
    BY <2>4, RestoreFacts DEF BackupDiscarded, Archives, VerifiedFirst
  <2> QED BY <2>1, <2>2, <2>3, <2>4
<1>5. Awaited' = Awaited
  BY <1>3 DEF Awaited
<1>6. VerifiedFirst'
  BY <1>1, <1>3, <1>4, <1>5, RestoreFacts DEF VerifiedFirst
<1>7. NothingFromBadArchive' /\ CompleteMeansRestored'
  BY <1>1, <1>3, RestoreFacts DEF NothingFromBadArchive, CompleteMeansRestored
<1>8. GateHolds'
  BY <1>1, <1>3 DEF RestoreInv, RestoreSound, GateHolds
<1>9. RestoreTypeOK'
  BY <1>1, <1>2, <1>3, RestoreFacts DEF RestoreInv, RestoreSound, RestoreTypeOK, Commands, Contents
<1> QED BY <1>6, <1>7, <1>8, <1>9 DEF RestoreInv, RestoreSound

LEMMA PasteKeeps == ASSUME RestoreInv, FirstPaste PROVE RestoreInv'
<1>1. tables' \in BOOLEAN /\ UNCHANGED <<installed, archive, cmd, suspect, ran, commands>>
  BY DEF FirstPaste
<1>2. NothingFromBadArchive' /\ CompleteMeansRestored' /\ VerifiedFirst'
  BY <1>1, RestoreFacts DEF NothingFromBadArchive, CompleteMeansRestored, VerifiedFirst, Awaited
<1> QED BY <1>1, <1>2, RestoreFacts, RestoreAssemble

\* Every step of the command, the server and the backup task keeps RestoreInv.
LEMMA CommandKeeps == RestoreInv /\ [RestoreNext]_restoreVars => RestoreInv'
<1> SUFFICES ASSUME RestoreInv, [RestoreNext]_restoreVars PROVE RestoreInv'
  OBVIOUS
<1>1. CASE RunOther \/ ReportRestore \/ Interrupted
  <2>1. cmd' = NoCmd /\ UNCHANGED <<installed, tables, archive, suspect, ran, commands>>
    BY <1>1 DEF RunOther, ReportRestore, Interrupted
  <2> QED BY <2>1, CommandEnds
<1>2. CASE UNCHANGED restoreVars
  <2>1. NothingFromBadArchive' /\ CompleteMeansRestored' /\ VerifiedFirst'
    BY <1>2, RestoreFacts
       DEF restoreVars, NothingFromBadArchive, CompleteMeansRestored, VerifiedFirst, Awaited
  <2> QED BY <1>2, <2>1, RestoreFacts, RestoreAssemble DEF restoreVars
<1> QED
  BY <1>1, <1>2, GiveKeeps, AuthorizeKeeps, VerifyKeeps, ReadKeeps, OpenKeeps, CopyKeeps,
     PasteKeeps, ArchiveKeeps DEF RestoreNext

\* Whatever is replaced, overwritten, interrupted or answered wrongly, what a restore puts
\* into a live file is what some backup took, all of it once it reports completion, unless
\* the archive had no checksum or a backup wrote it in place after it was verified; and no
\* sensitive maintenance command runs without the right to (Restore, VerifyBackup, Backup
\* and the authorize functions of package maintenance).
THEOREM RestoreIsSound == RestoreSpec => []RestoreSound
<1>1. RestoreSpec => []RestoreInv
  BY RestoreStarts, CommandKeeps, PTL DEF RestoreSpec
<1>2. RestoreInv => RestoreSound
  BY DEF RestoreInv
<1> QED BY <1>1, <1>2, PTL

=============================================================================
