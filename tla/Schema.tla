------------------------------- MODULE Schema -------------------------------
(***************************************************************************)
(* Opening the database: newSQLiteDB runs ensureSchema, a list of          *)
(* CREATE ... IF NOT EXISTS statements and then a list of ALTER TABLE      *)
(* statements whose "duplicate column" errors are ignored.  The server and *)
(* a command (or a second instance) may open the same file at the same     *)
(* time; each statement is a transaction of its own, a statement may fail  *)
(* (busy for longer than busy_timeout, a full disk), and a process may die *)
(* between two of them.                                                    *)
(*                                                                         *)
(* The layout is the set of tables and later columns the file has.         *)
(***************************************************************************)
EXTENDS Naturals, Sequences

CONSTANTS
    Openers,         \* processes that open the database
    OldLayouts,      \* layouts earlier versions may have left
    MaxOpenings,     \* bound: openings
    MaxSchemaFaults  \* bound: statements that fail

VARIABLES
    layout,    \* what the file has
    opener,    \* each process: its next statement, or how opening ended
    openings, schemaFaults,
    lacked     \* history: the pastes table was found without burn_after

schemaVars == <<layout, opener, openings, schemaFaults, lacked>>

----------------------------------------------------------------------------
(***************************************************************************)
(* The statements.  A table brings the columns it is created with; an      *)
(* index needs its column, an update adds one.                             *)
(***************************************************************************)
Table(t, columns) == [does |-> "table", of |-> t, columns |-> columns]
Index(c)  == [does |-> "index", of |-> c, columns |-> {}]
Column(c) == [does |-> "column", of |-> c, columns |-> {}]

PasteStatements ==
    << Table("pastes", {"burn_after", "delete_token_hash", "content_type"}),
       Index("burn_after") >>
ServerStatements == << Table("scheduler", {}), Table("secrets", {}), Table("tokens", {}) >>
ReportStatements == << Table("reports", {"token_last_used"}), Table("keypair", {}) >>

Updates == << Column("burn_after"), Column("delete_token_hash"), Column("content_type"),
              Column("is_link"), Column("token_last_used") >>

Statements == PasteStatements \o ServerStatements \o ReportStatements \o Updates

\* What the queries of database.go use.
Complete == {"pastes", "burn_after", "delete_token_hash", "content_type", "is_link",
             "scheduler", "secrets", "tokens", "reports", "token_last_used", "keypair"}

\* No earlier version had a table or column the present one does not know.
ASSUME SchemaAssumption ==
    /\ OldLayouts \subseteq SUBSET Complete
    /\ MaxOpenings \in Nat /\ MaxSchemaFaults \in Nat

SchemaTypeOK ==
    /\ layout \subseteq Complete
    /\ opener \in [Openers -> [at : 0..Len(Statements) + 1, end : {"none", "open", "error"}]]
    /\ openings \in 0..MaxOpenings /\ schemaFaults \in 0..MaxSchemaFaults
    /\ lacked \in BOOLEAN

NotOpen == [at |-> 0, end |-> "none"]

SchemaInit ==
    /\ layout \in OldLayouts
    /\ opener = [p \in Openers |-> NotOpen]
    /\ openings = 0 /\ schemaFaults = 0 /\ lacked = FALSE

----------------------------------------------------------------------------
\* database.New, newSQLiteDB
OpenDatabase(p) ==
    /\ opener[p] = NotOpen /\ openings < MaxOpenings
    /\ opener' = [opener EXCEPT ![p].at = 1]
    /\ openings' = openings + 1
    /\ UNCHANGED <<layout, schemaFaults, lacked>>

\* How a statement ends: done, "duplicate column" or an error of its own.
Outcome(s) ==
    CASE s.does = "index" /\ s.of \notin layout -> "error"
      [] s.does = "column" /\ s.of \in layout -> "exists"
      [] OTHER -> "done"

\* Mutated form: an update that has already been made is an error.
IgnoredNever(outcome) == FALSE

\* isAlreadyExists
Ignored(outcome) == outcome = "exists"

Executed(s) ==
    CASE s.does = "table" /\ s.of \notin layout -> layout \cup {s.of} \cup s.columns
      [] s.does = "column" -> layout \cup {s.of}
      [] OTHER -> layout

\* ensureSchema, one statement; after the last one the database is open.
Statement(p) ==
    LET i == opener[p].at
        s == Statements[i]
    IN  /\ i \in 1..Len(Statements) /\ opener[p].end = "none"
        /\ IF Outcome(s) = "done" \/ Ignored(Outcome(s))
           THEN /\ layout' = Executed(s)
                /\ opener' = [opener EXCEPT ![p] =
                      [at |-> i + 1, end |-> IF i = Len(Statements) THEN "open" ELSE "none"]]
           ELSE /\ opener' = [opener EXCEPT ![p].end = "error"]
                /\ UNCHANGED layout
        /\ lacked' = (lacked \/ (Outcome(s) = "error" /\ s.of = "burn_after"))
        /\ UNCHANGED <<openings, schemaFaults>>

\* The statement fails, and New returns the error.
StatementFails(p) ==
    /\ opener[p].at \in 1..Len(Statements) /\ opener[p].end = "none"
    /\ schemaFaults < MaxSchemaFaults
    /\ schemaFaults' = schemaFaults + 1
    /\ opener' = [opener EXCEPT ![p].end = "error"]
    /\ UNCHANGED <<layout, openings, lacked>>

\* The process ends, or dies on the way.
OpenerEnds(p) ==
    /\ opener[p] # NotOpen
    /\ opener' = [opener EXCEPT ![p] = NotOpen]
    /\ UNCHANGED <<layout, openings, schemaFaults, lacked>>

SchemaNext ==
    \E p \in Openers : OpenDatabase(p) \/ Statement(p) \/ StatementFails(p) \/ OpenerEnds(p)

SchemaSpec == SchemaInit /\ [][SchemaNext]_schemaVars

----------------------------------------------------------------------------
\* A database that is open has every table and column the queries use, whatever
\* version wrote it, whoever upgraded it at the same time and wherever an earlier
\* upgrade was cut off.
OpenMeansComplete == \A p \in Openers : opener[p].end = "open" => layout = Complete

\* An interrupted or a concurrent upgrade keeps nobody from opening the database:
\* only a statement that failed does, or a table without burn_after, whose index is
\* created before the update that would add the column.
NobodyLockedOut ==
    (\E p \in Openers : opener[p].end = "error") => schemaFaults > 0 \/ lacked

\* What ensureSchema promises its callers together: an open database is complete, and
\* concurrent or interrupted upgrades lock nobody out.
SchemaSound == SchemaTypeOK /\ OpenMeansComplete /\ NobodyLockedOut

=============================================================================
