--------------------------- MODULE SecurityReports ---------------------------
(***************************************************************************)
(* The contact form and the coordinated-disclosure reports: submission      *)
(* (server.go handleContactPost, security_report.go), the table              *)
(* security_reports (database/security_reports.go), the e-mails              *)
(* (common/email) and the researcher's status page (security_pages.go).      *)
(*                                                                         *)
(* A form is described by what is wrong with it.  An ordinary contact        *)
(* message only becomes an e-mail and a webhook.  Webhooks are module        *)
(* Webhooks; the key a report is sealed with is module ProjectKeys.          *)
(* Time is in days.  What is rendered to whom is left out, except the two   *)
(* things a page must not do: name an id that is not stored, and show a      *)
(* status twice in a day.                                                    *)
(***************************************************************************)
EXTENDS Naturals

CONSTANTS
    TrackingIDs,   \* ids randomHex may return
    Viewers,       \* requests for a status page
    ClosedGrace,   \* securityClosedGrace
    ReportsMaxDay  \* bound on the days that pass

ASSUME ReportsAssumption == ClosedGrace \in Nat /\ ReportsMaxDay \in Nat

VARIABLES
    stored,     \* security_reports
    form,       \* the submission being handled
    mails,      \* e-mails the SMTP server took for the submission being handled
    told,       \* ids that a success answer has named
    view,       \* status page requests
    day,
    shownToday, \* history: pages shown today, per report (2: more than one)
    excused     \* history: reports for which two requests overlapped or a mark failed today

reportsVars == <<stored, form, mails, told, view, day, shownToday, excused>>

Never == ReportsMaxDay + 1
Days == 0..Never

\* "Received" stands for the stages before the report is closed.
Statuses == {"Received", "Disclosed", "Won't Fix"}
Closed == {"Disclosed", "Won't Fix"}

\* SecurityReport, as far as the pages and the e-mails use it.
Report == [status : Statuses, sealed : BOOLEAN, credit : {"name", "anonymous", "no"},
           named : BOOLEAN, updated : Days, disclosed : Days, lastUsed : Days]
NoReport == [status |-> "none"]

Problems == {"none", "field missing", "bad address", "bad choice", "no agreement", "captcha"}
FormFields == [problem : Problems, gpg : {"usable", "unusable"},
               credit : {"name", "anonymous", "no"}]
NoForm == [pc |-> "none"]

\* What the page's checks use of the row: the day it was closed, the last use.
Seen == [closed : Days, lastUsed : Days]
NoView == [pc |-> "none"]

SecurityReportsTypeOK ==
    /\ stored \in [TrackingIDs -> Report \cup {NoReport}]
    /\ form = NoForm \/ (form.pc \in {"seal", "store", "maintainer", "ack", "plain", "answer"}
                          /\ form.id \in TrackingIDs /\ form.gpg \in {"usable", "unusable"}
                          /\ form.credit \in {"name", "anonymous", "no"})
    /\ mails \subseteq [to : {"maintainer", "researcher"},
                        id : TrackingIDs, sealed : BOOLEAN]
    /\ told \subseteq TrackingIDs
    /\ \A v \in Viewers : view[v] = NoView \/ (view[v].pc \in {"check", "mark"}
                                                /\ view[v].id \in TrackingIDs /\ view[v].row \in Seen)
    /\ day \in 0..ReportsMaxDay
    /\ shownToday \in [TrackingIDs -> 0..2]
    /\ excused \subseteq TrackingIDs

SecurityReportsInit ==
    /\ stored = [id \in TrackingIDs |-> NoReport]
    /\ form = NoForm /\ mails = {} /\ told = {}
    /\ view = [v \in Viewers |-> NoView]
    /\ day = 0
    /\ shownToday = [id \in TrackingIDs |-> 0]
    /\ excused = {}

Exists(id) == stored[id] # NoReport

pageVars == <<view, day, shownToday, excused>>

----------------------------------------------------------------------------
(* The form *)

\* The checks of handleSecurityReport.  Only the built-in captcha is verified: an
\* answer to another one is never a problem.
Accepted(f) == f.problem = "none"

\* handleSecurityReport up to the tracking id; a refused form changes nothing.
PostReport ==
    /\ form = NoForm
    /\ \E f \in FormFields, id \in TrackingIDs :
        /\ Accepted(f)
        /\ ~Exists(id)
        /\ form' = [pc |-> "seal", id |-> id, gpg |-> f.gpg, credit |-> f.credit]
    /\ UNCHANGED <<stored, mails, told, pageVars>>

\* The encryption key may be missing and sealing may fail: nothing is kept.
SealBody ==
    /\ form # NoForm /\ form.pc = "seal"
    /\ \/ form' = [form EXCEPT !.pc = "store"]
       \/ form' = NoForm
    /\ UNCHANGED <<stored, mails, told, pageVars>>

\* storedCreditName: the name is dropped unless the researcher wants it shown.
NewReport(credit) ==
    [status |-> "Received", sealed |-> TRUE, credit |-> credit, named |-> credit = "name",
     updated |-> day, disclosed |-> Never, lastUsed |-> Never]

\* Mutated form: a failed insert goes on to the mails.
StoreReportAnyway ==
    /\ form # NoForm /\ form.pc = "store"
    /\ form' = [form EXCEPT !.pc = "maintainer"]
    /\ \/ stored' = [stored EXCEPT ![form.id] = NewReport(form.credit)]
       \/ UNCHANGED stored
    /\ UNCHANGED <<mails, told, pageVars>>

\* CreateSecurityReport; a failed insert is answered with an error.
StoreReport ==
    /\ form # NoForm /\ form.pc = "store"
    /\ \/ /\ stored' = [stored EXCEPT ![form.id] = NewReport(form.credit)]
          /\ form' = [form EXCEPT !.pc = "maintainer"]
       \/ UNCHANGED stored /\ form' = NoForm
    /\ UNCHANGED <<mails, told, pageVars>>

\* Mailer.Send and its variants: the message is accepted, or an error is returned
\* (which may come after the server took it).
Send(m, ok) == mails' = mails \cup {m} \/ (~ok /\ UNCHANGED mails)

\* sendSecurityReportEmails, under the live configuration: e-mail may be off and
\* the maintainer may have no address.  The maintainer's mail carries the sealed body.
MailMaintainer ==
    /\ form # NoForm /\ form.pc = "maintainer"
    /\ \/ form' = [form EXCEPT !.pc = "answer"] /\ UNCHANGED mails
       \/ /\ form' = [form EXCEPT !.pc = "ack"]
          /\ Send([to |-> "maintainer", id |-> form.id, sealed |-> TRUE], FALSE)
    /\ UNCHANGED <<stored, told, pageVars>>

\* fetchResearcherPubKey: a pasted block or an https address with a valid key.
KeyUsable(gpg) == gpg = "usable"

\* The acknowledgement: encrypted when the researcher's key can be had; on any
\* failure, plain.
MailSealedAck ==
    /\ form # NoForm /\ form.pc = "ack"
    /\ \/ /\ KeyUsable(form.gpg)
          /\ Send([to |-> "researcher", id |-> form.id, sealed |-> TRUE], TRUE)
          /\ form' = [form EXCEPT !.pc = "answer"]
       \/ /\ form' = [form EXCEPT !.pc = "plain"]
          /\ IF KeyUsable(form.gpg)
             THEN Send([to |-> "researcher", id |-> form.id, sealed |-> TRUE], FALSE)
             ELSE UNCHANGED mails
    /\ UNCHANGED <<stored, told, pageVars>>

MailPlainAck ==
    /\ form # NoForm /\ form.pc = "plain"
    /\ form' = [form EXCEPT !.pc = "answer"]
    /\ Send([to |-> "researcher", id |-> form.id, sealed |-> FALSE], FALSE)
    /\ UNCHANGED <<stored, told, pageVars>>

AnswerReport ==
    /\ form # NoForm /\ form.pc = "answer"
    /\ form' = NoForm /\ told' = told \cup {form.id} /\ mails' = {}
    /\ UNCHANGED <<stored, pageVars>>

----------------------------------------------------------------------------
(* The status page *)

\* securityReportClosedAt
ClosedAt(r) == IF r.status = "Disclosed" /\ r.disclosed # Never THEN r.disclosed ELSE r.updated

SeenRow(r) == [closed |-> IF r.status \in Closed THEN ClosedAt(r) ELSE Never,
               lastUsed |-> r.lastUsed]

LinkExpired(row) == row.closed # Never /\ day > row.closed + ClosedGrace

\* Who asks for the page has the link from the answer or from an e-mail.
Known(id) == id \in told \cup {m.id : m \in mails}

\* The row is read once; an unknown id and a wrong token look the same.
ViewBegin(v) ==
    /\ view[v] = NoView
    /\ \E id \in TrackingIDs :
        /\ Known(id) /\ Exists(id)
        /\ view' = [view EXCEPT ![v] = [pc |-> "check", id |-> id, row |-> SeenRow(stored[id])]]
        /\ excused' = IF \E w \in Viewers \ {v} : view[w] # NoView /\ view[w].id = id
                      THEN excused \cup {id} ELSE excused
    /\ UNCHANGED <<stored, form, mails, told, day, shownToday>>

\* What was read is not looked at again.
ToMark(w) == [pc |-> "mark", id |-> w.id, row |-> [closed |-> Never, lastUsed |-> Never]]

\* 410 when the link has expired, 429 when it was used today.
ViewCheck(v) ==
    /\ view[v] # NoView /\ view[v].pc = "check"
    /\ view' = [view EXCEPT ![v] =
          IF LinkExpired(view[v].row) \/ view[v].row.lastUsed = day THEN NoView
          ELSE ToMark(view[v])]
    /\ UNCHANGED <<stored, form, mails, told, day, shownToday, excused>>

\* MarkSecurityReportTokenUsed; the page is rendered even when it fails.
ViewMark(v) ==
    /\ view[v] # NoView /\ view[v].pc = "mark"
    /\ LET id == view[v].id IN
        /\ \/ stored' = [stored EXCEPT ![id].lastUsed = day] /\ UNCHANGED excused
           \/ UNCHANGED stored /\ excused' = excused \cup {id}
        /\ shownToday' = [shownToday EXCEPT ![id] = IF @ < 2 THEN @ + 1 ELSE @]
    /\ view' = [view EXCEPT ![v] = NoView]
    /\ UNCHANGED <<form, mails, told, day>>

\* UpdateSecurityReportStatus (no caller in the repository: maintainers' tools)
UpdateStatus(id, status) ==
    /\ Exists(id)
    /\ stored' = [stored EXCEPT ![id].status = status, ![id].updated = day,
                                ![id].disclosed = IF status = "Disclosed" THEN day ELSE @]
    /\ UNCHANGED <<form, mails, told, pageVars>>

\* Midnight UTC.  A request under way belongs to both days.
NextDay ==
    /\ day < ReportsMaxDay /\ day' = day + 1
    /\ shownToday' = [id \in TrackingIDs |-> 0]
    /\ excused' = {id \in TrackingIDs : \E v \in Viewers : view[v] # NoView /\ view[v].id = id}
    /\ UNCHANGED <<stored, form, mails, told, view>>

SecurityReportsNext ==
    \/ PostReport \/ SealBody \/ StoreReport \/ MailMaintainer
    \/ MailSealedAck \/ MailPlainAck \/ AnswerReport
    \/ \E v \in Viewers : ViewBegin(v) \/ ViewCheck(v) \/ ViewMark(v)
    \/ \E id \in TrackingIDs, status \in Statuses : UpdateStatus(id, status)
    \/ NextDay

SecurityReportsSpec == SecurityReportsInit /\ [][SecurityReportsNext]_reportsVars

----------------------------------------------------------------------------
\* ListDisclosedSecurityReports and buildAckEntries: who is thanked, and by name.
Thanks == {[id |-> id, named |-> stored[id].named] :
             id \in {i \in TrackingIDs : /\ Exists(i) /\ stored[i].status = "Disclosed"
                                         /\ stored[i].credit \in {"name", "anonymous"}}}

\* An id that left the server, in an answer or an e-mail, names a stored report with
\* a sealed body, whatever fails between sealing, storing and sending.
StoredBeforeTold ==
    \A id \in TrackingIDs : Known(id) => Exists(id) /\ stored[id].sealed

\* The status page is shown once a day per report, unless two requests for it
\* overlapped or the use could not be recorded.
OncePerDay == \A id \in TrackingIDs : id \notin excused => shownToday[id] <= 1

\* The acknowledgements page lists nobody who asked for no credit and names only
\* who asked to be named, whatever states the report went through.
ThanksAsWished ==
    \A e \in Thanks : /\ stored[e.id].credit # "no"
                      /\ e.named => stored[e.id].credit = "name"

\* What a researcher may rely on: an id that was told is stored, the status page opens
\* once a day, and credit is given as wished.
ReportsHandled == SecurityReportsTypeOK /\ StoredBeforeTold /\ OncePerDay /\ ThanksAsWished

=============================================================================
