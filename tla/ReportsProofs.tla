---------------------------- MODULE ReportsProofs ----------------------------
(***************************************************************************)
(* Proofs about the security reports (SecurityReports) and the key pair     *)
(* they are sealed with (ProjectKeys), for any number of reports, viewers   *)
(* and keys.                                                               *)
(***************************************************************************)
EXTENDS SecurityReports, ProjectKeys, TLAPS

(***************************************************************************)
(* Reports.  That an id is told only when it is stored needs to know where *)
(* the submission stands; that a page opens once a day needs to know what  *)
(* every request under way has read, and that two of them on one report    *)
(* excuse it.                                                              *)
(***************************************************************************)
FormSteps == {"seal", "store", "maintainer", "ack", "plain", "answer"}
Forms == [pc : FormSteps, id : TrackingIDs, gpg : {"usable", "unusable"},
          credit : {"name", "anonymous", "no"}]
Views == [pc : {"check", "mark"}, id : TrackingIDs, row : Seen]
Mails == [to : {"maintainer", "researcher"}, id : TrackingIDs, sealed : BOOLEAN]

ReportsTyped ==
    /\ stored \in [TrackingIDs -> Report \cup {NoReport}]
    /\ form \in Forms \cup {NoForm}
    /\ view \in [Viewers -> Views \cup {NoView}]
    /\ mails \subseteq Mails /\ told \subseteq TrackingIDs
    /\ day \in 0 .. ReportsMaxDay
    /\ shownToday \in [TrackingIDs -> 0 .. 2] /\ excused \subseteq TrackingIDs

\* A report keeps the name only of who wants to be named, and its body is sealed.
StoredOK ==
    \A id \in TrackingIDs : Exists(id) =>
        stored[id].sealed /\ (stored[id].named => stored[id].credit = "name")

\* The submission takes a free id, and has stored the report before the mails.
FormOK ==
    /\ form.pc \in {"seal", "store"} => ~Exists(form.id)
    /\ form.pc \in {"maintainer", "ack", "plain", "answer"} => Exists(form.id)

\* Ids that left the server, and those of the pages under way, are stored.
ToldOK == /\ \A m \in mails : Exists(m.id)
          /\ \A id \in told : Exists(id)
          /\ \A v \in Viewers : view[v] # NoView => Exists(view[v].id)

Viewing(v, id) == view[v] # NoView /\ view[v].id = id

\* What is known of a report that is not excused today.
ShownOK(id) ==
    id \notin excused =>
        /\ shownToday[id] <= 1
        /\ \A v, w \in Viewers : Viewing(v, id) /\ Viewing(w, id) => v = w
        /\ shownToday[id] = 1 =>
              /\ Exists(id) /\ stored[id].lastUsed = day
              /\ \A v \in Viewers :
                    Viewing(v, id) => view[v].pc = "check" /\ view[v].row.lastUsed = day

ReportsInv ==
    ReportsTyped /\ StoredOK /\ FormOK /\ ToldOK /\ \A id \in TrackingIDs : ShownOK(id)

LEMMA StatusNames == "Received" \in Statuses /\ "none" \notin Statuses
  BY Zenon DEF Statuses

\* The empty values are told apart by a field.
LEMMA Empties ==
  /\ NoForm.pc = "none" /\ NoForm \notin Forms /\ \A f \in Forms : f.pc \in FormSteps
  /\ NoView \notin Views /\ NoReport \notin Report
  <1>1. NoForm.pc = "none" /\ NoView.pc = "none" /\ NoReport.status = "none"
    BY DEF NoForm, NoView, NoReport
  <1>2. \A f \in Forms : f.pc \in FormSteps
    BY DEF Forms
  <1>3. \A w \in Views : w.pc # "none"
    BY DEF Views
  <1>4. \A r \in Report : r.status # "none"
    BY StatusNames DEF Report
  <1> QED
    BY <1>1, <1>2, <1>3, <1>4 DEF FormSteps

LEMMA ReportsInitInv == SecurityReportsInit => ReportsInv
  <1> SUFFICES ASSUME SecurityReportsInit PROVE ReportsInv
    OBVIOUS
  <1>1. ReportsTyped
    BY ReportsAssumption DEF SecurityReportsInit, ReportsTyped
  <1>2. /\ \A id \in TrackingIDs : ~Exists(id) /\ shownToday[id] = 0
        /\ \A v \in Viewers : view[v] = NoView
    BY DEF SecurityReportsInit, Exists
  <1>3. StoredOK
    BY <1>2 DEF StoredOK
  <1>4. FormOK /\ ToldOK
    BY <1>2, Empties DEF SecurityReportsInit, FormOK, ToldOK
  <1>5. \A id \in TrackingIDs : ShownOK(id)
    BY <1>2 DEF ShownOK, Viewing
  <1> QED
    BY <1>1, <1>3, <1>4, <1>5 DEF ReportsInv

\* Steps of the submission that leave the table and the pages alone.
LEMMA FormFrame ==
  ASSUME ReportsInv, UNCHANGED <<stored, pageVars>>, form' \in Forms \cup {NoForm}, FormOK',
         mails' \subseteq Mails, told' \subseteq TrackingIDs,
         \A m \in mails' : Exists(m.id), \A id \in told' : Exists(id)
  PROVE  ReportsInv'
  <1>1. stored' = stored /\ view' = view /\ day' = day /\ shownToday' = shownToday
        /\ excused' = excused
    BY DEF pageVars
  <1>2. ReportsTyped'
    BY <1>1 DEF ReportsInv, ReportsTyped
  <1>3. StoredOK'
    BY <1>1 DEF ReportsInv, StoredOK, Exists
  <1>4. ToldOK'
    BY <1>1 DEF ReportsInv, ToldOK, Exists
  <1>5. ASSUME NEW id \in TrackingIDs PROVE ShownOK(id)'
    <2>1. ShownOK(id)
      BY DEF ReportsInv
    <2> QED
      BY <1>1, <2>1 DEF ShownOK, Viewing, Exists
  <1> QED
    BY <1>2, <1>3, <1>4, <1>5 DEF ReportsInv

\* Where the submission stands, whatever its next position is.
LEMMA FormMoves ==
  ASSUME ReportsInv, form # NoForm
  PROVE  /\ form \in Forms /\ form.id \in TrackingIDs /\ form.pc \in FormSteps
         /\ \A pc \in FormSteps : /\ [form EXCEPT !.pc = pc] \in Forms
                                  /\ [form EXCEPT !.pc = pc].pc = pc
                                  /\ [form EXCEPT !.pc = pc].id = form.id
  BY DEF ReportsInv, ReportsTyped, Forms

\* A mail about the report of the submission.
LEMMA MailsGo ==
  ASSUME ReportsInv, form # NoForm, Exists(form.id), NEW to \in {"maintainer", "researcher"},
         NEW sealed \in BOOLEAN, NEW ok \in BOOLEAN,
         Send([to |-> to, id |-> form.id, sealed |-> sealed], ok) \/ UNCHANGED mails
  PROVE  mails' \subseteq Mails /\ \A m \in mails' : Exists(m.id)
  <1> DEFINE m == [to |-> to, id |-> form.id, sealed |-> sealed]
  <1>1. m \in Mails /\ m.id = form.id
    BY FormMoves DEF Mails
  <1>2. mails \subseteq Mails /\ \A n \in mails : Exists(n.id)
    BY DEF ReportsInv, ReportsTyped, ToldOK
  <1>3. mails' = mails \cup {m} \/ mails' = mails
    BY DEF Send
  <1> HIDE DEF m
  <1> QED
    BY <1>1, <1>2, <1>3
LEMMA PostReportInv == ASSUME ReportsInv, PostReport PROVE ReportsInv'
  <1>1. PICK f \in FormFields, id \in TrackingIDs :
          ~Exists(id) /\ form' = [pc |-> "seal", id |-> id, gpg |-> f.gpg, credit |-> f.credit]
    BY DEF PostReport
  <1>2. f.gpg \in {"usable", "unusable"} /\ f.credit \in {"name", "anonymous", "no"}
    BY DEF FormFields
  <1>3. form' \in Forms /\ form'.pc = "seal" /\ form'.id = id
    BY <1>1, <1>2 DEF Forms, FormSteps
  <1>4. FormOK'
    BY <1>1, <1>3 DEF FormOK, Exists, PostReport
  <1> QED
    BY <1>3, <1>4, FormFrame DEF PostReport, ReportsInv, ReportsTyped, ToldOK

\* The submission ends or goes on, with the report stored or without.
LEMMA SealMailsInv ==
  ASSUME ReportsInv, SealBody \/ MailMaintainer \/ MailSealedAck \/ MailPlainAck
  PROVE  ReportsInv'
  <1>1. /\ form # NoForm /\ stored' = stored /\ told' = told /\ UNCHANGED pageVars
    BY DEF SealBody, MailMaintainer, MailSealedAck, MailPlainAck
  <1>2. /\ told \subseteq TrackingIDs /\ mails \subseteq Mails
        /\ \A id \in told : Exists(id)
        /\ \A m \in mails : Exists(m.id)
    BY DEF ReportsInv, ReportsTyped, ToldOK
  <1>3. CASE SealBody
    <2>0. mails' = mails
      BY <1>3 DEF SealBody
    <2>a. /\ mails' \subseteq Mails /\ told' \subseteq TrackingIDs
          /\ \A m \in mails' : Exists(m.id)
          /\ \A id \in told' : Exists(id)
      BY <1>1, <1>2, <2>0
    <2>1. CASE form' = NoForm
      <3>1. FormOK'
        BY <2>1, Empties DEF FormOK
      <3> QED
        BY <1>1, <2>a, <2>1, <3>1, FormFrame
    <2>2. CASE form' = [form EXCEPT !.pc = "store"]
      <3>1. form' \in Forms /\ form'.pc = "store" /\ form'.id = form.id
        BY <1>1, <2>2, FormMoves DEF FormSteps
      <3>2. ~Exists(form.id)
        BY <1>3 DEF SealBody, ReportsInv, FormOK
      <3>3. FormOK'
        BY <1>1, <3>1, <3>2 DEF FormOK, Exists
      <3> QED
        BY <1>1, <2>a, <3>1, <3>3, FormFrame
    <2> QED
      BY <1>3, <2>1, <2>2 DEF SealBody
  <1>4. CASE MailMaintainer \/ MailSealedAck \/ MailPlainAck
    <2>1. Exists(form.id)
      BY <1>4 DEF MailMaintainer, MailSealedAck, MailPlainAck, ReportsInv, FormOK
    <2>2. PICK pc \in {"ack", "plain", "answer"} : form' = [form EXCEPT !.pc = pc]
      BY <1>4 DEF MailMaintainer, MailSealedAck, MailPlainAck
    <2>3. form' \in Forms /\ form'.pc = pc /\ form'.id = form.id
      BY <1>1, <2>2, FormMoves DEF FormSteps
    <2>4. FormOK'
      BY <1>1, <2>1, <2>3 DEF FormOK, Exists
    <2>5. mails' \subseteq Mails /\ \A m \in mails' : Exists(m.id)
      <3>1. CASE MailMaintainer
        BY <1>1, <2>1, <3>1, MailsGo DEF MailMaintainer
      <3>2. CASE MailSealedAck
        BY <1>1, <2>1, <3>2, MailsGo DEF MailSealedAck
      <3>3. CASE MailPlainAck
        BY <1>1, <2>1, <3>3, MailsGo DEF MailPlainAck
      <3> QED
        BY <1>4, <3>1, <3>2, <3>3
    <2> QED
      BY <1>1, <1>2, <2>3, <2>4, <2>5, FormFrame
  <1> QED
    BY <1>3, <1>4

LEMMA AnswerReportInv == ASSUME ReportsInv, AnswerReport PROVE ReportsInv'
  <1>1. Exists(form.id) /\ form.id \in TrackingIDs
    BY FormMoves DEF AnswerReport, ReportsInv, FormOK
  <1>2. told' = told \cup {form.id} /\ mails' = {} /\ form' = NoForm /\ stored' = stored
        /\ UNCHANGED pageVars
    BY DEF AnswerReport
  <1>3. told' \subseteq TrackingIDs /\ \A id \in told' : Exists(id)
    BY <1>1, <1>2 DEF ReportsInv, ReportsTyped, ToldOK
  <1>4. FormOK'
    BY <1>2, Empties DEF FormOK
  <1> QED
    BY <1>2, <1>3, <1>4, FormFrame
\* The table and the pages.  A changed row stays as sealed and as named as it was.
LEMMA RowFrame ==
  ASSUME ReportsInv, NEW id \in TrackingIDs, NEW r \in Report,
         stored' = [stored EXCEPT ![id] = r],
         r.sealed, r.named => r.credit = "name",
         UNCHANGED <<mails, told, day>>, view' \in [Viewers -> Views \cup {NoView}],
         \A v \in Viewers : view'[v] \in {view[v], NoView},
         shownToday' \in [TrackingIDs -> 0 .. 2], excused' \subseteq TrackingIDs,
         form' \in Forms \cup {NoForm}, FormOK',
         \A i \in TrackingIDs : ShownOK(i)'
  PROVE  ReportsInv'
  <1>1. ReportsTyped'
    BY DEF ReportsInv, ReportsTyped
  <1>2. \A i \in TrackingIDs : stored'[i] = IF i = id THEN r ELSE stored[i]
    BY DEF ReportsInv, ReportsTyped
  <1>3. \A i \in TrackingIDs : Exists(i)' <=> i = id \/ Exists(i)
    BY <1>2, Empties DEF Exists
  <1>4. StoredOK'
    BY <1>2, <1>3 DEF ReportsInv, StoredOK
  <1>5. ToldOK'
    <2>1. \A m \in mails : m.id \in TrackingIDs
      BY DEF ReportsInv, ReportsTyped, Mails
    <2>2. \A v \in Viewers : view'[v] # NoView => view'[v] = view[v] /\ view[v].id \in TrackingIDs
      BY Empties DEF ReportsInv, ReportsTyped, Views
    <2>3. told \subseteq TrackingIDs
      BY DEF ReportsInv, ReportsTyped
    <2>4. (\A m \in mails : Exists(m.id)) /\ (\A i \in told : Exists(i))
          /\ \A v \in Viewers : view[v] # NoView => Exists(view[v].id)
      BY DEF ReportsInv, ToldOK
    <2> QED
      BY <1>3, <2>1, <2>2, <2>3, <2>4 DEF ToldOK
  <1> QED
    BY <1>1, <1>4, <1>5 DEF ReportsInv

\* A report that is being stored has been shown to nobody.
LEMMA StoreReportInv == ASSUME ReportsInv, StoreReport PROVE ReportsInv'
  <1>1. /\ form # NoForm /\ form \in Forms /\ form.id \in TrackingIDs /\ ~Exists(form.id)
        /\ UNCHANGED <<mails, told, pageVars>>
    BY FormMoves DEF StoreReport, ReportsInv, FormOK
  <1>2. CASE stored' = stored /\ form' = NoForm
    <2>1. FormOK'
      BY <1>2, Empties DEF FormOK
    <2>2. /\ mails' \subseteq Mails /\ told' \subseteq TrackingIDs
          /\ \A m \in mails' : Exists(m.id)
          /\ \A id \in told' : Exists(id)
      BY <1>1 DEF ReportsInv, ReportsTyped, ToldOK
    <2> QED
      BY <1>1, <1>2, <2>1, <2>2, FormFrame
  <1>3. CASE /\ stored' = [stored EXCEPT ![form.id] = NewReport(form.credit)]
             /\ form' = [form EXCEPT !.pc = "maintainer"]
    <2> DEFINE id == form.id
               r == NewReport(form.credit)
    <2>1. r \in Report /\ r.sealed /\ (r.named => r.credit = "name")
      <3>1. form.credit \in {"name", "anonymous", "no"} /\ day \in Days /\ Never \in Days
        BY <1>1, ReportsAssumption DEF Forms, ReportsInv, ReportsTyped, Days, Never
      <3> QED
        BY <3>1, StatusNames DEF NewReport, Report
    <2>2. form' \in Forms /\ form'.pc = "maintainer" /\ form'.id = id
      BY <1>1, <1>3, FormMoves DEF FormSteps
    <2> HIDE DEF r
    <2>3. \A i \in TrackingIDs : stored'[i] = IF i = id THEN r ELSE stored[i]
      BY <1>1, <1>3 DEF ReportsInv, ReportsTyped, r
    <2>4. FormOK'
      BY <1>1, <2>1, <2>2, <2>3, Empties DEF FormOK, Exists
    <2>5. ASSUME NEW i \in TrackingIDs PROVE ShownOK(i)'
      <3>1. ShownOK(i) /\ view' = view /\ day' = day /\ shownToday' = shownToday
            /\ excused' = excused
        BY <1>1 DEF ReportsInv, pageVars
      <3>2. CASE i = id
        <4>1. i \notin excused => shownToday[i] # 1
          BY <1>1, <3>1, <3>2 DEF ShownOK
        <4> QED
          BY <3>1, <4>1 DEF ShownOK, Viewing
      <3>3. CASE i # id
        BY <2>3, <3>1, <3>3 DEF ShownOK, Viewing, Exists
      <3> QED
        BY <3>2, <3>3
    <2>6. stored' = [stored EXCEPT ![id] = r] /\ UNCHANGED <<mails, told, day>>
          /\ view' = view /\ shownToday' = shownToday /\ excused' = excused
      BY <1>1, <1>3 DEF pageVars, r
    <2>7. /\ view \in [Viewers -> Views \cup {NoView}] /\ shownToday \in [TrackingIDs -> 0 .. 2]
          /\ excused \subseteq TrackingIDs
      BY DEF ReportsInv, ReportsTyped
    <2> QED
      BY <1>1, <2>1, <2>2, <2>4, <2>5, <2>6, <2>7, RowFrame
  <1> QED
    BY <1>2, <1>3 DEF StoreReport

LEMMA UpdateStatusInv ==
  ASSUME ReportsInv, NEW id \in TrackingIDs, NEW status \in Statuses, UpdateStatus(id, status)
  PROVE  ReportsInv'
  <1> DEFINE d == IF status = "Disclosed" THEN day ELSE stored[id].disclosed
             r == [stored[id] EXCEPT !.status = status, !.updated = day, !.disclosed = d]
  <1>1. stored[id] \in Report /\ stored \in [TrackingIDs -> Report \cup {NoReport}]
    BY DEF UpdateStatus, Exists, ReportsInv, ReportsTyped
  <1>2. day \in Days /\ d \in Days
    BY <1>1, ReportsAssumption DEF ReportsInv, ReportsTyped, Days, Never, Report
  <1>3. stored' = [stored EXCEPT ![id] = r]
    BY <1>1 DEF UpdateStatus
  <1> HIDE DEF d
  <1>4. /\ r \in Report /\ r.sealed = stored[id].sealed /\ r.named = stored[id].named
        /\ r.credit = stored[id].credit /\ r.lastUsed = stored[id].lastUsed
    BY <1>1, <1>2 DEF Report
  <1> HIDE DEF r
  <1>5. r.sealed /\ (r.named => r.credit = "name")
    BY <1>4 DEF UpdateStatus, ReportsInv, StoredOK
  <1>6. /\ UNCHANGED <<mails, told, day>> /\ view' = view /\ shownToday' = shownToday
        /\ excused' = excused /\ form' = form /\ Exists(id)
    BY DEF UpdateStatus, pageVars
  <1>7. \A i \in TrackingIDs : stored'[i] = IF i = id THEN r ELSE stored[i]
    BY <1>1, <1>3
  <1>8. \A i \in TrackingIDs : Exists(i)' <=> Exists(i)
    BY <1>4, <1>6, <1>7, Empties DEF Exists
  <1>9. FormOK'
    <2>1. CASE form = NoForm
      BY <1>6, <2>1, Empties DEF FormOK
    <2>2. CASE form # NoForm
      BY <1>6, <1>8, <2>2, FormMoves DEF ReportsInv, FormOK
    <2> QED
      BY <2>1, <2>2
  <1>10. ASSUME NEW i \in TrackingIDs PROVE ShownOK(i)'
    <2>1. ShownOK(i) /\ stored'[i].lastUsed = stored[i].lastUsed
      BY <1>4, <1>7 DEF ReportsInv
    <2> QED
      BY <1>6, <1>8, <2>1 DEF ShownOK, Viewing
  <1>11. /\ view \in [Viewers -> Views \cup {NoView}] /\ shownToday \in [TrackingIDs -> 0 .. 2]
         /\ excused \subseteq TrackingIDs /\ form \in Forms \cup {NoForm}
    BY DEF ReportsInv, ReportsTyped
  <1> QED
    BY <1>3, <1>4, <1>5, <1>6, <1>9, <1>10, <1>11, RowFrame
\* Steps of a page that leave the table alone.
LEMMA PageFrame ==
  ASSUME ReportsInv, UNCHANGED <<stored, form, mails, told>>,
         view' \in [Viewers -> Views \cup {NoView}],
         \A v \in Viewers : view'[v] # NoView => Exists(view'[v].id),
         day' \in 0 .. ReportsMaxDay, shownToday' \in [TrackingIDs -> 0 .. 2],
         excused' \subseteq TrackingIDs, \A i \in TrackingIDs : ShownOK(i)'
  PROVE  ReportsInv'
  <1>1. ReportsTyped'
    BY DEF ReportsInv, ReportsTyped
  <1>2. StoredOK' /\ FormOK' /\ ToldOK'
    BY DEF ReportsInv, StoredOK, FormOK, ToldOK, Exists
  <1> QED
    BY <1>1, <1>2 DEF ReportsInv

\* A request reads the row; one for a report that is being shown excuses it.
LEMMA ViewBeginInv ==
  ASSUME ReportsInv, NEW v \in Viewers, ViewBegin(v) PROVE ReportsInv'
  <1>1. PICK id \in TrackingIDs :
          /\ Exists(id)
          /\ view' = [view EXCEPT ![v] = [pc |-> "check", id |-> id, row |-> SeenRow(stored[id])]]
          /\ excused' = IF \E w \in Viewers \ {v} : view[w] # NoView /\ view[w].id = id
                        THEN excused \cup {id} ELSE excused
    BY DEF ViewBegin
  <1> DEFINE n == [pc |-> "check", id |-> id, row |-> SeenRow(stored[id])]
  <1>2. view \in [Viewers -> Views \cup {NoView}] /\ stored[id] \in Report
        /\ excused \subseteq TrackingIDs
    BY <1>1 DEF ReportsInv, ReportsTyped, Exists
  <1>3. SeenRow(stored[id]) \in Seen /\ SeenRow(stored[id]).lastUsed = stored[id].lastUsed
    <2>1. Never \in Days /\ stored[id].updated \in Days /\ stored[id].disclosed \in Days
          /\ stored[id].lastUsed \in Days
      BY <1>2, ReportsAssumption DEF Report, Days, Never
    <2> QED
      BY <2>1 DEF SeenRow, ClosedAt, Seen
  <1>4. n \in Views /\ n.pc = "check" /\ n.id = id /\ n.row.lastUsed = stored[id].lastUsed
    BY <1>3 DEF Views
  <1> HIDE DEF n
  <1>5. view' \in [Viewers -> Views \cup {NoView}] /\ view'[v] = n
        /\ \A w \in Viewers \ {v} : view'[w] = view[w]
    BY <1>1, <1>2, <1>4 DEF n
  <1>6. UNCHANGED <<stored, form, mails, told, day, shownToday>> /\ view[v] = NoView
    BY DEF ViewBegin
  <1>7. \A w \in Viewers : view'[w] # NoView => Exists(view'[w].id)
    BY <1>1, <1>4, <1>5 DEF ReportsInv, ToldOK
  <1>8. ASSUME NEW i \in TrackingIDs, i \notin excused' PROVE ShownOK(i)'
    <2>1. ShownOK(i) /\ i \notin excused
      BY <1>1, <1>8 DEF ReportsInv
    <2>2. CASE i # id
      <3>1. \A w \in Viewers : Viewing(w, i)' => w # v /\ Viewing(w, i) /\ view'[w] = view[w]
        BY <1>4, <1>5, <2>2 DEF Viewing
      <3> QED
        BY <1>6, <2>1, <3>1 DEF ShownOK, Exists
    <2>3. CASE i = id
      <3>1. \A w \in Viewers : Viewing(w, i)' => w = v
        BY <1>1, <1>5, <1>8, <2>3 DEF Viewing
      <3> QED
        BY <1>1, <1>4, <1>5, <1>6, <2>1, <2>3, <3>1 DEF ShownOK, Exists
    <2> QED
      BY <2>2, <2>3
  <1>9. \A i \in TrackingIDs : ShownOK(i)'
    BY <1>8 DEF ShownOK
  <1>10. /\ day' \in 0 .. ReportsMaxDay /\ shownToday' \in [TrackingIDs -> 0 .. 2]
         /\ excused' \subseteq TrackingIDs
    BY <1>1, <1>2, <1>6 DEF ReportsInv, ReportsTyped
  <1> QED
    BY <1>5, <1>6, <1>7, <1>9, <1>10, PageFrame

\* Only a request that has read another day's use goes on to show the page.
LEMMA ViewCheckInv ==
  ASSUME ReportsInv, NEW v \in Viewers, ViewCheck(v) PROVE ReportsInv'
  <1>1. /\ view[v] # NoView /\ UNCHANGED <<stored, form, mails, told, day, shownToday, excused>>
        /\ \/ view' = [view EXCEPT ![v] = NoView]
           \/ view' = [view EXCEPT ![v] = ToMark(view[v])] /\ view[v].row.lastUsed # day
    BY DEF ViewCheck
  <1>2. view \in [Viewers -> Views \cup {NoView}] /\ view[v] \in Views
    BY <1>1 DEF ReportsInv, ReportsTyped
  <1>3. ToMark(view[v]) \in Views /\ ToMark(view[v]).id = view[v].id
    <2>1. Never \in Days /\ view[v].id \in TrackingIDs
      BY <1>2, ReportsAssumption DEF Days, Never, Views
    <2> QED
      BY <2>1 DEF ToMark, Views, Seen
  <1>4. /\ view' \in [Viewers -> Views \cup {NoView}]
        /\ \A w \in Viewers \ {v} : view'[w] = view[w]
        /\ view'[v] = NoView \/ (view'[v].id = view[v].id /\ view[v].row.lastUsed # day)
    BY <1>1, <1>2, <1>3
  <1>5. \A w \in Viewers : view'[w] # NoView => Exists(view'[w].id)
    BY <1>1, <1>4 DEF ReportsInv, ToldOK
  <1>6. ASSUME NEW i \in TrackingIDs PROVE ShownOK(i)'
    <2>1. ShownOK(i)
      BY DEF ReportsInv
    <2>2. \A w \in Viewers : Viewing(w, i)' => Viewing(w, i)
      BY <1>1, <1>4 DEF Viewing
    <2>3. \A w \in Viewers : Viewing(w, i)' /\ view[w].row.lastUsed = day => view'[w] = view[w]
      BY <1>4 DEF Viewing
    <2> QED
      BY <1>1, <2>1, <2>2, <2>3 DEF ShownOK, Exists
  <1>7. /\ day' \in 0 .. ReportsMaxDay /\ shownToday' \in [TrackingIDs -> 0 .. 2]
        /\ excused' \subseteq TrackingIDs
    BY <1>1 DEF ReportsInv, ReportsTyped
  <1> QED
    BY <1>1, <1>4, <1>5, <1>6, <1>7, PageFrame

\* The page is shown: the use is recorded, or the report is excused.
LEMMA ViewMarkInv ==
  ASSUME ReportsInv, NEW v \in Viewers, ViewMark(v) PROVE ReportsInv'
  <1>0. PICK id \in TrackingIDs : id = view[v].id
    BY DEF ViewMark, ReportsInv, ReportsTyped, Views
  <1> DEFINE r == [stored[id] EXCEPT !.lastUsed = day]
  <1>1. /\ view[v] # NoView /\ view[v].pc = "mark" /\ UNCHANGED <<form, mails, told, day>>
        /\ view' = [view EXCEPT ![v] = NoView]
        /\ shownToday' = [shownToday EXCEPT ![id] = IF @ < 2 THEN @ + 1 ELSE @]
        /\ \/ stored' = [stored EXCEPT ![id].lastUsed = day] /\ excused' = excused
           \/ stored' = stored /\ excused' = excused \cup {id}
    BY <1>0 DEF ViewMark
  <1>2. /\ view \in [Viewers -> Views \cup {NoView}] /\ id \in TrackingIDs
        /\ stored \in [TrackingIDs -> Report \cup {NoReport}]
        /\ shownToday \in [TrackingIDs -> 0 .. 2] /\ excused \subseteq TrackingIDs
        /\ day \in 0 .. ReportsMaxDay /\ form \in Forms \cup {NoForm}
    BY <1>1 DEF ReportsInv, ReportsTyped, Views
  <1>3. Exists(id) /\ stored[id] \in Report
    BY <1>0, <1>1, <1>2 DEF ReportsInv, ToldOK, Exists
  <1>4. /\ view' \in [Viewers -> Views \cup {NoView}] /\ view'[v] = NoView
        /\ \A w \in Viewers \ {v} : view'[w] = view[w]
    BY <1>1, <1>2
  <1>5. /\ shownToday' \in [TrackingIDs -> 0 .. 2]
        /\ \A i \in TrackingIDs \ {id} : shownToday'[i] = shownToday[i]
        /\ shownToday[id] = 0 => shownToday'[id] = 1
    <2>1. (IF shownToday[id] < 2 THEN shownToday[id] + 1 ELSE shownToday[id]) \in 0 .. 2
      BY <1>2
    <2> QED
      BY <1>1, <1>2, <2>1
  <1>6. \A i \in TrackingIDs, w \in Viewers : Viewing(w, i)' => w # v /\ Viewing(w, i)
    BY <1>4 DEF Viewing
  <1>7. ASSUME NEW i \in TrackingIDs, i # id, stored'[i] = stored[i],
               excused' \subseteq excused \cup {id}, excused \subseteq excused'
        PROVE  ShownOK(i)'
    <2>1. ShownOK(i)
      BY DEF ReportsInv
    <2> QED
      BY <1>1, <1>4, <1>5, <1>6, <1>7, <2>1 DEF ShownOK, Exists
  <1>8. CASE stored' = stored /\ excused' = excused \cup {id}
    <2>1. \A i \in TrackingIDs : ShownOK(i)'
      BY <1>7, <1>8 DEF ShownOK
    <2>2. \A w \in Viewers : view'[w] # NoView => Exists(view'[w].id)
      BY <1>4 DEF ReportsInv, ToldOK
    <2>3. excused' \subseteq TrackingIDs /\ day' \in 0 .. ReportsMaxDay
      BY <1>1, <1>2, <1>8
    <2> QED
      BY <1>1, <1>4, <1>5, <1>8, <2>1, <2>2, <2>3, PageFrame
  <1>9. CASE stored' = [stored EXCEPT ![id].lastUsed = day] /\ excused' = excused
    <2>1. stored' = [stored EXCEPT ![id] = r]
      BY <1>2, <1>9
    <2>2. day \in Days
      BY <1>2, ReportsAssumption DEF Days, Never
    <2>3. /\ r \in Report /\ r.sealed = stored[id].sealed /\ r.named = stored[id].named
          /\ r.credit = stored[id].credit /\ r.lastUsed = day
      BY <1>3, <2>2 DEF Report
    <2> HIDE DEF r
    <2>4. r.sealed /\ (r.named => r.credit = "name")
      BY <1>2, <1>3, <2>3 DEF ReportsInv, StoredOK
    <2>5. \A i \in TrackingIDs : stored'[i] = IF i = id THEN r ELSE stored[i]
      BY <1>2, <2>1
    <2>6. \A i \in TrackingIDs : Exists(i)' <=> Exists(i)
      BY <1>3, <2>3, <2>5, Empties DEF Exists
    <2>7. FormOK'
      <3>1. CASE form = NoForm
        BY <1>1, <3>1, Empties DEF FormOK
      <3>2. CASE form # NoForm
        BY <1>1, <2>6, <3>2, FormMoves DEF ReportsInv, FormOK
      <3> QED
        BY <3>1, <3>2
    <2>8. ShownOK(id)'
      <3> SUFFICES ASSUME id \notin excused PROVE ShownOK(id)'
        BY <1>9 DEF ShownOK
      <3>1. ShownOK(id)
        BY <1>2 DEF ReportsInv
      <3>2. Viewing(v, id)
        BY <1>0, <1>1 DEF Viewing
      <3>3. \A w \in Viewers : Viewing(w, id) => w = v
        BY <3>1, <3>2 DEF ShownOK
      <3>4. shownToday[id] = 0
        BY <1>1, <1>2, <3>1, <3>2 DEF ShownOK
      <3>5. \A w \in Viewers : ~Viewing(w, id)'
        BY <1>2, <1>6, <3>3
      <3>6. Exists(id)' /\ stored'[id].lastUsed = day' /\ shownToday'[id] = 1
        BY <1>1, <1>2, <1>3, <1>5, <2>3, <2>5, <2>6, <3>4
      <3> QED
        BY <3>5, <3>6 DEF ShownOK
    <2>9. \A i \in TrackingIDs : ShownOK(i)'
      BY <1>7, <1>9, <2>5, <2>8
    <2>10. excused' \subseteq TrackingIDs /\ form' \in Forms \cup {NoForm}
           /\ \A w \in Viewers : view'[w] \in {view[w], NoView}
      BY <1>1, <1>2, <1>4, <1>9
    <2> QED
      BY <1>1, <1>2, <1>4, <1>5, <2>1, <2>3, <2>4, <2>7, <2>9, <2>10, RowFrame
  <1> QED
    BY <1>1, <1>8, <1>9

\* A new day: what is under way belongs to both days.
LEMMA NextDayInv == ASSUME ReportsInv, NextDay PROVE ReportsInv'
  <1>1. /\ day' = day + 1 /\ day < ReportsMaxDay /\ UNCHANGED <<stored, form, mails, told, view>>
        /\ shownToday' = [i \in TrackingIDs |-> 0]
        /\ excused' = {i \in TrackingIDs : \E v \in Viewers : view[v] # NoView /\ view[v].id = i}
    BY DEF NextDay
  <1>2. day' \in 0 .. ReportsMaxDay
    BY <1>1, ReportsAssumption DEF ReportsInv, ReportsTyped
  <1>3. shownToday' \in [TrackingIDs -> 0 .. 2] /\ excused' \subseteq TrackingIDs
    BY <1>1
  <1>4. ASSUME NEW i \in TrackingIDs PROVE ShownOK(i)'
    <2>1. i \notin excused' => \A v \in Viewers : ~Viewing(v, i)'
      BY <1>1 DEF Viewing
    <2>2. shownToday'[i] = 0
      BY <1>1
    <2> QED
      BY <2>1, <2>2 DEF ShownOK
  <1>5. /\ view' \in [Viewers -> Views \cup {NoView}]
        /\ \A v \in Viewers : view'[v] # NoView => Exists(view'[v].id)
    BY <1>1 DEF ReportsInv, ReportsTyped, ToldOK
  <1> QED
    BY <1>1, <1>2, <1>3, <1>4, <1>5, PageFrame
LEMMA ReportsNextInv == ReportsInv /\ [SecurityReportsNext]_reportsVars => ReportsInv'
  <1> SUFFICES ASSUME ReportsInv, [SecurityReportsNext]_reportsVars PROVE ReportsInv'
    OBVIOUS
  <1>1. CASE UNCHANGED reportsVars
    <2>1. /\ UNCHANGED <<stored, form, mails, told, view>> /\ day' = day
          /\ shownToday' = shownToday /\ excused' = excused
      BY <1>1 DEF reportsVars
    <2>2. ReportsTyped' /\ StoredOK' /\ FormOK' /\ ToldOK'
      BY <2>1 DEF ReportsInv, ReportsTyped, StoredOK, FormOK, ToldOK, Exists
    <2>3. ASSUME NEW i \in TrackingIDs PROVE ShownOK(i)'
      <3>1. ShownOK(i)
        BY DEF ReportsInv
      <3> QED
        BY <2>1, <3>1 DEF ShownOK, Viewing, Exists
    <2> QED
      BY <2>2, <2>3 DEF ReportsInv
  <1>2. CASE PostReport \/ StoreReport \/ AnswerReport \/ NextDay
    BY <1>2, PostReportInv, StoreReportInv, AnswerReportInv, NextDayInv
  <1>3. CASE SealBody \/ MailMaintainer \/ MailSealedAck \/ MailPlainAck
    BY <1>3, SealMailsInv
  <1>4. CASE \E v \in Viewers : ViewBegin(v) \/ ViewCheck(v) \/ ViewMark(v)
    BY <1>4, ViewBeginInv, ViewCheckInv, ViewMarkInv
  <1>5. CASE \E id \in TrackingIDs, status \in Statuses : UpdateStatus(id, status)
    BY <1>5, UpdateStatusInv
  <1> QED
    BY <1>1, <1>2, <1>3, <1>4, <1>5 DEF SecurityReportsNext

\* ReportsHandled: through every failure of sealing, storing and mailing, and every
\* interleaving of pages, status changes and midnights, an id that was told is stored
\* sealed, a page opens once a day and credit is given as wished.
THEOREM ReportsAreHandled == SecurityReportsSpec => []ReportsHandled
  <1>1. ReportsInv => ReportsHandled
    <2> SUFFICES ASSUME ReportsInv PROVE ReportsHandled
      OBVIOUS
    <2>1. SecurityReportsTypeOK
      <3>1. form = NoForm \/ (form.pc \in FormSteps
                /\ form.id \in TrackingIDs /\ form.gpg \in {"usable", "unusable"}
                /\ form.credit \in {"name", "anonymous", "no"})
        BY DEF ReportsInv, ReportsTyped, Forms
      <3>2. \A v \in Viewers : view[v] = NoView \/ (view[v].pc \in {"check", "mark"}
                /\ view[v].id \in TrackingIDs /\ view[v].row \in Seen)
        BY DEF ReportsInv, ReportsTyped, Views
      <3> QED
        BY <3>1, <3>2 DEF ReportsInv, ReportsTyped, SecurityReportsTypeOK, FormSteps, Mails
    <2>2. StoredBeforeTold
      BY DEF StoredBeforeTold, Known, ReportsInv, ToldOK, StoredOK
    <2>3. OncePerDay
      BY DEF OncePerDay, ReportsInv, ShownOK
    <2>4. ThanksAsWished
      <3> SUFFICES ASSUME NEW e \in Thanks
                   PROVE  stored[e.id].credit # "no" /\ (e.named => stored[e.id].credit = "name")
        BY DEF ThanksAsWished
      <3>1. PICK i \in TrackingIDs : /\ e = [id |-> i, named |-> stored[i].named] /\ Exists(i)
                                     /\ stored[i].credit \in {"name", "anonymous"}
        BY DEF Thanks
      <3> QED
        BY <3>1 DEF ReportsInv, StoredOK
    <2> QED
      BY <2>1, <2>2, <2>3, <2>4 DEF ReportsHandled
  <1> QED
    BY <1>1, ReportsInitInv, ReportsNextInv, PTL DEF SecurityReportsSpec
(***************************************************************************)
(* The key pair.  While nothing was interrupted and nobody overlapped, at   *)
(* most one worker is at work, its position says how far the files and the *)
(* row have come, and between commands all three name one key.             *)
(***************************************************************************)
Clean == tidy /\ ~overlapped

WorkSteps == {"rest", "ensure", "check", "park", "pub", "priv", "meta", "prune", "submit",
              "readRow", "record", "remove", "save", "revoke", "up"}
WorkOps == {"none", "start", "generate", "rotate", "publish", "import", "delete"}
Work == [pc : WorkSteps, op : WorkOps, key : Keys \cup {NoKey}, row : Rows]

KeysTyped ==
    /\ pub \in Keys \cup {NoKey} /\ priv \in Keys \cup {NoKey} /\ parked \in Keys \cup {NoKey}
    /\ wroteOn \in [Keys -> 0 .. KeysMaxDay]
    /\ meta \in Rows /\ publishKey \in BOOLEAN /\ worker \in [Workers -> Work]
    /\ reports \subseteq Keys /\ today \in 0 .. KeysMaxDay /\ runs \in 0 .. MaxRuns
    /\ turns \in [Keys -> 0 .. 2] /\ tidy \in BOOLEAN /\ overlapped \in BOOLEAN

\* Positions at which the files and the row are as a whole command leaves them.
Calm == {"rest", "up", "ensure", "check", "prune", "submit", "readRow", "record"}

Settled == priv = pub /\ meta = [key |-> pub, revoked |-> FALSE]

OneAtWork == \A u, w \in Workers : Busy(u) /\ Busy(w) => u = w

WorkOK(x) ==
    /\ x.pc \in Calm \cup Replacing
    /\ x.pc = "record" => x.row = meta
    /\ x.pc \in Replacing \cup {"ensure"} => x.op # "import"
    /\ x.pc \in {"priv", "meta"} => pub = x.key
    /\ x.pc = "meta" => priv = pub

CleanOK ==
    /\ OneAtWork
    /\ (\A w \in Workers : worker[w].pc \in Calm \cup {"park"}) => Settled
    /\ \A w \in Workers : WorkOK(worker[w])

CleanInv == KeysTyped /\ (Clean => CleanOK)
Becomes(w, x) == worker' = [worker EXCEPT ![w] = x]

LEMMA Positions ==
  /\ AtRest \in Work /\ AtRest.pc = "rest" /\ NoRow \in Rows
  /\ NoRow = [key |-> NoKey, revoked |-> FALSE]
  /\ [AtRest EXCEPT !.pc = "up", !.op = "start"] \in Work
  /\ [AtRest EXCEPT !.pc = "up", !.op = "start"].pc = "up"
  /\ [AtRest EXCEPT !.pc = "prune", !.op = "start"] \in Work
  /\ [AtRest EXCEPT !.pc = "prune", !.op = "start"].pc = "prune"
  BY DEF AtRest, Work, WorkSteps, WorkOps, Rows, NoRow

LEMMA CleanInitInv == ProjectKeysInit => CleanInv
  <1> SUFFICES ASSUME ProjectKeysInit PROVE CleanInv
    OBVIOUS
  <1>1. \A w \in Workers : worker[w] = AtRest
    BY DEF ProjectKeysInit
  <1>2. KeysTyped
    <2>1. 0 \in 0 .. KeysMaxDay /\ 0 \in 0 .. MaxRuns
      BY KeysAssumption
    <2>2. worker \in [Workers -> Work]
      BY Positions DEF ProjectKeysInit
    <2>3. publishKey \in BOOLEAN /\ tidy \in BOOLEAN /\ overlapped \in BOOLEAN
      BY DEF ProjectKeysInit
    <2>4. wroteOn \in [Keys -> 0 .. KeysMaxDay] /\ turns \in [Keys -> 0 .. 2]
      BY <2>1 DEF ProjectKeysInit
    <2>5. /\ pub \in Keys \cup {NoKey} /\ priv \in Keys \cup {NoKey}
          /\ parked \in Keys \cup {NoKey} /\ meta \in Rows /\ reports \subseteq Keys
          /\ today \in 0 .. KeysMaxDay /\ runs \in 0 .. MaxRuns
      BY <2>1, Positions DEF ProjectKeysInit
    <2> QED
      BY <2>2, <2>3, <2>4, <2>5 DEF KeysTyped
  <1>3. OneAtWork
    BY <1>1, Positions DEF OneAtWork, Busy
  <1>4. Settled
    BY DEF ProjectKeysInit, Settled, NoRow
  <1>5. ASSUME NEW w \in Workers PROVE WorkOK(worker[w])
    BY <1>1, Positions DEF WorkOK, Calm, Replacing
  <1> QED
    BY <1>2, <1>3, <1>4, <1>5 DEF CleanInv, CleanOK

\* The new position of a worker, as a value.
LEMMA Goes ==
  ASSUME KeysTyped, NEW w \in Workers, NEW pc \in WorkSteps, Go(w, pc)
  PROVE  \E x \in Work : /\ Becomes(w, x) /\ x.pc = pc /\ x.op = worker[w].op
                         /\ x.key = worker[w].key /\ x.row = worker[w].row
  <1> DEFINE x == [worker[w] EXCEPT !.pc = pc]
  <1>1. worker \in [Workers -> Work] /\ worker[w] \in Work
    BY DEF KeysTyped
  <1>2. /\ x \in Work /\ x.pc = pc /\ x.op = worker[w].op
        /\ x.key = worker[w].key /\ x.row = worker[w].row
    BY <1>1 DEF Work
  <1>3. Becomes(w, x)
    BY <1>1 DEF Go, Becomes
  <1> HIDE DEF x
  <1> QED
    BY <1>2, <1>3

LEMMA GoesFresh ==
  ASSUME KeysTyped, NEW w \in Workers, NEW pc \in WorkSteps, WithFreshKey(w, pc)
  PROVE  \E x \in Work : /\ Becomes(w, x) /\ x.pc = pc /\ x.op = worker[w].op
                         /\ x.key \in Keys /\ turns[x.key] = 0 /\ x.key # priv
  <1>1. PICK k \in Unused : worker' = [worker EXCEPT ![w].pc = pc, ![w].key = k]
    BY DEF WithFreshKey
  <1>2. k \in Keys /\ turns[k] = 0 /\ k # priv
    BY DEF Unused
  <1> DEFINE x == [worker[w] EXCEPT !.pc = pc, !.key = k]
  <1>3. worker \in [Workers -> Work] /\ worker[w] \in Work
    BY DEF KeysTyped
  <1>4. x \in Work /\ x.pc = pc /\ x.op = worker[w].op /\ x.key = k
    BY <1>2, <1>3 DEF Work
  <1>5. Becomes(w, x)
    BY <1>1, <1>3 DEF Becomes
  <1> HIDE DEF x
  <1> QED
    BY <1>2, <1>4, <1>5

LEMMA EndsWork ==
  ASSUME NEW w \in Workers, Finished(w)
  PROVE  \E x \in Work : Becomes(w, x) /\ x.pc \in {"rest", "up"}
  BY Positions DEF Finished, Becomes

LEMMA StaysTyped ==
  ASSUME KeysTyped, NEW w \in Workers, NEW x \in Work, Becomes(w, x)
  PROVE  /\ worker' \in [Workers -> Work] /\ worker'[w] = x
         /\ \A u \in Workers \ {w} : worker'[u] = worker[u]
  BY DEF KeysTyped, Becomes

\* Who works is alone, and while it has not begun to replace the key, everything
\* names one key.
LEMMA Alone ==
  ASSUME KeysTyped, CleanOK, NEW w \in Workers, Busy(w)
  PROVE  /\ \A u \in Workers \ {w} : worker[u].pc \in {"rest", "up"}
         /\ worker[w].pc \in Calm \cup {"park"} => Settled
  <1>1. \A u \in Workers \ {w} : worker[u].pc \in {"rest", "up"}
    BY DEF CleanOK, OneAtWork, Busy
  <1>2. worker[w].pc \in Calm \cup {"park"} => \A u \in Workers : worker[u].pc \in Calm \cup {"park"}
    BY <1>1 DEF Calm
  <1> QED
    BY <1>1, <1>2 DEF CleanOK

\* A step of the one worker at work.
LEMMA OneMoves ==
  ASSUME KeysTyped, NEW w \in Workers, NEW x \in Work, Becomes(w, x),
         \A u \in Workers \ {w} : worker[u].pc \in {"rest", "up"},
         x.pc \in Calm \cup {"park"} => Settled', WorkOK(x)'
  PROVE  CleanOK'
  <1>1. worker'[w] = x /\ \A u \in Workers \ {w} : worker'[u].pc \in {"rest", "up"}
    BY StaysTyped
  <1>2. OneAtWork'
    BY <1>1 DEF OneAtWork, Busy
  <1>3. (\A u \in Workers : worker'[u].pc \in Calm \cup {"park"}) => Settled'
    BY <1>1
  <1>4. ASSUME NEW u \in Workers PROVE WorkOK(worker[u])'
    <2>1. CASE u = w
      BY <1>1, <2>1 DEF WorkOK
    <2>2. CASE u # w
      BY <1>1, <2>2 DEF WorkOK, Calm, Replacing
    <2> QED
      BY <2>1, <2>2
  <1> QED
    BY <1>2, <1>3, <1>4 DEF CleanOK

\* A step that changes nothing on disk, from one calm position to another.
LEMMA CalmMoves ==
  ASSUME CleanInv, NEW w \in Workers, NEW x \in Work, Becomes(w, x),
         Busy(w), worker[w].pc \in Calm, x.pc \in Calm \ {"ensure"}, x.pc = "record" => x.row = meta,
         UNCHANGED filesVars, Clean
  PROVE  CleanOK'
  <1>0. KeysTyped /\ CleanOK
    BY DEF CleanInv
  <1>1. Settled /\ \A u \in Workers \ {w} : worker[u].pc \in {"rest", "up"}
    BY <1>0, Alone
  <1>2. Settled'
    BY <1>1 DEF Settled, filesVars
  <1>3. WorkOK(x)'
    BY DEF WorkOK, Calm, Replacing, filesVars
  <1> QED
    BY <1>0, <1>1, <1>2, <1>3, OneMoves

LEMMA BeginClean ==
  ASSUME CleanInv, NEW w \in Workers, NEW pc \in {"ensure", "check"}, NEW op \in WorkOps,
         pc = "ensure" => op = "start", Begin(w, pc, op)
  PROVE  CleanInv'
  <1> DEFINE y == [AtRest EXCEPT !.pc = pc, !.op = op]
  <1>1. y \in Work /\ y.pc = pc /\ y.op = op
    BY DEF AtRest, Work, WorkSteps, Rows, NoRow
  <1>2. Becomes(w, y)
    BY DEF Begin, Becomes
  <1> HIDE DEF y
  <1>3. PICK x \in Work : Becomes(w, x) /\ x.pc = pc /\ x.op = op
    BY <1>1, <1>2
  <1>4. /\ pub' = pub /\ priv' = priv /\ parked' = parked /\ wroteOn' = wroteOn /\ meta' = meta
        /\ publishKey' = publishKey /\ reports' = reports /\ today' = today /\ turns' = turns
        /\ tidy' = tidy
    BY DEF Begin, filesVars, historyVars
  <1>5. runs' \in 0 .. MaxRuns
    BY KeysAssumption DEF Begin, CleanInv, KeysTyped
  <1>6. overlapped' \in BOOLEAN
    BY DEF Begin, Overlap
  <1>7. KeysTyped'
    <2>1. KeysTyped
      BY DEF CleanInv
    <2>2. worker' \in [Workers -> Work]
      BY <1>3, <2>1, StaysTyped
    <2> QED
      BY <1>4, <1>5, <1>6, <2>1, <2>2 DEF KeysTyped
  <1>8. ASSUME Clean' PROVE CleanOK'
    <2>1. ~overlapped /\ \A u \in Workers : ~Busy(u)
      BY <1>8 DEF Begin, Overlap, Clean
    <2>2. Clean /\ KeysTyped /\ CleanOK
      BY <1>4, <1>8, <2>1 DEF Clean, CleanInv
    <2>3. \A u \in Workers : worker[u].pc \in {"rest", "up"}
      BY <2>1 DEF Busy
    <2>4. Settled
      BY <2>2, <2>3 DEF CleanOK, Calm
    <2>5. Settled'
      BY <1>4, <2>4 DEF Settled
    <2>6. WorkOK(x)'
      BY <1>3 DEF WorkOK, Calm, Replacing
    <2> QED
      BY <1>3, <2>2, <2>3, <2>5, <2>6, OneMoves
  <1> QED
    BY <1>7, <1>8 DEF CleanInv

\* The server's start: an active key is left alone.
LEMMA EnsureClean == ASSUME CleanInv, EnsureSecurityKeypair PROVE CleanInv'
  <1> DEFINE w == "server"
  <1>0. w \in Workers /\ KeysTyped /\ worker[w].pc = "ensure" /\ Busy(w)
    BY DEF Workers, CleanInv, EnsureSecurityKeypair, Busy
  <1>1. UNCHANGED <<filesVars, historyVars, tidy, overlapped, runs>>
    BY DEF EnsureSecurityKeypair
  <1>2. Go(w, "prune") \/ WithFreshKey(w, "pub")
    BY DEF EnsureSecurityKeypair
  <1>3. PICK x \in Work : /\ Becomes(w, x) /\ x.op = worker[w].op
                          /\ x.pc \in {"prune", "pub"}
    BY <1>0, <1>2, Goes, GoesFresh DEF WorkSteps
  <1>4. KeysTyped'
    <2>1. worker' \in [Workers -> Work]
      BY <1>0, <1>3, StaysTyped
    <2> QED
      BY <1>0, <1>1, <2>1 DEF KeysTyped, filesVars, historyVars
  <1>5. ASSUME Clean' PROVE CleanOK'
    <2>1. Clean /\ CleanOK
      BY <1>1, <1>5 DEF Clean, CleanInv
    <2>2. CASE x.pc = "prune"
      BY <1>0, <1>1, <1>3, <2>1, <2>2, CalmMoves DEF Calm
    <2>3. CASE x.pc = "pub"
      <3>1. \A u \in Workers \ {w} : worker[u].pc \in {"rest", "up"}
        BY <1>0, <2>1, Alone
      <3>2. x.op # "import"
        BY <1>0, <1>3, <2>1 DEF WorkOK, CleanOK
      <3>3. WorkOK(x)'
        BY <2>3, <3>2 DEF WorkOK, Calm, Replacing
      <3> QED
        BY <1>0, <1>3, <2>3, <3>1, <3>3, OneMoves DEF Calm
    <2> QED
      BY <1>3, <2>2, <2>3
  <1> QED
    BY <1>4, <1>5 DEF CleanInv

\* A parked key is nobody's current key.
LEMMA PruneClean == ASSUME CleanInv, PruneRotatedKey PROVE CleanInv'
  <1> DEFINE w == "server"
  <1>0. w \in Workers /\ KeysTyped /\ worker[w].pc = "prune" /\ Busy(w)
    BY DEF Workers, CleanInv, PruneRotatedKey, Busy
  <1>1. /\ parked' \in {parked, NoKey}
        /\ UNCHANGED <<pub, priv, wroteOn, meta, publishKey, historyVars, tidy, overlapped, runs>>
        /\ Go(w, IF worker[w].key = NoKey THEN "up" ELSE "submit")
    BY DEF PruneRotatedKey
  <1>2. PICK x \in Work : Becomes(w, x) /\ x.pc \in {"up", "submit"}
    <2>1. Go(w, "up") \/ Go(w, "submit")
      BY <1>1
    <2> QED
      BY <1>0, <2>1, Goes DEF WorkSteps
  <1>3. KeysTyped'
    <2>1. worker' \in [Workers -> Work]
      BY <1>0, <1>2, StaysTyped
    <2>2. parked' \in Keys \cup {NoKey}
      BY <1>0, <1>1 DEF KeysTyped
    <2> QED
      BY <1>0, <1>1, <2>1, <2>2 DEF KeysTyped, historyVars
  <1>4. ASSUME Clean' PROVE CleanOK'
    <2>1. Clean /\ CleanOK
      BY <1>1, <1>4 DEF Clean, CleanInv
    <2>2. Settled /\ \A u \in Workers \ {w} : worker[u].pc \in {"rest", "up"}
      BY <1>0, <2>1, Alone DEF Calm
    <2>3. Settled'
      BY <1>1, <2>2 DEF Settled
    <2>4. WorkOK(x)'
      BY <1>2 DEF WorkOK, Calm, Replacing
    <2> QED
      BY <1>0, <1>2, <2>2, <2>3, <2>4, OneMoves
  <1> QED
    BY <1>3, <1>4 DEF CleanInv

\* What the checks of a command lead to.
LEMMA CheckLeads ==
  ASSUME KeysTyped, CommandCheck
  PROVE  \E x \in Work :
           /\ Becomes("command", x) /\ x.op \in {"none", worker["command"].op}
           /\ \/ x.pc \in {"rest", "submit"}
              \/ /\ x.pc = "pub" /\ x.op = "generate" /\ ~(Active /\ pub # NoKey)
                 /\ x.key \in Keys /\ turns[x.key] = 0
              \/ /\ x.pc = "park" /\ x.op = "rotate" /\ Active
                 /\ x.key \in Keys /\ turns[x.key] = 0 /\ x.key # priv
              \/ worker["command"].op \in {"import", "delete"}
  <1> DEFINE w == "command"
             op == worker[w].op
  <1>0. w \in Workers /\ worker \in [Workers -> Work] /\ worker[w] \in Work
    BY DEF Workers, KeysTyped
  <1>1. \/ Becomes(w, AtRest)
        \/ op = "generate" /\ WithFreshKey(w, "pub") /\ ~(Active /\ pub # NoKey)
        \/ op = "rotate" /\ WithFreshKey(w, "park") /\ Active
        \/ op = "publish" /\ worker' = [worker EXCEPT ![w].pc = "submit", ![w].key = pub]
        \/ op = "import" /\ WithFreshKey(w, "priv")
        \/ op = "delete" /\ worker' = [worker EXCEPT ![w].pc = "remove", ![w].row = meta]
    BY DEF CommandCheck, Becomes
  <1>2. CASE Becomes(w, AtRest)
    BY <1>2, Positions DEF AtRest
  <1>3. CASE op = "generate" /\ WithFreshKey(w, "pub") /\ ~(Active /\ pub # NoKey)
    BY <1>0, <1>3, GoesFresh DEF WorkSteps
  <1>4. CASE op = "rotate" /\ WithFreshKey(w, "park") /\ Active
    BY <1>0, <1>4, GoesFresh DEF WorkSteps
  <1>5. CASE op = "publish" /\ worker' = [worker EXCEPT ![w].pc = "submit", ![w].key = pub]
    <2> DEFINE y == [worker[w] EXCEPT !.pc = "submit", !.key = pub]
    <2>1. y \in Work /\ y.pc = "submit" /\ y.op = op
      BY <1>0 DEF Work, WorkSteps, KeysTyped
    <2>2. Becomes(w, y)
      BY <1>0, <1>5 DEF Becomes
    <2> HIDE DEF y
    <2> QED
      BY <2>1, <2>2
  <1>6. CASE op = "import" /\ WithFreshKey(w, "priv")
    BY <1>0, <1>6, GoesFresh DEF WorkSteps
  <1>7. CASE op = "delete" /\ worker' = [worker EXCEPT ![w].pc = "remove", ![w].row = meta]
    <2> DEFINE y == [worker[w] EXCEPT !.pc = "remove", !.row = meta]
    <2>1. y \in Work /\ y.op = op
      BY <1>0 DEF Work, WorkSteps, KeysTyped
    <2>2. Becomes(w, y)
      BY <1>0, <1>7 DEF Becomes
    <2> HIDE DEF y
    <2> QED
      BY <1>7, <2>1, <2>2
  <1> QED
    BY <1>1, <1>2, <1>3, <1>4, <1>5, <1>6, <1>7

LEMMA CheckClean == ASSUME CleanInv, CommandCheck PROVE CleanInv'
  <1> DEFINE w == "command"
             op == worker[w].op
  <1>0. w \in Workers /\ KeysTyped /\ worker[w].pc = "check" /\ Busy(w)
    BY DEF Workers, CleanInv, CommandCheck, Busy
  <1>1. UNCHANGED <<filesVars, historyVars, overlapped, runs>>
        /\ tidy' = (tidy /\ op \notin {"import", "delete"})
    BY DEF CommandCheck
  <1>2. PICK x \in Work : /\ Becomes(w, x) /\ x.op \in {"none", op}
                          /\ \/ x.pc \in {"rest", "submit"} \/ x.pc \in {"pub", "park"}
                             \/ op \in {"import", "delete"}
    BY <1>0, CheckLeads
  <1>3. KeysTyped'
    <2>1. worker' \in [Workers -> Work]
      BY <1>0, <1>2, StaysTyped
    <2>2. tidy' \in BOOLEAN
      BY <1>1
    <2> QED
      BY <1>0, <1>1, <2>1, <2>2 DEF KeysTyped, filesVars, historyVars
  <1>4. ASSUME Clean' PROVE CleanOK'
    <2>0. op \notin {"import", "delete"}
      BY <1>1, <1>4 DEF Clean
    <2>1. Clean /\ CleanOK
      BY <1>1, <1>4 DEF Clean, CleanInv
    <2>2. Settled /\ \A u \in Workers \ {w} : worker[u].pc \in {"rest", "up"}
      BY <1>0, <2>1, Alone DEF Calm
    <2>3. CASE x.pc \in {"rest", "submit"}
      <3>1. x.pc \in Calm \ {"ensure"} /\ x.pc # "record" /\ worker[w].pc \in Calm
        BY <1>0, <2>3 DEF Calm
      <3> QED
        BY <1>0, <1>1, <1>2, <2>1, <3>1, CalmMoves
    <2>4. CASE x.pc \in {"pub", "park"}
      <3>1. WorkOK(x)'
        BY <1>2, <2>0, <2>4 DEF WorkOK, Calm, Replacing
      <3>2. Settled'
        BY <1>1, <2>2 DEF Settled, filesVars
      <3> QED
        BY <1>0, <1>2, <2>2, <3>1, <3>2, OneMoves
    <2> QED
      BY <1>2, <2>0, <2>3, <2>4
  <1> QED
    BY <1>3, <1>4 DEF CleanInv

\* Replacing the key: parking, the public file, the private file.
LEMMA ReplaceClean ==
  ASSUME CleanInv, NEW w \in Workers,
         (w = "command" /\ ParkPrivateKey) \/ WritePublicKey(w) \/ WritePrivateKey(w)
  PROVE  CleanInv'
  <1>0. KeysTyped /\ worker[w].pc \in {"park", "pub", "priv"} /\ Busy(w) /\ worker[w] \in Work
    BY DEF CleanInv, KeysTyped, ParkPrivateKey, WritePublicKey, WritePrivateKey, Busy
  <1>1. /\ UNCHANGED <<meta, publishKey, reports, today, tidy, overlapped, runs>>
        /\ Go(w, "pub") \/ Go(w, "priv") \/ Go(w, "meta")
    BY DEF ParkPrivateKey, WritePublicKey, WritePrivateKey, historyVars
  <1>2. PICK x \in Work : /\ Becomes(w, x) /\ x.pc \in {"pub", "priv", "meta"} /\ Go(w, x.pc)
                          /\ x.op = worker[w].op /\ x.key = worker[w].key
    BY <1>0, <1>1, Goes DEF WorkSteps
  <1>3. KeysTyped'
    <2>1. worker' \in [Workers -> Work]
      BY <1>0, <1>2, StaysTyped
    <2>2. /\ pub' \in Keys \cup {NoKey} /\ priv' \in Keys \cup {NoKey}
          /\ parked' \in Keys \cup {NoKey}
      BY <1>0 DEF KeysTyped, Work, ParkPrivateKey, WritePublicKey, WritePrivateKey
    <2>3. wroteOn' \in [Keys -> 0 .. KeysMaxDay] /\ turns' \in [Keys -> 0 .. 2]
      BY <1>0 DEF KeysTyped, ParkPrivateKey, WritePublicKey, WritePrivateKey, historyVars
    <2> QED
      BY <1>0, <1>1, <2>1, <2>2, <2>3 DEF KeysTyped
  <1>4. ASSUME Clean' PROVE CleanOK'
    <2>1. Clean /\ CleanOK
      BY <1>1, <1>4 DEF Clean, CleanInv
    <2>2. \A u \in Workers \ {w} : worker[u].pc \in {"rest", "up"}
      BY <1>0, <2>1, Alone
    <2>3. WorkOK(worker[w]) /\ x.op # "import"
      BY <1>0, <1>2, <2>1 DEF CleanOK, WorkOK, Replacing
    <2>4. worker'[w].pc = x.pc
      BY <1>0, <1>2, StaysTyped
    <2>5. WorkOK(x)'
      <3>1. CASE w = "command" /\ ParkPrivateKey
        <4>1. x.pc = "pub"
          BY <1>0, <2>4, <3>1 DEF ParkPrivateKey, Go, KeysTyped, Work
        <4> QED
          BY <2>3, <4>1 DEF WorkOK, Calm, Replacing
      <3>2. CASE WritePublicKey(w)
        <4>1. x.pc = "priv" /\ pub' = x.key
          BY <1>0, <1>2, <2>3, <2>4, <3>2 DEF WritePublicKey, Go, KeysTyped, Work
        <4> QED
          BY <2>3, <4>1 DEF WorkOK, Calm, Replacing
      <3>3. CASE WritePrivateKey(w)
        <4>1. x.pc = "meta" /\ priv' = x.key /\ pub' = pub /\ worker[w].pc = "priv"
          BY <1>0, <1>2, <2>3, <2>4, <3>3 DEF WritePrivateKey, Go, KeysTyped, Work
        <4> QED
          BY <1>2, <2>3, <4>1 DEF WorkOK, Calm, Replacing
      <3> QED
        BY <3>1, <3>2, <3>3
    <2> QED
      BY <1>0, <1>2, <2>2, <2>5, OneMoves DEF Calm
  <1> QED
    BY <1>3, <1>4 DEF CleanInv

\* With the row the key is whole.
LEMMA WriteRowClean == ASSUME CleanInv, NEW w \in Workers, WriteRow(w) PROVE CleanInv'
  <1>0. KeysTyped /\ worker[w].pc = "meta" /\ Busy(w) /\ worker[w] \in Work
        /\ worker \in [Workers -> Work]
    BY DEF CleanInv, KeysTyped, WriteRow, Busy
  <1>1. /\ meta' = [key |-> worker[w].key, revoked |-> FALSE]
        /\ UNCHANGED <<pub, priv, parked, wroteOn, publishKey, reports, today, turns>>
        /\ UNCHANGED <<tidy, overlapped, runs>>
        /\ \/ Go(w, "prune") \/ Go(w, "submit")
           \/ Becomes(w, AtRest)
    BY <1>0 DEF WriteRow, historyVars, Go, Becomes
  <1>2. PICK x \in Work : Becomes(w, x) /\ x.pc \in {"prune", "submit", "rest"}
    BY <1>0, <1>1, Goes, Positions DEF WorkSteps
  <1>3. KeysTyped'
    <2>1. worker' \in [Workers -> Work]
      BY <1>0, <1>2, StaysTyped
    <2>2. meta' \in Rows
      BY <1>0, <1>1 DEF Work, Rows
    <2> QED
      BY <1>0, <1>1, <2>1, <2>2 DEF KeysTyped
  <1>4. ASSUME Clean' PROVE CleanOK'
    <2>1. Clean /\ CleanOK
      BY <1>1, <1>4 DEF Clean, CleanInv
    <2>2. \A u \in Workers \ {w} : worker[u].pc \in {"rest", "up"}
      BY <1>0, <2>1, Alone
    <2>3. pub = worker[w].key /\ priv = pub
      BY <1>0, <2>1 DEF CleanOK, WorkOK
    <2>4. Settled'
      BY <1>1, <2>3 DEF Settled
    <2>5. WorkOK(x)'
      BY <1>2 DEF WorkOK, Calm, Replacing
    <2> QED
      BY <1>0, <1>2, <2>2, <2>4, <2>5, OneMoves
  <1> QED
    BY <1>3, <1>4 DEF CleanInv

\* Where a publishing worker goes: it records a row that was one.
LEMMA PublishLeads ==
  ASSUME KeysTyped, NEW w \in Workers, SubmitToKeyserver(w) \/ ReadRow(w) \/ RecordPublish(w)
  PROVE  \E x \in Work : /\ Becomes(w, x) /\ x.pc \in {"rest", "up", "readRow", "record"}
                         /\ x.pc = "record" => x.row = meta /\ meta # NoRow
  <1>0. worker \in [Workers -> Work] /\ worker[w] \in Work /\ meta \in Rows
    BY DEF KeysTyped
  <1>1. CASE Finished(w)
    BY <1>1, EndsWork
  <1>2. CASE Go(w, "readRow")
    BY <1>2, Goes DEF WorkSteps
  <1>3. CASE worker' = [worker EXCEPT ![w].pc = "record", ![w].row = meta] /\ meta # NoRow
    <2> DEFINE y == [worker[w] EXCEPT !.pc = "record", !.row = meta]
    <2>1. y \in Work /\ y.pc = "record" /\ y.row = meta
      BY <1>0 DEF Work, WorkSteps
    <2>2. Becomes(w, y)
      BY <1>0, <1>3 DEF Becomes
    <2> HIDE DEF y
    <2> QED
      BY <1>3, <2>1, <2>2
  <1> QED
    BY <1>1, <1>2, <1>3 DEF SubmitToKeyserver, ReadRow, RecordPublish

\* Publishing reads the row and writes the same row back.
LEMMA PublishClean ==
  ASSUME CleanInv, NEW w \in Workers, SubmitToKeyserver(w) \/ ReadRow(w) \/ RecordPublish(w)
  PROVE  CleanInv'
  <1>0. /\ KeysTyped /\ worker[w].pc \in {"submit", "readRow", "record"} /\ Busy(w)
        /\ worker[w] \in Work /\ worker[w].pc \in Calm
    BY DEF CleanInv, KeysTyped, SubmitToKeyserver, ReadRow, RecordPublish, Busy, Calm
  <1>1. /\ UNCHANGED <<pub, priv, parked, wroteOn, publishKey, reports, today, turns>>
        /\ UNCHANGED <<tidy, overlapped, runs>>
        /\ meta' = meta \/ (worker[w].pc = "record" /\ meta' = worker[w].row)
    BY DEF SubmitToKeyserver, ReadRow, RecordPublish, filesVars, historyVars
  <1>2. PICK x \in Work : /\ Becomes(w, x) /\ x.pc \in {"rest", "up", "readRow", "record"}
                          /\ x.pc = "record" => x.row = meta
    BY <1>0, PublishLeads
  <1>3. KeysTyped'
    <2>1. worker' \in [Workers -> Work]
      BY <1>0, <1>2, StaysTyped
    <2>2. meta' \in Rows
      BY <1>0, <1>1 DEF Work, KeysTyped
    <2> QED
      BY <1>0, <1>1, <2>1, <2>2 DEF KeysTyped
  <1>4. ASSUME Clean' PROVE CleanOK'
    <2>1. Clean /\ CleanOK
      BY <1>1, <1>4 DEF Clean, CleanInv
    <2>2. meta' = meta
      BY <1>1, <2>1 DEF CleanOK, WorkOK
    <2>3. x.pc \in Calm \ {"ensure"}
      BY <1>2 DEF Calm
    <2>4. UNCHANGED filesVars
      BY <1>1, <2>2 DEF filesVars
    <2> QED
      BY <1>0, <1>2, <2>1, <2>3, <2>4, CalmMoves
  <1> QED
    BY <1>3, <1>4 DEF CleanInv

\* A deletion is not tidy.
LEMMA DeleteClean ==
  ASSUME CleanInv, DeleteFiles \/ DisablePublishing \/ Revoke
  PROVE  CleanInv'
  <1> DEFINE w == "command"
  <1>0. /\ w \in Workers /\ KeysTyped /\ worker[w].pc \in {"remove", "save", "revoke"}
        /\ worker[w] \in Work /\ worker \in [Workers -> Work]
    BY DEF Workers, CleanInv, KeysTyped, DeleteFiles, DisablePublishing, Revoke
  <1>1. UNCHANGED <<wroteOn, reports, today, turns, tidy, overlapped, runs>>
    BY DEF DeleteFiles, DisablePublishing, Revoke, historyVars
  <1>2. worker' \in [Workers -> Work]
    <2>1. Go(w, "save") \/ Go(w, "revoke") \/ Finished(w)
      BY DEF DeleteFiles, DisablePublishing, Revoke
    <2>2. PICK x \in Work : Becomes(w, x)
      BY <1>0, <2>1, Goes, EndsWork DEF WorkSteps
    <2> QED
      BY <1>0, <2>2, StaysTyped
  <1>3. /\ pub' \in Keys \cup {NoKey} /\ priv' \in Keys \cup {NoKey}
        /\ parked' \in Keys \cup {NoKey}
    BY <1>0 DEF KeysTyped, DeleteFiles, DisablePublishing, Revoke
  <1>4. meta' \in Rows
    <2>1. worker[w].row \in Rows
      BY <1>0 DEF Work
    <2>2. [worker[w].row EXCEPT !.revoked = TRUE] \in Rows
      BY <2>1 DEF Rows
    <2> QED
      BY <1>0, <2>2 DEF KeysTyped, DeleteFiles, DisablePublishing, Revoke
  <1>5. publishKey' \in BOOLEAN
    BY <1>0 DEF KeysTyped, DeleteFiles, DisablePublishing, Revoke
  <1>6. KeysTyped'
    BY <1>0, <1>1, <1>2, <1>3, <1>4, <1>5 DEF KeysTyped
  <1>7. ~Clean'
    <2>1. ~CleanOK
      BY <1>0 DEF CleanOK, WorkOK, Calm, Replacing
    <2> QED
      BY <1>1, <2>1 DEF CleanInv, Clean
  <1> QED
    BY <1>6, <1>7 DEF CleanInv

\* Where a worker that stops ends.
LEMMA StopLeads ==
  ASSUME NEW w \in Workers, Stops(w)
  PROVE  \E x \in Work : /\ Becomes(w, x) /\ x.pc \in {"rest", "prune"}
                         /\ worker[w].pc \notin Replacing => x.pc = "rest"
  BY Positions DEF Stops, Becomes, Replaces

\* Only an interruption in the middle of a replacement leaves anything behind.
LEMMA StopsClean == ASSUME CleanInv, NEW w \in Workers, Stops(w) PROVE CleanInv'
  <1>0. KeysTyped /\ worker \in [Workers -> Work]
    BY DEF CleanInv, KeysTyped
  <1>1. /\ UNCHANGED <<filesVars, historyVars, overlapped, runs>>
        /\ tidy' = (tidy /\ worker[w].pc \notin Replacing \cup {"remove", "save", "revoke"})
    BY DEF Stops
  <1>2. PICK x \in Work : /\ Becomes(w, x) /\ x.pc \in {"rest", "prune"}
                          /\ worker[w].pc \notin Replacing => x.pc = "rest"
    BY StopLeads
  <1>3. KeysTyped'
    <2>1. worker' \in [Workers -> Work]
      BY <1>0, <1>2, StaysTyped
    <2>2. tidy' \in BOOLEAN
      BY <1>1
    <2> QED
      BY <1>0, <1>1, <2>1, <2>2 DEF KeysTyped, filesVars, historyVars
  <1>4. ASSUME Clean' PROVE CleanOK'
    <2>1. Clean /\ CleanOK /\ worker[w].pc \in Calm /\ x.pc = "rest"
      <3>1. Clean /\ CleanOK
        BY <1>1, <1>4 DEF Clean, CleanInv
      <3>2. worker[w].pc \notin Replacing
        BY <1>1, <1>4 DEF Clean
      <3> QED
        BY <1>2, <3>1, <3>2 DEF CleanOK, WorkOK
    <2>2. CASE Busy(w)
      <3>1. x.pc \in Calm \ {"ensure"}
        BY <2>1 DEF Calm
      <3>2. UNCHANGED filesVars
        BY <1>1
      <3> QED
        BY <1>2, <2>1, <2>2, <3>1, <3>2, CalmMoves
    <2>3. CASE ~Busy(w)
      <3>1. worker'[w].pc = "rest" /\ \A u \in Workers \ {w} : worker'[u] = worker[u]
        BY <1>0, <1>2, <2>1, StaysTyped
      <3>2. OneAtWork'
        BY <2>1, <3>1 DEF CleanOK, OneAtWork, Busy
      <3>3. (\A u \in Workers : worker'[u].pc \in Calm \cup {"park"}) => Settled'
        <4>1. (\A u \in Workers : worker'[u].pc \in Calm \cup {"park"}) =>
                 (\A u \in Workers : worker[u].pc \in Calm \cup {"park"})
          BY <2>1, <3>1
        <4> QED
          BY <1>1, <2>1, <4>1 DEF CleanOK, Settled, filesVars
      <3>4. ASSUME NEW u \in Workers PROVE WorkOK(worker[u])'
        <4>1. CASE u = w
          BY <3>1, <4>1 DEF WorkOK, Calm, Replacing
        <4>2. CASE u # w
          <5>1. WorkOK(worker[u]) /\ worker'[u] = worker[u]
            BY <2>1, <3>1, <4>2 DEF CleanOK
          <5> QED
            BY <1>1, <5>1 DEF WorkOK, filesVars
        <4> QED
          BY <4>1, <4>2
      <3> QED
        BY <3>2, <3>3, <3>4 DEF CleanOK
    <2> QED
      BY <2>2, <2>3
  <1> QED
    BY <1>3, <1>4 DEF CleanInv

\* Reports and days, while the workers stay where they are.
LEMMA SealClean ==
  ASSUME CleanInv, SealReport \/ KeysTime \/ UNCHANGED keysVars
  PROVE  CleanInv'
  <1>0. KeysTyped /\ UNCHANGED <<filesVars, worker, turns, tidy, overlapped, runs>>
    BY DEF CleanInv, SealReport, KeysTime, keysVars, filesVars
  <1>1. reports' \subseteq Keys /\ today' \in 0 .. KeysMaxDay
    BY KeysAssumption DEF CleanInv, KeysTyped, SealReport, KeysTime, keysVars
  <1>2. KeysTyped'
    BY <1>0, <1>1 DEF KeysTyped, filesVars
  <1>3. ASSUME Clean' PROVE CleanOK'
    <2>1. Clean /\ CleanOK
      BY <1>0, <1>3 DEF Clean, CleanInv
    <2>2. OneAtWork' /\ ((\A u \in Workers : worker'[u].pc \in Calm \cup {"park"}) => Settled')
      BY <1>0, <2>1 DEF CleanOK, OneAtWork, Busy, Settled, filesVars
    <2>3. ASSUME NEW u \in Workers PROVE WorkOK(worker[u])'
      <3>1. WorkOK(worker[u])
        BY <2>1 DEF CleanOK
      <3> QED
        BY <1>0, <3>1 DEF WorkOK, filesVars
    <2> QED
      BY <2>2, <2>3 DEF CleanOK
  <1> QED
    BY <1>2, <1>3 DEF CleanInv

LEMMA CleanNextInv == CleanInv /\ [ProjectKeysNext]_keysVars => CleanInv'
  <1> SUFFICES ASSUME CleanInv, [ProjectKeysNext]_keysVars PROVE CleanInv'
    OBVIOUS
  <1>1. CASE ServerStart
    BY <1>1, BeginClean DEF ServerStart, Workers, WorkOps
  <1>2. CASE \E op \in {"generate", "rotate", "publish", "import", "delete"} : Command(op)
    BY <1>2, BeginClean DEF Command, Workers, WorkOps
  <1>3. CASE EnsureSecurityKeypair \/ PruneRotatedKey \/ CommandCheck
    BY <1>3, EnsureClean, PruneClean, CheckClean
  <1>4. CASE ParkPrivateKey
    BY <1>4, ReplaceClean DEF Workers
  <1>5. CASE DeleteFiles \/ DisablePublishing \/ Revoke
    BY <1>5, DeleteClean
  <1>6. CASE \E w \in Workers : \/ WritePublicKey(w) \/ WritePrivateKey(w) \/ WriteRow(w)
                                \/ SubmitToKeyserver(w) \/ ReadRow(w) \/ RecordPublish(w)
                                \/ Stops(w)
    BY <1>6, ReplaceClean, WriteRowClean, PublishClean, StopsClean
  <1>7. CASE SealReport \/ KeysTime \/ UNCHANGED keysVars
    BY <1>7, SealClean
  <1> QED
    BY <1>1, <1>2, <1>3, <1>4, <1>5, <1>6, <1>7 DEF ProjectKeysNext

(***************************************************************************)
(* The reports.  Interruptions and overlapping commands are allowed here:  *)
(* one worker replaces the key, the others publish, prune or check.  A key *)
(* that reports are sealed with, or may be, is the current one in both     *)
(* files, the parked one, or has been rotated out for long enough; and     *)
(* without an active row there is no public key, except in the hands of    *)
(* the worker that is installing it.                                       *)
(***************************************************************************)
StepOK(x) ==
    /\ x.pc \in Calm \cup Replacing
    /\ x.pc = "record" => x.row.key # NoKey /\ ~x.row.revoked
    /\ x.pc \in Replacing \cup {"ensure"} => x.op # "import"
    /\ x.pc \in Replacing => x.key \in Keys /\ turns[x.key] = 0
    /\ x.pc = "park" => Active /\ x.key # priv
    /\ x.pc = "pub" => /\ pub # NoKey => turns[pub] # 0 /\ Active
                       /\ \A k \in reports : turns[k] # 0
    /\ x.pc \in {"priv", "meta"} => pub = x.key
    /\ x.pc = "meta" => priv = pub

SealedOK(k) ==
    /\ turns[k] = 0 => k = pub /\ (priv = pub \/ \E w \in Workers : worker[w].pc = "priv")
    /\ turns[k] = 1 => k = parked \/ AgedOut(k)

AllSealedOK == \A k \in Keys : k \in reports \cup {pub} => SealedOK(k)

OneReplaces == \A u, w \in Workers : Replaces(u) /\ Replaces(w) => u = w

RowOK ==
    /\ meta = NoRow \/ Active
    /\ ~Active /\ (\A w \in Workers : ~Replaces(w)) => pub = NoKey

WholeOK == OneReplaces /\ RowOK /\ AllSealedOK /\ \A w \in Workers : StepOK(worker[w])

WholeInv == spoiled \in BOOLEAN /\ (~spoiled => WholeOK)

\* A position that replaces nothing makes no claim about the files.
LEMMA CalmStepOK ==
  ASSUME NEW x \in Work, StepOK(x), x.pc \notin Replacing
  PROVE  StepOK(x)'
  BY DEF StepOK, Replacing

\* A step of the worker that replaces the key, or begins to, or stops.
LEMMA ReplacerMoves ==
  ASSUME KeysTyped, WholeOK, NEW w \in Workers, NEW x \in Work, Becomes(w, x),
         \A u \in Workers \ {w} : ~Replaces(u),
         StepOK(x)', AllSealedOK', (meta = NoRow \/ Active)',
         ~Active' /\ x.pc \notin Replacing => pub' = NoKey
  PROVE  WholeOK'
  <1>1. worker'[w] = x /\ \A u \in Workers \ {w} : worker'[u] = worker[u]
    BY StaysTyped
  <1>2. OneReplaces'
    BY <1>1 DEF OneReplaces, Replaces
  <1>3. RowOK'
    BY <1>1 DEF RowOK, Replaces
  <1>4. ASSUME NEW u \in Workers PROVE StepOK(worker[u])'
    <2>1. CASE u = w
      BY <1>1, <2>1 DEF StepOK
    <2>2. CASE u # w
      <3>1. PICK y \in Work : y = worker[u] /\ y.pc \notin Replacing /\ StepOK(y)
        BY <2>2 DEF KeysTyped, WholeOK, Replaces
      <3>2. StepOK(y)' /\ worker'[u] = y
        BY <1>1, <2>2, <3>1, CalmStepOK
      <3> QED
        BY <3>2 DEF StepOK
    <2> QED
      BY <2>1, <2>2
  <1> QED
    BY <1>2, <1>3, <1>4 DEF WholeOK

\* A step of a worker that replaces nothing, while another one may.
LEMMA OtherMoves ==
  ASSUME KeysTyped, WholeOK, NEW w \in Workers, NEW x \in Work, Becomes(w, x),
         ~Replaces(w), x.pc \in Calm, StepOK(x)', AllSealedOK',
         UNCHANGED <<pub, priv, reports, turns>>, meta' = meta \/ Active'
  PROVE  WholeOK'
  <1>1. worker'[w] = x /\ \A u \in Workers \ {w} : worker'[u] = worker[u]
    BY StaysTyped
  <1>2. ~Replaces(w)' /\ \A u \in Workers \ {w} : Replaces(u)' = Replaces(u)
    BY <1>1 DEF Replaces, Replacing, Calm
  <1>3. OneReplaces'
    BY <1>2 DEF WholeOK, OneReplaces
  <1>4. (Active => Active') /\ (~Active' => meta' = meta /\ ~Active)
    BY DEF Active
  <1>5. RowOK'
    <2>1. (meta = NoRow \/ Active)'
      BY <1>4 DEF WholeOK, RowOK, Active
    <2>2. ASSUME ~Active', \A u \in Workers : ~Replaces(u)' PROVE pub' = NoKey
      <3>1. ~Active /\ \A u \in Workers : ~Replaces(u)
        BY <1>2, <1>4, <2>2
      <3> QED
        BY <3>1 DEF WholeOK, RowOK
    <2> QED
      BY <2>1, <2>2 DEF RowOK
  <1>6. ASSUME NEW u \in Workers PROVE StepOK(worker[u])'
    <2>1. CASE u = w
      BY <1>1, <2>1 DEF StepOK
    <2>2. CASE u # w
      <3>1. worker'[u] = worker[u] /\ StepOK(worker[u])
        BY <1>1, <2>2 DEF WholeOK
      <3> QED
        BY <1>4, <3>1 DEF StepOK
    <2> QED
      BY <2>1, <2>2
  <1> QED
    BY <1>3, <1>5, <1>6 DEF WholeOK

\* Keys stay as good as they are while the files stay and nobody leaves "priv".
LEMMA SealedStay ==
  ASSUME KeysTyped, AllSealedOK, NEW w \in Workers, NEW x \in Work, Becomes(w, x),
         worker[w].pc # "priv",
         UNCHANGED <<pub, priv, parked, wroteOn, reports, today, turns>>
  PROVE  AllSealedOK'
  <1>1. \A u \in Workers : worker[u].pc = "priv" => worker'[u].pc = "priv"
    BY StaysTyped
  <1>2. ASSUME NEW k \in Keys, SealedOK(k) PROVE SealedOK(k)'
    BY <1>1, <1>2 DEF SealedOK, AgedOut
  <1> QED
    BY <1>2 DEF AllSealedOK

\* A calm worker moves on and the disk stays.
LEMMA CalmWhole ==
  ASSUME KeysTyped, WholeOK, NEW w \in Workers, NEW x \in Work, Becomes(w, x),
         ~Replaces(w), x.pc \in Calm, StepOK(x)',
         UNCHANGED <<pub, priv, parked, wroteOn, reports, today, turns>>, meta' = meta \/ Active'
  PROVE  WholeOK'
  <1>1. worker[w].pc # "priv"
    BY DEF Replaces, Replacing
  <1>2. AllSealedOK'
    BY <1>1, SealedStay DEF WholeOK
  <1> QED
    BY <1>2, OtherMoves

LEMMA WholeInitInv == ProjectKeysInit => WholeInv
  <1> SUFFICES ASSUME ProjectKeysInit PROVE spoiled = FALSE /\ WholeOK
    BY DEF WholeInv
  <1>1. \A w \in Workers : worker[w] = AtRest
    BY DEF ProjectKeysInit
  <1>2. OneReplaces
    BY <1>1, Positions DEF OneReplaces, Replaces, Replacing
  <1>3. RowOK
    BY DEF ProjectKeysInit, RowOK
  <1>4. AllSealedOK
    BY KeysAssumption DEF ProjectKeysInit, AllSealedOK
  <1>5. \A w \in Workers : StepOK(worker[w])
    BY <1>1, Positions DEF StepOK, Calm, Replacing
  <1>6. spoiled = FALSE
    BY DEF ProjectKeysInit
  <1> QED
    BY <1>2, <1>3, <1>4, <1>5, <1>6 DEF WholeOK

LEMMA BeginWhole ==
  ASSUME KeysTyped, WholeInv, NEW w \in Workers, NEW pc \in {"ensure", "check"},
         NEW op \in WorkOps, pc = "ensure" => op = "start", Begin(w, pc, op)
  PROVE  WholeInv'
  <1> DEFINE y == [AtRest EXCEPT !.pc = pc, !.op = op]
  <1>1. y \in Work /\ y.pc = pc /\ y.op = op
    BY DEF AtRest, Work, WorkSteps, Rows, NoRow
  <1>2. Becomes(w, y)
    BY DEF Begin, Becomes
  <1> HIDE DEF y
  <1>3. PICK x \in Work : Becomes(w, x) /\ x.pc = pc /\ x.op = op
    BY <1>1, <1>2
  <1>4. /\ UNCHANGED <<pub, priv, parked, wroteOn, reports, today, turns, meta, spoiled>>
        /\ worker[w].pc = "rest"
    BY DEF Begin, filesVars, historyVars
  <1>5. ~Replaces(w) /\ x.pc \in Calm
    BY <1>3, <1>4 DEF Replaces, Replacing, Calm
  <1>6. StepOK(x)'
    BY <1>3 DEF StepOK, Calm, Replacing
  <1> QED
    BY <1>3, <1>4, <1>5, <1>6, CalmWhole DEF WholeInv

\* Where there is no active key with a public file, no report waits for one.
LEMMA NothingSealed ==
  ASSUME KeysTyped, WholeOK, \A u \in Workers : ~Replaces(u), ~(Active /\ pub # NoKey)
  PROVE  pub = NoKey /\ \A k \in reports : turns[k] # 0
  <1>1. pub = NoKey
    BY DEF WholeOK, RowOK
  <1>2. ASSUME NEW k \in reports PROVE turns[k] # 0
    <2>1. k \in Keys /\ SealedOK(k)
      BY DEF KeysTyped, WholeOK, AllSealedOK
    <2> QED
      BY <1>1, <2>1, KeysAssumption DEF SealedOK
  <1> QED
    BY <1>1, <1>2

LEMMA EnsureWhole == ASSUME KeysTyped, WholeInv, EnsureSecurityKeypair PROVE WholeInv'
  <1> DEFINE w == "server"
  <1>0. /\ w \in Workers /\ worker[w].pc = "ensure" /\ spoiled \in BOOLEAN
        /\ \A u \in Workers \ {w} : u = "command"
    BY DEF Workers, EnsureSecurityKeypair, WholeInv
  <1>1. /\ UNCHANGED <<pub, priv, parked, wroteOn, reports, today, turns, meta>>
        /\ spoiled' = (spoiled \/ (Replaces(w)' /\ Replaces("command")))
    BY DEF EnsureSecurityKeypair, filesVars, historyVars
  <1>2. PICK x \in Work : /\ Becomes(w, x) /\ x.op = worker[w].op
                          /\ \/ x.pc = "prune"
                             \/ /\ x.pc = "pub" /\ ~(Active /\ pub # NoKey)
                                /\ x.key \in Keys /\ turns[x.key] = 0
    <2>1. \/ Go(w, "prune")
          \/ WithFreshKey(w, "pub") /\ ~(Active /\ pub # NoKey)
      BY DEF EnsureSecurityKeypair
    <2> QED
      BY <1>0, <2>1, Goes, GoesFresh DEF WorkSteps
  <1>3. worker'[w] = x
    BY <1>0, <1>2, StaysTyped
  <1>4. ~Replaces(w)
    BY <1>0 DEF Replaces, Replacing
  <1>5. ASSUME ~spoiled' PROVE WholeOK'
    <2>1. WholeOK /\ StepOK(worker[w])
      BY <1>0, <1>1, <1>5 DEF WholeInv, WholeOK
    <2>2. CASE x.pc = "prune"
      <3>1. StepOK(x)' /\ x.pc \in Calm
        BY <2>2 DEF StepOK, Calm, Replacing
      <3> QED
        BY <1>0, <1>1, <1>2, <1>4, <2>1, <3>1, CalmWhole
    <2>3. CASE x.pc = "pub"
      <3>1. \A u \in Workers \ {w} : ~Replaces(u)
        BY <1>0, <1>1, <1>3, <1>5, <2>3 DEF Replaces, Replacing
      <3>2. pub = NoKey /\ \A k \in reports : turns[k] # 0
        BY <1>2, <1>4, <2>1, <2>3, <3>1, NothingSealed
      <3>3. x.op # "import" /\ x.key \in Keys /\ turns[x.key] = 0
        BY <1>0, <1>2, <2>1, <2>3 DEF StepOK
      <3>4. StepOK(x)'
        BY <1>1, <2>3, <3>2, <3>3 DEF StepOK, Calm, Replacing
      <3>5. AllSealedOK'
        BY <1>0, <1>1, <1>2, <2>1, SealedStay DEF WholeOK
      <3>6. (meta = NoRow \/ Active)'
        BY <1>1, <2>1 DEF WholeOK, RowOK, Active
      <3> QED
        BY <1>0, <1>2, <2>1, <2>3, <3>1, <3>4, <3>5, <3>6, ReplacerMoves DEF Replacing
    <2> QED
      BY <1>2, <2>2, <2>3
  <1> QED
    BY <1>0, <1>1, <1>5 DEF WholeInv

LEMMA CheckWhole == ASSUME KeysTyped, WholeInv, CommandCheck PROVE WholeInv'
  <1> DEFINE w == "command"
             op == worker[w].op
  <1>0. /\ w \in Workers /\ worker[w].pc = "check" /\ spoiled \in BOOLEAN
        /\ \A u \in Workers \ {w} : u = "server"
    BY DEF Workers, CommandCheck, WholeInv
  <1>1. /\ UNCHANGED <<pub, priv, parked, wroteOn, reports, today, turns, meta>>
        /\ spoiled' = (\/ spoiled \/ op \in {"import", "delete"}
                       \/ Replaces(w)' /\ Replaces("server"))
    BY DEF CommandCheck, filesVars, historyVars
  <1>2. PICK x \in Work :
           /\ Becomes(w, x)
           /\ \/ x.pc \in {"rest", "submit"}
              \/ /\ x.pc = "pub" /\ x.op = "generate" /\ ~(Active /\ pub # NoKey)
                 /\ x.key \in Keys /\ turns[x.key] = 0
              \/ /\ x.pc = "park" /\ x.op = "rotate" /\ Active
                 /\ x.key \in Keys /\ turns[x.key] = 0 /\ x.key # priv
              \/ op \in {"import", "delete"}
    BY CheckLeads
  <1>3. worker'[w] = x
    BY <1>0, <1>2, StaysTyped
  <1>4. ~Replaces(w)
    BY <1>0 DEF Replaces, Replacing
  <1>5. ASSUME ~spoiled' PROVE WholeOK'
    <2>0. op \notin {"import", "delete"}
      BY <1>1, <1>5
    <2>1. WholeOK
      BY <1>0, <1>1, <1>5 DEF WholeInv
    <2>2. CASE x.pc \in {"rest", "submit"}
      <3>1. StepOK(x)' /\ x.pc \in Calm
        BY <2>2 DEF StepOK, Calm, Replacing
      <3> QED
        BY <1>0, <1>1, <1>2, <1>4, <2>1, <3>1, CalmWhole
    <2>3. CASE x.pc \in {"pub", "park"}
      <3>1. \A u \in Workers \ {w} : ~Replaces(u)
        BY <1>0, <1>1, <1>3, <1>5, <2>3 DEF Replaces, Replacing
      <3>2. StepOK(x)'
        <4>1. CASE x.pc = "pub"
          <5>1. pub = NoKey /\ \A k \in reports : turns[k] # 0
            BY <1>2, <1>4, <2>0, <2>1, <3>1, <4>1, NothingSealed
          <5> QED
            BY <1>1, <1>2, <2>0, <4>1, <5>1 DEF StepOK, Calm, Replacing
        <4>2. CASE x.pc = "park"
          <5>1. Active'
            BY <1>1, <1>2, <2>0, <4>2 DEF Active
          <5> QED
            BY <1>1, <1>2, <2>0, <4>2, <5>1 DEF StepOK, Calm, Replacing
        <4> QED
          BY <2>3, <4>1, <4>2
      <3>3. AllSealedOK'
        BY <1>0, <1>1, <1>2, <2>1, SealedStay DEF WholeOK
      <3>4. (meta = NoRow \/ Active)'
        BY <1>1, <2>1 DEF WholeOK, RowOK, Active
      <3> QED
        BY <1>0, <1>2, <2>1, <2>3, <3>1, <3>2, <3>3, <3>4, ReplacerMoves DEF Replacing
    <2> QED
      BY <1>2, <2>0, <2>2, <2>3
  <1> QED
    BY <1>0, <1>1, <1>5 DEF WholeInv

\* Pruning takes only a parked key that has done its time.
LEMMA PruneWhole == ASSUME KeysTyped, WholeInv, PruneRotatedKey PROVE WholeInv'
  <1> DEFINE w == "server"
  <1>0. w \in Workers /\ worker[w].pc = "prune" /\ ~Replaces(w)
    BY DEF Workers, PruneRotatedKey, Replaces, Replacing
  <1>1. /\ parked' = IF parked # NoKey /\ today > wroteOn[parked] + RotatedGrace THEN NoKey ELSE parked
        /\ UNCHANGED <<pub, priv, wroteOn, meta, reports, today, turns, spoiled>>
        /\ Go(w, IF worker[w].key = NoKey THEN "up" ELSE "submit")
    BY DEF PruneRotatedKey, historyVars
  <1>2. PICK x \in Work : Becomes(w, x) /\ x.pc \in {"up", "submit"}
    <2>1. Go(w, "up") \/ Go(w, "submit")
      BY <1>1
    <2> QED
      BY <1>0, <2>1, Goes DEF WorkSteps
  <1>3. ASSUME WholeOK PROVE WholeOK'
    <2>1. StepOK(x)' /\ x.pc \in Calm
      BY <1>2 DEF StepOK, Calm, Replacing
    <2>2. \A u \in Workers : worker[u].pc = "priv" => worker'[u].pc = "priv"
      BY <1>0, <1>2, StaysTyped
    <2>3. ASSUME NEW k \in Keys, SealedOK(k) PROVE SealedOK(k)'
      <3>1. turns[k] = 1 => k = parked' \/ AgedOut(k)
        BY <1>1, <2>3 DEF SealedOK, AgedOut
      <3> QED
        BY <1>1, <2>2, <2>3, <3>1 DEF SealedOK, AgedOut
    <2>4. AllSealedOK'
      BY <1>1, <1>3, <2>3 DEF WholeOK, AllSealedOK
    <2> QED
      BY <1>0, <1>1, <1>2, <1>3, <2>1, <2>4, OtherMoves
  <1> QED
    BY <1>1, <1>3 DEF WholeInv

\* A row that is written back is one that was there, and no deletion came in between.
LEMMA PublishWhole ==
  ASSUME KeysTyped, WholeInv, NEW w \in Workers,
         SubmitToKeyserver(w) \/ ReadRow(w) \/ RecordPublish(w)
  PROVE  WholeInv'
  <1>0. worker[w].pc \in {"submit", "readRow", "record"} /\ ~Replaces(w) /\ worker[w] \in Work
    BY DEF SubmitToKeyserver, ReadRow, RecordPublish, Replaces, Replacing, KeysTyped
  <1>1. /\ UNCHANGED <<pub, priv, parked, wroteOn, reports, today, turns, spoiled>>
        /\ meta' = meta \/ (worker[w].pc = "record" /\ meta' = worker[w].row)
    BY DEF SubmitToKeyserver, ReadRow, RecordPublish, filesVars, historyVars
  <1>2. PICK x \in Work : /\ Becomes(w, x) /\ x.pc \in {"rest", "up", "readRow", "record"}
                          /\ x.pc = "record" => x.row = meta /\ meta # NoRow
    BY PublishLeads
  <1>3. ASSUME WholeOK PROVE WholeOK'
    <2>1. meta' = meta \/ Active'
      BY <1>0, <1>1, <1>3 DEF WholeOK, StepOK, Active
    <2>2. x.pc = "record" => x.row.key # NoKey /\ ~x.row.revoked
      BY <1>2, <1>3 DEF WholeOK, RowOK, Active
    <2>3. StepOK(x)' /\ x.pc \in Calm
      BY <1>2, <2>2 DEF StepOK, Calm, Replacing
    <2> QED
      BY <1>0, <1>1, <1>2, <1>3, <2>1, <2>3, CalmWhole
  <1> QED
    BY <1>1, <1>3 DEF WholeInv

\* A deletion has spoiled the key from its check on.
LEMMA DeleteWhole ==
  ASSUME KeysTyped, WholeInv, DeleteFiles \/ DisablePublishing \/ Revoke
  PROVE  WholeInv'
  <1>1. worker["command"].pc \in {"remove", "save", "revoke"} /\ spoiled' = spoiled
    BY DEF DeleteFiles, DisablePublishing, Revoke
  <1>2. ~WholeOK
    BY <1>1 DEF WholeOK, StepOK, Calm, Replacing, Workers
  <1> QED
    BY <1>1, <1>2 DEF WholeInv

\* Rotation: every key that was current has turned, and the one in both files is parked.
LEMMA ParkWhole == ASSUME KeysTyped, WholeInv, ParkPrivateKey PROVE WholeInv'
  <1> DEFINE w == "command"
  <1>0. w \in Workers /\ worker[w].pc = "park" /\ Replaces(w) /\ worker[w] \in Work
    BY DEF Workers, KeysTyped, ParkPrivateKey, Replaces, Replacing
  <1>1. /\ parked' = (IF priv = NoKey THEN parked ELSE priv) /\ priv' = NoKey
        /\ turns' = [k \in Keys |-> IF k = priv THEN 1
                                    ELSE IF turns[k] = 1 /\ priv # NoKey THEN 2 ELSE turns[k]]
        /\ UNCHANGED <<pub, wroteOn, meta, reports, today, spoiled>>
        /\ Go(w, "pub")
    BY DEF ParkPrivateKey
  <1>2. PICK x \in Work : /\ Becomes(w, x) /\ x.pc = "pub" /\ x.op = worker[w].op
                          /\ x.key = worker[w].key
    BY <1>0, <1>1, Goes DEF WorkSteps
  <1>3. ASSUME WholeOK PROVE WholeOK'
    <2>1. \A u \in Workers \ {w} : ~Replaces(u)
      BY <1>0, <1>3 DEF WholeOK, OneReplaces
    <2>2. StepOK(worker[w]) /\ \A u \in Workers : worker[u].pc # "priv"
      BY <1>0, <1>3, <2>1 DEF WholeOK, Replaces, Replacing
    <2>3. /\ x.op # "import" /\ x.key \in Keys /\ turns[x.key] = 0 /\ x.key # priv /\ Active
      BY <1>0, <1>2, <2>2 DEF StepOK, Replacing
    <2>4. ASSUME NEW k \in Keys, SealedOK(k) PROVE turns'[k] # 0 /\ SealedOK(k)'
      <3>1. turns[k] = 0 => k = pub /\ priv = pub
        BY <2>2, <2>4 DEF SealedOK
      <3>2. turns'[k] # 0
        BY <1>1, <3>1
      <3>3. turns'[k] = 1 => k = parked' \/ AgedOut(k)
        <4>1. CASE k = priv
          BY <1>1, <4>1, KeysAssumption
        <4>2. CASE k # priv
          <5>1. turns'[k] = 1 => turns[k] = 1 /\ parked' = parked
            BY <1>1, <4>2
          <5> QED
            BY <2>4, <5>1 DEF SealedOK
        <4> QED
          BY <4>1, <4>2
      <3>4. turns'[k] = 1 => k = parked' \/ AgedOut(k)'
        BY <1>1, <3>3 DEF AgedOut
      <3> QED
        BY <3>2, <3>4 DEF SealedOK
    <2>5. AllSealedOK' /\ \A k \in Keys : k \in reports' \cup {pub'} => turns'[k] # 0
      BY <1>1, <1>3, <2>4 DEF WholeOK, AllSealedOK
    <2>6. Active' /\ turns'[x.key] = 0
      BY <1>1, <2>3 DEF Active
    <2>7. pub' \in Keys \cup {NoKey} /\ reports' \subseteq Keys
      BY <1>1 DEF KeysTyped
    <2>8. StepOK(x)'
      BY <1>2, <2>3, <2>5, <2>6, <2>7 DEF StepOK, Calm, Replacing
    <2> QED
      BY <1>0, <1>2, <1>3, <2>1, <2>5, <2>6, <2>8, ReplacerMoves
  <1> QED
    BY <1>1, <1>3 DEF WholeInv

\* No report waits for the key whose public file is replaced.
LEMMA WritePublicWhole ==
  ASSUME KeysTyped, WholeInv, NEW w \in Workers, WritePublicKey(w) PROVE WholeInv'
  <1>0. worker[w].pc = "pub" /\ Replaces(w) /\ worker[w] \in Work
    BY DEF KeysTyped, WritePublicKey, Replaces, Replacing
  <1>1. /\ pub' = worker[w].key
        /\ UNCHANGED <<priv, parked, wroteOn, meta, reports, today, turns, spoiled>>
        /\ Go(w, IF worker[w].op = "import" THEN "meta" ELSE "priv")
    BY DEF WritePublicKey, historyVars
  <1>3. ASSUME WholeOK PROVE WholeOK'
    <2>1. \A u \in Workers \ {w} : ~Replaces(u)
      BY <1>0, <1>3 DEF WholeOK, OneReplaces
    <2>2. StepOK(worker[w])
      BY <1>3 DEF WholeOK
    <2>3. Go(w, "priv")
      BY <1>0, <1>1, <2>2 DEF StepOK, Replacing
    <2>4. PICK x \in Work : /\ Becomes(w, x) /\ x.pc = "priv" /\ x.op = worker[w].op
                            /\ x.key = worker[w].key
      BY <2>3, Goes DEF WorkSteps
    <2>5. /\ x.op # "import" /\ x.key \in Keys /\ turns[x.key] = 0
          /\ \A k \in reports : turns[k] # 0
      BY <1>0, <2>2, <2>4 DEF StepOK, Replacing
    <2>6. StepOK(x)'
      BY <1>1, <2>4, <2>5 DEF StepOK, Calm, Replacing
    <2>7. worker'[w].pc = "priv"
      BY <2>4, StaysTyped
    <2>8. ASSUME NEW k \in Keys, k \in reports' \cup {pub'} PROVE SealedOK(k)'
      <3>1. CASE k = x.key
        BY <1>1, <2>4, <2>5, <2>7, <3>1 DEF SealedOK
      <3>2. CASE k # x.key
        <4>1. k \in reports /\ turns[k] # 0 /\ SealedOK(k)
          BY <1>1, <1>3, <2>4, <2>5, <2>8, <3>2 DEF WholeOK, AllSealedOK
        <4> QED
          BY <1>1, <4>1 DEF SealedOK, AgedOut
      <3> QED
        BY <3>1, <3>2
    <2>9. AllSealedOK' /\ (meta = NoRow \/ Active)'
      BY <1>1, <1>3, <2>8 DEF AllSealedOK, WholeOK, RowOK, Active
    <2> QED
      BY <1>3, <2>1, <2>4, <2>6, <2>9, ReplacerMoves DEF Replacing
  <1> QED
    BY <1>1, <1>3 DEF WholeInv

LEMMA WritePrivateWhole ==
  ASSUME KeysTyped, WholeInv, NEW w \in Workers, WritePrivateKey(w) PROVE WholeInv'
  <1>0. worker[w].pc = "priv" /\ Replaces(w) /\ worker[w] \in Work
    BY DEF KeysTyped, WritePrivateKey, Replaces, Replacing
  <1>1. /\ priv' = worker[w].key /\ wroteOn' = [wroteOn EXCEPT ![worker[w].key] = today]
        /\ UNCHANGED <<pub, parked, meta, reports, today, turns, spoiled>>
        /\ Go(w, IF worker[w].op = "import" THEN "pub" ELSE "meta")
    BY DEF WritePrivateKey, historyVars
  <1>3. ASSUME WholeOK PROVE WholeOK'
    <2>1. \A u \in Workers \ {w} : ~Replaces(u)
      BY <1>0, <1>3 DEF WholeOK, OneReplaces
    <2>2. StepOK(worker[w])
      BY <1>3 DEF WholeOK
    <2>3. Go(w, "meta")
      BY <1>0, <1>1, <2>2 DEF StepOK, Replacing
    <2>4. PICK x \in Work : /\ Becomes(w, x) /\ x.pc = "meta" /\ x.op = worker[w].op
                            /\ x.key = worker[w].key
      BY <2>3, Goes DEF WorkSteps
    <2>5. x.op # "import" /\ x.key \in Keys /\ turns[x.key] = 0 /\ pub = x.key
      BY <1>0, <2>2, <2>4 DEF StepOK, Replacing
    <2>6. StepOK(x)'
      BY <1>1, <2>4, <2>5 DEF StepOK, Calm, Replacing
    <2>7. \A k \in Keys \ {x.key} : wroteOn'[k] = wroteOn[k]
      BY <1>1, <2>4 DEF KeysTyped
    <2>8. ASSUME NEW k \in Keys, SealedOK(k) PROVE SealedOK(k)'
      <3>1. turns[k] = 0 => k = pub' /\ priv' = pub'
        BY <1>1, <2>4, <2>5, <2>8 DEF SealedOK
      <3>2. turns[k] = 1 => k = parked' \/ AgedOut(k)'
        BY <1>1, <2>5, <2>7, <2>8 DEF SealedOK, AgedOut
      <3> QED
        BY <1>1, <3>1, <3>2 DEF SealedOK
    <2>9. AllSealedOK' /\ (meta = NoRow \/ Active)'
      BY <1>1, <1>3, <2>8 DEF AllSealedOK, WholeOK, RowOK, Active
    <2> QED
      BY <1>3, <2>1, <2>4, <2>6, <2>9, ReplacerMoves DEF Replacing
  <1> QED
    BY <1>1, <1>3 DEF WholeInv

LEMMA WriteRowWhole ==
  ASSUME KeysTyped, WholeInv, NEW w \in Workers, WriteRow(w) PROVE WholeInv'
  <1>0. worker[w].pc = "meta" /\ Replaces(w) /\ worker[w] \in Work
        /\ worker \in [Workers -> Work]
    BY DEF KeysTyped, WriteRow, Replaces, Replacing
  <1>1. /\ meta' = [key |-> worker[w].key, revoked |-> FALSE]
        /\ UNCHANGED <<pub, priv, parked, wroteOn, reports, today, turns, spoiled>>
        /\ \/ Go(w, "prune") \/ Go(w, "submit")
           \/ Becomes(w, AtRest)
    BY <1>0 DEF WriteRow, historyVars, Go, Becomes
  <1>2. PICK x \in Work : Becomes(w, x) /\ x.pc \in {"prune", "submit", "rest"}
    BY <1>0, <1>1, Goes, Positions DEF WorkSteps
  <1>3. ASSUME WholeOK PROVE WholeOK'
    <2>1. \A u \in Workers \ {w} : ~Replaces(u)
      BY <1>0, <1>3 DEF WholeOK, OneReplaces
    <2>2. worker[w].key \in Keys
      BY <1>0, <1>3 DEF WholeOK, StepOK, Replacing
    <2>3. Active'
      BY <1>1, <2>2, KeysAssumption DEF Active
    <2>4. StepOK(x)'
      BY <1>2 DEF StepOK, Calm, Replacing
    <2>5. AllSealedOK'
      BY <1>0, <1>1, <1>2, <1>3, SealedStay DEF WholeOK
    <2> QED
      BY <1>2, <1>3, <2>1, <2>3, <2>4, <2>5, ReplacerMoves
  <1> QED
    BY <1>1, <1>3 DEF WholeInv

\* An interruption that loses no private key leaves what there is in place.
LEMMA StopsWhole ==
  ASSUME KeysTyped, WholeInv, NEW w \in Workers, Stops(w) PROVE WholeInv'
  <1>1. /\ UNCHANGED <<pub, priv, parked, wroteOn, reports, today, turns, meta>>
        /\ spoiled' = (spoiled \/ worker[w].pc = "priv" \/ (worker[w].pc = "meta" /\ ~Active))
    BY DEF Stops, filesVars, historyVars
  <1>2. PICK x \in Work : Becomes(w, x) /\ x.pc \in {"rest", "prune"}
    BY StopLeads
  <1>3. StepOK(x)' /\ x.pc \in Calm
    BY <1>2 DEF StepOK, Calm, Replacing
  <1>4. ASSUME ~spoiled' PROVE WholeOK'
    <2>1. WholeOK /\ worker[w].pc # "priv" /\ (worker[w].pc = "meta" => Active)
      BY <1>1, <1>4 DEF WholeInv
    <2>2. CASE ~Replaces(w)
      BY <1>1, <1>2, <1>3, <2>1, <2>2, CalmWhole
    <2>3. CASE Replaces(w)
      <3>1. \A u \in Workers \ {w} : ~Replaces(u)
        BY <2>1, <2>3 DEF WholeOK, OneReplaces
      <3>2. Active \/ pub = NoKey
        BY <2>1, <2>3 DEF WholeOK, StepOK, Replaces, Replacing
      <3>3. (meta = NoRow \/ Active)' /\ (~Active' => pub' = NoKey)
        BY <1>1, <2>1, <3>2 DEF WholeOK, RowOK, Active
      <3>4. AllSealedOK'
        BY <1>1, <1>2, <2>1, SealedStay DEF WholeOK
      <3> QED
        BY <1>2, <1>3, <2>1, <3>1, <3>3, <3>4, ReplacerMoves
    <2> QED
      BY <2>2, <2>3
  <1> QED
    BY <1>1, <1>4 DEF WholeInv

LEMMA SealWhole ==
  ASSUME KeysTyped, WholeInv, SealReport \/ KeysTime \/ UNCHANGED keysVars
  PROVE  WholeInv'
  <1>1. /\ UNCHANGED <<pub, priv, parked, wroteOn, turns, meta, worker, spoiled>>
        /\ reports' = reports \/ (pub # NoKey /\ reports' = reports \cup {pub})
        /\ today' = today \/ today' = today + 1
    BY DEF SealReport, KeysTime, keysVars, filesVars
  <1>2. ASSUME WholeOK PROVE WholeOK'
    <2>1. OneReplaces' /\ RowOK'
      BY <1>1, <1>2 DEF WholeOK, OneReplaces, RowOK, Active, Replaces
    <2>2. ASSUME NEW k \in Keys, SealedOK(k) PROVE SealedOK(k)'
      <3>1. today \in Nat /\ wroteOn[k] \in Nat
        BY DEF KeysTyped
      <3>2. AgedOut(k) => AgedOut(k)'
        BY <1>1, <3>1, KeysAssumption DEF AgedOut
      <3> QED
        BY <1>1, <2>2, <3>2 DEF SealedOK
    <2>3. AllSealedOK'
      BY <1>1, <1>2, <2>2 DEF WholeOK, AllSealedOK
    <2>4. ASSUME NEW u \in Workers PROVE StepOK(worker[u])'
      <3>1. StepOK(worker[u])
        BY <1>2 DEF WholeOK
      <3> QED
        BY <1>1, <3>1 DEF StepOK, Active
    <2> QED
      BY <2>1, <2>3, <2>4 DEF WholeOK
  <1> QED
    BY <1>1, <1>2 DEF WholeInv

LEMMA WholeNextInv == KeysTyped /\ WholeInv /\ [ProjectKeysNext]_keysVars => WholeInv'
  <1> SUFFICES ASSUME KeysTyped, WholeInv, [ProjectKeysNext]_keysVars PROVE WholeInv'
    OBVIOUS
  <1>1. CASE ServerStart
    BY <1>1, BeginWhole DEF ServerStart, Workers, WorkOps
  <1>2. CASE \E op \in {"generate", "rotate", "publish", "import", "delete"} : Command(op)
    BY <1>2, BeginWhole DEF Command, Workers, WorkOps
  <1>3. CASE EnsureSecurityKeypair \/ PruneRotatedKey \/ CommandCheck \/ ParkPrivateKey
    BY <1>3, EnsureWhole, PruneWhole, CheckWhole, ParkWhole
  <1>4. CASE DeleteFiles \/ DisablePublishing \/ Revoke
    BY <1>4, DeleteWhole
  <1>5. CASE \E w \in Workers : \/ WritePublicKey(w) \/ WritePrivateKey(w) \/ WriteRow(w)
                                \/ SubmitToKeyserver(w) \/ ReadRow(w) \/ RecordPublish(w)
                                \/ Stops(w)
    BY <1>5, WritePublicWhole, WritePrivateWhole, WriteRowWhole, PublishWhole, StopsWhole
  <1>6. CASE SealReport \/ KeysTime \/ UNCHANGED keysVars
    BY <1>6, SealWhole
  <1> QED
    BY <1>1, <1>2, <1>3, <1>4, <1>5, <1>6 DEF ProjectKeysNext

\* KeysUsable, for any number of keys, days and commands.  A report stays readable across
\* restarts, publishing, pruning and one rotation, wherever they are interrupted and
\* whatever runs at the same time, as long as no key was imported or deleted, no two
\* workers replaced it at once, nothing stopped between the two files of a new key, and
\* the first key got its row.  The row names the key in the files when nobody is at work,
\* after commands that were neither interrupted nor overlapping.
THEOREM KeysStayUsable == ProjectKeysSpec => []KeysUsable
  <1>1. CleanInv /\ WholeInv => KeysUsable
    <2> SUFFICES ASSUME CleanInv, WholeInv PROVE KeysUsable
      OBVIOUS
    <2>1. ProjectKeysTypeOK
      BY DEF CleanInv, WholeInv, KeysTyped, ProjectKeysTypeOK, Work, WorkSteps, WorkOps
    <2>2. ReportsReadable
      <3> SUFFICES ASSUME ~spoiled, NEW k \in reports
                   PROVE  \/ Readable(k) \/ turns[k] = 2 \/ (turns[k] = 1 /\ AgedOut(k))
                          \/ \E w \in Workers : worker[w].pc = "priv" /\ worker[w].key = k
        BY DEF ReportsReadable
      <3>1. WholeOK /\ k \in Keys /\ turns[k] \in 0 .. 2
        BY DEF CleanInv, WholeInv, KeysTyped
      <3>2. SealedOK(k)
        BY <3>1 DEF WholeOK, AllSealedOK
      <3>3. CASE turns[k] = 0 /\ priv # pub
        <4>1. PICK w \in Workers : worker[w].pc = "priv" /\ k = pub
          BY <3>2, <3>3 DEF SealedOK
        <4>2. worker[w].key = k
          BY <3>1, <4>1 DEF WholeOK, StepOK
        <4> QED
          BY <4>1, <4>2
      <3> QED
        BY <3>1, <3>2, <3>3 DEF SealedOK, Readable
    <2>3. RowNamesKey
      <3> SUFFICES ASSUME Clean, \A w \in Workers : ~Busy(w) PROVE meta.key = pub /\ priv = pub
        BY DEF RowNamesKey, Clean
      <3>1. \A w \in Workers : worker[w].pc \in Calm \cup {"park"}
        BY DEF Busy, Calm
      <3> QED
        BY <3>1 DEF CleanInv, CleanOK, Settled
    <2> QED
      BY <2>1, <2>2, <2>3 DEF KeysUsable
  <1>2. CleanInv => KeysTyped
    BY DEF CleanInv
  <1> QED
    BY <1>1, <1>2, CleanInitInv, CleanNextInv, WholeInitInv, WholeNextInv, PTL DEF ProjectKeysSpec
=============================================================================
