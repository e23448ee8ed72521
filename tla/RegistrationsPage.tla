--------------------------- MODULE RegistrationsPage ---------------------------
(***************************************************************************)
(* The participants of an Event in the console: the list with the rejected *)
(* marks, the card of a registration, the on-site form and the Excel       *)
(* import (AdminParticipants.tsx, AdminExcel.tsx,                          *)
(* AdminRejectedAttendance.tsx), before what the server does for them.     *)
(*                                                                         *)
(* The sub-pages replace each other; whatever is on the screen was mounted *)
(* after so many calls (sub.mount); a reply for an earlier mount changes    *)
(* only what the list's component keeps.                                   *)
(***************************************************************************)
EXTENDS AdminCalls, FiniteSets

CONSTANTS
  Regs, InitialRegs,   \* registrations of the Event, and the active ones
  Files, Doubtful,     \* workbooks, and those with a possible match
  Cases                \* rejected marks in the queue

ASSUME RegBasics == InitialRegs \subseteq Regs

VARIABLES
  regDb,    \* server: registrations, tickets, receipts of forms, import jobs, cases
  regView   \* page: the list, which sub-page is open, and the mounted one's state

regVars == <<regDb, regView>>

RegPanels == {"registrations", "registration", "onsite", "excel", "rejected"}
RegStates == {"ABSENT", "ACTIVE", "ANNULLED"}
Filters == {"ALL", "ACTIVE", "ANNULLED"}
Sub(m, form) == [mount |-> m, form |-> form, sent |-> 0, busy |-> FALSE, file |-> Null,
                 preview |-> Null, decided |-> Null, cases |-> {}]

RegOps ==
  {"registrations", "registration", "formFields", "updateRegistration", "annulRegistration",
   "resendTicket", "sendTickets", "onsiteRegistration", "previewExcel", "commitExcel",
   "cases", "resolveCase"}

RegTypeOK ==
  /\ regDb.state \in [Regs -> RegStates]
  /\ regDb.data \in [Regs -> Regs]
  /\ \A t \in regDb.tickets : t.reg \in Regs
  /\ \A t \in regDb.receipts : t.reg \in Regs
  /\ \A j \in regDb.jobs : j.file \in Files /\ j.done \in BOOLEAN
  /\ regDb.cases \subseteq Cases
  /\ regView.rows \subseteq [id: Regs, state: RegStates]
  /\ regView.filter \in Filters
  /\ regView.selected = Null \/ regView.selected \in [id: Regs, state: RegStates]
  /\ regView.onsite \in BOOLEAN /\ regView.excel \in BOOLEAN
  /\ regView.sub.file \in Files \cup {Null}
  /\ regView.sub.cases \subseteq Cases

Row(r) == [id |-> r, state |-> regDb.state[r]]
Listed(f) == {Row(r) : r \in {q \in Regs : IF f = "ALL" THEN regDb.state[q] # "ABSENT"
                                                        ELSE regDb.state[q] = f}}

\* What is rendered: a selected registration covers the other sub-pages.
Screen(v) == CASE v.selected # Null -> "card"
               [] v.selected = Null /\ v.onsite -> "onsite"
               [] v.selected = Null /\ ~v.onsite /\ v.excel -> "excel"
               [] OTHER -> "list"
OnScreen(s) == Screen(regView) = s

\* Mutant: the form of the card does not start from the registration.
RenderEmpty(v) ==
  IF Screen(v) = Screen(regView) THEN v ELSE [v EXCEPT !.sub = Sub(Len(calls) + 1, Null)]

\* The component of another screen is mounted anew; the same one stays.
Render(v) ==
  IF Screen(v) = Screen(regView) THEN v
  ELSE [v EXCEPT !.sub = Sub(Len(calls) + 1, IF v.selected = Null THEN Null ELSE v.selected.id)]
Mine(i) == calls[i].arg.mount = regView.sub.mount
Still(i, v, busyNow) == IF Mine(i) THEN [v EXCEPT !.sub.busy = busyNow] ELSE v

RegStart ==
  /\ regDb = [state |-> [r \in Regs |-> IF r \in InitialRegs THEN "ACTIVE" ELSE "ABSENT"],
              data |-> [r \in Regs |-> r], tickets |-> {}, receipts |-> {}, jobs |-> {},
              cases |-> Cases]
  /\ regView = [rows |-> {[id |-> r, state |-> "ACTIVE"] : r \in InitialRegs},
                filter |-> "ALL", selected |-> Null, onsite |-> FALSE, excel |-> FALSE,
                sub |-> [Sub(1, Null) EXCEPT !.cases = Cases]]
RegInit == CallsInit /\ RegStart /\ Mounted(<<>>)

(***************************************************************************)
(* The list: an effect loads it when the filter or the page changes, and   *)
(* every return to it does; only the filter's button looks at busy.        *)
(***************************************************************************)
LoadList(f) == Ask("registrations", f) /\ busy' = TRUE /\ UNCHANGED notice

ApplyFilter(f) ==
  /\ Uses("registrations") /\ OnScreen("list") /\ ~busy /\ f # regView.filter
  /\ LoadList(f)
  /\ regView' = [regView EXCEPT !.filter = f]
  /\ UNCHANGED regDb

TurnPage ==
  /\ Uses("registrations") /\ OnScreen("list")
  /\ LoadList(regView.filter)
  /\ UNCHANGED regVars

ShowList(i) ==
  /\ Answered(i, "registrations")
  /\ regView' = [regView EXCEPT !.rows = calls[i].data]
  /\ busy' = FALSE
  /\ Take(i)
  /\ UNCHANGED <<notice, regDb>>

OpenRegistration(r) ==
  /\ Uses("registration") /\ OnScreen("list") /\ ~busy
  /\ \E row \in regView.rows : row.id = r
  /\ Ask("registration", [reg |-> r, mount |-> 0])
  /\ busy' = TRUE
  /\ UNCHANGED <<notice, regVars>>

\* setSelected, by the list or by a card, mounted or not.
ShowRegistration(i) ==
  /\ Answered(i, "registration") \/ Answered(i, "updateRegistration")
  /\ regView' = Still(i, Render([regView EXCEPT !.selected = calls[i].data]), FALSE)
  /\ busy' = (busy /\ calls[i].arg.mount # 0)
  /\ Take(i)
  /\ UNCHANGED <<notice, regDb>>

SendImportedTickets ==
  /\ Uses("registration") /\ OnScreen("list") /\ ~busy
  /\ Ask("sendTickets", Null)
  /\ busy' = TRUE
  /\ UNCHANGED <<notice, regVars>>

ListHears(i) ==
  /\ \/ Answered(i, "sendTickets")
     \/ \E op \in {"registrations", "sendTickets", "formFields"} : Failed(i, op)
     \/ Failed(i, "registration") /\ calls[i].arg.mount = 0
  /\ busy' = FALSE /\ notice' = IF calls[i].ok THEN "queued" ELSE "error"
  /\ Take(i)
  /\ UNCHANGED regVars

\* Every sub-page's "back": no reply is waited for, and the list is loaded.
BackToList ==
  /\ ~OnScreen("list")
  /\ regView' = Render(IF OnScreen("card") THEN [regView EXCEPT !.selected = Null]
                       ELSE [regView EXCEPT !.onsite = FALSE, !.excel = FALSE])
  /\ IF OnScreen("excel") THEN UNCHANGED <<shell>> ELSE LoadList(regView.filter)
  /\ UNCHANGED regDb

(***************************************************************************)
(* The card: the form is uncontrolled, so it keeps the values of the       *)
(* registration it was mounted with when a late reply selects another one. *)
(***************************************************************************)
CardCall(op, more) ==
  /\ OnScreen("card") /\ ~regView.sub.busy /\ regView.selected.state = "ACTIVE"
  /\ Ask(op, [reg |-> regView.selected.id, mount |-> regView.sub.mount, more |-> more])
  /\ regView' = [regView EXCEPT !.sub.busy = TRUE]
  /\ UNCHANGED <<busy, notice, regDb>>

SaveRegistration == CardCall("updateRegistration", regView.sub.form)
AnnulRegistration == CardCall("annulRegistration", Null)

\* Mutant: every click has a request id of its own.
ResendIdPerClick(sub) == [mount |-> sub.mount, nr |-> Len(calls)]

\* resendRequestId: one for all attempts until one of them succeeds.
ResendId(sub) == [mount |-> sub.mount, nr |-> sub.sent]
ResendTicket == CardCall("resendTicket", ResendId(regView.sub))

Annulled(i) ==
  /\ Answered(i, "annulRegistration")
  /\ TakeAndAsk(i, "registration", calls[i].arg)
  /\ UNCHANGED <<busy, notice, regVars>>

SubFails(i) ==
  /\ \/ \E op \in {"updateRegistration", "annulRegistration", "resendTicket",
                   "onsiteRegistration", "previewExcel", "commitExcel"} : Failed(i, op)
     \/ Failed(i, "registration") /\ calls[i].arg.mount # 0
  /\ regView' = Still(i, regView, FALSE)
  /\ Take(i)
  /\ UNCHANGED <<busy, notice, regDb>>

\* The request is reported as done; the next one gets another id.
SubSent(i) ==
  /\ Answered(i, "resendTicket") \/ Answered(i, "onsiteRegistration")
  /\ regView' = IF Mine(i) THEN [regView EXCEPT !.sub.sent = @ + 1, !.sub.busy = FALSE]
                           ELSE regView
  /\ Take(i)
  /\ UNCHANGED <<busy, notice, regDb>>

(***************************************************************************)
(* The on-site form and the import.                                        *)
(***************************************************************************)
OpenOnsite ==
  /\ Uses("onsite") /\ OnScreen("list")
  /\ Ask("formFields", Null)
  /\ busy' = TRUE
  /\ UNCHANGED <<notice, regVars>>

ShowOnsite(i) ==
  /\ Answered(i, "formFields")
  /\ regView' = Render([regView EXCEPT !.onsite = TRUE])
  /\ busy' = FALSE
  /\ Take(i)
  /\ UNCHANGED <<notice, regDb>>

SubmitOnsite ==
  /\ OnScreen("onsite") /\ ~regView.sub.busy
  /\ Ask("onsiteRegistration", [mount |-> regView.sub.mount, more |-> ResendId(regView.sub)])
  /\ regView' = [regView EXCEPT !.sub.busy = TRUE]
  /\ UNCHANGED <<busy, notice, regDb>>

OpenExcel ==
  /\ Uses("excel") /\ OnScreen("list")
  /\ regView' = Render([regView EXCEPT !.excel = TRUE])
  /\ UNCHANGED <<shell, regDb>>

\* The file input is never disabled.
ChooseFile(f) ==
  /\ OnScreen("excel")
  /\ regView' = [regView EXCEPT !.sub.file = f, !.sub.preview = Null]
  /\ UNCHANGED <<shell, regDb>>

PreviewFile ==
  /\ OnScreen("excel") /\ ~regView.sub.busy /\ regView.sub.file # Null
  /\ Ask("previewExcel", [mount |-> regView.sub.mount, file |-> regView.sub.file])
  /\ regView' = [regView EXCEPT !.sub.busy = TRUE]
  /\ UNCHANGED <<busy, notice, regDb>>

\* Mutant: a new preview keeps the decisions about the one before.
ShowImportPreviewOver(i) ==
  /\ Answered(i, "previewExcel")
  /\ regView' = IF Mine(i) THEN [regView EXCEPT !.sub.preview = calls[i].data, !.sub.busy = FALSE]
                           ELSE regView
  /\ Take(i)
  /\ UNCHANGED <<busy, notice, regDb>>

ShowImportPreview(i) ==
  /\ Answered(i, "previewExcel")
  /\ regView' = IF Mine(i) THEN [regView EXCEPT !.sub.preview = calls[i].data,
                                                !.sub.decided = Null, !.sub.busy = FALSE]
                           ELSE regView
  /\ Take(i)
  /\ UNCHANGED <<busy, notice, regDb>>

Decide ==
  /\ OnScreen("excel") /\ regView.sub.preview # Null
  /\ regView' = [regView EXCEPT !.sub.decided = regView.sub.preview.id]
  /\ UNCHANGED <<shell, regDb>>

CommitImport ==
  LET s == regView.sub IN
  /\ OnScreen("excel") /\ ~s.busy /\ s.preview # Null
  /\ s.preview.file \in Doubtful => s.decided # Null
  /\ Ask("commitExcel", [mount |-> s.mount, job |-> s.preview.id, decided |-> s.decided,
                         filter |-> regView.filter])
  /\ regView' = [regView EXCEPT !.sub.busy = TRUE]
  /\ UNCHANGED <<busy, notice, regDb>>

\* The parent loads its list with the filter it had at the click.
ShowImported(i) ==
  /\ Answered(i, "commitExcel")
  /\ regView' = IF Mine(i) THEN [regView EXCEPT !.sub.preview = Null, !.sub.file = Null,
                                                !.sub.busy = FALSE]
                           ELSE regView
  /\ TakeAndAsk(i, "registrations", calls[i].arg.filter)
  /\ busy' = TRUE
  /\ UNCHANGED <<notice, regDb>>

(***************************************************************************)
(* The queue of rejected marks, beside the list.                           *)
(***************************************************************************)
LoadCases ==
  /\ Uses("rejected") /\ OnScreen("list")
  /\ Ask("cases", [mount |-> regView.sub.mount, resolved |-> FALSE])
  /\ UNCHANGED <<busy, notice, regVars>>

ResolveCase(c) ==
  /\ Uses("rejected") /\ OnScreen("list") /\ ~regView.sub.busy /\ c \in regView.sub.cases
  /\ Ask("resolveCase", [mount |-> regView.sub.mount, case |-> c, resolved |-> TRUE])
  /\ regView' = [regView EXCEPT !.sub.busy = TRUE]
  /\ UNCHANGED <<busy, notice, regDb>>

\* Resolved: the queue is loaded before another case can be.
CaseResolved(i) ==
  /\ Answered(i, "resolveCase")
  /\ TakeAndAsk(i, "cases", calls[i].arg)
  /\ UNCHANGED <<busy, notice, regVars>>

ShowCases(i) ==
  /\ Answered(i, "cases") \/ Failed(i, "cases") \/ Failed(i, "resolveCase")
  /\ regView' = IF ~Mine(i) THEN regView
                ELSE [regView EXCEPT !.sub.cases = IF calls[i].ok THEN calls[i].data ELSE @,
                                     !.sub.busy = @ /\ ~calls[i].arg.resolved]
  /\ Take(i)
  /\ UNCHANGED <<busy, notice, regDb>>

(***************************************************************************)
(* The server.                                                             *)
(***************************************************************************)
ServeReads(i) ==
  /\ \/ Waits(i, "registrations") /\ Done(i, Listed(calls[i].arg))
     \/ Waits(i, "registration") /\ Done(i, Row(calls[i].arg.reg))
     \/ Waits(i, "formFields") /\ Done(i, Null)
     \/ Waits(i, "cases") /\ Done(i, regDb.cases)
  /\ UNCHANGED <<page, faults, busy, notice, regVars>>

Changes(i, db, data) == regDb' = db /\ Done(i, data)
Refuses(i) == UNCHANGED regDb /\ Refused(i)

\* update_registration, annul and resend, under the lock of the registration.
ServeCard(i) ==
  LET r == calls[i].arg.reg
      live == regDb.state[r] = "ACTIVE"
  IN /\ \E op \in {"updateRegistration", "annulRegistration", "resendTicket"} : Waits(i, op)
     /\ \/ ~live /\ Refuses(i)
        \/ /\ live /\ calls[i].op = "updateRegistration"
           /\ Changes(i, [regDb EXCEPT !.data[r] = calls[i].arg.more], Row(r))
        \/ /\ live /\ calls[i].op = "annulRegistration"
           /\ Changes(i, [regDb EXCEPT !.state[r] = "ANNULLED"], Null)
        \/ live /\ calls[i].op = "resendTicket" /\ Changes(i, regDb, Null)
        \/ /\ live /\ calls[i].op = "resendTicket"
           /\ \A t \in regDb.tickets : t.reg = r => t.ask # calls[i].arg.more
           /\ Changes(i, [regDb EXCEPT !.tickets = @ \cup {[reg |-> r, ask |-> calls[i].arg.more]}],
                      Null)
     /\ UNCHANGED <<page, faults, busy, notice, regView>>

\* send_tickets takes a request id of its own at every click.
ServeTickets(i) ==
  /\ Waits(i, "sendTickets")
  /\ Changes(i, [regDb EXCEPT !.tickets = @ \cup
                   {[reg |-> r, ask |-> [mount |-> 0, nr |-> i]] :
                      r \in {q \in Regs : regDb.state[q] = "ACTIVE"}}], Null)
  /\ UNCHANGED <<page, faults, busy, notice, regView>>

\* onsite: a repeated request id answers with what it made the first time; for
\* a Person who is registered already the registration takes the new values.
ServeOnsite(i) ==
  LET ask == calls[i].arg.more
      known == \E t \in regDb.receipts : t.ask = ask
  IN /\ Waits(i, "onsiteRegistration")
     /\ \/ Refuses(i)
        \/ known /\ Changes(i, regDb, Null)
        \/ /\ ~known
           /\ \E r \in Regs :
                /\ regDb.state[r] # "ANNULLED"
                /\ Changes(i, [regDb EXCEPT !.state[r] = "ACTIVE", !.data[r] = r,
                                            !.receipts = @ \cup {[ask |-> ask, reg |-> r]}], Null)
     /\ UNCHANGED <<page, faults, busy, notice, regView>>

\* A commit may also be refused for the rows: no seats, or a new match.
ServeImport(i) ==
  /\ \/ /\ Waits(i, "previewExcel")
        /\ LET job == [id |-> i, file |-> calls[i].arg.file, done |-> FALSE, by |-> Null]
           IN Changes(i, [regDb EXCEPT !.jobs = @ \cup {job}], job)
     \/ /\ Waits(i, "commitExcel")
        /\ \E job \in regDb.jobs :
             /\ job.id = calls[i].arg.job
             /\ \/ /\ ~job.done
                   /\ Changes(i, [regDb EXCEPT !.jobs = (@ \ {job}) \cup
                                    {[job EXCEPT !.done = TRUE, !.by = calls[i].arg.decided]}], Null)
                \/ Refuses(i)
  /\ UNCHANGED <<page, faults, busy, notice, regView>>

ServeCase(i) ==
  /\ Waits(i, "resolveCase")
  /\ \/ /\ calls[i].arg.case \in regDb.cases
        /\ Changes(i, [regDb EXCEPT !.cases = @ \ {calls[i].arg.case}], Null)
     \/ calls[i].arg.case \notin regDb.cases /\ Refuses(i)
  /\ UNCHANGED <<page, faults, busy, notice, regView>>

\* Another administrator annuls, or resolves a case.
OtherRegistrar ==
  /\ MayClick
  /\ \/ \E r \in Regs : /\ Uses("registration") /\ regDb.state[r] # "ABSENT"
                        /\ calls' = Append(calls, OthersCall("annulRegistration", [reg |-> r]))
     \/ \E c \in Cases : /\ Uses("rejected")
                         /\ calls' = Append(calls, OthersCall("resolveCase", [case |-> c]))
  /\ UNCHANGED <<page, faults, busy, notice, regVars>>

RegClicks ==
  \/ TurnPage \/ SendImportedTickets \/ BackToList \/ SaveRegistration \/ AnnulRegistration
  \/ ResendTicket \/ OpenOnsite \/ SubmitOnsite \/ OpenExcel \/ PreviewFile \/ Decide
  \/ CommitImport \/ LoadCases
  \/ \E f \in Filters : ApplyFilter(f)
  \/ \E r \in Regs : OpenRegistration(r)
  \/ \E f \in Files : ChooseFile(f)
  \/ \E c \in Cases : ResolveCase(c)

RegServes(i) ==
  ServeReads(i) \/ ServeCard(i) \/ ServeTickets(i) \/ ServeOnsite(i) \/ ServeImport(i)
  \/ ServeCase(i)

RegReceives(i) ==
  \/ ShowList(i) \/ ShowRegistration(i) \/ ListHears(i) \/ Annulled(i) \/ SubFails(i)
  \/ SubSent(i) \/ ShowOnsite(i) \/ ShowImportPreview(i) \/ ShowImported(i) \/ CaseResolved(i)
  \/ ShowCases(i)

RegNext ==
  \/ RegClicks \/ OtherRegistrar
  \/ \E i \in DOMAIN calls :
       \/ RegServes(i) \/ RegReceives(i)
       \/ LoseCall(i) /\ UNCHANGED regVars
(***************************************************************************)
(* Properties.                                                             *)
(***************************************************************************)
Sent(set, r) == {t \in set : t.reg = r /\ t.ask.mount = regView.sub.mount}

\* Pressing "resend" or the form's button again after a lost answer repeats
\* the same request: a mounted card leaves at most one ticket, and a mounted
\* form one registration, for every answer it has seen.
OneRetried ==
  /\ \A r \in Regs : Cardinality(Sent(regDb.tickets, r)) <= regView.sub.sent + 1
  /\ Cardinality(UNION {Sent(regDb.receipts, r) : r \in Regs}) <= regView.sub.sent + 1

\* A workbook with possible matches is imported with the decisions that were
\* made about the import job of that workbook, never about an earlier one.
ImportAsDecided == \A j \in regDb.jobs : j.done /\ j.file \in Doubtful => j.by = j.id
=============================================================================
