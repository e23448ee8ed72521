# A formal model of the Event Registration System

The Event Registration System of the college (КАИТ №20) registers people for
Events, scans their tickets at the door, mails them, and turns attendance into
scores. This directory holds TLA+ modules about the parts of it in which several
actors meet: server transactions at MySQL's REPEATABLE READ, the offline Scanner,
the mail worker, and the administrators at the pages of their console. TLC checks
each of them on small instances; TLAPS proves nearly all the safety of it for every value
of the constants.

Paths below are relative to the repository; `event_api/` stands for
`backend/src/event_api/`.

## 1. Inventory

### Components

| Component | Code | State it keeps | Operations | Module |
|---|---|---|---|---|
| Attendance | `event_api/routers/attendance.py`, `annul` in `participants.py`, dates in `events.py` | `attendance_events`, `registrations.first_attended_at` and `status`, `events.offline_data_version` | sync, bundle, annul, edit of dates | `AttendanceLedger`, `AttendanceServer` |
| Scanner | `apps/scanner/src/` (`App.tsx`, `scanner-service.ts`, `offline-database.ts`, `api-client.ts`) | IndexedDB (queue, bundle, owner), the tab (page, CSRF token, operator), the session cookie | record, flush, reconnect, open an Event, log in and out, hand over | `ScannerSync` |
| Rejected marks | `event_api/routers/attendance_handoff.py` | `scanner_rejected_attendance` | hand over, resolve, list | `ScannerSync` |
| Mail | `event_api/email_worker.py`, and each handler that queues or cancels | `email_deliveries` and the rows a message is about | queue, cancel, claim, check the intent, send, record, recover | `EmailDelivery` |
| Registration | `registration_service.py`, `routers/registrations.py`, commit in `routers/excel.py`, `person_merge.py`, `streams.py` | `persons`, `registrations`, `registration_requests`, `import_jobs`, capacities | public form, on-site form, import, annul, merge, edit capacity | `Registration` |
| Excel preview, export | `routers/excel.py` | `import_jobs`, `import_job_files` | preview, decide, commit, write a workbook | `RegistrationsPage`, the commit also in `Registration` |
| Streams | `routers/streams.py`, `streams.py` | `event_streams` | create, edit, order, activate, choose | `EventsPage`, capacity in `Registration` |
| Participants | `routers/participants.py`, `roster_matching.py`, `person_roster.py` | `persons`, `student_roster_members` | edit contacts, merge, dismiss a duplicate, metadata | `PeoplePage`, `RegistrationsPage`; merging also in `Registration` |
| Roster import | `routers/roster.py` | `persons`, `student_roster_members`, `student_profiles` | preview, import | `PeoplePage` (the import as a whole) |
| Events | `routers/events.py`, `event_status.py`, `media.py`, `form_config.py` | `events`, form fields, cover files | create, edit, transitions, cover, archive, purge | `EventsPage`; dates and purge also where marks and mail meet them |
| Auth | `routers/auth.py`, `dependencies.py`, `security.py` | `sessions`, `password_reset_tokens`, `staff_invitations` | log in and out, forgot, reset, accept | sessions in `ScannerSync` and `EventsPage`, links in `EmailDelivery` |
| Staff | `routers/staff.py` | `staff_users`, `event_access` | invite, deactivate, grant | mailed links |
| Review | `event_review.py` | `event_participation_reviews`, `events.activity_review_state` | prepare (worker), edit, approve, reopen | `ReviewLedger`, `ReviewPage` |
| Activity | `activity_service.py`, `routers/activity.py` | `participations`, `score_transactions`, `achievements`, `student_memberships`, `domain_outbox` | confirm, correct, cancel, award, reverse | awards of a review in `ReviewPage`, by policies in `ScoringPage` |
| Scoring | `scoring_v2.py`, `routers/scoring_v2.py`, `scoring_readiness.py` | policies and versions, `participations.scoring_sequence` | publish, retire, assign to a season, statuses, simulate | `ScoringPage` (not the numbers) |
| Structure, reporting, audit | `routers/structure.py`, `tenant_scope.py`, `routers/reporting.py`, `routers/audit_log.py`, `service_utils.py` | reference rows, `audit_log` | single statements, reads | not modelled |
| Migrations | `migrate.py`, `bootstrap.py`, `backend/migrations/` | `schema_migrations` | apply, resume | not modelled |
| Console of the administrators | `apps/web/src/Admin*.tsx`, `EventStreams.tsx`, `RegistrationFormEditor.tsx`, `RosterSuggestions.tsx`, `admin-api.ts` | the state of each mounted component, one `busy` and one notice per page | calls of the API, each with what it captured at the click | `AdminCalls`, five pages, `AdminConsole` |
| Public site, contracts, UI kit, PWA updates, deployment | the rest of `apps/web`, `packages`, `apps/scanner/src/pwa-updates.ts`, `scripts`, `deploy` | none that outlives a page | calls of the API | not modelled |

### How they interact

Handlers share nothing but the database. One transaction per request (per item
in sync) runs at REPEATABLE READ: its first plain SELECT takes a snapshot that
every later plain SELECT reads; `FOR UPDATE` reads what is committed and waits
for other holders. Named locks (`GET_LOCK`) on a contact's hash serialise the
matching of Persons. The Scanner and the console call the API over HTTP, where
a request may be lost before or after it is served and may go on being served
after the caller gave it up. The mail worker is a second process on the same
database: handlers leave it rows of `email_deliveries` to find.

### What is hard

* A snapshot older than a lock: what was checked is not what is there.
* Two row locks taken in different orders (sync and annulment).
* A reply lost after the work was done, and the same request again.
* IndexedDB transactions of several flows of one tab, interleaved at each `await`;
  a session that ends, or another user who logs in, in the middle.
* A worker that stops between claiming a mail and recording its outcome.
* Persons who turn into aliases of others while a request holds their id.
* A page of the console with several requests under way: a button that does not look
  at `busy`, a reply that arrives after the component was left or shows another object,
  a success without the lists that show it, a retry after a lost answer.
* A file and a column that are not written together (covers).
* A list reviewed by several people while marks and registrations go on changing it.

`PROJECT.json` lists the places as hazards with their lines, and the properties
that would catch them going wrong, or why none does. These are hazards too, and no
module reaches them:

* Migrations: a DDL statement commits by itself, and a crash before
  `statements_applied` is updated runs it again (`migrate.py:133`).
* The highest scoring sequence of a Person is read plainly after his row was locked
  (`scoring_v2.py:113`); the unique key turns the mistake into an error.
* Two SUPER_ADMINs deactivate each other at once: each locks the other's row and
  counts two (`routers/staff.py:302`).
* Administrators change the contacts of a Person without the named locks that
  registrations take for them (`routers/participants.py:355`).
* The commit of an import is lost as a whole when a registration was added since its
  snapshot (`routers/excel.py:892`).
* A worker that outlives its lease writes the outcome of a mail another worker holds,
  by id alone (`email_worker.py:369`); `EmailDelivery` takes the attempt to end first.
* A crash between the commit and the removal leaves the file of a cover behind
  (`routers/events.py:546`); an Event is purged while a scanner still holds marks for it
  (`routers/events.py:617`); two invitations of one new address deadlock on one gap
  (`routers/staff.py:208`).
* A mail is sent twice when the worker dies after SMTP took it (`email_worker.py:310`;
  delivery is at least once), and crashes take its attempts beyond the limit
  (`email_worker.py:358`); a resend answers ALREADY_QUEUED for a mail to an address changed
  since (`routers/participants.py:728`).
* A bundle older than a mark's answer replaces the cache after it: a known attendance is shown
  as unknown until the next bundle (`offline-database.ts:131`); `CacheAgreesWithServer` allows it.
* A count of registrations older than the Event's lock would let an approval miss one
  (`event_review.py:478`); every writer takes that lock, and approval is one action here.
* A second tab of the Scanner gets between a read and a transaction
  (`offline-database.ts:124`, `278`).

### What makes each part correct

* Attendance: one primary mark per registration, a mark stored once, an answer the
  device may act on, requests that end.
* Scanner: no mark leaves the device unless the server has it, every mark is
  settled at last, the cached bundle never contradicts the server, and logout
  deletes only when the session is dead.
* Mail: one holder, final outcomes, no mail waiting for ever, a usable link in
  one letter.
* Registration: no more seats than allowed, one registration per request and per
  identified Person, no unmarked second Person with a known contact.
* Review: no credit changes before an approval, an approval covers exactly the list
  as decided, and a decision replaces only what its author had seen.
* Scoring: one version of a policy for any moment, and awards that fit the season.
* Events: a cover that is there, streams that fit, an archive nobody changes.
* Console: what it reports has happened and is on the screen, a retry is the same request, what is imported
  is what was previewed and decided, the newest list stays.

## 2. Modules

| Module | About | Extends |
|---|---|---|
| `AttendanceLedger` | What attendance promises, each operation atomic. An abstract specification. | |
| `AttendanceServer` | `process_item`, `sync`, `annul` with snapshots, locks, the unique key, deadlocks, crashes. | `AttendanceLedger` |
| `ScannerSync` | One device, one Event, one tab, several flows; its server is the ledger. | `AttendanceLedger` |
| `EmailDelivery` | The queue, what queues and cancels, the worker. | |
| `Registration` | Forms, imports, merges and capacities. | |
| `AdminCalls` | The calls of the console: how they are sent, served, lost and answered. | |
| `ScoringPage` | Policies, versions, the season, statuses, the simulator. | `AdminCalls` |
| `RegistrationsPage` | The participants of an Event, the on-site form, Excel, rejected marks. | `AdminCalls` |
| `PeoplePage` | The directory, the roster workbook, the card of a Person. | `AdminCalls` |
| `EventsPage` | Signing in, the list of Events, the editor of one. | `AdminCalls` |
| `ReviewLedger` | What a review promises. An abstract specification. | |
| `ReviewPage` | The review of an Event that ended. | `AdminCalls` |
| `AdminConsole` | One of the five pages at a time, with its server. | the pages |
| `…Proofs` | Theorems about the module of that name; `AdminConsoleProofs` has those of the pages but `EventsPage`, `ConsoleTypesProofs` their types. | the module, `TLAPS` |
| `MC…` | Constants for TLC and the symmetry of a run. | the module, `TLC` |

### AttendanceLedger and AttendanceServer

`rows` is `attendance_events`, `regs` the two columns of `registrations`,
`version` is `offline_data_version`. In `AttendanceServer` a worker goes through
`process_item` in the code's steps: read the snapshot (is this client known?),
lock the Event's row, lock the registration's row, decide, insert, commit. A
commit publishes the writes of its transaction in one step; the locks stay until
then. The items of a request share the dates read once when it began
(`context`). `AnnulLock` and `AnnulCommit` are the annulment, which holds the
registration before it updates the Event: with sync the opposite order, so there is
`DeadlockVictim`. Crashes roll back and free the locks.

The module implements the ledger: `LedgerRefined` is `Ledger!LedgerSpec` under the
identity mapping of `rows`, `regs`, `version`.

### ScannerSync

A flow (`record`, `interval`, `reconnect`, `load`, `prepare`, `logout`,
`handoff`) is an asynchronous function of the page; `pc[f]` names the `await` it
stands at. All that runs between two awaits, and each IndexedDB transaction, is one
step. `Arrive` and `ServeItem` are the server's side of a sync: the items of a
request are committed one by one, and when the client gives up the rest goes on in
`late`. The server commits each item through the ledger's `Record`, which
`AttendanceServer` is proved to implement. `OtherDevice`, `Annul`, `ResolveCase`,
`SessionEnds` and `Login` are the surroundings.

### EmailDelivery

An intent is the row a message is about: a registration (its ticket), a reset
token, an invitation. `intent` says whether it is still worth mailing, `address`
where a ticket goes. `LookForTicket` and `ResendTicket` are the two halves of
a resend: `assert_event` takes the snapshot before the row lock is granted.
Requests that take the Event's row wait while the public form holds it (`Form`).
A worker claims a due mail (any claimable one, for the claim skips locked rows), reads
its intent, sends, and records the outcome by id alone; a crash leaves the mail
SENDING until ten minutes have passed (`LeaseEnds`).

### Registration

A transaction goes `idle → lock → keys → resolve → commit`: the Event's row, the
named locks of the request's contacts, matching the Person, the registration. A form
takes its snapshot once it holds the Event. The commit of an import classifies its rows
first and so has an older snapshot (`OpenImport`). `ByRoster`, `ByContact` and
`ByChoice` are the three ways to a Person; `rows` are the persons rows that its
`FOR UPDATE` holds to the end. `MergePeople` takes the same rows, moves
registrations and turns the source, and all that led to it, into aliases of the
target; readers follow one alias only.

Left out or simplified: everybody has one full name and is a student of the college
(no other pairs meet in the matching), an import file has one row, every Event is
open for registration, named locks are taken all at once (a timeout is a
`Rollback`), one staff member sends on-site forms (`request_hash` includes the
actor), the contact edits of administrators (`participants.py:355-405`), the
marking of an existing Person as a roster student (`routers/activity.py:968`),
activation of streams, dismissed duplicates and the state of the roster match.

### AdminCalls

`calls` is every request of a page in the order of the clicks. A call is `sent`, may
be `open` while its transaction goes on, is `done` once answered, and `over` when the
page took the answer; then nothing of it is read again. `arg` is what the click
captured (the closure of the handler), so a reply is interpreted by what was on
the screen then. Replies arrive in any order. `LoseCall` is the request or its answer
getting lost: `admin-api.ts` reports both as NETWORK_ERROR, so the page cannot tell
whether the server did the work. Calls `by` another administrator run through the
same server actions, and nobody here waits for their answers.

`busy` and `notice` are the two states that the handlers of a page share. A handler
that looks at `busy` has it in its guard; another may be clicked while a call of the
page is under way.

### The pages

Each page module has the server's rows in one variable (`eventDb`, `reviewDb`, …), the
state of the mounted components in others, one action per click, one per endpoint,
and one per `then` or `catch` of a handler. A transaction that locks what it reads
before reading it is one action; those whose snapshot is older than their locks, or
that touch a file besides the database, are several:

* `ScoringPage`: publishing and retiring a version read in a snapshot, then lock
  the policy and the version; an award reads the versions in its snapshot and the season
  under its lock. `references` are four lists that are shown together or not at all.
* `EventsPage`: a cover is stored, named by the Event, and its predecessor removed in
  three steps (`StoreCover`, `ServeUpload`, `RemoveCover`). An upload names its file.
* `ReviewPage`: one step each, and that is faithful: preparation, decisions, approval
  and reopening lock the row of the Event first, and so do the writers of marks and
  registrations (they write `offline_data_version`).
* `RegistrationsPage` and `PeoplePage`: one step each, under the lock of the row;
  what matters there is the page. `sub.mount` and `card` say which component
  is mounted; a reply for another one changes only what its handler still reaches.

`ReviewPage` implements `ReviewLedger` under `Ledger`: the active registrations are the
list, a registration whose item saw the latest mark and is matched or rejected is
decided, and the awards that were not reversed are its credit.

`AdminConsole` composes them: `page` is the set of panels that one behaviour uses, all
of one page, because `AdminWorkspace` mounts one page and unmounts it with all its
state. Nothing is shared by two pages but the server, and the server's part of each
page has rows of its own.

Some components are history that no guard reads: `moved` of an award (its Event got another
start since), `edition` of the season (how often it was assigned, for `updated_at`), `made` of
a reload (what it follows) and `seen` of the directory (workbooks previewed without errors).
The Events that `ScoringPage` scores (`moment`) are not those of `EventsPage`. A row of a review
that stays MATCHED while its student is taken away (rejected, then unchecked) is `UNLINKED`.

Left out of the pages: values that nothing decides on (titles, texts, pages of a list,
the search text but for its order), the audit, the outbox, and achievements,
memberships, manual adjustments and profile contents.

## 3. Runs

| Run | Instance | Shows |
|---|---|---|
| `attendance_server` | 2 workers, 1 administrator, 1 registration, 1 unknown id, 2 client ids, 3 request bodies, 1 edit of the dates | `OnePrimary`, `ClientRecordedOnce`, `AnswersMatchLedger`, refinement of the ledger, `RequestEnds` |
| `attendance_retry` | the same without date edits | a violation, see section 6 |
| `scanner_submission` | two setups: 2 marks with the flows record, interval and handoff; 1 mark and one of another device with record, interval and reconnect; 1 fault | `NoMarkLost`, `CacheAgreesWithServer`, `BundleNotAhead` |
| `scanner_accounts` | 2 users, 1 queued mark, flows interval, load, prepare, logout, 2 logins, 2 faults | `EventuallySettled`, `LogoutRevokesFirst` |
| `scanner_discard` | 2 users, 1 mark, flows record, interval, load, logout | a violation, see section 6 |
| `scanner_foreign` | 2 users, 1 queued mark and another, flows record and load, 2 logins, 2 faults | a violation |
| `email_delivery` | 1 ticket with 2 addresses, 2 reset links, 1 invitation, 2 workers, 1 crash | `OneHolder`, `OutcomeIsFinal`, `LiveLinkIsMailed` |
| `email_settles` | 1 ticket, 1 reset link, 2 workers, 2 crashes | `EveryMailSettles` |
| `email_resend` | 2 resends of 1 ticket | a violation |
| `registration` | 2 transactions, 4 forms (two public with a shared contact, an on-site with override and group, an import), 3 Persons, 3 registrations, 2 acts of administrators | `HardLimit`, `OneRegistrationPerRequest`, `RegisteredOnce`, `FormsKeepCapacity`, `NoSilentTwin` |
| `registration_import` | the same | a violation |
| `web_console` | 29 sets of panels, 2 to 6 calls, at most 1 loss, another administrator in 11 of them; 2 Events, 2 streams, 2 fields, 3 Persons, 3 registrations, 3 versions of 2 policies, 2 scored Events with 3 instants to start at, 2 workbooks, 2 attendees with 2 roles | see below |

`web_console` starts in every set of `MCPages` and checks at each page what it is
about:

* events: `CoverFileExists`, `StreamsFitEvent`, `ArchiveIsFinal`, `LogoutIsReal`;
* review: `ReviewLedgerRefined`, `OverwrittenWasSeen`;
* scoring: `PeriodsDisjoint`, `HistoryFitsSeason`, `SuccessIsShown`;
* participants: `OneRetried`, `ImportAsDecided`;
* people: `NewestListStays`, `RosterImportIsPreviewed`;
* all: `ConsoleTypeOK`.

Every property of a passing run has a mutant in `PROJECT.json`: a definition of the
module changed as a plausible bug would change it, under which TLC finds the
property violated in the same run.

### Why these bounds are enough

Each hazard needs two concurrent transactions (a snapshot taken by one, a commit
of the other between), two marks or mails (order and overtaking), one
fault per retry, and as many rows as the statement compares. The instances hold
those with one to spare where the state space allows it: two workers with an
administrator, two forms and an import with an annulment *and* a merge or an
edit, two crashes where liveness is asked. Capacities, the limit of 5000, the
500 items of a batch and the 5000 open cases are constants set to one or two so
that they are reached. `Limit`, `MaxCapacity`, `MaxOpenCases`, `MaxBatch` and
`MaxAttempts` are bounds of the code; `MaxActs`, `MaxDateChanges`, `MaxLogins`,
`MaxCalls`, `MaxFaults`, `MaxCrashes`, `MaxMails` and the `faults` of a scanner setup
are bounds of the model.

In the console a page's hazard is two or three calls long (a click, another before
its answer, the late answer), so `MaxCalls` is two beside another administrator, whose
calls count too, three otherwise, and six where a reload follows each change
(policies). One loss gives every retry once; it is left out where a refusal takes the
page the same way. Panels that share no state are put in different sets: their
interleavings would add states and no new pair of steps.

Runs that may really stop (everything bounded is used up and nothing is asked any
more, or nobody clicks) say `CHECK_DEADLOCK FALSE`. Symmetry is used in `email_delivery` and
`registration` only, which have no liveness property.

### Fairness

* `AttendanceServer`: strong fairness of a worker's step and of an annulment's
  commit, for InnoDB grants a lock to each waiter in turn; weak fairness of
  `DeadlockVictim`, for InnoDB detects every cycle. Requests need not come.
* `ScannerSync`: weak fairness of each flow's next step (a request ends by an
  answer or by the 15 s abort), strong fairness of the ten-second flush and of
  opening an Event (the operator goes on working), weak fairness of answering the logout
  dialog. The abort's timer is cleared when the headers arrive
  (`api-client.ts:205`), so a response whose body never ends is outside this.
* `EmailDelivery`: the worker's loop goes on, a backoff and a lease run out. SMTP is
  configured. `LeaseEnds` waits for no living holder: an SMTP call has a timeout of
  thirty seconds against a lease of ten minutes.
* `Registration` has no liveness property: locks time out and a request fails.
* The console has none: `admin-api.ts` sets no timeout, and nothing makes an answer come.

## 4. Proofs

TLAPS checks every theorem to the last leaf; the assumptions are the named ones of the
modules, which TLC evaluates in each run. None bounds the number of workers,
items, mails, forms, Persons, marks, calls or registrations, but by finiteness.

* `AttendanceLedgerProofs`: the ledger keeps `OnePrimary` and `ClientRecordedOnce`.
* `AttendanceServerProofs`: types; `ServerRefinesLedger` (every step is a
  ledger step or a stutter), from which the ledger's invariants follow for the
  server; `AnswersMatchLedger`. The inductive invariant (`LockInv`) says who holds which
  lock at which `pc`, that what a worker has `seen` under its lock still is the row, and
  that a registration about to be annulled is still active; without it an insert could
  be a repeat flagged as the first. `AnswersMatchLedger` needs one thing more: after a
  failed insert the client is recorded (`RereadInv`).
* `ScannerSyncProofs`, from one invariant `Inv`, which joins three rings:
  * `ServerInv`: a registration with a stored mark has its first attendance, and what the
    server has published about a registration has happened to it.
  * `FlowInv`: what a flow carries from one `await` to the next (its batch, bundle, session,
    claim) is what its `pc` calls for, and a mark about to be taken off the queue by a handoff
    has its case.
  * `DataInv`: a result on its way, a bundle being fetched and the cached one say nothing that
    is not true of the ledger at their version, and `NoMarkLost`.

  `NoMarkLostHolds`, `CacheAgreesHolds` and `BundleNotAheadHolds` follow. None is inductive
  by itself: a confirmation is written to the device long after the server gave it, when
  the mark may have been sent again and its registration annulled, and a bundle after
  changes that were published later. The scanner's
  server calls the ledger's own operations, those that `AttendanceServer` is proved to
  implement; that part needs no theorem. `LogoutRevokesFirstHolds` needs `LogoutAlone`: no
  other flow may bind the device while a logout clears it.
* `EmailDeliveryProofs`: types, `OneHolder` (with: a claimed mail's number has been
  issued), `OutcomeIsFinal`, `LiveLinkIsMailed` (with: a link never asked for has no
  letter, and what a worker decided to cancel is over).
* `RegistrationProofs`:
  * `TypeCorrect`, from `TypeInv`: the types and `ViewsBehind`: a snapshot shows
    nothing the tables do not hold any more. What it calls a Person still is one,
    and roster rows of primaries only grow.
  * `NoSilentTwinHolds`, from `KeysInv`: transactions hold disjoint contacts, and nobody
    bears the contacts of a Person about to be made. Either conjunct alone is
    not preserved: a second transaction could make the twin in between.
  * `HardLimitHolds` and `FormsKeepCapacityHolds`, from `SeatsInv`: one holder per Event,
    and a form that holds it sees the seats and the capacity as they are.
  * `OneRegistrationPerRequestHolds`, from `RequestInv`: a registration with a request
    has its receipt, a form in progress sees every receipt of its Event, and an import
    holds its job's row.
  * `RegisteredOnceHolds`, from `OnceInv`: a matched Person stays a primary until
    the commit, for a merge wants the same row.
* `EventsPageProofs` begins with what a click, an answer, a taken reply and a loss do to
  the list of calls, which the two modules below use too. Then, about `EventSpec`:
  * `CoversHaveFiles`, from `CoversOK` and `UploadsOK`: two Events never name one cover, an
    upload that still has to be named has its file, and what a transaction is about
    to remove is named by nobody and by no upload that could still be. `CoverFileExists`
    alone says nothing about a removal that is still to come.
  * `SeatsAreShared`, from `StreamsInv`: rows are typed, every stream is one of an Event that
    exists and has streams, and the requests under way ask for hours, seats and streams
    there are. Seats are counted one by one (`Seats` is the cardinality of pairs of a
    stream and a place in it), so that what an added, a changed and a removed stream do to
    the sum follows from the library's facts about finite sets.
  * `ArchivedStays`: each commit changes rows of an Event that is not archived.
  * `SignedOutWhenEnded`, from `SessionOK`: the page has one call about its session at a
    time, and an answer that ends it has found it ended.
* `AdminConsoleProofs`: the other pages, each about the specification of its own, and then
  the console.
  * `PublishedPeriodsDisjoint`, from `VersionsOK`: the check under the lock of the policy
    reads what is committed, whatever the snapshot shows.
  * `AwardsFitSeason`, from `SeasonOK` (a version that awarded is stored) and, for
    transactions under way, `ScoringAsksOK`: what a snapshot shows as published is still
    stored under the same policy. Events are moved meanwhile, awarded ones too: the season
    is checked against their start of now, and the awards whose Event was moved are the
    ones that the rule says nothing about.
  * `ReportsAreTrue`: each reload, and each list on its way, carries a change that the server
    has made (or a later one of the same object), and the season, the policies and the
    statuses never go back behind it; so the lists that come hold it.
  * `ReviewKeepsLedger`: every step of the page and its server is a step of `ReviewLedger`
    or leaves it alone. The part of the invariant about the tables says that of a
    registration's awards only the last stands, and only while its participation is
    confirmed: without it a correction could leave two.
  * `DecisionsReplaceWhatWasSeen`: a draft, and a decision on its way, carries the version
    that was shown when it was begun. The second is needed because a draft may be gone
    before the server takes the decision.
  * `RetriesAreOne` and `ImportsAsDecided`: a ticket or a registration is made by a call that
    carries the key of the mounted card or form, and keys of later mounts are greater; the
    decisions and the job that an import sends were shown together.
  * `PreviewedIsImported`: a preview on the screen, and a request on its way, carries a hash
    that the page has shown without errors; `seen` records which those are.
    `NewestIsShown`: a load is numbered when it is asked for, and none that is shown was
    asked after the last one.

  `ConsoleInv` joins the invariants of the pages. A step of a page is a step of it and leaves
  the rows of the others alone (`OnePageMounted`), which takes `ConsoleIsSafe`,
  `ConsoleKeepsLedger` and `ConsolePromises` from the pages to `ConsoleSpec`, the
  specification that `web_console` checks.
* `ConsoleTypesProofs`: `ConsoleTyped`, from `TypesInv`. That a list holds rows of its kind, a
  form what its panel edits and a review the items of its Event is not inductive, for a
  reply is put on the screen long after it was asked for, maybe on another card. `TypesInv`
  therefore says of every call what it was sent with (`SentT`), what its transaction has read
  (`OpenT`) and what it is answered (`ReplyT`), beside the types of the tables and the screen
  and `ConsoleInv`. Two parts are more than types: the editor of a new version has a policy
  that is open (`DeskT`), and a reply to an approval that comes to the review it was asked
  from finds that review shown (`MountT`); without the one a version of no policy could be
  made, without the other an approval would be shown in a review that is not there.

The assumptions beyond finiteness and membership: marks that mean "nobody" and
"undecided" are no roles (`MarksAreNoRoles`), `Null` is no Event, number, row or answer
(`EventBasics`, `StreamBasics`), what a page starts with or offers is of its kind (`ScoringBasics`,
`RegBasics`, `PeopleBasics`, `ReviewBasics`), instants are positive numbers
(`InstantsAreNumbers`), the versions, awards and streams a behaviour starts with are in order themselves
(`FirstVersions`, `FirstAwards`, `StreamBasics`), and a behaviour of the console uses panels
of one page (`OnePageMounted`).

Every invariant and every action property that a passing run checks is a theorem. Only model-checked: `RequestEnds`,
`EventuallySettled` and `EveryMailSettles`, for liveness under fairness is out of the
prover's reach. Nothing in a module with theorems is recursive.

## 5. Not modelled

* Reads that decide nothing (reporting, ratings, exports, the audit log), formatting,
  hashing, parsing of workbooks, rate limits, message bodies and audit rows.
* Rows of reference data (structure, achievements, membership types): one
  statement under one lock each, with the pages that edit them.
* Memberships, manual adjustments and achievements of students, and the outbox.
* What `calculate` adds up, and the renumbering of `scoring_sequence` in an ordered merge;
  `PeoplePage` has the version of the history that such a merge must have compared.
* Staff accounts but for what they mail; Event access.
* Migrations, which run by hand before the service starts.
* The public site, whose only state is a form; the camera, PWA updates, deployment.

## 6. Where the code and its documents disagree

Runs that end in a violation, with the line they check (`findings`):

* `attendance_retry` — a mark recorded before an annulment may be answered
  with a rejection when it is sent again (`docs/07-api-contracts.md:505` promises idempotence
  by `client_event_id`).
* `scanner_discard` — logout may delete marks that were recorded after the confirmation
  had counted them.
* `scanner_foreign` — marks queued by one user may be submitted in the session of another
  who logs in on the same device (`docs/08-offline-sync.md:94`): the load that would refuse him
  (`bindOwner`) gets no answer, the page goes on offline under the device's owner
  (`App.tsx:110`), and the next mark flushes the queue with the new session.
* `email_resend` — two resends may both queue a ticket (`docs/07-api-contracts.md:284`).
* `registration_import` — an import that waited for the Event's lock counts the seats in its
  older snapshot (`docs/12-excel-import-export.md:69`).

Met while modelling, without a run of their own:

* A public form that matched the alias of a merged Person overwrites the primary's
  contacts (`registration_service.py:589`), against the comment at lines 224-225.
* A roster candidate, or a Person chosen in an import's preview, is read without a lock:
  after a concurrent merge the registration goes to the alias, and the student may
  have two (`registration_service.py:537`, `excel.py:862`, `docs/05-domain-model.md:100`).
  `RegisteredOnce` is therefore about Persons matched by contacts.
* A repeated on-site form with a new address queues a second ticket and leaves the first
  (`registration_service.py:581`).
* A 401 in a background flush does not revoke offline access (`docs/08-offline-sync.md:94`).
* `bindOwner` counts the queue in one transaction and clears the device in another
  (`offline-database.ts:278`); a mark recorded between the two under the old owner goes with
  the rest. `NoSilentDiscard` is violated on that way too when the logout flow is taken out of
  `scanner_discard`. That only a logout deletes unsent marks is therefore no property here.
* Moving an awarded Event (`routers/events.py:340`) recalculates nothing, and only its season,
  level and multiplier are locked (`378-411`). The Event may cross the boundary of its
  season's policy and keep an award of the other engine, while
  `docs/MOSACTIVE-SCORING-V2.md:25-28` has the engine follow `Event.start_at`; and a policy may
  be assigned from a date whose awarded Events have been moved before it.

And in the console and behind it:

* Scoring. The editor of a version keeps the values it was mounted with when the
  detail of another version arrives; `onSaved` of a closed editor closes another; publishing
  does not save what was edited; a simulation or a list of an earlier Person may be shown
  under another. Publishing probes the components before it takes the locks
  (`routers/scoring_v2.py:498-543`), while `docs/MOSACTIVE-SCORING-V2.md:61` has them checked
  again before publication.
* Registrations. A late reply selects another registration under a mounted, uncontrolled
  form, whose old values a save then sends.
* People. A merge is asked for whoever is selected now, under a comparison of another
  pair (`AdminPersonMerge.tsx:144-186`, against `docs/05-domain-model.md:100-101`); a metadata draft
  is saved with the version of whoever is shown; a profile toggle of one Person may show
  under another.
* Events. A late answer of the streams may put an older copy of the Event into the
  editor; a late purge closes another editor; a late save of a field closes another
  field's form; the whole form is sent without a version, so an edit in between is
  lost; a cover that fails after the creation makes the retry a slug conflict; a logout that
  fails mounts the console anew and loses what was not saved.
* Review. Approval does not carry the version of the list that was seen, only the
  items' own; unchecking "reject" leaves REJECTED stored, or, when it was never saved, MATCHED
  without the student (`event_review.py:375-384`); an annulled registration keeps
  the credit of an earlier approval (`routers/participants.py:643`); active registrations
  without an item are not listed, while `docs/07-api-contracts.md` (about line 568) says all are.
  The plain count in `event_review.py:478` is sound only because of the Event's lock.

## 7. Plan

1. Staff: deactivation, invitations and sessions, and the last SUPER_ADMIN.
2. The scoring sequence: `assign_scoring_sequence` under concurrent confirmations and the
   ordered merge; `calculate` as an operator against a reference over bounded inputs.
3. Migrations: a crash between a statement and its marker.

The order is that of the harm: a mark that is lost cannot be made again, an account
can. Where a question is settled by a proof, its run is reduced or merged.
