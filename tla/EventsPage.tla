------------------------------- MODULE EventsPage -------------------------------
(***************************************************************************)
(* Signing in to the console, its list of Events and the editor of one:    *)
(* settings and cover, form fields, the registration form and the streams  *)
(* (AdminApp.tsx, EventStreams.tsx, RegistrationFormEditor.tsx), before    *)
(* routers/events.py and routers/streams.py.                               *)
(*                                                                         *)
(* An Event lasts some Hours; streams lie within it and share its seats.   *)
(* A cover is a file named by the upload that made it.  The sections of    *)
(* the editor show a copy of the Event each of them may replace.           *)
(***************************************************************************)
EXTENDS AdminCalls, FiniteSets

CONSTANTS
  Events, SavedEvents,   \* Events by their slug, and those that exist at first
  Spans, PastHours,      \* sets of hours an Event or a stream may take; the hours gone by
  SeatCounts,            \* seats an administrator enters
  Streams, SavedStreams, \* streams an Event may get, and those saved at first
  Fields                 \* form fields an Event may get

ASSUME EventBasics ==
  SavedEvents \subseteq Events /\ Null \notin Events \cup Nat /\ Null # "UNAUTHENTICATED"

VARIABLES
  eventDb,    \* server: Events, streams, form fields, cover files, the browser's session
  console,    \* page: who is signed in, and the list of Events
  editor      \* page: the open editor

eventVars == <<eventDb, console, editor>>

EventPanels == {"session", "list", "settings", "cover", "fields", "streams"}
EventStatuses == {"DRAFT", "REGISTRATION_OPEN", "REGISTRATION_CLOSED", "ACTIVE", "COMPLETED"}
Transitions ==
  [DRAFT |-> {"DRAFT", "REGISTRATION_OPEN"},
   REGISTRATION_OPEN |-> {"REGISTRATION_OPEN", "REGISTRATION_CLOSED", "ACTIVE"},
   REGISTRATION_CLOSED |-> {"REGISTRATION_CLOSED", "REGISTRATION_OPEN", "ACTIVE", "COMPLETED"},
   ACTIVE |-> {"ACTIVE", "COMPLETED"},
   COMPLETED |-> {"COMPLETED"}]
Roles == {"ORGANIZER", "SUPER_ADMIN", "SCANNER"}

EventOps ==
  {"session", "login", "logout", "events", "event", "createEvent", "updateEvent", "uploadCover",
   "deleteCover", "archive", "purge", "formFields", "saveField", "deactivateField", "streams",
   "saveStream"}

EventRow == [id: Events, status: EventStatuses \cup {"ARCHIVED"}, hours: Spans, seats: Nat,
             streamed: BOOLEAN, cover: Nat \cup {Null}, config: BOOLEAN]
StreamRow == [event: Events, hours: Spans, seats: SeatCounts]
Longest == UNION Spans

ASSUME StreamBasics ==
  /\ IsFiniteSet(Streams) /\ SavedStreams \subseteq Streams
  /\ SavedStreams # {} => SavedEvents # {}
  /\ Longest \in Spans /\ SeatCounts # {} /\ SeatCounts \subseteq Nat
  /\ Null \notin EventRow /\ Null \notin StreamRow

FieldRow == [event: Events, active: BOOLEAN]

EventTypeOK ==
  /\ \A e \in Events : eventDb.event[e] = Null \/ eventDb.event[e] \in EventRow
  /\ \A s \in Streams : eventDb.stream[s] = Null \/ eventDb.stream[s] \in StreamRow
  /\ \A f \in Fields : eventDb.field[f] = Null \/ eventDb.field[f] \in FieldRow
  /\ eventDb.files \subseteq Nat /\ eventDb.session \in Roles \cup {Null}
  /\ console.user \in Roles \cup {Null} /\ console.loading \in BOOLEAN
  /\ console.rows \subseteq Events /\ console.archive \in BOOLEAN
  /\ editor.event = Null \/ editor.event \in EventRow
  /\ editor.busy \in BOOLEAN /\ editor.waits \subseteq Nat

NoOpenEditor == [mount |-> 0, event |-> Null, busy |-> FALSE, fields |-> {}, field |-> Null,
                 fieldBusy |-> FALSE, configBusy |-> FALSE, streams |-> {}, stream |-> Null,
                 waits |-> {}]
NoConsole == [user |-> Null, loading |-> FALSE, rows |-> {}, archive |-> FALSE]

NewEvent(e, status, hours, seats) ==
  [id |-> e, status |-> status, hours |-> hours, seats |-> seats, streamed |-> FALSE,
   cover |-> Null, config |-> FALSE]
Streamed(row, seats) == [row EXCEPT !.streamed = TRUE, !.seats = seats]
FirstCount == CHOOSE n \in SeatCounts : TRUE
\* The seats of some streams, counted one by one.
Seats(ss, stream) == Cardinality(UNION {{s} \X (1..stream[s].seats) : s \in ss})
Existing == {e \in Events : eventDb.event[e] # Null}
Archived(e) == eventDb.event[e].status = "ARCHIVED"
StreamsOf(e) == {s \in Streams : eventDb.stream[s] # Null /\ eventDb.stream[s].event = e}
FieldsOf(e) == {f \in Fields : eventDb.field[f] # Null /\ eventDb.field[f].event = e}

\* The console while the session is restored, or at work.
EventStart ==
  /\ LET first == CHOOSE e \in SavedEvents : TRUE
         saved == IF Uses("streams") THEN SavedStreams ELSE {}
         stream == [s \in Streams |-> IF s \in saved THEN [event |-> first, hours |-> Longest,
                                                          seats |-> FirstCount]
                                     ELSE Null]
         new == [e \in SavedEvents |-> NewEvent(e, "REGISTRATION_CLOSED", Longest, FirstCount)]
     IN eventDb = [event |-> [e \in Events |->
                                IF e \notin SavedEvents THEN Null
                                ELSE IF e = first /\ saved # {}
                                THEN Streamed(new[e], Seats(saved, stream))
                                ELSE new[e]],
                   stream |-> stream, field |-> [f \in Fields |-> Null], files |-> {},
                   session |-> IF Uses("session") THEN "SCANNER" ELSE "SUPER_ADMIN"]
  /\ IF Uses("session")
     THEN console = [NoConsole EXCEPT !.loading = TRUE]
     ELSE console = [NoConsole EXCEPT !.user = "SUPER_ADMIN", !.rows = SavedEvents]
  /\ editor = NoOpenEditor
EventFirst == IF Uses("session") THEN <<Call("session", Null)>> ELSE <<>>
EventInit == CallsInit /\ EventStart /\ Mounted(EventFirst)

(***************************************************************************)
(* Signing in and out: the whole console is unmounted while it waits.      *)
(***************************************************************************)
Login(role) ==
  /\ Uses("session") /\ console.user = Null /\ ~console.loading
  /\ Ask("login", role)
  /\ console' = [console EXCEPT !.loading = TRUE]
  /\ UNCHANGED <<busy, notice, eventDb, editor>>

Logout ==
  /\ Uses("session") /\ console.user # Null /\ ~console.loading
  /\ Ask("logout", Null)
  /\ console' = [console EXCEPT !.loading = TRUE, !.rows = {}, !.archive = FALSE]
  /\ editor' = NoOpenEditor
  /\ UNCHANGED <<busy, notice, eventDb>>

\* Mutant: whatever a logout answers, the console shows itself as signed out.
SessionArrivesAnyhow(i) ==
  /\ \E op \in {"session", "login", "logout"} : Answered(i, op) \/ Failed(i, op)
  /\ console' = [console EXCEPT !.loading = FALSE,
                                !.user = IF calls[i].op = "logout" THEN Null
                                         ELSE IF calls[i].ok THEN calls[i].data ELSE @]
  /\ Take(i)
  /\ UNCHANGED <<busy, notice, eventDb, editor>>

\* A refused logout (401) is one; after a network error the session stays.
SessionArrives(i) ==
  /\ \E op \in {"session", "login", "logout"} : Answered(i, op) \/ Failed(i, op)
  /\ console' = [console EXCEPT
       !.loading = FALSE,
       !.user = IF calls[i].ok THEN calls[i].data
                ELSE IF calls[i].op = "logout" /\ calls[i].data = "UNAUTHENTICATED" THEN Null
                ELSE @]
  /\ Take(i)
  /\ UNCHANGED <<busy, notice, eventDb, editor>>

ServeSession(i) ==
  /\ \/ /\ Waits(i, "session")
        /\ Done(i, eventDb.session) /\ UNCHANGED eventDb
     \/ /\ Waits(i, "login")
        /\ \/ eventDb' = [eventDb EXCEPT !.session = calls[i].arg] /\ Done(i, calls[i].arg)
           \/ UNCHANGED eventDb /\ Refused(i)
     \/ /\ Waits(i, "logout")
        /\ eventDb' = [eventDb EXCEPT !.session = Null]
        /\ \/ eventDb.session # Null /\ Done(i, Null)
           \/ eventDb.session = Null /\ RefusedAs(i, "UNAUTHENTICATED")
  /\ UNCHANGED <<page, faults, busy, notice, console, editor>>

(***************************************************************************)
(* The list of Events: the toggle loads it anew while other loads run.     *)
(***************************************************************************)
AtWork == console.user \in {"ORGANIZER", "SUPER_ADMIN"} /\ ~console.loading
OnList == AtWork /\ editor.mount = 0
InEditor == AtWork /\ editor.mount # 0

ToggleArchive ==
  /\ Uses("list") /\ OnList
  /\ Ask("events", ~console.archive)
  /\ console' = [console EXCEPT !.archive = ~@]
  /\ busy' = TRUE
  /\ UNCHANGED <<notice, eventDb, editor>>

ShowEvents(i) ==
  /\ Answered(i, "events") \/ Failed(i, "events")
  /\ console' = IF calls[i].ok /\ AtWork THEN [console EXCEPT !.rows = calls[i].data] ELSE console
  /\ busy' = FALSE
  /\ Take(i)
  /\ UNCHANGED <<notice, eventDb, editor>>

\* The list's copy of the Event is what the editor starts from.
OpenEditor(e) ==
  /\ OnList /\ ~Uses("session")
  /\ e # Null => e \in console.rows \cap Existing
  /\ editor' = [NoOpenEditor EXCEPT !.mount = Len(calls) + 1,
                                    !.event = IF e = Null THEN Null ELSE eventDb.event[e],
                                    !.streams = IF e = Null THEN {} ELSE StreamsOf(e),
                                    !.fields = IF e = Null THEN {} ELSE FieldsOf(e)]
  /\ UNCHANGED <<shell, eventDb, console>>

CloseEventEditor ==
  /\ InEditor
  /\ editor' = NoOpenEditor
  /\ Ask("events", console.archive)
  /\ busy' = TRUE
  /\ UNCHANGED <<notice, eventDb, console>>

(***************************************************************************)
(* The settings: one busy flag; the cover's delete button does not look.   *)
(***************************************************************************)
EditorMounted(i) == InEditor /\ calls[i].arg.mount = editor.mount
Shown(i, e) == IF EditorMounted(i) THEN [editor EXCEPT !.event = e, !.busy = FALSE] ELSE editor

Settings(op, id, more) ==
  /\ InEditor
  /\ Ask(op, [mount |-> editor.mount, section |-> "settings", id |-> id, more |-> more])
  /\ editor' = [editor EXCEPT !.busy = TRUE]
  /\ UNCHANGED <<busy, notice, eventDb, console>>

\* The seats of a streamed Event are read-only in the form.
SaveEvent(e, status, hours, seats, withCover) ==
  LET shown == editor.event
      form == [status |-> status, hours |-> hours, seats |-> seats, cover |-> withCover]
  IN /\ ~editor.busy
     /\ IF shown = Null
        THEN status \in {"DRAFT", "REGISTRATION_OPEN"} /\ Settings("createEvent", e, form)
        ELSE /\ e = shown.id /\ shown.status # "ARCHIVED"
             /\ status \in Transitions[shown.status]
             /\ status = "COMPLETED" => shown.status = "COMPLETED"
             /\ shown.streamed => seats = shown.seats
             /\ Settings("updateEvent", e, form)

CompleteEvent ==
  /\ Uses("settings") /\ editor.event # Null /\ ~editor.busy
  /\ editor.event.status \notin {"DRAFT", "ARCHIVED"} /\ editor.event.hours \subseteq PastHours
  /\ Settings("updateEvent", editor.event.id, [status |-> "COMPLETED", cover |-> FALSE])

DeleteCover ==
  /\ Uses("cover") /\ editor.event # Null /\ editor.event.cover # Null
  /\ editor.event.status # "ARCHIVED"
  /\ Settings("deleteCover", editor.event.id, Null)

Archive ==
  /\ editor.event # Null /\ ~editor.busy /\ editor.event.status # "ARCHIVED"
  /\ Settings("archive", editor.event.id, Null)

Purge ==
  /\ Uses("settings") /\ console.user = "SUPER_ADMIN"
  /\ editor.event # Null /\ ~editor.busy /\ editor.event.status = "ARCHIVED"
  /\ Settings("purge", editor.event.id, console.archive)

(* The form of the registration has a lock of its own. *)
SaveConfig ==
  /\ Uses("fields") /\ InEditor /\ editor.event # Null /\ ~editor.configBusy
  /\ editor.event.status # "ARCHIVED"
  /\ Ask("updateEvent", [mount |-> editor.mount, section |-> "config", id |-> editor.event.id,
                         more |-> [config |-> ~editor.event.config, cover |-> FALSE]])
  /\ editor' = [editor EXCEPT !.configBusy = TRUE]
  /\ UNCHANGED <<busy, notice, eventDb, console>>

\* The cover follows the saved settings; every section shows its reply.
EventSaved(i) ==
  /\ \E op \in {"createEvent", "updateEvent", "uploadCover", "deleteCover", "archive"} :
       Answered(i, op)
  /\ IF calls[i].op \in {"createEvent", "updateEvent"} /\ calls[i].arg.more.cover
     THEN /\ TakeAndAsk(i, "uploadCover", calls[i].arg)
          /\ UNCHANGED editor
     ELSE /\ Take(i)
          /\ editor' = IF ~EditorMounted(i) THEN editor
                       ELSE IF calls[i].arg.section = "config"
                       THEN [editor EXCEPT !.event = calls[i].data, !.configBusy = FALSE]
                       ELSE Shown(i, calls[i].data)
  /\ UNCHANGED <<busy, notice, eventDb, console>>

\* onBack of the purged Event's editor closes whichever editor is open.
Purged(i) ==
  /\ Answered(i, "purge")
  /\ TakeAndAsk(i, "events", calls[i].arg.more)
  /\ editor' = NoOpenEditor
  /\ busy' = TRUE
  /\ UNCHANGED <<notice, eventDb, console>>

SettingsFail(i) ==
  /\ \E op \in {"createEvent", "updateEvent", "uploadCover", "deleteCover", "archive", "purge"} :
       Failed(i, op)
  /\ editor' = IF ~EditorMounted(i) THEN editor
               ELSE IF calls[i].arg.section = "config" THEN [editor EXCEPT !.configBusy = FALSE]
               ELSE [editor EXCEPT !.busy = FALSE]
  /\ Take(i)
  /\ UNCHANGED <<busy, notice, eventDb, console>>

(***************************************************************************)
(* The form fields: "edit" does not look at busy, and a saved field closes *)
(* whichever form is open after the list was loaded again.                 *)
(***************************************************************************)
OpenFieldForm(f) ==
  /\ Uses("fields") /\ InEditor /\ editor.event # Null /\ editor.event.status # "ARCHIVED"
  /\ \/ f \in editor.fields
     \/ f \in Fields \ editor.fields /\ editor.field = Null
  /\ editor' = [editor EXCEPT !.field = f]
  /\ UNCHANGED <<shell, eventDb, console>>

CloseFieldForm ==
  /\ InEditor /\ editor.field # Null
  /\ editor' = [editor EXCEPT !.field = Null]
  /\ UNCHANGED <<shell, eventDb, console>>

\* A form that was opened for no field of the list creates one.
FieldCall(op, f) ==
  /\ InEditor /\ ~editor.fieldBusy
  /\ Ask(op, [mount |-> editor.mount, id |-> editor.event.id, field |-> f,
              isNew |-> f \notin editor.fields, then |-> op])
  /\ editor' = [editor EXCEPT !.fieldBusy = TRUE]
  /\ UNCHANGED <<busy, notice, eventDb, console>>

SaveField == editor.field # Null /\ FieldCall("saveField", editor.field)
DeactivateField(f) ==
  /\ Uses("fields") /\ f \in editor.fields /\ editor.event.status # "ARCHIVED"
  /\ FieldCall("deactivateField", f)

FieldChanged(i) ==
  /\ Answered(i, "saveField") \/ Answered(i, "deactivateField")
  /\ TakeAndAsk(i, "formFields", calls[i].arg)
  /\ UNCHANGED <<busy, notice, eventVars>>

\* loadFields reports its own failure, and the handler goes on.
ShowFields(i) ==
  /\ \/ \E op \in {"saveField", "deactivateField"} : Failed(i, op)
     \/ Answered(i, "formFields") \/ Failed(i, "formFields")
  /\ editor' = IF ~EditorMounted(i) THEN editor
               ELSE [editor EXCEPT !.fields = IF calls[i].ok THEN calls[i].data ELSE @,
                                   !.field = IF /\ calls[i].op = "formFields"
                                                /\ calls[i].arg.then = "saveField"
                                             THEN Null ELSE @,
                                   !.fieldBusy = FALSE]
  /\ Take(i)
  /\ UNCHANGED <<busy, notice, eventDb, console>>

(***************************************************************************)
(* The streams: after a change the streams and the Event are loaded at     *)
(* once; the first failure ends the waiting.                               *)
(***************************************************************************)
StreamSection == Uses("streams") /\ InEditor /\ editor.event # Null /\ editor.waits = {}
                 /\ editor.event.status \notin {"ARCHIVED", "COMPLETED"}

EditStream(s) ==
  /\ StreamSection /\ s \in editor.streams \cup {Null} /\ s # editor.stream
  /\ editor' = [editor EXCEPT !.stream = s]
  /\ UNCHANGED <<shell, eventDb, console>>

SaveStream(s, hours, seats) ==
  /\ StreamSection
  /\ IF editor.stream = Null THEN s \notin editor.streams ELSE s = editor.stream
  /\ Ask("saveStream", [mount |-> editor.mount, id |-> editor.event.id, stream |-> s,
                        hours |-> hours, seats |-> seats, isNew |-> editor.stream = Null])
  /\ editor' = [editor EXCEPT !.waits = {Len(calls')}]
  /\ UNCHANGED <<busy, notice, eventDb, console>>

StreamSaved(i) ==
  /\ Answered(i, "saveStream")
  /\ calls' = Append(Append(Over(i), Call("streams", calls[i].arg)), Call("event", calls[i].arg))
  /\ editor' = IF EditorMounted(i)
               THEN [editor EXCEPT !.stream = Null, !.waits = {Len(calls) + 1, Len(calls) + 2}]
               ELSE editor
  /\ UNCHANGED <<page, faults, busy, notice, eventDb, console>>

ShowStreams(i) ==
  /\ Answered(i, "streams") \/ Answered(i, "event")
  /\ editor' = IF ~EditorMounted(i) THEN editor
               ELSE IF calls[i].op = "streams"
               THEN [editor EXCEPT !.streams = calls[i].data, !.waits = @ \ {i}]
               ELSE [editor EXCEPT !.event = calls[i].data, !.waits = @ \ {i}]
  /\ Take(i)
  /\ UNCHANGED <<busy, notice, eventDb, console>>

StreamsFail(i) ==
  /\ \E op \in {"saveStream", "streams", "event"} : Failed(i, op)
  /\ editor' = IF EditorMounted(i) /\ i \in editor.waits THEN [editor EXCEPT !.waits = {}]
                                                         ELSE editor
  /\ Take(i)
  /\ UNCHANGED <<busy, notice, eventDb, console>>

(***************************************************************************)
(* The server, under the lock of the Event.  Other checks (dates, slugs,   *)
(* scoring setup, registrations) may refuse any change.                    *)
(***************************************************************************)
ServeEventReads(i) ==
  /\ \/ /\ Waits(i, "events")
        /\ Done(i, {e \in Existing : calls[i].arg \/ ~Archived(e)})
     \/ /\ Waits(i, "event")
        /\ IF calls[i].arg.id \in Existing THEN Done(i, eventDb.event[calls[i].arg.id])
                                           ELSE Refused(i)
     \/ Waits(i, "formFields") /\ Done(i, FieldsOf(calls[i].arg.id))
     \/ Waits(i, "streams") /\ Done(i, StreamsOf(calls[i].arg.id))
  /\ UNCHANGED <<page, faults, busy, notice, eventVars>>

Becomes(i, e, row) == eventDb' = [eventDb EXCEPT !.event[e] = row] /\ Done(i, row)
EventRefused(i) == UNCHANGED eventDb /\ Refused(i)
Changeable(e) == e \in Existing /\ ~Archived(e)

ServeCreate(i) ==
  /\ Waits(i, "createEvent")
  /\ LET e == calls[i].arg.id
         more == calls[i].arg.more
     IN \/ /\ e \notin Existing
           /\ Becomes(i, e, NewEvent(e, more.status, more.hours, more.seats))
        \/ EventRefused(i)
  /\ UNCHANGED <<page, faults, busy, notice, console, editor>>

\* What the request leaves out stays as it is.
With(row, more) ==
  [key \in DOMAIN row |->
     IF key \in {"status", "hours", "seats", "config"} \cap DOMAIN more THEN more[key] ELSE row[key]]
\* Mutant: the streams of the Event are not looked at.
MayBecomeAnything(e, row) == row.status \in Transitions[eventDb.event[e].status]

MayBecome(e, row) ==
  LET old == eventDb.event[e] IN
  /\ \/ row.status \in Transitions[old.status]
     \/ /\ old.status = "REGISTRATION_OPEN" /\ row.status = "COMPLETED"
        /\ old.hours \subseteq PastHours
  /\ old.streamed => /\ row.seats = old.seats
                     /\ \A s \in StreamsOf(e) : eventDb.stream[s].hours \subseteq row.hours

ServeUpdate(i) ==
  /\ Waits(i, "updateEvent")
  /\ LET e == calls[i].arg.id
         more == calls[i].arg.more
         old == eventDb.event[e]
         row == With(old, more)
     IN \/ Changeable(e) /\ MayBecome(e, row) /\ Becomes(i, e, row)
        \/ EventRefused(i)
  /\ UNCHANGED <<page, faults, busy, notice, console, editor>>

\* Mutant: the replaced file is removed when the new one is stored.
StoreCoverOver(i) ==
  /\ Waits(i, "uploadCover")
  /\ LET e == calls[i].arg.id
         old == IF e \in Existing THEN eventDb.event[e].cover ELSE Null
     IN eventDb' = [eventDb EXCEPT !.files = (@ \ {old}) \cup {i}]
  /\ Began(i, [stage |-> "stored"])
  /\ UNCHANGED <<page, faults, busy, notice, console, editor>>

\* The new file is stored first; the replaced one is removed last.
StoreCover(i) ==
  /\ Waits(i, "uploadCover")
  /\ eventDb' = [eventDb EXCEPT !.files = @ \cup {i}]
  /\ Began(i, [stage |-> "stored"])
  /\ UNCHANGED <<page, faults, busy, notice, console, editor>>

SetCover(i, e, cover) ==
  LET row == [eventDb.event[e] EXCEPT !.cover = cover] IN
  /\ eventDb' = [eventDb EXCEPT !.event[e] = row]
  /\ Began(i, [stage |-> "saved", row |-> row, old |-> eventDb.event[e].cover])

\* Mutant: the Event may have been archived while the file was stored.
ServeUploadEver(i) ==
  /\ IsOpen(i, "uploadCover") /\ calls[i].data.stage = "stored"
  /\ calls[i].arg.id \in Existing
  /\ SetCover(i, calls[i].arg.id, i)
  /\ UNCHANGED <<page, faults, busy, notice, console, editor>>

\* Whatever makes the transaction fail, the new file is removed.
ServeUpload(i) ==
  /\ IsOpen(i, "uploadCover") /\ calls[i].data.stage = "stored"
  /\ LET e == calls[i].arg.id
     IN \/ Changeable(e) /\ SetCover(i, e, i)
        \/ eventDb' = [eventDb EXCEPT !.files = @ \ {i}] /\ Refused(i)
  /\ UNCHANGED <<page, faults, busy, notice, console, editor>>

ServeDeleteCover(i) ==
  /\ Waits(i, "deleteCover")
  /\ LET e == calls[i].arg.id
     IN \/ Changeable(e) /\ SetCover(i, e, Null)
        \/ ~Changeable(e) /\ EventRefused(i)
  /\ UNCHANGED <<page, faults, busy, notice, console, editor>>

ServePurge(i) ==
  /\ Waits(i, "purge")
  /\ LET e == calls[i].arg.id
     IN \/ /\ e \in Existing /\ Archived(e)
           /\ eventDb' = [eventDb EXCEPT
                !.event[e] = Null,
                !.stream = [s \in Streams |-> IF s \in StreamsOf(e) THEN Null ELSE eventDb.stream[s]],
                !.field = [f \in Fields |-> IF f \in FieldsOf(e) THEN Null ELSE eventDb.field[f]]]
           /\ Began(i, [stage |-> "saved", row |-> Null, old |-> eventDb.event[e].cover])
        \/ EventRefused(i)
  /\ UNCHANGED <<page, faults, busy, notice, console, editor>>

RemoveCover(i) ==
  /\ \E op \in {"uploadCover", "deleteCover", "purge"} : IsOpen(i, op)
  /\ calls[i].data.stage = "saved"
  /\ eventDb' = [eventDb EXCEPT !.files = @ \ {calls[i].data.old}]
  /\ Done(i, calls[i].data.row)
  /\ UNCHANGED <<page, faults, busy, notice, console, editor>>

ServeArchive(i) ==
  /\ Waits(i, "archive")
  /\ LET e == calls[i].arg.id
     IN \/ Changeable(e) /\ Becomes(i, e, [eventDb.event[e] EXCEPT !.status = "ARCHIVED"])
        \/ e \in Existing /\ Archived(e) /\ UNCHANGED eventDb /\ Done(i, eventDb.event[e])
        \/ e \notin Existing /\ EventRefused(i)
  /\ UNCHANGED <<page, faults, busy, notice, console, editor>>

ServeField(i) ==
  /\ Waits(i, "saveField") \/ Waits(i, "deactivateField")
  /\ LET e == calls[i].arg.id
         f == calls[i].arg.field
         isNew == Waits(i, "saveField") /\ calls[i].arg.isNew
         kept == Waits(i, "saveField") /\ ~isNew /\ eventDb.field[f].active
     IN \/ /\ Changeable(e)
           /\ IF isNew THEN eventDb.field[f] = Null ELSE f \in FieldsOf(e)
           /\ eventDb' = [eventDb EXCEPT !.field[f] = [event |-> e, active |-> isNew \/ kept]]
           /\ Done(i, Null)
        \/ EventRefused(i)
  /\ UNCHANGED <<page, faults, busy, notice, console, editor>>

\* save_stream: the Event gets the sum of the seats of its streams.
ServeStream(i) ==
  /\ Waits(i, "saveStream")
  /\ LET e == calls[i].arg.id
         s == calls[i].arg.stream
         new == [event |-> e, hours |-> calls[i].arg.hours, seats |-> calls[i].arg.seats]
         others == StreamsOf(e) \ {s}
     IN \/ /\ Changeable(e) /\ eventDb.event[e].status # "COMPLETED"
           /\ new.hours \subseteq eventDb.event[e].hours
           /\ IF calls[i].arg.isNew THEN eventDb.stream[s] = Null ELSE s \in StreamsOf(e)
           /\ eventDb' = [eventDb EXCEPT
                !.stream[s] = new,
                !.event[e] = Streamed(eventDb.event[e],
                                      new.seats + Seats(others, eventDb.stream))]
           /\ Done(i, Null)
        \/ EventRefused(i)
  /\ UNCHANGED <<page, faults, busy, notice, console, editor>>

\* Another administrator, or this one in another tab.
OtherEditor ==
  /\ MayClick
  /\ \/ /\ Uses("session")
        /\ calls' = Append(calls, OthersCall("logout", Null))
     \/ /\ Uses("others")
        /\ \E e \in Existing :
             \/ /\ Uses("settings") \/ Uses("cover")
                /\ \E op \in {"archive", "deleteCover", "uploadCover"} :
                     /\ op # "archive" => Uses("cover")
                     /\ calls' = Append(calls, OthersCall(op, [id |-> e]))
             \/ /\ Uses("streams")
                /\ \E h \in Spans, n \in SeatCounts :
                     calls' = Append(calls, OthersCall("updateEvent",
                                [id |-> e, more |-> [hours |-> h, seats |-> n]]))
  /\ UNCHANGED <<page, faults, busy, notice, eventVars>>

EventClicks ==
  \/ Logout \/ ToggleArchive \/ CloseEventEditor \/ CompleteEvent \/ DeleteCover
  \/ Archive \/ Purge \/ SaveConfig \/ CloseFieldForm \/ SaveField
  \/ \E role \in Roles : Login(role)
  \/ \E e \in Events \cup {Null} : OpenEditor(e)
  \/ /\ Uses("settings")
     /\ \E e \in Events, st \in EventStatuses, h \in Spans : SaveEvent(e, st, h, FirstCount, FALSE)
  \/ /\ Uses("cover")
     /\ \E e \in Events, c \in BOOLEAN : SaveEvent(e, "REGISTRATION_OPEN", Longest, FirstCount, c)
  \/ \E f \in Fields : OpenFieldForm(f) \/ DeactivateField(f)
  \/ \E s \in Streams \cup {Null} : EditStream(s)
  \/ \E s \in Streams, h \in Spans, n \in SeatCounts : SaveStream(s, h, n)

EventServes(i) ==
  ServeSession(i) \/ ServeEventReads(i) \/ ServeCreate(i) \/ ServeUpdate(i) \/ StoreCover(i)
  \/ ServeUpload(i) \/ ServeDeleteCover(i) \/ ServePurge(i) \/ RemoveCover(i) \/ ServeArchive(i)
  \/ ServeField(i) \/ ServeStream(i)

EventReceives(i) ==
  \/ SessionArrives(i) \/ ShowEvents(i) \/ EventSaved(i) \/ Purged(i) \/ SettingsFail(i)
  \/ FieldChanged(i) \/ ShowFields(i) \/ StreamSaved(i) \/ ShowStreams(i) \/ StreamsFail(i)

EventNext ==
  \/ EventClicks \/ OtherEditor
  \/ \E i \in DOMAIN calls :
       \/ EventServes(i) \/ EventReceives(i)
       \/ LoseCall(i) /\ UNCHANGED eventVars

EventSpec == EventInit /\ [][EventNext]_<<shell, eventVars>>

(***************************************************************************)
(* Properties.                                                             *)
(***************************************************************************)
\* An Event never names a cover that is not there: uploads, replacements,
\* deletions and purges of several administrators may overlap.
CoverFileExists ==
  \A e \in Existing : eventDb.event[e].cover # Null => eventDb.event[e].cover \in eventDb.files

\* The streams of an Event stay within its hours and add up to its seats,
\* whichever of both is changed, by whomever.
StreamsFitEvent ==
  \A e \in Existing : eventDb.event[e].streamed =>
    /\ eventDb.event[e].seats = Seats(StreamsOf(e), eventDb.stream)
    /\ \A s \in StreamsOf(e) : eventDb.stream[s].hours \subseteq eventDb.event[e].hours

\* After an Event is archived no request that was under way changes it, its
\* streams or its fields; it can only be purged.
ArchiveIsFinal ==
  [][\A e \in Existing :
       Archived(e) /\ eventDb'.event[e] # Null =>
         /\ eventDb'.event[e] = eventDb.event[e]
         /\ StreamsOf(e)' = StreamsOf(e) /\ FieldsOf(e)' = FieldsOf(e)
         /\ \A s \in StreamsOf(e) : eventDb'.stream[s] = eventDb.stream[s]
         /\ \A f \in FieldsOf(e) : eventDb'.field[f] = eventDb.field[f]
    ]_eventDb

\* The console shows itself as signed out only when the session has ended: a
\* logout whose request was lost leaves the administrator signed in.
LogoutIsReal ==
  [][console.user # Null /\ console'.user = Null => eventDb.session = Null]_console
=============================================================================
