------------------------------ MODULE Calendar ------------------------------
(***************************************************************************)
(* The calendar accounts of one user and what is done through them:        *)
(* CalendarService.ts, CalendarReconciliationService.ts, the Google        *)
(* provider and the OAuth callback.                                        *)
(*                                                                         *)
(* Every operation reads its account first, then awaits Google, then       *)
(* writes, so operations overlap with each other, with a reconnection and  *)
(* with a disconnection.  A consent at Google is a number: the tokens it   *)
(* gave are written as that number.  The one calendar discovery selects,   *)
(* the primary one, goes by the row of its account.                        *)
(***************************************************************************)
EXTENDS Integers, FiniteSets, SequencesExt

CONSTANTS
  Call,        (* Operations that may overlap.                             *)
  Task,        (* Commitments that are pushed to a calendar.               *)
  Email,       (* Google accounts of the user.                             *)
  NoEmail,     (* The e-mail address could not be fetched: NULL.           *)
  NoTask,      (* An event that stands for no commitment.                  *)
  MaxRetries,  (* fetchWithRetry repeats a request so often.               *)
  MaxGrants,   (* Bound: consents given, so rows of calendar_accounts.     *)
  MaxEvents,   (* Bound: events created at Google.                         *)
  MaxBegun,    (* Bound: operations begun, besides connecting.             *)
  MaxTrouble   (* Bound: faults (failing statements, lost answers and      *)
               (* crashes) and consents withdrawn, together.               *)

ASSUME CalendarAssumption ==
  /\ NoEmail \notin Email /\ NoTask \notin Task /\ IsFiniteSet(Call)
  /\ {MaxRetries, MaxGrants, MaxEvents, MaxBegun, MaxTrouble} \subseteq Nat

Account == 1..MaxGrants
Grant == 1..MaxGrants
Event == 1..MaxEvents
None == 0          (* NULL for a token, a link or a row. *)

VARIABLES
  row,        (* calendar_accounts                                         *)
  connected,  (* Accounts whose calendar is in connected_calendars.        *)
  token,      (* sync_token: changes of the calendar that were read.       *)
  lastSync,   (* Accounts with a last_sync_at.                             *)
  link,       (* calendar_event_links, by external_event_id.               *)
  event,      (* The events Hevn created at Google.                        *)
  changes,    (* What was deleted in a calendar at Google, in order.       *)
  grants,     (* Consents given.                                           *)
  revoked,    (* Consents withdrawn.                                       *)
  call,       (* The operations in flight.                                 *)
  handed,     (* Deleted events given to handleDeletedExternalEvent.       *)
  covered,    (* Deleted events a complete answer of Google left out.      *)
  removed,    (* Events the user deleted at Google.                        *)
  begun,      (* Operations begun so far.                                  *)
  faults,     (* Faults so far.                                            *)
  overlaps    (* Pushes of a commitment begun during another one, and      *)
              (* deletions of an event before it was linked.               *)

accounts == <<row, connected>>
remote == <<event, changes, removed>>
seen == <<begun, handed, covered>>
history == <<seen, faults, overlaps>>
consents == <<grants, revoked>>
vars == <<row, connected, token, lastSync, link, remote, consents, call, history>>

Status == {"absent", "active", "reauth_required", "disconnected"}
Row == [status : Status, email : Email \cup {NoEmail},
        access : {None} \cup Grant, refresh : {None} \cup Grant]
NoRow == [status |-> "absent", email |-> NoEmail, access |-> None, refresh |-> None]

(* CHECK of calendar_event_links.sync_status *)
LinkStatus == {"synced", "pending_push", "pending_pull", "conflict", "deleted"}
Link == [task : Task, status : LinkStatus]
NoLink == [status |-> "absent"]

(* task: for which commitment it was created.  shows: whose title and time *)
(* it carries.                                                             *)
RemoteEvent == [account : Account, task : Task \cup {NoTask},
                shows : Task \cup {NoTask}, live : BOOLEAN]
NoEvent == [account |-> None]

Op == {"read", "create", "push", "delete", "reconcile", "discover"}
Idle == [pc |-> "idle"]

(* acc, access (the consent the tokens that were read come from) and from  *)
(* (the sync token) are read once and used later.  Google answers with the *)
(* changes after from and up to upto, and with the sync token next.        *)
Operation ==
  [pc : {"save", "discover", "look", "authorize", "persist", "request", "link",
         "stamp", "unlink", "insert", "hand", "token", "last", "mark"},
   op : Op, task : Task \cup {NoTask}, event : {None} \cup Event,
   acc : {None} \cup Account, access : {None} \cup Grant,
   email : Email \cup {NoEmail}, from : {-1} \cup Nat, upto : Nat,
   next : {-1} \cup Nat, tries : 0..MaxRetries]

TypeOK ==
  /\ row \in [Account -> Row]
  /\ connected \subseteq Account /\ lastSync \subseteq Account
  /\ token \in [Account -> {-1} \cup Nat]
  /\ link \in [Event -> Link \cup {NoLink}]
  /\ event \in [Event -> RemoteEvent \cup {NoEvent}]
  /\ changes \in [Account -> Seq(Event)]
  /\ grants \in 0..MaxGrants /\ revoked \subseteq 1..grants
  /\ call \in [Call -> Operation \cup {Idle}]
  /\ handed \subseteq Event /\ covered \subseteq Event /\ removed \subseteq Event
  /\ faults \in 0..MaxTrouble /\ overlaps \in Nat /\ begun \in 0..MaxBegun

Init ==
  /\ row = [a \in Account |-> NoRow] /\ connected = {} /\ lastSync = {}
  /\ token = [a \in Account |-> -1]
  /\ link = [e \in Event |-> NoLink] /\ event = [e \in Event |-> NoEvent]
  /\ changes = [a \in Account |-> <<>>]
  /\ grants = 0 /\ revoked = {}
  /\ call = [c \in Call |-> Idle]
  /\ handed = {} /\ covered = {} /\ removed = {} /\ begun = 0 /\ faults = 0 /\ overlaps = 0

-----------------------------------------------------------------------------
(* Faults, and the ends of an operation. *)

Trouble == faults + Cardinality(revoked)

Fault == Trouble < MaxTrouble /\ faults' = faults + 1
NoFault == UNCHANGED faults

Continue(c, pc) == call' = [call EXCEPT ![c].pc = pc]
End(c) == call' = [call EXCEPT ![c] = Idle]

At(c, pc) == call[c].pc = pc

Begins(c) == At(c, "idle") /\ begun < MaxBegun /\ begun' = begun + 1

Overlapped(others) == overlaps' = overlaps + (IF others = {} THEN 0 ELSE 1)

(* The process of an operation ends, or a statement or a request of it     *)
(* fails before it took effect: nothing more of it happens.  Where the     *)
(* code catches the error and goes on, the step itself says so.            *)
Abandon(c) ==
  /\ ~At(c, "idle") /\ Fault /\ End(c)
  /\ UNCHANGED <<accounts, token, lastSync, link, remote, consents, seen, overlaps>>

-----------------------------------------------------------------------------
(* Connecting and disconnecting an account. *)

Ids == {a \in Account : row[a].status # "absent"}
Active(a) == row[a].status = "active"

Started(pc, op, acc, email, access, from) ==
  [pc |-> pc, op |-> op, task |-> NoTask, event |-> None, acc |-> acc, access |-> access,
   email |-> email, from |-> from, upto |-> 0, next |-> -1, tries |-> 0]

(* GET /auth/google/callback: the user has consented, the code is exchanged *)
(* for tokens, and the address is asked for, which may fail.               *)
OAuthCallback(c, email) ==
  /\ Begins(c) /\ grants < MaxGrants
  /\ grants' = grants + 1
  /\ call' = [call EXCEPT ![c] = Started("save", "discover", None, email, grants + 1, -1)]
  /\ UNCHANGED <<accounts, token, lastSync, link, remote, revoked, handed, covered, faults, overlaps>>

(* Mutant: only a row that is active is found again. *)
ConflictingActive(email) == {a \in Ids : email # NoEmail /\ row[a].email = email /\ Active(a)}

(* UNIQUE (user_id, provider, account_email): NULL conflicts with nothing. *)
Conflicting(email) == {a \in Ids : email # NoEmail /\ row[a].email = email}

(* The row with that address, or a new one, named for the consent.         *)
SavedRow(c) ==
  IF Conflicting(call[c].email) = {} THEN call[c].access
  ELSE CHOOSE a \in Conflicting(call[c].email) : TRUE

SaveAccount(c) ==
  /\ At(c, "save")
  /\ LET a == SavedRow(c) IN
     /\ row' = [row EXCEPT ![a] = [status |-> "active", email |-> call[c].email,
                                   access |-> call[c].access, refresh |-> call[c].access]]
     /\ call' = [call EXCEPT ![c].pc = "discover", ![c].acc = a]
  /\ UNCHANGED <<connected, token, lastSync, link, remote, consents, history>>

(* Mutant: the tokens are forgotten, the status stays.                     *)
ForgottenOnly(r) == [r EXCEPT !.access = None, !.refresh = None]

Disconnected(r) == [r EXCEPT !.status = "disconnected", !.access = None, !.refresh = None]

(* Tool disconnect_calendar: every account of the provider.                *)
DisconnectAccount ==
  /\ \E a \in Ids : row[a] # Disconnected(row[a])
  /\ row' = [a \in Account |-> IF a \in Ids THEN Disconnected(row[a]) ELSE row[a]]
  /\ UNCHANGED <<connected, token, lastSync, link, remote, consents, call, history>>

-----------------------------------------------------------------------------
(* Reading the account an operation works with. *)

(* getAccounts and getSelectedCalendars: active accounts with a calendar.  *)
Usable == {a \in connected : Active(a)}

Opened(op, a) ==
  Started("authorize", op, a, NoEmail, row[a].refresh, IF op = "reconcile" THEN token[a] ELSE -1)

(* listUpcomingEvents, checkAvailability and findAvailableSlots read every *)
(* usable account in turn; createCalendarEvent takes the primary calendar  *)
(* of one, and so does a push.  The calendars come in no order.            *)
Read(c) ==
  /\ Begins(c)
  /\ \E a \in Usable : call' = [call EXCEPT ![c] = Opened("read", a)]
  /\ UNCHANGED <<accounts, token, lastSync, link, remote, consents, handed, covered, faults, overlaps>>

CreateCalendarEvent(c) ==
  /\ Begins(c)
  /\ \E a \in Usable : call' = [call EXCEPT ![c] = Opened("create", a)]
  /\ UNCHANGED <<accounts, token, lastSync, link, remote, consents, handed, covered, faults, overlaps>>

Pushing(t) == {c \in Call : ~At(c, "idle") /\ call[c].op = "push" /\ call[c].task = t}

(* syncCommitmentToCalendar.  (overlaps counts the pushes that cannot see  *)
(* what another one is about to link.)                                     *)
SyncCommitmentToCalendar(c, t) ==
  /\ Begins(c)
  /\ \E a \in Usable :
       call' = [call EXCEPT ![c] = [Opened("push", a) EXCEPT !.pc = "look", !.task = t]]
  /\ Overlapped(Pushing(t))
  /\ UNCHANGED <<accounts, token, lastSync, link, remote, consents, handed, covered, faults>>

DeleteCalendarEvent(c, e) ==
  /\ Begins(c) /\ event[e] # NoEvent /\ event[e].account \in Usable
  /\ call' = [call EXCEPT ![c] = [Opened("delete", event[e].account) EXCEPT !.event = e]]
  /\ UNCHANGED <<accounts, token, lastSync, link, remote, consents, handed, covered, faults, overlaps>>

(* reconcileAccount(userId, accountId), as its tests call it: an account   *)
(* that is not active is skipped; without a calendar only last_sync_at is  *)
(* written.                                                                *)
ReconcileAccount(c, a) ==
  /\ Begins(c) /\ Active(a)
  /\ call' = [call EXCEPT ![c] = [Opened("reconcile", a) EXCEPT
                                    !.pc = IF a \in connected THEN "authorize" ELSE "last"]]
  /\ UNCHANGED <<accounts, token, lastSync, link, remote, consents, handed, covered, faults, overlaps>>

(* Mutant: the link of any commitment will do. *)
LinkedInCalendar(t, a) ==
  {e \in Event : link[e] # NoLink /\ event[e].account = a}

Linked(t, a) ==
  {e \in Event : link[e] # NoLink /\ link[e].task = t /\ event[e].account = a}

(* SELECT * FROM calendar_event_links of the commitment and the calendar.  *)
LookForLink(c) ==
  /\ At(c, "look")
  /\ LET found == Linked(call[c].task, call[c].acc) IN
     call' = [call EXCEPT ![c].pc = "authorize",
                ![c].event = IF found = {} THEN None ELSE CHOOSE e \in found : TRUE]
  /\ UNCHANGED <<accounts, token, lastSync, link, remote, consents, history>>

(* discoverAndSyncCalendars reads the account again. *)
Discover(c) ==
  /\ At(c, "discover")
  /\ call' = [call EXCEPT ![c] = IF Active(call[c].acc) THEN Opened("discover", call[c].acc)
                                 ELSE Idle]
  /\ UNCHANGED <<accounts, token, lastSync, link, remote, consents, history>>

-----------------------------------------------------------------------------
(* getValidAccessToken and the request to Google. *)

(* The consent behind the tokens that were read still holds.               *)
Valid(c) == call[c].access \notin revoked

(* The access token is used unless it is about to expire.                  *)
TokenFresh(c) ==
  /\ At(c, "authorize") /\ Continue(c, "request")
  /\ UNCHANGED <<accounts, token, lastSync, link, remote, consents, history>>

(* It expires within a minute and is refreshed: ReauthRequiredError, or a  *)
(* new access token of the same consent.                                   *)
TokenRefreshed(c) ==
  /\ At(c, "authorize") /\ Continue(c, IF Valid(c) THEN "persist" ELSE "mark")
  /\ UNCHANGED <<accounts, token, lastSync, link, remote, consents, history>>

(* Mutants: the new token replaces the tokens of the row, or revives it.   *)
BothTokens(r, g) == [r EXCEPT !.access = g, !.refresh = g]
RevivedBy(r, g) == [r EXCEPT !.access = g, !.status = "active"]

WithAccess(r, g) == [r EXCEPT !.access = g]

(* The callback of CalendarService stores it, by the row's id alone; its   *)
(* error is only logged.                                                   *)
PersistToken(c) ==
  /\ At(c, "persist") /\ Continue(c, "request")
  /\ \/ row' = [row EXCEPT ![call[c].acc] = WithAccess(@, call[c].access)] /\ NoFault
     \/ row' = row /\ Fault
  /\ UNCHANGED <<connected, token, lastSync, link, remote, consents, seen, overlaps>>

(* 401 *)
Rejected(c) ==
  /\ At(c, "request") /\ ~Valid(c) /\ Continue(c, "mark")
  /\ UNCHANGED <<accounts, token, lastSync, link, remote, consents, history>>

(* updateAccountStatus(..., "reauth_required", ...): whatever the row has  *)
(* become since it was read.                                               *)
MarkReauth(c) ==
  /\ At(c, "mark") /\ End(c)
  /\ row' = [row EXCEPT ![call[c].acc].status = "reauth_required"]
  /\ UNCHANGED <<connected, token, lastSync, link, remote, consents, history>>

Accepted(c, op) == At(c, "request") /\ Valid(c) /\ call[c].op = op

(* listEvents.  One account that must be connected again ends the reading. *)
EventsRead(c) ==
  /\ Accepted(c, "read")
  /\ call' = [call EXCEPT ![c] = Idle]
  /\ UNCHANGED <<accounts, token, lastSync, link, remote, consents, history>>

CalendarsListed(c) ==
  /\ Accepted(c, "discover") /\ Continue(c, "insert")
  /\ UNCHANGED <<accounts, token, lastSync, link, remote, consents, history>>

(* INSERT INTO connected_calendars ... ON CONFLICT DO UPDATE *)
InsertCalendar(c) ==
  /\ At(c, "insert") /\ End(c)
  /\ connected' = connected \cup {call[c].acc}
  /\ UNCHANGED <<row, token, lastSync, link, remote, consents, history>>

-----------------------------------------------------------------------------
(* Events: created, updated and deleted at Google, linked here.            *)

Unused == {e \in Event : event[e] = NoEvent}
NextEvent == CHOOSE e \in Unused : TRUE

(* events.insert has no key of its own: each request makes an event.       *)
Created(c) ==
  event' = [event EXCEPT ![NextEvent] =
              [account |-> call[c].acc, task |-> call[c].task, shows |-> call[c].task, live |-> TRUE]]

Creating(c) ==
  /\ At(c, "request") /\ Valid(c) /\ Unused # {}
  /\ call[c].op = "create" \/ (call[c].op = "push" /\ call[c].event = None)

EventCreated(c) ==
  /\ Creating(c) /\ Created(c)
  /\ call' = [call EXCEPT ![c] = IF @.op = "create" THEN Idle
                                 ELSE [@ EXCEPT !.pc = "link", !.event = NextEvent]]
  /\ UNCHANGED <<accounts, token, lastSync, link, changes, removed, consents, history>>

(* The answer is lost; fetchWithRetry sends the request again.             *)
CreationUnanswered(c) ==
  /\ Creating(c) /\ Created(c) /\ Fault
  /\ IF call[c].tries = MaxRetries THEN End(c) ELSE call' = [call EXCEPT ![c].tries = @ + 1]
  /\ UNCHANGED <<accounts, token, lastSync, link, changes, removed, consents, seen, overlaps>>

(* Mutant: the event is not linked.                                        *)
InsertedNowhere(t) == NoLink

InsertedLink(t) == [task |-> t, status |-> "synced"]

InsertLink(c) ==
  /\ At(c, "link") /\ End(c)
  /\ link' = [link EXCEPT ![call[c].event] = InsertedLink(call[c].task)]
  /\ UNCHANGED <<accounts, token, lastSync, remote, consents, history>>

(* events.patch of the linked event; one that is gone is an error, which a *)
(* push logs.                                                              *)
EventUpdated(c) ==
  /\ Accepted(c, "push") /\ call[c].event # None
  /\ IF event[call[c].event].live
     THEN Continue(c, "stamp") /\ event' = [event EXCEPT ![call[c].event].shows = call[c].task]
     ELSE End(c) /\ event' = event
  /\ UNCHANGED <<accounts, token, lastSync, link, changes, removed, consents, history>>

StampLink(c) ==
  /\ At(c, "stamp") /\ End(c)
  /\ link' = [link EXCEPT ![call[c].event] = IF @ = NoLink THEN @ ELSE [@ EXCEPT !.status = "synced"]]
  /\ UNCHANGED <<accounts, token, lastSync, remote, consents, history>>

Gone(e) ==
  /\ event' = [event EXCEPT ![e].live = FALSE]
  /\ changes' = IF event[e].live THEN [changes EXCEPT ![event[e].account] = Append(@, e)] ELSE changes

(* events.delete; 404 and 410 mean that it is deleted already.             *)
EventDeleted(c) ==
  /\ Accepted(c, "delete") /\ Continue(c, "unlink") /\ Gone(call[c].event)
  /\ Overlapped({d \in Call : At(d, "link") /\ call[d].event = call[c].event})
  /\ UNCHANGED <<accounts, token, lastSync, link, removed, consents, seen, faults>>

(* Mutant: the link is kept, as deleted.                                   *)
MarkedDeleted(e) ==
  [link EXCEPT ![e] = IF @ = NoLink THEN @ ELSE [@ EXCEPT !.status = "deleted"]]

Unlinked(e) == [link EXCEPT ![e] = NoLink]

DeleteLink(c) ==
  /\ At(c, "unlink") /\ End(c)
  /\ link' = Unlinked(call[c].event)
  /\ UNCHANGED <<accounts, token, lastSync, remote, consents, history>>

-----------------------------------------------------------------------------
(* reconcileAccount. *)

(* Mutant: the token is stored with the answer, before the changes are     *)
(* looked at.                                                              *)
TokenAtOnce(c, next) == IF next = -1 THEN token ELSE [token EXCEPT ![call[c].acc] = next]

TokenAfterFetch(c, next) == token

Answer(c, from, upto, next) ==
  /\ call' = [call EXCEPT ![c].pc = "hand", ![c].from = from, ![c].upto = upto, ![c].next = next]
  /\ token' = TokenAfterFetch(c, next)

(* incrementalSync.  With a token that Google still knows: the changes     *)
(* since, and a new token unless there are more pages, which are not read. *)
(* Otherwise everything there is, in which no deleted event appears.       *)
ChangesRead(c) ==
  /\ Accepted(c, "reconcile")
  /\ LET all == Len(changes[call[c].acc]) IN
     \/ /\ call[c].from # -1 /\ covered' = covered
        /\ \/ Answer(c, call[c].from, all, all)
           \/ \E n \in call[c].from..(all - 1) : Answer(c, call[c].from, n, -1)
     \/ /\ covered' = covered \cup ToSet(changes[call[c].acc])
        /\ \E next \in {-1, all} : Answer(c, all, all, next)
  /\ UNCHANGED <<accounts, lastSync, link, remote, consents, begun, handed, faults, overlaps>>

(* An error is logged, and the next calendar taken: there is none.         *)
SyncFails(c) ==
  /\ (At(c, "authorize") \/ At(c, "request")) /\ call[c].op = "reconcile"
  /\ Fault /\ Continue(c, "last")
  /\ UNCHANGED <<accounts, token, lastSync, link, remote, consents, seen, overlaps>>

(* Mutant: the table has no CHECK constraint.                              *)
WithAnyStatus(l, s) == IF l # NoLink THEN [l EXCEPT !.status = s] ELSE l

(* A row that violates the CHECK constraint is refused; the error is       *)
(* logged.                                                                 *)
WithStatus(l, s) == IF l # NoLink /\ s \in LinkStatus THEN [l EXCEPT !.status = s] ELSE l

(* handleDeletedExternalEvent for the next event that was deleted, or, in  *)
(* the end, to the sync token.  (detectConflicts changes nothing.)         *)
HandDeleted(c) ==
  /\ At(c, "hand") /\ call[c].from < call[c].upto
  /\ LET e == changes[call[c].acc][call[c].from + 1] IN
     /\ link' = [link EXCEPT ![e] = WithStatus(@, "deleted_remotely")]
     /\ handed' = handed \cup {e}
  /\ call' = [call EXCEPT ![c].from = @ + 1]
  /\ UNCHANGED <<accounts, token, lastSync, remote, consents, begun, covered, faults, overlaps>>

AllHanded(c) ==
  /\ At(c, "hand") /\ call[c].from = call[c].upto
  /\ Continue(c, IF call[c].next = -1 THEN "last" ELSE "token")
  /\ UNCHANGED <<accounts, token, lastSync, link, remote, consents, history>>

(* updateSyncToken, whose error is only logged.                            *)
UpdateSyncToken(c) ==
  /\ At(c, "token") /\ Continue(c, "last")
  /\ \/ token' = [token EXCEPT ![call[c].acc] = call[c].next] /\ NoFault
     \/ token' = token /\ Fault
  /\ UNCHANGED <<accounts, lastSync, link, remote, consents, seen, overlaps>>

UpdateAccountLastSync(c) ==
  /\ At(c, "last") /\ End(c)
  /\ lastSync' = lastSync \cup {call[c].acc}
  /\ UNCHANGED <<accounts, token, link, remote, consents, history>>

-----------------------------------------------------------------------------
(* The user at Google. *)

Revoke(g) ==
  /\ g <= grants /\ g \notin revoked /\ Trouble < MaxTrouble
  /\ revoked' = revoked \cup {g}
  /\ UNCHANGED <<accounts, token, lastSync, link, remote, grants, call, history>>

RemoveEvent(e) ==
  /\ event[e] # NoEvent /\ event[e].live
  /\ Gone(e) /\ removed' = removed \cup {e}
  /\ UNCHANGED <<accounts, token, lastSync, link, consents, call, history>>

-----------------------------------------------------------------------------

Begin(c) ==
  \/ \E email \in Email \cup {NoEmail} : OAuthCallback(c, email)
  \/ Read(c) \/ CreateCalendarEvent(c)
  \/ \E t \in Task : SyncCommitmentToCalendar(c, t)
  \/ \E e \in Event : DeleteCalendarEvent(c, e)
  \/ \E a \in Account : ReconcileAccount(c, a)

AccountStep(c) ==
  \/ SaveAccount(c) \/ Discover(c) \/ TokenFresh(c) \/ TokenRefreshed(c) \/ PersistToken(c)
  \/ Rejected(c) \/ MarkReauth(c) \/ EventsRead(c) \/ CalendarsListed(c) \/ InsertCalendar(c)

EventStep(c) ==
  \/ LookForLink(c) \/ EventCreated(c) \/ CreationUnanswered(c) \/ InsertLink(c)
  \/ EventUpdated(c) \/ StampLink(c) \/ EventDeleted(c) \/ DeleteLink(c)

SyncStep(c) ==
  \/ ChangesRead(c) \/ SyncFails(c) \/ HandDeleted(c) \/ AllHanded(c)
  \/ UpdateSyncToken(c) \/ UpdateAccountLastSync(c)

Next ==
  \/ \E c \in Call : Begin(c) \/ AccountStep(c) \/ EventStep(c) \/ SyncStep(c) \/ Abandon(c)
  \/ DisconnectAccount
  \/ \E g \in Grant : Revoke(g)
  \/ \E e \in Event : RemoveEvent(e)

Spec == Init /\ [][Next]_vars

-----------------------------------------------------------------------------
(* Properties. *)

(* An account an operation finds active has an access token, whatever      *)
(* reconnections, disconnections and late refreshes overlapped: the check  *)
(* for a missing token in getValidAccessToken never fires.                 *)
ActiveHoldsToken == \A a \in Account : Active(a) => row[a].access # None /\ row[a].refresh # None

(* disconnectAccount forgets the consent for good.  (A refresh in flight   *)
(* may store its access token again, which lives for an hour.)             *)
RefreshForgotten == \A a \in Account : row[a].status = "disconnected" => row[a].refresh = None

(* A Google account with a known address has one row, however often it is  *)
(* connected, so a commitment is not pushed to two rows of one calendar.   *)
OneRowPerEmail ==
  \A a, b \in Ids : row[a].email = row[b].email /\ row[a].email # NoEmail => a = b

(* Only saveAccount, with a new consent, makes an account active again:    *)
(* no operation that was in flight undoes a disconnection or a status of   *)
(* reauth_required.                                                        *)
OnlyConsentRevives ==
  [][\A a \in Account : ~Active(a) /\ Active(a)' =>
       \E c \in Call : At(c, "save") /\ row'[a].refresh = call[c].access]_vars

(* A push writes only to the event of its own commitment.                  *)
ShowsOwnTask == \A e \in Event : event[e] # NoEvent => event[e].shows = event[e].task

Entries(t, a) ==
  {e \in Event : event[e] # NoEvent /\ event[e].account = a /\ event[e].task = t /\ event[e].live}

(* "Push a Hevn commitment to connected external calendar(s) idempotently"  *)
(* as far as it goes: a commitment has one live event in a calendar, and   *)
(* each further one is due to a fault (a lost answer, a failing INSERT, a  *)
(* crash) or to a push that overlapped another.                            *)
DuplicatesPaid ==
  \A t \in Task, a \in Account : Cardinality(Entries(t, a)) <= 1 + faults + overlaps

Dangling == {e \in Event : link[e] # NoLink /\ ~event[e].live /\ e \notin removed}

BeingDeleted(e) ==
  \E c \in Call : call[c] # Idle /\ call[c].op = "delete" /\ call[c].event = e

(* deleteCalendarEvent deletes two things: each link that outlives an      *)
(* event deleted by it is about to be deleted, or is due to a fault or to  *)
(* a push that had not linked it yet.                                      *)
DanglingPaid == Cardinality({e \in Dangling : ~BeingDeleted(e)}) <= faults + overlaps

(* The sync token never passes a deletion that was not handed on, unless   *)
(* Google's answer could not contain it: a reconciliation that dies        *)
(* half-way, or overlaps another, is repeated from where it began.         *)
NothingSkipped ==
  \A a \in Account : \A i \in 1..token[a] : changes[a][i] \in handed \cup covered

(* Accounts, tokens and addresses agree whatever operations overlap.       *)
AccountsSound == TypeOK /\ ActiveHoldsToken /\ RefreshForgotten /\ OneRowPerEmail

(* Events at Google and their links agree with the commitments, up to what *)
(* a fault or an overlap accounts for.                                     *)
PushesPaid == ShowsOwnTask /\ DuplicatesPaid /\ DanglingPaid
=============================================================================
