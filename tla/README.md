# WebImove backend: verification project

WebImove is a FastAPI service over MongoDB (motor, asyncio) for firms that help
clients with immigration, tax and similar procedures. A firm is a tenant with a
database of its own; the platform has one more, with the registry of tenants,
their subscriptions and the platform's invoices. Money moves through Stripe.

Three facts about the code shape every module here:

- nothing runs in a transaction. A handler is a chain of `await`s, each one
  read or one write of one collection, and between two of them any other
  handler may run, in this worker or in another;
- a guard is nearly always evaluated on a row read earlier, and the write that
  follows is by `_id`, with no condition;
- a worker may be stopped at any await (a deployment, the platform putting the
  instance to sleep), and nothing persisted says what it was doing.

So the grain is the same everywhere: **one await on the database, on GridFS, on
Stripe or on the model is one action**, a call in flight is a record in `calls`
of where it is (`pc`) and of what it has read, and a step of one call may be
followed by a step of any other. `Calls` is the set of slots: one slot is a
server that takes one call at a time, two slots are two calls at once.
Background tasks (the document analysis) and Stripe's deliveries are processes
of their own even with one slot.

## Inventory

Sources are under `src/app`. "State" is what the component keeps in the
database.

| Component | State | Operations that change it | What is hard about it | What makes it correct |
|---|---|---|---|---|
| document review (`modules/documents`, `services/storage.py`) | `documents` rows, GridFS files, `ai_analysis`, the expiry deadline, the request's status | upload, approve, reject, reanalyze, background analysis, delete | the old file is dropped before the new one is accepted; checks on a snapshot; answers of the model in any order; a task nobody holds | a reviewed document has its file; no file is lost or orphaned; the status follows the documents; an analysis ends |
| requests (`modules/requests`) | `requests`, their documents and deadlines | create, submit, accept, decline, ask for documents, open a case, complete the consultation, withdraw, attachments | guards at several doors, long chains of writes | nothing happens on a request nobody accepted; one case per request |
| cases (`modules/cases`, `services/case_progress.py`) | `cases`: stage, form, guidance | create, advance, view (re-stamps the stage), form, guidance | a count that guards a close; read-modify-write of the form | a case is closed over approved documents only |
| catalog (`modules/catalog`) | process areas, procedures, checklists | edit, seed, open a checklist for a case | the seeding race its own comment describes | a checklist joins its case |
| deadlines (`modules/deadlines`) | `deadlines` mirrored from documents and cases | upsert, drop | they are written by five services | a deadline goes with what it is about |
| platform invoices (`services/invoices.py`, `modules/admin/billing.py`) | `platform_invoices` | record from Stripe, raise by hand, settle, write off, refund | events twice and out of order; money at Stripe, words here | one row per bill; "refunded" means returned; closed stays closed |
| Stripe webhook (`modules/webhooks`) | `stripe_events` | claim, handle, release | redelivery, a worker that dies holding a claim | an event is handled once, and is handled |
| subscription (`modules/subscriptions`) | tenant status and plan, `subscriptions` | change plan, cancel | three copies of the plan (tenant, row, Stripe) written one after the other | cancelled means not charged; the plan is the one charged for |
| organizations (`modules/admin/organizations.py`) | the same | set status, override plan | races the owner and the webhook | only an administrator reopens a closed workspace |
| Stripe client (`services/stripe_service.py`) | (Stripe's) | subscribe, change, cancel, refund | the answer may be lost; what cannot be looked at is taken for gone | a failure is not taken for a success, nor the reverse |
| sign-up (`modules/auth`) | `signups`, `tenants`, `user_directory`, a new database | six onboarding steps, charge, provision, roll back | the charge is not undone by a rollback; slug taken after the charge | charge once; a charged customer can get the workspace |
| partner work (`modules/tasks`) | `tasks` with their deliverables, a `documents` row per delivery, the worklist row that chases it | create, guide, patch, set status, deliver, take back, complete | a file two rows share; a right to review that others take away meanwhile | a file a task lists is there |
| earnings (`modules/earnings`) | `earnings`, `payouts` | accrue, approve, pay out | sums of rows read earlier, a payout written before its rows are marked | money goes out for approved earnings, and what says paid is in a payout |
| membership (`modules/partners`, `modules/users`, `services/invites.py`) | `users`, `user_directory` with its invitation tokens | invite, accept, send again, revoke, suspend | seats are counted, then taken; an account is two rows in two databases | seats within the plan, but for the race; an address leads to its account |
| caseload (`modules/consultants`, `services/ownership.py`, the list functions of seven modules) | who a client, a request, a case, a document and a task belong to | delegate, hand over, take back, move a client | lists and checks are written apart; a move is one update per collection | what is listed opens and what opens is listed; a move leaves no open work behind |
| sign-in (`modules/auth`, `services/otp.py`, `services/throttle.py`, `modules/security`) | passwords, one-time codes, failure counters, refresh tokens | sign in, verify, refresh, sign out, reset, change | read-modify-write | guesses are bounded; a reset ends the sessions before it |
| messages (`modules/messages`, `services/realtime.py`) | `threads` with unread counts, `messages`, sockets | start, send, read, join a room | counter reset racing an increment | the badge is what is unread; only the thread hears |
| client invoices (`modules/billing`) | `invoices`, a counter | number, draft, send, pay, void | numbering, sending and telling are steps | told once, paid after it was sent, one number each |
| cards, prices, plans (`services/stripe_service.py`, `modules/subscriptions`, `modules/admin/billing.py`) | Stripe's cards, products and prices with a cache of them; two documents of plan overrides | save, choose, detach; make a price; edit a plan | the provider fails between two steps; nobody asks whose card is taken off; a cache outlives the API key; two documents, one laid over the other | there is something to charge; a subscription is sold at its price; an edit moves its own plan |
| agenda and worklist (`modules/agenda`, `modules/deadlines`) | `appointments`, `deadlines` | make, cancel, dismiss | the mirror is a second write | the calendar holds an appointment while it stands |
| notifications and push (`services/events.py`, `services/push.py`) | notifications, device tokens, the access token | notify, register, silence | a token shared by every push of a process | one push asks for it |
| announcements (`modules/admin/announcements.py`) | `announcements`, the inbox of the staff | create, publish, tell, delete | a walk over the workspaces that may be cut | told once, to the audience |
| support (`modules/support`) | tickets and messages | raise, answer, assign, set status | a reply is two writes | a ticket waits for the side that did not speak last |
| privacy, consents, legal texts (`modules/privacy`, `services/consents.py`, `modules/legal`) | consents with history, data requests, policies, acceptances | answer, ask; draft, publish, retire, accept | a flag and its trail; a publication retires the others | the trail holds the flag; a policy is live |
| platform staff, pictures (`modules/admin/admin_users.py`, `setup.py`, `profile.py`, `db/seed.py`, `services/storage.py`) | `platform_admins`; avatars | seed, set up, add, change, remove; upload, remove, type an address | two collections hold addresses; the old blob goes before the row is written | an administrator remains; an uploaded picture that is shown opens |
| settings, reporting, search, audit, mail, i18n, start-up | settings, audit log | single writes, reads | little | - |

How they interact: documents count themselves into the status of their request
(`_sync_request_status`), mirror dates into `deadlines` and start analyses;
requests create and delete document rows; three doors open a case from a request
and bind its documents to it; a delivery on a task makes a document, and the
task's status gives its partner the right to review; a move of a client, a
delegation and a hand-over decide what every list shows; stages, tasks and
appointments write the worklist; the webhook writes the invoices and the tenant
the owner and the administrators also write.

## Modules

| Module | What it is | Checked with | Proved in |
|---|---|---|---|
| `DocumentReview` | the documents of one request, their files, analyses, deadlines, and the request's status | `MCDocumentReview` | `DocumentReviewProofs` |
| `ReviewDesk` | what that checklist promises, an operation being one step | (as the PROPERTY `ImplementsDesk`) | - |
| `CaseOpening` | one request, the three doors to a case, its checklist, its stages | `MCCasework` | `CaseworkProofs` |
| `PartnerWork` | tasks, deliveries, the documents they make, the right to review | `MCCasework` | `CaseworkProofs` |
| `CaseFile` | a case's form, stages and their deadlines, the authority's rounds, attachments | `MCCasework` | `CaseworkProofs` |
| `Catalogue` | process areas and procedures, their seeding, the copy a case takes | `MCCasework` | `CaseworkProofs` |
| `Casework` | the modules of the four rows above, side by side; `MCCasework` is a small instance of it | `MCCasework` | `CaseworkProofs` |
| `Membership` | invitations, seats, accounts and the directory | `People` | `PeopleProofs` |
| `SignIn` | passwords, codes, second factor, counters, refresh tokens | `People` | `PeopleProofs` |
| `Caseload` | who owns a client's work, who is shown it, and the move of a client | `People` | `PeopleProofs` |
| `Avatars` | profile pictures | `People` | `PeopleProofs` |
| `Staff` | the platform's administrators | `People` | `PeopleProofs` |
| `People` | the modules of the five rows above, side by side; `MCPeople` is a small instance of it | `MCPeople` | `PeopleProofs` |
| `InvoiceLedger` | Stripe's bills and events, claims, platform invoices, administrators | `MCInvoiceLedger` | `InvoiceLedgerProofs` |
| `Workspace` | one tenant's status and plan, its subscription rows, Stripe's subscription and events | (itself) | `WorkspaceProofs` |
| `Signup` | sign-ups, their charge at Stripe, tenants, their databases, the directory and the subscription rows | `MCSignup` | `SignupProofs` |
| `Tenancy` | what a sign-up promises, every effect being one step and no call in flight | (as the PROPERTY `ImplementsTenancy`) | - |
| `PartnerLedger` | earnings and payouts | `MCOffice` | `OfficeProofs` |
| `Cards`, `Prices`, `Tariff` | the cards charged, the prices sold at, the plans' amounts | `MCOffice` | `OfficeProofs` |
| `ClientBills` | the invoices a firm sends its clients | `MCOffice` | `OfficeProofs` |
| `Conversations` | threads, messages, badges, sockets | `MCOffice` | `OfficeProofs` |
| `Assistant` | the assistant's conversations and the prompt each question makes | `MCOffice` | `OfficeProofs` |
| `PushDelivery`, `Announcements` | notifications and pushes; what the platform tells every workspace | `MCOffice` | `OfficeProofs` |
| `Worklist` | appointments and the calendar | `MCOffice` | `OfficeProofs` |
| `Helpdesk`, `Privacy`, `LegalTexts` | tickets; consents and data requests; policies | `MCOffice` | `OfficeProofs` |
| `Office` | the modules of the seven rows above, side by side; `MCOffice` is a small instance of it | `MCOffice` | `OfficeProofs` |

`PROJECT.json` maps each definition to the lines it stands for. A definition
whose name ends in a variant of another's and whose comment says "Mutant" is a
plausible mistake that is not part of any specification; each property is shown
to notice one. Where a property joins several named parts there is a mutant for
each in the modules, and `PROJECT.json` lists the one of the part that is hardest
to reach.

`Casework`, `People` and `Office` put many modules side by side and check them in one
run each. Every instance of a module is a *desk*: the initial state picks a desk, every step is a
step of that desk's module, and a property reads "at this desk, the module's
property". Desks share no step and no state. They are `INSTANCE`s over the
variables `v1` to `v7`, which stand for those of the module at the desk; `People` and
`Office` extend the module of their first desk (`Membership`, `PartnerLedger`) instead. What
such a run says of a desk is what a run of that module alone would say, and the
state spaces add up, they do not multiply. A module that takes part in one states
its assumptions as a definition (`...Assumption`), which the harness assumes of
every instance.

### DocumentReview

State: `row`, `status`, `file`, `analysis` are the fields of a `documents` row;
`blobs` is what GridFS holds and `minted` the file ids drawn; `chase` and
`expiry` are the two deadlines a document has; `reqStatus` is the request's;
`job[b]` is the background analysis of the upload of file `b`, a separate
process since `asyncio.create_task` returns at once; `lost` is history: documents
whose file went with a call that was cut short.

Actions follow `upload` (drop the old file, save the new one or refuse it, write
the row, clear the deadline, count), `approve`, `reject`, `reanalyze`,
`delete_document`, `request_documents`, `delete_request` and `_run_analysis`, one
action per await. `_sync_request_status` is three counts and a write.

Abstracted: who the caller is, names and reasons, the content of an analysis (a
state, and the file it was read from), dates (an expiry is the file it was read
from). Every analysis finds an expiry date.

### CaseOpening

State: the request's status and `case_id`, each document's status, `is_required`
and `case_id`, each case's stage. The three doors (`open_case`,
`complete_consultation`, `POST /cases`) are taken apart await by await, in the
order each writes; so are `request_documents`, the answer to a request, the
advance of a stage with the count that guards a close, `get_case`, which re-stamps a
stage, and the withdrawal. A review of a document is one step here, since
DocumentReview takes it apart, and the three counts of `_sync_request_status` are
one step; its write remains another.

### InvoiceLedger

State: `bill[b]` is what Stripe took and gave back; `sent` and `acked` are the
events it has to deliver and those it has a 2xx for; `claim[e]` is the row of
`stripe_events`; `ledger` the rows of `platform_invoices`; `handled` is history.
`Deliver` takes the claim (an insert on `_id`), `DeliverDuplicate` is the answer
to a delivery that finds it taken, `RecordFind`, `RecordUpdate`, `RecordInsert`
are `record_from_stripe`, `Handled` and `Raise` the two ends. The unique index on
the Stripe invoice id is in `RecordInsert`. A refund is asked of Stripe, may be
given and its answer lost, and is written by `_settle`. Stripe itself
(`Charge`, `Decline`) is external: a payment is reported by two types of event,
an attempt that fails by one.

### Workspace

State: `tenant` (status, plan), `subs` (the rows of `subscriptions`), `sub` (the
subscription at Stripe: its state, the plan it charges, the plan its metadata names),
`events` (sent, not handled). A plan is its rank, which is all `is_downgrade` looks at.
An event names the plan of the metadata (`PlanOf`), as `_plan_from_subscription` does:
every subscription this API made or moved has one there, and a move at Stripe's dashboard
(`Dashboard`) changes the Price and leaves it. `CancelUnseen` is the cancellation that
Stripe refuses and whose subscription cannot be retrieved either, whatever the cause:
`_can_still_bill` takes it for one that bills nobody, and `presumed`, a history, remembers
that it may have been running. The claim on an event is InvoiceLedger's; here an
event is handled to its end once, and one whose handler raises comes back
(`Raise`). `change_plan`, `cancel`, `override_plan` are taken apart, with the
call to Stripe that succeeds, is refused, or succeeds and loses its answer.
Invoice events matter here for what they do to the tenant's status only.

### Signup

State: `signup` (the rows of `signups`: which steps are done, the slug, the plan,
whether a charge is noted), `key` and `charges` (what Stripe knows under the
idempotency key of a sign-up, and how often it took money), `tenants`, `built`
(the databases that stand), `directory` (unique by address), `billed` (the
subscription rows). A call in `calls` holds the sign-up as `_load_signup` read
it: the plan, slug, password and charge it acts on are those, however old.

`start_signup` is three steps: it looks in the directory, removes what is under
way for the address, inserts. The steps in between are one action each: they
write constants, and the slug that `set_organization` finds free is nobody's until
a tenant is inserted. `complete_payment` is taken apart: guards, charge, its note on
the row, tenant, database with the owner (one step, nobody knows of the
database yet; it raises when the sign-up has no password, which the guards do
not ask for), directory, subscription row, `completed`, audit. `Raise` is a database
call of the `try` block that raises, and leads into the four steps of
`_rollback_provisioning`, each of which may raise and be passed over. `CallCut` is
a worker that stops. Under `Charge`, `Takes` is what Stripe makes of an
idempotency key: it charges once, answers the same request the same, refuses
another one. `KeyExpires` is the 24 hours after which it forgets, `SignupExpires` the
index that removes a sign-up after a week.

`lapsed` and `cut` are history: sign-ups whose key Stripe forgot before the charge
was noted, and tenants whose call was cut short or whose rollback raised.

`Tenancy` is what remains for somebody who sees neither the sign-ups' rows nor the
calls: money taken and forgotten, tenants let, databases, addresses, subscriptions,
and where something was left undone. A sign-up is paid for once for each time it was
forgotten, once at most; a tenant is let once, under a slug no other tenant has, for
a sign-up that was paid for; the address opens it when the database stands, the
subscription comes after the address; and they go in that order, the tenant after
its database, its address and subscription after it, unless the tenant is wrecked.
It implies `MoneyKept`, which is also proved by itself. `Promise`,
at the end of `Signup`, maps the variables of the one to those of the other.

### PartnerWork

State: the rows of `tasks`, the file ids in each task's `deliverables`
(`entries`), the blobs stored, the `documents` row made when a file is delivered
(`rows`), the worklist row that chases a partner (`chased`), the partner the whole
client is handed to. `deliver` is save, push, document row; taking a delivery back
is read, blob, pull, status; `update_task` and `set_status` are their writes and
their worklist rows. A review of a delivered document is its guard
(`partner_holds_case`, `assert_client_access`) and its write by id, beside everything else:
the right may be gone when the verdict lands, and no property says otherwise. The withdrawal of
the document spares a blob that some task lists (`DroppedByWithdraw`).

### CaseFile

State: the stage of one case and whether it was given a deadline, the kinds of
deadline the worklist holds for it, whose answer each form field holds, the
documents the last stage waits for, the request's attachments and their blobs. `update` is
a PATCH that sends back a list of attachments seen at an earlier GET (`UpdateRead` is that
GET): it replaces the list of the moment, and may put back an entry that was taken off
since, which the history `back` remembers.
`advance_stage` writes the stage, clears the deadline of the one it left and
writes the new one's; the authority's rounds have a deadline of their own; the
model, the client and the consultant write the form, each a read and a write of the
whole form.

### Catalogue

State: the rows of `process_areas` as they were inserted, those hidden, whether the
unique indexes are there, the procedures, the copy each case took, and which worker
processes believe the workspace is seeded. `ensure_defaults` is taken apart:
look for duplicates, delete them, build the index, upsert each default, remember.
A workspace may begin with duplicates left by an earlier release.

### Membership

State: the `users` of a workspace, the entries of the platform's `user_directory`
with their tokens, the partners with open tasks, the calls. An invitation counts seats,
inserts the account (the index on its email may refuse it), then writes the entry;
accepting finds the entry by its token, burns it, writes the account; sending again
mints a token; revoking deletes the account, then the entry. `Expire` is the date
of an invitation passing.

### SignIn

State: each account's password (the number of times it was set), status and second
factor; the refresh tokens; the emailed codes with their attempts; the failure counter,
read and written back. A call keeps what it read: the counter, the account, the
code. Sign-in at either door (`LoginRight`, `PlatformRight`), the three requests for a
code, `verify_otp` and what each door does with a right one (`VerifyWrite`,
`SecondFactor`, `FactorWrite`, `ResetWrite`), refresh, sign-out, change and "revoke
all" are taken apart at their awaits.

### Caseload

State: each client's consultant and partner, each partner's roster of consultants,
the requests, cases, documents and tasks with whom they belong to, and the moves
under way. What it checks are pairs of definitions the code writes apart: the filter
of a list (`RequestsListed`, `CasesListed`, `DocumentsListed`, ...) and the check that
opens one row (`RequestOpens`, `CaseOpens`, `DocumentOpens`, ...), for seven modules.
Moving a client is one `update_many` per collection, each a step.

### Avatars and Staff

`Avatars`: the blob each row names, the address its profile shows, the bucket, uploads and
removals as steps: save (or refuse), delete the old blob, write the row; a removal writes
the row first. PATCH /me writes any address beside whatever blob there is (`TypeAddress`). `Staff`: `platform_admins` and
the directory, which no step looks at together except the seeder and the profile; the
seeder at boot, the setup token, the addition, change and removal of an administrator, each
a check and a write.

### PartnerLedger

State: `earnings`, `payouts`, calls. Accruing is a look and an insert; a payout is a
read of the approved earnings, an insert of the header that lists them, and a write that
marks them. An amount is one unit.

### Cards, Prices, Tariff

`Cards`: whose each card is at the provider and the default; saving, choosing and
detaching are the calls to the provider they are made of, each of which may fail or have its
answer lost. Saving and choosing ask whose the card is, detaching does not, so another
customer's call may take off one of ours (`OthersDetach`); `mishap` remembers how the
customer may have come to have no default.
`Prices`: what the provider made under its idempotency keys, which it forgets in time
(`Forget`), what is remembered in the database under the hash of the API key, the key in
force and whether the environment pins a price, both of which a restart may change. Two
keys may be of one account.
`Tariff`: two documents of overrides, the newer laid over the older, and the two
endpoints that edit them, each a read and a write of a whole document.

### ClientBills

State: the rows, the counter, the notices sent. Creating takes a number, then inserts;
sending is a conditional update, then a notice; paying and voiding are conditional
updates. A crash may part any two.

### Conversations

State: who is in each thread and how much each has unread, the messages and who
read them, the sockets with their rooms. Starting looks for a thread and inserts one;
sending is an insert, a counter, the live delivery; reading is two updates.

### Assistant

State: one person's conversations and the questions under way, each with the history it
read. A question is a read (or an insert), a call to the model, one push of question and
answer, and a read for the response. `Prompt` is what `assistant_reply` sends.

### PushDelivery and Announcements

`PushDelivery`: unread records, the registry of devices, who silenced a type, the access
token with its lock, and the background tasks, dispatched after a record or awaited by
a test: gather devices, take the token (or the
lock, look again, ask for one), send, remove the dead. `Announcements`: an announcement is inserted and
told workspace by workspace; the walk ends where a worker stops or a workspace's
database raises.

### Worklist

State: the clock in half days, the appointments, their mirror in `deadlines`.
Creating is an insert and a mirror, cancelling an update and a removal. The readers
(`Overdue`, `Today`, `ThisWeek`, `ThisMonth`, and who sees what) are definitions.

### Helpdesk, Privacy, LegalTexts

A ticket with its messages: a reply is its message and its status. Consents and
their history: an answer is the flag and a row of the trail. Versions of a policy:
drafted, edited, duplicated, discarded, published (one write, then one that retires
the others), and what each reader accepted.

## Runs

| Run | Question | Result |
|---|---|---|
| `DocumentReviewRace` | two calls at once, refused files, dying workers: is a reviewed document's file there? | `ReviewedHasFile`, `FilesKept` hold |
| `DocumentReviewSerial` | one call at a time beside the analyses: does the service do what the desk promises? | `NoOrphans`, `ImplementsDesk`, `AnalysisAnswered` hold |
| `InvoiceLedgerEvents` | redelivery, disorder, raising handlers, dying workers, administrators, two calls at once | `BooksKept`, `RefundedMeansReturned` hold |
| `WorkspaceSerial` | one call at a time, events in order and outstanding, moves at Stripe's dashboard | `CancelledNotBilled`, `PlanFollowsStripe`, `ChangesAllowed` hold |
| `SignupRace` | a customer who starts over and presses twice, two calls at once, lost answers, calls that raise, dying workers | `WorkspaceWhole`, `ImplementsTenancy` hold |
| `Casework` | a client's case: opened, worked on by partners, filled in, closed | seven properties hold (below) |
| `People` | accounts, sign-in, whose work it is, pictures, staff | eight properties hold (below) |
| `Office` | money, messages, notices, the calendar, the legal side | twelve properties hold (below) |
| `DocumentReviewStaleVerdict` | is a verdict of the file the row holds? | no |
| `InvoiceLedgerLost` | does every payment end on the books? | no |
| `WorkspaceFreeReturn` | is a workspace brought back by a subscription that is paid? | no |
| `SignupAudit` | can a customer who was charged always come back for the workspace? | no |

The desks of the three harnesses:

| Run | Desk | Module | Calls | Property |
|---|---|---|---|---|
| `Casework` | pending | CaseOpening, every door but `POST /cases`, dying workers | 2 | `PendingUntouched` |
| | beside | CaseOpening, `POST /cases` beside `open_case`, dying workers | 1 | in `CaseStepsKept`: a request keeps its first case |
| | serial | CaseOpening | 1 | `CaseFollowsRequest`; in `CaseStepsKept`: no close and no completion over an unapproved document |
| | deliveries | PartnerWork, one task, two files | 2 | `DeliverableStored` |
| | file | CaseFile | 2; stage changes and writes of the form alone (`advance`, `fill`, `field`) | `FileKept`; in `CaseStepsKept`: a person's answer is not replaced by a guess |
| | areas | Catalogue, one worker, two readers, duplicates to begin with | 2 readers | `AreasOnce` |
| `People` | members | Membership | 2, revocations alone | `MembersHeld` |
| | passwords | SignIn with passwords and resets | 2, resets alone | `GuessesBounded`, `ResetSignsOut` |
| | codes | SignIn with codes and second factor | 2 | `GuessesBounded` |
| | console | SignIn of an administrator: both doors, codes, resets | 2 | `GuessesBounded` |
| | shown | Caseload, two requests of a client | - | `PartnersFind` |
| | moved | Caseload, two consultants | one move | `PartnersFind`, `MovedWhole` |
| | pictures | Avatars, a member and an administrator, addresses typed | 2 | `PictureOpens` |
| | platform | Staff | 2; removals, the seeder and the profile alone | `StaffKept` |
| `Office` | ledger | PartnerLedger, dying workers | 2 | `PayoutsHonest` |
| | wallet | Cards, other customers around | 2, one removal at a time beside the rest | `SomethingToCharge` |
| | prices | Prices, keys and pins that change, requests forgotten | 2 | `PriceFits` |
| | plans | Tariff | 1 editor | `TariffKept` |
| | billing | ClientBills, crashes | 2 | `BillsTold` |
| | talk | Conversations, three people | 2, readers alone | `ConversationsKept` |
| | chats | Assistant, one conversation | 2 | in `ConversationsKept`: the prompt alternates |
| | push | PushDelivery, two background tasks | 2 | in `NoticesOnce`: one push asks for the token |
| | news | Announcements, two workspaces | one walk each | in `NoticesOnce`: told once, to the audience |
| | calendar | Worklist, crashes | 2, creations alone | `CalendarFollows` |
| | help | Helpdesk | 2, replies and creations alone | `WaitsOnTheOther` |
| | consents | Privacy | 2 | `ConsentTraced` |
| | texts | LegalTexts | 2, publications alone | `AlwaysLive` |

"Alone" means that an operation of that kind runs with no other call of any kind
beside it, for the desk's property is false otherwise: the next section says by which race.
An operation that is not listed there runs beside the others.

### Bounds

- Documents: one in `DocumentReviewRace`, two in the serial runs, where what
  "all documents are approved" means needs a second. No property of the race run
  relates two documents but one, that they share no file, and that one is proved.
- Files: each upload draws a new id and an id is never reused, so `Blobs` bounds
  the uploads of a behaviour. Two allow a replacement, which is what the
  hazards are about.
- `Calls`: two slots where the property is claimed of any interleaving. A race in
  this code is one call's guard against another's write; the theorems below are
  for any number.
- Cases: two, so that a second one can be opened. `LastStage`: 1, a
  procedure of a single stage, at the pending desk; 2, a stage and the closing one,
  at the serial desk; 3 beside `POST /cases`, where stages between matter, and in
  the case file, whose filing and response stages are the first and the second.
- Bills: one; events of two bills touch no common row. `Rows` two, so that a
  second row of the bill, or one raised by hand, fits. `Price` 2, so that a refund
  may be partial. `MaxFaults` 1: a handler that raises gives its claim back, and
  the event starts over.
- `MaxEvents` 3 (4 in `WorkspaceFreeReturn`) and `MaxPlan` 3 (2 there): a change up, then a failure, which
  is two events, or a cancellation, any number of them outstanding; three plans so that an event may
  be about a plan that is neither the old one nor the new one.
- Rows of `subscriptions`: two, hence one change of plan by the owner; overrides and moves
  at the dashboard take no row.
- Sign-ups: one customer, two of them, so that the customer may start over beside
  a payment under way; two tenants, one for each call, so that both provision for the same slug or for the same
  address; two slugs, so that the second may be taken or free. One plan: no property of the run reads
  the plan, and `ChargedOnce` is proved for any number. `MaxFaults` 1 counts database calls
  that raise and workers that stop; Stripe's failures and lost answers are not counted.
- Partner work: one task and two files, so that one may be shared and another replace it. The
  case file: one attachment, since no step relates two. The catalogue: three rows for one key, so that the duplicates the
  unique index forbids later fit; two readers, one of which seeds; `MaxEdits` 1.
- Accounts: two, with two addresses and three invitation tokens, so that an
  invitation is sent again and another one takes the address. `PlanSeats` leaves room
  for one partner, so that the last seat is disputed, and for no consultant.
- Sign-in: `MaxFailures` 2 and `MaxAttempts` 1 stand for the
  code's larger limits: a property counts from the limit, and two calls already hide a guess from
  each other and put the counter back. Two sessions, so that one may be opened after a reset.
- Caseload: one client, two consultants and one request for the move; two
  requests, one shared with the partner and one not, for what is shown.
- Three pictures: one that replaces another while a third is on its way. Three
  addresses for two administrators: one moves to an address that is free.
- Ledger: two tasks of two partners, two earnings, two payouts, so that a
  payout may gather two rows or compete for one. Cards: three, each anybody's or nobody's
  at first, so that a removal chooses among two. Prices: three keys, two of one account, two amounts,
  three ids: a product and a price and one made again, or for another key. Bills: two, and three
  numbers, so that a number may be skipped.
- Messages: two in one thread of two out of three people, who do not all know each
  other. A prompt carries two messages of the history where the code carries ten, of a
conversation of six, so that the window cuts it and slides. One unread notice and one
  device that changes hands. Three people in two workspaces, one of each role an audience selects. One appointment in five days,
  two of which make the month the summary covers. Four messages on a ticket; two rows of trail; two
  versions of a policy.

The passing runs visit 0.5 to 3.1 million distinct states, each within four minutes on a shared machine.
Deadlock is not checked: ids run out in every instance, and a server nobody
calls stops.

### Fairness

`DocumentReview!FairSpec`: weak fairness of each background analysis. The event
loop runs a task that is ready, and the model client has a timeout, so a task
ends. Nothing is assumed of the users. In that run no worker dies: with
`MayCrash` an analysis can stay "analysing" for ever, since nothing restarts it.

`InvoiceLedger!FairSpec`: weak fairness of each step of a handler, strong
fairness of the delivery of each event, since Stripe goes on delivering one that
was not answered with a 2xx; strong because a delivery needs a free slot, and slots come and go. Even so a payment may never be recorded.

No other module states fairness: what remains of the code is calls that users make, and
no rule of it says that they make them.

## What the runs refute

These are stated in the modules. Four have a run: `VerdictOfCurrentFile`,
`PaymentsRecorded`, `ActiveMeansPaid` and `PaidCanRetry`. The others were
refuted by TLC with the same modules; where one holds under a
condition it is given, and the passing runs have it.

- `VerdictOfCurrentFile`: an analysis writes by document id. When the file was
  replaced meanwhile its verdict is put on the replacement, which the upload had
  cleared to prevent just that.
- `PaymentsRecorded`: a claim is released by an exception, not by a worker that
  stops, and a redelivery that finds it is answered for good.
- `ActiveMeansPaid`: asking for the plan one already has succeeds at the Stripe
  client whatever the state of the subscription, and `change_plan` then writes
  "active".
- `TrueMeansStopped` (Workspace): "True means *nothing will be billed again*"
  (`stripe_service.py:656`), but a retrieve that raises, for whatever cause, counts as a
  subscription that is gone (`stripe_service.py:647`), so `cancel_subscription` may return
  True over one that runs, and the workspace then reads cancelled and is charged.
- `DashboardFollowed` (Workspace): `_sync_plan` is there to "follow a plan change made at
  Stripe rather than through this API" (`webhooks/router.py:189`), but reads the
  subscription's metadata before its Price (`webhooks/router.py:166-178`), which a move at
  the dashboard leaves at the old plan.
- `PaidCanRetry`: the audit record is inside the block that is rolled back, after
  the sign-up has been marked completed. When it raises, the workspace goes and
  the mark stays, which turns every retry away.
- `PendingUntouched` with `POST /cases`: `create_case` does not read the status
  of the request it claims.
- `ClosedStands`: `record_from_stripe` sets the status of the row it finds
  whatever the row says, and the second event of a payment may come in after a
  refund.
- `NoOrphans`, `ApprovedStands`, `StatusDerived` (DocumentReview) hold with one
  call at a time, `StatusDerived` only without `ask`, whose last write is
  unconditional. With two calls two uploads drop the same old file and one new
  file is left over; an upload checked before an approval replaces what was
  approved; a call that counted earlier writes its status last.
- `FailureDropsExpiry`: when the analysis of a replacement fails, the expiry
  date of the old file stays on the worklist; the failure path does not go
  through `_track_expiry`.
- `DeadlinesGoWithDocument`: an analysis that ends after a withdrawal of its
  document puts the date back; and `delete_request` does not remove deadlines of
  the documents it deletes.
- `OneCase`, `CompletesOnApproved`, `ClosesOnApproved`, `ClientLeavesCases`
  (CaseOpening) hold with one call at a time, each falling to a write by another
  call between its guard and its write: the client who may delete a request
  without a case (`requests/service.py:199`) deletes one whose case is being
  opened. `DeclinedStands` falls to one call: `request_documents` does not refuse a declined request.
- `DocumentsFollowCase` does not hold with `POST /cases` among the doors: a
  second case opened there takes the documents and not the request.
- `PlanFollowsStripe` needs the events in order; it and `ChangesAllowed` need
  one call at a time.
- `PlanIsPaid` (Signup): the plan may be changed after the charge, and when the
  provisioning failed the retry provisions the plan that is chosen then.
- `CustomerChargedOnce`: starting over deletes the sign-up under way, charged or
  not, and with it the note that would have spared the second charge.

- `EvidenceKept` (PartnerWork): a document of a delivery shares its file with the
  task's list, and deleting the deliverable drops the file though the document was
  approved (`tasks/service.py:250`; `documents/service.py:399` calls an approved
  document "evidence a decision was taken on").
- `Traceable` (PartnerLedger): two calls that find no earning for a task each
  record one (`earnings/router.py:55`), and two payouts gather the same rows.
- `SingleUse` (Membership): an invitation read by two calls is accepted by both
  (`invites.py:152`).
- `AcceptedAsShown` (LegalTexts): a retired version may be edited and published
  again under its number (`legal/router.py:227`), so that what a reader accepted
  is no longer what the number names. One call at a time suffices.
- `OnlyNamed` (Tariff): `PUT` of a price writes both cycles of the older document
  into the newer one, and so puts back the cycle it was not asked about
  (`billing.py:240`, `billing.py:41`).

What the code does and no property speaks of, because nothing in the repository
promises otherwise, or because a promise of the docs has no state to be read from:

- *Sign-up.* Whoever is charged and finds the slug taken (free at
  `auth/service.py:95`, taken at line 265) has to set the
  organization again before any retry can provision; a worker that stops after the
  tenant is inserted leaves an active tenant nobody looks for, whose slug does the
  same; a customer who comes back after a day to a charge whose answer was
  lost is charged again, since Stripe has forgotten the key (`lapsed`); and the
  first invoice event may come before the tenant that will own it
  (`webhooks/router.py:114`), finds none, and is answered for good.
- *Invoices.* A refund is asked without an idempotency key
  (`stripe_service.py:326`): after a lost answer the row still says paid, and a
  second refund may follow.
- *Documents.* Two cases of one request opened by `POST /cases` make the partner's
  list show a request that does not open; documents of a case without a request are
  not on the client's home.
- *Membership.* Sending an invitation again beside its revocation leaves an address
  entry for a deleted user; two workspaces may invite one address; an invited account
  that was suspended becomes active by accepting; a crash between the account and
  its entry leaves an account nobody can sign in to.
- *Sign-in.* A refresh in flight survives "sign out everywhere" and a reset; a reset
  by an administrator ends no session; `verify_account_email` writes "active" whatever
  the status was; two codes sent at once are both good, and one code lets two requests
  in (`otp.py:64`, `otp.py:81`). Writing back a counter read earlier loses failures: with two
  calls a limit of two lets four guesses be made. `GuessesBounded` says what that costs, count by
  count, since the counter was last cleared: of n calls no more than n guess at zero, fewer than n times one more
  than the guesses at a count guess at the next, and fewer than n once the lock is there.
- *Assistant.* A conversation deleted while an answer is on its way takes no answer, and
  the response fails on reading it back (`ai/router.py:134`); an apology is kept as an
  answer and shown to the model as its own; an empty question is kept, left out of later
  prompts, and its answer then follows another answer (`ai_service.py:431`).
- *Caseload.* A move gives the new owner the client's documents whatever their
  status, though the comment at `consultants/router.py:150` keeps completed work
  with its owner; a submitted task stays behind; a case opened during a move keeps
  the old owner; the new consultant is not linked to the client's partner.
- *Case file.* Two writes of the form at once lose one of them, a person's answer
  among them (`cases/service.py:478`, `483`). A PATCH that sends the attachments seen
  at an earlier GET puts back one deleted since, whose blob is gone, and drops one added
  since (`requests/service.py:637-639`).
- *Partner work.* A verdict is written by id on a guard read before: a partner whose task is
  cancelled or given to another meanwhile still approves or rejects (`ownership.py:92`).
- *Cards, prices, bills.* Two removals at once leave no card. `detach_payment_method` does not ask
  whose card it is given (`stripe_service.py:518`): a customer with two cards may take off
  another's last one; and a detach of the default whose answer is lost leaves no default. A pinned
  price is sold whatever amount was asked for (`stripe_service.py:176-179`); a request forgotten
  by Stripe before its object is kept makes a second price. A client opens a draft bill
  by its id (`billing/router.py:140`, against the comment above it), and "overdue" is never written.
- *Messages.* A reader's reset beside a message loses the increment; two first
  messages at once open two threads; who may write to whom is not symmetric.
- *Notices.* A device may change hands between the read of its token and the push;
  an announcement whose walk is cut leaves the rest of the workspaces untold, and one
  published by an edit tells nobody.
- *Calendar.* An appointment cancelled between its row and its mirror leaves a
  deadline for nothing; two upserts of one deadline leave two; the month of the summary runs
  past its end (`deadlines/service.py:177`); a task's date cannot be cleared
  (`tasks/service.py:109` drops it before the code of 115 that would).
- *Legal side.* Two publications at once may leave no live version; a status set by
  hand lets a second data request open beside the first; an answer whose row of
  the trail is not written is kept all the same, at sign-up silently.
- *Staff and pictures.* The doors that make an administrator do not look for the
  address in the directory of accounts, nor the doors that make an account among the
  administrators; two removals at once leave no administrator, and two set-ups make
  two; the blob of a picture is deleted before the row stops naming it; nothing looks at the
  address typed for a picture (`users/service.py:48-52`).
- *Catalogue, plans.* Renaming a procedure may take a name in use, duplicating a
  retired one makes a retired one; two editors at once lose one plan's edit.

## Proofs

Each proof module extends its model and proves its theorems for every value of
the constants, under the named assumptions of the model (placeholders are
not ids, flags are Boolean, `Docs` finite, `Price` and `LastStage` at least 1).

- **DocumentReviewProofs.** `TypeCorrect`. `FilesKept` is not inductive: that a
  step drops a file says nothing unless we know that no other row names it. The
  invariant `FileInv` adds that ids in use have been drawn (`FilesDrawn`), that
  a file on its way in is known to its own call alone (`NewFilePrivate`,
  `NewFileSaved`), that a call's snapshot names a file of its own document or of
  none (`SnapshotOwn`), and that a row not yet inserted is empty
  (`UnbornEmpty`). `FileInvariant` proves it; `FilesAreKept` and
  `FilesAreNotShared` follow. `ReviewedDocumentsHaveFiles` is by `ReviewInv`: the
  snapshot an approval was checked on had a file, and no write takes a file off
  a row. Two more theorems assume one call at a time (`OneCall`), no worker that dies
  (`~MayCrash`) and any number of analyses, as `DocumentReviewSerial` does; with two
  calls TLC refutes both. `NoFileIsOrphaned` is by `SerialFiles`: the file a call is about to
  drop is the one its document has, and the one it lost is not stored any more.
  `ServiceIsADesk` is the refinement, `ImplementsDesk`, for any documents and files as long as some
  document is asked for at first and none later (`"ask" \notin Ops`, whose last write is
  unconditional): `SerialReview` says that a call works on a document that stays, that
  what it replaces or strikes is not approved, and that a count under way is the count of the
  documents there are; then the write of a document's row is the operation of the desk,
  the write of the request's status changes nothing there, and every other
  step of a call or an analysis is a stutter.
- **CaseworkProofs**, for the modules side by side in `Casework`, one `...OK` for each:
  the types and the inductive invariant that stands near the module's end. CaseOpening
  is proved once, for any desk `d` whose constants keep its assumption.
  - `PendingIsUntouched`, at the desk without `POST /cases`, with any number of calls and
    dying workers. `PendingInv` adds that while a request is pending no call is past a
    guard that a pending request fails, and no case has been opened; that needs the fact,
    in the type invariant, that no call holds "pending_approval" as the status to write.
  - `CaseStepsAreKept`, an action property, in three parts. Beside `POST /cases`, and with
    dying workers, one call at a time keeps the first case by `FirstInv`: a door on its way to
    the request's `case_id` found none. A close and a completion over approved documents are
    by `SerialInv`: what a call counted is still so when it writes. A person's answer is not
    replaced by a guess since `fill`, running alone, writes over the answers it read.
  - `CaseAlwaysFollows`, by the same `SerialInv`: the cases there are are the request's,
    or the one a door has inserted and not yet named, and outside the step that binds them
    the documents of a request with a case are that case's. It assumes one call at a time,
    no dying worker and no `POST /cases`, as that desk of the run does: a worker that
    dies between inserting a case and naming it leaves a case no request names.
  - `DeliveredIsStored`, with any number of calls, by `DeliverInv`: a file is listed by one
    task, a file not yet listed is in the hands of its own call, and a call that removes one
    knows the task that lists it.
  - `FileIsKept`, by `FileInv`: whoever writes back a stage or a form, being alone, read what
    there still is; a PATCH of the attachments may run beside anything, and what it puts back is
    in `back`; a file not yet listed is known to its own call, no GET having seen it, and
    one about to be deleted is listed no more, unless it was put back.
  - `AreasAreOnce`, with any number of workers, readers and duplicates to begin with, by
    `CatalogueInv`: what a seeder drops has an older row of its key, which no seeder drops
    (a set of row numbers has a least one), so no key loses its last row; and the
    index is built over no duplicates and lets none in.
- **InvoiceLedgerProofs.** `LedgerInvariant`: `LedgerInv` is the conjunction of
  the four properties with what each call in flight knows: it holds the claim
  of its event, alone (`ClaimHeld`, `HandledOnce`); the row it read is still there
  and of its bill (`RowsRead`, `RowInHand`); if it is about to write "refunded"
  Stripe has given money back (`MoneyBack`). The proof goes in three parts,
  claims, books and money, each inductive given the parts before.
  `OneInvoicePerBill`, `EventsOnce`, `HandledAreRecorded` and
  `RefundsAreReturned` follow; `BooksAreKept` joins the first three, as the run does.
- **WorkspaceProofs.** `TypeCorrect`, and `CancelledIsNotBilled` assuming
  `"close" \notin Ops`, that is, that administrators do not set a workspace to
  cancelled by hand, which never reaches Stripe. `CancelInv` adds that whoever is about
  to write "cancelled" learnt it from Stripe, or presumed it of a subscription that could not
  be seen, and that Stripe does not take a
  cancellation back. It needs neither the order of events nor a single slot.
  `OnlyAllowedChanges` and `TenantFollowsStripe` assume one call at a time (`OneCall`; TLC
  refutes both with two). The first is by `StatusInv`: the status a handler read is the
  tenant's still, and what `change_plan` bills is no less than what runs. The second, that the tenant
  has the plan Stripe charges or the one the metadata names, assumes
  events in order (`InOrder`) and no plan given away by hand (`"comp" \notin Ops`), and is
  by `RowInv`, `QueueInv` and `PlanInv`: one row is active; events are numbered and the one being handled is older than those
  that wait; the newest event about a plan has the metadata's, and where none waits the
  tenant has that plan or the one charged, or the handler at work is about to write it; a call
  about to write a plan has the one charged.
- **SignupProofs.** `TypeCorrect`. `MoneyInvariant`: `OnceInv` says that what was
  charged for a sign-up is what Stripe knows under its key, unless the key has
  lapsed; `PaidInv` that a sign-up that notes a charge, a call past the charge and a
  tenant all have one behind them. `SignupsAreChargedOnce` and `LiveTenantsArePaid`
  follow, and `MoneyIsKept` joins them. `WorkspacesAreWhole` is by `WholeInv`: a tenant is in the hands of one call
  at most (`OneHolder`); what stands of a tenant in hand is what its call has
  reached, and what its rollback has still to take (`InProgress`); a tenant not yet inserted has nothing (`UnbornUntouched`); and one
  out of everyone's hands is settled (`Settled`). None of them bounds the calls, the
  faults or the plans. `SignupImplementsTenancy` is the refinement, `ImplementsTenancy`, with
  no assumption beyond the module's own on its constants: `PromiseInv` joins the invariants above with two more. `BankInv`: what was taken for a
  sign-up is what Stripe knows of plus what it has forgotten, so a charge that is taken
  is the first it knows of. `TermsInHand`: a call past its start holds a slug and a plan. Then the charge is
  `Pay` or the answer given before, the insert of a tenant is `LetTo`, each step of
  the provisioning and of the rollback that has an effect is the step of `Tenancy` named for it (what
  `InProgress` says of the caller is its guard), a raise in a rollback and a dying
  worker are `Wreck`, and everything else is a stutter.

- **PeopleProofs**, for the modules side by side in `People`. The first section is about
  Membership by itself, and `AsMembership` shows that a behaviour of `People` is one of
  it. `TypeCorrect` needs that every account, and every
  invitation on its way, has an address (`Placed`). `SeatsAreHeld` is by `SeatInv`:
  seats taken and seats in the hands of calls that found room together pass the plan
  by at most the number of calls less one; taking a seat moves it from one
  count to the other. `MembersAreHeld` assumes that revocations run
  alone and that there is one workspace (`OneSpace`), both of which the run has too;
  `ReachInv` adds that an address is one account's (`OneRow`), that a revocation
  has nobody beside it (`RevokesAlone`), and what each call knows of the account in
  its hands (`Knows`). The other desks go like those of `Office` (below): `...OK` is the types
  and the inductive invariant that stands at the module's end. SignIn and Caseload are proved once, for
  any desk `d` whose constants keep their assumption, and used at three desks and at two:
  - `CallsInv`: what a call holds at each step, and that a session is of an account;
  - `AttemptsInv`: a guess let through and not yet counted weighs as much as a counted one
    (`Guessing`), which bounds the attempts of a code;
  - `GuessesInv`: each write of a count lets every call make one guess at it which has none uncounted
    there (`Left`), and a write of the next count is a guess at this one counted, so the
    guesses at a count and those left are fewer than n for every guess counted at the one before, and n more; the calls a
    lock finds checking a password make the last. With `AttemptsInv` it is `GuessesAreBounded`;
  - `SessionsInv`: whoever is about to open a session was let in with the password
    the account has, since a reset has nobody beside it, `ResetEndsSessions`;
  - `WorkInv` and `OneCaseInv`: requests, cases, documents and tasks name each other, and a request
    has one case where cases are opened from requests; `LinkedInv`: rosters grow with
    what is handed over; both give `PartnersAlwaysFind`;
  - `MoveInv`: what a move has done so far, and that what is opened again is opened under
    the new consultant: `MovesAreWhole`, an action property;
  - `PictureInv`: a file on its way in is known to its own call, one on its way out to its
    owner's calls, a row whose picture is gone is about to be written, and a member's row that
    shows an uploaded address names a blob: `PicturesAlwaysOpen`, of uploaded pictures;
  - `StaffInv`: whoever is about to remove an administrator leaves another, and the address a seeder or a
    profile is about to write is nobody's in a workspace: `StaffIsKept`.
  What came out of these proofs: `Owners` and `Consultants` are not empty, or an idle call and a new
  row have no value of their type, and `Calls` is finite and not empty in SignIn, which the bound counts. The bound on
  a password is stated count by count, not as one power: a closed form would be
  an induction on the counts, and the relation of each count to the one before holds for every limit and
  any number of calls.

- **OfficeProofs**, for the modules side by side in `Office`. The first section is about
  PartnerLedger by itself: `TypeCorrect`, and `PayoutsAreHonest` with any number
  of calls and worker deaths, by `PayInv`: the rows a payout has read are still
  approved or paid, and of the partner (`ReadIsDue`); a call about to mark rows has
  inserted the payout that lists them (`ReadIsListed`); so what is listed is due
  (`ListedIsDue`) and what says paid is listed (`PaidIsListed`). No list is
  overwritten, since none is empty. In the other sections a behaviour stays at its desk (`DeskMoves`),
  so each property is proved as if the desk's module stood alone: for each there is
  a predicate `...OK`, which is the module's type invariant and the inductive invariant
  that stands at the module's end, a lemma that the initial states satisfy it, one
  that every step keeps it, by actions, and the property from it. The invariants, which TLC checked on the instance first,
  say what the steps of a call know:
  - `BillsInv`: a number is one bill's or of one call about to insert it, and the call
    about to tell a client is alone in it, and the client has not been told;
  - `NewsInv`: how often each person was told is what the walk's progress says. An
    announcement has its own walk, so neither other announcements nor the staff's inbox matter;
    for the pushes `AskedOnce` is inductive with the types;
  - `TicketInv`: the call that has still to write the status spoke last;
  - `TrailInv`: an answer that stands is in the trail or on its way there;
  - `CardsInv`: the default is a card of the customer; a removal, the only one of the customer's
    under way, has seen another card than the one it takes off, which is there still unless
    another customer's call took it; and who has cards and no default met a mishap, or a call
    is naming one;
  - `PricesInv`: what is remembered was made, under its own key and in that key's account, and a request
    is made again only when it was forgotten before its object was kept;
  - `TariffInv`: what the one editor read is what there still is;
  - `PolicyInv`: whoever retires has its own version live and at most one other;
  - `CalendarInv`: an appointment no call works on and no crash touched has the mirror its status asks for;
  - `ThreadsInv`: badge plus messages inserted and not yet counted is what is unread, unless
    the reader is between the two updates of reading; who is in a room is in its thread;
  - `TurnsInv`: a conversation is questions and answers in turn and of even length. The
    window is even (`Window % 2 = 0`, the code has 10), so the part of it a prompt carries begins with a question.
  Two assumptions a run cannot show to be needed came out of the proofs and are
  in the modules: there is something to choose from (`Bills # {}`, `Amounts # {}`,
  `Plans # {}`, `Appointments # {}`), without which an idle call has no value of its type.

The type invariants `CaseworkKeepsTypes`, `OfficeTypes` and `PeopleKeepTypes` are those the three
harness runs check; those of DocumentReview, InvoiceLedger, Workspace and Signup (`TypeCorrect`)
are proved and no run repeats them.

Only model-checked: the liveness `AnalysisAnswered` (liveness under fairness is beyond the
prover). Every other property of a passing run is a theorem.

## Not modelled

`PROJECT.json` says of each component what is left out. Whole parts without a
module, and why:

- search, reports, dashboards, exports and the audit log: they read, or append a
  row nothing reads back;
- platform settings: single writes, with defaults where there is none;
- translation, mail and its wording, schemas: no state that a rule relates;
- tenant database routing and its cache of clients: connections;
- what the assistant is told of the workspace, and what a model answers;
- scripts, tests, deployment.

Inside the modules: access checks (who may call) save the ones by ownership in
`Caseload`, wording, money beyond the units
a refund is split into, dates beyond an hour of the calendar or "there is one",
and failures of MongoDB other than a worker that stops.

## Plan

Done: document review, case opening, the ledger, the workspace, the sign-up; then
partner work, the case file, the catalogue, membership, sign-in, the caseload, pictures
and staff, the partners' ledger, cards, prices and plans, client bills, messages,
the assistant, push, announcements, the worklist, support, consents and legal texts.

Left:

1. `Signup` with `Workspace`: Stripe's first event may come before the tenant.
2. An abstract specification of `PartnerLedger`, a purse: each accepted task is
   worth its amount once, which one call at a time would show.
