# Formal model of NeuralShield Automate

TLA+ modules, TLC configurations and TLAPS proofs about NeuralShield Automate: a
FastAPI application over PostgreSQL (`src/backend/app`) in which tenants define
workflows, and background workers, webhooks, a mail poller and administrators
execute them; and a Next.js frontend (`src/frontend-web`) of pages that call it.
Paths below are relative to `src/backend/app` or, for `.ts` and `.tsx` files, to
`src/frontend-web`, unless they begin with `src/`.

**Backend.** The database session (`core/database.py:17-23`) uses PostgreSQL's
default isolation, READ COMMITTED: every statement sees what is committed when it
starts. The service is deployed with two processes (`--workers 2` in
`src/backend/Dockerfile` and in the systemd unit), each of which starts a
background worker, so everything the worker does it does concurrently with
another copy of itself and with the request handlers of both processes.

**Frontend.** A page is React state, handlers that start calls, and what their
answers do to the state. A handler runs to its first `await` in one step, the
server's part is one step per transaction, and each answer is handled in another
step: calls overlap wherever no flag disables the button, answers come in any
order, some never come (`lib/api.ts` gives up after 15 seconds, when the server
may already have acted), a page may be left and shown again while they are under
way, and tabs share one `localStorage`. That is what the page models are about.

## 1. Inventory

| Component | State | Operations | Interacts with | What is hard |
|---|---|---|---|---|
| Retry queue (`services/workflow_service.py:506-651`) | `workflow_runs`: status, `retry_count`, `next_retry_at`, `is_dead_letter`; row locks | `run_due_retries`, administrator's retry (`api/routes/admin.py:1165`) | engine, quota, workflow deletion | claim races, crash between steps, failed flush, charging of unrecorded tries |
| Scheduler (`services/workflow_scheduler.py`) | schedule columns of `workflows`; row locks | `run_due_scheduled_workflows`, create, update, activate, deactivate, delete, administrator's schedule edit | engine, quota, edits | claim races, stale `now`, unlocked deferral, poison workflows |
| Execution engine (`_execute_workflow`, `_execute_action`) | one transaction per execution, the shared payload | manual run, public webhook, tenant trigger, retry, schedule | leads, mail, integrations | swallowed database errors, batch commit of tenant triggers |
| Quota (`services/usage_limits.py`) | none: a count of `workflow_runs` of the month | `enforce_monthly_run_limit`, `enforce_workflow_create_limit` | all executions | check-then-act, deletion lowers the count, month boundary |
| Background worker (`services/background_worker.py`) | thread per process | tick: schedule pass, retry pass, Gmail poll | the three passes | an exception in one pass skips the later ones |
| Gmail poller (`services/gmail_poller.py`) | `sync_state.gmail_seen_message_ids` | poll | tenant triggers | duplicates after a failure or by two pollers, a refusal in the middle of a poll, 200-id window |
| Billing (`services/paddle_webhook_service.py`, `subscription_service.py`) | `webhook_events`, `subscriptions`, `payments` | webhook dispatch | agency commerce, quota (plan) | duplicated and reordered events, events refused at every delivery |
| Agency commerce and members | orders, entitlements, access tokens | completed transaction, fulfilment, member access | billing | idempotency, single-use tokens |
| Session of the browser (`lib/api.ts`, `lib/token-storage.ts`, `components/dashboard-shell.tsx`, `app/login`) | token pair in `localStorage` shared by the tabs, `refreshPromise` per tab | request, refresh, repeat after a 401, sign-in, sign-out, sign-up, mounting the shell | authentication, every page | simultaneous 401s, refreshes that race in two tabs, late answers |
| Sign-up and mailed links (`app/signup`, `verify-email`, `reset-password`, `resend-verification`, `forgot-password`) | flags of each page | ask for a link, open it, set a password | authentication, mail | a link opened twice, two requests for links, lost answers |
| Workflow builder (`app/dashboard/workflows/page.tsx`) | form, action list with an editor, drafts in `localStorage`, listed workflows | edit, save, restore, presets, templates, activate, delete | engine's validation | index into a list that changes, drafts of another workflow, late lists |
| Other pages (billing, leads, campaigns, integrations, API keys, templates, administration) | list, form, busy flags | load, change, reload | their routes | stale answers, shared flags, two installations or administrators at once |
| Authentication (`services/auth_service.py`) | users, refresh, verification and reset tokens | register, login, refresh, verify, reset | all routes | concurrent use of single-use tokens |
| Leads, campaigns, affiliates, templates, API keys | rows with unique keys | upserts, conversions, clone | engine | lookup-then-insert races |
| Administration (`api/routes/admin.py`) | status columns of everything | status changes, retry, schedule edit | queue, scheduler | last-administrator check, unlocked writes |
| Rate limits (`api/routes/public.py`, `api/deps.py`) | lists and counters in memory, per process | admit | public routes | one limit per process |

What makes each correct, in one line: a failed run is retried at most once per
recorded failure, never forgotten, never by two workers, and charged at most
`max_retries` tries; a scheduled slot is executed once and the schedule columns
agree; the quota is overrun by no more than others held uncommitted when it was
read; a remembered mail message was run
for every workflow it is for, and a message is triggered at least once unless newer
ones push it out of the listing; a purchase has one order, and what is paid follows
the events in order; a change is made once although its call is sent twice, and a
session ends only for a cause; a mailed link is used once and at most one of a kind
works; what is edited is saved where it came from, and what runs is what was
activated; a page shows what the server has. `PROJECT.json` lists the hazards line
by line.

## 2. Plan and state

1. **Retry queue**: `AttemptLifecycle`, `RetryQueue`, its runs, the inductive
   invariant, the refinement proof. *Done.*
2. **Scheduler**: `Scheduler`, its runs, proofs of its four invariants. *Done,
   liveness by TLC.*
3. **Session of the browser**: `Session`, its run, proofs of all its properties.
   *Done.*
4. **The pages**, each with the server code it calls: `WorkflowBuilder` and
   `ActionList`, `Account`, `Checkout`, `LeadsBoard`, `Campaigns`, `Integrations`,
   `ApiKeys`, `Templates`, `AdminUsers`, `AdminTables`, composed in `Pages`; one
   run of all, proofs of all their properties. *Done.*
5. **Mail and payments**: `GmailPoller` with the tenant trigger it calls,
   `PaddleWebhook` with the order of an agency product; runs, liveness and proofs.
   *Done.*
6. **Left**: the worker's tick as a composition of the three passes, the access
   tokens of agency members, affiliates, rate limits, and liveness of the queue
   across a month in which the quota is exhausted.

## 3. Modules

### Backend

`AttemptLifecycle` is the abstract specification of the retry queue: each
attempt (one `workflow_runs` row) is *none*, *waiting*, *done*, *superseded*,
*dead* or *deleted*; a waiting attempt is superseded by exactly one successor in
the same step, or charged a try, or given up. No processes, locks or clocks.

`RetryQueue` is the code. Committed rows are `row`; row locks are `hold`.
A status RUNNING is never committed, because a run is inserted and finished in
one transaction, so a run in execution is the control state of its worker or
session and not a row.

| Code | Action |
|---|---|
| first select of `run_due_retries` (511-524), with order and limit | `SelectDue` |
| second select FOR UPDATE SKIP LOCKED (531-553) | `Claim`, `Skip` |
| `_execute_workflow` up to the actions (687-712), quota refusal | `Execute`, `Refuse` |
| commit of the retry and of the consumed run (571-599) | `CommitRetry` |
| a flush that fails inside an action (`lead_service.py:185`), commit raises | `FailRetry`, `FailRun` |
| except branch (601-645), whose undefined `logger` then leaves the loop | `HandleFailure` |
| `manual_run_workflow`, `execute_public_webhook`: one workflow (418-481) | `StartRun`, `FinishRun` |
| `execute_tenant_trigger`: the active workflows that match an event, one after the other, before one commit (483-505) | `StartRun`, `NextRun`, `FinishRun` |
| a quota refusal in the middle of its loop: 402, everything rolled back | `RefuseRun` |
| `admin_retry_workflow_run`, first and second commit | `StartAdminRetry`, `FinishRun`, `MarkOld` |
| activate, deactivate, delete | `ActivateWorkflow`, `DeactivateWorkflow`, `DeleteWorkflow` |
| death of a process, of a request | `CrashWorker`, `CrashSession` |

What an action of a workflow does is abstracted to its outcome: all succeed, one
fails, or a database flush fails. Actions never commit. A session's transaction is
`todo` (the workflows of a trigger still to execute), `swf` (the one in hand) and
`work` (the runs it has flushed and nobody else sees); its quota check counts the
committed rows and its own `work` (`QuotaExhausted`). The month is one month
long here (the count never restarts; `Scheduler` and `GmailPoller` have the month
boundary). `tries`, `lost` and `parent` are history variables: the code never reads
them.

`Scheduler` is `run_due_scheduled_workflows` with all edits of the schedule
columns. `hold` is the FOR UPDATE lock, `busy` the KEY SHARE lock that an
uncommitted run of another session puts on its workflow through the foreign key:
SKIP LOCKED skips both, a deletion waits for both, an edit for the first. Every
workflow has a SCHEDULED trigger; the supported schedules are one `Interval`;
an edit reads the workflow without a lock (`ReadForEdit`), decides, and later
writes only the columns that differ from what it read (`CommitEdit`), as the ORM
does; what it decides from may be stale by then. The
reload and the write of a deferral are one step, since the value written does
not depend on what is reloaded. The owner-not-found branch cannot be reached
(foreign key with cascade) and is left out. `moved` is history: who wrote
`next_run_at` last, used only by properties.

`GmailPoller` is `run_gmail_new_email_poll` for one mailbox, in every process at
once, with `execute_tenant_trigger`. Nothing is locked; the column of seen ids is
read at the beginning of a poll and overwritten at its end.

| Code (`services/gmail_poller.py`, `services/workflow_service.py`) | Action |
|---|---|
| the credential is loaded, with `gmail_seen_message_ids` (48-90) | `Read` |
| `latest_messages`, the ids that are new (92-100) | `List` |
| the oldest new message is fetched, active workflows selected and matched (102-110, 484-501) | `Trigger` |
| `_execute_workflow` of one of them, quota refusal (687-704) | `RunWorkflow`, `Refuse` |
| the commit of `execute_tenant_trigger`, the id is appended (504-505, 113) | `CommitTrigger` |
| the last 200 ids are written if they differ (116-120) | `Save` |
| except branch with rollback, or death of the process (122-130) | `Fail` |
| a message arrives (external), a workflow is switched, other runs, the month ends | `Arrive`, `Toggle`, `OtherRun`, `MonthEnds` |

Messages are numbered as they arrive. `stable` (workflows active all along) and
`ended` (saved polls that triggered a message) are history.

`PaddleWebhook` is `handle_webhook_event` for the events of one account. Rows are
visible to others when committed; a flush writes the columns that differ from what
was loaded (`Written`).

| Code (`services/paddle_webhook_service.py`) | Action |
|---|---|
| look-up of the event, answer to a duplicate (66-83) | `Receive` |
| the event is inserted and committed (83-95) | `Insert` |
| `_dispatch_webhook` looks up the order or the payment (199-229, 372-391) | `Dispatch` |
| the subscription, by a later statement that may find a later row (259-300, 424-447) | `ReadSubscription` |
| a transaction without an approved plan, or of another amount (341-357, 581-597; `agency_commerce_service.py:147-153`): 400 | `Refuse` |
| `handle_completed_transaction` commits an order with entitlement and fulfilment (`agency_commerce_service.py:48-208`) | `Order` |
| the changes and the processed flag are committed, or a unique key exists by now (97-116) | `Commit` |
| 500, or death of the process (`api/routes/paddle_webhook.py:58-67`) | `Fail` |
| Paddle's data changes, Paddle delivers (external) | `Send`, `Deliver` |

A transaction of an agency product that is not completed goes past the agency
service and is refused for its price, as one whose amount is not the product's is
refused by it: the event is of kind *refused*, recorded as received, answered 400 at
every delivery and never processed. A PAUSED subscription behaves as a CANCELED one,
a payment that is past due as one that failed. `disordered` is history: did two
events overlap, or one overtake another?

### Frontend

`Session` is `lib/api.ts`, `lib/token-storage.ts` and
`components/dashboard-shell.tsx` with the server's rotation of tokens. Token pairs
are numbered as they are issued; `stored` is what `localStorage` holds for all
tabs. A call goes through `Send`, `Serve` or `TurnAway` (401), joins or starts the
tab's refresh (`getRefreshedAccessToken`), is sent again, or gives up
(`expireSession`); a refresh is tested and answered by the server in two steps
(`RefreshCheck`, `RefreshCommit`), since it reads without a lock, and then settles
its waiters (`RefreshResolve`, `RefreshReject`). Around it: `OpenDashboard`,
`ShowDashboard`, `login`, `signup`, `handleLogout`, a password reset and a disabled
account. `account`, `saver` and `late` are history.

| Module | Page and server code |
|---|---|
| `ActionList` | the action editor of the builder: drafts edited by index, the setup panel (`complete`, the page's list of settings), the translation from and to stored actions, the server's validation of actions at activation (`Required`, the server's list, with the names each setting may be stored under); a branch of a condition is the list of all actions in it, nested ones included, since the editor only ever appends to it and the server asks the same of each |
| `WorkflowBuilder` | the form around it: drafts in `localStorage`, template links, saving, row buttons, late lists; the contents of the form are one number. A request reads the workflow without a lock (`ServeRead`) and commits later (`ServeSave`, `ServeRow`), writing the columns that differ from what it read; one that the page gave up goes on at the server (`LateRead`, `LateCommit`) or never comes (`LateFails`) |
| `Account` | sign-up, resending, verification and password reset: issue, test and use of mailed links |
| `Checkout` | the billing page over several mounts, the Paddle overlay and its callback |
| `LeadsBoard` | list, search, selection and the notes of the selected lead |
| `Campaigns` | the one form for new and edited campaigns, and the rows |
| `Integrations` | status, connection and disconnection of the providers under one busy flag |
| `ApiKeys` | keys whose secret is in one answer, and the explorer |
| `Templates` | both galleries, and the server's look-up-then-copy |
| `AdminUsers` | role and status of users, by two administrators |
| `AdminTables` | the eight other tables: change, search, reload; a search of the failed runs is never answered (`Answerable`) |

A call that fails (`CallFails`) was refused, or was not answered: `lib/api.ts` aborts
after 15 seconds, and what was sent may then have been carried out, may still be, or
never is. In `WorkflowBuilder`, `LeadsBoard`, `Campaigns`, `ApiKeys`, `Integrations`
and `AdminTables` a change given up is therefore kept, as *late* or in the set of
those given up, and may take effect in any later step, after a reload that seemed to
settle the page as well.

`Pages` composes them: each behaviour is of one page, chosen at the beginning,
and the other pages' variables stay 0. Pages have no state in common (each is
unmounted when another is shown, and `Session` is about what they share), so
nothing is lost, and a single run checks them all. Its constants are those of the
pages; the bounds `MaxOpened`, `MaxLoads`, `MaxClicks`, `MaxPending`, `MaxFlight`,
`MaxChanges`, `MaxTexts` and `MaxActions` are on what a user does and has under way
(calls given up included), and `MaxLate` is on the requests that the builder gave up
and the server still works on. `PagesAssumption` is
all that the proofs about them take for granted.

`MCPages` gives `Pages` its lists of stored actions (`StoredLists`: the spellings of
a template, a condition with branches, an empty list, an action with both a message
and a text) and the categories of templates. `MCRetryQueue`, `MCScheduler`,
`MCSession` and `MCGmailPoller` give TLC symmetry sets, small definitions of
constants and the liveness specifications. The modules whose names end in `_proofs`,
and `RetryQueue_refinement`, hold the theorems.

## 4. Runs

Deadlock is not checked in any run: the clock, the row identities, the messages
and the crashes are bounded, so the models may stop where the program would not.

| Run | Instance | Shows |
|---|---|---|
| `retry_safety` | 2 workers, 1 session (requests and administrator), 1 workflow, 4 rows, limit 3, 1 crash, 1 lost execution | the safety invariants of the queue; it implements `AttemptLifecycle` |
| `retry_quota` | 2 sessions, 2 workflows, 5 rows, limit 2, no workers, 1 crash | the quota is overrun by at most the runs of both workflows that the other session held |
| `retry_live_quota` | 1 worker, the quota can run out | a due run is eventually retried, charged or given up |
| `retry_live_workers` | 2 workers, ample quota | the same although workers skip each other's locks |
| `retry_unrecorded` | 1 worker, 1 session | the finding below |
| `scheduler_safety` | 2 workers, all edits by one request at a time, across a month boundary | exclusive guarded executions, one run per slot, consistent schedule columns |
| `scheduler_live` | 2 workflows, one possibly poison, 2 workers, another session, a crash, a lost run | the other workflow is eventually executed or deferred |
| `gmail_overlap` | 2 processes, 1 workflow, 3 messages, listings and column of 2, limit 2, 1 failure | a remembered message was run, the column stays in order, repeats are bounded |
| `gmail_live` | 1 process, 2 workflows, 3 messages, listings and column of 2, limit 4, 1 other run, 1 failure | a message is recorded for all workflows it is for or for none, and handled in the end although the quota runs out |
| `paddle` | 2 handlers, 2 plans, 1 transaction, 2 events, 2 deaths | one order per purchase, rows that follow the events, every event processed that is not refused |
| `session` | 2 tabs, 2 accounts, 1 request beside the shell's, 3 token pairs, 1 lost answer | changes made once, the right account's session, no forgotten waiter, sessions that end only for a cause |
| `pages` | 2 workflows with 1 edit, 2 requests and 1 of them given up, 2 actions of 3 types, 2 tabs with 3 calls, 2 plans and mounts, 2 leads, 2 campaigns, 2 providers with 2 accounts, 2 keys, 2 templates, 2 administrators, 2 table rows, 1 lost answer | the properties of every page |

**Bounds.** Rows (`Run`): four allow a first failure, its retry, an administrator's
retry and one more. In `retry_quota` the bound is the limit of two and the two
workflows of the other session: it is reached with four rows, and five are needed to
exceed it. Workers are left out there, since a worker holds back one run as a
session with one workflow does; the theorem counts them. `MaxRetries` 2 reaches both
sides of the comparison (one failure waits, two are dead); the theorems cover the
real 3. `BatchLimit` 2 is the least in which a pass has a rest to abandon. The clock
counts minutes, so that a backoff of `n` minutes expires in the run (`MaxTime` 2);
in the scheduler the interval is shorter than the month (1 and 2, or 2 and 3), so
that a slot and a month end within the run. One `Editor` is enough for an edit to be
decided before, and written after, any step of a worker; two edits that overlap are
a known limit, below. One crash and one lost execution suffice, because each affects
one claim and the state after it is one of the states without it but for the
history. `LostLimit` matters to liveness only: an execution that fails to flush for
ever is charged for ever, until it is dead.

In the mail poller three messages and a listing of two are the least in which a
message leaves the listing and an id the column (5 and 200 in the code; the column
keeps no fewer than a poll lists, which is what the order of ids depends on). A
limit of two is exhausted between two messages of one poll, a limit of four between
two workflows of one message. Two Paddle events are the least that overlap, or
overtake each other, or buy the same thing; a third adds no new pair. Two tabs and
three pairs let one tab's refresh overtake the other's and a sign-in follow. The
pages need two of everything that a late answer could confuse. Of the action types
the run has one that the panel asks about in two spellings, a condition, and an HTTP
request, about which panel and server differ; the theorem is about all types.

**Fairness.** Each worker is weakly fair (`WF_vars(WorkerStep(w))`, in the poller
`WF_vars(Step(p))`): the thread loops for as long as its process lives and every
blocking call has a timeout. In the scheduler a run of another session ends
(`EndOther`), for the same reason. Months end (`MonthEnds`, `gmail_live` only), so
that a refused poll is tried with a new count. A webhook request ends
(`Handle`), and Paddle, which is external, delivers an event again until it is
answered with 200: that is an assumption, and the reason for which
`handle_webhook_event` answers 500 when it fails. The fairness is strong
(`SF_vars(Deliver(i))`), because all handlers may be busy again and again with events
that are refused and come back: what is bounded is not the server's requests but
`Handler`, those that the model looks at. Nothing obliges requests,
edits, arrivals, crashes or the scheduler's clock to happen. The frontend is
checked for safety only: a user may stop, and a call may never be answered.

**Why liveness of the queue is split.** With two workers *and* an exhausted quota
the property fails: each worker, refused, charges the run only if the other does
not hold it at that moment (SKIP LOCKED), and the two can keep meeting like that
for ever. No real scheduler keeps up such a lockstep, but weak fairness admits
it, so contention and refusal are checked one at a time. `gmail_live` has one
process for the same reason: two that repeat each other's messages could use up
every month's runs between them; and the limit covers what one poll needs beside
the other runs, since a tenant whose other runs take the quota every month is
refused every month. Likewise `scheduler_live` has no edits: an owner who edits a
workflow for ever keeps moving its slot.

**Mutants.** For every property of a passing run `PROJECT.json` names a definition
and a mutated form of it, placed before it in the module and marked *Mutant of*,
under which TLC finds the property violated.

## 5. Findings

- `retry_unrecorded`: an action whose flush fails is caught at
  `workflow_service.py:755` without a rollback; the commit raises and the run
  that should be FAILED is lost.

Further observations, which no run checks; the models contain the behaviour:

- `run_due_retries` logs through a name its module does not define
  (`workflow_service.py:639, 645`). The first retry that raises ends the
  pass and the rest of the worker's tick (`HandleFailure` empties the batch).
- Concurrent executions overrun the monthly limit, by at most what the sessions and
  workers beside one of them can hold uncommitted (`QuotaOvershootBounded`): a
  worker or a request for one workflow holds one run, but a tenant trigger holds a
  run of every workflow that matches. Two events that each run five workflows, begun
  with five runs left, end five above the limit.
- A quota refusal in the middle of a tenant trigger answers 402 and rolls back the
  runs of the workflows before it, although their actions did what they did outside
  (`RefuseRun`; `Refuse` in `GmailPoller`).
- An administrator's retry turns a COMPLETED run into a dead letter (`TakenOver`).
- A deferral written late overwrites a newer slot and the workflow runs again at
  once (`Defer`; `RunsSpaced` excludes moved slots).
- Clearing the schedule of an enabled workflow is accepted (`AdminSchedule`).
- Two members who edit one workflow at the same moment can leave it active,
  enabled, with a supported schedule and no `next_run_at`, so that it never runs.
  One request sets `is_active`, the other enables the schedule; each computes NULL
  from what it read and writes only its own columns. `SlotMatchesState` therefore
  excludes workflows whose last slot was left by overlapping edits
  (`moved = "overlap"`).
- While a later workflow of a message is refused for the quota, every tick repeats
  the actions of the earlier ones, although their runs are rolled back (`Refuse`).
- Paddle events that overlap or overtake each other can leave a row with columns of
  both, or make a canceled subscription active again: no code looks at
  `occurred_at`. `FollowsEvents` excludes behaviours in which that happened; an
  earlier event that comes only later does not disturb it.
- A Slack action stored with a blank `message` and a `text` counts as set up
  (`page.tsx:303-414` accepts either), but its editor takes the first of the two,
  so opening it and pressing Update loses the text. `ReviewKeepsSetup` excludes
  actions with both.
- The setup panel of the builder looks into no branch of a condition and at no HTTP
  request (`page.tsx:303-414`), and at neither schedule nor trigger, for which the
  server also refuses (`workflow_service.py:366-375`): "Setup is complete." may be
  followed by a refused activation. `SetupAgrees` says that these are the only
  differences as to actions: what the panel calls incomplete is refused, and an
  action refused beside that is an HTTP request or a condition. Schedule and trigger
  are not part of it.
- A save that reads a workflow as inactive and commits after an activation that read
  the old actions leaves it active with the new ones: the save wrote
  `is_active = False` over the `False` it had read, which is no change and is not
  written (`workflow_service.py:188-251, 394-407`). The page says "No automation runs
  until you review, save, test, and activate it." One save and one click on a row
  suffice; `ActiveIsReviewed` leaves out workflows for which a save and an activation
  were at the server at the same time (`crossed`).
- Two saves of one workflow that overlap leave columns and actions of both (`Mixed`
  in `WorkflowBuilder`, where one of unchanged contents is not told apart).
- A search of the failed runs always fails: the page asks for
  `status=FAILED?search=...` (`app/admin/failed-workflows/page.tsx:34`), the route
  compares that with an enumeration of the database (`api/routes/admin.py:994-995`,
  `models/workflow.py:110`), and the answer is 500. The rows of before stay shown
  (`Answerable`); `TableCurrent` counts it as an answer that failed.
- A call that the page gave up after 15 seconds may be carried out later, after the
  page was loaded again (`CallFails`).
- Paddle's events of an agency product whose transaction is not completed (payment
  failed, past due, canceled) are answered 400, "Paddle price is not an approved
  plan.", at every delivery and never processed (`paddle_webhook_service.py:341-357,
  596`); so is a completed one of another amount (`agency_commerce_service.py:147-153`).
  `EveryEventProcessed` is about the others.
- `suspend_tenant` and `delete_tenant` (`api/routes/admin.py:1715-1746`) disable or
  delete all users of a tenant without counting administrators. No page calls them,
  and `AdminUsers`, which is about the pages, leaves them out.
- Under a template link the list that arrives replaces what was typed meanwhile
  (`page.tsx:624-640`), and no draft holds it.
- Signing out never calls the server, so the refresh token stays valid, although
  `docs/QA_CHECKLIST.md:17` says "Confirm logout revokes refresh token."
- A property of a page that names causes ("unless ...") names ways in which the
  page does go wrong: a refresh that answers late overwrites the storage
  (`StoredFollowsLogin`), two requests for a link leave two that work
  (`LinksSound`), the overlay calls back to the first mount (`BusyForCause`),
  crossed or lost answers, or a call given up, leave a wrong status or row (`ShownIsServers`), a
  template is installed twice (`OneCopyEach`), and the last administrator is
  suspended, deleted or demoted uncounted (`AdministratorLeft`). Each such property
  says that these are the only ways. The note of a hazard in `PROJECT.json` says so
  where the cause named is the hazard itself and so is not caught.

## 6. Proofs

Every theorem is of `Spec`, for every value of the constants that the module's
assumption allows, and follows the same plan: an invariant that is inductive, the
lemma that the initial states satisfy it, one lemma per action or group of actions,
and the theorem that combines them.

**`RetryQueue_proofs`** proves `TypeCorrect`, `ClaimsSafe`, `RetryAtMostOnce`,
`NoFailureForgotten`, `ScheduleSafe`, `ChainsSafe` and `OvershootBounded`. The
assumption says that limits are natural numbers, that `MaxRetries` (3 in the code)
is not zero, that there is a workflow and there are finitely many, and that the
sentinels are distinct from what they stand beside; the last theorem needs besides
that there are finitely many workers and sessions and at least one of them
(`ProcessesAssumption`). The inductive invariant is
`IInv == TypeInv /\ ClaimsExclusive /\ RowInv /\ RetriedOnce`. None of its parts is
inductive by itself:

- `TypeInv` adds to the types that a worker inside a pass has a run in hand and
  holds a lock exactly between claim and end of transaction (`ControlShape`);
  otherwise `Head(batch)` need not be a run.
- `ClaimsExclusive`: a step of someone else leaves a claimed row alone because
  every writer of an existing row either holds it or waits until it is not locked.
- `RowInv` joins the statements about rows with `ParentsRecorded` (a parent is a
  recorded run): a retry may be committed because the claimed run is still
  waiting (`ClaimsExclusive`) and so has no successor yet (`ChainWellFormed`).
- `RetriedOnce` counts executions: a start adds one in progress, a rollback moves it
  to `lost`, a commit turns it into a successor.

`OvershootBounded` rests on `QuotaInv`: the rows recorded, one run per worker that
executes and the pairs of a session and a workflow whose run it holds (`Held`)
together stay within the bound. `QuotaOvershootBounded` alone is not inductive, since
a run that passed its check may still become a row. Whoever starts a run has found
fewer rows and runs of its own than the limit; beside those there is at most one run
per other worker and one per other session and workflow, which is
`HeldBackByOthers`. A commit turns the runs held into as many rows, a rollback drops
them.

The proof that a step preserves `RowInv` goes through `RowEffect`: every step leaves
the table alone, records a first attempt, supersedes, charges or takes over one
run, or deletes a workflow's runs. Each of the five is then shown to preserve
the invariant, and, in **`RetryQueue_refinement`**, to be one step of
`AttemptLifecycle` (theorem `Refinement`).

**`Scheduler_proofs`** proves `TypeCorrect`, `ExecutionsSafe`, `RunsApart` and
`SlotsAgree`, for a finite set of workflows. `TypeInv` adds when a worker holds a
lock; `GuardInv` says that a claimed workflow is due as of the claim, not in
another session's hands and not held twice; `SpaceInv` that a slot nobody moved lies
an interval after the last run. `SlotMatchesState` needs a statement about edits in
hand (`EditsFit`): what an edit decided fits every row that differs from the one it
read in no column the decision depends on, so merging it keeps the row consistent
(`SlotsFit`) unless a second edit came between.

**`GmailPoller_proofs`** proves `TypeCorrect`, `NothingLost`, `NeverInPart`,
`ColumnInOrder` and `RepeatsBounded`. `RunsInv`: every id in the column and in a
poll's list was run for the stable workflows, and those that the message in hand is
for are still to run or have run in this transaction. `OrderInv`: the column and
each poll's list are increasing, and a message that is missing lies `Fetch` below
one that is listed (`Closed`); so what a poll appends is newer than all its list
holds, whichever stale column it began with. The distance between two entries
(`Spread`) is part of the statement, so that cutting the list to the last `Keep >=
Fetch` keeps it closed, and no induction over lists is needed. `RepeatsBounded`: a
message is triggered by at most P(P+1)/2 polls that ended well, where P is the
number of processes. `RepeatInv` counts the polls that may still save it. While the
column knows the message, only polls under way can; but a poll that listed the
mailbox before the message arrived may overwrite the column without it, after which
every process that is not in such a poll may repeat the message once more. An old
poll ends once, and each leaves one process fewer that can do the same: hence the
triangular number (`Bounded`). With two processes that is three polls; `2P - 1`,
which comes to mind first, is exceeded by three processes.

**`PaddleWebhook_proofs`** proves `TypeCorrect`, `OrderedOnce` and `RowsFollow`.
`OrderInv`: a handler that is about to commit an agency event has its order, and an
event that was not sent is not recorded. `FollowInv`, as long as nothing is
disordered: one handler is at work at most, on an event that no processed one
follows; what it has read of the payments is current from its first look-up, and of
the subscription from the later statement that reads it (`PaymentsRead`, `Moves`);
and a replay of the events exists that arrives at those rows. A commit extends the
replay at its event. `FollowsEvents` speaks of `Replayed`, which is defined by
recursion; that it is the replay of the invariant follows from there being one at
most (`ReplayOnce`): the least number at which two replays differ has a predecessor
at which they agree. `LeastNumber` takes that number from the well-foundedness of <
in its set form, which stands in for an induction.

**`Session_proofs`** proves `TypeCorrect`, `CallsHeld`, `MadeAtMostOnce`,
`NoWaiterForgotten`, `OwnerKnown`, `OwnSession`, `CauseKnown` and the action property
`SessionEndsForCause`. `CallInv` (a tab has one refresh, which knows its waiters;
a call that the server made is not sent again) is the base; `OwnerInv` adds whose
token each refresh began with and was given, `CauseInv` that a refused refresh had a
token the server no longer honours, and that the tab which stored the tokens last
refreshes those and no others.

**`Pages_proofs`** and **`PageForms_proofs`** prove the ten properties of the run
`pages`. A step of `Pages` is a step of the page that is shown (`PageStep`), and a
property is about nothing while its page is not (`PageInit`), so each theorem has
an invariant of one page or, where a property is about several, one for each:

| Theorem | Invariant | What it adds to the property |
|---|---|---|
| `LastAdministrator` | `UserInv` | past the count, a change leaves somebody beside the user it will disable (`Left`) |
| `CopiedOnce` | `TemplateInv` | the page that is shown waits for one call alone, and a look-up that found nothing is still right (`Guarded`) |
| `ServersShown` | `IntegrationInv`, `KeyInv`, `TableInv` | what is not shown yet is on its way, and what an awaited call has read is still so but for the rows changed since, by others or by a call given up (`Sure`, `SecretsTold`, `Settled`) |
| `OpenedIsUpdated`, `PanelAgrees`, `ReviewHarmless` | `ActionsInv` | the index stays within the list, and an untouched form shows what the draft has, in whichever spelling (`Edited`, `Shows`); the page's list and the server's are compared type by type and name by name |
| `BusyEnds` | `CheckoutInv` | somebody listens while the overlay is open |
| `ReviewedRuns`, `EditsGoHome` | `BuilderInv`, `CampaignInv`, `LeadsInv` | the form, what it offers to recover, the drafts in `localStorage` and each call under way hold contents of the workflow, campaign or lead they name; of a workflow that was not crossed, an activation that has read it holds what is still there, and a save that has read it knows whether it is active (`BuilderReviewed`) |
| `LinksHold` | `AccountInv` | how far each call is and what it knows (`Fits`), and of the calls under way which uses a link (`Once`), replaces one (`OneWorks`) or is about to mail or revoke one (`WithCause`) |

TLC checked those parts of `AccountInv` on the run's instance before they were
proved. `ActionsInv` says nothing about which settings a stored action has: the server
may hand over any.

## 7. Only model-checked, and not modelled

Checked by TLC only: liveness (`DueIsHandled`, `DueIsServed`, `Handled`,
`EveryEventProcessed`), which is out of the prover's reach. Every other property of a
passing run is a theorem.

Not modelled, but could be: the sequence of passes in a tick, the workflow-count
limit and the resolution of plans, the access tokens of agency members, affiliates,
rate limits, the lockout after failed sign-ins, the public lead form, the sending
of campaigns and their status. In the modelled parts: disconnecting a mailbox in the
middle of a poll, deletion of mail and a message whose contents fail every time;
the signature of a webhook, malformed and foreign events and the period columns of a
subscription; the list of runs in the builder and copying to the clipboard; the
columns of the administration's tables and the paging of its logs.

Not to be modelled: the calls to Google, Slack and mail servers and the
outbound-HTTP address policy (I/O without state of the program), migrations,
scripts, the Celery application (it registers no task), and the pages without state
of their own (landing, legal, API documentation, dashboard overview).
