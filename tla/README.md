# Bind Plane: specifications, model checking and proofs

Bind Plane lets operators release static ARP bindings on switches, watches the
switches (reachability, configuration backups, compliance rules, alerts) and
comes with an account subsystem (users, roles, sessions, mail). The current
generation lives in `next/`: an API in Go (`next/api`), a worker in Python
(`next/worker`), PostgreSQL between them, and a browser application
(`next/admin`). The first generation (`backend/`, `frontend/`) is still in the
repository and shares its command-profile parser with the new worker.

This directory holds TLA+ modules that are translations of that code, TLC
configurations that check them on small instances, and TLAPS proofs of their
most important properties. `PROJECT.json` is the index: components, runs,
mutants, the definition-to-source map, hazards, findings and theorems.

## 1. Inventory

### Parts and how they interact

| part | state | operations | talks to |
|---|---|---|---|
| release jobs, API side (`release/store.go`, `retry.go`, `http.go`) | rows of `bp_release_jobs` | Prepare, Confirm, Retry | worker, through the table |
| release jobs, worker side (`worker/main.py`) | lease columns of the same rows; locals of an executor | sweep_expired, claim, heartbeat, device_task with its checkpoints | API, through the table; the switch |
| assets (`release/admin_edit.go`) | switches, profiles, credentials, networks, each with a version | edits, guarded by the version | a job pins what it observed |
| address resolution (`release/resolution.go`) | none | ResolveNetwork: longest-prefix ownership | Prepare, Confirm |
| device operations (`release/ops.go`, `worker/devices.py`) | `bp_device_task_items`, `bp_config_backups`, `bp_alerts`, status columns of switches | enqueue, sweep, claim, check, back up, acknowledge, prune | scheduler, switch, compliance |
| schedules (`release/ops_schedules.go`) | `bp_schedules`: expression, enabled, next run | create, edit, run now, run what is due | enqueues device tasks |
| cron expressions (`release/cron.go`) | none | ParseCron, Next | schedules |
| compliance (`release/ops_compliance.go`) | rules, results, alerts | create and edit rules, evaluate | backups, alerts |
| mail outbox (`auth/adapter/postgres/outbox.go`, `mail_tasks.go`, `auth/application/mail_dispatcher.go`) | `auth_mail_outbox`, `auth_mail_task_attempts` | enqueue, sweep, clean up, claim, send, acknowledge, retry, delete | account operations, SMTP |
| users, roles, sessions, passwords (`auth/adapter/postgres/access.go`, `sessions.go`, `password_resets.go`) | accounts with an auth version, roles, assignments, sessions | edits under row locks in one global order; login, logout, new passwords | mail outbox |
| invitations, settings, identity, setup | singleton and one-time rows | edits guarded by a revision | mail outbox |
| limiter, process lifecycle (`cmd/server`) | buckets; running work and deadlines | allow; start, drain, stop | dispatcher, HTTP server |
| administration interface (`next/admin`) | per tab: query cache, draft store, forms, dialogs, the address, language and theme; the browser's storage, shared by tabs | read, poll, edit, save, confirm, page, search, sign in and out | API; other tabs, through storage events |
| first-generation frontend (`frontend/`) | per tab: token, query cache, forms, tables in the address | the same on fewer pages | its API, which is modelled as far as its jobs are seen |
| first generation (`backend/`) | release jobs and RQ messages | confirm, enqueue, execute | queue, switch |

### What is hard here

* **A command that cannot be taken back.** Removing a binding is not
  idempotent and the answer of a switch may be lost. The promise of
  `next/README.md:5` is that a command which may have reached a switch is never
  repeated by the system. Leases expire while their holder still works, the
  holder's writes come late, and the 20 s that a checkpoint is waited for may
  end before its transaction does.
* **Several processes on one table.** Workers, API processes and dispatchers
  claim by `FOR UPDATE SKIP LOCKED` and meet in every order; an expired claim
  has two executors at once.
* **Locks of many rows.** Changes of roles and accounts take an address, role
  rows and user rows in a global order, decide on what they read under them, and
  must neither wait in a circle nor, together, remove the last administrator.
* **Observations that age.** What was resolved, observed or compared is used
  after an unlock, an await or a transaction: pinned versions, the latest
  configuration version, the password a login verified.
* **Answers that come late.** A browser page sends what it was shown, and by the
  time of the answer it may show another object, another filter, a form with
  newer work, nothing at all, or another user.
* **Half of it done.** A process may stop between any two transactions.
* **Things that must happen eventually**: jobs end, due schedules fire, alerts
  appear and clear, mail is sent or given up, pages come to show what is so.

What makes each part correct is stated as the properties of section 3; the
hazards, each at its line, are in `PROJECT.json`.

## 2. Modules

On the server, one database transaction, or one interaction with a switch or
the SMTP server, is one step of a model; where a transaction takes several row
locks that matter (`Access`), each lock is a step. In a browser one callback is
one step, and React's effects, requests and their answers, timers and storage
events are steps of their own. Locals that survive such a step are variables.
Contents that no property tells apart (texts, messages, credentials, times of
day) are model values; times are reduced to "due", "expired" or a small clock.

### The servers

| module | models | state | composed with |
|---|---|---|---|
| `ReleaseJobs` | API store, asset edits, worker | `row`, `status`, `phase`, `before`, `after`, `token`, `live` are columns; `pc`, `job`, `held`, `dep`, `obs`, `aft`, `fin`, `command_may_have_run` the locals of a worker; `late` the checkpoints nobody waits for; `sent`, `sentTo`, `seen` history | the answer of `Resolution` is its `route` |
| `ReleasePromise` | the abstract specification of releases: asked for, started when the address is free, commanded once, concluded truthfully or in doubt for good | `stage`, `target`, `commands` | `ReleaseJobs` implements it |
| `Resolution` | the loop of ResolveNetwork | loop variables | |
| `DeviceOps` | enqueueing, worker's device loop, alerts | item columns, versions, alerts, locals by item, `reachBy` history | |
| `Schedules` | schedule edits and the scheduler | rows, clock, tasks, scheduler call | an occurrence of `Cron` is its `Match`; its tasks are what `DeviceOps` enqueues |
| `Cron` | ParseCron on parsed fields, CronSchedule.Next | the walk of Next | |
| `Compliance` | rules and the evaluator's statements | rules, backups, results, alerts, position of a pass | its backups are those of `DeviceOps` |
| `MailOutbox` | outbox and dispatchers | row columns, attempt history, locals of a dispatcher, `delivered` and `lost` history | |
| `Access` | assignments, role edits and deletions, the life of accounts, new passwords, logins | `permissions`, `revision`, `holds`, `account`, `auth_version`, `sessions` are columns; `call` the open transactions, `held` the row and advisory locks, `login` a login under way; `secret` history | |

### The administration interface

| module | models | state |
|---|---|---|
| `AdminDrafts` | the draft store with its owner; five kinds of editors; their submissions; every way a session begins and ends | store, mounted editors, requests in flight, server revisions |
| `SaveRegister` | the abstract specification of a save: a register written by compare-and-swap | registers, saves on their way |
| `AdminLists` | users, invitations, roles, online users, e-mail tasks, operation logs: filter, cursor paging, selection, confirmation, bulk actions | page state, cache, requests |
| `AdminEditors` | the editors of switches, credentials, profiles, groups, networks, schedules and rules | objects, cache, open editor, requests |
| `AdminImport` | the CSV dialog: preview, then commit of what was previewed | fields, file reads, report |
| `AdminTrail` | the endless audit list, and the transactions that add to it | events inserted, open transactions, events committed; loaded pages, the read under way |
| `AdminRelease` | release console and history: query, confirm, poll, retry | jobs, address, cache, requests |
| `AdminViews` | home, release boards, task runs, device sheet, alerts: pages that poll | world, cache, dialogs |
| `AdminSearch` | search boxes between keyboard, debounce and address | address, history, box |
| `AdminLocale` | the language: promises, storage, account and guest | i18n state, storage, saves |
| `AdminTheme` | the theme: provider state, two effects, storage, the system's look | |
| `AdminAvatar` | choosing, inspecting, cropping and saving a picture | |
| `AdminProfile` | name, e-mail change by code, password | server profile, cache, forms, mails |
| `AdminIdentity` | name and icon of the installation | server, cache, draft |
| `AdminEntry` | setup, reset, invitation, login, forgotten password: one-time tokens | page, authority, requests |

### The first-generation frontend

| module | models |
|---|---|
| `LegacyRelease` | release console and job page, with the jobs as the page sees them |
| `LegacyAdmin` | forms above the tables of what they create; profile edits |
| `LegacyTables` | table state in the address, two tables on one page, history |
| `LegacySession` | the token of a tab and of the storage, guards, `/auth/me`, the cached lists |

`ClientBase` holds what the client modules share. `MC*` modules give constants
their values for TLC or put several modules into one run; `*_proofs` modules
hold theorems and extend the module they are about.

### Notes on the correspondence

* **ReleaseJobs.** `claim()` is three steps: the candidate select
  (`ClaimSelect`), the recheck after `pg_advisory_xact_lock` (`ClaimRecheck`)
  and the update and commit (`ClaimUpdate`), which a unique index may refuse.
  `device_task` is one action per interaction and `CheckpointCommits`,
  `CheckpointFails` or `CheckpointTimesOut` per checkpoint; a checkpoint that
  times out stays in `late` and may commit at any later time (`LateCommit`).
  `LeaseExpires` needs no reason: a heartbeat may be late or fail. A crash
  drops the locals and keeps the row. Prepare is two steps because it resolves
  the switch before its transaction.
* **ReleasePromise** knows neither workers nor leases. In `ReleaseJobs` the
  mapping `Promises` reads it off the rows: a release is asked for when its row
  appears, started while the row is running, in doubt while it is
  `needs_manual_confirmation`, and concluded as answered or untouched according
  to whether its row has an after-query's observation; `commands` is `sent`. A
  sweep that finds several leases expired puts several releases in doubt in one
  step, and an executor that lost its lease may still send, which is why what is
  in doubt may.
* **DeviceOps.** The sweep fails an item and never requeues it, so an item is
  claimed at most once and its id serves as its lease token. `back_up` is a
  select without a lock (`SelectLatest`) and a later transaction
  (`StoreBackup`).
* **Schedules.** The scheduler's time is taken when it is called (`at`), and
  the transaction may run later. The limit of twenty schedules per transaction
  is the constant `Limit`.
* **Compliance.** Every statement of `evaluateCompliance` is a step, since it
  runs outside a transaction; `Abandon` ends a pass between any two of them.
* **MailOutbox.** Tasks carry a sealed message; rows from before that (`Legacy`)
  have none and are only ever closed. The retry count is read when the decision
  is taken, so `DecideRetry` takes any value the settings may have by then. A
  reply that SMTP lost is a temporary failure of a message that arrived.
* **Cron and Resolution** are sequential algorithms. They are written as loops,
  one step per iteration, and checked against a definition that does not loop.
  The calendar of `Cron` is a set of functions that need only be typed
  (`CalendarTyped`): a zone may skip and repeat hours. `Regular` says of one
  minute that the clock goes forward from it, and `FirstMatch` promises the first
  match up to a minute that is not. The prefixes of `Resolution` are sets of
  addresses with a length (`PrefixesOK`). `MCPlanning` gives `Cron` a zone west
  and a zone east of UTC and translates `time.Date` as Go has it: the offset is
  looked up at the wall time read as UTC, and once more at the result.
* **Access.** A request is opened (`ReplaceUserRoles`, `MutateUserLifecycle`,
  `ReplaceRole`, `DeleteRole`, `RenewPassword`) with the set of locks it is
  going to take; the roles in it are read before any lock, as in the code.
  `TakeLock` takes the least of them that is left. `Check` is everything the
  transaction reads and decides under its locks, and also finds the users whose
  `auth_version` it moves; these are locked by an UPDATE, in any order. `Commit`
  writes. A login reads the account (`ReadAccount`), verifies the password
  outside any transaction, and creates its session (`CreateSession`) only for
  the version it has read. The permissions that the handlers ask for are one,
  `Manage`.
* **Browser clients.** A read is sent, is answered by what the server has then,
  and arrives later; it may fail. The defaults of both query clients are
  translated: `next/admin` never retries and does not refetch on focus; the old
  frontend retries a query once. An invalidation restarts a running read that
  already has data and joins one that has none. Callbacks given to a mutation
  hook run after its page is gone, those given to `mutate` do not. The content
  of a dialog unmounts when it closes. Several administrators are one server
  state that also changes by itself.
* **AdminTrail.** The identifier of an audit event is taken by the INSERT and
  the event is seen at the commit: a transaction is a set of events in `writing`
  (an import inserts one for each row), which are committed or rolled back
  together and in any order with others. `asOf` is history: what was committed
  when a page was read. `AuditWithoutGaps` needs it, since the list may leave
  out an event whose transaction ended after newer events had been shown, and
  nothing else.
* **AdminDrafts and SaveRegister.** The server's side of the editors implements
  `SaveRegister` by the mapping in `AdminDrafts` (`Registers == INSTANCE
  SaveRegister WITH ...`): revisions are registers, submissions are pending
  saves whose base is the revision their contents were loaded from. The draft
  carries a revision of its own, and the refinement says that the two agree when
  it counts.

## 3. Runs

TLC checks every interleaving of each instance. For every property there is a
mutant, a small and plausible mistake in one definition, kept beside the
original and marked "Mutant", which the property notices.

| run | instance and why it is enough | properties |
|---|---|---|
| `release_race` | two workers, one address, up to four jobs of which two are preparations that succeeded; one late checkpoint, not while a third preparation is under way (`LateAmongReleases`). Two workers and two releases are the smallest conflict; a third party would only repeat one of the roles. Workers are symmetric. | `OneAtATime`, `SentOnce`, `CommandsAccountedFor`, `OutcomesStand`, `PromiseKept` |
| `release_pins` | one worker, an operator and an administrator, all four observations, forced, ordinary, cancelled and retried jobs, two contents and two versions of every asset, all four asset tables edited between any two steps; the constraint `OneScene` keeps edits (with an operator and static bindings) and forced releases (with a network that may go) in behaviours of their own, and a credential inactive or an address ambiguous to the time before rows are edited | `TypeOK`, `SentWhereObserved`, `ReleaseAuthorised` |
| `release_liveness` | one worker that may crash, two confirmed releases of one address and a later job | `RunningEnds`, `QueuedStarts` |
| `planning` | five parts of the API, one in focus at a time (below) | `NextRight`, `LongestPrefixOwns`, `SchedulesKept`, `AdministratorRemains`, `ComplianceKept`, `AccessKept`, `PlansSettle` |
| `cron_clock_change` | cron expressions alone, under weak fairness of the loop; **a violation is expected** | `NextReturns` |
| `device_race` | two switches, two processes of one slot, two items: a stale executor beside a newer one, sweeps and crashes | `OnePendingOperation`, `VersionsDiffer`, `AlertsMatchStatus`, `VersionsAccountedFor`, `ItemsSettle` |
| `compliance_interrupted` | one switch, one rule, one abandoned pass; **a violation is expected** | `CriticalFailuresAlert` |
| `mail_outbox` | two processes, one task of each kind in turn, two rounds, retry counts 0 and 1, one fault and one lapsed lease, hence at most four attempts. Tasks do not share anything but the order in which they are claimed. | `HistoryComplete`, `AttemptsTrue`, `ResultsFinal` |
| `admin_drafts` | two accounts, each kind of editor alone and the two role editors together, three revisions, two submissions, two changes of the session | `AnswerUnlocks`, `SavesCompareAndSwap`, `NewerWorkSurvives`, `NoRevival` |
| `logout_language` | the language alone; **a violation is expected** | `GuestLanguageRestored` |
| `admin_app` | the safety of sixteen modules of the two clients, one in focus at a time | `AppTypeOK`, `OwnSavesShown`, `PagesWhole`, `PreferencesShown`, `SentAsEntered`, `SessionKept`, `ConfirmedWasShown`, `TypedIsKept` |
| `client_progress` | the liveness of the four modules whose pages poll, one in focus at a time | `ReleaseFollowed`, `PagesCatchUp`, `SearchCatchesUp` |

Some runs put several parts that share no state into one instance
(`MCPlanning`, `MCAdminApp`, `MCClientProgress`): the variable `focus` says
which part a behaviour is about, and the others keep one initial state. The
reachable states are then the sum of those of the parts and each part is
explored as completely as alone. Parts that do share state are one module.
Properties of related screens or of one table are conjunctions of named parts,
each with its own comment where it is defined:

| property | parts |
|---|---|
| `OneAtATime` | `OneUnsettledRelease`, `OneCommandWindow` |
| `OutcomesStand` | `UncertainIsABarrier`, `FinishedStaysFinished` |
| `CommandsAccountedFor` | `SettledMeansNotSent`, `RecordedBeforeSent`, `OneReleasePerPreparation` |
| `NextRight` | `FirstMatch`, `FiresOnNamedDays` |
| `SchedulesKept` | `PlannedIffEnabled`, `OneRunPerMatch` |
| `ComplianceKept` | `ResultsTrue`, `ResultsNeverRegress`, `ResolvedOnlyWhenCleared`, `AcknowledgedUntilResolved` |
| `PlansSettle` | `DueRunsFire`, `ResultsConverge`, `AlertsClear`, `AlertsUnlessInterrupted` |
| `AccessKept` | `GrantsWithinScope`, `SessionsOfThisAuthority`, `NoCircle`, `AccessTypeOK` |
| `ItemsSettle` | `ItemsEnd`, `FinishedItemsStay`, `NewestProbeWins` |
| `AttemptsTrue` | `SentMeansDelivered`, `BudgetHolds` |
| `ResultsFinal` | `TasksEnd`, `ResultsStay` |
| `OwnSavesShown` | `ReadYourWrites`, `ConflictReloadsList`, `IdentityReadsOwnSave`, `TablesShowOwnSaves`, `AckShown` |
| `PagesWhole` | `WayBack`, `AuditWithoutGaps`, `PageExists` |
| `PreferencesShown` | `DocumentSpeaksTheLanguage`, `AccountLanguageKept`, `LookFollowsTheme` |
| `SentAsEntered` | `NewestPictureWins`, `CropIsWhatIsSeen`, `SavedContentsBelong` |
| `SessionKept` | `ShownBelongsToUser`, `AuthorityUntilVerdict` |
| `ConfirmedWasShown` | `WritesReplaceWhatWasShown`, `IdentityReplacedWasShown`, `OnlyPreviewedCommitted`, `VerifiedAddressWasShown`, `PreparationAsObserved` |
| `TypedIsKept` | `NameDraftKept`, `AnswerClosesOwnDialog`, `ForceChoiceKept` |
| `ReleaseFollowed` | `OutcomeShown`, `LegacyOutcomeShown` |
| `PagesCatchUp` | `ScreensCatchUp`, `TaskFollowed` |

Beside the mutant listed for each property the modules keep one for most of the
parts, and each of them breaks the conjunction: for example `ChangedRoles` of
`Access.LockedRoles` (the Super Admin role is not locked) breaks
`AdministratorRemains` and `NoCircle`, `OutdatedNone` of `Outdated` breaks
`SessionsOfThisAuthority`, `CurrentRequest` of `AdminImport.PreviewedRequest`
breaks `OnlyPreviewedCommitted`, `ResetAnsweredForgetting` of
`AdminEntry.ResetAnswered` breaks `AuthorityUntilVerdict`.

### Bounds

* `release_race` and `release_liveness` start from states with prepared (and
  confirmed) jobs, which `ReleaseJobs` reaches by ordinary steps; this saves the
  prefix of every behaviour.
* `planning`. *Cron*: 240 valid expressions on a small calendar, asked at every
  minute of the days around the changes of the clock, in a zone west and a zone
  east of UTC which both put it an hour forward and back. *Resolution*: all lists of at most three networks over the
  prefixes of 2-bit addresses, hence equal, nested and disjoint prefixes in
  every order. *Schedules*: two schedules of which one transaction takes one,
  three minutes, two versions of a row, an API that stops for any while.
  *Compliance*: one switch, one rule edited twice, two backups, one abandoned
  pass. *Access*: two users and two roles, one of them Super Admin; one
  user is a Super Admin at first, the other has either role or both; the
  constraint `Meetings` lets two transactions meet, or a login meet one:
  what these properties speak of goes wrong, if at all, between two parties,
  and the proofs of `AdministratorStays` and `AccessIsKept` have no bound.
* `admin_drafts`, `admin_app`: one object or row and two or three versions of
  it are enough for an answer to be late, and two filters, words, pictures,
  names or users for it to be about something else. One request in flight is the
  limit where the page disables its buttons while it waits, and a second one is
  reached by leaving and reopening the page; editors that can be resubmitted
  have two. The audit list needs four events in pages of one for a page to be
  loaded, shifted and reread. Three choices of a picture let two inspections be
  under way behind a picture that was found good.
* `admin_app`: the constraints named `Few...` in `MCAdminApp` keep apart, screen by
  screen, what meets only in the number of states: the two lists of a
  first-generation page have two rows between them and each is searched or has
  one filter (`FewRows`, `FewFilters`); of a list's filters one has a second page
  and dialogs, and of its two rows one is as it was or both became the same
  (`FewPages`, `FewChanges`); of a session one token expires, one list is cached,
  and none is read while a job is being created (`FewExpire`, `FewCached`,
  `FewReads`); while the identity is saved the page or the mark is read
  (`FewIdentityReads`); the tokens of one kind of link are spent (`FewSpent`);
  another tab stores its language while no save and at most one change of this
  one is under way (`FewStored`). A state outside is still checked, only what
  follows it is not; every action happens and every mutant is found inside, and
  `MCAdminApp_proofs` proves the same properties with none of these bounds.
* `admin_app` and `client_progress`: a query job and the release it leads to;
  only the first job of a behaviour is asked for from the form (`OnePrepared`,
  `OneLegacyPrepared`). The first is a constraint on steps in one run and a
  conjunct of the next-state relation in the other, whose fairness has to know
  of it; the theorems have neither.

Algorithms end, and the clients' runs stop at the bounds of their versions and
requests, so `planning`, `cron_clock_change` and the four runs about clients do
not check for deadlock; the others do.

### Fairness

* *ReleaseJobs*: a worker process runs on (weak fairness of its steps; it is
  restarted after a crash), its claims succeed if they are possible again and
  again (strong fairness: another claimant may hold the row or the advisory lock
  for a moment, and PostgreSQL queues waiters), and the lease of a job nobody
  works on runs out. No fairness is assumed of users, edits, crashes or of the
  lease of a living executor.
* *DeviceOps*: weak fairness of the sweep and claim of each process, of an
  executor's steps (every switch interaction has a timeout) and of expiry.
* *Cron* (`cron_clock_change` only): the loop goes on while it can.
* *Schedules*: the API is started again, and its ticker and transaction
  succeed if they can again and again (strong, since the API may stop and a
  transaction fail in between).
* *Compliance*: weak fairness of the evaluator; edits, backups and abandoned
  passes are finitely many.
* *MailOutbox*: weak fairness of each dispatcher, and time passes: leases,
  delays and legacy rows run out.
* *Clients*: a poll is a timer of the mounted page and fires (weak); a read that
  is made again and again is answered with success at last (strong, since any
  single one may fail). Nothing is assumed of users, of requests that are made
  once, or of the worker whose jobs are shown: a job or an item that stays as it
  is need not be shown as ended. Under this fairness the properties also hold of
  pages that are left and opened again, since they speak of pages that stay open.

## 4. Findings

* `compliance_interrupted`: `evaluateCompliance` commits the failed result of a
  pair (`ops_compliance.go:281`) and raises the alert in a later statement. If
  the pass ends in between, the next one finds the result up to date and does
  not look at the pair again: a critical failure stays without an alert until
  its configuration or rule changes, although `next/README.md:15` promises alerts
  for critical compliance failures. `AlertsUnlessInterrupted` shows that this is
  the only way to lose one.
* `cron_clock_change`: `CronSchedule.Next` goes to the next hour by
  `time.Date(..., t.Hour()+1, ...)` (`cron.go:108`). If the zone skips that hour,
  `time.Date` answers with another one, and west of UTC it is the hour before:
  in America/New_York, on the second Sunday of March, 02:00 becomes 01:00. With
  hours that do not include 1, as in `0 3 * * *`, the loop then goes from 01:00
  to 01:00 for ever, in the scheduler or in the request that plans the run,
  although `cron.go:95` says that Next returns a time or the zero time.
  `BIND_PLANE_TIMEZONE` may name any zone; Asia/Shanghai, the default, has had no
  such change since 1991. East of UTC the skip leads forward; where an hour is
  repeated, a match in the first of the two may be passed over. `FirstMatch`
  allows that, and only there.
* `logout_language`: a save of the account's language that fails after the
  logout runs its error handler on the unmounted page
  (`personal-account-settings-page.tsx:129`) and puts the account's language on
  the login page. `i18n/index.test.ts:30` says that the guest's is restored.

## 5. Proofs

TLAPS proves the following for every value of the constants, that is for any
number of addresses, switches, workers, jobs, items, networks, schedules, rules,
users, roles, transactions, mail tasks, rounds, attempts, accounts, submissions,
pages and rows, and any calendar that satisfies the named assumptions. The bounds of the models are
constants too: a theorem speaks of every bound.

### Release jobs

* **`ReleaseJobs_proofs`**: `TypeCorrect`, `OneUnsettled`, `CommandWindow`,
  `AtMostOnce`. The inductive invariant `Inv` adds to the type invariant:
  `ProcessOK` (which job states go with which point of a worker's program),
  `Alone` (two workers never execute the same job: a job leaves `queued` once),
  `LockOK` (a worker past its recheck holds the advisory lock of its address and
  nothing blocks its job), `OneUnsettledRelease`, `LateOK` (who left a
  checkpoint behind is only in its error handlers), `WindowOK` (past the
  `releasing` checkpoint the row is running or uncertain) and `SentOK` (nothing
  was sent before the executor gets there). None of the three safety properties
  is inductive alone: exclusion rests on the lock, the command window on
  exclusion (a swept executor's row is uncertain, which still blocks the
  address), and sending once on `Alone` and on `sent` being 0 up to the command.
  `OneUnsettled` and `CommandWindow` are the parts of `OneAtATime`.
* **`ReleaseOutcomes_proofs`**: `Accounted`, `WhereObserved`, `Authorised`,
  `Barrier`, `FinishedStays`, and from these `AtATime` (`OneAtATime`),
  `OutcomesHold` (`OutcomesStand`) and `Implements` (`PromiseKept`). With `Inv`
  before and after every step, four more invariants are proved one on top of the
  other (`OutcomeInvariance`):
  - `ToldOK`: an executor that does not know of a command has sent none, and no
    status that promises "nothing was sent" is about to be written, in a row, or
    in a checkpoint in flight for a job whose command left, unless an after-query
    backs it;
  - `RecordOK`: the phase of a job whose command left is `releasing` or later,
    and no checkpoint in flight could take it back;
  - `OneReleasePerPreparation`, which is inductive given `Inv`;
  - `Lineage`, in five parts, one per hand of the relay from the preparation to
    the switch: a pin names a revision that the assets have had (`PinOK`), what
    was seen is the content of the pinned revision (`ObservedOK`), a release
    descends from a finished pre-query with the same pin that its actor could
    confirm (`OriginOK`), a connected executor of a release talks to the content
    its pre-query saw (`CommandOK`), and so did the command (`ResultOK`). It
    works because versions only grow and an edit never returns to one.

  The action properties follow from `Inv` and from what each step does to a row
  that is final or uncertain (`RowsStay`).

  `Implements` is the refinement of `ReleasePromise`: the initial states map to
  `Promised`, and every action to `Ask`, `Start`, `Send`, `Conclude`, `Doubt` or a
  stutter of `Promise`. Each of them asks for one of the results above. `Start`
  needs `OneUnsettledRelease` after the step (the address was free), `Send` needs
  `SentOK` and `WindowOK` (the row is running or in doubt and nothing was sent
  before), and `Conclude` needs `AnsweredOK`, which is proved beside it: a row
  with an after-query's observation had its command, and one without it never
  will, since only an executor that has sent goes on to the after-query.

Assumption of both: `ConstantsOK`.

### The other parts of the servers

* **`Access_proofs`**: `AccessTypes`, `AdministratorStays`, `AccessIsKept`. That
  an enabled Super Admin remains is not inductive: it holds because every
  transaction that could take one away holds the lock of the Super Admin *role
  row* from before its check until its commit. `AccessInv` adds to the type
  invariant: `Named` (what a request names), `SuperKept` (the Super Admin role
  is never deleted), `SuperLocked` (such a transaction past its locks holds that
  row) and `OtherKept` (one that has passed its check still has the other
  administrator it saw). A commit can therefore not be the second of two whose
  checks overlapped. On top of it:
  - `LockInv` adds what a request has to lock (`Covered`), that it takes its
    locks in the global order (`InOrder`), and what the accounts that a decided
    transaction still has to lock, outside that order, can wait for
    (`LastLocks`). For `NoCircle`, `LocksInOrder` takes a circle and follows it
    to the last key anybody waits for: its holder waits for a later one. That
    such a last key exists is well-founded induction over the set of requests,
    which is why requests are finitely many.
  - `ChangeInv` adds `AllowedKept` (what a request was allowed to do when it was
    checked it is still allowed to do when it commits, since its check and all
    that could take the permission away share a lock) and `HoldersLocked` (a
    change of a role locks every account whose authority it changes). From these
    follows `GrantsWithinScope`.
  - `SessionInv` adds `SessionsStand`: a version of an account that still is the
    current one stands for the present authority and password, in sessions and
    in a login that has read the account and not yet created its session.

  Assumptions: `AccessConstants`, `NobodyIsNoCall`.
* **`DeviceOps_proofs`**: `OnePending`, `AlertsAgree`, `VersionsAlwaysDiffer`
  (and the type invariant), `VersionsNamed`, `NewestProbe`, `FinishedItems`.
  `Inv` adds `TaskOK`, which says that an executor whose item is still running
  under its lease compared with what is the latest version now; together with
  `OnePendingOperation` it makes the comparison without a lock safe, because
  only the holder of the one running backup item can commit. `Recorded` is
  proved beside it: an item that is not over has announced no version
  (`Unnamed`), the versions of a switch and the items that announced one are in
  a one-to-one correspondence (`NamedOf`), and no pending check of a switch is
  older than the check its column shows (`ProbesInOrder`). The last two theorems
  are the safety parts of `ItemsSettle`. Assumption: `DeviceConstants`.
* **`MailOutbox_proofs`**: `MailTypes`, `HistoryKept`, `AttemptsAreTrue`,
  `ResultsKept` (the safety part of `ResultsFinal`). What makes the history
  reliable is that the processes that hold a task one after the other can be
  told apart. `MailInv` says so in three parts. `Shape`: types, and a process
  holds a task exactly while it works. `RowsHold`: only attempts that were given
  out are in the history (`RowInOrder`); all of them but the leased one are
  (`HistoryOf`); those marked sent were delivered (`SentOf`); and a lease that
  was not given back pays for the attempt beyond the budget (`BudgetOf`).
  `JobsHold`: every process has an attempt of its own that is not marked sent,
  the latest one if its lease is in the row (`JobInOrder`, `Apart`), and what it
  is about to report is true (`OutcomeTrue`). Assumption: `OutboxConstants`.
* **`Planning_proofs`**, the parts of the run `planning` without locks:
  - `NextIsFirstMatch` (`NextRight`). `WalkInv`: either the walk has gone forward
    and what matches behind it comes after a change of the clock (`WalkedRight`),
    or it has met one (`MetChange`), after which it may be anywhere. `SkipOver`
    shows for each skip that from a regular minute the first stays so, and that
    from any other the second begins. Assumption: `CalendarTyped`.
  - `Resolves` (`LongestPrefixOwns`). `LoopInv` relates the best length, the best
    switch and the ambiguity flag to the networks seen so far. Assumption:
    `PrefixesOK`.
  - `SchedulesStayPlanned` (`SchedulesKept`). That two runs are separated by a
    match of the expression needs more than the two runs: `ScheduleInv` adds to
    the types that a scheduler's time is not ahead of the clock, that what is
    planned is a match (`PlansMatch`), and that the scheduler's runs of a
    schedule lie before what is planned for it (`RunsBeforePlan`), which a late
    scheduler with an old `at` could otherwise undercut. `NextRunOK` says what
    `nextRun` finds. `OrderIsBatch` shows that the batch of one transaction can
    be put in the order of the select, whatever `Limit` is. Assumption:
    `ScheduleConstants`.
  - `EvaluatorKeeps` (`ComplianceKept`). `ComplianceInv` adds `ResultsNamed` and
    `WorkNamed` (results and the work left of a pass name a backup of their switch
    and a version their rule has had), `ItemStored` (the alert about to be settled
    is that of the result just stored) and `ResultsTrue`. The three
    action properties compare what each statement of a pass writes with that.
    Assumption: `ComplianceConstants`.

### The browser clients

* **`AdminDrafts_proofs`**: `AnswersUnlock`, `NewerWorkStays`, `NothingRevived`,
  `SavesAreSwaps`. All rest on what the identifier of a submission stands for.
  `DraftInv` has three parts: `Shape` (types; a draft sends the revision its
  contents were loaded from), `OneEach` (no two requests in flight have one
  identifier) and `Submitted` (a draft that still has the identifier of a
  request is the one that was submitted: locked, under the same owner, by the
  same account). The three action properties compare what each answer handler
  writes with the draft it finds. `SavesAreSwaps` is the refinement of
  `SaveRegister`: the initial states map to `Register`, and every action to
  `Send`, `Accept`, `Refuse`, `Answer`, `Elsewhere` or a stutter of
  `CompareAndSwap`. `Accept` is where the work is: the base of a pending save
  has to be the revision that the server compares. Assumptions:
  `DraftConstants`, `NothingIsNoDraft`.
* **`MCAdminApp_proofs`**: every property of the run `admin_app`, as `AppTypes`,
  `SavesAreShown`, `NothingLostByPaging`, `PreferencesKept`, `EnteredIsSent`,
  `SessionsKeepApart`, `ShownIsConfirmed` and `EntryIsKept`. A step of the
  application is a step of each screen or leaves it alone (`EachScreenSteps`), so
  that `AppInv` (`AppCorrect`) is the conjunction of one inductive invariant for
  each of the sixteen screens, every one proved for the screen's own next-state
  relation:
  - `ListsInv`: neither the server nor the read under way is older than what was
    reported as written (`ReadsAreNew`), and while a request is pending the only
    dialog that can be open is the one it was sent from (`DialogOfRequest`).
  - `EditorsInv`: no copy is newer than the object (`NoNewer`); an edit names the
    version it was shown, which the server has or had, and a mounted one is that
    of the open editor (`CallKnown`); a conflict on screen has a newer version
    behind it (`ConflictKnown`).
  - `ImportInv`: a clean report on screen is that of the request it may be
    committed for. `TrailInv`: the loaded pages are in order and without
    repetition, each has every event that was committed when it was read and
    belongs there (`PagesKnown`, `NothingMissed`, `WholePages`), and the cursor is
    the oldest row of them (`Continues`); a commit adds to what is committed and
    to no page's `asOf` (`MoreCommitted`).
  - `LocaleInv`: the newest change awaited is that of the language, and there is
    one while the document has another (`NewestSpeaks`); after the shell's first
    effect the language is the account's (`ShellSpeaks`). `ThemeInv`: only a
    change of the system's look that was not heard of yet separates the look
    from the theme.
  - `AvatarInv`: the crop stays inside the picture (`PanAllowed`). `ProfileInv`:
    the page shows nothing, or a name and a field (`ShowsName`). `IdentityInv`:
    everything held was once served, and is not older than the last save that
    was reported (`NotOlder`).
  - `EntryInv`: only the page that its link has opened has an authority, and
    every request it still hears of is about the link's token
    (`AuthorityIsOfThePage`, `OpenedByLink`). `SessionInv`: every token was issued,
    and an answer of `/auth/me` names the user of its token (`TokensIssued`,
    `AnswersOfMe`); without `leftovers` a list is cached, and read, only for the
    user of the tab's token (`ListsOfToken`).
  - `LegacyAdminInv`: a save belongs to the profile its contents were filled in
    from, and what was acknowledged is on the server, in the answer of a read and
    among the rows at rest (`SaveKnown`, `TableKnown`). `TablesInv`: no page count
    exceeds that of the rows that match.
  - `ConsoleInv`: the cache has the force a job was asked for with, and of a job
    whose query is over the entry it found (`JobKnown`); requests and answers are
    about jobs that exist (`AskKnown`). Since a job's query is never answered
    twice, a read behind it has nothing to untick.
  - `ViewsInv`: whichever list was told of an acknowledgement is the one on
    screen, the alert is not open any more, and a list read since says so.
  - `PreparationInv`: a preparation repeats what its job has (`Says`); the job
    polled is that of the answer it was made from, which says nothing of a
    result itself (`SeedKnown`); requests and answers are about jobs that exist
    (`PostKnown`). `LedgerGrows` is what all steps of the server have in common:
    what a query has found stays, and its force until it is confirmed.

  Assumptions: the constants of these modules, below.

### What the assumptions say

`ConstantsOK`, `DeviceConstants`, `AccessConstants`, `OutboxConstants`,
`DraftConstants` and those of the screens (`ListConstants`, `EditorConstants` and
so on) give the constants their types, and let the counters that start at 1 in
the code start at 1 (`MaxRounds`, `MaxRevision`, `LastJob` and the like are at
least 1). The values that stand for SQL's and JavaScript's null are apart from
proper values (`NobodyIsNoCall`, `NothingIsNoDraft` and `ViewsConstants` say so
for records). `ScheduleConstants` has finitely many schedules, and expressions as
a period and an offset below it. `CalendarTyped` lets `time.Date` answer with
minutes, and no weekday be called by the second name of Sunday; it asks nothing
of how a zone runs its clock. Sets a page chooses from
(names, filters, page sizes, system names) are not empty. TLC evaluates all of
them in the runs.

### Only model-checked

Liveness, which needs fairness and ENABLED: `RunningEnds`, `QueuedStarts`, the
parts `ItemsEnd` of `ItemsSettle` and `TasksEnd` of `ResultsFinal`, `PlansSettle`,
`ReleaseFollowed`, `PagesCatchUp` and `SearchCatchesUp`. Every other property of
a run that passes is a theorem, or a conjunction whose safety parts are; these
parts have theorems of their own (`NewestProbe`, `FinishedItems`, `ResultsKept`).
The properties of the three runs with findings are violated, and nothing is
proved of them.

## 6. Observations

Behaviour met while translating that no document contradicts. The properties
are worded so that they allow it and nothing more.

Servers:

* A release queued behind an uncertain one stays queued: no operation clears
  `needs_manual_confirmation`. `QueuedStarts` is therefore about jobs no uncertain
  release holds.
* A forced release (of a missing binding) whose binding has become static by the
  time of execution is sent.
* A heartbeat that failed re-raises its exception outside the `try` of
  `release_loop` and ends the worker process; the sweep of another, or of the
  restarted process, settles its jobs.
* A cron part whose value is above the upper bound and that has a step (`70/5`)
  is accepted and names no minute.
* Editing any field of a due schedule plans it anew and drops the due run.
* `ClaimMail` relies on the lease boundary for a complete history (comment at
  `outbox.go:72`). A legacy row that an account operation withdraws while a worker
  holds it, and whose worker then dies, keeps an attempt without a row.
  `HistoryComplete` therefore speaks of sealed tasks, the only kind the API
  still writes.
* Reactivating an account needs the permission to write users and no more, also
  when the account may do what the administrator may not. `GrantsWithinScope` is
  about authority that roles give, whether or not the account is enabled.

Administration interface:

* Late answers act on what is on screen: the success of deleting one role closes
  the confirmation of another; a late success closes whichever asset editor is
  open; the answer to a query moves the operator to the new job wherever they
  are; the setup form's verdict leads to the login page.
* Selected e-mail tasks survive filtering and paging, so a bulk action touches
  rows that are not on screen, and its success drops ticks made meanwhile. The
  bulk dialog of the devices page says "every enabled switch" when the group's
  name is unknown.
* A form that is emptied by its success loses what was typed meanwhile, and a
  "new" dialog of schedules and rules can be reopened and sent again while the
  first create is under way.
* After a failed read the invitations page offers actions on stale rows; the
  schedules page does not read again after a failed edit.
* After a confirmation, going back to the preparation shows the button once more
  until the job is read; a remounted view forgets its pending request. The first
  read of a job or task that fails is not repeated by itself.
* Back on a searched list is undone by the box's debounce.
* Two tabs that change the guest's language or theme at once can follow each
  other in turns. A failed save of the account's language takes back the page's
  language, which need not be the shell's.
* While the avatar is drawn nothing is disabled. A picture chosen later that is
  refused leaves the earlier one in the frame. Saving a name, picture or
  language after an e-mail change was requested brings back the cached profile
  without it, and a profile read that was under way during a save shows the old
  name.
* When a session expires, the draft store is emptied while the editor is still
  mounted; its effect finds no draft and stores a fresh one of the form's object
  (`roles-page.tsx:205`), which stays until the next account's shell takes the
  store. `NoRevival` is about answers, not about effects.
* A role, assignment or e-mail draft in conflict can only be left by reloading
  the page, as `access.test.tsx:369` and `:387` have it. A submission begun while
  the store has no owner stays locked until then, too (`AnswerUnlocks` excepts
  it). A role that is reopened while its save is pending runs into a conflict with
  itself.
* A file that was chosen later may be replaced by an earlier, slower one in the
  import dialog.
* After a conflict the identity page reloads old contents if the read fails; a
  failed save of an untouched form makes an older clean draft the edit; and a
  second click on Reload can overwrite an edit.
* Logging out does not clear the cached device and release lists, nor, on the
  path through the loader, the e-mail tasks.

First-generation frontend:

* After a preparation that stopped without a switch, the force box shows what the
  preparation was made with, while ticking it changes the hidden field that is
  sent. Once a forced preparation has a job the box stays disabled, and the next
  address is prepared forced, with the hidden switch, until the page is left.
* The first read of a preparation or a job that fails, after its one retry, is
  never repeated; the state of a retry carries over from one job's page to the
  next.
* Profile edits carry no version, so that the last write wins, and a late success
  resets another profile's form. A create that is answered while the first read
  of the list is under way may be missing from the table.
* A session ended by `/auth/me`, or a login over an existing session, leaves the
  cached lists to the next user (`leftovers` in `LegacySession`). Signing out in one
  tab removes the token that another tab has just stored.

## 7. Not modelled

* Encryption, the text of a configuration diff and asset audit: byte-level
  conversions and rendering, no state.
* Asset creation and CSV import on the server: one transaction per request, a
  savepoint per row, rows independent of each other. The edits that race with
  jobs are in `ReleaseJobs` and `DeviceOps`, the browser's side in `AdminImport`.
* The rate limiter: one row per bucket, read under its lock, refilled by a few
  lines of integer arithmetic (`limiter.go:406`) that clip to the capacity. A
  model would hold its cap by its own definition.
* The rest of the access administration: invitations, creating roles, the expiry
  and touching of sessions, revocation from the online list, changes of an
  e-mail address. Expiry and revocation end a session as a logout does.
* System settings, identity and setup on the server: singleton rows guarded by a
  revision, one statement each; the revision checks are in `AdminDrafts` and
  `AdminIdentity`.
* Operation log, online users, cleanup: append-only records, projections and
  batch deletes.
* The HTTP adapter keeps no state; the conditions of the handlers are guards.
* The API's shutdown: a select over two deadlines and a second signal. For
  everybody else it is a process that stops between two steps, which
  `ReleaseJobs`, `MailOutbox` and `Schedules` allow.
* The first-generation backend and its RQ worker, which has no lease and no
  sweep; what its jobs look like is in `LegacyRelease`. A worker that dies there
  leaves its job running, and nothing in its code would end it.
* Sidebars, widgets, translations, the generated route table, the old frontend's
  language switch: presentation.
* Migrations and deployment: the indexes and constraints they declare are guards.
* Lists that shrink under a page: `LegacyTables` has lists that grow.

What would come next: sessions with their expiry, and the recovery of an
address.
