# TekDocs: models, checks and proofs

This directory holds the TLA+ development of TekDocs: models of the parts of
the backend (`src/backend/apps/core`, `src/backend/apps/accounts`) whose
correctness depends on order, failure and concurrency, the TLC instances that
check them, and TLAPS proofs of the results that hold for every instance.

TekDocs is a Django service for managed-service providers. Every client
organisation has a workspace whose documents are Markdown files in one managed
bare Git repository, next to PostgreSQL rows for everything else (inventory,
invoicing, notifications, integrations). Requests run in web workers, one SQL
transaction each; background work runs in Celery tasks on a beat schedule
(`tekdocs/settings/base.py:291-352`).

## 1. Inventory

| Component | State | Operations | What is hard | What makes it correct |
|---|---|---|---|---|
| Managed repository service (`repository_service.py`, `content_index.py`) | a branch and object database on disk, staging directories, a file lock; the rows `accepted_commit`, `indexed_commit`, the reconciliation state; publications | authored write, accepted read, reconcile/repair, publication pin, index | a file and a row cannot change atomically; Git commands fail, time out after taking effect, or are killed; other programs move the branch | accepted history only grows; the branch is at most one commit ahead; everything a row names exists; readers, publishers and indexers see one head |
| Coordinated transactions (`repository_service.py:1301-1459`, `middleware.py`) | exclusive locks, branches at enlistment, repositories written, files created, savepoint stack | enlist, write, nest, catch, align, restore, commit, discard files | SQL savepoints that Git knows nothing of; failing compensation; a COMMIT whose outcome is unknown | SQL outcome = Git outcome = files, savepoint by savepoint |
| Outbox (`outbox.py`) | events, receipts, attempts, availability | enqueue, dispatch, retry, dead letter | the batch is one transaction: a crash or kill repeats all of it | a receipt for every published event, no event lost, bounded attempts |
| Webhooks (`webhooks.py`) | endpoints, deliveries, leases | project, claim, send, record, retry, deactivate, inbound accept | claim, HTTP and record are separated; the endpoint can be disabled in between | no outcome overwrites a newer claim; a delivery ends delivered or dead |
| Notification email (`notification_email.py`) | deliveries, preferences | claim, suppress, defer, digest, send, finish | as webhooks, and quiet hours | one accepted mail per notification, unless its batch was rolled back |
| Integration sync (`integrations.py`, `integration_providers.py`, `tasks.py:136-190`) | connections, jobs with their run and cursor, observations, mappings, conflicts | plan, request, dispatch, process a page, continue, retry, cancel, resolve | a task is queued inside the lease's transaction, may be lost or run twice; runs overlap; the remote side changes under them | a run reads its pages once and in order; only what a run missed is retired; every retirement is put in front of a person |
| Domain and certificate monitoring | checks, evidence, next run | schedule, observe, record | lease and staleness | an old observation never replaces a newer one |
| Invoicing, recurring invoices, stock (`invoicing.py`, `recurring_invoices.py`, `stock.py`, `commercial.py`) | invoices, lines, number series, credits, mails; schedule terms and claimed periods; stock on hand | draft, change lines, issue, correct, void, deliver; enroll, amend, generate, withdraw, stop; receive, archive | every operation locks several rows, in orders that differ; mail inside a transaction; corrections drafted together | numbers without gaps, credits within the invoice, what is final stays so, stock is conserved, one document per period under the terms in force |
| Documents (`documents.py`) | documents, revisions, placements, review state | edit, place, fork, publish | stale base revision; shared placements | revisions are never lost or reordered |
| Publications (`publications.py`, `repository_publication_*.py`) | packages, approvals, retained heads | prepare, approve, publish, revoke | a head that moves between proof and retention | what is published is what was approved |
| Authority handoff (`document_authority_*.py`, `library_authority_handoff.py`, `document_reversible_writes.py`) | which of SQL and Git owns a document | preview, apply, revert | both sides writable for a moment | one authority at any time |
| Content composition (`content_composition.py`) | include graph | resolve | cycles, depth | resolution terminates and rejects every cycle |
| Document keys, templates, remote sources, imports, recycle bin, relationships, taxonomies, custom fields, networks, compliance, reminders, catalogs | rows | create, edit, delete, restore, purge | uniqueness, retention, dependents | constraints hold across restore and purge |
| Accounts (`accounts/`) | bootstrap, users, invitations, tokens, roles, collections | bootstrap, invite, accept, revoke, grant | concurrent bootstrap and acceptance | exactly one first owner; an invitation is used once |
| Row-level security (`rls.py`) | session settings | bind scope | a task's scope is one outer transaction | scope and transaction end together |
| Celery schedule (`tasks.py`) | - | one task per pipeline | time limit kills a batch | work that was not committed is done again |
| Search, rendering, PDF, exports, frontend, renderer, deployment scripts | derived data | - | mostly pure or I/O | - |

Interaction: requests and tasks meet only in PostgreSQL rows and in the
repositories' files. Requests write repositories through the coordinated
transaction; every domain operation enqueues outbox events in its own
transaction; the outbox fans out to webhook deliveries and notifications, whose
dispatchers are separate tasks; integration jobs, monitors and recurring
invoices are rows a beat task finds due.


## 2. Plan

The order follows what TekDocs exists for: documents that are not lost first,
then what leaves the system, then what comes in, then money.

| # | Module | Composes / refines | State |
|---|---|---|---|
| 1 | `ManagedRepository` | implements `AcceptedHistory` | modelled, checked, proved |
| 2 | `CoordinatedRequests` | several repositories, one SQL transaction; a write of `ManagedRepository` is one step | modelled, checked, proved |
| 3 | `WebhookDelivery` | implements `AtLeastOnce` | modelled, checked, proved |
| 4 | `DeliverySchedule` | used by 5 | modelled, checked, proved |
| 5 | `NotificationEmail` | EXTENDS 4, implements `AtLeastOnce` | modelled, checked, proved |
| 6 | `InvoiceLedger` | invoices, stock and a recurring schedule in one model, because their operations lock each other's rows | modelled, checked, proved |
| 7 | `SyncJobs` | jobs, continuations, cancellation, retirement of one HaloPSA connection | modelled, checked, proved |
| 8 | `OutboxDelivery` | implements `AtLeastOnce` with a handler inside the batch's transaction; feeds 3 and 5 | planned |
| 9 | `AuthorityHandoff` | exactly one of SQL and Git owns a document, on top of 2 | planned |
| 10 | `Publications`, `DocumentRevisions` | review, approval and withdrawal on top of the pin of 1 | planned |
| 11 | `Monitoring`, remote document sources | on the job discipline of 7 | planned |
| 12 | `ContentComposition`, `DocumentKeys`, `Invitations`, imports, recycle bin, the update script | - | planned |

Abstract specifications: `AcceptedHistory` (what a repository's rows promise),
`AtLeastOnce` (what every dispatcher promises), and "one owner" for the
authority handoff.

Every type invariant, safety invariant and action property the passing runs check
is a theorem (section 6). What would say most next: a
refinement of `CoordinatedRequests` (a history per repository that one coordinated
commit may extend by several changes, nested scopes as stutters), then the theorems
of the planned modules in the order of the table, `OutboxDelivery` implementing
`AtLeastOnce` first. No module that will be proved about contains a RECURSIVE
operator.

## 3. Modules and code

### ManagedRepository (`repository_service.py`)

One repository, its row and any number of processes. A commit is content
addressed, so it *is* its lineage: the sequence of changes from the root, and
parent, ancestor and "same commit" are front, prefix and equality. Two commits of
one change on one base, which in Git differ by their author and second, are
identified.

| Model | Code |
|---|---|
| `objects`, `ref`, `stages` | object database, `refs/heads/main`, staging index directories |
| `accepted`, `indexed`, `recorded`, `published` | `WorkspaceRepository.accepted_commit`, `.indexed_commit`, `.last_reconciliation_state`; retained publications |
| `flock`, `row` | the `fcntl` lock of the repository; `select_for_update` on its row |
| `Write(p)`: `WriteStart` ... `WriteReturn` | `commit_repository_files`, `write_commit`: one action for each point at which the process can die or another can step in |
| `Read(p)`, `Reconcile(p)` | the accepted-content snapshot; `_classify_reconciliation`, the recording, and the operator's repair |
| `Publish(p)` | `pin_accepted_repository_for_publication` |
| `Index(p)` | `index_repository_content` |
| `Crash`, `DriftRef`, `DriftObject` | a process dies; another program moves the branch; an object is lost |

Every Git command and SQL commit has its failure as an action of its own, among
them the two that matter: `update-ref` that takes effect and is then killed by
the timeout (`AdvanceRefTimesOut`) and a `COMMIT` that fails after the branch
moved (`WriteCommitFails`).

### CoordinatedRequests (`coordinated_repository_transaction`, `middleware.py`)

Several repositories written in one SQL transaction. `original`, `written`,
`created` and `retained` are the fields of the coordinator object, `sql`,
`sqlRows`, `stack` and `doomed` what Django and PostgreSQL know: the heads and
rows as the transaction sees them, its savepoints, and `needs_rollback`.
`Body(p)` is what a request may do, `Leaving(p)` the `__exit__` of every kind of
block, `Undo` and `Close` the compensation. `faults` names the kinds of fault a
behaviour has seen, so that a property can say under which faults it holds.

### WebhookDelivery (`webhooks.py`) and NotificationEmail (`notification_email.py`)

The code reads as claim / call / record in three short transactions with a
lease. It is not: `system_rls_scope` of the task opens a transaction around the
batch, so the three are savepoints, nothing is durable before the batch ends,
and every row, endpoint, account and organization joined by a claim's
`select_for_update` stays locked meanwhile. The models have `mine` (rows as the
batch sees them) beside `rows` (as committed), `locked`, and `RollBack` for a
death, which undoes the counted attempts and not the calls. A consequence the
models make plain: no committed row is ever "processing" and the leases never
apply.

Actions follow the batch: `Start` (the listing query), `Skip` (SKIP LOCKED),
`PassOver` (no longer due), `ClaimInactive` / `Suppress` / `Defer`, `Claim`,
`ClaimRaises`, `Send`, `Record`, `Commit`, `Killed`, `Crash`; around it
`Project`, `SetActive`, `Rotate`, `SetAccount`, `SetAuthority`, `SetWish` and
the manual `Retry`. Time is in slots; `Recorded` computes the back-off from the
start of the batch, as the code does.

### InvoiceLedger (`invoicing.py`, `stock.py`, `recurring_invoices.py`, `commercial.py`)

Requests of any kind on a few invoices with their lines, stock items and one
recurring schedule.

| Model | Code |
|---|---|
| `doc` | `Invoice` with its `InvoiceLine`s: `quantity` and `used` (`stock_quantity_consumed`) of each item, `source`, `number`, `claimed` (the line a `RecurringInvoicePeriod` bills), `withdrawn`, `voided`, `deliveries` |
| `numbers`, `stock`, `contract` | `TenantBillingProfile` and `InvoiceNumberSeries`; `StockItem`; the revision of a `ContractCost` |
| `schedule` | `RecurringInvoiceSchedule`, its `RecurringInvoiceTerms` and `RecurringInvoicePeriod`s |
| `Of`, `LineOf`, `ClaimOf`, `Stock`, `Tenant`, ... | the rows a request can lock: an invoice, a line, a claimed period, a stock item, the tenant |
| `request`, `todo`, `held` | what each session does, and to which row; the rows it has still to lock; the rows it has locked |
| `mailed`, `undone` | mails a server accepted; invoices whose mail's request then failed |

Every operation is one transaction in three parts: `Begin...` reads what the
first locked row decides and lists the rows the code will lock, in its order
(`Plan`, `DeletePlan`, `PlanOfOther`; the lines of a deleted draft come in any
order, as their positions may be any); `Lock` takes one row, and waits while
another request holds it; the operation's own action (`IssueInvoice`, `ChangeLine`,
`AmendTerms`, ...) repeats the checks the code makes under its locks, writes and
commits. Two details of PostgreSQL are in the locks: `select_for_update` with
`select_related` locks the joined rows too, and the deferred foreign keys of what
a transaction inserts share-lock the tenant or the client at COMMIT
(`Referenced`). `Abort` is a failure at any point, or PostgreSQL breaking a circle
of waiting requests.

`deliver_invoice` is two steps, `Mail` and `RecordDelivery`, because the mail
leaves before the COMMIT; `undone` remembers the mails whose request then failed.
A document has at most one line for each stock item, which draws on it or not, at
a price of one, so that quantities are amounts; the rows hold the columns the
properties need.

### SyncJobs (`integrations.py`, `integration_providers.py`, `tasks.py`)

One HaloPSA connection. `Plan` and `EnqueuePlanned` are
`schedule_integration_syncs` (what it reads and what it inserts, between which a
task may hold the connection), `RequestSync` the manual request, `ListDue` and
`Dispatch` the lease of `dispatch_integration_syncs`, `DispatchDies` its death
after some tasks were queued. `Start` and `ReadPage`, `Fail` or `WorkerDies` are
one task: `system_rls_scope` makes it one transaction, and `select_related` locks
the connection with the job, so tasks of one connection, and everybody who
changes or refers to the connection, wait (`Unlocked`). The `.delay` inside the
dispatcher's transaction is harmless for that reason: a task that starts early
waits for the row. Fetching and recording a page are one step, because nobody
sees anything in between; what the provider has is `remote`, listed by position
in pages, and it changes at any time. `firm` and `reviewed` are history variables
of the properties: the records a run cannot have missed, and the retirements a
person has resolved.

### DeliverySchedule (`next_delivery_at`, `_outside_quiet_hours`)

Pure operators over local time in slots: the coming hour, the next digest, the
end of quiet hours that may cross midnight. Shifts of the zone's offset are left
out.

### AcceptedHistory and AtLeastOnce

The abstract specifications. `AcceptedHistory` has three moves: the history is
extended by one authored change, the index moves to the accepted head, and that
head is published when it is indexed. `AtLeastOnce` has two: rows move between
states as allowed, and items are handed over. `ImplementsHistory` and
`ImplementsPromise` are the refinements.

## 4. Runs

| Run | Question | Bounds and why they are enough |
|---|---|---|
| `repository` | all safety properties of `ManagedRepository` and the refinement | 2 processes, 2 changes, history 2, 1 interference (2.1 million states). Two processes meet in every pair of operations; two changes let two writers differ; with history 2 there is a base, a commit and a commit on top of it. The proofs lift all of it to any bounds |
| `repository_live` | does every call end? | 2 processes, 1 change, history 1, 1 interference |
| `coordinated` | do SQL, branches and files agree at the end of every scope, and what survives each kind of fault? | the constraint `EitherInstance` joins two instances: one process that nests scopes (a nested scope in a plain one and the converse) over two repositories without faults, and two processes with flat scopes at one repository with one kind of fault, any number of times (0.9 million states). The proofs lift the safety properties to any nesting and any number of repositories, processes and faults |
| `webhooks` | at-least-once, current key and endpoint, accepted once | 2 workers, 2 endpoints of 2 clients, 2 attempts, 1 crash, 1 operator action; the time limit and the attempts constraint are both reachable (0.8 million states). The proofs lift it to any bounds |
| `webhook_live` | does every delivery end? | 1 worker, 2 deliveries to one endpoint, 1 crash, 1 operator action; constraint and time limit out of reach (7 says what happens when they are not) |
| `webhook_retry_limit` | finding, see 7 | 1 worker |
| `email` | as `webhooks`, with accounts that close, authority and preferences that change | 2 workers, 2 recipients, 2 attempts, 1 crash, 1 act of an administrator (1.3 million states) |
| `email_live` | digests: are they of one recipient, is every claim in one, does every notification end? | three notifications of one recipient and one of another, digests of two, so bundles, a split and a remainder all happen; quiet hours on top of a daily digest; batches of three of the four; 1 crash, or 1 act of an administrator, the retry of a dead mail among them, and not both (`MaxUpsets`; 0.2 million states) |
| `schedule` | is the schedule what its words say? | every preference over a day of 6 slots and hours of 2, every creation time and moment of 3 days. The proofs lift it to any day |
| `schedule_quiet` | finding, see 7 | the same |
| `invoicing` | all properties of `InvoiceLedger` | 2 requests at a time, 3 documents, 2 stock items, 2 periods, 2 units. The constraint `Focus` lets requests meet that touch the same rows: invoices with their corrections and mails (three documents when two are numbered, corrected or voided beside a third), two drafts that draw on one stock item, two drafts with lines on two items, and a recurring schedule with its drafts (0.3 million states). Two items and two lines are what the deletion of two drafts needs to lock stock in opposite orders. With two requests only circles of two can be seen, and the property speaks of no others. The proofs lift the run to any requests, documents, items and bounds |
| `sync` | all properties of `SyncJobs` | two runs, a scheduled and a manual one, which overlap; 2 records on a page each, one of which matches an entity; 2 attempts; two failed attempts in all, enough for a retry and a dead letter of one job or a retry of each (the constraint `FewFailures`); 2 upsets (a death, a remote change, a pause or a new address, a cancelled job, a resolved conflict) in any combination (2.5 million states). The proofs lift it to any jobs, pages, records, failures and upsets |

`CHECK_DEADLOCK FALSE` stands where a behaviour may stop because nothing is due
and the clock, crash and operator bounds are used up.

Every property has a mutant: a changed definition (in the modules, marked
`Mutant:`) that a plausible bug would give and that its run finds.

## 5. Fairness

`ManagedRepository`: strong fairness of each process's steps once a call has
begun. The file lock is polled with a deadline, and the deadline is itself a
step (`LockTimeout`), so a waiter never depends on being lucky; PostgreSQL
queues waiters for a row in order of arrival, which is why a wait that is
repeatedly enabled is eventually served. New calls, crashes and interference are
not fair.

`InvoiceLedger` and `SyncJobs` state no fairness: requests may be abandoned
anywhere, and their properties are safety. That every pending job ends was tried
for `SyncJobs` and is out of TLC's reach with two overlapping runs; with one run
it says little, as nothing then stands in the way.

`WebhookDelivery`, `NotificationEmail`: weak fairness of each worker's batch (the
beat schedules the task every 30 and 60 seconds and a batch does not wait: rows
held by others are skipped) and of the clock. Not fair: the outside world (which
answer an endpoint gives), operators, projection, crashes.

## 6. Proofs

`ManagedRepositoryProofs`: for any set of processes and changes, any bound on
history and interference, assuming only that `NoProc` is no process and
`Foreign` no change. The safety properties do not follow from each other, so the
inductive invariant `Inv` says what every program counter knows:

- `LocksHeld`: which locks a process holds at each step, and that an exclusive
  file lock excludes every other. Everything else rests on it.
- `HeadIsFresh`: under a lock, the head a process has read is still accepted.
- `MadeOnHead`: the commit a writer made is the accepted head or one change on
  top, so a write can only extend the history.
- `BranchIsKnown`: without interference, where the branch is at each step of a
  writer, also between `update-ref` and `COMMIT`.
- `NothingIsMissing`: without interference, everything named or about to be
  named is in the object database.
- `StageIsKept`: a running writer's staging directory exists.

There is one lemma per operation (`WriteKeepsInv`, `ReadKeepsInv`,
`ReconcileKeepsInv`, `PublishKeepsInv`, `IndexKeepsInv`, `InterferenceKeepsInv`)
with one step per action, and `LeavingKeepsInv` for the many ways a call can end.
From `InvIsInvariant` follow the type invariant, the safety invariants of
the run `repository`, the action properties `BranchMovesAreSafe` and
`ReadsAreStable` (no run checks the latter: it restates how a read is served), and
`HistoryIsImplemented`: each step of the code is a step of `AcceptedHistory` or
a stutter.

`DeliveryScheduleProofs`: for days and hours of every length, every preference
and every moment. A moment is a start of a day plus a time of day below `Day`
(`DayOfMoment`); the candidate answers of `_outside_quiet_hours` and of the
digest lie on that day or the next, and comparing times of day settles which is
first (`FirstOutside`, `DigestIs`). Theorems: `QuietHoursEnd`, `DigestIsNext`,
`NeverPutOffTwice`. The only assumption is that the lengths are positive.

`WebhookDeliveryProofs`: for any workers, endpoints, owners and deliveries (of
which there are finitely many) and any limits. The invariant rests on
`LocksExclude` (no row is locked twice) and says with `CallsAreCovered` that a
calling worker holds the row, the endpoint and the owner, so that what its claim
read is still true; with `OwnRowsFollow` how far a batch's own version of a row
can be from the committed one, which is what makes its commit a legal move; and
with `AcceptedIsKnown` that somebody still knows of every accepted call: the
committed row, or the one worker whose locks keep all others away from it.
Theorems: `CallsAreCurrent`, `NothingIsAcceptedTwice`, `PromiseIsImplemented`
(every step is a step of `AtLeastOnce` or a stutter), and `TypesAreKept`: a row is
only recorded after an attempt on it was counted (also part of `CallsAreCovered`),
so `_retry_delay` is given a positive count, and a row becomes due within the clock.

`NotificationEmailProofs`: the same argument for mails, for any workers, accounts,
clients, finitely many rows, any preferences and any limits. What is new are the
claims of a batch, gathered by recipient: `Sorted` says that every recipient has
one group and that no claim is in it twice, `FiledGroups` and `LettersTaken` that
filing a claim and taking a digest off the front keep it so and lose no claim, and
`ClaimsAreCovered` that every claim still waiting is locked with its account, so
that the account stays open until its mail has been answered. Theorems:
`DigestsStayApart`, `ClosedAccountsStayUnmailed`, `NothingIsMailedTwice`,
`PromiseIsImplemented`. `TypesAreKept` needs a second invariant, `Bounded`: a pending
row has an attempt left, one that is being mailed has used one, and no row was
retried more often than administrators acted (`Sound`); with it `LookedIsSound` and
`RecordedIsSound` show that no claim and no answer exceeds `MAX_EMAIL_ATTEMPTS`, and
`ScheduleType` that the schedule yields times.

`InvoiceLedgerProofs`: for any requests, finitely many invoices, any settings and
any bounds, assuming that settings are as `clean()` accepts them and that the
bounds leave room for one period, unit, set of terms and source. No property is
inductive: each depends on what a request knows of its document long after it
read it. Two invariants say it.

`Inv` says what the locks protect: `RequestsHold`, that what a request found under
its first lock is still true and that the rows it needs are locked or on its list
(a request that deletes a line holds the line, so its draft can neither be deleted
nor become another period's meanwhile); `LocksExclude`, that nobody else has them;
`CountersAgree`, that a counter is one more than what was issued in its period, and
that nothing was issued in later periods, so the counter may start again at 1;
`ClaimsHold`, which adds to the property that claimed documents are marked as such
and that a schedule without terms has no claims. The argument goes through
`DocStep(locks)`: every transaction creates an absent document or edits, deletes or
closes one it has locked. What follows from that alone is proved once (`OthersHold`,
`FinalStays`, `ClaimedStays`), and the lemmas per transaction only show that they
are of this form. Theorems: `NumbersRunOn`, `FinalDocumentsStay`, `ClaimsStayTrue`.

`Ledger` rests on it and has what `Inv` leaves open:

- `LocksInOrder`: in which order a request takes its rows, now and in what it still
  has to lock (`InOrder`), and which rows it can hold together when it commits
  (`EndsInOrder`). A draft is locked before its line by every request but the change
  and the deletion of a line, the tenant before the numbering and before any draft,
  the schedule right after the contract, and the client or a second item after the
  stock only by the deletion of a draft. Of two requests that wait for each other
  each holds what the other wants: `OneIsWanted` finds the row and `MayAsk` what the
  asking request then holds, so that comparing the two leaves the circles that
  `CirclesAreKnown` names. An issue that waits for the credited invoice is in none of
  them: `SourcesIssued` says that invoice is issued, and who holds an issued invoice
  asks for nothing the issue has locked but the tenant's row (`SourceIsNotFaced`).
- `DocsSound`, through `Effect`, what any step whatever does to one document and to
  the stock: what draws on the stock is a line, what credits an invoice names one that
  was issued, and only issued documents are voided.
- `StockHolds` and `CreditsFit`: the sums. A step changes one summand, so each
  follows from a lemma that any element of a finite set may be added last.
- `MailsCounted`: a mail is recorded on its invoice, or its request is still on the
  way to record it, or it failed and is known to have.
- `CountersBounded`, `ScheduleBounded`: no number exceeds its digits and no source
  its bound, which the typing needs.

Theorems: `TypesAreKept`, `CorrectionsStayApart`, `StockAddsUp`,
`CirclesStayKnown`.

`FiniteCounting` holds what these proofs, and the delays of the dispatchers, need of
finite sets beyond the library: that `MapThenSumSet` is what its definition says
whatever element is taken first, and that a power of two is positive, as it counts
the subsets of a set. The library's induction theorems take an operator as a
parameter and cannot be used; the induction is stated over a set of subsets
instead (`SubsetInduction`), from the theorem that inclusion is well founded.

`CoordinatedRequestsProofs`: for any processes, repositories and files, any depth of
nested savepoints and any faults, assuming that `NoProc` and `Foreign` are no
processes and `Absent` no commit. `Inv` says for each process what its open
transaction may still do, and the same of every savepoint on its stack, because
going back to one must not lose what an outer scope relies on:

- `LocksHeld`: an enlisted repository is locked by this process alone, and what is
  written, here or in a savepoint, is enlisted. Everything else rests on it.
- `ExtendsAccepted`: what the transaction may commit is what is accepted and then
  its own commits.
- `QuietInside`: without faults every branch was found at its accepted head.
- `BehindEveryTarget`: every position a branch may be moved back to has the accepted
  head behind it, as long as no durable commit can look like a failure and no
  program moves branches from outside.
- `Aligned`, `DriftIsKept`: a scope that commits has aligned the branches it wrote,
  and it neither writes nor moves one it found elsewhere.
- `FilesAreOwned`: a file belongs to the one scope that created it until that scope
  has decided; then rows and files agree.

`OthersKept` and `ScopeStep` show once that a step of one process leaves the parts
of all others alone; there is a lemma per action, and the undoing of several
repositories in turn is one argument over what is left to undo. Theorems:
`TypesAreKept`, `QuietRepositoriesMatch`, `BranchesKeepAccepted`, `FilesAreKept`,
`AcceptedHistoryGrows`, `ScopesLeaveDriftAlone`.

`SyncJobsProofs`: for any finite set of records, page size, workers, runs, lease,
retries and clock, assuming that there is a record at all and that `None` is no job,
row or key. The hazard is that a page is read twice or out of turn when tasks are
delivered twice, die or are recovered while their run goes on. The invariant says
why it cannot be: `RowsInOrder` (jobs are numbered as they are made and no two of a
run read the same page), `ContinuedAfterEnd` (a run goes on only from a job that
has ended), `PendingIsLast` (the job to be done is the last of its run, and the
pages before its own are the recorded ones), `WorkIsPending` (one page is read at a
time, by a job that is to be done), `LogIsRead` and `RecordedInOrder`. For the
retirements, `FirmIsAhead`: a record the provider had all the while was seen by the
run or is listed behind the pages it has read. It needs what a page of a listing
is: the ranks of its records are consecutive (`RankIsBijective`, `PageIsFull`), and
a record keeps its rank or gains when others appear behind or before it
(`RankStays`, `RankGrows`). Theorems: `TypesAreKept`, `PagesAreReadInOrder`,
`RetirementsAreEarned`, `RetirementsAreShown`.

Only model-checked: liveness (`CallsEnd` and the two `DeliveriesEnd`; fairness and
ENABLED are beyond the prover), and the two properties whose runs expect a
violation.

## 7. Findings

1. `webhook_retry_limit` - a manual retry keeps the attempts already counted and
   a check constraint allows 20. The claim that would be the 21st raises, nothing
   catches it, and the whole batch rolls back: that one row stops outbound
   delivery of the tenant until it is removed by hand.
2. `schedule_quiet` - quiet hours are applied to the moment an hourly or daily
   item became eligible, not to the moment it is sent. An item that is looked at
   late (a backlog, a retry, the administrator's retry) is mailed inside the
   recipient's quiet hours.

Noted while modelling, without a run of their own: the task time limit of 300 s
is shorter than a batch of some 40 silent endpoints, or of 30 recipients behind
a mail server that accepts no connection, so such a batch is killed and starts
again with its attempts forgotten (`Killed` in `WebhookDelivery`; excluded from
`webhook_live`); authority and preferences are read when a notification is
claimed and not locked, so what is withdrawn between claim and mail is still
mailed (`ClosedAccountsGetNothing` therefore speaks of accounts, whose rows are
locked, and of nothing else).

Also noted, where the words of a document and the code differ and the models
follow the code:

- `docs/adr/0116:51` says only a validated attempted write authorizes
  compensation; `restore()` (`repository_service.py:1376`) moves every enlisted
  branch back, also of a repository that was only read. With a branch another
  program moves during a failing request, that commit leaves the branch. This is
  the fault "meddle" that `DriftIsLeftAlone` and `BranchNeverLosesAccepted`
  exclude.
- Number series are found again by prefix, date and reset period. Changing only
  the reset period starts a series at 1 whose rendered numbers are taken: every
  issue then fails until the prefix is changed. No number is repeated
  (`NumbersAreGapless`; TD-RISK-064 in `docs/ENGINEERING_RISKS.md:216`).
- A draft consumes stock (`docs/adr/0102:20` reads as if issuing did), and a
  withdrawn recurring draft keeps its units; an item with units on a draft
  cannot be archived, which is why `StockIsConserved` can ask that no draft
  holds units of an archived one.
- Voiding needs an invoice that was never delivered
  (`docs/ENGINEERING_RISKS.md:376`), but a mail that was accepted by a request
  that then fails leaves it so: `CorrectionsExclude` names that case.
- Requests can wait for each other in a circle, where PostgreSQL aborts one
  (`recurring_invoices.py:357` promises an order of the source and schedule rows
  only, which holds). `CirclesAreKnown` lists all circles of two: over the tenant's
  row, which deferred foreign keys lock last and an issue, correction or mail locks
  early; over a line and its invoice, since changing or deleting a line locks the
  line, the client and then the invoice, and every other request the invoice
  first; and over stock that the deletion of a
  draft has returned (`delete_invoice`), when it then asks for the client, at
  COMMIT, against a line operation that has locked the client and waits for the
  stock, or for a second item against the deletion of another draft, since the
  items are locked in the order of the lines.
- Two runs of a connection may overlap. The one that ends last retires what it
  has not seen, also a record that appeared meanwhile and that the newer run has
  observed; a record that vanishes moves those behind it to an earlier page,
  where a running run no longer looks. Both can retire a record that exists, and
  the conflict that says so stays open when the record is observed again with a
  mapping. A paused connection's queued jobs still run: a task looks neither at
  `active` nor at its lease.

## 8. Not modelled

- Everything listed as planned in section 2; PROJECT.json names the sources.
- What a Markdown file or index holds, how a mail or a webhook body is rendered,
  signing and address pinning: data that no property distinguishes.
- Permission evaluation: a pure function of rows. Where a decision can become
  stale between check and use it appears as one fact per item (`authorized`).
- Inventory, networks, people, sites, and commercial records but for the
  contract cost: single-row edits under database constraints, with no order of
  steps worth a model.
- Inside `InvoiceLedger`: payment and accounting events, retained PDFs and
  snapshots, a second line for one stock item, taxes and rounding, manual stock
  adjustments, the calendar of recurrence and proration.
- Inside `SyncJobs`: the NetBox and UniFi projections, publication to a provider,
  prefixes, secrets, the purge of old observations, and other providers' cursors.
- Search, exports, PDF, the browser application and the renderer: outputs.
- Inside `ManagedRepository`: backup bundles and manifests, pack maintenance
  (objects are never pruned by the service), and which file paths changed.
