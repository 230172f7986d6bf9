# PortaPay Core: specifications, checks and proofs

This directory models the backend of PortaPay Core (`src/backend`) in TLA+: what happens between a
provider's webhook and a customer's credit, with the workers, the requests of administrators and the
job queues that take part, and around it the gates of the API, the provider's client, the
administrators' portal (`src/admin`) and the demonstration's scripts. TLC checks the models on small
instances; TLAPS proves for every size the safety properties that the runs check and the refinements
of the abstract specifications; what needs fairness is left to TLC.

```
tlc -workers 2 -config MCSettlement.cfg MCSettlement
tlapm ReconciliationProofs.tla
```

`PROJECT.json` lists components, runs, mutants, the map from definitions to source lines,
findings, hazards and theorems.

## 1. Inventory

| part | state it keeps | operations | module |
|---|---|---|---|
| webhook intake (`webhooks.service.ts`) | `webhook_events`, `provider_events` | `receiveProviderWebhook`: check headers, insert, insert, enqueue, answer | `Intake` |
| verification worker (`verification.processor.ts`) | `transactions`, `transaction_events` | ask the provider, find the account, insert, log, enqueue | `Intake`, `Transactions` |
| reconciliation (`reconciliation.service.ts`) | `reconciliation_decisions`, `reconciliation_cases`, transaction status, `audit_logs` | `reconcileTransaction` (worker), `resolveCase` (administrator), `previewScore` | `Reconciliation`, `Scoring` |
| ledger (`ledger.service.ts`) | `ledger_entries`, unique `reference` | `append` | `Reconciliation` |
| queues (`queues.module.ts`, BullMQ) | jobs, attempts, locks | add, take, complete, fail, stall | `JobQueue` |
| customers, virtual accounts (`customers.service.ts`, `virtual-accounts.service.ts`) | `customers`, identity and tier history, `virtual_accounts`, their events | create, rename, change tier, close, restrict, statement | `Registry`, and `Directory` for what a reader can see |
| Nomba provider (`nomba.provider.ts`) | access token in memory | issue token, create account, fetch transaction, merge it with the webhook, check a signature | `Provider`, `Payloads`; an answer or an exception in `Intake` and `Registry` |
| downstream webhooks (`downstream-webhooks.service.ts`) | `webhook_subscriptions`, `webhook_deliveries`, dispatch jobs | `emit`, `dispatch` | `Dispatch`; `emit` as a notice in `Reconciliation` |
| idempotency (interceptor and service) | `idempotency_records` | look up, insert, handle, complete | `Idempotency` |
| rate limit, administrators' tokens (`rate-limit.middleware.ts`, `auth.service.ts`) | a `Map` of buckets; none | count, log in, accept | `Gates` |
| transactions (`transactions.service.ts`) | none of its own | answer a payment's status from four reads | `Readers` |
| portal (`src/admin/src/App.tsx`) | token, dashboard, spinner and message of a tab | log in and out, load, refresh, act on a case | `Portal` |
| scripts (`seed-demo.ts`, `simulate-nomba-webhook.ts`) | none of their own | write the demonstration's rows; post, then poll until there is a result | `Seed`, `Readers` |
| administration, reports | none of their own | read tables, create keys and subscriptions | `Subscribe` in `Dispatch` |
| migrations, configuration | none | | no |

How the parts meet. The intake handler adds a job to the verification queue. The verification
worker inserts the transaction and adds a job to the reconciliation queue. The reconciliation
worker reads the directory, writes a decision and either appends a credit or opens a case.
An administrator's request resolves a case and may append a credit of its own. Both tell
subscribers through `emit`. Meanwhile administrators change the directory. All of this goes
through one PostgreSQL database and **no handler opens a database transaction**: every `await`
is a point at which another handler may run, a statement may throw or a process may die.
What protects the data are unique indexes (`webhook_events` and `provider_events` by event,
`transactions` by provider reference, `ledger_entries` by reference, decisions and cases by
transaction) with `onConflictDoNothing` or `onConflictDoUpdate`.

What is hard, and what should hold:

* *Retries and overlap.* A job is repeated after an exception (five attempts) and handed out
  again when its lock expires, while the first worker may still be running. One credit per
  reference, a ledger that only grows, a final state behind every completed job.
* *Reads before writes.* Three statements read the directory and a fourth decides. An account
  closed before its payment is taken up must never be credited automatically.
* *Two writers of one row.* The worker that opens a case sets the transaction's status after
  the case is visible; an administrator may approve it in between.
* *Duplicates.* The provider repeats events and reports a payment under several event ids.
* *Partial failure.* Row first, job second, in both the intake and the verification worker.
* *Two limits on one repetition.* `dispatch` counts five posts in the row and adds a job for the
  next one, while BullMQ repeats a job that throws; a late worker overwrites what another wrote.
* *Keys.* Two requests with one key look it up at once; a record expires and still occupies the
  unique index; a handler fails inside its record.
* *Readers of several tables.* The status of a payment, and the result a script prints, are put
  together from reads at different moments.
* *Clocks.* A window that is opened by a request, a token with a margin and a floor that several
  callers ask for at once, a login that ends while calls are under way.
* *A client without a lock.* Every button of the portal starts a call; they come back in any order.
* *A script that is its own migration.* The seed is run over rows it has written, in part or in
  full, and that administrators have worked on since.
* *The rule itself.* Seven weights, a clamp, two thresholds and a list of early returns must
  agree with one another and with the preview that is offered to administrators.

`hazards` in `PROJECT.json` lists each of these at its line with the properties aimed at it.

## 2. Modules

```
Scoring <- Directory <- Transactions <- Reconciliation <- Seed, Readers
              JobQueue <-'      \                  \
                                 Intake <- Pipeline (Intake + Reconciliation)
Settlement  <---- refined by Reconciliation
Directory   <---- refined by Registry
Idempotency, JobQueue <- Dispatch <- Announcements (Idempotency + Dispatch)
Clock <- Gates <- Portal (tab + Gates);  Clock <- Provider
Scoring + Payloads <- MCScoring
MCReconciliation, MCSettlement, MCReaders, MCRegistry, MCIntake, MCPipeline,
MCAnnouncements, MCAccess, MCSeed: instances for TLC, with the history variables some properties need

proofs about                 in                    which rest on
Reconciliation               ReconciliationProofs
Settlement, MCSettlement     SettlementProofs      ReconciliationProofs
Readers, Seed, MCSeed        SharedTableProofs     ReconciliationProofs
Intake, MCIntake, Pipeline   PipelineProofs        ReconciliationProofs
Registry, MCRegistry         RegistryProofs
Idempotency, Announcements   AnnouncementProofs
Gates, Portal, Provider      AccessProofs
Scoring, Payloads            ScoringProofs
```

* **Scoring** translates `score()`, `outcome()`, `recommendedAction()` and `previewScore()` as
  operators over a record of facts, and the limits and `nameMatches()` behind two of them. A name is
  a sequence of words. It has no state. **MCScoring** walks through every combination of statuses,
  amounts around the limits and pairs of names, one circumstance at a time, and holds the
  scenarios of `scripts/seed-demo.ts` against them.
* **Directory** is the part of `customers` and `virtual_accounts` that reconciliation reads:
  account status, tier, name, and the names of history rows flagged for matching. Each of its
  actions is the one write of a handler that a reader can see; a rename has two
  (`Rename`, `RecordRename`), and the second may be lost (`LoseRename`). As in the code the flag
  belongs to the *new* value of a history row.
* **Registry** is what Directory abstracts: `create`, `updateIdentity` and `updateKycTier` of
  customers, `create` and `setStatus` of accounts, with their reads, the provider's part, and the
  history, event and audit rows. The five methods have the same shape (read, write, record, audit),
  so its actions are those of the shape and a request says which method it is for.
  `ImplementsDirectory` ties it to Directory: `approved` is read off the flagged history rows and
  `unrecorded` off the handlers between their two writes.
* **JobQueue** is one BullMQ job as a record `[state, failures, stalls]` with the operators
  `Added`, `Taken`, `Completed`, `Failed`, `Stalled`. BullMQ is not in the repository; this is
  the contract the backend relies on.
* **Transactions** holds the rows the verification worker writes and the reconciliation worker
  takes up: `tx` (status), `payee` (`customer_id`), `trail` (events) and `job`. In Reconciliation
  payments arrive as the verifier brings them in: row (`ArriveRow`), event (`LogArrival`) and job
  (`QueueArrival`) are three steps, the later ones need not come, and the customer may have been
  looked up before the account was opened (`FoundBefore`).
* **Reconciliation** is `reconcileTransaction` and `resolveCase` with one action per statement.
  `wpc[w]` and `rpc[r]` name the statement an execution runs next; `seen[w]` are the signals it
  has gathered, `verdict[w]` its outcome, `held[w]` whether it still owns its job's lock. `Fail`
  is a statement that throws, `Crash` a process that dies, `Stall` a lock that expires, be its
  worker dead or slow. Notices, audit rows and events are sets: the properties ask whether they
  exist, not how often.
* **Settlement** says what reconciliation promises about money: a payment is credited at once, or
  approved after a review, in either case once, and to the customer of the account (an approval, if
  the customer was known when the payment was verified; to nobody if not). The promise is per
  payment and ends when the payment is *disturbed*; from then on it may be paid again. What
  disturbs a payment is not Settlement's to say: **MCSettlement** maps it to a payment that was both
  executed again and met by a change of the account, tier, name or history rows it is decided from.
* **Intake** is `receiveProviderWebhook` and `VerificationProcessor.process`, again one action per
  statement. A delivery carries a record of its headers: the algorithm and version they name,
  whether the signature is the computed one, how the timestamp stands to the clock; `Supported`,
  `Authentic` and `Fresh` are the three checks. The provider's answer is nondeterministic:
  `VerifyTransaction` or `FailVerification`.
* **Pipeline** joins Intake and Reconciliation over the shared tables and queue. `CalmNext` are the
  steps in which nothing fails, `FaultNext` the others. **MCPipeline** has two customers, each with an
  account, and payments to one of them, and records whether a step of `FaultNext` was taken.
* **Idempotency** is the interceptor around a handler: `FindRecord`, `InsertRecord`, `Handle`,
  `Complete`. A key stands for the header with its scope, `executed` are the calls that passed the
  insert, `answer[q]` is the call whose response q was given. A record is never removed and never
  replaced, only marked as expired, because the code has no statement that does more.
* **Dispatch** is `emit` and `dispatch`, one action per statement. `dread[w]` is the count an
  execution read at its start and writes, plus one, after its post. A post may be accepted, refused,
  or fail with the subscriber having received it or not. `faults` counts what goes wrong besides.
* **Announcements** puts `emit` inside the interceptor's handler, as in `resolveCase`.

* **Readers** is `TransactionsService.status()` and the script's `waitForTransaction()`, one action
  per read, next to the reconciler of Reconciliation. An answer keeps, of each row, whether it was
  there, and of the transaction its status.
* **Clock** is `Date.now()`, which moves at any time. **Gates** is the fixed window counter, whose
  buckets are gone after a restart, and the login tokens, of which only the expiry matters.
* **Provider** is the token in memory: a caller that finds none asks for one, so that several may
  ask at once, and each answer is kept with an expiry counted from its reading. A token records
  when it was issued, for how long, and when its answer was read. **Payloads** has no state: it is
  what `verifyTransaction` makes of a webhook and an answer whose fields may all be missing.
* **Portal** is one browser tab. `call[k]` is a call under way with the token of the page that
  started it; a call passes the Gates, is served, refused or lost, and comes back at any time. The
  dashboard is reduced to the version of the cases it was read from. Only the token outlives a reload.
  A broken connection and a reload end the tab's side of a call only: an action left behind goes into
  `stray`, and the API may carry it out at any later time (`ServeStray`), count it and refuse it, or
  never have heard of it.
* **Seed** is the script's statements in their order for each scenario, `line[s]` being the next one
  of a run. An "ensure" is a look and an insert (`due[s]` between the two), an upsert and a guarded
  insert are one statement. Administrators work on the same tables: their actions are Reconciliation's
  and Directory's. A look for a history row finds any row with that new name, so an administrator's
  rename to a former name counts as the script's own (`FindName`), as in the code.

Correspondence with the code is kept in the names: `AppendCredit`, `InsertCase`, `Settle`,
`LogOutcome` and `EmitOutcome` are lines 116 to 140 of `reconciliation.service.ts` in order;
`AppendManual`, `SettleManual`, `CloseCase`, `AuditAction`, `LogOverride` and `EmitCaseUpdated`
lines 157 to 187; `InsertWebhook`, `RecordProviderEvent`, `EnqueueVerification` and `Respond`
lines 50 to 80 of `webhooks.service.ts`; `FindAccount`, `InsertVerified`, `LogVerified` and
`EnqueueReconciliation` lines 31 to 56 of `verification.processor.ts`. Operators whose comment
begins with *Slip* are plausible mistakes of those lines. No specification uses them; they serve
to confirm that a property would notice (`mutants` in `PROJECT.json`).

## 3. Runs

| run | question | size and bounds |
|---|---|---|
| `scoring` | Do weights, clamp, thresholds, early returns, merging and preview agree? | every status and flag, 7 charges, 10 pairs of names; provider and webhook each with or without every field |
| `settlement` | What survives repeated and overlapping executions, an administrator and a changing directory; which payments have one credit at most, and is Settlement implemented? | 2 workers, 1 request, 1 stall, an account that is opened and closed and a tier that is raised at any moment |
| `live` | Are queued payments settled, barred accounts safe from late jobs, and answers of one piece? | 2 workers, 1 reader of either kind, 2 attempts, 1 stall, the account may be closed |
| `intake` | Are jobs added once, does verification end? | 2 event ids for one payment, 2 deliveries, 2 handlers, 2 verifiers, 2 attempts, 1 stall |
| `registry` | Do the handlers change what the reconciler reads only as Directory says, and when do the histories tell all? | 2 clients, 4 requests, 1 customer, 1 account |
| `pipeline` | Where does a credit come from, in whose statement is it, who is sure to be credited, and is an accepted webhook settled while nothing fails? | 2 customers and accounts, the one paid to opened and closed at any time; 1 process of each kind, 2 deliveries with good or bad headers, 1 request, any failure, each of which ends its job |
| `announcements` | Does a key run one handler, are subscribers served, how often are they posted to? | 2 calls with one key, 2 bodies, 1 subscriber, 2 dispatchers, 2 posts, 2 attempts, 1 stall, 1 fault |
| `access` | How many requests pass, is anybody refused who keeps to the limit, are tokens alive, does a tab show what its user did and its spinner stop? | clock of 7 moments, 3 for the portal, window 2, limit 2, 3 requests to a window and 6 in all; 2 overlapping calls of the tab, any number lost or left behind, 2 changes of the cases; 2 callers, tokens that live 1, 2 or 4, margin 2, floor 1 |
| `seed` | What does a run of the seed leave, and a repetition change? What stands behind a manual credit? | 2 scenarios (credited, held back), 3 runs, 2 at once, 2 requests, 2 resolutions, renames to the former name |
| `double_credit`, `approval_overwritten`, `lost` | the findings below | 2 attempts, otherwise as `settlement` and `intake` |

Why the bounds are enough to meet the interesting cases. Two workers are needed for an execution
that lost its lock to overlap its successor, and a third adds only another such overlap; two
attempts give one repetition and one final failure (the code has five, which repeats the
repetition); one stall gives one expired lock that is recovered and a second that is not. Where a
run has a single attempt, as `settlement` has, an execution is still repeated from any statement:
its worker dies, or is slow, and the lock expires. One request suffices for an approval to meet a
worker at every statement; `approval_overwritten` uses two. Payments share nothing but their
customer's tier and name, and no handler reads another payment's rows, so one payment stands for
many; the theorems hold for any number of them. The account paid to is one of two in `pipeline`,
where the wrong customer could be credited. Amounts lie on either side of the TIER_1 limit, names
are a maiden and a married one, and the sender is known under the latter. In `announcements` one
subscriber is enough because a loop over several repeats the same two statements with rows of its
own, one fault because each property compares a run without faults with one that has them (two
faults were checked once, with the same result); the posts are two where the code has five.
`MaxResolutions`, `MaxDeliveries`, `MaxRequests`, `MaxFaults`, `MaxAttempts`, `MaxStalls`,
`MaxCount`, `MaxVersion`, `MaxRuns`, `Visit` and `Horizon` are bounds in guards; the change sets of
Directory bound its administrators. Worker and request symmetry is used in safety runs only. In
`access` the moments hold three whole windows, three requests to a window are one more than the
limit, and a token dies within them whether it lives longer than margin and floor together or not.
`Visit` stops the clock of the portal after one window and two logins, which is all that limit and
login do to a tab; portal, gates and provider share only the clock, so `MCAccess` moves one of them
in each behaviour. In `seed` a third run can complete what two stopped ones left, and the two
scenarios cover both branches of the script and both kinds of customers; runs overlap or
administrators interfere, but not both in one behaviour, which keeps the instance small: beside
administrators the script runs once at a time.

Deadlock checking is off: the system may come to rest when every job is done and nobody calls.

**Fairness.** `live` and `intake` assume of each worker that it keeps executing (Node runs every
callback it has scheduled), that a waiting job is taken by some worker (BullMQ workers poll), and
that the lock of a job nobody works on expires (BullMQ's stalled check). All are weak fairness.
Nothing is assumed of failures, crashes, the provider, handlers, administrators or arrivals, so a
liveness property must hold although every execution may fail: it holds because attempts and
stalls are counted. `pipeline` assumes fair handlers, verifiers and workers, and its liveness
property excuses executions in which a statement threw, a process died or a lock expired: what
is left are all interleavings of deliveries, workers and administrators.

What the runs show:

* *For any interleaving and failure*: a RECONCILED transaction has a
  credit; an APPROVED case has its manual credit; notices are true; a completed job has a decision,
  a final status and a notice, whichever execution completed it; a late
  job never credits a barred account; queued payments are settled or given up.
* *For a payment that was not both executed again and met by a change of the rows it is decided
  from* (`UpsetSpec` of `MCSettlement` keeps record of the two for each payment): at most one credit, a
  decision that the credit follows and the case agrees with. `Settlement` as a whole is
  implemented without a premise, a payment being disturbed exactly when both have happened to it.
  What becomes of other payments does not matter. The case itself cannot be left out: it is the
  counterexample of `double_credit`.
* *For readers*: an answer that shows a final status shows the decision, the case or the credit it
  stands for, although its parts are of different moments, because the reconciler writes the status
  last and readers read it first. An answer with a decision and no final status may be shown as
  well; the simulation then stops before the ledger entry that README.md:78 speaks of is there.
* *For webhooks*: jobs are added once, every verification ends, and every credit has its origin.
  An event or a payment can be lost in two ways, of which `lost` shows the first: a handler
  stops between the webhook row and its job, and the provider's next delivery is acknowledged as a
  duplicate without queueing anything; or a verifier stops between the transaction row and its
  job, and its retry finds the row and skips the rest. PipelineProofs proves that there is no third
  (`LostOnlyIfStopped`).
* *For the owner of an account*: no credit is ever in another customer's statement. A payment that was
  looked up after its account was opened is credited to the owner only, by whomever and whatever
  becomes of the account; one that was looked up before may be credited to nobody, by an
  administrator who approves it later, although the entry's narration says "Customer credited by admin
  case approval" (reconciliation.service.ts:165).
* *For keys*: one execution per key for good, and equal answers; the price is that the key of a
  handler that failed, or whose body was refused, answers 409 for a day and an error ever after, for
  an expired record is not found and cannot be replaced.
* *For subscribers*: an answered request has a row and a job for each of them; DELIVERED is true;
  without faults posts are counted exactly and end at the limit. Failures do not multiply: each
  leaves at most one more job or worker that is still to post a delivery. Posts, however, are not
  bounded by the failures: with three posts allowed there are seven after one failure, because a
  late worker writes back a lower count and the next job begins there. The converse of DELIVERED
  holds only without faults: a late worker may overwrite it with FAILED.
* *For the directory*: the handlers implement Directory through any interleaving and failure, a
  barred account staying barred included, and the histories replay to the present row as long as
  requests neither overlap nor fail (`MCRegistry` keeps record of that).
* *For the gates*: no stretch as long as a window lets more than twice the limit pass, and nobody is
  refused who has sent fewer requests than the limit in the last window. The counters live in the
  process (README.md:27 names Redis), so a restart forgets them and several processes each have
  their own.
* *For the provider's client*: a token is alive when it reaches the provider as long as reading its
  answer and sending the request took no more than the margin of 300 seconds together, however
  callers overlap and whichever answer is kept last; a token shorter than margin and floor is sent
  for at most the floor after its end. A refused token stays in memory. What a webhook says fills
  gaps of the provider's answer, and never decides an amount or overrules a status.
* *For the portal*: a tab at rest shows its own last action unless calls overlapped or a message
  says that one failed, and its spinner ends with its calls. An action that was lost or reloaded away is
  still under way until the API is done with it, and overlaps with whatever the tab does meanwhile. When
  calls overlap an older dashboard may stay on the screen, one that arrives after a logout included.
* *For the seed*: whatever runs were stopped before it, a run that comes to its end leaves every row
  of every scenario, once unless runs overlapped or an administrator recorded the same name, and
  approves the former names unless administrators worked on the tables: a history row of theirs with
  that name is found in place of the script's and need not be flagged; a repetition on tables nobody
  has touched changes nothing; one on tables in use keeps resolutions, decisions and credits.
  README.md:59 calls the seed idempotent; on tables in use it sets the status of transactions and
  accounts back, so that an approved case's transaction reads MANUAL_REVIEW again and a closed
  account is open. In the same run administrators resolve a case more than once: a manual credit
  keeps an approval in audit log and trail, even when the case says something else by now.
* *For the rule*: automatic credit, seven good signals and a score of 90 are the same thing, and a
  name of up to three words must be there as a whole. The demonstration's outcomes are the code's;
  four of its six scores (75, 45, 60, 95) are not the code's (85, 55, 70, 100), because the rewards add
  up to 110 before the clamp.

## 4. Findings

* `double_credit`. The first execution of a job opens a case and fails before its end; an
  administrator approves the credit; the retry sees a raised tier and credits
  automatically. The two references differ, so the unique index does not help.
* `approval_overwritten`. An approval that falls between the insert of the case and the worker's
  status update is overwritten: money credited, transaction shown as MANUAL_REVIEW, for good.
* `lost`. A handler stops after the event's row and before its job; the next delivery is acknowledged,
  and the event is never queued. A verification that fails between the transaction's row and its job
  loses the payment in the same way: its retry completes, and the payment stays VERIFIED.

Each contradicts a sentence of the repository's README that `findings` quotes.

## 5. Proofs

Constants are arbitrary: any sets of customers, accounts, names, transactions, workers, requests,
clients, subscribers, seeders, scenarios, any owners, limits, windows and changes allowed by the
`ASSUME`s of the modules (in particular `Transactions` is not empty, attempts are at least one, and
every scenario of the seed has a customer of its own). TLC evaluates each assumption in the runs.
Where a theorem is about a specification of an MC module, that module adds history variables
(what was cut short, repeated, overlapped or touched), not bounds. The inductive invariants were
checked by TLC on the runs' instances before they were proved. Every safety property of a
passing run is a theorem; `theorems` in `PROJECT.json` says which one.

### ReconciliationProofs: credits, notices, barred accounts

`TypeCorrect`. `TypeOK` is not inductive: `Failed` adds one to a counter bounded by `MaxAttempts`,
which is right only because the job is then active and has attempts left. `TypeInv` therefore adds
`JobsSound` (a job exists only for a transaction that exists; one that is waiting or active has
fewer than `MaxAttempts` failures and at most `MaxStalls` stalls) and `LocksSound` (a lock is held
by one worker, at work on an active job). From `TypeInv` and three further conjuncts, `CreditInv`, follow

| theorem | property |
|---|---|
| `LedgerOnlyGrows` | `LedgerAppendOnly`: no row changes, goes or moves |
| `ReferencesUnique` | `UniqueReference`: one reference, one entry |
| `ReconciledCredited` | `ReconciledIsCredited` |
| `ApprovedCredited` | `ApprovedIsCredited` |
| `NoticesTrue` | `NoticesAreTrue` |
| `CompletedSettled` | `CompletedIsSettled` |
| `BarredUncredited` | `BarredStaysUncredited` |

The properties speak about tables, but whether a step keeps them depends on what the execution
that takes it has done so far. `WorkerKnows` says it for a worker at each statement (past the
append, the credit is there; past the status update, the status is one of the final ones, whatever
anybody wrote since; and so on) and `RequestKnows` for a request. That these facts survive the
steps of everybody else is the lemma that records only grow: credits, cases, events, audits and
notices are never taken away, and a final status is replaced by final ones only. This is why the
properties hold although status and decision are overwritten without a condition.
`BarredStaysUncredited` is a box inside a box: the proof shows that a payment that meets its premise
satisfies `Uncreditable` (barred account, no credit, no worker about to credit it, and whoever has read
the account has read that it is barred), which no step of the system ends.

### SettlementProofs: one payment, one credit

`OneCredit`, `CaseMatches`, `CreditFollows` and the refinement `RefinesSettlement`, all about
`UpsetSpec`, which restricts nothing and records of each payment whether it was executed again and
whether the rows it is decided from changed between its first execution and its last. The invariant
is a conjunction over payments that are not disturbed. `PaymentSound` says that every entry has its
ground (the decision for an automatic one, a case for a manual one), and that a payment with one
kind of ground has not the other. What a step that would break it contradicts depends on the
premise: while the job was not repeated, `RunsOnce` says that the payment has one execution, which
finds no decision; while those rows stood still, `Steady` says that what every execution has read is
what the directory says now, and that a decision is the outcome the directory gives now. For the
refinement each action is mapped to `Verify`, `Credit`, `Flag`, `Approve`, `Disturb`, `PayAgain` or
a stutter; the balances of Settlement are sums over the ledger, and the lemmas on sums (a sum exists
and does not depend on the order; one more entry adds its amount) are proved from the definition of
the community module's fold by taking a least set that lacks the fact.

### SharedTableProofs: readers and the seed

`AnswersTrue`: the status is read first and written last, so what a reader has seen (`HasRead`) is
about rows that are there by then and stay (`StillTrue`). `WatchedBarredUncredited` takes the
theorem above over to a system with readers.

The seed: `SeedLeavesAll`, `SeedTwiceIsOnce`, `SeedSpares` and `ManualCreditsTraced`, for any list of
scenarios, runs, requests and changes of the directory. `SeedInv` says what a statement has achieved
once a run has passed it (`Done`): for an upsert only until an administrator changes the row, for
a row, a credit and a case for good. `LinesDone` says that a run has done the lines before its own,
a finished one all of them, whether this run wrote the rows or one that was stopped long ago.
`RowsSound` ties the counted rows to decision, trail and case (a decision that is there is the
script's, hence a skipped insert has lost nothing), and `AloneSound` that a single run inserts only
what its look found missing, unless an administrator recorded the same name between look and insert
(`AdministratorsWrite`). `TracesSound` follows a manual credit: the request that appended it is
still on its way to the audit log and the trail, unless somebody cut it short. The arithmetic of
lines (`LineOf`, `LastLine`) is proved for any number of scenarios.

### PipelineProofs: from the webhook to the credit

`IntakeTyped`, `JobsOnce` and `LostOnlyIfStopped` for the intake alone. `IntakeInv` says who may add a
job: a row is written by one handler, which alone may queue it, and until it does there is no job
(`HandlersSound`); whatever is queued was accepted and is on record (`QueueSound`); attempts and locks
are as in ReconciliationProofs. `VerifiersSound` says the same of the transaction's row and the
reconciliation job: two verifiers of one payment never write for it at the same time. `Kept` adds that
an accepted event without a job has a handler about to queue it or one that was cut short, and likewise
a transaction; for it the module records what was cut (`CutSpec`).

The composition keeps the invariants of both halves, since a step of one leaves the variables of the
other alone but for the rows and the queue they share. To these `OriginInv` adds the chain from a
credit back to its webhook: a job exists only for what was verified, and every worker, case, request
and ledger row is about a transaction that had a job. `OwnerInv` follows the customer from the
account's row through the verifier's look-up and the stored payee into the ledger: it is the
account's owner or nobody, since an account never changes hands. `KnownOwnersArePaid` is again a box
inside a box: from a state in which the account exists and no look-up is about to write that it does
not, the row, when it comes, names the owner, and rows are never rewritten. Hence
`CreditsHaveOrigin`, `CreditsGoToOwner`, `PipelineTyped`, `PipelineJobsOnce`; and, as the steps of
the intake are steps the reconciler was proved against or leave its tables alone,
`PipelineKeepsPromises` (the properties of the table above), `PipelineBarredUncredited` and
`FinalsHaveHistory`.

### RegistryProofs: the directory and its histories

`RegistryImplements`, the refinement of Directory, for any clients and requests. Each write of a handler
is Directory's action or a stutter; what the mapping needs beyond the types is that a handler at
work has a request of the kind its step belongs to and, if it sets a status, has found the account
(`Handles`), and that nobody else can undo that: rows are not deleted. The mapping reads `unrecorded`
off the handlers between their two writes, so `Record` and `Abort` of a rename are `RecordRename` and
`LoseRename`. `HistoriesTell`: while requests neither overlap nor fail, the history rows of a
field form a chain that ends with the present value, but for the one handler between its update and
its row, which owes the last link and has read the one before (`StoryInv`, `ReadsLast`).

### AnnouncementProofs: keys and deliveries

`HandlerRunsOnce` and `ResponsesAgree` from `CallsInv`, which adds to the two properties that an
execution has left a row with its own body (`ExecutionsKnown`), that whoever is in the handler is an
execution, and that stored responses come from executions under the same key. The composition
implements the interceptor's specification (`ImplementsCalls`), hence `OneExecution` and `OneAnswer`.

`DeliveredAccepted`: a busy worker has a job of the queue in hand, jobs never change what they are
for, and a worker about to write DELIVERED has had its post accepted. Attempts and stalls need no
bound here, so `DeliveriesTyped` leaves them open. `AnsweredAnnounced`: an execution in the middle
of `emit` has inserted rows and jobs for the subscribers it has passed (`EmitsSound`), and a
response is stored after it (`AnswersServed`). `OneMoreAtMost` counts the jobs and workers that are
still to post a delivery (`Posting`): a step either hands the post on, from job to worker or from
worker to the next job, or a failure has been counted. `QuietDelivered`: while nothing but
subscribers and posts has failed each delivery is in one of a few phases (`Phases`) in which at most
one job or worker has to do with it and the row's count is the number of posts; hence at most
`PostLimit` posts, and at rest a delivery that was accepted, is out of posts or belongs to an
inactive subscription.

### AccessProofs: provider's token, rate limit, portal

`AliveTokens` for any margin, floor, lifetimes and callers, alive being promised of tokens issued
for margin and floor at least and a bound on the time they are dead of the others: the token in
memory is given up `KeptFor(life)` after its answer was read, and a token on its way was sent before
that (`CachedKnown`, `CallerKnows`); neither depends on which of several answers was kept last.
`TwiceTheLimit` and `PatientServed` for any window and limit: windows open one after the other, and
the requests let pass since the present one opened are the bucket's count (`WindowSound`,
`CountSound`), so a stretch as long as a window meets at most two of them, and a bucket that is full
was filled within less than a window. `OwnShown` and `NeverStuck` for any number of calls: while
calls do not overlap a dashboard on its way is not older than the tab's last action, and one on the
screen that is older is being replaced (`Orderly`), and an action left behind counts as one more
call until the API is done with it; the spinner turns only while a call that fetches is under way.

### ScoringProofs: the rule

`OnlyCleanIsCredited`, `CreditedUnderName`, `PreviewTells`, `ProviderDecides` and `DemonstrationTrue` are
about the payments `MCScoring` goes through, but rest on lemmas about every one: with one signal
against it a payment scores 85 at most (`EverySignalVetoes`), a name matches only when at most every
fourth of its words is missing (`MatchNeedsName`, `StrangerDoesNotMatch`), and what the provider's
answer says is never replaced (`ProviderPrevails`).

### Only model-checked

`QueuedIsSettled`, `VerificationEnds` and `AcceptedIsSettled`, which hold under fairness, out of the
provers' reach. The findings, of course, are counterexamples on small instances. That the bounded
`Horizon` and `Max...` in guards stand for an unbounded system is a matter of the models; the proofs
hold for any value of them.

## 6. Not modelled

Data that no property tells apart: payload texts, cryptography of signatures and secrets,
currencies, narrations, metadata. The age of a webhook timestamp and its
signature are what the checks make of them, and so is the API key, which is compared with one value
or one row. In Intake and Registry the provider's token is part of a call that may throw. Backoff only
delays. The number of events, audit rows and notices of Reconciliation is not counted.
`EXPIRED` and `UNDER_REVIEW` accounts and inactive customers are reached by scoring, not by the
directory's actions: no handler sets them. `removeOnComplete` is left out: jobs are not identified
by the callers. Buckets of the rate limit are never removed by the code; how many there are is not
asked. The portal's search, views and rendering, the sums of dashboard and reports, `prepare-apidog.ts`
(which rewrites a JSON file), configuration, response shaping, migrations and empty modules hold no
state or make no decision. The components are listed in `PROJECT.json` with the reason.

## 7. What could follow

1. *Proofs*: the properties of keys and deliveries for two event types at once; that the composed
   pipeline implements Settlement as Reconciliation does.
2. *Larger instances*: two subscribers and two faults in `announcements`, two verifiers and two
   workers in `pipeline`, two payments in `settlement`; both need more time than the runs above.
3. *Fixes*: `double_credit` and `approval_overwritten` would disappear with a reference per payment in
   `ledger_entries` and a status update that names the status it expects, `lost` with a job that is
   added whether the row is new or not; the runs would show it.
