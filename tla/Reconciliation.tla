--------------------------- MODULE Reconciliation ----------------------------
(* ReconciliationService: reconcileTransaction(), run by the workers of the     *)
(* reconciliation queue, and resolveCase(), run by administrators' requests.    *)
(* Neither uses a database transaction, so every statement that awaits is a     *)
(* step of its own and anything may happen between two of them.  wpc and rpc    *)
(* name the statement a worker or a request executes next.                      *)
EXTENDS Transactions, Sequences, FiniteSetsExt

CONSTANTS Workers,         \* concurrent executions of ReconciliationProcessor.process
          Requests,        \* concurrent executions of resolveCase
          MaxResolutions   \* bound on the calls of resolveCase

ASSUME MaxResolutionsAssumption == MaxResolutions \in Nat
ASSUME SomeTransactionAssumption == Transactions # {}

VARIABLES decision,     \* reconciliation_decisions.outcome, "NONE": no row
          ledger,       \* the rows of ledger_entries, in the order they were inserted
          caseStatus,   \* reconciliation_cases.status, "NONE": no row
          caseReason,   \* reconciliation_cases.reason_code
          audited,      \* the actions in audit_logs about the case
          emitted,      \* the event types handed to DownstreamWebhooksService.emit
          wpc, wtx,     \* a worker's next statement and its transaction
          held,         \* the worker still owns the lock of its job
          seen,         \* the signals a worker has gathered so far
          verdict,      \* the outcome a worker has computed
          rpc, rtx, ract,  \* a request's next statement, transaction and action
          resolutions   \* calls of resolveCase so far

recordVars == <<decision, ledger, caseStatus, caseReason, audited, emitted>>
workerVars == <<wpc, wtx, held, seen, verdict>>
requestVars == <<rpc, rtx, ract, resolutions>>
vars == <<directoryVars, transactionVars, recordVars, workerVars, requestVars>>

CaseActions == {"approve-credit", "reject-refund-required", "request-proof",
                "mark-duplicate", "mark-suspicious"}
CaseStatuses == {"NONE", "OPEN", "UNDER_REVIEW", "AWAITING_PROOF", "APPROVED", "RESOLVED"}
Notices == {"transaction.reconciled", "transaction.rejected",
            "transaction.manual_review_required", "reconciliation.case_updated"}

\* The reference column is unique and made of the kind and the transaction.
Entries == [kind : {"ledger", "manual", "demo"}, transaction : Transactions,
            customer : Customers \cup {NoCustomer}]

Reference(e) == <<e.kind, e.transaction>>

WorkerSteps == {"account", "customer", "history", "decide", "credit", "case",
                "settle", "event", "emit", "finish"}
RequestSteps == {"credit", "settle", "close", "audit", "event", "emit"}

NoFacts == [accountFound |-> FALSE, accountStatus |-> NoStatus, customerActive |-> FALSE,
            verified |-> FALSE, duplicate |-> FALSE, kycAllowed |-> FALSE,
            nameMatched |-> FALSE]

RecordsTypeOK ==
  /\ decision \in [Transactions -> Outcomes \cup {"NONE"}]
  /\ ledger \in Seq(Entries)
  /\ caseStatus \in [Transactions -> CaseStatuses]
  /\ caseReason \in [Transactions -> Outcomes \cup {"NONE"}]
  /\ audited \in [Transactions -> SUBSET CaseActions]
  /\ emitted \in [Transactions -> SUBSET Notices]

WorkersTypeOK ==
  /\ wpc \in [Workers -> WorkerSteps \cup {"idle"}]
  /\ wtx \in [Workers -> Transactions]
  /\ held \in [Workers -> BOOLEAN]
  /\ seen \in [Workers -> Facts]
  /\ verdict \in [Workers -> Outcomes \cup {"NONE"}]

RequestsTypeOK ==
  /\ rpc \in [Requests -> RequestSteps \cup {"idle"}]
  /\ rtx \in [Requests -> Transactions]
  /\ ract \in [Requests -> CaseActions]
  /\ resolutions \in 0..MaxResolutions

TypeOK == /\ DirectoryTypeOK /\ TransactionsTypeOK
          /\ RecordsTypeOK /\ WorkersTypeOK /\ RequestsTypeOK

ATransaction == CHOOSE t \in Transactions : TRUE

ReconciliationInit ==
  /\ decision = [t \in Transactions |-> "NONE"]
  /\ ledger = << >>
  /\ caseStatus = [t \in Transactions |-> "NONE"]
  /\ caseReason = [t \in Transactions |-> "NONE"]
  /\ audited = [t \in Transactions |-> {}]
  /\ emitted = [t \in Transactions |-> {}]
  /\ wpc = [w \in Workers |-> "idle"]
  /\ wtx = [w \in Workers |-> ATransaction]
  /\ held = [w \in Workers |-> FALSE]
  /\ seen = [w \in Workers |-> NoFacts]
  /\ verdict = [w \in Workers |-> "NONE"]
  /\ rpc = [r \in Requests |-> "idle"]
  /\ rtx = [r \in Requests |-> ATransaction]
  /\ ract = [r \in Requests |-> "request-proof"]
  /\ resolutions = 0

Init == DirectoryInit /\ TransactionsInit /\ ReconciliationInit

-----------------------------------------------------------------------------
Entry(kind, t, customer) == [kind |-> kind, transaction |-> t, customer |-> customer]

\* Slip: the reference not looked up.
AppendAlways(kind, t, customer) == ledger' = Append(ledger, Entry(kind, t, customer))

\* LedgerService.append: a reference that is already there leaves the table as it is.
AppendEntry(kind, t, customer) ==
  ledger' = IF \E i \in DOMAIN ledger : Reference(ledger[i]) = <<kind, t>>
            THEN ledger
            ELSE Append(ledger, Entry(kind, t, customer))

\* The automatic credit goes to the account's customer, the manual one to the customer found
\* when the payment was verified, who may be nobody.
CreditedCustomer(kind, t) == IF kind = "ledger" THEN OwnerOf[Recipient[t]] ELSE payee[t]

\* Slip: an automatic credit leaves no decision row.
RecordReviews(t, outcome) ==
  decision' = [decision EXCEPT ![t] = IF outcome = "AUTO_RECONCILED" THEN @ ELSE outcome]

\* The upsert of the decision row.
Record(t, outcome) == decision' = [decision EXCEPT ![t] = outcome]

\* Slip: every case opened with the same reason.
OpenCaseForReview(t, reason) ==
  /\ caseStatus' = [caseStatus EXCEPT ![t] = "OPEN"]
  /\ caseReason' = [caseReason EXCEPT ![t] = "MANUAL_REVIEW"]

OpenCase(t, reason) ==
  /\ caseStatus' = [caseStatus EXCEPT ![t] = "OPEN"]
  /\ caseReason' = [caseReason EXCEPT ![t] = reason]

Notify(t, notice) == emitted' = [emitted EXCEPT ![t] = @ \cup {notice}]

\* Worker w is about to execute `here` and executes `there` next.
Go(w, here, there) == wpc[w] = here /\ wpc' = [wpc EXCEPT ![w] = there]

Quit(w) == wpc' = [wpc EXCEPT ![w] = "idle"]

IsDuplicate(t) == tx[t] = "DUPLICATE"

\* The job is handed to a worker, which reads the transaction.
Start(w, t) ==
  /\ job[t].state = "waiting"
  /\ Go(w, "idle", "account")
  /\ SetJob(t, Taken(job[t]))
  /\ wtx' = [wtx EXCEPT ![w] = t]
  /\ held' = [held EXCEPT ![w] = TRUE]
  /\ seen' = [seen EXCEPT ![w] = [NoFacts EXCEPT !.verified = TRUE,
                                                 !.duplicate = IsDuplicate(t)]]
  /\ UNCHANGED <<directoryVars, tx, payee, trail, recordVars, verdict, requestVars>>

\* Slip: a known account taken for an active one.
ActiveIfKnown(t) == IF account[Recipient[t]] = NoStatus THEN NoStatus ELSE "ACTIVE"

StatusNow(t) == account[Recipient[t]]

\* What each of the three reads adds to the signals f of transaction t.
AccountSignals(f, t) == [f EXCEPT !.accountFound = StatusNow(t) # NoStatus,
                                  !.accountStatus = StatusNow(t)]

CustomerSignals(f, t) ==
  LET c == OwnerOf[Recipient[t]]
  IN [f EXCEPT !.customerActive = c \in ActiveCustomers,
               !.kycAllowed = WithinLimit(tier[c], Amount[t]),
               !.nameMatched = fullName[c] \in MatchingNames[t]]

\* The names of approved history rows match as well as the current one.
HistorySignals(f, t) ==
  IF approved[OwnerOf[Recipient[t]]] \cap MatchingNames[t] # {}
  THEN [f EXCEPT !.nameMatched = TRUE] ELSE f

ReadAccount(w) ==
  /\ Go(w, "account", IF StatusNow(wtx[w]) = NoStatus THEN "decide" ELSE "customer")
  /\ seen' = [seen EXCEPT ![w] = AccountSignals(@, wtx[w])]
  /\ UNCHANGED <<directoryVars, transactionVars, recordVars, wtx, held, verdict, requestVars>>

ReadCustomer(w) ==
  /\ Go(w, "customer", "history")
  /\ seen' = [seen EXCEPT ![w] = CustomerSignals(@, wtx[w])]
  /\ UNCHANGED <<directoryVars, transactionVars, recordVars, wtx, held, verdict, requestVars>>

ReadHistory(w) ==
  /\ Go(w, "history", "decide")
  /\ seen' = [seen EXCEPT ![w] = HistorySignals(@, wtx[w])]
  /\ UNCHANGED <<directoryVars, transactionVars, recordVars, wtx, held, verdict, requestVars>>

\* Upsert of the decision row; the branch taken depends on the outcome computed here.
\* (The gathered signals are not used again and are forgotten.)
Decide(w) ==
  LET outcome == Outcome(seen[w])
  IN /\ Go(w, "decide", IF outcome = "AUTO_RECONCILED" THEN "credit" ELSE "case")
     /\ Record(wtx[w], outcome)
     /\ verdict' = [verdict EXCEPT ![w] = outcome]
     /\ seen' = [seen EXCEPT ![w] = NoFacts]
     /\ UNCHANGED <<directoryVars, transactionVars, ledger, caseStatus, caseReason, audited,
                    emitted, wtx, held, requestVars>>

\* Slip: no else, the credited payment gets a case as well.
AppendCreditAndCase(w) ==
  /\ Go(w, "credit", "case")
  /\ AppendEntry("ledger", wtx[w], CreditedCustomer("ledger", wtx[w]))
  /\ UNCHANGED <<directoryVars, transactionVars, decision, caseStatus, caseReason, audited,
                 emitted, wtx, held, seen, verdict, requestVars>>

AppendCredit(w) ==
  /\ Go(w, "credit", "settle")
  /\ AppendEntry("ledger", wtx[w], CreditedCustomer("ledger", wtx[w]))
  /\ UNCHANGED <<directoryVars, transactionVars, decision, caseStatus, caseReason, audited,
                 emitted, wtx, held, seen, verdict, requestVars>>

\* One case per transaction: the first insert wins, later ones do nothing.
InsertCase(w) ==
  LET t == wtx[w]
  IN /\ Go(w, "case", "settle")
     /\ IF caseStatus[t] = "NONE"
        THEN OpenCase(t, verdict[w])
        ELSE UNCHANGED <<caseStatus, caseReason>>
     /\ UNCHANGED <<directoryVars, transactionVars, decision, ledger, audited, emitted,
                    wtx, held, seen, verdict, requestVars>>

\* Slip: the outcome stored as the status.
StatusIsOutcome(outcome) == outcome
\* Slip: only one of the review outcomes remembered.
StatusForgetful(outcome) == CASE outcome = "MANUAL_REVIEW" -> "MANUAL_REVIEW"
                              [] outcome = "REJECTED" -> "REJECTED"
                              [] OTHER -> "RECONCILED"

StatusFor(outcome) == CASE outcome = "AUTO_RECONCILED" -> "RECONCILED"
                        [] outcome = "REJECTED" -> "REJECTED"
                        [] OTHER -> "MANUAL_REVIEW"

\* Unconditional update: whatever the status is by now, it is overwritten.
Settle(w) ==
  /\ Go(w, "settle", "event")
  /\ SetTx(wtx[w], StatusFor(verdict[w]))
  /\ UNCHANGED <<directoryVars, payee, trail, job, recordVars, wtx, held, seen, verdict,
                 requestVars>>

LogOutcome(w) ==
  /\ Go(w, "event", "emit")
  /\ LogEvent(wtx[w], IF verdict[w] = "AUTO_RECONCILED" THEN "PAYMENT_RECONCILED"
                                                        ELSE "PAYMENT_FLAGGED")
  /\ UNCHANGED <<directoryVars, tx, payee, job, recordVars, wtx, held, seen, verdict,
                 requestVars>>

EmitOutcome(w) ==
  /\ Go(w, "emit", "finish")
  /\ Notify(wtx[w], CASE verdict[w] = "AUTO_RECONCILED" -> "transaction.reconciled"
                      [] verdict[w] = "REJECTED" -> "transaction.rejected"
                      [] OTHER -> "transaction.manual_review_required")
  /\ UNCHANGED <<directoryVars, transactionVars, decision, ledger, caseStatus, caseReason,
                 audited, wtx, held, seen, verdict, requestVars>>

\* What a worker leaves behind: nothing it computed survives the execution.
Forget(w) == /\ wtx' = [wtx EXCEPT ![w] = ATransaction]
             /\ held' = [held EXCEPT ![w] = FALSE]
             /\ seen' = [seen EXCEPT ![w] = NoFacts]
             /\ verdict' = [verdict EXCEPT ![w] = "NONE"]

\* The processor returns; a worker that lost its lock cannot complete the job.
Finish(w) ==
  /\ Go(w, "finish", "idle")
  /\ SetJob(wtx[w], IF held[w] THEN Completed(job[wtx[w]]) ELSE job[wtx[w]])
  /\ Forget(w)
  /\ UNCHANGED <<directoryVars, tx, payee, trail, recordVars, requestVars>>

\* A statement of reconcileTransaction throws: the database or Redis is unreachable.
Fail(w) ==
  /\ wpc[w] \in WorkerSteps \ {"finish"}
  /\ Quit(w)
  /\ SetJob(wtx[w], IF held[w] THEN Failed(job[wtx[w]]) ELSE job[wtx[w]])
  /\ Forget(w)
  /\ UNCHANGED <<directoryVars, tx, payee, trail, recordVars, requestVars>>

\* The worker process dies; its job stays active until the lock expires.
Crash(w) ==
  /\ wpc[w] \in WorkerSteps
  /\ Quit(w)
  /\ Forget(w)
  /\ UNCHANGED <<directoryVars, transactionVars, recordVars, requestVars>>

\* The lock of an active job expires.  A worker that is merely slow goes on without it.
Stall(t) ==
  /\ job[t].state = "active"
  /\ SetJob(t, Stalled(job[t]))
  /\ held' = [w \in Workers |-> held[w] /\ wtx[w] # t]
  /\ UNCHANGED <<directoryVars, tx, payee, trail, recordVars, wpc, wtx, seen, verdict,
                 requestVars>>

-----------------------------------------------------------------------------
\* Slip: the audit row skipped.
RGoUnaudited(r, here, there) ==
  rpc[r] = here /\ rpc' = [rpc EXCEPT ![r] = IF there = "audit" THEN "event" ELSE there]

RGo(r, here, there) == rpc[r] = here /\ rpc' = [rpc EXCEPT ![r] = there]

\* Slip: the last two actions confused.
StatusAfterConfused(action) == CASE action = "request-proof" -> "AWAITING_PROOF"
                                 [] action = "reject-refund-required" -> "RESOLVED"
                                 [] action = "mark-suspicious" -> "UNDER_REVIEW"
                                 [] OTHER -> "APPROVED"

StatusAfter(action) == CASE action = "request-proof" -> "AWAITING_PROOF"
                         [] action = "approve-credit" -> "APPROVED"
                         [] action = "mark-suspicious" -> "UNDER_REVIEW"
                         [] OTHER -> "RESOLVED"

\* resolveCase reads the case and its transaction.  The case may have any status.
Resolve(r, t, action) ==
  /\ resolutions < MaxResolutions
  /\ caseStatus[t] # "NONE"
  /\ RGo(r, "idle", IF action = "approve-credit" THEN "credit" ELSE "close")
  /\ rtx' = [rtx EXCEPT ![r] = t]
  /\ ract' = [ract EXCEPT ![r] = action]
  /\ resolutions' = resolutions + 1
  /\ UNCHANGED <<directoryVars, transactionVars, recordVars, workerVars>>

AppendManual(r) ==
  /\ RGo(r, "credit", "settle")
  /\ AppendEntry("manual", rtx[r], CreditedCustomer("manual", rtx[r]))
  /\ UNCHANGED <<directoryVars, transactionVars, decision, caseStatus, caseReason, audited,
                 emitted, workerVars, rtx, ract, resolutions>>

SettleManual(r) ==
  /\ RGo(r, "settle", "close")
  /\ SetTx(rtx[r], "RECONCILED")
  /\ UNCHANGED <<directoryVars, payee, trail, job, recordVars, workerVars, rtx, ract, resolutions>>

CloseCase(r) ==
  /\ RGo(r, "close", "audit")
  /\ caseStatus' = [caseStatus EXCEPT ![rtx[r]] = StatusAfter(ract[r])]
  /\ UNCHANGED <<directoryVars, transactionVars, decision, ledger, caseReason, audited,
                 emitted, workerVars, rtx, ract, resolutions>>

AuditAction(r) ==
  /\ RGo(r, "audit", "event")
  /\ audited' = [audited EXCEPT ![rtx[r]] = @ \cup {ract[r]}]
  /\ UNCHANGED <<directoryVars, transactionVars, decision, ledger, caseStatus, caseReason,
                 emitted, workerVars, rtx, ract, resolutions>>

LogOverride(r) ==
  /\ RGo(r, "event", "emit")
  /\ LogEvent(rtx[r], "ADMIN_OVERRIDE")
  /\ UNCHANGED <<directoryVars, tx, payee, job, recordVars, workerVars, rtx, ract, resolutions>>

\* What a request leaves behind: nothing of its execution survives.
EndRequest(r) == /\ rtx' = [rtx EXCEPT ![r] = ATransaction]
                 /\ ract' = [ract EXCEPT ![r] = "request-proof"]

EmitCaseUpdated(r) ==
  /\ RGo(r, "emit", "idle")
  /\ Notify(rtx[r], "reconciliation.case_updated")
  /\ EndRequest(r)
  /\ UNCHANGED <<directoryVars, transactionVars, decision, ledger, caseStatus, caseReason,
                 audited, workerVars, resolutions>>

\* A statement of resolveCase throws, or the API process dies; nobody takes the request up again.
AbortRequest(r) ==
  /\ rpc[r] \in RequestSteps
  /\ rpc' = [rpc EXCEPT ![r] = "idle"]
  /\ EndRequest(r)
  /\ UNCHANGED <<directoryVars, transactionVars, recordVars, workerVars, resolutions>>

-----------------------------------------------------------------------------
WorkerStep(w) ==
  \/ ReadAccount(w) \/ ReadCustomer(w) \/ ReadHistory(w) \/ Decide(w) \/ AppendCredit(w)
  \/ InsertCase(w) \/ Settle(w) \/ LogOutcome(w) \/ EmitOutcome(w) \/ Finish(w)

RequestStep(r) ==
  \/ AppendManual(r) \/ SettleManual(r) \/ CloseCase(r) \/ AuditAction(r)
  \/ LogOverride(r) \/ EmitCaseUpdated(r)

DirectoryStep == DirectoryNext /\ UNCHANGED <<transactionVars, recordVars, workerVars, requestVars>>

ReconciliationNext ==
  \/ \E w \in Workers : WorkerStep(w) \/ Fail(w) \/ Crash(w)
  \/ \E w \in Workers, t \in Transactions : Start(w, t)
  \/ \E t \in Transactions : Stall(t)
  \/ \E r \in Requests : RequestStep(r) \/ AbortRequest(r)
  \/ \E r \in Requests, t \in Transactions, a \in CaseActions : Resolve(r, t, a)
  \/ DirectoryStep

\* The verification worker's part: the row, its event and its job, in three statements that
\* it may never get to the end of.  Whoever repeats it finds the row and adds nothing.
\* (Pipeline puts Intake's steps in their place.)  The account was looked up before the row
\* is written, and accounts are not removed: it may have been found missing and be there now.
FoundBefore(t) == {PayeeNow(t)} \cup (IF InitialAccount[Recipient[t]] = NoStatus
                                     THEN {NoCustomer} ELSE {})

ArriveRow(t) ==
  /\ \E customer \in FoundBefore(t) : InsertTransaction(t, customer)
  /\ UNCHANGED <<directoryVars, trail, job, recordVars, workerVars, requestVars>>

LogArrival(t) ==
  /\ tx[t] # "NONE" /\ "PAYMENT_VERIFIED" \notin trail[t]
  /\ LogEvent(t, "PAYMENT_VERIFIED")
  /\ UNCHANGED <<directoryVars, tx, payee, job, recordVars, workerVars, requestVars>>

QueueArrival(t) ==
  /\ tx[t] # "NONE" /\ "PAYMENT_VERIFIED" \in trail[t] /\ job[t].state = "none"
  /\ SetJob(t, Added)
  /\ UNCHANGED <<directoryVars, tx, payee, trail, recordVars, workerVars, requestVars>>

Arrive(t) == ArriveRow(t) \/ LogArrival(t) \/ QueueArrival(t)

Next == ReconciliationNext \/ \E t \in Transactions : Arrive(t)

Spec == Init /\ [][Next]_vars

\* Every worker keeps executing, a waiting job is taken by some worker, and the lock of a job
\* that nobody works on expires.  Nothing is assumed of failures, crashes, administrators or
\* arrivals.
Orphaned(t) == job[t].state = "active" /\ \A w \in Workers : ~(held[w] /\ wtx[w] = t)

Fairness == /\ \A w \in Workers : WF_vars(WorkerStep(w))
            /\ \A t \in Transactions : /\ WF_vars(\E w \in Workers : Start(w, t))
                                       /\ WF_vars(Orphaned(t) /\ Stall(t))

FairSpec == Spec /\ Fairness

-----------------------------------------------------------------------------
CreditsOf(t) == {i \in DOMAIN ledger : ledger[i].transaction = t}
Credited(t, kind) == \E i \in DOMAIN ledger : Reference(ledger[i]) = <<kind, t>>

\* CustomersService.statement: the sum of a customer's credits.
EntryAmount == [i \in DOMAIN ledger |-> Amount[ledger[i].transaction]]

Balance(c) == MapThenSumSet(LAMBDA i : EntryAmount[i], {i \in DOMAIN ledger : ledger[i].customer = c})

Settled == {"RECONCILED", "MANUAL_REVIEW", "REJECTED"}

\* Somebody is at work on t.
Busy(t) == \/ \E w \in Workers : wpc[w] # "idle" /\ wtx[w] = t
           \/ \E r \in Requests : rpc[r] # "idle" /\ rtx[r] = t

\* However often reconcileTransaction and resolveCase are repeated, one reference is one entry
\* (LedgerService.append and the unique index under it).
UniqueReference ==
  \A i, j \in DOMAIN ledger : Reference(ledger[i]) = Reference(ledger[j]) => i = j

\* A transaction shown as RECONCILED has been credited: both handlers append first.
ReconciledIsCredited ==
  \A t \in Transactions : tx[t] = "RECONCILED" => CreditsOf(t) # {}

\* An APPROVED case has its manual credit, whatever other resolutions ran at the same time.
ApprovedIsCredited ==
  \A t \in Transactions : caseStatus[t] = "APPROVED" => Credited(t, "manual")

\* What subscribers are told has happened: the credit or the case exists, the transaction's
\* trail says so, and a case they are told about has its entry in the audit log.
NoticesAreTrue ==
  \A t \in Transactions :
    /\ "transaction.reconciled" \in emitted[t]
         => Credited(t, "ledger") /\ "PAYMENT_RECONCILED" \in trail[t]
    /\ emitted[t] \cap {"transaction.rejected", "transaction.manual_review_required"} # {}
         => caseStatus[t] # "NONE" /\ "PAYMENT_FLAGGED" \in trail[t]
    /\ "reconciliation.case_updated" \in emitted[t]
         => audited[t] # {} /\ "ADMIN_OVERRIDE" \in trail[t]

\* A job BullMQ counts as completed has left a decision, a final status and a notice, even
\* when the execution that completed it was a second one.
CompletedIsSettled ==
  \A t \in Transactions : job[t].state = "completed"
    => decision[t] # "NONE" /\ tx[t] \in Settled /\ emitted[t] # {}

\* Rows of the ledger are never changed, removed or reordered.
LedgerAppendOnly ==
  [][/\ Len(ledger) <= Len(ledger')
     /\ \A i \in DOMAIN ledger : ledger'[i] = ledger[i]]_vars

\* Once an account is closed or restricted, a payment to it that no worker has in hand is
\* never credited automatically, however late its job runs or is repeated.
BarredStaysUncredited ==
  \A t \in Transactions :
    [](account[Recipient[t]] \in {"CLOSED", "RESTRICTED"} /\ ~Busy(t) /\ ~Credited(t, "ledger")
         => []~Credited(t, "ledger"))

\* A payment whose job has been added is settled and its job completed, unless the job uses
\* up its attempts or its stalls.  (A verified payment whose job was never added stays as it
\* is: Intake shows when that happens.)
QueuedIsSettled ==
  \A t \in Transactions :
    job[t].state = "waiting" ~> \/ job[t].state = "completed" /\ tx[t] \in Settled
                               \/ job[t].state = "failed"

-----------------------------------------------------------------------------
(* The properties below do not hold of the code.                                *)

\* One payment, one credit (README: "one append-only ledger credit").  MCSettlement says when
\* it holds.
AtMostOneCredit ==
  \A t \in Transactions : Cardinality(CreditsOf(t)) <= 1

\* When nobody works on the transaction of an approved case any more, it is shown as
\* RECONCILED (README: "reconciled, and only then represented in append-only ledger entries").
ApprovedIsReconciled ==
  \A t \in Transactions : caseStatus[t] = "APPROVED" /\ ~Busy(t) => tx[t] = "RECONCILED"
=============================================================================
