------------------------- MODULE ReconciliationProofs -------------------------
(* Safety of Reconciliation for any number of workers, requests, transactions,  *)
(* customers, accounts and names, any bound on attempts, stalls and             *)
(* resolutions, and any changes of the directory.                               *)
EXTENDS Reconciliation, TLAPS

-----------------------------------------------------------------------------
(* Jobs and locks: what TypeOK rests on.                                        *)

\* A job exists only for a transaction that exists, and one that may still be handed to a
\* worker has attempts and stalls left.
JobsSound ==
  \A t \in Transactions :
    /\ tx[t] = "NONE" => job[t].state = "none"
    /\ job[t].state \in {"waiting", "active"}
         => job[t].failures < MaxAttempts /\ job[t].stalls <= MaxStalls

\* A lock is held by a working worker, on an active job, and by nobody else.
LocksSound ==
  /\ \A w \in Workers : held[w] => wpc[w] # "idle" /\ job[wtx[w]].state = "active"
  /\ \A w1, w2 \in Workers : held[w1] /\ held[w2] /\ wtx[w1] = wtx[w2] => w1 = w2

TypeInv == TypeOK /\ JobsSound /\ LocksSound

\* What the queue does to a job leaves a job.
LEMMA JobOperatorsType ==
  ASSUME NEW j \in Jobs
  PROVE  /\ Taken(j) \in Jobs /\ Completed(j) \in Jobs
         /\ j.failures < MaxAttempts => Failed(j) \in Jobs
         /\ j.stalls <= MaxStalls => Stalled(j) \in Jobs
<1> USE MaxAttemptsAssumption, MaxStallsAssumption DEF Jobs, JobStates
<1>1. j.failures \in 0..MaxAttempts /\ j.stalls \in 0..(MaxStalls + 1)
  OBVIOUS
<1>2. Taken(j) \in Jobs /\ Completed(j) \in Jobs
  BY DEF Taken, Completed
<1>3. ASSUME j.failures < MaxAttempts PROVE Failed(j) \in Jobs
  <2>1. j.failures + 1 \in 0..MaxAttempts
    BY <1>1, <1>3
  <2> QED  BY <2>1 DEF Failed
<1>4. ASSUME j.stalls <= MaxStalls PROVE Stalled(j) \in Jobs
  <2>1. j.stalls + 1 \in 0..(MaxStalls + 1)
    BY <1>1, <1>4
  <2> QED  BY <2>1 DEF Stalled
<1> QED  BY <1>2, <1>3, <1>4

LEMMA NewJobsType == NoJob \in Jobs /\ Added \in Jobs
  BY MaxAttemptsAssumption, MaxStallsAssumption DEF Jobs, JobStates, NoJob, Added

\* The append of LedgerService keeps the table a sequence of rows.
LEMMA AppendEntryType ==
  ASSUME ledger \in Seq(Entries),
         NEW kind \in {"ledger", "manual", "demo"}, NEW t \in Transactions,
         NEW c \in Customers \cup {NoCustomer},
         AppendEntry(kind, t, c)
  PROVE  ledger' \in Seq(Entries)
<1>1. Entry(kind, t, c) \in Entries
  BY DEF Entry, Entries
<1>2. Append(ledger, Entry(kind, t, c)) \in Seq(Entries)
  BY <1>1
<1> QED  BY <1>2 DEF AppendEntry

LEMMA CreditedCustomerType ==
  ASSUME TypeOK, NEW kind \in {"ledger", "manual"}, NEW t \in Transactions
  PROVE  CreditedCustomer(kind, t) \in Customers \cup {NoCustomer}
  BY OwnerAssumption, TransactionsAssumption
     DEF CreditedCustomer, TypeOK, TransactionsTypeOK

\* score() and outcome() return one of the outcomes, whatever the signals.
LEMMA OutcomeType == \A f : Outcome(f) \in Outcomes
  BY DEF Outcome, Outcomes

LEMMA StatusForType == \A o : StatusFor(o) \in Settled
  BY DEF StatusFor, Settled

LEMMA ATransactionType == ATransaction \in Transactions
  BY SomeTransactionAssumption DEF ATransaction

-----------------------------------------------------------------------------
LEMMA DirectoryInitType == DirectoryInit => DirectoryTypeOK
  BY InitialDirectoryAssumption DEF DirectoryInit, DirectoryTypeOK

LEMMA DirectoryNextType ==
  ASSUME DirectoryTypeOK, DirectoryNext
  PROVE  DirectoryTypeOK'
<1> USE DEF DirectoryTypeOK
<1>1. ASSUME NEW a \in Accounts, OpenAccount(a) PROVE DirectoryTypeOK'
  BY <1>1 DEF OpenAccount, AccountStatuses
<1>2. ASSUME NEW a \in Accounts, NEW s \in {"CLOSED", "RESTRICTED"}, SetStatus(a, s)
      PROVE DirectoryTypeOK'
  BY <1>2 DEF SetStatus, AccountStatuses
<1>3. ASSUME NEW c \in Customers, NEW newTier \in Tiers, SetTier(c, newTier)
      PROVE DirectoryTypeOK'
  BY <1>3 DEF SetTier
<1>4. ASSUME NEW c \in Customers, NEW name \in Names, Rename(c, name) PROVE DirectoryTypeOK'
  BY <1>4 DEF Rename
<1>5. ASSUME NEW c \in Customers, NEW name \in Names, RecordRename(c, name)
      PROVE DirectoryTypeOK'
  <2>1. [approved EXCEPT ![c] = @ \cup {name}] \in [Customers -> SUBSET Names]
    OBVIOUS
  <2> QED  BY <1>5, <2>1 DEF RecordRename
<1>6. ASSUME NEW c \in Customers, NEW name \in Names, LoseRename(c, name)
      PROVE DirectoryTypeOK'
  BY <1>6 DEF LoseRename
<1> QED  BY <1>1, <1>2, <1>3, <1>4, <1>5, <1>6 DEF DirectoryNext, EditsNext

-----------------------------------------------------------------------------
LEMMA TypeInvInit == Init => TypeInv
<1> SUFFICES ASSUME Init PROVE TypeInv
  OBVIOUS
<1> USE DEF Init
<1>1. DirectoryTypeOK
  BY DirectoryInitType
<1>2. TransactionsTypeOK
  BY NewJobsType DEF TransactionsInit, TransactionsTypeOK, TxStatuses
<1>3. RecordsTypeOK
  BY DEF ReconciliationInit, RecordsTypeOK, CaseStatuses
<1>4. WorkersTypeOK
  BY ATransactionType DEF ReconciliationInit, WorkersTypeOK, NoFacts, Facts
<1>5. RequestsTypeOK
  BY ATransactionType, MaxResolutionsAssumption
     DEF ReconciliationInit, RequestsTypeOK, CaseActions
<1>6. JobsSound
  BY MaxAttemptsAssumption, MaxStallsAssumption DEF TransactionsInit, NoJob, JobsSound
<1>7. LocksSound
  BY DEF ReconciliationInit, LocksSound
<1> QED  BY <1>1, <1>2, <1>3, <1>4, <1>5, <1>6, <1>7 DEF TypeInv, TypeOK

\* The signals a worker has gathered stay signals when a read adds to them.
LEMMA SignalsType ==
  ASSUME TypeOK, NEW f \in Facts, NEW t \in Transactions
  PROVE  /\ AccountSignals(f, t) \in Facts
         /\ CustomerSignals(f, t) \in Facts
         /\ HistorySignals(f, t) \in Facts
<1>1. AccountSignals(f, t) \in Facts
  <2>1. StatusNow(t) \in AccountStatuses \cup {NoStatus}
    BY TransactionsAssumption DEF StatusNow, TypeOK, DirectoryTypeOK
  <2> QED  BY <2>1 DEF AccountSignals, Facts
<1>2. CustomerSignals(f, t) \in Facts
  <2> DEFINE c == OwnerOf[Recipient[t]]
  <2>1. \A x, y, z \in BOOLEAN :
          [f EXCEPT !.customerActive = x, !.kycAllowed = y, !.nameMatched = z] \in Facts
    BY DEF Facts
  <2>2. /\ (c \in ActiveCustomers) \in BOOLEAN
        /\ WithinLimit(tier[c], Amount[t]) \in BOOLEAN
        /\ (fullName[c] \in MatchingNames[t]) \in BOOLEAN
    BY DEF WithinLimit
  <2> QED  BY <2>1, <2>2, Zenon DEF CustomerSignals
<1>3. HistorySignals(f, t) \in Facts
  BY DEF HistorySignals, Facts
<1> QED  BY <1>1, <1>2, <1>3

LEMMA FirstSignalsType ==
  /\ NoFacts \in Facts
  /\ \A x \in BOOLEAN : [NoFacts EXCEPT !.verified = TRUE, !.duplicate = x] \in Facts
  BY DEF Facts, NoFacts

\* A worker that ends, with or without a result, gives up its lock; what becomes of the job is
\* up to the queue if the worker still had the lock, and nothing if it had not.
LEMMA ReleaseTypeInv ==
  ASSUME TypeInv, NEW w \in Workers, NEW j \in Jobs,
         held[w] => (j.state \in {"waiting", "active"}
                       => j.failures < MaxAttempts /\ j.stalls <= MaxStalls),
         wpc' = [wpc EXCEPT ![w] = "idle"],
         SetJob(wtx[w], IF held[w] THEN j ELSE job[wtx[w]]),
         Forget(w),
         UNCHANGED <<directoryVars, tx, payee, trail, recordVars, requestVars>>
  PROVE  TypeInv'
<1> USE DEF TypeInv, TypeOK
<1>1. WorkersTypeOK'
  BY ATransactionType, FirstSignalsType DEF Forget, WorkersTypeOK
<1>2. wtx[w] \in Transactions
  BY DEF WorkersTypeOK
<1>3. job' \in [Transactions -> Jobs]
  BY <1>2 DEF SetJob, TransactionsTypeOK
<1>4. JobsSound'
  <2> SUFFICES ASSUME NEW t \in Transactions
               PROVE  /\ tx[t] = "NONE" => job'[t].state = "none"
                      /\ job'[t].state \in {"waiting", "active"}
                           => job'[t].failures < MaxAttempts /\ job'[t].stalls <= MaxStalls
    BY DEF JobsSound
  <2>1. CASE t = wtx[w] /\ held[w]
    BY <2>1 DEF JobsSound, LocksSound, SetJob, TransactionsTypeOK
  <2>2. CASE ~(t = wtx[w] /\ held[w])
    <3>1. job'[t] = job[t]
      BY <2>2 DEF SetJob, TransactionsTypeOK
    <3> QED  BY <3>1 DEF JobsSound
  <2> QED  BY <2>1, <2>2
<1>5. LocksSound'
  <2>1. \A v \in Workers : held'[v] => v # w /\ held[v] /\ wtx'[v] = wtx[v] /\ wpc'[v] = wpc[v]
    BY DEF Forget, WorkersTypeOK
  <2>2. \A v \in Workers : held'[v] => job'[wtx[v]] = job[wtx[v]]
    BY <2>1 DEF SetJob, LocksSound, TransactionsTypeOK, WorkersTypeOK
  <2> QED  BY <2>1, <2>2 DEF LocksSound
<1> QED  BY <1>1, <1>3, <1>4, <1>5
         DEF directoryVars, recordVars, requestVars,
             DirectoryTypeOK, TransactionsTypeOK, RecordsTypeOK, RequestsTypeOK

LEMMA EndTypeInv ==
  ASSUME TypeInv, NEW w \in Workers, Finish(w) \/ Fail(w) \/ Crash(w)
  PROVE  TypeInv'
<1> DEFINE j == job[wtx[w]]
<1> USE DEF TypeInv, TypeOK
<1>1. wtx[w] \in Transactions /\ j \in Jobs
  BY DEF WorkersTypeOK, TransactionsTypeOK
<1>2. held[w] => j.state = "active" /\ j.failures < MaxAttempts /\ j.stalls <= MaxStalls
  BY <1>1 DEF LocksSound, JobsSound
<1>3. CASE Finish(w)
  <2>1. Completed(j) \in Jobs /\ Completed(j).state = "completed"
    BY <1>1, JobOperatorsType DEF Completed, Jobs
  <2> QED  BY <1>3, <2>1, ReleaseTypeInv DEF Finish, Go
<1>4. CASE Fail(w)
  <2>1. CASE held[w]
    <3>1. /\ Failed(j) \in Jobs
          /\ Failed(j).state \in {"waiting", "active"}
               => Failed(j).failures < MaxAttempts /\ Failed(j).stalls <= MaxStalls
      BY <1>1, <1>2, <2>1, JobOperatorsType, MaxAttemptsAssumption DEF Failed, Jobs
    <3> QED  BY <1>4, <2>1, <3>1, ReleaseTypeInv DEF Fail, Quit
  <2>2. CASE ~held[w]
    BY <1>1, <1>4, <2>2, ReleaseTypeInv DEF Fail, Quit
  <2> QED  BY <2>1, <2>2
<1>5. CASE Crash(w)
  <2>1. SetJob(wtx[w], IF held[w] THEN j ELSE job[wtx[w]])
    BY <1>1, <1>5 DEF Crash, SetJob, transactionVars, TransactionsTypeOK
  <2> QED  BY <1>1, <1>2, <1>5, <2>1, ReleaseTypeInv DEF Crash, Quit, transactionVars
<1> QED  BY <1>3, <1>4, <1>5

\* Each step of a worker: the type of what it writes, then the locks, which it moves along.
LEMMA WorkerStepTypeInv ==
  ASSUME TypeInv, NEW w \in Workers, WorkerStep(w)
  PROVE  TypeInv'
<1> USE DEF TypeInv, TypeOK
<1>a. wtx[w] \in Transactions /\ seen[w] \in Facts /\ verdict[w] \in Outcomes \cup {"NONE"}
  BY DEF WorkersTypeOK
<1>1. CASE ReadAccount(w) \/ ReadCustomer(w) \/ ReadHistory(w)
  <2>1. PICK f \in Facts : seen' = [seen EXCEPT ![w] = f]
    BY <1>a, <1>1, SignalsType DEF ReadAccount, ReadCustomer, ReadHistory
  <2>2. PICK pc \in WorkerSteps : wpc' = [wpc EXCEPT ![w] = pc]
    BY <1>1 DEF ReadAccount, ReadCustomer, ReadHistory, Go, WorkerSteps
  <2>3. UNCHANGED <<directoryVars, transactionVars, recordVars, wtx, held, verdict, requestVars>>
    BY <1>1 DEF ReadAccount, ReadCustomer, ReadHistory
  <2>4. WorkersTypeOK'
    BY <2>1, <2>2, <2>3 DEF WorkersTypeOK
  <2>5. LocksSound'
    BY <2>2, <2>3 DEF WorkersTypeOK, WorkerSteps, LocksSound, transactionVars
  <2> QED  BY <2>3, <2>4, <2>5
           DEF directoryVars, transactionVars, recordVars, requestVars,
               DirectoryTypeOK, TransactionsTypeOK, RecordsTypeOK, RequestsTypeOK, JobsSound
<1>2. CASE Decide(w) \/ AppendCredit(w) \/ InsertCase(w) \/ EmitOutcome(w)
  <2>1. PICK pc \in WorkerSteps : wpc' = [wpc EXCEPT ![w] = pc]
    BY <1>2 DEF Decide, AppendCredit, InsertCase, EmitOutcome, Go, WorkerSteps
  <2>2. UNCHANGED <<directoryVars, transactionVars, wtx, held, requestVars>>
    BY <1>2 DEF Decide, AppendCredit, InsertCase, EmitOutcome
  <2>3. seen' \in [Workers -> Facts] /\ verdict' \in [Workers -> Outcomes \cup {"NONE"}]
    <3>1. CASE Decide(w)
      BY <3>1, FirstSignalsType, OutcomeType DEF Decide, WorkersTypeOK
    <3>2. CASE AppendCredit(w) \/ InsertCase(w) \/ EmitOutcome(w)
      BY <3>2 DEF AppendCredit, InsertCase, EmitOutcome, WorkersTypeOK
    <3> QED  BY <1>2, <3>1, <3>2
  <2>4. WorkersTypeOK'
    BY <2>1, <2>2, <2>3 DEF WorkersTypeOK
  <2>5. LocksSound'
    BY <2>1, <2>2 DEF WorkersTypeOK, WorkerSteps, LocksSound, transactionVars
  <2>6. RecordsTypeOK'
    <3>1. CASE Decide(w)
      BY <1>a, <3>1, OutcomeType DEF Decide, Record, RecordsTypeOK
    <3>2. CASE AppendCredit(w)
      BY <1>a, <3>2, CreditedCustomerType, AppendEntryType DEF AppendCredit, RecordsTypeOK
    <3>3. CASE InsertCase(w)
      BY <1>a, <3>3 DEF InsertCase, OpenCase, RecordsTypeOK, CaseStatuses
    <3>4. CASE EmitOutcome(w)
      BY <1>a, <3>4 DEF EmitOutcome, Notify, RecordsTypeOK, Notices
    <3> QED  BY <1>2, <3>1, <3>2, <3>3, <3>4
  <2> QED  BY <2>2, <2>4, <2>5, <2>6
           DEF directoryVars, transactionVars, requestVars,
               DirectoryTypeOK, TransactionsTypeOK, RequestsTypeOK, JobsSound
<1>3. CASE Settle(w) \/ LogOutcome(w)
  <2>1. PICK pc \in WorkerSteps : wpc' = [wpc EXCEPT ![w] = pc]
    BY <1>3 DEF Settle, LogOutcome, Go, WorkerSteps
  <2>2. UNCHANGED <<directoryVars, payee, job, recordVars, wtx, held, seen, verdict, requestVars>>
    BY <1>3 DEF Settle, LogOutcome
  <2>3. TransactionsTypeOK'
    BY <1>3, <2>2, StatusForType
       DEF Settle, LogOutcome, SetTx, LogEvent, TransactionsTypeOK, Settled, TxStatuses, TrailEvents
  <2>4. JobsSound'
    BY <1>3, <2>2, StatusForType
       DEF Settle, LogOutcome, SetTx, TransactionsTypeOK, Settled, JobsSound
  <2>5. WorkersTypeOK' /\ LocksSound'
    BY <2>1, <2>2 DEF WorkersTypeOK, WorkerSteps, LocksSound
  <2> QED  BY <2>2, <2>3, <2>4, <2>5
           DEF directoryVars, recordVars, requestVars, DirectoryTypeOK, RecordsTypeOK, RequestsTypeOK
<1>4. CASE Finish(w)
  BY <1>4, EndTypeInv
<1> QED  BY <1>1, <1>2, <1>3, <1>4 DEF WorkerStep

LEMMA StartTypeInv ==
  ASSUME TypeInv, NEW w \in Workers, NEW t \in Transactions, Start(w, t)
  PROVE  TypeInv'
<1> USE DEF TypeInv, TypeOK, Start
<1>1. job[t] \in Jobs /\ job[t].state = "waiting"
  BY DEF TransactionsTypeOK
<1>2. TransactionsTypeOK'
  BY <1>1, JobOperatorsType DEF TransactionsTypeOK, SetJob
<1>3. WorkersTypeOK'
  <2>1. IsDuplicate(t) \in BOOLEAN
    BY DEF IsDuplicate
  <2> QED  BY <2>1, FirstSignalsType DEF Go, WorkersTypeOK, WorkerSteps
<1>4. JobsSound'
  BY <1>1 DEF JobsSound, SetJob, Taken, Jobs, TransactionsTypeOK
<1>5. LocksSound'
  <2>1. \A v \in Workers : held[v] => wtx[v] # t /\ v # w
    BY <1>1 DEF LocksSound, Go
  <2>2. Taken(job[t]).state = "active"
    BY <1>1 DEF Taken, Jobs
  <2>3. \A v \in Workers : held'[v] => v = w \/ (held[v] /\ wtx'[v] = wtx[v] /\ wpc'[v] = wpc[v])
    BY DEF Go, WorkersTypeOK
  <2>4. wtx'[w] = t /\ wpc'[w] = "account" /\ job'[t].state = "active"
    BY <2>2 DEF Go, SetJob, WorkersTypeOK, TransactionsTypeOK
  <2>5. \A v \in Workers : held[v] => job'[wtx[v]] = job[wtx[v]]
    BY <2>1 DEF SetJob, TransactionsTypeOK, WorkersTypeOK
  <2> QED  BY <2>1, <2>3, <2>4, <2>5 DEF LocksSound
<1> QED  BY <1>2, <1>3, <1>4, <1>5
         DEF directoryVars, recordVars, requestVars,
             DirectoryTypeOK, RecordsTypeOK, RequestsTypeOK

LEMMA StallTypeInv ==
  ASSUME TypeInv, NEW t \in Transactions, Stall(t)
  PROVE  TypeInv'
<1> USE DEF TypeInv, TypeOK, Stall
<1>1. job[t] \in Jobs /\ job[t].state = "active" /\ job[t].stalls <= MaxStalls
  BY DEF TransactionsTypeOK, JobsSound
<1>2. TransactionsTypeOK'
  BY <1>1, JobOperatorsType DEF TransactionsTypeOK, SetJob
<1>3. WorkersTypeOK'
  BY DEF WorkersTypeOK
<1>4. JobsSound'
  <2>1. Stalled(job[t]).state \in {"waiting", "active"}
          => /\ Stalled(job[t]).failures < MaxAttempts
             /\ Stalled(job[t]).stalls <= MaxStalls
    BY <1>1, MaxStallsAssumption DEF JobsSound, Stalled, Jobs
  <2>2. tx[t] # "NONE"
    BY <1>1 DEF JobsSound
  <2> QED  BY <2>1, <2>2 DEF JobsSound, SetJob, TransactionsTypeOK
<1>5. LocksSound'
  BY DEF LocksSound, SetJob, TransactionsTypeOK, WorkersTypeOK
<1> QED  BY <1>2, <1>3, <1>4, <1>5
         DEF directoryVars, recordVars, requestVars,
             DirectoryTypeOK, RecordsTypeOK, RequestsTypeOK

LEMMA ArriveTypeInv ==
  ASSUME TypeInv, NEW t \in Transactions, Arrive(t)
  PROVE  TypeInv'
<1> USE DEF TypeInv, TypeOK
<1>1. CASE ArriveRow(t)
  <2>1. TransactionsTypeOK'
    <3>1. FoundBefore(t) \subseteq Customers \cup {NoCustomer}
      BY OwnerAssumption, TransactionsAssumption DEF FoundBefore, PayeeNow
    <3>2. PICK customer \in FoundBefore(t) : InsertTransaction(t, customer)
      BY <1>1 DEF ArriveRow
    <3> QED  BY <1>1, <3>1, <3>2
             DEF ArriveRow, InsertTransaction, TransactionsTypeOK, TxStatuses
  <2>2. JobsSound'
    BY <1>1 DEF ArriveRow, JobsSound, InsertTransaction, TransactionsTypeOK
  <2> QED  BY <1>1, <2>1, <2>2
           DEF ArriveRow, LocksSound, directoryVars, recordVars, workerVars, requestVars,
               DirectoryTypeOK, RecordsTypeOK, WorkersTypeOK, RequestsTypeOK
<1>2. CASE LogArrival(t)
  <2>1. TransactionsTypeOK'
    BY <1>2 DEF LogArrival, LogEvent, TransactionsTypeOK, TrailEvents
  <2> QED  BY <1>2, <2>1
           DEF LogArrival, JobsSound, LocksSound, directoryVars, recordVars, workerVars,
               requestVars, DirectoryTypeOK, RecordsTypeOK, WorkersTypeOK, RequestsTypeOK
<1>3. CASE QueueArrival(t)
  <2>1. TransactionsTypeOK'
    BY <1>3, NewJobsType DEF QueueArrival, SetJob, TransactionsTypeOK
  <2>2. JobsSound'
    BY <1>3, MaxAttemptsAssumption, MaxStallsAssumption
       DEF QueueArrival, JobsSound, SetJob, Added, TransactionsTypeOK
  <2>3. LocksSound'
    BY <1>3 DEF QueueArrival, LocksSound, SetJob, workerVars, TransactionsTypeOK, WorkersTypeOK
  <2> QED  BY <1>3, <2>1, <2>2, <2>3
           DEF QueueArrival, directoryVars, recordVars, workerVars, requestVars,
               DirectoryTypeOK, RecordsTypeOK, WorkersTypeOK, RequestsTypeOK
<1> QED  BY <1>1, <1>2, <1>3 DEF Arrive

LEMMA RequestTypeInv ==
  ASSUME TypeInv, NEW r \in Requests,
         \/ RequestStep(r) \/ AbortRequest(r)
         \/ \E t \in Transactions, a \in CaseActions : Resolve(r, t, a)
  PROVE  TypeInv'
<1> USE DEF TypeInv, TypeOK
<1>1. rtx[r] \in Transactions /\ ract[r] \in CaseActions
  BY DEF RequestsTypeOK
<1>2. UNCHANGED <<directoryVars, payee, job, workerVars>>
  BY DEF RequestStep, AppendManual, SettleManual, CloseCase, AuditAction, LogOverride,
         EmitCaseUpdated, AbortRequest, Resolve, transactionVars
<1>3. RequestsTypeOK'
  BY ATransactionType, MaxResolutionsAssumption
     DEF RequestStep, AppendManual, SettleManual, CloseCase, AuditAction, LogOverride,
         EmitCaseUpdated, AbortRequest, Resolve, EndRequest, RGo, RequestsTypeOK, RequestSteps,
         CaseActions
<1>4. RecordsTypeOK' /\ TransactionsTypeOK' /\ JobsSound'
  <2> USE DEF recordVars, transactionVars, TransactionsTypeOK
  <2>1. CASE AppendManual(r)
    BY <1>1, <2>1, CreditedCustomerType, AppendEntryType DEF AppendManual, RecordsTypeOK, JobsSound
  <2>2. CASE SettleManual(r)
    BY <1>1, <2>2 DEF SettleManual, SetTx, RecordsTypeOK, TxStatuses, JobsSound
  <2>3. CASE CloseCase(r)
    BY <1>1, <2>3 DEF CloseCase, StatusAfter, RecordsTypeOK, CaseStatuses, JobsSound
  <2>4. CASE AuditAction(r)
    BY <1>1, <2>4 DEF AuditAction, RecordsTypeOK, JobsSound
  <2>5. CASE LogOverride(r)
    BY <1>1, <2>5 DEF LogOverride, LogEvent, RecordsTypeOK, TrailEvents, JobsSound
  <2>6. CASE EmitCaseUpdated(r)
    BY <1>1, <2>6 DEF EmitCaseUpdated, Notify, RecordsTypeOK, Notices, JobsSound
  <2>7. CASE AbortRequest(r)
    BY <2>7 DEF AbortRequest, RecordsTypeOK, JobsSound
  <2>8. CASE \E t \in Transactions, a \in CaseActions : Resolve(r, t, a)
    BY <2>8 DEF Resolve, RecordsTypeOK, JobsSound
  <2> QED  BY <2>1, <2>2, <2>3, <2>4, <2>5, <2>6, <2>7, <2>8 DEF RequestStep
<1> QED  BY <1>2, <1>3, <1>4 DEF directoryVars, workerVars, DirectoryTypeOK, WorkersTypeOK, LocksSound

LEMMA DirectoryStepTypeInv ==
  ASSUME TypeInv, DirectoryStep
  PROVE  TypeInv'
  BY DirectoryNextType
     DEF TypeInv, TypeOK, DirectoryStep, transactionVars, recordVars, workerVars, requestVars,
         TransactionsTypeOK, RecordsTypeOK, WorkersTypeOK, RequestsTypeOK, JobsSound, LocksSound

LEMMA TypeInvStep == TypeInv /\ [Next]_vars => TypeInv'
<1> SUFFICES ASSUME TypeInv, [Next]_vars PROVE TypeInv'
  OBVIOUS
<1>1. CASE \E w \in Workers : WorkerStep(w)
  BY <1>1, WorkerStepTypeInv
<1>2. CASE \E w \in Workers : Fail(w) \/ Crash(w)
  BY <1>2, EndTypeInv
<1>3. CASE \E w \in Workers, t \in Transactions : Start(w, t)
  BY <1>3, StartTypeInv
<1>4. CASE \E t \in Transactions : Stall(t) \/ Arrive(t)
  BY <1>4, StallTypeInv, ArriveTypeInv
<1>5. CASE \E r \in Requests :
             \/ RequestStep(r) \/ AbortRequest(r)
             \/ \E t \in Transactions, a \in CaseActions : Resolve(r, t, a)
  BY <1>5, RequestTypeInv
<1>6. CASE DirectoryStep
  BY <1>6, DirectoryStepTypeInv
<1>7. CASE UNCHANGED vars
  BY <1>7
     DEF vars, directoryVars, transactionVars, recordVars, workerVars, requestVars, TypeInv, TypeOK,
         DirectoryTypeOK, TransactionsTypeOK, RecordsTypeOK, WorkersTypeOK, RequestsTypeOK,
         JobsSound, LocksSound
<1> QED  BY <1>1, <1>2, <1>3, <1>4, <1>5, <1>6, <1>7 DEF Next, ReconciliationNext

\* Every variable keeps its type under any interleaving of workers, administrators, failures,
\* crashes and expired locks; in particular no job is tried or handed out more often than the
\* queue allows.
THEOREM TypeCorrect == Spec => []TypeOK
<1>1. TypeInv => TypeOK
  BY DEF TypeInv
<1> QED  BY <1>1, TypeInvInit, TypeInvStep, PTL DEF Spec
-----------------------------------------------------------------------------
(* The safety properties that hold however often jobs and requests are repeated *)
(* and however they interleave.  Nothing the handlers establish is ever taken   *)
(* back (Grows), so what a worker or a request knows from its earlier           *)
(* statements still holds when it executes the next one (WorkerKnows,           *)
(* RequestKnows); the properties follow from that knowledge.                    *)

\* The automatic branch has been taken.
Automatic(w) == verdict[w] = "AUTO_RECONCILED"

\* What worker w knows at its next statement, from those it has executed.
WorkerKnows(w) ==
  /\ wpc[w] = "credit" => Automatic(w)
  /\ wpc[w] = "case" => ~Automatic(w)
  /\ wpc[w] \in {"credit", "case", "settle", "event", "emit", "finish"} => decision[wtx[w]] # "NONE"
  /\ wpc[w] \in {"settle", "event", "emit", "finish"} =>
       IF Automatic(w) THEN Credited(wtx[w], "ledger") ELSE caseStatus[wtx[w]] # "NONE"
  /\ wpc[w] \in {"event", "emit", "finish"} => tx[wtx[w]] \in Settled
  /\ wpc[w] \in {"emit", "finish"} =>
       (IF Automatic(w) THEN "PAYMENT_RECONCILED" ELSE "PAYMENT_FLAGGED") \in trail[wtx[w]]
  /\ wpc[w] = "finish" => emitted[wtx[w]] # {}

\* What request r knows likewise.
RequestKnows(r) ==
  /\ rpc[r] \in {"credit", "settle"} => ract[r] = "approve-credit"
  /\ rpc[r] \in {"settle", "close"} /\ ract[r] = "approve-credit" => Credited(rtx[r], "manual")
  /\ rpc[r] \in {"event", "emit"} => audited[rtx[r]] # {}
  /\ rpc[r] = "emit" => "ADMIN_OVERRIDE" \in trail[rtx[r]]

CreditInv ==
  /\ \A w \in Workers : WorkerKnows(w)
  /\ \A r \in Requests : RequestKnows(r)
  /\ UniqueReference /\ ReconciledIsCredited /\ ApprovedIsCredited
  /\ NoticesAreTrue /\ CompletedIsSettled

\* Nothing that has been established is taken back.
Grows ==
  \A t \in Transactions :
    /\ \A kind \in {"ledger", "manual"} : Credited(t, kind) => Credited(t, kind)'
    /\ decision[t] # "NONE" => decision'[t] # "NONE"
    /\ caseStatus[t] # "NONE" => caseStatus'[t] # "NONE"
    /\ tx[t] \in Settled => tx'[t] \in Settled
    /\ trail[t] \subseteq trail'[t]
    /\ audited[t] \subseteq audited'[t]
    /\ emitted[t] \subseteq emitted'[t]

-----------------------------------------------------------------------------
(* The ledger.                                                                  *)

LEMMA AppendEntryEffect ==
  ASSUME ledger \in Seq(Entries),
         NEW kind \in {"ledger", "manual", "demo"}, NEW t \in Transactions,
         NEW c \in Customers \cup {NoCustomer},
         AppendEntry(kind, t, c)
  PROVE  /\ Len(ledger) <= Len(ledger')
         /\ \A i \in DOMAIN ledger : i \in DOMAIN ledger' /\ ledger'[i] = ledger[i]
         /\ Credited(t, kind)'
         /\ UniqueReference => UniqueReference'
<1> DEFINE e == Entry(kind, t, c)
<1>1. e \in Entries /\ Reference(e) = <<kind, t>>
  BY DEF Entry, Entries, Reference
<1>2. CASE \E i \in DOMAIN ledger : Reference(ledger[i]) = <<kind, t>>
  <2>1. ledger' = ledger
    BY <1>2 DEF AppendEntry
  <2> QED  BY <1>2, <2>1 DEF Credited, UniqueReference
<1>3. CASE ~\E i \in DOMAIN ledger : Reference(ledger[i]) = <<kind, t>>
  <2>1. ledger' = Append(ledger, e)
    BY <1>3 DEF AppendEntry
  <2> HIDE DEF e
  <2>2. /\ Len(ledger') = Len(ledger) + 1 /\ DOMAIN ledger' = 1..(Len(ledger) + 1)
        /\ \A i \in 1..Len(ledger) : ledger'[i] = ledger[i]
        /\ ledger'[Len(ledger) + 1] = e
        /\ DOMAIN ledger = 1..Len(ledger) /\ Len(ledger) \in Nat
    BY <1>1, <2>1
  <2>3. Credited(t, kind)'
    BY <1>1, <2>2 DEF Credited, Reference
  <2>4. ASSUME UniqueReference PROVE UniqueReference'
    BY <1>1, <1>3, <2>2, <2>4 DEF UniqueReference, Reference
  <2> QED  BY <2>2, <2>3, <2>4
<1> QED  BY <1>2, <1>3

\* The only steps that touch the ledger are the two appends.
LEMMA LedgerSteps ==
  ASSUME TypeInv, [Next]_vars
  PROVE  \/ UNCHANGED ledger
         \/ \E w \in Workers : AppendCredit(w) /\ AppendEntry("ledger", wtx[w], CreditedCustomer("ledger", wtx[w]))
         \/ \E r \in Requests : AppendManual(r) /\ AppendEntry("manual", rtx[r], CreditedCustomer("manual", rtx[r]))
<1> USE DEF recordVars
<1>1. CASE \E w \in Workers : WorkerStep(w) \/ Fail(w) \/ Crash(w)
  BY <1>1 DEF WorkerStep, ReadAccount, ReadCustomer, ReadHistory, Decide, AppendCredit,
              InsertCase, Settle, LogOutcome, EmitOutcome, Finish, Fail, Crash
<1>2. CASE \E r \in Requests :
             \/ RequestStep(r) \/ AbortRequest(r)
             \/ \E t \in Transactions, a \in CaseActions : Resolve(r, t, a)
  BY <1>2 DEF RequestStep, AppendManual, SettleManual, CloseCase, AuditAction, LogOverride,
              EmitCaseUpdated, AbortRequest, Resolve
<1>3. CASE \/ \E w \in Workers, t \in Transactions : Start(w, t)
           \/ \E t \in Transactions : Stall(t) \/ Arrive(t)
           \/ DirectoryStep \/ UNCHANGED vars
  BY <1>3 DEF Start, Stall, Arrive, ArriveRow, LogArrival, QueueArrival, DirectoryStep, vars
<1> QED  BY <1>1, <1>2, <1>3 DEF Next, ReconciliationNext

LEMMA LedgerGrows ==
  ASSUME TypeInv, [Next]_vars
  PROVE  /\ Len(ledger) <= Len(ledger')
         /\ \A i \in DOMAIN ledger : i \in DOMAIN ledger' /\ ledger'[i] = ledger[i]
         /\ UniqueReference => UniqueReference'
<1>1. ledger \in Seq(Entries) /\ TypeOK
  BY DEF TypeInv, TypeOK, RecordsTypeOK
<1>2. CASE UNCHANGED ledger
  BY <1>1, <1>2 DEF UniqueReference
<1>3. CASE \E w \in Workers : AppendEntry("ledger", wtx[w], CreditedCustomer("ledger", wtx[w]))
  BY <1>1, <1>3, AppendEntryEffect, CreditedCustomerType DEF TypeOK, WorkersTypeOK
<1>4. CASE \E r \in Requests : AppendEntry("manual", rtx[r], CreditedCustomer("manual", rtx[r]))
  BY <1>1, <1>4, AppendEntryEffect, CreditedCustomerType DEF TypeOK, RequestsTypeOK
<1> QED  BY <1>2, <1>3, <1>4, LedgerSteps

\* Rows of the ledger are never changed, removed or reordered, by any interleaving.
THEOREM LedgerOnlyGrows == Spec => LedgerAppendOnly
<1>1. TypeInv /\ [Next]_vars =>
        [/\ Len(ledger) <= Len(ledger')
         /\ \A i \in DOMAIN ledger : ledger'[i] = ledger[i]]_vars
  BY LedgerGrows
<1> QED  BY <1>1, TypeInvInit, TypeInvStep, PTL DEF Spec, LedgerAppendOnly

-----------------------------------------------------------------------------
LEMMA GrowsStep ==
  ASSUME TypeInv, [Next]_vars
  PROVE  Grows
<1> USE DEF TypeInv, TypeOK
<1>1. \A t \in Transactions, kind \in {"ledger", "manual"} : Credited(t, kind) => Credited(t, kind)'
  BY LedgerGrows DEF Credited, Reference
<1> SUFFICES ASSUME NEW t \in Transactions
             PROVE  /\ decision[t] # "NONE" => decision'[t] # "NONE"
                    /\ caseStatus[t] # "NONE" => caseStatus'[t] # "NONE"
                    /\ tx[t] \in Settled => tx'[t] \in Settled
                    /\ trail[t] \subseteq trail'[t]
                    /\ audited[t] \subseteq audited'[t]
                    /\ emitted[t] \subseteq emitted'[t]
  BY <1>1 DEF Grows
<1> USE DEF RecordsTypeOK, TransactionsTypeOK, recordVars, transactionVars
<1>2. CASE \E w \in Workers : Decide(w)
  <2>1. PICK w \in Workers : Decide(w)
    BY <1>2
  <2>2. Outcome(seen[w]) # "NONE"
    BY OutcomeType DEF Outcomes
  <2> QED  BY <2>1, <2>2 DEF Decide, Record
<1>3. CASE \E w \in Workers : Settle(w)
  BY <1>3, StatusForType DEF Settle, SetTx
<1>4. CASE \E w \in Workers :
             \/ ReadAccount(w) \/ ReadCustomer(w) \/ ReadHistory(w) \/ AppendCredit(w)
             \/ InsertCase(w) \/ LogOutcome(w) \/ EmitOutcome(w)
  BY <1>4 DEF ReadAccount, ReadCustomer, ReadHistory, AppendCredit, InsertCase, OpenCase,
              LogOutcome, LogEvent, EmitOutcome, Notify
<1>5. CASE \E w \in Workers : Finish(w) \/ Fail(w) \/ Crash(w)
  BY <1>5 DEF Finish, Fail, Crash
<1>6. CASE \E r \in Requests : RequestStep(r)
  BY <1>6 DEF RequestStep, AppendManual, SettleManual, SetTx, Settled, CloseCase, StatusAfter,
              AuditAction, LogOverride, LogEvent, EmitCaseUpdated, Notify
<1>7. CASE \/ \E r \in Requests : AbortRequest(r)
           \/ \E r \in Requests, u \in Transactions, a \in CaseActions : Resolve(r, u, a)
           \/ \E w \in Workers, u \in Transactions : Start(w, u)
           \/ \E u \in Transactions : Stall(u)
           \/ DirectoryStep \/ UNCHANGED vars
  BY <1>7 DEF AbortRequest, Resolve, Start, Stall, DirectoryStep, vars
<1>8. CASE \E u \in Transactions : Arrive(u)
  BY <1>8 DEF Arrive, ArriveRow, LogArrival, QueueArrival, InsertTransaction, LogEvent, Settled
<1> QED  BY <1>2, <1>3, <1>4, <1>5, <1>6, <1>7, <1>8 DEF Next, ReconciliationNext, WorkerStep

-----------------------------------------------------------------------------
(* Workers.                                                                     *)

\* A step is worker w's own, or takes w to where it knows nothing, or is not its business.
LEMMA WorkerMoves ==
  ASSUME TypeInv, [Next]_vars, NEW w \in Workers
  PROVE  \/ WorkerStep(w)
         \/ wpc'[w] \in {"idle", "account"}
         \/ wpc'[w] = wpc[w] /\ wtx'[w] = wtx[w] /\ verdict'[w] = verdict[w]
<1> USE DEF TypeInv, TypeOK, WorkersTypeOK
<1>1. CASE \E v \in Workers : WorkerStep(v)
  <2>1. PICK v \in Workers : WorkerStep(v)
    BY <1>1
  <2>2. CASE v # w
    BY <2>1, <2>2
       DEF WorkerStep, ReadAccount, ReadCustomer, ReadHistory, Decide, AppendCredit, InsertCase,
           Settle, LogOutcome, EmitOutcome, Finish, Forget, Go
  <2> QED  BY <2>1, <2>2
<1>2. CASE \E v \in Workers : Fail(v) \/ Crash(v)
  BY <1>2 DEF Fail, Crash, Quit, Forget
<1>3. CASE \E v \in Workers, t \in Transactions : Start(v, t)
  <2>1. PICK v \in Workers, t \in Transactions : Start(v, t)
    BY <1>3
  <2>2. CASE v # w
    BY <2>1, <2>2 DEF Start, Go
  <2>3. CASE v = w
    BY <2>1, <2>3 DEF Start, Go
  <2>. QED  BY <2>2, <2>3
<1>4. CASE \E r \in Requests :
             \/ RequestStep(r) \/ AbortRequest(r)
             \/ \E t \in Transactions, a \in CaseActions : Resolve(r, t, a)
  BY <1>4 DEF RequestStep, AppendManual, SettleManual, CloseCase, AuditAction, LogOverride,
              EmitCaseUpdated, AbortRequest, Resolve, workerVars
<1>5. CASE \/ \E t \in Transactions : Stall(t) \/ Arrive(t)
           \/ DirectoryStep \/ UNCHANGED vars
  BY <1>5 DEF Stall, Arrive, ArriveRow, LogArrival, QueueArrival, DirectoryStep, vars, workerVars
<1> QED  BY <1>1, <1>2, <1>3, <1>4, <1>5 DEF Next, ReconciliationNext

\* What worker w knows outlives the steps of others.
LEMMA WorkerRemembers ==
  ASSUME TypeInv, Grows, NEW w \in Workers, WorkerKnows(w),
         wpc'[w] = wpc[w], wtx'[w] = wtx[w], verdict'[w] = verdict[w]
  PROVE  WorkerKnows(w)'
<1>1. wtx[w] \in Transactions
  BY DEF TypeInv, TypeOK, WorkersTypeOK
<1> QED  BY <1>1 DEF WorkerKnows, Grows, Automatic

\* Each of its own steps establishes what it knows at the next one.
LEMMA WorkerLearns ==
  ASSUME TypeInv, Grows, NEW w \in Workers, WorkerKnows(w), WorkerStep(w)
  PROVE  WorkerKnows(w)'
<1> USE DEF TypeInv, TypeOK
<1>a. wtx[w] \in Transactions /\ verdict[w] \in Outcomes \cup {"NONE"} /\ ledger \in Seq(Entries)
  BY DEF WorkersTypeOK, RecordsTypeOK
<1>1. CASE ReadAccount(w) \/ ReadCustomer(w) \/ ReadHistory(w)
  BY <1>1 DEF ReadAccount, ReadCustomer, ReadHistory, Go, WorkerKnows, WorkersTypeOK
<1>2. CASE Decide(w)
  <2>1. Outcome(seen[w]) # "NONE"
    BY OutcomeType DEF Outcomes
  <2>2. wtx' = wtx /\ verdict'[w] = Outcome(seen[w]) /\ decision'[wtx[w]] = Outcome(seen[w])
    BY <1>a, <1>2 DEF Decide, Record, WorkersTypeOK, RecordsTypeOK
  <2>3. wpc'[w] = IF Outcome(seen[w]) = "AUTO_RECONCILED" THEN "credit" ELSE "case"
    BY <1>2 DEF Decide, Go, WorkersTypeOK
  <2> QED  BY <2>1, <2>2, <2>3 DEF WorkerKnows, Automatic
<1>3. CASE AppendCredit(w)
  <2>1. Credited(wtx[w], "ledger")'
    BY <1>a, <1>3, AppendEntryEffect, CreditedCustomerType DEF AppendCredit, Credited
  <2> QED  BY <1>a, <1>3, <2>1 DEF AppendCredit, Go, WorkerKnows, Automatic, WorkersTypeOK, Credited
<1>4. CASE InsertCase(w)
  <2>1. caseStatus'[wtx[w]] # "NONE"
    BY <1>a, <1>4 DEF InsertCase, OpenCase, RecordsTypeOK
  <2> QED  BY <1>a, <1>4, <2>1 DEF InsertCase, Go, WorkerKnows, Automatic, WorkersTypeOK
<1>5. CASE Settle(w)
  <2>1. tx'[wtx[w]] \in Settled
    BY <1>a, <1>5, StatusForType DEF Settle, SetTx, TransactionsTypeOK
  <2>2. wpc[w] = "settle" /\ wpc'[w] = "event" /\ UNCHANGED <<wtx, verdict, recordVars>>
    BY <1>5 DEF Settle, Go, WorkersTypeOK
  <2> QED  BY <1>a, <2>1, <2>2 DEF WorkerKnows, Automatic, Grows, recordVars
<1>6. CASE LogOutcome(w)
  <2>1. (IF Automatic(w) THEN "PAYMENT_RECONCILED" ELSE "PAYMENT_FLAGGED") \in trail'[wtx[w]]
    BY <1>a, <1>6 DEF LogOutcome, LogEvent, Automatic, TransactionsTypeOK
  <2>2. wpc[w] = "event" /\ wpc'[w] = "emit" /\ UNCHANGED <<tx, wtx, verdict, recordVars>>
    BY <1>6 DEF LogOutcome, Go, WorkersTypeOK
  <2> QED  BY <1>a, <2>1, <2>2 DEF WorkerKnows, Automatic, Grows, recordVars
<1>7. CASE EmitOutcome(w)
  <2>1. emitted'[wtx[w]] # {}
    BY <1>a, <1>7 DEF EmitOutcome, Notify, RecordsTypeOK
  <2>2. wpc[w] = "emit" /\ wpc'[w] = "finish" /\ UNCHANGED <<tx, trail, wtx, verdict>>
    BY <1>7 DEF EmitOutcome, Go, WorkersTypeOK, transactionVars
  <2> QED  BY <1>a, <2>1, <2>2 DEF WorkerKnows, Automatic, Grows
<1>8. CASE Finish(w)
  BY <1>8 DEF Finish, Go, WorkerKnows, WorkersTypeOK
<1> QED  BY <1>1, <1>2, <1>3, <1>4, <1>5, <1>6, <1>7, <1>8 DEF WorkerStep

LEMMA WorkersStep ==
  ASSUME TypeInv, CreditInv, [Next]_vars
  PROVE  \A w \in Workers : WorkerKnows(w)'
<1> TAKE w \in Workers
<1>1. WorkerKnows(w) /\ Grows
  BY GrowsStep DEF CreditInv
<1>2. CASE wpc'[w] \in {"idle", "account"}
  BY <1>2 DEF WorkerKnows
<1> QED  BY <1>1, <1>2, WorkerMoves, WorkerRemembers, WorkerLearns

-----------------------------------------------------------------------------
(* Requests.                                                                    *)

LEMMA RequestMoves ==
  ASSUME TypeInv, [Next]_vars, NEW r \in Requests
  PROVE  \/ RequestStep(r)
         \/ \E t \in Transactions, a \in CaseActions : Resolve(r, t, a)
         \/ rpc'[r] = "idle"
         \/ rpc'[r] = rpc[r] /\ rtx'[r] = rtx[r] /\ ract'[r] = ract[r]
<1> USE DEF TypeInv, TypeOK, RequestsTypeOK
<1>1. CASE \E q \in Requests :
             \/ RequestStep(q) \/ AbortRequest(q)
             \/ \E t \in Transactions, a \in CaseActions : Resolve(q, t, a)
  BY <1>1 DEF RequestStep, AppendManual, SettleManual, CloseCase, AuditAction, LogOverride,
              EmitCaseUpdated, AbortRequest, Resolve, EndRequest, RGo
<1>2. CASE ~\E q \in Requests :
             \/ RequestStep(q) \/ AbortRequest(q)
             \/ \E t \in Transactions, a \in CaseActions : Resolve(q, t, a)
  <2>1. UNCHANGED requestVars
    BY <1>2 DEF Next, ReconciliationNext, WorkerStep, ReadAccount, ReadCustomer, ReadHistory, Decide,
           AppendCredit, InsertCase, Settle, LogOutcome, EmitOutcome, Finish, Fail, Crash, Start,
           Stall, Arrive, ArriveRow, LogArrival, QueueArrival, DirectoryStep, vars
  <2> QED  BY <2>1 DEF requestVars
<1> QED  BY <1>1, <1>2

LEMMA RequestRemembers ==
  ASSUME TypeInv, Grows, NEW r \in Requests, RequestKnows(r),
         rpc'[r] = rpc[r], rtx'[r] = rtx[r], ract'[r] = ract[r]
  PROVE  RequestKnows(r)'
<1>1. rtx[r] \in Transactions
  BY DEF TypeInv, TypeOK, RequestsTypeOK
<1> QED  BY <1>1 DEF RequestKnows, Grows

LEMMA RequestLearns ==
  ASSUME TypeInv, Grows, NEW r \in Requests, RequestKnows(r),
         \/ RequestStep(r)
         \/ \E t \in Transactions, a \in CaseActions : Resolve(r, t, a)
  PROVE  RequestKnows(r)'
<1> USE DEF TypeInv, TypeOK
<1>a. rtx[r] \in Transactions /\ ledger \in Seq(Entries)
  BY DEF RequestsTypeOK, RecordsTypeOK
<1>1. CASE AppendManual(r)
  <2>1. Credited(rtx[r], "manual")'
    BY <1>a, <1>1, AppendEntryEffect, CreditedCustomerType DEF AppendManual, Credited
  <2> QED  BY <1>1, <2>1 DEF AppendManual, RGo, RequestKnows, RequestsTypeOK, Credited
<1>2. CASE SettleManual(r)
  BY <1>a, <1>2 DEF SettleManual, RGo, RequestKnows, RequestsTypeOK, Grows
<1>3. CASE CloseCase(r)
  BY <1>3 DEF CloseCase, RGo, RequestKnows, RequestsTypeOK
<1>4. CASE AuditAction(r)
  BY <1>a, <1>4 DEF AuditAction, RGo, RequestKnows, RequestsTypeOK, RecordsTypeOK
<1>5. CASE LogOverride(r)
  BY <1>a, <1>5 DEF LogOverride, LogEvent, RGo, RequestKnows, RequestsTypeOK, TransactionsTypeOK, recordVars
<1>6. CASE EmitCaseUpdated(r)
  BY <1>6 DEF EmitCaseUpdated, RGo, RequestKnows, RequestsTypeOK
<1>7. CASE \E t \in Transactions, a \in CaseActions : Resolve(r, t, a)
  BY <1>7 DEF Resolve, RGo, RequestKnows, RequestsTypeOK
<1> QED  BY <1>1, <1>2, <1>3, <1>4, <1>5, <1>6, <1>7 DEF RequestStep

LEMMA RequestsStep ==
  ASSUME TypeInv, CreditInv, [Next]_vars
  PROVE  \A r \in Requests : RequestKnows(r)'
<1> TAKE r \in Requests
<1>1. RequestKnows(r) /\ Grows
  BY GrowsStep DEF CreditInv
<1>2. CASE rpc'[r] = "idle"
  BY <1>2 DEF RequestKnows
<1> QED  BY <1>1, <1>2, RequestMoves, RequestRemembers, RequestLearns

-----------------------------------------------------------------------------
(* The properties.                                                              *)

LEMMA CreditedHasCredit ==
  \A t, kind : Credited(t, kind) => CreditsOf(t) # {}
  BY DEF Credited, CreditsOf, Reference

LEMMA ReconciledStep ==
  ASSUME TypeInv, CreditInv, [Next]_vars
  PROVE  ReconciledIsCredited'
<1> USE DEF TypeInv, TypeOK
<1> SUFFICES ASSUME NEW t \in Transactions, tx'[t] = "RECONCILED"
             PROVE  CreditsOf(t)' # {}
  BY DEF ReconciledIsCredited
<1>1. CASE tx[t] = "RECONCILED"
  <2>1. CreditsOf(t) # {}
    BY <1>1 DEF CreditInv, ReconciledIsCredited
  <2> QED  BY <2>1, LedgerGrows DEF CreditsOf
<1>2. CASE \E w \in Workers : Settle(w) /\ wtx[w] = t
  <2>1. PICK w \in Workers : Settle(w) /\ wtx[w] = t
    BY <1>2
  <2>2. StatusFor(verdict[w]) = "RECONCILED"
    BY <2>1 DEF Settle, SetTx, TransactionsTypeOK
  <2>3. Automatic(w) /\ wpc[w] = "settle"
    BY <2>1, <2>2 DEF StatusFor, Automatic, Settle, Go
  <2>4. Credited(t, "ledger")'
    BY <2>1, <2>3, GrowsStep DEF CreditInv, WorkerKnows, Grows
  <2> QED  BY <2>4 DEF Credited, CreditsOf, Reference
<1>3. CASE \E r \in Requests : SettleManual(r) /\ rtx[r] = t
  <2>1. PICK r \in Requests : SettleManual(r) /\ rtx[r] = t
    BY <1>3
  <2>2. Credited(t, "manual")
    BY <2>1 DEF SettleManual, RGo, CreditInv, RequestKnows
  <2>3. Credited(t, "manual")'
    BY <2>2, GrowsStep DEF Grows
  <2> QED  BY <2>3 DEF Credited, CreditsOf, Reference
<1>4. \/ tx[t] = "RECONCILED"
      \/ \E w \in Workers : Settle(w) /\ wtx[w] = t
      \/ \E r \in Requests : SettleManual(r) /\ rtx[r] = t
  <2>1. CASE \E w \in Workers : Settle(w)
    BY <2>1 DEF Settle, SetTx, TransactionsTypeOK
  <2>2. CASE \E r \in Requests : SettleManual(r)
    BY <2>2 DEF SettleManual, SetTx, TransactionsTypeOK
  <2>3. CASE \E u \in Transactions : Arrive(u)
    BY <2>3 DEF Arrive, ArriveRow, LogArrival, QueueArrival, InsertTransaction, TransactionsTypeOK
  <2>4. CASE /\ ~\E w \in Workers : Settle(w)
             /\ ~\E r \in Requests : SettleManual(r)
             /\ ~\E u \in Transactions : Arrive(u)
    BY <2>4 DEF Next, ReconciliationNext, WorkerStep, ReadAccount, ReadCustomer, ReadHistory, Decide,
           AppendCredit, InsertCase, LogOutcome, EmitOutcome, Finish, Fail, Crash, Start, Stall,
           RequestStep, AppendManual, CloseCase, AuditAction, LogOverride, EmitCaseUpdated,
           AbortRequest, Resolve, DirectoryStep, vars, transactionVars
  <2> QED  BY <2>1, <2>2, <2>3, <2>4
<1> QED  BY <1>1, <1>2, <1>3, <1>4

LEMMA ApprovedStep ==
  ASSUME TypeInv, CreditInv, [Next]_vars
  PROVE  ApprovedIsCredited'
<1> USE DEF TypeInv, TypeOK
<1> SUFFICES ASSUME NEW t \in Transactions, caseStatus'[t] = "APPROVED"
             PROVE  Credited(t, "manual")'
  BY DEF ApprovedIsCredited
<1>1. CASE caseStatus[t] = "APPROVED"
  BY <1>1, GrowsStep DEF CreditInv, ApprovedIsCredited, Grows
<1>2. CASE \E r \in Requests : CloseCase(r) /\ rtx[r] = t
  <2>1. PICK r \in Requests : CloseCase(r) /\ rtx[r] = t
    BY <1>2
  <2>2. ract[r] = "approve-credit" /\ rpc[r] = "close"
    BY <2>1 DEF CloseCase, RGo, StatusAfter, RecordsTypeOK
  <2> QED  BY <2>1, <2>2, GrowsStep DEF CreditInv, RequestKnows, Grows
<1>3. \/ caseStatus[t] = "APPROVED"
      \/ \E r \in Requests : CloseCase(r) /\ rtx[r] = t
  <2>1. CASE \E r \in Requests : CloseCase(r)
    BY <2>1 DEF CloseCase, RecordsTypeOK
  <2>2. CASE \E w \in Workers : InsertCase(w)
    BY <2>2 DEF InsertCase, OpenCase, RecordsTypeOK
  <2>3. CASE ~(\E r \in Requests : CloseCase(r)) /\ ~(\E w \in Workers : InsertCase(w))
    BY <2>3 DEF Next, ReconciliationNext, WorkerStep, ReadAccount, ReadCustomer, ReadHistory, Decide,
           AppendCredit, Settle, LogOutcome, EmitOutcome, Finish, Fail, Crash, Start, Stall,
           Arrive, ArriveRow, LogArrival, QueueArrival,
           RequestStep, AppendManual, SettleManual, AuditAction, LogOverride, EmitCaseUpdated,
           AbortRequest, Resolve, DirectoryStep, vars, recordVars
  <2> QED  BY <2>1, <2>2, <2>3
<1> QED  BY <1>1, <1>2, <1>3

LEMMA NoticesStep ==
  ASSUME TypeInv, CreditInv, [Next]_vars
  PROVE  NoticesAreTrue'
<1> USE DEF TypeInv, TypeOK
<1> SUFFICES ASSUME NEW t \in Transactions
             PROVE  /\ "transaction.reconciled" \in emitted'[t]
                         => Credited(t, "ledger")' /\ "PAYMENT_RECONCILED" \in trail'[t]
                    /\ emitted'[t] \cap {"transaction.rejected", "transaction.manual_review_required"} # {}
                         => caseStatus'[t] # "NONE" /\ "PAYMENT_FLAGGED" \in trail'[t]
                    /\ "reconciliation.case_updated" \in emitted'[t]
                         => audited'[t] # {} /\ "ADMIN_OVERRIDE" \in trail'[t]
  BY DEF NoticesAreTrue
<1>a. /\ "transaction.reconciled" \in emitted[t]
           => Credited(t, "ledger") /\ "PAYMENT_RECONCILED" \in trail[t]
      /\ emitted[t] \cap {"transaction.rejected", "transaction.manual_review_required"} # {}
           => caseStatus[t] # "NONE" /\ "PAYMENT_FLAGGED" \in trail[t]
      /\ "reconciliation.case_updated" \in emitted[t]
           => audited[t] # {} /\ "ADMIN_OVERRIDE" \in trail[t]
  BY DEF CreditInv, NoticesAreTrue
<1>b. /\ Credited(t, "ledger") => Credited(t, "ledger")'
      /\ caseStatus[t] # "NONE" => caseStatus'[t] # "NONE"
      /\ trail[t] \subseteq trail'[t] /\ audited[t] \subseteq audited'[t]
  BY GrowsStep DEF Grows
<1>1. CASE emitted'[t] = emitted[t]
  BY <1>a, <1>b, <1>1
<1>2. CASE \E w \in Workers : EmitOutcome(w) /\ wtx[w] = t
  <2>1. PICK w \in Workers : EmitOutcome(w) /\ wtx[w] = t
    BY <1>2
  <2>2. wpc[w] = "emit" /\ WorkerKnows(w)
    BY <2>1 DEF EmitOutcome, Go, CreditInv
  <2>3. emitted'[t] \subseteq
          emitted[t] \cup (IF Automatic(w) THEN {"transaction.reconciled"}
                          ELSE {"transaction.rejected", "transaction.manual_review_required"})
    BY <2>1 DEF EmitOutcome, Notify, Automatic, RecordsTypeOK
  <2>4. IF Automatic(w) THEN Credited(t, "ledger") /\ "PAYMENT_RECONCILED" \in trail[t]
        ELSE caseStatus[t] # "NONE" /\ "PAYMENT_FLAGGED" \in trail[t]
    BY <2>1, <2>2 DEF WorkerKnows
  <2> QED  BY <1>a, <1>b, <2>3, <2>4
<1>3. CASE \E r \in Requests : EmitCaseUpdated(r) /\ rtx[r] = t
  <2>1. PICK r \in Requests : EmitCaseUpdated(r) /\ rtx[r] = t
    BY <1>3
  <2>2. audited[t] # {} /\ "ADMIN_OVERRIDE" \in trail[t]
    BY <2>1 DEF EmitCaseUpdated, RGo, CreditInv, RequestKnows
  <2>3. emitted'[t] = emitted[t] \cup {"reconciliation.case_updated"}
    BY <2>1 DEF EmitCaseUpdated, Notify, RecordsTypeOK
  <2> QED  BY <1>a, <1>b, <2>2, <2>3
<1>4. \/ emitted'[t] = emitted[t]
      \/ \E w \in Workers : EmitOutcome(w) /\ wtx[w] = t
      \/ \E r \in Requests : EmitCaseUpdated(r) /\ rtx[r] = t
  <2>1. CASE \E w \in Workers : EmitOutcome(w)
    BY <2>1 DEF EmitOutcome, Notify, RecordsTypeOK
  <2>2. CASE \E r \in Requests : EmitCaseUpdated(r)
    BY <2>2 DEF EmitCaseUpdated, Notify, RecordsTypeOK
  <2>3. UNCHANGED emitted \/ (\E w \in Workers : EmitOutcome(w)) \/ (\E r \in Requests : EmitCaseUpdated(r))
    BY DEF Next, ReconciliationNext, WorkerStep, ReadAccount, ReadCustomer, ReadHistory, Decide,
           AppendCredit, InsertCase, Settle, LogOutcome, Finish, Fail, Crash, Start, Stall,
           Arrive, ArriveRow, LogArrival, QueueArrival,
           RequestStep, AppendManual, SettleManual, CloseCase, AuditAction, LogOverride,
           AbortRequest, Resolve, DirectoryStep, vars, recordVars
  <2> QED  BY <2>1, <2>2, <2>3
<1> QED  BY <1>1, <1>2, <1>3, <1>4

LEMMA CompletedStep ==
  ASSUME TypeInv, CreditInv, [Next]_vars
  PROVE  CompletedIsSettled'
<1> USE DEF TypeInv, TypeOK
<1> SUFFICES ASSUME NEW t \in Transactions, job'[t].state = "completed"
             PROVE  decision'[t] # "NONE" /\ tx'[t] \in Settled /\ emitted'[t] # {}
  BY DEF CompletedIsSettled
<1>1. CASE job[t].state = "completed"
  BY <1>1, GrowsStep DEF CreditInv, CompletedIsSettled, Grows
<1>2. CASE \E w \in Workers : Finish(w) /\ wtx[w] = t
  BY <1>2, GrowsStep DEF Finish, Go, CreditInv, WorkerKnows, Grows
<1>3. \/ job[t].state = "completed"
      \/ \E w \in Workers : Finish(w) /\ wtx[w] = t
  <2> USE DEF SetJob, TransactionsTypeOK, Jobs
  <2>1. CASE \E w \in Workers : Finish(w)
    BY <2>1 DEF Finish
  <2>2. CASE \E w \in Workers : Fail(w)
    BY <2>2 DEF Fail, Failed
  <2>3. CASE \E w \in Workers, u \in Transactions : Start(w, u)
    BY <2>3 DEF Start, Taken
  <2>4. CASE \E u \in Transactions : Stall(u)
    BY <2>4 DEF Stall, Stalled
  <2>5. CASE \E u \in Transactions : Arrive(u)
    BY <2>5 DEF Arrive, ArriveRow, LogArrival, QueueArrival, Added
  <2>6. CASE UNCHANGED job
    BY <2>6
  <2>7. \/ \E w \in Workers : Finish(w) \/ Fail(w)
        \/ \E w \in Workers, u \in Transactions : Start(w, u)
        \/ \E u \in Transactions : Stall(u) \/ Arrive(u)
        \/ UNCHANGED job
    BY DEF Next, ReconciliationNext, WorkerStep, ReadAccount, ReadCustomer, ReadHistory, Decide,
           AppendCredit, InsertCase, Settle, LogOutcome, EmitOutcome, Crash, RequestStep,
           AppendManual, SettleManual, CloseCase, AuditAction, LogOverride, EmitCaseUpdated,
           AbortRequest, Resolve, DirectoryStep, vars, transactionVars
  <2> QED  BY <2>1, <2>2, <2>3, <2>4, <2>5, <2>6, <2>7
<1> QED  BY <1>1, <1>2, <1>3

LEMMA CreditInvInit == Init => CreditInv
  BY DEF Init, TransactionsInit, ReconciliationInit, NoJob, CreditInv, WorkerKnows, RequestKnows,
         UniqueReference, ReconciledIsCredited, ApprovedIsCredited, NoticesAreTrue,
         CompletedIsSettled

LEMMA CreditInvStep == TypeInv /\ CreditInv /\ [Next]_vars => CreditInv'
<1> SUFFICES ASSUME TypeInv, CreditInv, [Next]_vars PROVE CreditInv'
  OBVIOUS
<1>1. UniqueReference'
  BY LedgerGrows DEF CreditInv
<1> QED  BY <1>1, WorkersStep, RequestsStep, ReconciledStep, ApprovedStep, NoticesStep, CompletedStep
         DEF CreditInv

\* The invariant from which the theorems below are read off.
LEMMA CreditInvariant == Spec => [](TypeInv /\ CreditInv)
  BY TypeInvInit, TypeInvStep, CreditInvInit, CreditInvStep, PTL DEF Spec

\* No sequence of retries, duplicates and approvals writes two entries under one reference.
THEOREM ReferencesUnique == Spec => []UniqueReference
<1>1. CreditInv => UniqueReference
  BY DEF CreditInv
<1> QED  BY <1>1, CreditInvariant, PTL

\* A transaction is shown as RECONCILED only when its credit is in the ledger.
THEOREM ReconciledCredited == Spec => []ReconciledIsCredited
<1>1. CreditInv => ReconciledIsCredited
  BY DEF CreditInv
<1> QED  BY <1>1, CreditInvariant, PTL

\* An approved case has its manual credit, however many resolutions overlap.
THEOREM ApprovedCredited == Spec => []ApprovedIsCredited
<1>1. CreditInv => ApprovedIsCredited
  BY DEF CreditInv
<1> QED  BY <1>1, CreditInvariant, PTL

\* Subscribers are told only of what has happened.
THEOREM NoticesTrue == Spec => []NoticesAreTrue
<1>1. CreditInv => NoticesAreTrue
  BY DEF CreditInv
<1> QED  BY <1>1, CreditInvariant, PTL

\* A completed job has settled its transaction, left a decision and told subscribers.
THEOREM CompletedSettled == Spec => []CompletedIsSettled
<1>1. CreditInv => CompletedIsSettled
  BY DEF CreditInv
<1> QED  BY <1>1, CreditInvariant, PTL
-----------------------------------------------------------------------------
(* Who changes what.                                                            *)

LEMMA DecisionChanges ==
  ASSUME TypeInv, [Next]_vars, NEW t \in Transactions
  PROVE  decision'[t] = decision[t] \/ \E w \in Workers : Decide(w) /\ wtx[w] = t
<1>. USE DEF TypeInv, TypeOK, RecordsTypeOK
<1>1. CASE \E w \in Workers : Decide(w)
  BY <1>1 DEF Decide, Record
<1>2. CASE ~\E w \in Workers : Decide(w)
  <2>1. UNCHANGED decision
    BY <1>2 DEF Next, ReconciliationNext, WorkerStep, ReadAccount, ReadCustomer, ReadHistory,
           AppendCredit, InsertCase, Settle, LogOutcome, EmitOutcome, Finish, Fail, Crash, Start,
           Stall, Arrive, ArriveRow, LogArrival, QueueArrival,
           RequestStep, AppendManual, SettleManual, CloseCase, AuditAction,
           LogOverride, EmitCaseUpdated, AbortRequest, Resolve, DirectoryStep, vars, recordVars
  <2>. QED  BY <2>1
<1>. QED  BY <1>1, <1>2

LEMMA CaseChanges ==
  ASSUME TypeInv, [Next]_vars, NEW t \in Transactions
  PROVE  \/ caseStatus'[t] = caseStatus[t] /\ caseReason'[t] = caseReason[t]
         \/ \E w \in Workers : InsertCase(w) /\ wtx[w] = t /\ caseStatus[t] = "NONE"
         \/ /\ caseStatus'[t] # "NONE" /\ caseReason'[t] = caseReason[t]
            /\ \E r \in Requests : CloseCase(r) /\ rtx[r] = t
<1>. USE DEF TypeInv, TypeOK, RecordsTypeOK
<1>1. CASE \E w \in Workers : InsertCase(w)
  BY <1>1 DEF InsertCase, OpenCase
<1>2. CASE \E r \in Requests : CloseCase(r)
  BY <1>2 DEF CloseCase, StatusAfter
<1>3. CASE ~(\E w \in Workers : InsertCase(w)) /\ ~(\E r \in Requests : CloseCase(r))
  <2>1. UNCHANGED <<caseStatus, caseReason>>
    BY <1>3 DEF Next, ReconciliationNext, WorkerStep, ReadAccount, ReadCustomer, ReadHistory, Decide,
           AppendCredit, Settle, LogOutcome, EmitOutcome, Finish, Fail, Crash, Start,
           Stall, Arrive, ArriveRow, LogArrival, QueueArrival,
           RequestStep, AppendManual, SettleManual, AuditAction,
           LogOverride, EmitCaseUpdated, AbortRequest, Resolve, DirectoryStep, vars, recordVars
  <2>. QED  BY <2>1
<1>. QED  BY <1>1, <1>2, <1>3

LEMMA TransactionChanges ==
  ASSUME TypeInv, [Next]_vars, NEW t \in Transactions
  PROVE  \/ tx'[t] = tx[t] /\ payee'[t] = payee[t]
         \/ /\ tx'[t] \in Settled /\ payee'[t] = payee[t]
            /\ \/ \E w \in Workers : Settle(w) /\ wtx[w] = t
               \/ \E r \in Requests : SettleManual(r) /\ rtx[r] = t
         \/ ArriveRow(t)
<1>. USE DEF TypeInv, TypeOK, TransactionsTypeOK
<1>1. CASE \E w \in Workers : Settle(w)
  <2>1. PICK w \in Workers : Settle(w)
    BY <1>1
  <2>2. payee' = payee /\ tx' = [tx EXCEPT ![wtx[w]] = StatusFor(verdict[w])]
    BY <2>1 DEF Settle, SetTx
  <2>. QED  BY <2>1, <2>2, StatusForType
<1>2. CASE \E r \in Requests : SettleManual(r)
  BY <1>2 DEF SettleManual, SetTx, Settled
<1>3. CASE \E u \in Transactions : Arrive(u)
  BY <1>3 DEF Arrive, ArriveRow, LogArrival, QueueArrival,
              InsertTransaction
<1>4. CASE /\ ~\E w \in Workers : Settle(w)
           /\ ~\E r \in Requests : SettleManual(r)
           /\ ~\E u \in Transactions : Arrive(u)
  <2>1. UNCHANGED <<tx, payee>>
    BY <1>4 DEF Next, ReconciliationNext, WorkerStep, ReadAccount, ReadCustomer, ReadHistory, Decide,
           AppendCredit, InsertCase, LogOutcome, EmitOutcome, Finish, Fail, Crash, Start, Stall,
           RequestStep, AppendManual, CloseCase, AuditAction, LogOverride, EmitCaseUpdated,
           AbortRequest, Resolve, DirectoryStep, vars, transactionVars
  <2>. QED  BY <2>1
<1>. QED  BY <1>1, <1>2, <1>3, <1>4

\* A worker takes a job, goes on with the one it has, is done with it, or is not concerned.
LEMMA WorkerChanges ==
  ASSUME TypeInv, [Next]_vars, NEW w \in Workers
  PROVE  \/ \E t \in Transactions : Start(w, t)
         \/ WorkerStep(w) /\ wpc[w] # "idle" /\ (wpc'[w] # "idle" => wtx'[w] = wtx[w])
         \/ wpc'[w] = "idle"
         \/ UNCHANGED <<wpc[w], wtx[w], verdict[w], seen[w]>>
<1>. USE DEF TypeInv, TypeOK, WorkersTypeOK
<1>1. CASE \E v \in Workers : WorkerStep(v)
  <2>1. PICK v \in Workers : WorkerStep(v)
    BY <1>1
  <2>2. CASE v # w
    BY <2>1, <2>2
       DEF WorkerStep, ReadAccount, ReadCustomer, ReadHistory, Decide, AppendCredit, InsertCase,
           Settle, LogOutcome, EmitOutcome, Finish, Forget, Go
  <2>3. CASE v = w
    BY <2>1, <2>3
       DEF WorkerStep, ReadAccount, ReadCustomer, ReadHistory, Decide, AppendCredit, InsertCase,
           Settle, LogOutcome, EmitOutcome, Finish, Forget, Go
  <2>. QED  BY <2>2, <2>3
<1>2. CASE \E v \in Workers : Fail(v) \/ Crash(v)
  BY <1>2 DEF Fail, Crash, Quit, Forget
<1>3. CASE \E v \in Workers, t \in Transactions : Start(v, t)
  <2>1. PICK v \in Workers, t \in Transactions : Start(v, t)
    BY <1>3
  <2>2. CASE v # w
    BY <2>1, <2>2 DEF Start, Go
  <2>3. CASE v = w
    BY <2>1, <2>3
  <2>. QED  BY <2>2, <2>3
<1>4. CASE \E r \in Requests :
             \/ RequestStep(r) \/ AbortRequest(r)
             \/ \E t \in Transactions, a \in CaseActions : Resolve(r, t, a)
  BY <1>4 DEF RequestStep, AppendManual, SettleManual, CloseCase, AuditAction, LogOverride,
              EmitCaseUpdated, AbortRequest, Resolve, workerVars
<1>5. CASE \/ \E t \in Transactions : Stall(t) \/ Arrive(t)
           \/ DirectoryStep \/ UNCHANGED vars
  BY <1>5 DEF Stall, Arrive, ArriveRow, LogArrival, QueueArrival, DirectoryStep, vars, workerVars
<1>. QED  BY <1>1, <1>2, <1>3, <1>4, <1>5 DEF Next, ReconciliationNext

LEMMA JobChanges ==
  ASSUME TypeInv, [Next]_vars, NEW t \in Transactions
  PROVE  \/ job'[t] = job[t]
         \/ \E w \in Workers : Start(w, t)
         \/ \E w \in Workers : /\ held[w] /\ wtx[w] = t
                               /\ job'[t] \in {Completed(job[t]), Failed(job[t])}
         \/ job[t].state = "active" /\ job'[t] = Stalled(job[t])
         \/ QueueArrival(t)
<1>. USE DEF TypeInv, TypeOK, TransactionsTypeOK, SetJob
<1>1. CASE \E w \in Workers : Finish(w) \/ Fail(w)
  BY <1>1 DEF Finish, Fail
<1>2. CASE \E w \in Workers, u \in Transactions : Start(w, u)
  BY <1>2 DEF Start
<1>3. CASE \E u \in Transactions : Stall(u)
  BY <1>3 DEF Stall
<1>4. CASE \E u \in Transactions : Arrive(u)
  BY <1>4 DEF Arrive, ArriveRow, LogArrival, QueueArrival
<1>5. CASE UNCHANGED job
  BY <1>5
<1>6. \/ \E w \in Workers : Finish(w) \/ Fail(w)
      \/ \E w \in Workers, u \in Transactions : Start(w, u)
      \/ \E u \in Transactions : Stall(u) \/ Arrive(u)
      \/ UNCHANGED job
  BY DEF Next, ReconciliationNext, WorkerStep, ReadAccount, ReadCustomer, ReadHistory, Decide,
         AppendCredit, InsertCase, Settle, LogOutcome, EmitOutcome, Crash, RequestStep,
         AppendManual, SettleManual, CloseCase, AuditAction, LogOverride, EmitCaseUpdated,
         AbortRequest, Resolve, DirectoryStep, vars, transactionVars
<1>. QED  BY <1>1, <1>2, <1>3, <1>4, <1>5, <1>6

\* Each row of the ledger was there, or is the one just appended.
LEMMA EntryIsNew ==
  ASSUME TypeInv, [Next]_vars, NEW i \in DOMAIN ledger'
  PROVE  \/ i \in DOMAIN ledger /\ ledger'[i] = ledger[i]
         \/ \E w \in Workers : /\ AppendCredit(w)
                               /\ ledger'[i] = Entry("ledger", wtx[w], CreditedCustomer("ledger", wtx[w]))
         \/ \E r \in Requests : /\ AppendManual(r)
                                /\ ledger'[i] = Entry("manual", rtx[r], CreditedCustomer("manual", rtx[r]))
<1>1. ASSUME NEW kind \in {"ledger", "manual"}, NEW t \in Transactions,
             NEW c \in Customers \cup {NoCustomer}, AppendEntry(kind, t, c)
      PROVE  (i \in DOMAIN ledger /\ ledger'[i] = ledger[i]) \/ ledger'[i] = Entry(kind, t, c)
  <2>. DEFINE e == Entry(kind, t, c)
  <2>1. CASE ledger' = ledger
    BY <2>1
  <2>2. CASE ledger' = Append(ledger, e)
    <3>1. ledger \in Seq(Entries) /\ e \in Entries
      BY DEF TypeInv, TypeOK, RecordsTypeOK, Entry, Entries
    <3>. HIDE DEF e
    <3>2. /\ DOMAIN ledger = 1..Len(ledger) /\ Len(ledger) \in Nat
          /\ DOMAIN ledger' = 1..(Len(ledger) + 1)
          /\ \A k \in 1..Len(ledger) : ledger'[k] = ledger[k]
          /\ ledger'[Len(ledger) + 1] = e
      BY <2>2, <3>1
    <3>3. i \in 1..Len(ledger) \/ i = Len(ledger) + 1
      BY <3>2
    <3>4. (i \in DOMAIN ledger /\ ledger'[i] = ledger[i]) \/ ledger'[i] = e
      BY <3>2, <3>3
    <3>. QED  BY <3>4 DEF e
  <2>. QED  BY <1>1, <2>1, <2>2 DEF AppendEntry
<1>2. TypeOK /\ (\A w \in Workers : wtx[w] \in Transactions) /\ (\A r \in Requests : rtx[r] \in Transactions)
  BY DEF TypeInv, TypeOK, WorkersTypeOK, RequestsTypeOK
<1>. QED  BY <1>1, <1>2, LedgerSteps, CreditedCustomerType

\* Requests work on cases that exist.
RequestsSound == \A r \in Requests : rpc[r] # "idle" => caseStatus[rtx[r]] # "NONE"

LEMMA RequestsHaveCases ==
  ASSUME TypeInv, RequestsSound, [Next]_vars, NEW r \in Requests, rpc'[r] # "idle"
  PROVE  caseStatus'[rtx'[r]] # "NONE"
<1>. USE DEF TypeInv, TypeOK, RequestsTypeOK
<1>1. CASE rpc[r] # "idle" /\ rtx'[r] = rtx[r]
  BY <1>1, GrowsStep DEF RequestsSound, Grows
<1>2. CASE RequestStep(r)
  <2>1. rpc[r] # "idle" /\ rtx'[r] = rtx[r]
    BY <1>2 DEF RequestStep, AppendManual, SettleManual, CloseCase, AuditAction, LogOverride,
                EmitCaseUpdated, RGo
  <2>. QED  BY <1>1, <2>1
<1>3. CASE \E t \in Transactions, a \in CaseActions : Resolve(r, t, a)
  BY <1>3 DEF Resolve, RGo, recordVars
<1>. QED  BY <1>1, <1>2, <1>3, RequestMoves
-----------------------------------------------------------------------------
(* A status, a case and a credit come after the decision, in every execution.   *)

StatusSound ==
  /\ RequestsSound
  /\ \A t \in Transactions :
       /\ caseStatus[t] # "NONE" => decision[t] # "NONE"
       /\ tx[t] \in Settled => decision[t] # "NONE"
       /\ tx[t] \in {"MANUAL_REVIEW", "REJECTED"} => caseStatus[t] # "NONE"

LEMMA StatusSoundInit == Init => StatusSound
  BY DEF Init, TransactionsInit, ReconciliationInit, StatusSound, RequestsSound, Settled

LEMMA StatusSoundStep ==
  ASSUME TypeInv, CreditInv, StatusSound, [Next]_vars
  PROVE  StatusSound'
<1>1. Grows
  BY GrowsStep
<1>2. RequestsSound'
  BY RequestsHaveCases DEF RequestsSound, StatusSound
<1>3. ASSUME NEW t \in Transactions, caseStatus'[t] # "NONE" PROVE decision'[t] # "NONE"
  <2>1. CASE caseStatus[t] # "NONE"
    BY <1>1, <2>1 DEF StatusSound, Grows
  <2>2. ASSUME NEW w \in Workers, InsertCase(w), wtx[w] = t PROVE decision'[t] # "NONE"
    <3>1. decision[t] # "NONE"
      BY <2>2 DEF InsertCase, Go, CreditInv, WorkerKnows
    <3>. QED  BY <1>1, <3>1 DEF Grows
  <2>3. \A r \in Requests : CloseCase(r) /\ rtx[r] = t => caseStatus[t] # "NONE"
    BY DEF CloseCase, RGo, StatusSound, RequestsSound
  <2>. QED  BY <1>3, <2>1, <2>2, <2>3, CaseChanges
<1>4. ASSUME NEW t \in Transactions, tx'[t] \in Settled
      PROVE  /\ decision'[t] # "NONE"
             /\ tx'[t] \in {"MANUAL_REVIEW", "REJECTED"} => caseStatus'[t] # "NONE"
  <2>1. CASE tx'[t] = tx[t]
    BY <1>1, <1>4, <2>1 DEF StatusSound, Grows
  <2>2. ASSUME NEW w \in Workers, Settle(w), wtx[w] = t
        PROVE  /\ decision'[t] # "NONE"
               /\ tx'[t] \in {"MANUAL_REVIEW", "REJECTED"} => caseStatus'[t] # "NONE"
    <3>1. wpc[w] = "settle" /\ tx'[t] = StatusFor(verdict[w]) /\ UNCHANGED recordVars
      BY <2>2 DEF Settle, Go, SetTx, TypeInv, TypeOK, TransactionsTypeOK
    <3>2. decision[t] # "NONE" /\ (verdict[w] # "AUTO_RECONCILED" => caseStatus[t] # "NONE")
      BY <2>2, <3>1 DEF CreditInv, WorkerKnows, Automatic
    <3>. QED  BY <3>1, <3>2 DEF StatusFor, recordVars
  <2>3. ASSUME NEW r \in Requests, SettleManual(r), rtx[r] = t
        PROVE  decision'[t] # "NONE" /\ tx'[t] = "RECONCILED"
    BY <2>3 DEF SettleManual, RGo, SetTx, StatusSound, RequestsSound, recordVars,
                TypeInv, TypeOK, TransactionsTypeOK
  <2>4. ~ArriveRow(t)
    BY <1>4 DEF ArriveRow, InsertTransaction, Settled, TypeInv, TypeOK, TransactionsTypeOK
  <2>. QED  BY <2>1, <2>2, <2>3, <2>4, TransactionChanges
<1>. QED  BY <1>2, <1>3, <1>4 DEF StatusSound, Settled

-----------------------------------------------------------------------------
(* Barred accounts.                                                             *)

Barred == {"CLOSED", "RESTRICTED"}

\* The account is barred and the payment not credited, and no worker has seen it otherwise.
Uncreditable(t) ==
  /\ account[Recipient[t]] \in Barred /\ ~Credited(t, "ledger")
  /\ \A w \in Workers : wtx[w] = t =>
       /\ wpc[w] # "credit"
       /\ wpc[w] \in {"customer", "history", "decide"} => seen[w].accountStatus \in Barred

LEMMA BarredStaysBarred ==
  ASSUME TypeInv, [Next]_vars, NEW a \in Accounts, account[a] \in Barred
  PROVE  account'[a] \in Barred
<1>. USE DEF Barred, TypeInv, TypeOK, DirectoryTypeOK
<1>1. CASE DirectoryNext
  BY <1>1 DEF DirectoryNext, EditsNext, OpenAccount, SetStatus, SetTier, Rename, RecordRename, LoseRename, NoStatus
<1>2. CASE UNCHANGED account
  BY <1>2
<1>3. DirectoryNext \/ UNCHANGED account
  BY DEF Next, ReconciliationNext, WorkerStep, ReadAccount, ReadCustomer, ReadHistory, Decide,
         AppendCredit, InsertCase, Settle, LogOutcome, EmitOutcome, Finish, Fail, Crash, Start,
         Stall, Arrive, ArriveRow, LogArrival, QueueArrival,
         RequestStep, AppendManual, SettleManual, CloseCase, AuditAction,
         LogOverride, EmitCaseUpdated, AbortRequest, Resolve, DirectoryStep, vars, directoryVars
<1>. QED  BY <1>1, <1>2, <1>3

\* Signals of a barred account never come to an automatic credit, whatever the others say.
LEMMA BarredIsNotCredited ==
  ASSUME NEW f \in Facts, f.accountStatus \in Barred
  PROVE  Outcome(f) # "AUTO_RECONCILED"
  BY DEF Barred, Outcome, Misdirected, KycBlocked

LEMMA UncreditableStep ==
  ASSUME TypeInv, CreditInv, [Next]_vars, NEW t \in Transactions, Uncreditable(t)
  PROVE  Uncreditable(t)'
<1>. USE DEF TypeInv, TypeOK, WorkersTypeOK
<1>1. account'[Recipient[t]] \in Barred /\ account[Recipient[t]] \in Barred
  BY BarredStaysBarred, TransactionsAssumption DEF Uncreditable
<1>2. ~Credited(t, "ledger")'
  <2>1. SUFFICES ASSUME NEW i \in DOMAIN ledger', Reference(ledger'[i]) = <<"ledger", t>>
                 PROVE  FALSE
    BY DEF Credited, Reference
  <2>2. ~(i \in DOMAIN ledger /\ ledger'[i] = ledger[i])
    BY <2>1 DEF Uncreditable, Credited
  <2>3. PICK w \in Workers : AppendCredit(w) /\ wtx[w] = t
    BY <2>1, <2>2, EntryIsNew DEF Reference, Entry
  <2>. QED  BY <2>3 DEF AppendCredit, Go, Uncreditable
<1>3. ASSUME NEW w \in Workers, wtx'[w] = t
      PROVE  /\ wpc'[w] # "credit"
             /\ wpc'[w] \in {"customer", "history", "decide"} => seen'[w].accountStatus \in Barred
  <2>1. CASE \E u \in Transactions : Start(w, u)
    BY <2>1 DEF Start, Go
  <2>2. CASE WorkerStep(w) /\ wtx'[w] = wtx[w]
    <3>1. seen[w] \in Facts /\ wtx[w] = t
      BY <1>3, <2>2
    <3>2. CASE ReadAccount(w)
      BY <1>1, <3>1, <3>2
         DEF ReadAccount, Go, StatusNow, AccountSignals, Facts, Barred, NoStatus
    <3>3. CASE ReadCustomer(w)
      BY <3>1, <3>3 DEF ReadCustomer, Go, CustomerSignals, Facts, Uncreditable
    <3>4. CASE ReadHistory(w)
      BY <3>1, <3>4 DEF ReadHistory, Go, HistorySignals, Facts, Uncreditable
    <3>5. CASE Decide(w)
      BY <3>1, <3>5, BarredIsNotCredited DEF Decide, Go, Uncreditable
    <3>. QED  BY <2>2, <3>2, <3>3, <3>4, <3>5
              DEF WorkerStep, AppendCredit, InsertCase, Settle, LogOutcome, EmitOutcome, Finish, Go
  <2>3. CASE wpc'[w] = "idle"
    BY <2>3
  <2>4. CASE UNCHANGED <<wpc[w], wtx[w], verdict[w], seen[w]>>
    BY <1>3, <2>4 DEF Uncreditable
  <2>. QED  BY <2>1, <2>2, <2>3, <2>4, WorkerChanges
<1>. QED  BY <1>1, <1>2, <1>3 DEF Uncreditable

\* Once an account is closed or restricted, a payment to it that no worker has in hand is never
\* credited automatically, however often its job is handed out afterwards.
THEOREM BarredUncredited == Spec => BarredStaysUncredited
<1>. DEFINE Found(t) == account[Recipient[t]] \in {"CLOSED", "RESTRICTED"} /\ ~Busy(t)
                          /\ ~Credited(t, "ledger")
            Always(t) == [](Found(t) => []~Credited(t, "ledger"))
<1>1. ASSUME NEW t \in Transactions PROVE Spec => Always(t)
  <2>1. TypeInv /\ Found(t) => Uncreditable(t)
    BY DEF Busy, Uncreditable, Barred
  <2>2. TypeInv /\ CreditInv /\ [Next]_vars /\ Uncreditable(t) => Uncreditable(t)'
    BY UncreditableStep
  <2>3. Uncreditable(t) => ~Credited(t, "ledger")
    BY DEF Uncreditable
  <2>. HIDE DEF Found
  <2>. QED  BY <2>1, <2>2, <2>3, CreditInvariant, PTL DEF Spec
<1>2. Spec => \A t \in Transactions : Always(t)
  <2>. HIDE DEF Always
  <2>. QED  BY <1>1
<1>. QED  BY <1>2 DEF BarredStaysUncredited
=============================================================================
