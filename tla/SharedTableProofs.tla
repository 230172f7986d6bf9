--------------------------- MODULE SharedTableProofs ---------------------------
(* Those who work on the reconciler's tables besides it.                        *)
(* The answers of status() and of the simulation, put together from reads at    *)
(* several moments while the reconciler goes on, for any number of readers,     *)
(* workers, requests and payments: what a reader has seen still holds when it   *)
(* reads the next table, because nothing it has seen is ever taken back.        *)
(* The script that seeds the demonstration, for any list of scenarios and any   *)
(* number of runs: whatever a run has passed is there, although administrators  *)
(* work on the tables and runs are stopped or overlap.                          *)
EXTENDS Readers, MCSeed, ReconciliationProofs, FiniteSetTheorems

ReaderSteps == {"transaction", "decision", "case", "events", "ledger", "answered"}

Answers == [status : TxStatuses, decided : BOOLEAN, opened : BOOLEAN, credited : BOOLEAN]

ReadersTypeOK ==
  /\ qpc \in [Readers -> ReaderSteps \cup {"idle"}]
  /\ qkind \in [Readers -> {"status", "simulation"}]
  /\ qtx \in [Readers -> Transactions]
  /\ got \in [Readers -> Answers]

Flagged == {"MANUAL_REVIEW", "REJECTED"}

\* What the status a reader has seen implies of the rows as they are now ...
StillTrue(q) ==
  qpc[q] \in ReaderSteps \ {"transaction"} =>
    /\ got[q].status \in Settled => decision[qtx[q]] # "NONE"
    /\ got[q].status \in Flagged => caseStatus[qtx[q]] # "NONE"
    /\ got[q].status = "RECONCILED" => CreditsOf(qtx[q]) # {}

\* ... and of what it has read of them.
HasRead(q) ==
  /\ qpc[q] \in {"case", "events", "ledger", "answered"} /\ got[q].status \in Settled => got[q].decided
  /\ qpc[q] \in {"events", "ledger", "answered"} /\ got[q].status \in Flagged => got[q].opened
  /\ qpc[q] = "events" => qkind[q] = "status"
  /\ qpc[q] = "answered" /\ qkind[q] = "simulation" /\ got[q].status = "RECONCILED" => got[q].credited

ReadersInv == ReadersTypeOK /\ \A q \in Readers : StillTrue(q) /\ HasRead(q)

-----------------------------------------------------------------------------
LEMMA CreditsStay ==
  ASSUME TypeInv, [Next]_vars, NEW t, CreditsOf(t) # {}
  PROVE  CreditsOf(t)' # {}
  BY LedgerGrows DEF CreditsOf

LEMMA ReconcilerKeepsReaders ==
  ASSUME TypeInv, CreditInv, ReadersInv, [Next]_vars, UNCHANGED readerVars
  PROVE  ReadersInv'
<1>. USE DEF ReadersInv, readerVars
<1>1. ReadersTypeOK'
  BY DEF ReadersTypeOK
<1>2. ASSUME NEW q \in Readers PROVE StillTrue(q)' /\ HasRead(q)'
  <2>1. PICK t \in Transactions : qtx[q] = t
    BY DEF ReadersTypeOK
  <2>2. /\ decision[t] # "NONE" => decision'[t] # "NONE"
        /\ caseStatus[t] # "NONE" => caseStatus'[t] # "NONE"
    BY GrowsStep DEF Grows
  <2>3. CreditsOf(t) # {} => CreditsOf(t)' # {}
    BY CreditsStay
  <2>4. StillTrue(q) /\ HasRead(q)
    OBVIOUS
  <2>5. qtx'[q] = t
    BY <2>1
  <2>6. StillTrue(q)'
    BY <2>1, <2>2, <2>3, <2>4, <2>5 DEF StillTrue, CreditsOf
  <2>7. HasRead(q)'
    BY <2>4 DEF HasRead
  <2>. QED  BY <2>6, <2>7
<1>. QED  BY <1>1, <1>2

\* A read of one reader leaves the others as they are.
LEMMA OthersKeepReading ==
  ASSUME ReadersInv, NEW q \in Readers, NEW p \in Readers,
         UNCHANGED vars, UNCHANGED <<qpc[p], qkind[p], qtx[p], got[p]>>
  PROVE  StillTrue(p)' /\ HasRead(p)'
<1>1. StillTrue(p) /\ HasRead(p)
  BY DEF ReadersInv
<1>. QED  BY <1>1 DEF StillTrue, HasRead, CreditsOf, vars, recordVars

LEMMA ReaderStep ==
  ASSUME TypeInv, CreditInv, StatusSound, ReadersInv, NEW q \in Readers, ReaderNext(q), UNCHANGED vars
  PROVE  ReadersInv'
<1>. USE DEF ReadersTypeOK, QGo
<1>. ReadersTypeOK /\ StillTrue(q) /\ HasRead(q)
  BY DEF ReadersInv
<1>1. /\ qtx[q] \in Transactions /\ got[q] \in Answers /\ tx[qtx[q]] \in TxStatuses
      /\ UNCHANGED <<tx, decision, caseStatus, ledger>>
  BY DEF TypeInv, TypeOK, TransactionsTypeOK, vars, recordVars, transactionVars
<1>2. \E a \in Answers, there \in ReaderSteps \cup {"idle"}, u \in Transactions,
         k \in {"status", "simulation"} :
        /\ qpc' = [qpc EXCEPT ![q] = there] /\ got' = [got EXCEPT ![q] = a]
        /\ qtx' = [qtx EXCEPT ![q] = u] /\ qkind' = [qkind EXCEPT ![q] = k]
  <2>1. Unread \in Answers
    BY DEF Unread, Answers, TxStatuses
  <2>2. CASE \E t \in Transactions, kind \in Kinds : Ask(q, t, kind)
    <3>1. PICK t \in Transactions, kind \in Kinds : Ask(q, t, kind)
      BY <2>2
    <3>2. got' = [got EXCEPT ![q] = got[q]] /\ kind \in {"status", "simulation"}
      BY <3>1, KindsAssumption DEF Ask
    <3>. QED  BY <1>1, <3>1, <3>2 DEF Ask, ReaderSteps
  <2>3. CASE ReadTransaction(q)
    <3>1. [Unread EXCEPT !.status = tx[qtx[q]]] \in Answers
      BY <1>1, <2>1 DEF Answers
    <3>. QED  BY <1>1, <2>3, <3>1 DEF ReadTransaction, ReaderSteps
  <2>4. CASE ReadDecision(q)
    <3>1. [got[q] EXCEPT !.decided = decision[qtx[q]] # "NONE"] \in Answers
      BY <1>1 DEF Answers
    <3>. QED  BY <1>1, <2>4, <3>1 DEF ReadDecision, ReaderSteps
  <2>5. CASE ReadCase(q)
    <3>1. [got[q] EXCEPT !.opened = caseStatus[qtx[q]] # "NONE"] \in Answers
      BY <1>1 DEF Answers
    <3>. QED  BY <1>1, <2>5, <3>1 DEF ReadCase, ReaderSteps
  <2>6. CASE ReadEvents(q)
    BY <1>1, <2>6 DEF ReadEvents, ReaderSteps
  <2>7. CASE ReadLedger(q)
    <3>1. [got[q] EXCEPT !.credited = CreditsOf(qtx[q]) # {}] \in Answers
      BY <1>1 DEF Answers
    <3>. QED  BY <1>1, <2>1, <2>7, <3>1 DEF ReadLedger, ReaderSteps
  <2>8. CASE EndReading(q)
    BY <2>1, <2>8, ATransactionType DEF EndReading
  <2>. QED  BY <2>2, <2>3, <2>4, <2>5, <2>6, <2>7, <2>8 DEF ReaderNext
<1>3. ReadersTypeOK'
  BY <1>2
<1>4. \A p \in Readers : p # q => StillTrue(p)' /\ HasRead(p)'
  <2>1. \A p \in Readers : p # q => UNCHANGED <<qpc[p], qkind[p], qtx[p], got[p]>>
    BY <1>2
  <2>. QED  BY <2>1, OthersKeepReading
<1>5. StillTrue(q)' /\ HasRead(q)'
  <2>. USE DEF StillTrue, HasRead, ReaderSteps
  <2>1. CASE (\E t \in Transactions, kind \in Kinds : Ask(q, t, kind)) \/ EndReading(q)
    BY <2>1 DEF Ask, EndReading
  <2>2. CASE ReadTransaction(q)
    <3>1. PICK t \in Transactions : qtx[q] = t /\ qtx'[q] = t
      BY <1>1, <2>2 DEF ReadTransaction
    <3>2. got'[q].status = tx[t] /\ qpc'[q] \in {"decision", "idle", "transaction"}
      BY <2>2, <3>1 DEF ReadTransaction, Unread
    <3>3. /\ tx[t] \in Settled => decision[t] # "NONE"
          /\ tx[t] \in Flagged => caseStatus[t] # "NONE"
          /\ tx[t] = "RECONCILED" => CreditsOf(t) # {}
      BY DEF StatusSound, Flagged, CreditInv, ReconciledIsCredited
    <3>. QED  BY <1>1, <3>1, <3>2, <3>3 DEF CreditsOf
  <2>3. CASE ReadDecision(q)
    BY <1>1, <2>3 DEF ReadDecision, Answers, CreditsOf
  <2>4. CASE ReadCase(q)
    BY <1>1, <2>4 DEF ReadCase, Answers, CreditsOf
  <2>5. CASE ReadEvents(q)
    BY <1>1, <2>5 DEF ReadEvents, CreditsOf
  <2>6. CASE ReadLedger(q)
    BY <1>1, <2>6 DEF ReadLedger, Answers, CreditsOf
  <2>. QED  BY <2>1, <2>2, <2>3, <2>4, <2>5, <2>6 DEF ReaderNext
<1>. QED  BY <1>3, <1>4, <1>5 DEF ReadersInv

LEMMA ReadersInitInv == ReadersInit => ReadersInv
  BY ATransactionType
     DEF ReadersInit, ReadersInv, ReadersTypeOK, Answers, Unread, TxStatuses, StillTrue, HasRead,
         ReaderSteps

WatchedInv == TypeInv /\ CreditInv /\ StatusSound /\ ReadersInv

LEMMA WatchedInvariant == WatchedSpec => []WatchedInv
<1>1. WatchedInit => WatchedInv
  BY TypeInvInit, CreditInvInit, StatusSoundInit, ReadersInitInv DEF WatchedInit, WatchedInv
<1>2. WatchedInv /\ [WatchedNext]_<<vars, readerVars>> => WatchedInv'
  <2>. SUFFICES ASSUME WatchedInv, [WatchedNext]_<<vars, readerVars>> PROVE WatchedInv'
    OBVIOUS
  <2>1. [Next]_vars
    BY DEF WatchedNext
  <2>2. TypeInv' /\ CreditInv' /\ StatusSound'
    BY <2>1, TypeInvStep, CreditInvStep, StatusSoundStep DEF WatchedInv
  <2>3. ReadersInv'
    BY <2>1, ReconcilerKeepsReaders, ReaderStep DEF WatchedInv, WatchedNext
  <2>. QED  BY <2>2, <2>3 DEF WatchedInv
<1>. QED  BY <1>1, <1>2, PTL DEF WatchedSpec

\* An answer that shows a final status shows a decision, a case for a payment held back or
\* refused and, where the ledger is read, the credit of a reconciled one, although its parts are
\* read at different moments.
THEOREM AnswersTrue == WatchedSpec => []AnswersHoldTogether
<1>1. WatchedInv => AnswersHoldTogether
  BY DEF WatchedInv, ReadersInv, HasRead, Flagged, AnswersHoldTogether
<1>. QED  BY <1>1, WatchedInvariant, PTL

LEMMA WatchedIsReconciliation == WatchedSpec => Spec
<1>1. WatchedInit => Init
  BY DEF WatchedInit
<1>2. [WatchedNext]_<<vars, readerVars>> => [Next]_vars
  BY DEF WatchedNext
<1>. QED  BY <1>1, <1>2, PTL DEF WatchedSpec, Spec

\* Readers do not disturb: what is proved of the reconciler alone, such as that payments to barred
\* accounts stay uncredited, holds whoever looks on.
THEOREM WatchedBarredUncredited == WatchedSpec => BarredStaysUncredited
  BY WatchedIsReconciliation, BarredUncredited

-----------------------------------------------------------------------------
(* The seed script.                                                             *)

DueSound ==
  \A s \in Seeders : due[s] =>
    line[s] # 0 /\ Kind(s) \in Looked /\ (Kind(s) = "renamed" => Demo[Subject(s)].earlier # {})

GhostsTypeOK == /\ finished \in BOOLEAN /\ overlapped \in BOOLEAN
                /\ touched \in BOOLEAN /\ cut \in BOOLEAN

\* The rows stand behind what the script believes of them: a decision and an event that were
\* counted are there, a case has the reason the script gives, and the former name in a row of the
\* script's own is approved.
RowsSound ==
  \A t \in Transactions :
    /\ decision[t] # "NONE" => rows[t]["decision"] > 0
    /\ rows[t]["decision"] > 0 => decision[t] = Demo[t].outcome
    /\ rows[t]["event"] > 0 => trail[t] # {}
    /\ caseStatus[t] # "NONE" => caseReason[t] = Demo[t].outcome
    /\ \A kind \in Guarded : rows[t][kind] <= 1
    /\ ~touched /\ rows[t]["renamed"] > 0 => Demo[t].earlier \subseteq approved[Owner(t)]

\* One run at a time adds what it has found missing, and nothing twice, unless an administrator
\* may have recorded the name it is about.
Shared(t, kind) == touched /\ Sought(t, kind) # {}
AloneSound ==
  ~overlapped =>
    /\ \A r, s \in Seeders : line[r] # 0 /\ line[s] # 0 => r = s
    /\ \A s \in Seeders : due[s] => rows[Subject(s)][Kind(s)] = 0 \/ Shared(Subject(s), Kind(s))
    /\ \A t \in Transactions, kind \in Counted : rows[t][kind] <= 1 \/ Shared(t, kind)

\* What has come of the statement about t of one kind.  What administrators may change counts
\* only until they do.
Done(t, kind) ==
  /\ kind = "customer" /\ ~touched
       => tier[Owner(t)] = Demo[t].tier /\ fullName[Owner(t)] = Demo[t].name
  /\ kind = "account" /\ ~touched => account[Recipient[t]] = Demo[t].account
  /\ kind = "transaction" => payee[t] = Owner(t) /\ (~touched => tx[t] = Demo[t].status)
  /\ kind = "outcome" => IF Demo[t].credit THEN Credited(t, "demo") ELSE caseStatus[t] # "NONE"
  /\ kind \in Counted
       => rows[t][kind] > 0 \/ (kind = "renamed" /\ Demo[t].earlier = {})

\* A run has done the lines before its own, a finished one all of them.
LinesDone ==
  /\ \A s \in Seeders : \A l \in Lines : l < line[s] => Done(SubjectAt(l), KindAt(l))
  /\ finished => \A l \in Lines : Done(SubjectAt(l), KindAt(l))

\* Until a request is cut short, whoever has credited a payment by hand has left the traces or is
\* about to.
Traced(t) == "approve-credit" \in audited[t] /\ "ADMIN_OVERRIDE" \in trail[t]
Tracing(r, t) ==
  /\ rtx[r] = t /\ ract[r] = "approve-credit"
  /\ \/ rpc[r] \in {"settle", "close", "audit"}
     \/ rpc[r] = "event" /\ "approve-credit" \in audited[t]

TracesSound ==
  /\ \A r \in Requests : rpc[r] = "credit" => ract[r] = "approve-credit"
  /\ ~cut => \A t \in Transactions :
       Credited(t, "manual") => Traced(t) \/ \E r \in Requests : Tracing(r, t)

SeedTyped == TypeInv /\ SeedTypeOK /\ DueSound
SeedVarsTyped == SeedTyped /\ GhostsTypeOK

SeedInv == /\ SeedVarsTyped /\ RequestsSound
           /\ RowsSound /\ AloneSound /\ LinesDone /\ TracesSound

-----------------------------------------------------------------------------
(* The statements and their lines.                                              *)

LEMMA TwelveStatements == Len(Statements) = 12 /\ Lines = 1..(12 * Len(Scenarios))
<1>1. Len(Statements) = 12
  BY DEF Statements
<1>. QED  BY <1>1 DEF Lines

LEMMA LinesTyped ==
  ASSUME NEW l \in Lines
  PROVE  SubjectAt(l) \in Transactions /\ l \in Nat
<1>1. l \in 1..(12 * Len(Scenarios)) /\ Len(Scenarios) \in Nat /\ Len(Statements) = 12
  BY TwelveStatements, SeedAssumption
<1>2. 1 + ((l - 1) \div 12) \in 1..Len(Scenarios)
  BY <1>1
<1>. QED  BY <1>1, <1>2, SeedAssumption DEF SubjectAt

\* There is a line for every statement about every transaction.
LEMMA LineOf ==
  ASSUME NEW t \in Transactions, NEW k \in 1..12
  PROVE  \E l \in Lines : SubjectAt(l) = t /\ KindAt(l) = Statements[k]
<1>1. PICK i \in DOMAIN Scenarios : Scenarios[i] = t
  BY SeedAssumption
<1>2. i \in 1..Len(Scenarios) /\ Len(Scenarios) \in Nat /\ Len(Statements) = 12
  BY TwelveStatements, SeedAssumption
<1>. DEFINE l == 12 * (i - 1) + k
<1>3. l \in Lines
  BY <1>2, TwelveStatements
<1>4. (l - 1) % 12 = k - 1 /\ (l - 1) \div 12 = i - 1
  <2>1. ASSUME NEW q \in Nat, NEW r \in 0..11
        PROVE  (12 * q + r) % 12 = r /\ (12 * q + r) \div 12 = q
    BY SMTT(30)
  <2>2. i - 1 \in Nat /\ k - 1 \in 0..11 /\ l - 1 = 12 * (i - 1) + (k - 1)
    BY <1>2
  <2>. HIDE DEF l
  <2>. QED  BY <2>1, <2>2
<1>. HIDE DEF l
<1>5. 1 + ((l - 1) % 12) = k /\ 1 + ((l - 1) \div 12) = i
  BY <1>2, <1>4
<1>6. SubjectAt(l) = t /\ KindAt(l) = Statements[k]
  BY <1>1, <1>2, <1>5 DEF SubjectAt, KindAt
<1>. QED  BY <1>3, <1>6

LEMMA LastLine ==
  /\ 1 \in Lines /\ Cardinality(Lines) \in Lines /\ KindAt(Cardinality(Lines)) = "audit"
  /\ \A l \in Lines : l <= Cardinality(Lines)
<1>1. PICK t \in Transactions : TRUE
  BY SomeTransactionAssumption
<1>2. Len(Scenarios) \in Nat /\ Len(Scenarios) >= 1
  BY <1>1, SeedAssumption
<1>. DEFINE n == 12 * Len(Scenarios)
<1>3. n \in Nat /\ n >= 12 /\ Lines = 1..n
  BY <1>2, TwelveStatements
<1>4. (n - 1) % 12 = 11
  BY <1>2
<1>. HIDE DEF n
<1>5. Cardinality(Lines) = n
  BY <1>3, FS_Interval
<1>6. KindAt(n) = Statements[12]
  BY <1>4, TwelveStatements DEF KindAt
<1>7. Statements[12] = "audit"
  BY DEF Statements
<1>. QED  BY <1>3, <1>5, <1>6, <1>7

-----------------------------------------------------------------------------
(* The steps of a run.                                                          *)

\* Where a statement of s is, and what it may leave of the run.
LEMMA SeedStepMoves ==
  ASSUME SeedTyped, NEW s \in Seeders, SeedStep(s)
  PROVE  /\ line[s] \in Lines /\ Subject(s) \in Transactions
         /\ \/ Advance(s)
            \/ line' = [line EXCEPT ![s] = 0]
            \/ line' = line /\ due'[s] /\ Look(s)
         /\ due' \in [Seeders -> BOOLEAN]
         /\ \A r \in Seeders : r # s => due'[r] = due[r]
         /\ UNCHANGED <<runs, unrecorded, job, audited, emitted, workerVars, requestVars>>
<1>. USE DEF SeedTyped, SeedTypeOK
<1>1. line[s] \in Lines
  BY DEF SeedStep, UpsertCustomer, UpsertVirtualAccount, UpsertTransaction, InsertOnce, Look, Add,
         CreditOrCase, At, DueSound
<1>2. Subject(s) \in Transactions
  BY <1>1, LinesTyped DEF Subject
<1>3. CASE UpsertCustomer(s)
  BY <1>1, <1>2, <1>3 DEF UpsertCustomer, transactionVars, recordVars
<1>4. CASE UpsertVirtualAccount(s)
  BY <1>1, <1>2, <1>4 DEF UpsertVirtualAccount, transactionVars, recordVars
<1>5. CASE UpsertTransaction(s)
  BY <1>1, <1>2, <1>5 DEF UpsertTransaction, directoryVars, recordVars
<1>6. CASE InsertOnce(s)
  BY <1>1, <1>2, <1>6 DEF InsertOnce, vars, directoryVars, transactionVars, recordVars
<1>7. CASE Look(s)
  BY <1>1, <1>2, <1>7 DEF Look, vars, directoryVars, transactionVars, recordVars
<1>8. CASE Add(s)
  BY <1>1, <1>2, <1>8 DEF Add
<1>9. CASE CreditOrCase(s)
  BY <1>1, <1>2, <1>9 DEF CreditOrCase, directoryVars, transactionVars
<1>. QED  BY <1>3, <1>4, <1>5, <1>6, <1>7, <1>8, <1>9 DEF SeedStep

LEMMA LineAdvances ==
  ASSUME SeedTypeOK, NEW s \in Seeders, line[s] \in Lines, Advance(s)
  PROVE  /\ line' \in [Seeders -> Lines \cup {0}]
         /\ line'[s] \in {line[s] + 1, 0}
         /\ \A r \in Seeders : r # s => line'[r] = line[r]
  BY DEF Advance, SeedTypeOK

\* What the script says of a transaction is of the right kind.
LEMMA DemoTyped ==
  ASSUME NEW t \in Transactions
  PROVE  /\ Demo[t].account \in AccountStatuses /\ Demo[t].tier \in Tiers
         /\ Demo[t].name \in Names /\ Demo[t].earlier \subseteq Names
         /\ Demo[t].status \in TxStatuses \ {"NONE"} /\ Demo[t].outcome \in Outcomes
         /\ Demo[t].credit \in BOOLEAN
         /\ Owner(t) \in Customers /\ Recipient[t] \in Accounts
  BY SeedAssumption, OwnerAssumption, TransactionsAssumption DEF Owner

\* The tables of the reconciler keep their types under a run.
LEMMA SeedStepTypes ==
  ASSUME SeedTyped, NEW s \in Seeders, SeedStep(s)
  PROVE  TypeInv'
<1>. DEFINE t == Subject(s)
<1>1. t \in Transactions
  BY SeedStepMoves
<1>2. Demo[t].account \in AccountStatuses /\ Demo[t].tier \in Tiers /\ Demo[t].name \in Names
      /\ Demo[t].earlier \subseteq Names /\ Demo[t].status \in TxStatuses \ {"NONE"}
      /\ Demo[t].outcome \in Outcomes /\ Owner(t) \in Customers /\ Recipient[t] \in Accounts
  <2>. HIDE DEF t
  <2>. QED  BY <1>1, DemoTyped
<1>. HIDE DEF t
<1>3. /\ UNCHANGED <<unrecorded, job, audited, emitted, workerVars, requestVars>>
  BY SeedStepMoves
<1>4. TypeInv
  BY DEF SeedTyped
<1>5. CASE UpsertCustomer(s)
  <2>1. /\ UNCHANGED <<account, approved, transactionVars, recordVars>>
        /\ tier' \in [Customers -> Tiers] /\ fullName' \in [Customers -> Names]
    BY <1>2, <1>4, <1>5 DEF UpsertCustomer, TypeInv, TypeOK, DirectoryTypeOK, t
  <2>. QED  BY <1>3, <1>4, <2>1
            DEF TypeInv, TypeOK, DirectoryTypeOK, TransactionsTypeOK, RecordsTypeOK, WorkersTypeOK,
                RequestsTypeOK, JobsSound, LocksSound, transactionVars, recordVars, workerVars,
                requestVars
<1>6. CASE UpsertVirtualAccount(s)
  <2>1. /\ UNCHANGED <<tier, fullName, approved, transactionVars, recordVars>>
        /\ account' \in [Accounts -> AccountStatuses \cup {NoStatus}]
    BY <1>2, <1>4, <1>6 DEF UpsertVirtualAccount, TypeInv, TypeOK, DirectoryTypeOK, t
  <2>. QED  BY <1>3, <1>4, <2>1
            DEF TypeInv, TypeOK, DirectoryTypeOK, TransactionsTypeOK, RecordsTypeOK, WorkersTypeOK,
                RequestsTypeOK, JobsSound, LocksSound, transactionVars, recordVars, workerVars,
                requestVars
<1>7. CASE UpsertTransaction(s)
  <2>1. /\ UNCHANGED <<directoryVars, trail, recordVars>>
        /\ tx' \in [Transactions -> TxStatuses] /\ tx' = [tx EXCEPT ![t] = Demo[t].status]
        /\ payee' \in [Transactions -> Customers \cup {NoCustomer}]
    BY <1>1, <1>2, <1>4, <1>7
       DEF UpsertTransaction, SetTx, TypeInv, TypeOK, TransactionsTypeOK, t
  <2>2. \A u \in Transactions : tx'[u] = "NONE" => tx[u] = "NONE"
    BY <1>1, <1>2, <1>4, <2>1 DEF TypeInv, TypeOK, TransactionsTypeOK
  <2>. QED  BY <1>3, <1>4, <2>1, <2>2
            DEF TypeInv, TypeOK, DirectoryTypeOK, TransactionsTypeOK, RecordsTypeOK, WorkersTypeOK,
                RequestsTypeOK, JobsSound, LocksSound, directoryVars, recordVars, workerVars,
                requestVars
<1>8. CASE InsertOnce(s) \/ Look(s)
  <2>1. UNCHANGED vars
    BY <1>8 DEF InsertOnce, Look
  <2>. QED  BY <1>4, <2>1, TypeInvStep
<1>9. CASE Add(s)
  <2>1. /\ UNCHANGED <<account, tier, fullName, tx, payee, ledger, caseStatus, caseReason>>
        /\ decision' \in [Transactions -> Outcomes \cup {"NONE"}]
        /\ trail' \in [Transactions -> SUBSET TrailEvents]
        /\ approved' \in [Customers -> SUBSET Names]
    <3>1. UNCHANGED <<account, tier, fullName, tx, payee, ledger, caseStatus, caseReason>>
      BY <1>9 DEF Add
    <3>2. decision' = decision \/ decision' = [decision EXCEPT ![t] = Demo[t].outcome]
      BY <1>9 DEF Add, Record, t
    <3>3. \/ trail' = trail
          \/ \E e \in TrailEvents : trail' = [trail EXCEPT ![t] = @ \cup {e}]
      BY <1>9 DEF Add, LogEvent, TrailEvents, t
    <3>4. \/ approved' = approved
          \/ approved' = [approved EXCEPT ![Owner(t)] = @ \cup Demo[t].earlier]
      BY <1>9 DEF Add, t
    <3>. USE DEF TypeInv, TypeOK
    <3>5. decision' \in [Transactions -> Outcomes \cup {"NONE"}]
      BY <1>1, <1>2, <1>4, <3>2 DEF RecordsTypeOK
    <3>6. trail' \in [Transactions -> SUBSET TrailEvents]
      BY <1>1, <1>4, <3>3 DEF TransactionsTypeOK
    <3>7. approved' \in [Customers -> SUBSET Names]
      BY <1>2, <1>4, <3>4 DEF DirectoryTypeOK
    <3>. QED  BY <3>1, <3>5, <3>6, <3>7
  <2>. QED  BY <1>3, <1>4, <2>1
            DEF TypeInv, TypeOK, DirectoryTypeOK, TransactionsTypeOK, RecordsTypeOK, WorkersTypeOK,
                RequestsTypeOK, JobsSound, LocksSound, workerVars, requestVars
<1>10. CASE CreditOrCase(s)
  <2>1. /\ UNCHANGED <<directoryVars, transactionVars, decision>>
        /\ caseStatus' \in [Transactions -> CaseStatuses]
        /\ caseReason' \in [Transactions -> Outcomes \cup {"NONE"}]
    BY <1>1, <1>2, <1>4, <1>10
       DEF CreditOrCase, OpenCase, CaseStatuses, TypeInv, TypeOK, RecordsTypeOK, t
  <2>2. ledger' \in Seq(Entries)
    BY <1>1, <1>2, <1>4, <1>10, AppendEntryType
       DEF CreditOrCase, TypeInv, TypeOK, RecordsTypeOK, t
  <2>. QED  BY <1>3, <1>4, <2>1, <2>2
            DEF TypeInv, TypeOK, DirectoryTypeOK, TransactionsTypeOK, RecordsTypeOK, WorkersTypeOK,
                RequestsTypeOK, JobsSound, LocksSound, directoryVars, transactionVars, workerVars,
                requestVars
<1>. QED  BY <1>5, <1>6, <1>7, <1>8, <1>9, <1>10 DEF SeedStep

LEMMA SeedOwnTypes ==
  ASSUME SeedTyped, SeedNext
  PROVE  SeedTypeOK' /\ DueSound'
<1>. USE DEF SeedTyped, SeedTypeOK
<1>1. PICK s \in Seeders : StartSeed(s) \/ SeedStep(s) \/ StopSeed(s)
  BY DEF SeedNext
<1>2. MaxRuns \in Nat
  BY SeedAssumption
<1>3. CASE StartSeed(s)
  <2>1. 1 \in Lines
    BY LastLine
  <2>2. line' \in [Seeders -> Lines \cup {0}] /\ due' = due /\ rows' = rows /\ runs' \in 0..MaxRuns
    BY <1>2, <1>3, <2>1 DEF StartSeed
  <2>3. DueSound'
    BY <1>3 DEF StartSeed, DueSound, Kind, Subject
  <2>. QED  BY <2>2, <2>3
<1>4. CASE StopSeed(s)
  <2>1. line' \in [Seeders -> Lines \cup {0}] /\ due' \in [Seeders -> BOOLEAN]
        /\ UNCHANGED <<rows, runs>>
    BY <1>4 DEF StopSeed
  <2>2. DueSound'
    BY <1>4 DEF StopSeed, DueSound, Kind, Subject
  <2>. QED  BY <2>1, <2>2
<1>5. CASE SeedStep(s)
  <2>. DEFINE t == Subject(s)
  <2>1. line[s] \in Lines /\ t \in Transactions
    BY <1>5, SeedStepMoves
  <2>2. line' \in [Seeders -> Lines \cup {0}] /\ \A r \in Seeders : r # s => line'[r] = line[r]
    BY <1>5, <2>1, SeedStepMoves, LineAdvances
  <2>3. due' \in [Seeders -> BOOLEAN] /\ runs' = runs /\ \A r \in Seeders : r # s => due'[r] = due[r]
    BY <1>5, SeedStepMoves
  <2>. HIDE DEF t
  <2>4. rows' \in [Transactions -> [Counted -> Nat]]
    <3>1. CASE InsertOnce(s)
      BY <2>1, <3>1 DEF InsertOnce, t
    <3>2. CASE Add(s)
      <4>1. rows' = rows \/ rows' = [rows EXCEPT ![t][Kind(s)] = @ + 1]
        BY <3>2 DEF Add, t
      <4>2. Kind(s) \in Counted
        BY <3>2 DEF Add, DueSound, Counted
      <4>. QED  BY <2>1, <4>1, <4>2
    <3>3. CASE ~InsertOnce(s) /\ ~Add(s)
      BY <1>5, <3>3 DEF SeedStep, UpsertCustomer, UpsertVirtualAccount, UpsertTransaction, Look,
                        CreditOrCase
    <3>. QED  BY <3>1, <3>2, <3>3
  <2>5. ASSUME NEW r \in Seeders, due'[r]
        PROVE  /\ line'[r] # 0 /\ Kind(r)' \in Looked
               /\ Kind(r)' = "renamed" => Demo[Subject(r)'].earlier # {}
    <3>1. CASE r # s
      BY <2>2, <2>3, <2>5, <3>1 DEF DueSound, Kind, Subject
    <3>2. CASE r = s
      <4>1. Look(s)
        BY <1>5, <2>5, <3>2 DEF SeedStep, UpsertCustomer, UpsertVirtualAccount, UpsertTransaction,
                           InsertOnce, Add, CreditOrCase, At
      <4>2. ~due[s] /\ line[s] # 0 /\ Kind(s) \in Looked
        BY <4>1 DEF Look, At
      <4>3. line' = line /\ (Kind(s) = "renamed" => Demo[Subject(s)].earlier # {})
        BY <2>5, <3>2, <4>1, <4>2 DEF Look
      <4>. QED  BY <3>2, <4>2, <4>3 DEF Kind, Subject
    <3>. QED  BY <3>1, <3>2
  <2>. QED  BY <2>2, <2>3, <2>4, <2>5 DEF DueSound
<1>. QED  BY <1>1, <1>3, <1>4, <1>5

-----------------------------------------------------------------------------
(* Administrators.                                                              *)

LEMMA AdministratorsReconcile == AdministratorsNext => [Next]_vars
  BY SeedAssumption DEF AdministratorsNext, Next, ReconciliationNext, DirectoryStep, DirectoryNext

\* Of the script's own state they only change whether there is a row about a name.
LEMMA AdministratorsWrite ==
  ASSUME SeedTypeOK, AdministratorsNext
  PROVE  /\ UNCHANGED <<line, due, runs>>
         /\ rows' \in [Transactions -> [Counted -> Nat]]
         /\ \A t \in Transactions, kind \in Counted :
              \/ rows'[t][kind] = rows[t][kind]
              \/ Sought(t, kind) # {} /\ rows[t][kind] = 0 /\ rows'[t][kind] = 1
<1>1. UNCHANGED <<line, due, runs>>
  BY DEF AdministratorsNext
<1>2. rows \in [Transactions -> [Counted -> Nat]]
  BY DEF SeedTypeOK
<1>3. CASE UNCHANGED rows
  BY <1>1, <1>2, <1>3
<1>4. ASSUME NEW c \in Customers, NEW name \in Names, FindName(c, name)
      PROVE  /\ rows' \in [Transactions -> [Counted -> Nat]]
             /\ \A t \in Transactions, kind \in Counted :
                  \/ rows'[t][kind] = rows[t][kind]
                  \/ Sought(t, kind) # {} /\ rows[t][kind] = 0 /\ rows'[t][kind] = 1
  <2>1. \A t \in Transactions, kind \in Counted : rows[t][kind] \in Nat
    BY <1>2
  <2>. QED  BY <1>4, <2>1 DEF FindName
<1>. QED  BY <1>1, <1>3, <1>4 DEF AdministratorsNext

LEMMA AdministratorsChange ==
  ASSUME TypeInv, AdministratorsNext
  PROVE  UNCHANGED <<payee, job, workerVars, decision, caseReason>>
<1>1. CASE \E r \in Requests :
             RequestStep(r) \/ AbortRequest(r)
             \/ \E t \in Transactions, a \in Resolutions : Resolve(r, t, a)
  BY <1>1 DEF RequestStep, AppendManual, SettleManual, CloseCase, AuditAction, LogOverride,
              EmitCaseUpdated, AbortRequest, Resolve, transactionVars, recordVars
<1>2. CASE UNCHANGED <<transactionVars, recordVars, workerVars, requestVars>>
  BY <1>2 DEF transactionVars, recordVars
<1>. QED  BY <1>1, <1>2 DEF AdministratorsNext

\* A step is one of a run, one of the administrators, or none.
LEMMA DemoSteps ==
  ASSUME [MCNext]_<<demoVars, finished, overlapped, touched, cut>>
  PROVE  \/ SeedNext /\ touched' = touched
         \/ AdministratorsNext /\ touched'
         \/ UNCHANGED <<vars, seedVars, touched>>
  BY DEF MCNext, demoVars

LEMMA SeedTypesStep ==
  SeedVarsTyped /\ [MCNext]_<<demoVars, finished, overlapped, touched, cut>> => SeedVarsTyped'
<1>. SUFFICES ASSUME SeedVarsTyped, [MCNext]_<<demoVars, finished, overlapped, touched, cut>>
              PROVE  SeedVarsTyped'
  OBVIOUS
<1>. SeedTyped /\ GhostsTypeOK
  BY DEF SeedVarsTyped
<1>1. GhostsTypeOK'
  <2>1. finished' \in BOOLEAN
    BY DEF GhostsTypeOK, MCNext
  <2>2. overlapped' \in BOOLEAN
    BY DEF GhostsTypeOK, MCNext
  <2>3. cut' \in BOOLEAN
    BY DEF GhostsTypeOK, MCNext
  <2>4. touched' \in BOOLEAN
    BY DEF GhostsTypeOK, MCNext
  <2>. QED  BY <2>1, <2>2, <2>3, <2>4 DEF GhostsTypeOK
<1>2. CASE SeedNext
  <2>1. PICK s \in Seeders : StartSeed(s) \/ SeedStep(s) \/ StopSeed(s)
    BY <1>2 DEF SeedNext
  <2>2. CASE SeedStep(s)
    BY <1>1, <1>2, <2>2, SeedStepTypes, SeedOwnTypes DEF SeedTyped, SeedVarsTyped
  <2>3. CASE StartSeed(s) \/ StopSeed(s)
    <3>1. UNCHANGED vars
      BY <2>3 DEF StartSeed, StopSeed
    <3>. QED  BY <1>1, <1>2, <3>1, TypeInvStep, SeedOwnTypes DEF SeedTyped, SeedVarsTyped
  <2>. QED  BY <1>1, <2>1, <2>2, <2>3 DEF SeedVarsTyped
<1>3. CASE ~SeedNext
  <2>1. [Next]_vars
    BY <1>3, DemoSteps, AdministratorsReconcile
  <2>2. TypeInv'
    BY <2>1, TypeInvStep DEF SeedTyped
  <2>3. UNCHANGED <<line, due, runs>> /\ rows' \in [Transactions -> [Counted -> Nat]]
    BY <1>3, DemoSteps, AdministratorsWrite DEF SeedTyped, SeedTypeOK, seedVars
  <2>4. SeedTypeOK' /\ DueSound'
    BY <2>3 DEF SeedTyped, SeedTypeOK, DueSound, Kind, Subject
  <2>. QED  BY <1>1, <2>2, <2>4 DEF SeedVarsTyped, SeedTyped
<1>. QED  BY <1>1, <1>2, <1>3 DEF SeedVarsTyped, SeedTyped

-----------------------------------------------------------------------------
(* What stays.                                                                  *)

\* A run adds rows, and never changes those that others rely on.
LEMMA SeedStepKeeps ==
  ASSUME SeedTyped, RowsSound, NEW s \in Seeders, SeedStep(s)
  PROVE  /\ \A i \in DOMAIN ledger : i \in DOMAIN ledger' /\ ledger'[i] = ledger[i]
         /\ \A t \in Transactions :
              /\ caseStatus[t] # "NONE"
                   => caseStatus'[t] = caseStatus[t] /\ caseReason'[t] = caseReason[t]
              /\ trail[t] \subseteq trail'[t]
              /\ \A k \in Counted : rows[t][k] <= rows'[t][k]
<1>. DEFINE t == Subject(s)
<1>1. t \in Transactions /\ Owner(t) \in Customers
  BY SeedStepMoves, DemoTyped
<1>. HIDE DEF t
<1>2. /\ ledger \in Seq(Entries) /\ trail \in [Transactions -> SUBSET TrailEvents]
      /\ caseStatus \in [Transactions -> CaseStatuses]
      /\ caseReason \in [Transactions -> Outcomes \cup {"NONE"}]
      /\ rows \in [Transactions -> [Counted -> Nat]]
  BY DEF SeedTyped, SeedTypeOK, TypeInv, TypeOK, TransactionsTypeOK, RecordsTypeOK
<1>3. \A u \in Transactions, k \in Counted : rows[u][k] \in Nat
  BY <1>2
<1>4. CASE UpsertCustomer(s) \/ UpsertVirtualAccount(s) \/ UpsertTransaction(s)
  BY <1>2, <1>3, <1>4
     DEF UpsertCustomer, UpsertVirtualAccount, UpsertTransaction, transactionVars, recordVars
<1>5. CASE Look(s)
  BY <1>2, <1>3, <1>5 DEF Look, vars, transactionVars, recordVars
<1>6. CASE InsertOnce(s)
  <2>1. UNCHANGED <<ledger, caseStatus, caseReason, trail>>
    BY <1>6 DEF InsertOnce, vars, transactionVars, recordVars
  <2>2. rows' = [rows EXCEPT ![t][Kind(s)] = 1] /\ Kind(s) \in Guarded
    BY <1>6 DEF InsertOnce, At, t
  <2>3. \A u \in Transactions, k \in Guarded : rows[u][k] <= 1
    BY DEF RowsSound
  <2>4. \A u \in Transactions, k \in Counted : rows[u][k] <= rows'[u][k]
    BY <1>1, <1>2, <1>3, <2>2, <2>3
  <2>. QED  BY <1>2, <2>1, <2>4
<1>7. CASE Add(s)
  <2>1. UNCHANGED <<ledger, caseStatus, caseReason>>
    BY <1>7 DEF Add
  <2>2. trail' = trail \/ \E e \in TrailEvents : trail' = [trail EXCEPT ![t] = @ \cup {e}]
    BY <1>7 DEF Add, LogEvent, TrailEvents, t
  <2>3. rows' = rows \/ \E k \in Counted : rows' = [rows EXCEPT ![t][k] = @ + 1]
    BY <1>7 DEF Add, SeedTyped, DueSound, Counted, t
  <2>4. ASSUME NEW u \in Transactions, NEW k \in Counted
        PROVE  rows[u][k] <= rows'[u][k]
    <3>1. rows'[u][k] = rows[u][k] \/ rows'[u][k] = rows[u][k] + 1
      <4>1. CASE rows' = rows
        BY <4>1
      <4>2. CASE \E j \in Counted : rows' = [rows EXCEPT ![t][j] = @ + 1]
        <5>1. PICK j \in Counted : rows' = [rows EXCEPT ![t][j] = @ + 1]
          BY <4>2
        <5>. QED  BY <1>1, <1>2, <2>4, <5>1
      <4>. QED  BY <2>3, <4>1, <4>2
    <3>. QED  BY <1>3, <2>4, <3>1
  <2>5. \A u \in Transactions : trail[u] \subseteq trail'[u]
    BY <1>1, <1>2, <2>2
  <2>. QED  BY <1>2, <2>1, <2>4, <2>5
<1>8. CASE CreditOrCase(s)
  <2>1. UNCHANGED <<trail, rows>>
    BY <1>8 DEF CreditOrCase, transactionVars
  <2>2. \A i \in DOMAIN ledger : i \in DOMAIN ledger' /\ ledger'[i] = ledger[i]
    <3>1. CASE AppendEntry("demo", t, Owner(t))
      BY <1>1, <1>2, <3>1, AppendEntryEffect
    <3>2. CASE UNCHANGED ledger
      BY <3>2
    <3>. QED  BY <1>8, <3>1, <3>2 DEF CreditOrCase, t
  <2>3. \A u \in Transactions : caseStatus[u] # "NONE"
          => caseStatus'[u] = caseStatus[u] /\ caseReason'[u] = caseReason[u]
    BY <1>1, <1>2, <1>8 DEF CreditOrCase, OpenCase, t
  <2>. QED  BY <1>3, <2>1, <2>2, <2>3
<1>. QED  BY <1>4, <1>5, <1>6, <1>7, <1>8 DEF SeedStep

\* In every step of the demonstration rows are added and none is taken away.
LEMMA DemoKeeps ==
  ASSUME SeedVarsTyped, RowsSound, [MCNext]_<<demoVars, finished, overlapped, touched, cut>>
  PROVE  /\ \A t \in Transactions : \A kind : Credited(t, kind) => Credited(t, kind)'
         /\ \A t \in Transactions :
              /\ caseStatus[t] # "NONE" => caseStatus'[t] # "NONE"
              /\ trail[t] \subseteq trail'[t]
              /\ audited[t] \subseteq audited'[t]
              /\ \A k \in Counted : rows[t][k] <= rows'[t][k]
<1>1. SeedTyped /\ \A u \in Transactions, k \in Counted : rows[u][k] \in Nat
  BY DEF SeedVarsTyped, SeedTyped, SeedTypeOK
<1>2. CASE \E s \in Seeders : SeedStep(s)
  <2>1. PICK s \in Seeders : SeedStep(s)
    BY <1>2
  <2>2. UNCHANGED audited
    BY <1>1, <2>1, SeedStepMoves
  <2>. QED  BY <1>1, <2>1, <2>2, SeedStepKeeps DEF Credited, Reference
<1>3. CASE SeedNext /\ ~\E s \in Seeders : SeedStep(s)
  <2>1. UNCHANGED <<vars, rows>>
    BY <1>3 DEF SeedNext, StartSeed, StopSeed
  <2>. QED  BY <1>1, <2>1 DEF vars, recordVars, transactionVars, Credited, Reference
<1>4. CASE ~SeedNext
  <2>1. [Next]_vars
    BY <1>4, DemoSteps, AdministratorsReconcile
  <2>2. Grows /\ \A i \in DOMAIN ledger : i \in DOMAIN ledger' /\ ledger'[i] = ledger[i]
    BY <1>1, <2>1, GrowsStep, LedgerGrows DEF SeedTyped
  <2>3. \A t \in Transactions, k \in Counted : rows[t][k] <= rows'[t][k]
    <3>1. CASE AdministratorsNext
      BY <1>1, <3>1, AdministratorsWrite DEF SeedTyped
    <3>2. CASE UNCHANGED rows
      BY <1>1, <3>2
    <3>. QED  BY <1>4, <3>1, <3>2, DemoSteps DEF seedVars
  <2>. QED  BY <1>1, <2>1, <2>2, <2>3 DEF Grows, Credited, Reference
<1>. QED  BY <1>2, <1>3, <1>4

\* Administrators open no case, and one that is there they leave with a status.
LEMMA AdministratorsOpenNothing ==
  ASSUME TypeInv, RequestsSound, AdministratorsNext, NEW t \in Transactions
  PROVE  caseStatus'[t] # "NONE" => caseStatus[t] # "NONE"
<1>1. [Next]_vars
  BY AdministratorsReconcile
<1>2. \A w \in Workers : ~InsertCase(w)
  BY AdministratorsChange DEF InsertCase, Go, workerVars, TypeInv, TypeOK, WorkersTypeOK
<1>3. \A r \in Requests : CloseCase(r) /\ rtx[r] = t => caseStatus[t] # "NONE"
  BY DEF CloseCase, RGo, RequestsSound
<1>. QED  BY <1>1, <1>2, <1>3, CaseChanges

-----------------------------------------------------------------------------
(* Each part of the invariant.                                                  *)

LEMMA DemoRequests ==
  ASSUME SeedVarsTyped, RowsSound, RequestsSound,
         [MCNext]_<<demoVars, finished, overlapped, touched, cut>>
  PROVE  RequestsSound'
<1>. TypeInv /\ SeedTyped
  BY DEF SeedVarsTyped, SeedTyped
<1>1. CASE SeedNext
  <2>1. UNCHANGED requestVars
    BY <1>1, SeedStepMoves DEF SeedNext, StartSeed, StopSeed, vars, requestVars
  <2>. QED  BY <2>1, DemoKeeps DEF RequestsSound, requestVars, TypeInv, TypeOK, RequestsTypeOK
<1>2. CASE ~SeedNext
  <2>1. [Next]_vars
    BY <1>2, DemoSteps, AdministratorsReconcile
  <2>. QED  BY <2>1, RequestsHaveCases DEF RequestsSound
<1>. QED  BY <1>1, <1>2

\* What the insert of a missing row does.
LEMMA AddedRow ==
  ASSUME SeedTyped, NEW s \in Seeders, Add(s), NEW t \in Transactions, t = Subject(s)
  PROVE  /\ Kind(s) \in Looked /\ rows'[t][Kind(s)] > 0
         /\ \A u \in Transactions, k \in Counted :
              \/ rows'[u][k] = rows[u][k]
              \/ u = t /\ k = Kind(s) /\ rows'[u][k] = rows[u][k] + 1
         /\ \/ UNCHANGED decision /\ (Kind(s) = "decision" => rows[t]["decision"] > 0)
            \/ /\ decision' = [decision EXCEPT ![t] = Demo[t].outcome]
               /\ Kind(s) = "decision" /\ rows[t]["decision"] = 0
         /\ Kind(s) = "event" => trail'[t] # {}
<1>1. /\ rows \in [Transactions -> [Counted -> Nat]] /\ trail \in [Transactions -> SUBSET TrailEvents]
  BY DEF SeedTyped, SeedTypeOK, TypeInv, TypeOK, TransactionsTypeOK
<1>2. Kind(s) \in Looked /\ Kind(s) \in Counted /\ "decision" \in Counted
  BY DEF Add, SeedTyped, DueSound, Counted, Looked
<1>. DEFINE k == Kind(s)
<1>3. CASE k = "decision" /\ rows[t]["decision"] > 0
  <2>1. UNCHANGED <<rows, decision>>
    BY <1>3 DEF Add
  <2>. QED  BY <1>2, <1>3, <2>1
<1>4. CASE ~(k = "decision" /\ rows[t]["decision"] > 0)
  <2>1. rows' = [rows EXCEPT ![t][k] = @ + 1]
    BY <1>4 DEF Add
  <2>2. rows[t]["decision"] \in Nat /\ rows[t][k] \in Nat
    BY <1>1, <1>2
  <2>3. UNCHANGED decision \/ (k = "decision" /\ decision' = [decision EXCEPT ![t] = Demo[t].outcome])
    BY <1>4 DEF Add, Record
  <2>4. k = "event" => trail'[t] # {}
    <3>1. k = "event" => \E e \in TrailEvents : trail' = [trail EXCEPT ![t] = @ \cup {e}]
      BY <1>4 DEF Add, LogEvent, TrailEvents
    <3>. QED  BY <1>1, <3>1
  <2>5. k # "decision" => UNCHANGED decision
    BY <1>4 DEF Add
  <2>6. k = "decision" => decision' = [decision EXCEPT ![t] = Demo[t].outcome]
    BY <1>4 DEF Add, Record
  <2>. HIDE DEF k
  <2>7. /\ rows'[t][k] > 0
        /\ \A u \in Transactions, j \in Counted :
             \/ rows'[u][j] = rows[u][j]
             \/ u = t /\ j = k /\ rows'[u][j] = rows[u][j] + 1
    <3>1. k \in Counted
      BY <1>2 DEF k
    <3>2. rows'[t][k] = rows[t][k] + 1
      BY <1>1, <2>1, <3>1
    <3>3. \A u \in Transactions, j \in Counted :
            rows'[u][j] = IF u = t /\ j = k THEN rows[u][j] + 1 ELSE rows[u][j]
      BY <1>1, <2>1, <3>1
    <3>. QED  BY <2>2, <3>2, <3>3
  <2>8. \/ UNCHANGED decision /\ (k = "decision" => rows[t]["decision"] > 0)
        \/ /\ decision' = [decision EXCEPT ![t] = Demo[t].outcome]
           /\ k = "decision" /\ rows[t]["decision"] = 0
    BY <1>4, <2>2, <2>5, <2>6
  <2>. QED  BY <1>2, <2>4, <2>7, <2>8 DEF k
<1>. QED  BY <1>3, <1>4

LEMMA DemoRows ==
  ASSUME SeedVarsTyped, RowsSound, RequestsSound,
         [MCNext]_<<demoVars, finished, overlapped, touched, cut>>
  PROVE  RowsSound'
<1>. TypeInv /\ SeedTyped
  BY DEF SeedVarsTyped, SeedTyped
<1>. /\ rows \in [Transactions -> [Counted -> Nat]]
     /\ decision \in [Transactions -> Outcomes \cup {"NONE"}]
     /\ caseStatus \in [Transactions -> CaseStatuses]
     /\ caseReason \in [Transactions -> Outcomes \cup {"NONE"}]
  BY DEF SeedTyped, SeedTypeOK, TypeInv, TypeOK, RecordsTypeOK
<1>0. ~touched' => ~touched
  BY DEF MCNext, SeedVarsTyped, GhostsTypeOK
<1>1. ASSUME NEW s \in Seeders, SeedStep(s)
      PROVE  RowsSound'
  <2>1. PICK t \in Transactions : t = Subject(s)
    BY <1>1, SeedStepMoves
  <2>2. CASE UpsertCustomer(s) \/ UpsertVirtualAccount(s) \/ UpsertTransaction(s) \/ Look(s)
    BY <1>0, <2>2 DEF UpsertCustomer, UpsertVirtualAccount, UpsertTransaction, Look, RowsSound, vars,
                      directoryVars, transactionVars, recordVars
  <2>3. CASE InsertOnce(s)
    <3>1. UNCHANGED <<decision, trail, caseStatus, caseReason, approved>>
      BY <2>3 DEF InsertOnce, vars, directoryVars, transactionVars, recordVars
    <3>2. PICK k \in Guarded : rows' = [rows EXCEPT ![t][k] = 1]
      BY <2>1, <2>3 DEF InsertOnce, At
    <3>3. k \in Counted /\ k # "decision" /\ k # "event" /\ k # "renamed"
      BY DEF Counted, Guarded
    <3>4. /\ \A u \in Transactions : rows'[u]["decision"] = rows[u]["decision"]
                                  /\ rows'[u]["event"] = rows[u]["event"]
                                  /\ rows'[u]["renamed"] = rows[u]["renamed"]
          /\ \A u \in Transactions, j \in Guarded :
               rows'[u][j] = rows[u][j] \/ rows'[u][j] = 1
      BY <3>2, <3>3 DEF Counted, Looked
    <3>5. \A u \in Transactions, j \in Guarded : rows'[u][j] <= 1
      BY <3>4 DEF RowsSound
    <3>6. \A u \in Transactions :
            /\ decision'[u] # "NONE" => rows'[u]["decision"] > 0
            /\ rows'[u]["decision"] > 0 => decision'[u] = Demo[u].outcome
            /\ rows'[u]["event"] > 0 => trail'[u] # {}
            /\ caseStatus'[u] # "NONE" => caseReason'[u] = Demo[u].outcome
            /\ ~touched' /\ rows'[u]["renamed"] > 0 => Demo[u].earlier \subseteq approved'[Owner(u)]
      BY <1>0, <3>1, <3>4 DEF RowsSound
    <3>. QED  BY <3>5, <3>6 DEF RowsSound
  <2>4. CASE Add(s)
    <3>1. /\ Kind(s) \in Looked /\ Kind(s) \notin Guarded
          /\ \A u \in Transactions, k \in Counted :
               \/ rows'[u][k] = rows[u][k]
               \/ u = t /\ k = Kind(s) /\ rows'[u][k] = rows[u][k] + 1
          /\ \/ UNCHANGED decision /\ (Kind(s) = "decision" => rows[t]["decision"] > 0)
             \/ /\ decision' = [decision EXCEPT ![t] = Demo[t].outcome]
                /\ Kind(s) = "decision" /\ rows'[t]["decision"] > 0
          /\ Kind(s) = "event" => trail'[t] # {}
      BY <2>1, <2>4, AddedRow DEF Looked, Guarded
    <3>2. UNCHANGED <<caseStatus, caseReason>>
      BY <2>4 DEF Add
    <3>3. \A u \in Transactions : trail[u] \subseteq trail'[u]
      BY <1>1, SeedStepKeeps
    <3>4. Guarded \subseteq Counted /\ "decision" \in Counted /\ "event" \in Counted
      BY DEF Counted, Looked
    <3>5. \A u \in Transactions, k \in Guarded : rows'[u][k] <= 1
      BY <3>1, <3>4 DEF RowsSound
    <3>6. \A u \in Transactions : rows'[u]["event"] > 0 => trail'[u] # {}
      BY <3>1, <3>3, <3>4 DEF RowsSound
    <3>7. \A u \in Transactions :
            /\ decision'[u] # "NONE" => rows'[u]["decision"] > 0
            /\ rows'[u]["decision"] > 0 => decision'[u] = Demo[u].outcome
      <4>1. CASE UNCHANGED decision /\ (Kind(s) = "decision" => rows[t]["decision"] > 0)
        <5>1. \A u \in Transactions : rows'[u]["decision"] > 0 <=> rows[u]["decision"] > 0
          BY <3>1, <3>4, <4>1
        <5>. QED  BY <4>1, <5>1 DEF RowsSound
      <4>2. CASE /\ decision' = [decision EXCEPT ![t] = Demo[t].outcome]
                 /\ Kind(s) = "decision" /\ rows'[t]["decision"] > 0
        BY <3>1, <3>4, <4>2 DEF RowsSound
      <4>. QED  BY <3>1, <4>1, <4>2
    <3>8. \A u \in Transactions :
            ~touched' /\ rows'[u]["renamed"] > 0 => Demo[u].earlier \subseteq approved'[Owner(u)]
      <4>1. \A u \in Transactions : Owner(u) \in Customers
        BY DemoTyped
      <4>2. approved' = IF Kind(s) = "renamed"
                        THEN [approved EXCEPT ![Owner(t)] = @ \cup Demo[t].earlier] ELSE approved
        BY <2>1, <2>4 DEF Add
      <4>3. \A u \in Transactions :
              /\ approved[Owner(u)] \subseteq approved'[Owner(u)]
              /\ u = t /\ Kind(s) = "renamed" => Demo[u].earlier \subseteq approved'[Owner(u)]
        BY <4>1, <4>2 DEF TypeInv, TypeOK, DirectoryTypeOK
      <4>4. \A u \in Transactions : rows'[u]["renamed"] = rows[u]["renamed"] \/ (u = t /\ Kind(s) = "renamed")
        BY <3>1 DEF Counted, Looked
      <4>5. \A u \in Transactions :
              ~touched /\ rows[u]["renamed"] > 0 => Demo[u].earlier \subseteq approved[Owner(u)]
        BY DEF RowsSound
      <4>6. ASSUME NEW u \in Transactions, ~touched', rows'[u]["renamed"] > 0
            PROVE  Demo[u].earlier \subseteq approved'[Owner(u)]
        <5>1. CASE u = t /\ Kind(s) = "renamed"
          BY <4>3, <5>1
        <5>2. CASE rows'[u]["renamed"] = rows[u]["renamed"]
          <6>1. Demo[u].earlier \subseteq approved[Owner(u)]
            BY <1>0, <4>5, <4>6, <5>2
          <6>. QED  BY <4>3, <6>1
        <5>. QED  BY <4>4, <5>1, <5>2
      <4>. QED  BY <4>6
    <3>. QED  BY <3>2, <3>5, <3>6, <3>7, <3>8 DEF RowsSound
  <2>5. CASE CreditOrCase(s)
    BY <1>0, <2>1, <2>5 DEF CreditOrCase, OpenCase, RowsSound, directoryVars, transactionVars
  <2>. QED  BY <1>1, <2>2, <2>3, <2>4, <2>5 DEF SeedStep
<1>2. ASSUME NEW s \in Seeders, StartSeed(s) \/ StopSeed(s)
      PROVE  RowsSound'
  BY <1>0, <1>2 DEF StartSeed, StopSeed, RowsSound, vars, directoryVars, transactionVars, recordVars
<1>3. CASE AdministratorsNext /\ touched'
  <2>1. UNCHANGED <<decision, caseReason>>
    BY <1>3, AdministratorsChange
  <2>0. \A t \in Transactions : \A k \in {"decision", "event"} \cup Guarded : rows'[t][k] = rows[t][k]
    BY <1>3, AdministratorsWrite DEF SeedTyped, Counted, Looked, Guarded, Sought
  <2>2. \A t \in Transactions : trail[t] \subseteq trail'[t]
    BY DemoKeeps
  <2>3. \A t \in Transactions : caseStatus'[t] # "NONE" => caseStatus[t] # "NONE"
    BY <1>3, AdministratorsOpenNothing
  <2>4. \A t \in Transactions :
          /\ rows'[t]["decision"] = rows[t]["decision"]
          /\ rows'[t]["event"] = rows[t]["event"]
          /\ \A k \in Guarded : rows'[t][k] = rows[t][k]
    BY <2>0
  <2>. QED  BY <1>3, <2>1, <2>2, <2>3, <2>4 DEF RowsSound
<1>4. CASE UNCHANGED <<vars, seedVars, touched>>
  BY <1>4 DEF RowsSound, vars, seedVars, directoryVars, transactionVars, recordVars
<1>. QED  BY <1>1, <1>2, <1>3, <1>4, DemoSteps DEF SeedNext

LEMMA DemoAlone ==
  ASSUME SeedVarsTyped, RowsSound, AloneSound,
         [MCNext]_<<demoVars, finished, overlapped, touched, cut>>
  PROVE  AloneSound'
<1>. DEFINE Missing(s) == rows[Subject(s)][Kind(s)] = 0 \/ Shared(Subject(s), Kind(s))
            Single == \A t \in Transactions, kind \in Counted : rows[t][kind] <= 1 \/ Shared(t, kind)
<1>. SUFFICES ASSUME ~overlapped'
              PROVE  /\ \A r, s \in Seeders : line'[r] # 0 /\ line'[s] # 0 => r = s
                     /\ \A s \in Seeders : due'[s] => Missing(s)'
                     /\ Single'
  BY DEF AloneSound
<1>. SeedTyped
  BY DEF SeedVarsTyped
<1>. /\ rows \in [Transactions -> [Counted -> Nat]] /\ Guarded \subseteq Counted
     /\ line \in [Seeders -> Lines \cup {0}] /\ due \in [Seeders -> BOOLEAN]
  BY DEF SeedTyped, SeedTypeOK, Counted
<1>1. ~overlapped /\ (touched => touched')
  BY DEF MCNext, SeedVarsTyped, GhostsTypeOK
<1>2. \A r, s \in Seeders : line'[r] # 0 /\ line'[s] # 0 => r = s
  BY <1>1 DEF MCNext, demoVars, seedVars, AloneSound
<1>3. ASSUME NEW s \in Seeders, SeedStep(s)
      PROVE  (\A r \in Seeders : due'[r] => Missing(r)') /\ Single'
  <2>1. PICK t \in Transactions : t = Subject(s) /\ line[s] \in Lines
    BY <1>3, SeedStepMoves
  <2>2. ASSUME NEW r \in Seeders, due'[r]
        PROVE  r = s /\ Look(s) /\ UNCHANGED line /\ due'[s]
    <3>1. CASE r # s
      <4>1. due[r] /\ line[r] # 0 /\ line[s] # 0
        BY <1>3, <2>1, <2>2, <3>1, SeedStepMoves, TwelveStatements DEF SeedTyped, DueSound
      <4>. QED  BY <1>1, <3>1, <4>1 DEF AloneSound
    <3>2. CASE r = s
      <4>1. Look(s)
        BY <1>3, <2>2, <3>2 DEF SeedStep, UpsertCustomer, UpsertVirtualAccount, UpsertTransaction,
                           InsertOnce, Add, CreditOrCase, At
      <4>. QED  BY <2>2, <3>2, <4>1 DEF Look, At
    <3>. QED  BY <3>1, <3>2
  <2>3. ASSUME NEW r \in Seeders, due'[r]
        PROVE  Missing(r)'
    <3>1. r = s /\ Look(s) /\ line' = line /\ due'[s]
      BY <2>2, <2>3
    <3>2. ~due[s] /\ rows' = rows /\ Kind(s) \in Looked
      BY <3>1 DEF Look, At
    <3>3. ~(rows[t][Kind(s)] > 0)
      BY <2>1, <3>1, <3>2 DEF Look
    <3>4. rows[t][Kind(s)] \in Nat
      BY <2>1, <3>2 DEF Counted
    <3>. QED  BY <2>1, <3>1, <3>2, <3>3, <3>4 DEF Subject, Kind
  <2>4. Single'
    <3>1. /\ \A u \in Transactions, kind \in Counted :
                 rows[u][kind] \in Nat /\ (rows[u][kind] <= 1 \/ Shared(u, kind))
          /\ \A u, kind : Shared(u, kind) => Shared(u, kind)'
      BY <1>1 DEF AloneSound, Shared
    <3>2. CASE InsertOnce(s)
      <4>1. PICK k \in Guarded : rows' = [rows EXCEPT ![t][k] = 1]
        BY <2>1, <3>2 DEF InsertOnce, At
      <4>2. \A u \in Transactions, kind \in Counted : rows'[u][kind] = rows[u][kind] \/ rows'[u][kind] = 1
        BY <4>1
      <4>. QED  BY <3>1, <4>2
    <3>3. CASE Add(s)
      <4>1. due[s]
        BY <3>3 DEF Add
      <4>2. rows[t][Kind(s)] = 0 \/ Shared(t, Kind(s))
        BY <1>1, <2>1, <4>1 DEF AloneSound
      <4>3. \A u \in Transactions, kind \in Counted :
              \/ rows'[u][kind] = rows[u][kind]
              \/ u = t /\ kind = Kind(s) /\ rows'[u][kind] = rows[u][kind] + 1
        BY <2>1, <3>3, AddedRow
      <4>. QED  BY <3>1, <4>2, <4>3
    <3>4. CASE ~InsertOnce(s) /\ ~Add(s)
      <4>1. rows' = rows
        BY <1>3, <3>4 DEF SeedStep, UpsertCustomer, UpsertVirtualAccount, UpsertTransaction,
                          Look, CreditOrCase
      <4>. QED  BY <3>1, <4>1
    <3>. QED  BY <3>2, <3>3, <3>4
  <2>. QED  BY <2>3, <2>4
<1>4. ASSUME NEW s \in Seeders, StartSeed(s) \/ StopSeed(s)
      PROVE  (\A r \in Seeders : due'[r] => Missing(r)') /\ Single'
  <2>1. rows' = rows /\ \A r \in Seeders : due'[r] => due[r] /\ line'[r] = line[r]
    BY <1>4 DEF StartSeed, StopSeed, SeedTyped, DueSound
  <2>2. \A u, kind : Shared(u, kind) => Shared(u, kind)'
    BY <1>1 DEF Shared
  <2>. QED  BY <1>1, <2>1, <2>2 DEF AloneSound, Subject, Kind, Shared
<1>5. CASE UNCHANGED seedVars
  BY <1>1, <1>5 DEF AloneSound, Subject, Kind, Shared, seedVars
<1>6. CASE AdministratorsNext /\ touched'
  <2>1. /\ UNCHANGED <<line, due>>
        /\ \A t \in Transactions, kind \in Counted :
             rows'[t][kind] = rows[t][kind] \/ Sought(t, kind) # {}
    BY <1>6, AdministratorsWrite DEF SeedTyped
  <2>2. Single'
    BY <1>1, <1>6, <2>1 DEF AloneSound, Shared
  <2>3. ASSUME NEW s \in Seeders, due'[s]
        PROVE  Missing(s)'
    <3>1. Subject(s) \in Transactions /\ Kind(s) \in Counted
      BY <2>1, <2>3, LinesTyped DEF SeedTyped, DueSound, Subject, Counted
    <3>2. rows[Subject(s)][Kind(s)] = 0 \/ Shared(Subject(s), Kind(s))
      BY <1>1, <2>1, <2>3 DEF AloneSound
    <3>3. Subject(s)' = Subject(s) /\ Kind(s)' = Kind(s)
      BY <2>1 DEF Subject, Kind
    <3>4. CASE Sought(Subject(s), Kind(s)) # {}
      BY <1>6, <3>3, <3>4 DEF Shared
    <3>5. CASE Sought(Subject(s), Kind(s)) = {}
      <4>1. rows'[Subject(s)][Kind(s)] = 0
        BY <2>1, <3>1, <3>2, <3>5 DEF Shared
      <4>. QED  BY <3>3, <4>1
    <3>. QED  BY <3>4, <3>5
  <2>. QED  BY <1>2, <2>2, <2>3
<1>. QED  BY <1>2, <1>3, <1>4, <1>5, <1>6, DemoSteps DEF SeedNext

\* What has come of a statement stays, as far as administrators let it.
LEMMA DoneStays ==
  ASSUME SeedVarsTyped, RowsSound, [MCNext]_<<demoVars, finished, overlapped, touched, cut>>,
         NEW t \in Transactions, NEW kind, Done(t, kind)
  PROVE  Done(t, kind)'
<1>. SeedTyped /\ TypeInv
  BY DEF SeedVarsTyped, SeedTyped
<1>. /\ tier \in [Customers -> Tiers] /\ fullName \in [Customers -> Names]
     /\ account \in [Accounts -> AccountStatuses \cup {NoStatus}]
     /\ tx \in [Transactions -> TxStatuses]
     /\ payee \in [Transactions -> Customers \cup {NoCustomer}]
     /\ rows \in [Transactions -> [Counted -> Nat]]
  BY DEF SeedTyped, SeedTypeOK, TypeInv, TypeOK, DirectoryTypeOK, TransactionsTypeOK
<1>1. kind = "outcome" => (IF Demo[t].credit THEN Credited(t, "demo") ELSE caseStatus[t] # "NONE")'
  BY DemoKeeps DEF Done
<1>2. kind \in Counted => rows'[t][kind] > 0 \/ (kind = "renamed" /\ Demo[t].earlier = {})
  <2>1. SUFFICES ASSUME kind \in Counted, rows[t][kind] > 0
                 PROVE  rows'[t][kind] > 0
    BY DEF Done
  <2>2. rows[t][kind] <= rows'[t][kind] /\ rows[t][kind] \in Nat /\ rows'[t][kind] \in Nat
    BY <2>1, DemoKeeps, SeedTypesStep DEF SeedVarsTyped, SeedTyped, SeedTypeOK
  <2>. QED  BY <2>1, <2>2
<1>3. /\ kind = "customer" /\ ~touched'
           => tier'[Owner(t)] = Demo[t].tier /\ fullName'[Owner(t)] = Demo[t].name
      /\ kind = "account" /\ ~touched' => account'[Recipient[t]] = Demo[t].account
      /\ kind = "transaction"
           => payee'[t] = Owner(t) /\ (~touched' => tx'[t] = Demo[t].status)
  <2>1. CASE \E s \in Seeders : SeedStep(s) /\ UNCHANGED touched
    <3>1. PICK s \in Seeders : SeedStep(s) /\ UNCHANGED touched
      BY <2>1
    <3>2. PICK u \in Transactions : u = Subject(s)
      BY <3>1, SeedStepMoves
    <3>3. Recipient[u] = Recipient[t] => u = t
      BY SeedAssumption
    <3>4. Owner(u) = Owner(t) => u = t
      BY SeedAssumption DEF Owner
    <3>5. Owner(u) \in Customers /\ Owner(t) \in Customers /\ Recipient[u] \in Accounts
          /\ Recipient[t] \in Accounts
      BY DemoTyped
    <3>6. CASE UpsertCustomer(s)
      BY <3>1, <3>2, <3>4, <3>5, <3>6 DEF UpsertCustomer, Done, transactionVars
    <3>7. CASE UpsertVirtualAccount(s)
      BY <3>1, <3>2, <3>3, <3>5, <3>7 DEF UpsertVirtualAccount, Done, transactionVars
    <3>8. CASE UpsertTransaction(s)
      BY <3>1, <3>2, <3>8 DEF UpsertTransaction, SetTx, Done, directoryVars
    <3>9. CASE InsertOnce(s) \/ Look(s)
      BY <3>1, <3>9 DEF InsertOnce, Look, Done, vars, directoryVars, transactionVars
    <3>10. CASE Add(s)
      BY <3>1, <3>10 DEF Add, Done
    <3>11. CASE CreditOrCase(s)
      BY <3>1, <3>11 DEF CreditOrCase, Done, directoryVars, transactionVars
    <3>. QED  BY <3>1, <3>6, <3>7, <3>8, <3>9, <3>10, <3>11 DEF SeedStep
  <2>2. CASE AdministratorsNext /\ touched'
    BY <2>2, AdministratorsChange DEF Done
  <2>3. CASE UNCHANGED vars /\ touched' = touched
    BY <2>3 DEF Done, vars, directoryVars, transactionVars
  <2>4. \A s \in Seeders : StartSeed(s) \/ StopSeed(s) => UNCHANGED vars
    BY DEF StartSeed, StopSeed
  <2>. QED  BY <2>1, <2>2, <2>3, <2>4, DemoSteps DEF SeedNext
<1>. QED  BY <1>1, <1>2, <1>3 DEF Done

\* A run that goes on to the next line has done its statement.
LEMMA Executed ==
  ASSUME SeedVarsTyped, NEW s \in Seeders, SeedStep(s), line'[s] # line[s],
         NEW t \in Transactions, t = Subject(s), NEW k, k = Kind(s)
  PROVE  Done(t, k)'
<1>. SeedTyped /\ TypeInv
  BY DEF SeedVarsTyped, SeedTyped
<1>. /\ tier \in [Customers -> Tiers] /\ fullName \in [Customers -> Names]
     /\ account \in [Accounts -> AccountStatuses \cup {NoStatus}]
     /\ tx \in [Transactions -> TxStatuses]
     /\ payee \in [Transactions -> Customers \cup {NoCustomer}]
     /\ rows \in [Transactions -> [Counted -> Nat]]
     /\ caseStatus \in [Transactions -> CaseStatuses] /\ ledger \in Seq(Entries)
  BY DEF SeedTyped, SeedTypeOK, TypeInv, TypeOK, DirectoryTypeOK, TransactionsTypeOK, RecordsTypeOK
<1>1. Owner(t) \in Customers /\ Recipient[t] \in Accounts
  BY DemoTyped
<1>3. CASE UpsertCustomer(s)
  BY <1>1, <1>3 DEF UpsertCustomer, At, Done, Counted, Looked, Guarded
<1>4. CASE UpsertVirtualAccount(s)
  BY <1>1, <1>4 DEF UpsertVirtualAccount, At, Done, Counted, Looked, Guarded
<1>5. CASE UpsertTransaction(s)
  BY <1>5 DEF UpsertTransaction, SetTx, At, Done, Counted, Looked, Guarded
<1>6. CASE InsertOnce(s)
  <2>1. k \in Guarded /\ rows' = [rows EXCEPT ![t][k] = 1]
    BY <1>6 DEF InsertOnce, At
  <2>2. rows'[t][k] = 1
    BY <2>1 DEF Counted
  <2>. QED  BY <2>1, <2>2 DEF Done, Guarded
<1>7. CASE Look(s)
  <2>1. k \in Looked /\ rows' = rows
    BY <1>7 DEF Look, At
  <2>2. rows[t][k] > 0 \/ (k = "renamed" /\ Demo[t].earlier = {})
    BY <1>7 DEF Look
  <2>. QED  BY <2>1, <2>2 DEF Done, Looked
<1>8. CASE Add(s)
  <2>1. k \in Looked /\ rows'[t][k] > 0
    BY <1>8, AddedRow
  <2>. QED  BY <2>1 DEF Done, Looked
<1>9. CASE CreditOrCase(s)
  <2>1. k = "outcome"
    BY <1>9 DEF CreditOrCase, At
  <2>2. Demo[t].credit => Credited(t, "demo")'
    BY <1>1, <1>9, AppendEntryEffect DEF CreditOrCase
  <2>3. ~Demo[t].credit => caseStatus'[t] # "NONE"
    BY <1>9 DEF CreditOrCase, OpenCase
  <2>. QED  BY <2>1, <2>2, <2>3 DEF Done, Counted, Looked, Guarded
<1>. QED  BY <1>3, <1>4, <1>5, <1>6, <1>7, <1>8, <1>9 DEF SeedStep

LEMMA DemoLines ==
  ASSUME SeedVarsTyped, RowsSound, LinesDone,
         [MCNext]_<<demoVars, finished, overlapped, touched, cut>>
  PROVE  LinesDone'
<1>. SeedTyped /\ line \in [Seeders -> Lines \cup {0}]
  BY DEF SeedVarsTyped, SeedTyped, SeedTypeOK
<1>1. \A l \in Lines : Done(SubjectAt(l), KindAt(l)) => Done(SubjectAt(l), KindAt(l))'
  <2>1. ASSUME NEW l \in Lines, Done(SubjectAt(l), KindAt(l))
        PROVE  Done(SubjectAt(l), KindAt(l))'
    <3>1. PICK t \in Transactions : t = SubjectAt(l)
      BY LinesTyped
    <3>2. PICK k : k = KindAt(l)
      OBVIOUS
    <3>3. Done(t, k)'
      BY <2>1, <3>1, <3>2, DoneStays
    <3>. QED  BY <3>1, <3>2, <3>3
  <2>. QED  BY <2>1
<1>2. ASSUME NEW s \in Seeders, NEW l \in Lines, l < line'[s]
      PROVE  Done(SubjectAt(l), KindAt(l))'
  <2>1. l \in Nat /\ l >= 1
    BY LinesTyped, TwelveStatements
  <2>2. CASE line'[s] = line[s]
    BY <1>1, <1>2, <2>2 DEF LinesDone
  <2>3. CASE line'[s] # line[s]
    <3>1. CASE \E r \in Seeders : SeedStep(r)
      <4>1. PICK r \in Seeders : SeedStep(r)
        BY <3>1
      <4>2. r = s /\ line'[s] = line[s] + 1 /\ line[s] \in Nat /\ line[s] \in Lines
        <5>1. line[r] \in Lines
          BY <4>1, SeedStepMoves
        <5>2. CASE Advance(r)
          <6>1. /\ line'[r] \in {line[r] + 1, 0}
                /\ \A q \in Seeders : q # r => line'[q] = line[q]
            BY <5>1, <5>2, LineAdvances DEF SeedTyped
          <6>2. r = s /\ line[s] \in Nat
            BY <2>3, <5>1, <6>1, LinesTyped
          <6>. QED  BY <1>2, <2>1, <5>1, <6>1, <6>2
        <5>3. CASE line' = [line EXCEPT ![r] = 0]
          BY <2>1, <2>3, <1>2, <5>3
        <5>. QED  BY <2>3, <4>1, <5>2, <5>3, SeedStepMoves
      <4>3. CASE l < line[s]
        BY <1>1, <4>3 DEF LinesDone
      <4>4. CASE l = line[s]
        <5>1. PICK t \in Transactions : t = SubjectAt(l)
          BY LinesTyped
        <5>2. PICK k : k = KindAt(l)
          OBVIOUS
        <5>3. t = Subject(s) /\ k = Kind(s)
          BY <4>4, <5>1, <5>2 DEF Subject, Kind
        <5>4. Done(t, k)'
          BY <2>3, <4>1, <4>2, <5>3, Executed
        <5>. QED  BY <5>1, <5>2, <5>4
      <4>. QED  BY <1>2, <2>1, <4>2, <4>3, <4>4
    <3>2. CASE \E r \in Seeders : StartSeed(r) \/ StopSeed(r)
      <4>1. line'[s] = 1 \/ line'[s] = 0
        BY <2>3, <3>2 DEF StartSeed, StopSeed
      <4>. QED  BY <1>2, <2>1, <4>1
    <3>3. CASE UNCHANGED line
      BY <2>3, <3>3
    <3>. QED  BY <3>1, <3>2, <3>3, DemoSteps, AdministratorsWrite DEF SeedNext, seedVars, SeedTyped
  <2>. QED  BY <2>2, <2>3
<1>3. ASSUME finished', NEW l \in Lines
      PROVE  Done(SubjectAt(l), KindAt(l))'
  <2>1. CASE finished
    BY <1>1, <2>1 DEF LinesDone
  <2>2. CASE ~finished
    <3>1. PICK s \in Seeders : line[s] = Cardinality(Lines) /\ rows'[Subject(s)]["audit"] > 0
      BY <1>3, <2>2 DEF MCNext
    <3>2. CASE l = Cardinality(Lines)
      <4>1. PICK t \in Transactions : t = SubjectAt(l)
        BY LinesTyped
      <4>2. t = Subject(s) /\ KindAt(l) = "audit"
        BY <3>1, <3>2, <4>1, LastLine DEF Subject
      <4>3. Done(t, "audit")'
        BY <3>1, <4>2 DEF Done
      <4>. QED  BY <4>1, <4>2, <4>3
    <3>3. CASE l # Cardinality(Lines)
      <4>1. l < line[s]
        BY <3>1, <3>3, LastLine, LinesTyped
      <4>. QED  BY <1>1, <4>1 DEF LinesDone
    <3>. QED  BY <3>2, <3>3
  <2>. QED  BY <2>1, <2>2
<1>. QED  BY <1>2, <1>3 DEF LinesDone

-----------------------------------------------------------------------------
(* The traces of manual credits.                                                *)

\* A run leaves no manual credits.
LEMMA SeedCreditsNobodyByHand ==
  ASSUME SeedTyped, NEW s \in Seeders, SeedStep(s), NEW t \in Transactions
  PROVE  Credited(t, "manual")' => Credited(t, "manual")
<1>1. ledger \in Seq(Entries)
  BY DEF SeedTyped, TypeInv, TypeOK, RecordsTypeOK
<1>2. PICK u \in Transactions : u = Subject(s)
  BY SeedStepMoves
<1>3. UNCHANGED ledger \/ AppendEntry("demo", u, Owner(u))
  BY <1>2 DEF SeedStep, UpsertCustomer, UpsertVirtualAccount, UpsertTransaction, InsertOnce, Look,
         Add, CreditOrCase, vars, recordVars
<1>4. CASE UNCHANGED ledger
  BY <1>4 DEF Credited
<1>5. CASE AppendEntry("demo", u, Owner(u)) /\ ledger' # ledger
  <2>. DEFINE e == Entry("demo", u, Owner(u))
  <2>1. e \in Entries /\ Reference(e)[1] = "demo"
    BY DemoTyped DEF Entry, Entries, Reference
  <2>2. ledger' = Append(ledger, e)
    BY <1>5 DEF AppendEntry
  <2>. HIDE DEF e
  <2>3. /\ DOMAIN ledger = 1..Len(ledger) /\ Len(ledger) \in Nat
        /\ DOMAIN ledger' = 1..(Len(ledger) + 1)
        /\ \A i \in 1..Len(ledger) : ledger'[i] = ledger[i]
        /\ ledger'[Len(ledger) + 1] = e
    BY <1>1, <2>1, <2>2
  <2>4. ASSUME NEW i \in DOMAIN ledger', Reference(ledger'[i]) = <<"manual", t>>
        PROVE  Credited(t, "manual")
    <3>1. i \in 1..Len(ledger) \/ i = Len(ledger) + 1
      BY <2>3
    <3>2. ledger'[i] # e
      BY <2>1, <2>4
    <3>3. i \in DOMAIN ledger /\ ledger'[i] = ledger[i]
      BY <2>3, <3>1, <3>2
    <3>. QED  BY <2>4, <3>3 DEF Credited
  <2>. QED  BY <2>4 DEF Credited, Reference
<1>. QED  BY <1>3, <1>4, <1>5

\* A new manual credit is one a request has just appended.
LEMMA RequestCredits ==
  ASSUME TypeInv, AdministratorsNext, NEW t \in Transactions,
         Credited(t, "manual")', ~Credited(t, "manual")
  PROVE  \E r \in Requests : AppendManual(r) /\ rtx[r] = t
<1>1. [Next]_vars
  BY AdministratorsReconcile
<1>2. PICK i \in DOMAIN ledger' : Reference(ledger'[i]) = <<"manual", t>>
  BY DEF Credited, Reference
<1>3. ~(i \in DOMAIN ledger /\ ledger'[i] = ledger[i])
  BY <1>2 DEF Credited
<1>4. \A w \in Workers : Reference(Entry("ledger", wtx[w], CreditedCustomer("ledger", wtx[w])))
                           # <<"manual", t>>
  BY DEF Reference, Entry
<1>5. \A r \in Requests : Reference(Entry("manual", rtx[r], CreditedCustomer("manual", rtx[r])))
                            = <<"manual", rtx[r]>>
  BY DEF Reference, Entry
<1>. QED  BY <1>1, <1>2, <1>3, <1>4, <1>5, EntryIsNew

\* A request that has credited by hand goes on to its traces, unless it is cut short.
LEMMA TracingGoesOn ==
  ASSUME TypeInv, RequestsSound, [Next]_vars, NEW r \in Requests, NEW t \in Transactions,
         Tracing(r, t), ~(rpc[r] \notin {"idle", "emit"} /\ rpc'[r] = "idle")
  PROVE  Tracing(r, t)' \/ Traced(t)'
<1>. /\ rpc \in [Requests -> RequestSteps \cup {"idle"}]
     /\ audited \in [Transactions -> SUBSET CaseActions]
     /\ trail \in [Transactions -> SUBSET TrailEvents]
  BY DEF TypeInv, TypeOK, RequestsTypeOK, RecordsTypeOK, TransactionsTypeOK
<1>1. rpc'[r] # "idle" /\ rtx[r] = t /\ ract[r] = "approve-credit" /\ audited[t] \subseteq audited'[t]
  BY GrowsStep DEF Tracing, Grows
<1>2. CASE rpc'[r] = rpc[r] /\ rtx'[r] = rtx[r] /\ ract'[r] = ract[r]
  BY <1>1, <1>2 DEF Tracing
<1>3. CASE SettleManual(r) \/ CloseCase(r)
  BY <1>1, <1>3 DEF SettleManual, CloseCase, RGo, Tracing
<1>4. CASE AuditAction(r)
  BY <1>1, <1>4 DEF AuditAction, RGo, Tracing
<1>5. CASE LogOverride(r)
  <2>1. "approve-credit" \in audited[t]
    BY <1>5 DEF LogOverride, RGo, Tracing
  <2>2. "ADMIN_OVERRIDE" \in trail'[t]
    BY <1>1, <1>5 DEF LogOverride, LogEvent
  <2>. QED  BY <1>1, <2>1, <2>2 DEF Traced
<1>6. CASE AppendManual(r) \/ EmitCaseUpdated(r)
           \/ \E u \in Transactions, a \in CaseActions : Resolve(r, u, a)
  BY <1>6 DEF AppendManual, EmitCaseUpdated, Resolve, RGo, Tracing
<1>. QED  BY <1>1, <1>2, <1>3, <1>4, <1>5, <1>6, RequestMoves DEF RequestStep

LEMMA DemoTraces ==
  ASSUME SeedVarsTyped, RowsSound, RequestsSound, TracesSound,
         [MCNext]_<<demoVars, finished, overlapped, touched, cut>>
  PROVE  TracesSound'
<1>. TypeInv /\ SeedTyped
  BY DEF SeedVarsTyped, SeedTyped
<1>0. /\ rpc \in [Requests -> RequestSteps \cup {"idle"}]
      /\ ract \in [Requests -> CaseActions] /\ rtx \in [Requests -> Transactions]
  BY DEF TypeInv, TypeOK, RequestsTypeOK
<1>1. CASE AdministratorsNext
  <2>1. [Next]_vars
    BY <1>1, AdministratorsReconcile
  <2>2. ASSUME NEW r \in Requests, rpc'[r] = "credit"
        PROVE  ract'[r] = "approve-credit"
    <3>1. CASE RequestStep(r)
      BY <1>0, <2>2, <3>1 DEF RequestStep, AppendManual, SettleManual, CloseCase, AuditAction,
                              LogOverride, EmitCaseUpdated, RGo
    <3>2. CASE \E t \in Transactions, a \in CaseActions : Resolve(r, t, a)
      BY <1>0, <2>2, <3>2 DEF Resolve, RGo
    <3>. QED  BY <2>1, <2>2, <3>1, <3>2, RequestMoves DEF TracesSound
  <2>3. ASSUME ~cut', NEW t \in Transactions, Credited(t, "manual")'
        PROVE  Traced(t)' \/ \E r \in Requests : Tracing(r, t)'
    <3>1. ~cut /\ \A r \in Requests : ~(rpc[r] \notin {"idle", "emit"} /\ rpc'[r] = "idle")
      <4>1. CASE MCNext
        <5>1. cut' <=> (cut \/ \E r \in Requests : rpc[r] \notin {"idle", "emit"} /\ rpc'[r] = "idle")
          BY <4>1 DEF MCNext
        <5>. QED  BY <2>3, <5>1
      <4>2. CASE UNCHANGED <<demoVars, finished, overlapped, touched, cut>>
        <5>1. cut' = cut /\ rpc' = rpc
          BY <4>2 DEF demoVars, vars, requestVars
        <5>. QED  BY <2>3, <5>1
      <4>. QED  BY <4>1, <4>2
    <3>2. CASE Credited(t, "manual")
      <4>1. CASE Traced(t)
        BY <4>1, DemoKeeps DEF Traced
      <4>2. CASE ~Traced(t)
        BY <2>1, <3>1, <3>2, <4>2, TracingGoesOn DEF TracesSound
      <4>. QED  BY <4>1, <4>2
    <3>3. CASE ~Credited(t, "manual")
      <4>1. PICK r \in Requests : AppendManual(r) /\ rtx[r] = t
        BY <1>1, <2>3, <3>3, RequestCredits
      <4>2. ract[r] = "approve-credit"
        BY <4>1 DEF AppendManual, RGo, TracesSound
      <4>3. Tracing(r, t)'
        BY <1>0, <4>1, <4>2 DEF AppendManual, RGo, Tracing
      <4>. QED  BY <4>3
    <3>. QED  BY <3>2, <3>3
  <2>. QED  BY <2>2, <2>3 DEF TracesSound
<1>2. CASE ~AdministratorsNext
  <2>1. UNCHANGED requestVars
    BY <1>2, SeedStepMoves, DemoSteps DEF SeedNext, StartSeed, StopSeed, vars, requestVars
  <2>2. \A t \in Transactions : Credited(t, "manual")' => Credited(t, "manual")
    <3>1. CASE \E s \in Seeders : SeedStep(s)
      BY <3>1, SeedCreditsNobodyByHand
    <3>2. CASE UNCHANGED vars
      BY <3>2 DEF vars, recordVars, Credited
    <3>3. \A s \in Seeders : StartSeed(s) \/ StopSeed(s) => UNCHANGED vars
      BY DEF StartSeed, StopSeed
    <3>. QED  BY <1>2, <3>1, <3>2, <3>3, DemoSteps DEF SeedNext
  <2>3. \A t \in Transactions : audited[t] \subseteq audited'[t] /\ trail[t] \subseteq trail'[t]
    BY DemoKeeps
  <2>4. ~cut' => ~cut
    BY DEF MCNext
  <2>5. ASSUME NEW t \in Transactions
        PROVE  /\ Traced(t) => Traced(t)'
               /\ \A r \in Requests : Tracing(r, t) => Tracing(r, t)'
    BY <2>1, <2>3, <2>5 DEF Traced, Tracing, requestVars
  <2>6. \A r \in Requests : rpc'[r] = "credit" => ract'[r] = "approve-credit"
    BY <2>1 DEF TracesSound, requestVars
  <2>. QED  BY <2>2, <2>4, <2>5, <2>6 DEF TracesSound
<1>. QED  BY <1>1, <1>2

-----------------------------------------------------------------------------
(* The theorems about the script.                                               *)

LEMMA SeedInvInit == MCInit => SeedInv
<1>. SUFFICES ASSUME MCInit
              PROVE  SeedInv
  OBVIOUS
<1>1. TypeInv
  BY TypeInvInit DEF MCInit
<1>2. SeedTypeOK /\ DueSound
  BY SeedAssumption DEF MCInit, SeedInit, SeedTypeOK, DueSound
<1>3. GhostsTypeOK
  BY DEF MCInit, GhostsTypeOK
<1>4. RequestsSound /\ TracesSound
  BY DEF MCInit, Init, ReconciliationInit, RequestsSound, TracesSound, Credited
<1>5. RowsSound
  BY DEF MCInit, Init, ReconciliationInit, SeedInit, RowsSound, Counted, Looked
<1>6. AloneSound
  BY DEF MCInit, SeedInit, AloneSound
<1>7. LinesDone
  BY TwelveStatements, LinesTyped DEF MCInit, SeedInit, LinesDone
<1>. QED  BY <1>1, <1>2, <1>3, <1>4, <1>5, <1>6, <1>7 DEF SeedInv, SeedVarsTyped, SeedTyped

LEMMA SeedInvStep ==
  SeedInv /\ [MCNext]_<<demoVars, finished, overlapped, touched, cut>> => SeedInv'
  BY SeedTypesStep, DemoRequests, DemoRows, DemoAlone, DemoLines, DemoTraces DEF SeedInv

LEMMA SeedInvariant == MCSpec => []SeedInv
  BY SeedInvInit, SeedInvStep, PTL DEF MCSpec

\* After a complete run everything has been done that the script does.
LEMMA FinishedAll ==
  ASSUME SeedInv, finished, NEW t \in Transactions
  PROVE  /\ \A kind \in Counted \cup {"customer", "account", "transaction", "outcome"} : Done(t, kind)
         /\ \A kind \in Counted : rows[t][kind] > 0 \/ (kind = "renamed" /\ Demo[t].earlier = {})
<1>1. \A k \in 1..12 : Done(t, Statements[k])
  BY LineOf DEF SeedInv, LinesDone
<1>2. \A kind \in Counted \cup {"customer", "account", "transaction", "outcome"} :
        \E k \in 1..12 : Statements[k] = kind
  BY DEF Counted, Looked, Guarded, Statements
<1>3. \A kind \in Counted \cup {"customer", "account", "transaction", "outcome"} : Done(t, kind)
  BY <1>1, <1>2
<1>. QED  BY <1>3 DEF Done

\* When a run of the script has come to its end, whatever became of the runs before it and
\* whatever administrators did in between, every row of every scenario is there, once unless two
\* runs overlapped or an administrator recorded the same name, with the decision the script gives
\* and the credit or the case that goes with it; and the former names are approved, unless
\* administrators have worked on the tables.
THEOREM SeedLeavesAll == MCSpec => []SeedComplete
<1>1. SeedInv => SeedComplete
  <2>. SUFFICES ASSUME SeedInv, finished, NEW t \in Transactions
                PROVE  /\ \A kind \in Counted :
                            rows[t][kind] > 0 \/ (kind = "renamed" /\ Demo[t].earlier = {})
                       /\ ~overlapped => \A kind \in Counted :
                            rows[t][kind] <= 1 \/ (touched /\ Sought(t, kind) # {})
                       /\ ~touched => Demo[t].earlier \subseteq approved[Owner(t)]
                       /\ decision[t] = Demo[t].outcome /\ trail[t] # {}
                       /\ IF Demo[t].credit THEN Credited(t, "demo")
                                            ELSE caseReason[t] = decision[t]
    BY DEF SeedComplete
  <2>1. \A kind \in Counted : rows[t][kind] > 0 \/ (kind = "renamed" /\ Demo[t].earlier = {})
    BY FinishedAll
  <2>2. ~overlapped => \A kind \in Counted : rows[t][kind] <= 1 \/ (touched /\ Sought(t, kind) # {})
    BY DEF SeedInv, AloneSound, Shared
  <2>7. ~touched => Demo[t].earlier \subseteq approved[Owner(t)]
    BY <2>1 DEF SeedInv, RowsSound, Counted, Looked
  <2>3. rows[t]["decision"] > 0 /\ rows[t]["event"] > 0
    BY <2>1 DEF Counted, Looked
  <2>4. decision[t] = Demo[t].outcome /\ trail[t] # {}
    BY <2>3 DEF SeedInv, RowsSound
  <2>5. Done(t, "outcome")
    BY FinishedAll
  <2>6. IF Demo[t].credit THEN Credited(t, "demo") ELSE caseReason[t] = decision[t]
    BY <2>4, <2>5 DEF Done, SeedInv, RowsSound
  <2>. QED  BY <2>1, <2>2, <2>4, <2>6, <2>7
<1>. QED  BY <1>1, SeedInvariant, PTL

\* Whoever finds a manual credit in the ledger, with nobody at work on the payment, finds the
\* approval in the audit log and in the payment's trail, unless some request was cut short.
THEOREM ManualCreditsTraced == MCSpec => []ManualCreditTraceable
<1>1. SeedInv => ManualCreditTraceable
  BY DEF SeedInv, TracesSound, Traced, Tracing, Busy, ManualCreditTraceable
<1>. QED  BY <1>1, SeedInvariant, PTL

\* No statement of the script changes the status of a case that is there, a decision that was
\* made, or a row of the ledger.
THEOREM SeedSpares == MCSpec => SeedKeepsResolutions
<1>. DEFINE Spared == \A s \in Seeders : SeedStep(s) =>
                        /\ \A t \in Transactions :
                             /\ caseStatus[t] # "NONE" => caseStatus'[t] = caseStatus[t]
                             /\ decision[t] # "NONE" => decision'[t] = decision[t]
                        /\ \A i \in DOMAIN ledger : ledger'[i] = ledger[i]
<1>1. SeedInv => Spared
  <2>. SUFFICES ASSUME SeedInv, NEW s \in Seeders, SeedStep(s)
                PROVE  /\ \A t \in Transactions :
                            /\ caseStatus[t] # "NONE" => caseStatus'[t] = caseStatus[t]
                            /\ decision[t] # "NONE" => decision'[t] = decision[t]
                       /\ \A i \in DOMAIN ledger : ledger'[i] = ledger[i]
    OBVIOUS
  <2>1. SeedTyped /\ RowsSound /\ decision \in [Transactions -> Outcomes \cup {"NONE"}]
    BY DEF SeedInv, SeedVarsTyped, SeedTyped, TypeInv, TypeOK, RecordsTypeOK
  <2>2. PICK u \in Transactions : u = Subject(s)
    BY <2>1, SeedStepMoves
  <2>3. \A t \in Transactions : decision[t] # "NONE" => decision'[t] = decision[t]
    <3>1. CASE Add(s)
      <4>1. \/ UNCHANGED decision
            \/ decision' = [decision EXCEPT ![u] = Demo[u].outcome] /\ rows[u]["decision"] = 0
        BY <2>1, <2>2, <3>1, AddedRow
      <4>2. rows[u]["decision"] = 0 => decision[u] = "NONE"
        BY <2>1 DEF RowsSound
      <4>. QED  BY <2>1, <4>1, <4>2
    <3>2. CASE ~Add(s)
      BY <3>2 DEF SeedStep, UpsertCustomer, UpsertVirtualAccount, UpsertTransaction, InsertOnce,
                  Look, CreditOrCase, vars, recordVars
    <3>. QED  BY <3>1, <3>2
  <2>. QED  BY <2>1, <2>3, SeedStepKeeps
<1>. QED  BY <1>1, SeedInvariant, PTL DEF SeedKeepsResolutions

\* A statement that has been executed changes nothing when it is executed again, before anybody
\* else has worked on the tables.
LEMMA DoneIsDone ==
  ASSUME SeedInv, finished, ~overlapped, ~touched, NEW s \in Seeders, SeedStep(s)
  PROVE  UNCHANGED <<vars, rows>>
<1>. SeedTyped /\ TypeInv
  BY DEF SeedInv, SeedVarsTyped, SeedTyped
<1>0. /\ tier \in [Customers -> Tiers] /\ fullName \in [Customers -> Names]
      /\ account \in [Accounts -> AccountStatuses \cup {NoStatus}]
      /\ tx \in [Transactions -> TxStatuses]
      /\ payee \in [Transactions -> Customers \cup {NoCustomer}]
      /\ rows \in [Transactions -> [Counted -> Nat]]
  BY DEF SeedTyped, SeedTypeOK, TypeInv, TypeOK, DirectoryTypeOK, TransactionsTypeOK, RecordsTypeOK
<1>1. PICK t \in Transactions : t = Subject(s)
  BY SeedStepMoves
<1>2. Owner(t) \in Customers /\ Recipient[t] \in Accounts
  BY DemoTyped
<1>3. /\ Done(t, "customer") /\ Done(t, "account") /\ Done(t, "transaction") /\ Done(t, "outcome")
      /\ \A kind \in Counted : rows[t][kind] > 0 \/ (kind = "renamed" /\ Demo[t].earlier = {})
      /\ \A kind \in Counted : rows[t][kind] <= 1 /\ rows[t][kind] \in Nat
  BY <1>0, FinishedAll DEF SeedInv, AloneSound, Shared
<1>4. CASE UpsertCustomer(s)
  <2>1. tier' = tier /\ fullName' = fullName
    BY <1>0, <1>1, <1>2, <1>3, <1>4 DEF UpsertCustomer, Done
  <2>. QED  BY <1>4, <2>1 DEF UpsertCustomer, vars, directoryVars
<1>5. CASE UpsertVirtualAccount(s)
  <2>1. account' = account
    BY <1>0, <1>1, <1>2, <1>3, <1>5 DEF UpsertVirtualAccount, Done
  <2>. QED  BY <1>5, <2>1 DEF UpsertVirtualAccount, vars, directoryVars
<1>6. CASE UpsertTransaction(s)
  <2>1. tx' = tx /\ payee' = payee
    BY <1>0, <1>1, <1>3, <1>6 DEF UpsertTransaction, SetTx, Done
  <2>. QED  BY <1>6, <2>1 DEF UpsertTransaction, vars, transactionVars
<1>7. CASE InsertOnce(s)
  <2>1. PICK k \in Guarded : rows' = [rows EXCEPT ![t][k] = 1]
    BY <1>1, <1>7 DEF InsertOnce, At
  <2>2. rows[t][k] = 1
    BY <1>3 DEF Counted, Guarded
  <2>3. rows' = rows
    BY <1>0, <2>1, <2>2
  <2>. QED  BY <1>7, <2>3 DEF InsertOnce
<1>8. CASE Look(s)
  BY <1>8 DEF Look
<1>9. CASE Add(s)
  <2>1. due[s] /\ Kind(s) \in Counted /\ (Kind(s) = "renamed" => Demo[t].earlier # {})
    BY <1>1, <1>9 DEF Add, SeedTyped, DueSound, Counted
  <2>2. rows[t][Kind(s)] = 0
    BY <1>1, <2>1 DEF SeedInv, AloneSound, Shared
  <2>. QED  BY <1>3, <2>1, <2>2
<1>10. CASE CreditOrCase(s)
  <2>1. UNCHANGED <<ledger, caseStatus, caseReason>>
    BY <1>1, <1>3, <1>10 DEF CreditOrCase, AppendEntry, Done, Credited
  <2>. QED  BY <1>10, <2>1 DEF CreditOrCase, vars, recordVars
<1>. QED  BY <1>4, <1>5, <1>6, <1>7, <1>8, <1>9, <1>10 DEF SeedStep

\* A run after a complete one, and before anybody else has worked on the tables, leaves every row
\* as it is: the script may be run again.
THEOREM SeedTwiceIsOnce == MCSpec => SeedIdempotent
<1>. DEFINE Repeats == finished /\ ~overlapped' /\ ~touched' => UNCHANGED <<vars, rows>>
<1>1. SeedInv /\ [MCNext]_<<demoVars, finished, overlapped, touched, cut>> => Repeats
  <2>. SUFFICES ASSUME SeedInv, [MCNext]_<<demoVars, finished, overlapped, touched, cut>>,
                       finished, ~overlapped', ~touched'
                PROVE  UNCHANGED <<vars, rows>>
    OBVIOUS
  <2>1. ~overlapped
    BY DEF MCNext
  <2>2. CASE SeedNext /\ touched' = touched
    <3>1. PICK s \in Seeders : StartSeed(s) \/ SeedStep(s) \/ StopSeed(s)
      BY <2>2 DEF SeedNext
    <3>2. CASE SeedStep(s)
      BY <2>1, <2>2, <3>2, DoneIsDone
    <3>3. CASE StartSeed(s) \/ StopSeed(s)
      BY <3>3 DEF StartSeed, StopSeed
    <3>. QED  BY <3>1, <3>2, <3>3
  <2>3. CASE UNCHANGED <<vars, seedVars, touched>>
    BY <2>3 DEF seedVars
  <2>. QED  BY <2>2, <2>3, DemoSteps
<1>. HIDE DEF Repeats
<1>2. MCSpec => [][Repeats]_<<demoVars, finished>>
  BY <1>1, SeedInvariant, PTL DEF MCSpec
<1>. QED  BY <1>2 DEF SeedIdempotent, Repeats
=============================================================================
