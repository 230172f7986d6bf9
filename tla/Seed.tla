-------------------------------- MODULE Seed ---------------------------------
(* The script that seeds the demonstration, run again and again, stopped in the *)
(* middle, or started twice, on tables that administrators work on.  It has no  *)
(* database transaction: each statement that awaits is a step of its own, and   *)
(* an "ensure" is two, a look and an insert.                                    *)
EXTENDS Reconciliation

CONSTANTS Seeders,   \* concurrent runs of the script
          Scenarios, \* the sequence of its transactions
          Demo,      \* what the script says of each
          Resolutions,  \* what administrators do about the seeded cases
          MaxRuns    \* bound on the runs

\* Every scenario has a customer, hence an account of its own.
ASSUME SeedAssumption ==
  /\ Scenarios \in Seq(Transactions)
  /\ \A t \in Transactions : \E i \in DOMAIN Scenarios : Scenarios[i] = t
  /\ \A t, u \in Transactions : OwnerOf[Recipient[t]] = OwnerOf[Recipient[u]] => t = u
  /\ Demo \in [Transactions -> [account : AccountStatuses, tier : Tiers, name : Names,
                               earlier : SUBSET Names, status : TxStatuses \ {"NONE"},
                               outcome : Outcomes, credit : BOOLEAN]]
  /\ \A t \in Transactions : Demo[t].name \notin Demo[t].earlier
  /\ Resolutions \subseteq CaseActions
  /\ MaxRuns \in Nat

VARIABLES line,   \* a run's next statement, counted over all scenarios; 0: it is not running
          due,    \* its look found nothing, so it inserts next
          rows,   \* how many rows of a kind there are for a scenario, of which at most one was
                  \* not written by the script
          runs

seedVars == <<line, due, rows, runs>>
demoVars == <<vars, seedVars>>

\* main(): the statements of one scenario, named for the rows they are about.
Statements == <<"customer", "created", "renamed", "account", "ready", "transaction", "provider",
                "webhook", "decision", "event", "outcome", "audit">>
Looked == {"created", "renamed", "ready", "decision", "event", "audit"}
Guarded == {"provider", "webhook"}
Counted == Looked \cup Guarded

Lines == 1..(Len(Statements) * Len(Scenarios))
KindAt(l) == Statements[1 + ((l - 1) % Len(Statements))]
SubjectAt(l) == Scenarios[1 + ((l - 1) \div Len(Statements))]
Kind(s) == KindAt(line[s])
Subject(s) == SubjectAt(line[s])
Owner(t) == OwnerOf[Recipient[t]]

SeedTypeOK ==
  /\ line \in [Seeders -> Lines \cup {0}]
  /\ due \in [Seeders -> BOOLEAN]
  /\ rows \in [Transactions -> [Counted -> Nat]]
  /\ runs \in 0..MaxRuns

SeedInit ==
  /\ line = [s \in Seeders |-> 0]
  /\ due = [s \in Seeders |-> FALSE]
  /\ rows = [t \in Transactions |-> [k \in Counted |-> 0]]
  /\ runs = 0

-----------------------------------------------------------------------------
StartSeed(s) ==
  /\ runs < MaxRuns /\ line[s] = 0 /\ Scenarios # << >>
  /\ line' = [line EXCEPT ![s] = 1]
  /\ runs' = runs + 1
  /\ UNCHANGED <<vars, due, rows>>

\* The next statement, of the next scenario after the last.
Advance(s) == line' = [line EXCEPT ![s] = IF @ + 1 \in Lines THEN @ + 1 ELSE 0]

At(s, kind) == line[s] # 0 /\ Kind(s) = kind /\ ~due[s]

\* Upserts: what is there is set back to what the script says.
UpsertCustomer(s) ==
  LET t == Subject(s)
  IN /\ At(s, "customer") /\ Advance(s)
     /\ tier' = [tier EXCEPT ![Owner(t)] = Demo[t].tier]
     /\ fullName' = [fullName EXCEPT ![Owner(t)] = Demo[t].name]
     /\ UNCHANGED <<account, unrecorded, approved, transactionVars, recordVars, workerVars,
                    requestVars, due, rows, runs>>

UpsertVirtualAccount(s) ==
  LET t == Subject(s)
  IN /\ At(s, "account") /\ Advance(s)
     /\ account' = [account EXCEPT ![Recipient[t]] = Demo[t].account]
     /\ UNCHANGED <<tier, fullName, unrecorded, approved, transactionVars, recordVars,
                    workerVars, requestVars, due, rows, runs>>

UpsertTransaction(s) ==
  LET t == Subject(s)
  IN /\ At(s, "transaction") /\ Advance(s)
     /\ SetTx(t, Demo[t].status)
     /\ payee' = [payee EXCEPT ![t] = Owner(t)]
     /\ UNCHANGED <<directoryVars, trail, job, recordVars, workerVars, requestVars, due, rows,
                    runs>>

\* onConflictDoNothing over a unique index.
InsertOnce(s) ==
  /\ \E kind \in Guarded : At(s, kind)
  /\ Advance(s)
  /\ rows' = [rows EXCEPT ![Subject(s)][Kind(s)] = 1]
  /\ UNCHANGED <<vars, due, runs>>

\* Slip: what is there not looked at.
LookBlind(s) ==
  /\ \E kind \in Looked : At(s, kind)
  /\ due' = [due EXCEPT ![s] = TRUE]
  /\ UNCHANGED <<vars, line, rows, runs>>
\* Slip: a row that is there taken as a sign that the rest of the run has been done, too.
LookAndLeave(s) ==
  LET t == Subject(s)
  IN /\ \E kind \in Looked : At(s, kind)
     /\ IF rows[t][Kind(s)] > 0
        THEN line' = [line EXCEPT ![s] = Cardinality(Lines)] /\ UNCHANGED due
        ELSE IF Kind(s) = "renamed" /\ Demo[t].earlier = {}
             THEN Advance(s) /\ UNCHANGED due
             ELSE due' = [due EXCEPT ![s] = TRUE] /\ UNCHANGED line
     /\ UNCHANGED <<vars, rows, runs>>

\* The first half of an "ensure"; the row about a former name is for customers who have one.  A
\* history row is found by customer and new name alone, whoever wrote it and whatever it allows.
Look(s) ==
  LET t == Subject(s)
  IN /\ \E kind \in Looked : At(s, kind)
     /\ IF rows[t][Kind(s)] > 0 \/ (Kind(s) = "renamed" /\ Demo[t].earlier = {})
        THEN Advance(s) /\ UNCHANGED due
        ELSE due' = [due EXCEPT ![s] = TRUE] /\ UNCHANGED line
     /\ UNCHANGED <<vars, rows, runs>>

\* The second half.  The index on decisions makes a late insert throw, which ends the run; none
\* keeps the others from adding a second row.
Add(s) ==
  LET t == Subject(s)
  IN /\ due[s] /\ due' = [due EXCEPT ![s] = FALSE]
     /\ IF Kind(s) = "decision" /\ rows[t]["decision"] > 0
        THEN /\ line' = [line EXCEPT ![s] = 0]
             /\ UNCHANGED <<rows, decision, trail, approved>>
        ELSE /\ Advance(s)
             /\ rows' = [rows EXCEPT ![t][Kind(s)] = @ + 1]
             /\ IF Kind(s) = "decision" THEN Record(t, Demo[t].outcome) ELSE UNCHANGED decision
             /\ IF Kind(s) = "event"
                THEN LogEvent(t, IF Demo[t].credit THEN "PAYMENT_RECONCILED" ELSE "PAYMENT_FLAGGED")
                ELSE UNCHANGED trail
             /\ approved' = IF Kind(s) = "renamed"
                            THEN [approved EXCEPT ![Owner(t)] = @ \cup Demo[t].earlier] ELSE approved
     /\ UNCHANGED <<account, tier, fullName, unrecorded, tx, payee, job, ledger, caseStatus,
                    caseReason, audited, emitted, workerVars, requestVars, runs>>

\* Slip: the case upserted like the transaction.
CreditOrReopen(s) ==
  LET t == Subject(s)
  IN /\ At(s, "outcome") /\ Advance(s)
     /\ IF Demo[t].credit
        THEN AppendEntry("demo", t, Owner(t)) /\ UNCHANGED <<caseStatus, caseReason>>
        ELSE OpenCase(t, Demo[t].outcome) /\ UNCHANGED ledger
     /\ UNCHANGED <<directoryVars, transactionVars, decision, audited, emitted, workerVars,
                    requestVars, due, rows, runs>>

\* The credit under a reference of its own, or the case; either is left as it is when it is there.
CreditOrCase(s) ==
  LET t == Subject(s)
  IN /\ At(s, "outcome") /\ Advance(s)
     /\ IF Demo[t].credit THEN AppendEntry("demo", t, Owner(t)) ELSE UNCHANGED ledger
     /\ IF ~Demo[t].credit /\ caseStatus[t] = "NONE"
        THEN OpenCase(t, Demo[t].outcome) ELSE UNCHANGED <<caseStatus, caseReason>>
     /\ UNCHANGED <<directoryVars, transactionVars, decision, audited, emitted, workerVars,
                    requestVars, due, rows, runs>>

\* A statement throws, or the script is stopped.
StopSeed(s) ==
  /\ line[s] # 0
  /\ line' = [line EXCEPT ![s] = 0] /\ due' = [due EXCEPT ![s] = FALSE]
  /\ UNCHANGED <<vars, rows, runs>>

SeedStep(s) == \/ UpsertCustomer(s) \/ UpsertVirtualAccount(s) \/ UpsertTransaction(s)
               \/ InsertOnce(s) \/ Look(s) \/ Add(s) \/ CreditOrCase(s)

SeedNext == \E s \in Seeders : StartSeed(s) \/ SeedStep(s) \/ StopSeed(s)

\* The new names of the history rows a look is for.
Sought(t, kind) == IF kind = "created" THEN {Demo[t].name}
                   ELSE IF kind = "renamed" THEN Demo[t].earlier ELSE {}

\* An administrator's history row, which a run will find in place of its own.
FindName(c, name) ==
  rows' = [t \in Transactions |-> [kind \in Counted |->
             IF Owner(t) = c /\ name \in Sought(t, kind) /\ rows[t][kind] = 0
             THEN 1 ELSE rows[t][kind]]]

\* Administrators resolve the seeded cases and change the directory; seeded payments have no job.
AdministratorsNext ==
  /\ UNCHANGED <<line, due, runs>>
  /\ \/ /\ \/ \E r \in Requests : RequestStep(r) \/ AbortRequest(r)
           \/ \E r \in Requests, t \in Transactions, a \in Resolutions : Resolve(r, t, a)
           \/ EditsNext /\ UNCHANGED <<transactionVars, recordVars, workerVars, requestVars>>
        /\ UNCHANGED rows
     \/ \E c \in Customers, name \in Names :
          /\ RecordRename(c, name) /\ FindName(c, name)
          /\ UNCHANGED <<transactionVars, recordVars, workerVars, requestVars>>
=============================================================================
