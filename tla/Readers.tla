------------------------------- MODULE Readers -------------------------------
(* Who looks at a payment while it is reconciled: TransactionsService.status(), *)
(* which the API serves, and waitForTransaction() of the simulation script,     *)
(* which polls until there is something to show.  Each read is a statement of   *)
(* its own and the reconciler goes on between them, so an answer is put         *)
(* together from several moments.                                               *)
EXTENDS Reconciliation

CONSTANTS Readers,   \* concurrent executions of the two
          Kinds      \* which of the two run: "status", "simulation"

ASSUME KindsAssumption == Kinds \subseteq {"status", "simulation"}

VARIABLES qpc, qkind, qtx,   \* a reader's next statement, what it is, its transaction
          got                \* what it has read so far

readerVars == <<qpc, qkind, qtx, got>>

\* Of the rows it finds beside the transaction, whether they are there.
Unread == [status |-> "NONE", decided |-> FALSE, opened |-> FALSE, credited |-> FALSE]

ReadersInit ==
  /\ qpc = [q \in Readers |-> "idle"]
  /\ qkind = [q \in Readers |-> "status"]
  /\ qtx = [q \in Readers |-> ATransaction]
  /\ got = [q \in Readers |-> Unread]

QGo(q, here, there) == qpc[q] = here /\ qpc' = [qpc EXCEPT ![q] = there]

Ask(q, t, kind) ==
  /\ QGo(q, "idle", "transaction")
  /\ qtx' = [qtx EXCEPT ![q] = t]
  /\ qkind' = [qkind EXCEPT ![q] = kind]
  /\ UNCHANGED got

\* Without a row, the API answers 404 and the simulation sleeps and looks again.
ReadTransaction(q) ==
  /\ QGo(q, "transaction", IF tx[qtx[q]] # "NONE" THEN "decision"
                           ELSE IF qkind[q] = "status" THEN "idle" ELSE "transaction")
  /\ got' = [got EXCEPT ![q] = [Unread EXCEPT !.status = tx[qtx[q]]]]
  /\ UNCHANGED <<qkind, qtx>>

ReadDecision(q) ==
  /\ QGo(q, "decision", "case")
  /\ got' = [got EXCEPT ![q].decided = decision[qtx[q]] # "NONE"]
  /\ UNCHANGED <<qkind, qtx>>

ReadCase(q) ==
  /\ QGo(q, "case", IF qkind[q] = "status" THEN "events" ELSE "ledger")
  /\ got' = [got EXCEPT ![q].opened = caseStatus[qtx[q]] # "NONE"]
  /\ UNCHANGED <<qkind, qtx>>

\* Slip: the transaction read last, so that the answer shows its newest status.
ReadEventsAndStatus(q) ==
  /\ QGo(q, "events", "answered")
  /\ got' = [got EXCEPT ![q].status = tx[qtx[q]]]
  /\ UNCHANGED <<qkind, qtx>>

\* The last read of status(): the answer lists the events beside the rest.
ReadEvents(q) == QGo(q, "events", "answered") /\ UNCHANGED <<qkind, qtx, got>>

\* What the simulation takes for a result: a decision, a case, or a final status.
Enough(a) == \/ a.decided \/ a.opened
             \/ a.status \in {"RECONCILED", "MANUAL_REVIEW"}

ReadLedger(q) ==
  /\ QGo(q, "ledger", IF Enough(got[q]) THEN "answered" ELSE "transaction")
  /\ got' = [got EXCEPT ![q] = IF Enough(@)
                               THEN [@ EXCEPT !.credited = CreditsOf(qtx[q]) # {}]
                               ELSE Unread]
  /\ UNCHANGED <<qkind, qtx>>

\* The answer is taken, a read throws, or the simulation's deadline has passed.
EndReading(q) ==
  /\ qpc[q] # "idle" /\ qpc' = [qpc EXCEPT ![q] = "idle"]
  /\ qkind' = [qkind EXCEPT ![q] = "status"]
  /\ qtx' = [qtx EXCEPT ![q] = ATransaction]
  /\ got' = [got EXCEPT ![q] = Unread]

ReaderNext(q) ==
  \/ \E t \in Transactions, kind \in Kinds : Ask(q, t, kind)
  \/ ReadTransaction(q) \/ ReadDecision(q) \/ ReadCase(q) \/ ReadEvents(q) \/ ReadLedger(q)
  \/ EndReading(q)

WatchedInit == Init /\ ReadersInit

WatchedNext == \/ Next /\ UNCHANGED readerVars
               \/ \E q \in Readers : ReaderNext(q) /\ UNCHANGED vars

\* The readers are under no obligation; the reconciler does its work whoever looks on.
WatchedSpec == WatchedInit /\ [][WatchedNext]_<<vars, readerVars>> /\ Fairness

-----------------------------------------------------------------------------
\* Although its parts are read at different moments, an answer that shows a final status shows
\* what the status stands for: a decision, a case for a payment that was held back or refused,
\* and, where the ledger is read, the credit of a reconciled one.  The reconciler writes the
\* status after these, and both readers read it before them.
AnswersHoldTogether ==
  \A q \in Readers : qpc[q] = "answered" =>
    LET a == got[q]
    IN /\ a.status \in Settled => a.decided
       /\ a.status \in {"MANUAL_REVIEW", "REJECTED"} => a.opened
       /\ a.status = "RECONCILED" /\ qkind[q] = "simulation" => a.credited
=============================================================================
