------------------------------ MODULE Pipeline -------------------------------
(* The whole way of a payment: Intake's handlers and verifiers feed the         *)
(* reconciliation queue whose workers, and the administrators' requests, are    *)
(* Reconciliation's.  The two share the transactions table, the trail, the      *)
(* reconciliation queue and the directory.                                      *)
EXTENDS Intake, Reconciliation

pipelineVars == <<vars, intakeVars>>

PipelineInit == WebhookInit /\ ReconciliationInit

\* The steps that go well, as far as the program can tell: locks may expire.
CalmNext ==
  \/ /\ \/ \E h \in Handlers : HandlerStep(h) \/ \E e \in Events, m \in Headers : Deliver(h, e, m)
        \/ \E v \in Verifiers : VerifierStep(v) \/ \E e \in Events : StartVerification(v, e)
        \/ \E e \in Events : StallVerification(e)
     /\ UNCHANGED <<recordVars, workerVars, requestVars>>
  \/ /\ \/ \E w \in Workers : WorkerStep(w) \/ \E t \in Transactions : Start(w, t)
        \/ \E t \in Transactions : Stall(t)
        \/ \E r \in Requests :
             RequestStep(r) \/ \E t \in Transactions, a \in CaseActions : Resolve(r, t, a)
        \/ DirectoryStep
     /\ UNCHANGED intakeVars

\* A statement throws or a process dies.
FaultNext ==
  \/ /\ \/ \E h \in Handlers : AbortHandler(h)
        \/ \E v \in Verifiers : FailVerification(v) \/ CrashVerifier(v)
     /\ UNCHANGED <<recordVars, workerVars, requestVars>>
  \/ /\ \/ \E w \in Workers : Fail(w) \/ Crash(w)
        \/ \E r \in Requests : AbortRequest(r)
     /\ UNCHANGED intakeVars

PipelineNext == CalmNext \/ FaultNext

PipelineSpec == PipelineInit /\ [][PipelineNext]_pipelineVars

\* Node runs every callback it has scheduled and every worker polls its queue.
PipelineFairness ==
  /\ \A h \in Handlers : WF_pipelineVars(HandlerStep(h) /\ UNCHANGED <<recordVars, workerVars, requestVars>>)
  /\ \A v \in Verifiers :
       WF_pipelineVars(/\ VerifierStep(v) \/ \E e \in Events : StartVerification(v, e)
                       /\ UNCHANGED <<recordVars, workerVars, requestVars>>)
  /\ \A w \in Workers :
       WF_pipelineVars(/\ WorkerStep(w) \/ \E t \in Transactions : Start(w, t)
                       /\ UNCHANGED intakeVars)

-----------------------------------------------------------------------------
\* No money without a webhook: behind every credit, automatic or manual, are an accepted
\* webhook row, its provider event, and the trail entry of its verification.
CreditHasOrigin ==
  \A t \in Transactions : CreditsOf(t) # {} =>
    /\ \E e \in EventsOf(t) : webhook[e] \in Accepted /\ e \in recorded
    /\ "PAYMENT_VERIFIED" \in trail[t]

\* A credit is in the statement of the account's customer.  The one exception is a manual credit
\* of a payment whose row names nobody: it is in nobody's statement, and no approval ever moves
\* the money to another customer.
CreditGoesToOwner ==
  \A i \in DOMAIN ledger :
    LET e == ledger[i]
    IN \/ e.customer = OwnerOf[Recipient[e.transaction]]
       \/ e.kind = "manual" /\ e.customer = NoCustomer /\ payee[e.transaction] = NoCustomer

\* The account t is paid to exists, and t's row is still to come from a look-up that finds it.
OwnerIsKnown(t) ==
  /\ account[Recipient[t]] # NoStatus /\ tx[t] = "NONE"
  /\ \A v \in Verifiers : vpc[v] = "insert" => VTx(v) # t

PaidToOwner(t) ==
  \A i \in DOMAIN ledger :
    ledger[i].transaction = t => ledger[i].customer = OwnerOf[Recipient[t]]

\* Nobody's statement is for payments that were verified before their account existed: whatever
\* becomes of the account later, a payment looked up after it was opened is credited, at once or
\* by an administrator, to the account's customer only.
KnownOwnerIsPaid == \A t \in Transactions : [](OwnerIsKnown(t) => []PaidToOwner(t))
=============================================================================
