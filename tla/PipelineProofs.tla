---------------------------- MODULE PipelineProofs -----------------------------
(* What the webhook handlers and the verifiers keep true of the rows and the    *)
(* two queues between them; then the two halves together: the invariants proved *)
(* of the intake and of the reconciler hold when they run side by side, and     *)
(* with them the whole way of a payment can be followed back from its credit.   *)
(* All of it for any number of deliveries, events, payments, workers, verifiers *)
(* and requests, and any bounds.                                                *)
EXTENDS Pipeline, ReconciliationProofs

\* The signature check leads to a row whose status says so.
LEMMA StatusTypes ==
  ASSUME NEW m
  PROVE  /\ ProcessingStatus(m) \in Accepted \cup Refused
         /\ ShouldVerify(m) => ProcessingStatus(m) \in Accepted
<1>1. SecretConfigured \in BOOLEAN
  BY IntakeAssumption
<1>. QED BY <1>1
       DEF ProcessingStatus, ShouldVerify, SignatureValid, ReplayProtected, Accepted, Refused,
           Supported, Authentic, Fresh

-----------------------------------------------------------------------------
\* A verification job that may still be handed out has attempts and stalls left, and its lock
\* is held by one working verifier at most.
VJobsSound ==
  \A e \in Events : vjob[e].state \in {"waiting", "active"}
    => vjob[e].failures < MaxAttempts /\ vjob[e].stalls <= MaxStalls

VLocksSound ==
  /\ \A v \in Verifiers : vheld[v] => vpc[v] # "idle" /\ vjob[vev[v]].state = "active"
  /\ \A v, u \in Verifiers : vheld[v] /\ vheld[u] /\ vev[v] = vev[u] => v = u

\* A row is written by one handler, who alone may add the job, and does so at most once.
Mine(h) == hpc[h] \in {"record", "enqueue"} /\ inserted[h]

HandlersSound ==
  /\ \A h \in Handlers : Mine(h) => webhook[hev[h]] # "NONE" /\ vjob[hev[h]].state = "none"
  /\ \A h, g \in Handlers : Mine(h) /\ Mine(g) /\ hev[h] = hev[g] => h = g
  /\ \A h \in Handlers : Mine(h) /\ MustQueue(h) => webhook[hev[h]] \in Accepted
  /\ \A h \in Handlers : hpc[h] = "enqueue" => MustQueue(h) /\ hev[h] \in recorded
  /\ \A e \in Events : webhook[e] = "NONE" => vjob[e].state = "none"

\* What is queued for verification was accepted and is on record.
QueueSound ==
  \A e \in Events : vjob[e].state # "none" => webhook[e] \in Accepted /\ e \in recorded

IntakeInv ==
  /\ IntakeTypeOK /\ VJobsSound /\ VLocksSound /\ HandlersSound /\ QueueSound
  /\ \A v \in Verifiers : vpc[v] # "idle" => vjob[vev[v]].state # "none"

\* The same of the transaction's row and the reconciliation job.
Writing(v) == vpc[v] \in {"event", "enqueue"}

VerifiersSound ==
  /\ \A v \in Verifiers : Writing(v) => tx[VTx(v)] # "NONE" /\ job[VTx(v)].state = "none"
  /\ \A v, u \in Verifiers : Writing(v) /\ Writing(u) /\ VTx(v) = VTx(u) => v = u
  /\ \A v \in Verifiers : vpc[v] = "enqueue" => "PAYMENT_VERIFIED" \in trail[VTx(v)]

LEMMA AnEventType == AnEvent \in Events
  BY SomeEventAssumption DEF AnEvent

LEMMA IntakeInvInit == IntakeInit => IntakeInv /\ VerifiersSound
<1>. SUFFICES ASSUME IntakeInit PROVE IntakeInv /\ VerifiersSound
  OBVIOUS
<1>. USE DEF IntakeInit
<1>1. NoHeader \in SignedHeaders
  BY DEF NoHeader, SignedHeaders
<1>2. IntakeTypeOK
  BY <1>1, AnEventType, NewJobsType, IntakeAssumption DEF IntakeTypeOK
<1>3. VJobsSound /\ VLocksSound /\ HandlersSound /\ QueueSound
  BY DEF VJobsSound, VLocksSound, HandlersSound, QueueSound, Mine, NoJob
<1>. QED BY <1>2, <1>3 DEF IntakeInv, VerifiersSound, Writing

-----------------------------------------------------------------------------
(* The handlers.  They leave the verifiers' variables alone.                    *)

LEMMA DeliverInv ==
  ASSUME IntakeInv, NEW h \in Handlers, NEW e \in Events, NEW m \in Headers, Deliver(h, e, m)
  PROVE  IntakeInv'
<1>. USE DEF IntakeInv, Deliver, HGo, verifierVars
<1>1. IntakeTypeOK'
  <2>1. delivered + 1 \in 0..MaxDeliveries
    BY IntakeAssumption DEF IntakeTypeOK
  <2>. QED BY <2>1, IntakeAssumption DEF IntakeTypeOK, HandlerSteps
<1>2. \A g \in Handlers : hpc'[g] \in {"record", "enqueue"} =>
        g # h /\ hpc[g] = hpc'[g] /\ hev'[g] = hev[g] /\ header'[g] = header[g]
  BY DEF IntakeTypeOK
<1>3. HandlersSound'
  BY <1>2 DEF HandlersSound, Mine, MustQueue
<1>. QED BY <1>1, <1>3 DEF VJobsSound, VLocksSound, QueueSound

LEMMA InsertWebhookInv ==
  ASSUME IntakeInv, NEW h \in Handlers, InsertWebhook(h)
  PROVE  IntakeInv'
<1>. USE DEF IntakeInv, InsertWebhook, HGo, verifierVars
<1>. DEFINE e == hev[h]
<1>1. e \in Events /\ ProcessingStatus(header[h]) \in Accepted \cup Refused
  BY StatusTypes DEF IntakeTypeOK
<1>2. IntakeTypeOK'
  BY <1>1 DEF IntakeTypeOK, HandlerSteps
<1>3. \A g \in Handlers : g # h =>
        hpc'[g] = hpc[g] /\ hev'[g] = hev[g] /\ header'[g] = header[g] /\ inserted'[g] = inserted[g]
  BY DEF IntakeTypeOK
<1>4. /\ hpc'[h] = "record" /\ hev'[h] = e /\ header'[h] = header[h]
      /\ inserted'[h] <=> webhook[e] = "NONE"
  BY DEF IntakeTypeOK
<1>5. \A x \in Events : \/ webhook'[x] = webhook[x]
                        \/ /\ x = e /\ webhook[x] = "NONE"
                           /\ webhook'[x] = ProcessingStatus(header[h])
  BY <1>1 DEF IntakeTypeOK
<1>6. webhook[e] = "NONE" => webhook'[e] = ProcessingStatus(header[h])
  BY <1>1 DEF IntakeTypeOK
<1>7. "NONE" \notin Accepted \cup Refused
  BY DEF Accepted, Refused
<1>8. HandlersSound'
  <2>1. \A g \in Handlers : Mine(g)' => webhook'[hev'[g]] # "NONE" /\ vjob'[hev'[g]].state = "none"
    BY <1>1, <1>3, <1>4, <1>5, <1>6, <1>7 DEF HandlersSound, Mine, IntakeTypeOK
  <2>2. \A f, g \in Handlers : Mine(f)' /\ Mine(g)' /\ hev'[f] = hev'[g] => f = g
    BY <1>3, <1>4 DEF HandlersSound, Mine
  <2>3. \A g \in Handlers : Mine(g)' /\ MustQueue(g)' => webhook'[hev'[g]] \in Accepted
    BY <1>1, <1>3, <1>4, <1>5, <1>6, <1>7, StatusTypes DEF HandlersSound, Mine, MustQueue, IntakeTypeOK
  <2>4. \A g \in Handlers : hpc'[g] = "enqueue" => MustQueue(g)' /\ hev'[g] \in recorded'
    BY <1>3, <1>4 DEF HandlersSound, MustQueue
  <2>5. \A x \in Events : webhook'[x] = "NONE" => vjob'[x].state = "none"
    BY <1>1, <1>5, <1>7 DEF HandlersSound
  <2>. QED BY <2>1, <2>2, <2>3, <2>4, <2>5 DEF HandlersSound
<1>9. QueueSound'
  BY <1>5, <1>7 DEF QueueSound, HandlersSound
<1>. QED BY <1>2, <1>8, <1>9 DEF VJobsSound, VLocksSound

LEMMA RecordProviderEventInv ==
  ASSUME IntakeInv, NEW h \in Handlers, RecordProviderEvent(h)
  PROVE  IntakeInv'
<1>. USE DEF IntakeInv, RecordProviderEvent, HGo, verifierVars
<1>1. IntakeTypeOK'
  BY DEF IntakeTypeOK, HandlerSteps
<1>2. \A g \in Handlers : g # h => hpc'[g] = hpc[g]
  BY DEF IntakeTypeOK
<1>3. hpc[h] = "record" /\ hpc'[h] = (IF MustQueue(h) THEN "enqueue" ELSE "respond")
  BY DEF IntakeTypeOK
<1>4. \A g \in Handlers : Mine(g)' => Mine(g)
  BY <1>2, <1>3 DEF Mine
<1>5. HandlersSound'
  BY <1>2, <1>3, <1>4 DEF HandlersSound, MustQueue
<1>. QED BY <1>1, <1>5 DEF VJobsSound, VLocksSound, QueueSound

LEMMA EnqueueVerificationInv ==
  ASSUME IntakeInv, NEW h \in Handlers, EnqueueVerification(h)
  PROVE  /\ IntakeInv'
         /\ vjob[hev[h]].state = "none"
<1>. USE DEF IntakeInv, EnqueueVerification, HGo, verifierVars
<1>. DEFINE e == hev[h]
<1>1. hpc[h] = "enqueue" /\ e \in Events /\ MustQueue(h) /\ Mine(h)
  BY DEF IntakeTypeOK, HandlersSound, Mine, MustQueue
<1>2. vjob[e].state = "none" /\ webhook[e] \in Accepted /\ e \in recorded /\ webhook[e] # "NONE"
  BY <1>1 DEF HandlersSound
<1>3. IntakeTypeOK'
  BY <1>1, NewJobsType DEF IntakeTypeOK, HandlerSteps
<1>4. vjob'[e] = Added /\ \A x \in Events : x # e => vjob'[x] = vjob[x]
  BY <1>1 DEF IntakeTypeOK
<1>5. \A g \in Handlers : hpc'[g] \in {"record", "enqueue"} => g # h /\ hpc'[g] = hpc[g]
  BY DEF IntakeTypeOK
<1>6. HandlersSound'
  <2>1. \A g \in Handlers : Mine(g)' => Mine(g) /\ g # h /\ hev[g] # e
    BY <1>1, <1>5 DEF HandlersSound, Mine
  <2>. QED BY <1>1, <1>2, <1>4, <1>5, <2>1 DEF HandlersSound, MustQueue, IntakeTypeOK
<1>7. VJobsSound' /\ QueueSound'
  BY <1>2, <1>4, MaxAttemptsAssumption, MaxStallsAssumption DEF VJobsSound, QueueSound, Added
<1>8. VLocksSound'
  BY <1>2, <1>4 DEF VLocksSound, IntakeTypeOK
<1>9. \A v \in Verifiers : vpc'[v] # "idle" => vjob'[vev'[v]].state # "none"
  BY <1>2, <1>4 DEF IntakeTypeOK, Added
<1>. QED BY <1>2, <1>3, <1>6, <1>7, <1>8, <1>9

LEMMA EndHandlerInv ==
  ASSUME IntakeInv, NEW h \in Handlers, Respond(h) \/ AbortHandler(h)
  PROVE  IntakeInv'
<1>. USE DEF IntakeInv, Respond, AbortHandler, EndHandler, HGo, verifierVars
<1>1. NoHeader \in SignedHeaders
  BY DEF NoHeader, SignedHeaders
<1>2. IntakeTypeOK'
  <2>1. /\ hpc' = [hpc EXCEPT ![h] = "idle"] /\ hev' = [hev EXCEPT ![h] = AnEvent]
        /\ inserted' = [inserted EXCEPT ![h] = FALSE] /\ header' = [header EXCEPT ![h] = NoHeader]
        /\ UNCHANGED <<webhook, recorded, vjob, delivered, vpc, vev, vheld, found>>
    OBVIOUS
  <2>. QED BY <1>1, <2>1, AnEventType DEF IntakeTypeOK
<1>3. \A g \in Handlers : hpc'[g] # "idle" =>
        /\ hpc'[g] = hpc[g] /\ hev'[g] = hev[g] /\ header'[g] = header[g]
        /\ inserted'[g] = inserted[g]
  BY DEF IntakeTypeOK
<1>4. HandlersSound'
  BY <1>3 DEF HandlersSound, Mine, MustQueue
<1>. QED BY <1>2, <1>4 DEF VJobsSound, VLocksSound, QueueSound

\* No handler touches what the verifiers rely on.
LEMMA HandlerKeepsVerifiers ==
  ASSUME VerifiersSound, UNCHANGED <<tx, job, trail, vpc, vev>>
  PROVE  VerifiersSound'
  BY DEF VerifiersSound, Writing, VTx

-----------------------------------------------------------------------------
(* The verifiers.  They leave the handlers' variables and the webhook rows      *)
(* alone, and never take a job that is not there.                               *)

LEMMA SameWebhooks ==
  ASSUME IntakeInv, UNCHANGED <<webhook, recorded, handlerVars>>,
         \A e \in Events : vjob[e].state = "none" <=> vjob'[e].state = "none"
  PROVE  HandlersSound' /\ QueueSound'
<1>1. QueueSound'
  BY DEF IntakeInv, QueueSound
<1>2. \A h \in Handlers : hev[h] \in Events
  BY DEF IntakeInv, IntakeTypeOK
<1>3. HandlersSound'
  BY <1>2 DEF IntakeInv, HandlersSound, Mine, MustQueue, handlerVars
<1>. QED BY <1>1, <1>3

LEMMA StartVerificationInv ==
  ASSUME IntakeInv, VerifiersSound, NEW v \in Verifiers, NEW e \in Events, StartVerification(v, e)
  PROVE  IntakeInv' /\ VerifiersSound'
<1>. USE DEF IntakeInv, StartVerification, VGo, handlerVars, transactionVars
<1>1. vjob[e] \in Jobs /\ vjob[e].state = "waiting"
  BY DEF IntakeTypeOK
<1>2. /\ Taken(vjob[e]) \in Jobs /\ Taken(vjob[e]).state = "active"
      /\ Taken(vjob[e]).failures = vjob[e].failures /\ Taken(vjob[e]).stalls = vjob[e].stalls
  BY <1>1, JobOperatorsType DEF Taken, Jobs
<1>3. vjob' = [vjob EXCEPT ![e] = Taken(vjob[e])]
  OBVIOUS
<1>4. vjob'[e] = Taken(vjob[e]) /\ \A x \in Events : x # e => vjob'[x] = vjob[x]
  BY <1>3 DEF IntakeTypeOK
<1>5. IntakeTypeOK'
  BY <1>2, <1>3 DEF IntakeTypeOK, VerifierSteps
<1>6. /\ vpc'[v] = "verify" /\ vev'[v] = e /\ vheld'[v]
      /\ \A u \in Verifiers : u # v => vpc'[u] = vpc[u] /\ vev'[u] = vev[u] /\ vheld'[u] = vheld[u]
  BY DEF IntakeTypeOK
<1>7. VJobsSound'
  BY <1>1, <1>2, <1>4 DEF VJobsSound
<1>8. VLocksSound'
  BY <1>1, <1>2, <1>4, <1>6 DEF VLocksSound, IntakeTypeOK
<1>9. HandlersSound' /\ QueueSound'
  BY <1>1, <1>2, <1>4, SameWebhooks
<1>10. \A u \in Verifiers : vpc'[u] # "idle" => vjob'[vev'[u]].state # "none"
  BY <1>2, <1>4, <1>6 DEF IntakeTypeOK
<1>11. VerifiersSound'
  BY <1>6 DEF VerifiersSound, Writing, VTx
<1>. QED BY <1>5, <1>7, <1>8, <1>9, <1>10, <1>11

\* A verifier that goes on keeps its job and its lock.
LEMMA GoOn ==
  ASSUME IntakeInv, NEW v \in Verifiers, NEW there \in VerifierSteps,
         vpc[v] # "idle", vpc' = [vpc EXCEPT ![v] = there],
         found' \in [Verifiers -> Customers \cup {NoCustomer}],
         UNCHANGED <<webhook, recorded, handlerVars, vjob, vev, vheld>>
  PROVE  IntakeInv'
<1>1. IntakeTypeOK'
  BY DEF IntakeInv, IntakeTypeOK, handlerVars
<1>2. \A u \in Verifiers : (vpc'[u] # "idle") <=> (vpc[u] # "idle")
  BY DEF IntakeInv, IntakeTypeOK, VerifierSteps
<1>3. HandlersSound' /\ QueueSound'
  BY SameWebhooks
<1>. QED BY <1>1, <1>2, <1>3 DEF IntakeInv, VJobsSound, VLocksSound

LEMMA VerifyOrFindInv ==
  ASSUME IntakeInv, VerifiersSound, NEW v \in Verifiers, VerifyTransaction(v) \/ FindAccount(v)
  PROVE  IntakeInv' /\ VerifiersSound'
<1>1. PayeeNow(VTx(v)) \in Customers \cup {NoCustomer}
  <2>1. VTx(v) \in Transactions
    BY IntakeAssumption DEF VTx, IntakeInv, IntakeTypeOK
  <2>. QED BY <2>1, OwnerAssumption, TransactionsAssumption DEF PayeeNow
<1>2. PICK there \in {"account", "insert"} :
        /\ vpc[v] # "idle" /\ vpc' = [vpc EXCEPT ![v] = there]
        /\ UNCHANGED <<webhook, recorded, handlerVars, vjob, vev, vheld, tx, job, trail>>
  BY DEF VerifyTransaction, FindAccount, VGo, transactionVars
<1>3. found' \in [Verifiers -> Customers \cup {NoCustomer}]
  BY <1>1 DEF VerifyTransaction, FindAccount, IntakeInv, IntakeTypeOK
<1>4. IntakeInv'
  BY <1>2, <1>3, GoOn DEF VerifierSteps
<1>5. \A u \in Verifiers : Writing(u)' => Writing(u) /\ vpc'[u] = vpc[u]
  BY <1>2 DEF Writing, IntakeInv, IntakeTypeOK
<1>. QED BY <1>2, <1>4, <1>5 DEF VerifiersSound, VTx

LEMMA InsertVerifiedInv ==
  ASSUME IntakeInv, VerifiersSound, NEW v \in Verifiers, InsertVerified(v),
         tx \in [Transactions -> TxStatuses],
         \A t \in Transactions : tx[t] = "NONE" => job[t].state = "none"
  PROVE  /\ IntakeInv' /\ VerifiersSound'
         /\ \/ InsertTransaction(VTx(v), found[v])
            \/ UNCHANGED <<tx, payee>>
<1>. USE DEF InsertVerified, VGo
<1>1. VTx(v) \in Transactions
  BY IntakeAssumption DEF VTx, IntakeInv, IntakeTypeOK
<1>2. PICK there \in {"event", "finish"} : vpc[v] # "idle" /\ vpc' = [vpc EXCEPT ![v] = there]
  OBVIOUS
<1>3. IntakeInv'
  <2>1. found' \in [Verifiers -> Customers \cup {NoCustomer}]
    BY DEF IntakeInv, IntakeTypeOK
  <2>. QED BY <1>2, <2>1, GoOn DEF VerifierSteps
<1>4. CASE tx[VTx(v)] = "NONE"
  <2>1. tx' = [tx EXCEPT ![VTx(v)] = "VERIFIED"] /\ vpc' = [vpc EXCEPT ![v] = "event"]
    BY <1>4 DEF InsertTransaction
  <2>2. \A u \in Verifiers : Writing(u) => VTx(u) # VTx(v)
    BY <1>4 DEF VerifiersSound
  <2>3. \A u \in Verifiers : u # v => vpc'[u] = vpc[u]
    BY <2>1 DEF IntakeInv, IntakeTypeOK
  <2>4. vpc'[v] = "event" /\ job[VTx(v)].state = "none" /\ tx'[VTx(v)] # "NONE"
    BY <1>1, <1>4, <2>1 DEF IntakeInv, IntakeTypeOK
  <2>5. \A u \in Verifiers : VTx(u) \in Transactions /\ VTx(u)' = VTx(u)
    BY IntakeAssumption DEF VTx, IntakeInv, IntakeTypeOK
  <2>6. \A t \in Transactions : t # VTx(v) => tx'[t] = tx[t]
    BY <2>1
  <2>7. VerifiersSound'
    BY <2>2, <2>3, <2>4, <2>5, <2>6 DEF VerifiersSound, Writing
  <2>. QED BY <1>3, <1>4, <2>7
<1>5. CASE tx[VTx(v)] # "NONE"
  <2>1. \A u \in Verifiers : Writing(u)' => Writing(u) /\ vpc'[u] = vpc[u]
    BY <1>5 DEF Writing, IntakeInv, IntakeTypeOK
  <2>2. UNCHANGED <<tx, payee, job, trail, vev>>
    BY <1>5
  <2>3. \A u \in Verifiers : VTx(u)' = VTx(u)
    BY <2>2 DEF VTx
  <2>4. VerifiersSound'
    BY <2>1, <2>2, <2>3 DEF VerifiersSound, Writing
  <2>. QED BY <1>3, <2>2, <2>4
<1>. QED BY <1>4, <1>5

LEMMA LogVerifiedInv ==
  ASSUME IntakeInv, VerifiersSound, NEW v \in Verifiers, LogVerified(v),
         trail \in [Transactions -> SUBSET TrailEvents]
  PROVE  IntakeInv' /\ VerifiersSound'
<1>. USE DEF LogVerified, VGo
<1>1. VTx(v) \in Transactions
  BY IntakeAssumption DEF VTx, IntakeInv, IntakeTypeOK
<1>2. IntakeInv'
  <2>1. found' \in [Verifiers -> Customers \cup {NoCustomer}]
    BY DEF IntakeInv, IntakeTypeOK
  <2>. QED BY <2>1, GoOn DEF VerifierSteps
<1>3. trail' = [trail EXCEPT ![VTx(v)] = @ \cup {"PAYMENT_VERIFIED"}]
  BY DEF LogEvent
<1>4. \A t \in Transactions : trail[t] \subseteq trail'[t]
  BY <1>3
<1>5. "PAYMENT_VERIFIED" \in trail'[VTx(v)]
  BY <1>1, <1>3
<1>6. \A u \in Verifiers : VTx(u) \in Transactions /\ VTx(u)' = VTx(u)
  BY IntakeAssumption DEF VTx, IntakeInv, IntakeTypeOK
<1>7. \A u \in Verifiers : Writing(u)' <=> Writing(u)
  BY DEF Writing, IntakeInv, IntakeTypeOK
<1>8. \A u \in Verifiers : vpc'[u] = "enqueue" => u = v \/ vpc[u] = "enqueue"
  BY DEF IntakeInv, IntakeTypeOK
<1>. QED BY <1>2, <1>4, <1>5, <1>6, <1>7, <1>8 DEF VerifiersSound

LEMMA EnqueueReconciliationInv ==
  ASSUME IntakeInv, VerifiersSound, NEW v \in Verifiers, EnqueueReconciliation(v),
         job \in [Transactions -> Jobs]
  PROVE  /\ IntakeInv' /\ VerifiersSound'
         /\ job[VTx(v)].state = "none" /\ tx[VTx(v)] # "NONE"
         /\ "PAYMENT_VERIFIED" \in trail[VTx(v)]
<1>. USE DEF EnqueueReconciliation, VGo
<1>1. VTx(v) \in Transactions /\ Writing(v)
  BY IntakeAssumption DEF VTx, Writing, IntakeInv, IntakeTypeOK
<1>2. IntakeInv'
  <2>1. found' \in [Verifiers -> Customers \cup {NoCustomer}]
    BY DEF IntakeInv, IntakeTypeOK
  <2>. QED BY <2>1, GoOn DEF VerifierSteps
<1>3. \A u \in Verifiers : VTx(u) \in Transactions /\ VTx(u)' = VTx(u)
  BY IntakeAssumption DEF VTx, IntakeInv, IntakeTypeOK
<1>4. \A u \in Verifiers : Writing(u)' => u # v /\ Writing(u) /\ vpc'[u] = vpc[u]
  BY DEF Writing, IntakeInv, IntakeTypeOK
<1>5. \A t \in Transactions : t # VTx(v) => job'[t] = job[t]
  BY DEF SetJob
<1>6. VerifiersSound'
  BY <1>1, <1>3, <1>4, <1>5 DEF VerifiersSound
<1>. QED BY <1>1, <1>2, <1>6 DEF VerifiersSound

\* A verifier that ends gives up its lock, and the queue moves the job on if it had it.
LEMMA EndVerificationInv ==
  ASSUME IntakeInv, VerifiersSound, NEW v \in Verifiers,
         FinishVerification(v) \/ FailVerification(v) \/ CrashVerifier(v)
  PROVE  IntakeInv' /\ VerifiersSound'
<1>. DEFINE j == vjob[vev[v]]
<1>1. /\ vpc' = [vpc EXCEPT ![v] = "idle"] /\ vpc[v] # "idle"
      /\ vev' = [vev EXCEPT ![v] = AnEvent] /\ vheld' = [vheld EXCEPT ![v] = FALSE]
      /\ found' = [found EXCEPT ![v] = NoCustomer]
      /\ UNCHANGED <<tx, job, trail, webhook, recorded, handlerVars>>
  BY DEF FinishVerification, FailVerification, CrashVerifier, VGo, EndVerification, transactionVars,
         VerifierSteps
<1>2. vev[v] \in Events /\ j \in Jobs
  BY DEF IntakeInv, IntakeTypeOK
<1>3. \/ vjob' = vjob
      \/ /\ vheld[v] /\ vjob' = [vjob EXCEPT ![vev[v]] = Completed(j)]
      \/ /\ vheld[v] /\ vjob' = [vjob EXCEPT ![vev[v]] = Failed(j)]
  BY DEF FinishVerification, FailVerification, CrashVerifier, SetVJob
<1>4. vheld[v] => j.state = "active" /\ j.failures < MaxAttempts /\ j.stalls <= MaxStalls
  BY <1>2 DEF IntakeInv, VLocksSound, VJobsSound
<1>5. /\ Completed(j) \in Jobs /\ Completed(j).state = "completed"
      /\ vheld[v] => /\ Failed(j) \in Jobs /\ Failed(j).state # "none"
                     /\ Failed(j).state \in {"waiting", "active"}
                          => Failed(j).failures < MaxAttempts /\ Failed(j).stalls <= MaxStalls
  <2>1. Completed(j) \in Jobs /\ Completed(j).state = "completed"
    BY <1>2, JobOperatorsType DEF Completed, Jobs
  <2>2. ASSUME vheld[v]
        PROVE  /\ Failed(j) \in Jobs /\ Failed(j).state # "none"
               /\ Failed(j).state \in {"waiting", "active"}
                    => Failed(j).failures < MaxAttempts /\ Failed(j).stalls <= MaxStalls
    BY <1>2, <1>4, <2>2, JobOperatorsType, MaxAttemptsAssumption DEF Failed, Jobs
  <2>. QED BY <2>1, <2>2
<1>6. \A e \in Events : \/ vjob'[e] = vjob[e]
                        \/ /\ e = vev[v] /\ vheld[v]
                           /\ vjob'[e] = Completed(j) \/ vjob'[e] = Failed(j)
  BY <1>2, <1>3 DEF IntakeInv, IntakeTypeOK
<1>7. \A u \in Verifiers : vpc'[u] # "idle" \/ vheld'[u] =>
        u # v /\ vpc'[u] = vpc[u] /\ vev'[u] = vev[u] /\ vheld'[u] = vheld[u]
  BY <1>1 DEF IntakeInv, IntakeTypeOK
<1>8. IntakeTypeOK'
  <2>1. vjob' \in [Events -> Jobs]
    BY <1>2, <1>3, <1>5 DEF IntakeInv, IntakeTypeOK
  <2>. QED BY <1>1, <2>1, AnEventType DEF IntakeInv, IntakeTypeOK, handlerVars
<1>9. VJobsSound'
  BY <1>5, <1>6 DEF IntakeInv, VJobsSound
<1>10. VLocksSound'
  BY <1>6, <1>7 DEF IntakeInv, VLocksSound, IntakeTypeOK
<1>11. \A e \in Events : vjob[e].state = "none" <=> vjob'[e].state = "none"
  BY <1>4, <1>5, <1>6
<1>12. HandlersSound' /\ QueueSound'
  BY <1>1, <1>11, SameWebhooks
<1>13. \A u \in Verifiers : vpc'[u] # "idle" => vjob'[vev'[u]].state # "none"
  <2>1. \A u \in Verifiers : vev[u] \in Events /\ (vpc[u] # "idle" => vjob[vev[u]].state # "none")
    BY DEF IntakeInv, IntakeTypeOK
  <2>. QED BY <1>7, <1>11, <2>1
<1>14. VerifiersSound'
  <2>1. \A u \in Verifiers : Writing(u)' => Writing(u) /\ vpc'[u] = vpc[u] /\ VTx(u)' = VTx(u)
    BY <1>7 DEF Writing, VTx
  <2>. QED BY <1>1, <2>1 DEF VerifiersSound, Writing
<1>. QED BY <1>8, <1>9, <1>10, <1>12, <1>13, <1>14 DEF IntakeInv

LEMMA StallVerificationInv ==
  ASSUME IntakeInv, VerifiersSound, NEW e \in Events, StallVerification(e)
  PROVE  IntakeInv' /\ VerifiersSound'
<1>. USE DEF IntakeInv, StallVerification, handlerVars, transactionVars
<1>1. /\ vjob[e] \in Jobs /\ vjob[e].state = "active"
      /\ vjob[e].failures < MaxAttempts /\ vjob[e].stalls <= MaxStalls
  BY DEF IntakeTypeOK, VJobsSound
<1>2. /\ Stalled(vjob[e]) \in Jobs /\ Stalled(vjob[e]).state # "none"
      /\ Stalled(vjob[e]).state \in {"waiting", "active"}
           => Stalled(vjob[e]).failures < MaxAttempts /\ Stalled(vjob[e]).stalls <= MaxStalls
  <2>1. vjob[e].failures \in Nat /\ vjob[e].stalls \in Nat
    BY <1>1, MaxAttemptsAssumption, MaxStallsAssumption DEF Jobs
  <2>2. Stalled(vjob[e]) \in Jobs
    BY <1>1, JobOperatorsType
  <2>. QED BY <1>1, <2>1, <2>2, MaxStallsAssumption DEF Stalled, Jobs
<1>3. vjob' = [vjob EXCEPT ![e] = Stalled(vjob[e])]
  OBVIOUS
<1>4. vjob'[e] = Stalled(vjob[e]) /\ \A x \in Events : x # e => vjob'[x] = vjob[x]
  BY <1>3 DEF IntakeTypeOK
<1>5. IntakeTypeOK'
  BY <1>2, <1>3 DEF IntakeTypeOK
<1>6. VJobsSound' /\ VLocksSound'
  BY <1>2, <1>4 DEF VJobsSound, VLocksSound, IntakeTypeOK
<1>7. HandlersSound' /\ QueueSound'
  BY <1>1, <1>2, <1>4, SameWebhooks
<1>8. \A u \in Verifiers : vpc'[u] # "idle" => vjob'[vev'[u]].state # "none"
  BY <1>2, <1>4 DEF IntakeTypeOK
<1>9. VerifiersSound'
  BY DEF VerifiersSound, Writing, VTx
<1>. QED BY <1>5, <1>6, <1>7, <1>8, <1>9

-----------------------------------------------------------------------------
\* The transaction rows are typed, and only a row has a job.
RowsSound == /\ TransactionsTypeOK
             /\ \A t \in Transactions : tx[t] = "NONE" => job[t].state = "none"

\* What a step of the intake may do to the rows it shares with reconciliation, and when.
RowWritten ==
  \E v \in Verifiers :
    /\ vpc[v] = "insert" /\ InsertTransaction(VTx(v), found[v])
    /\ UNCHANGED <<trail, job>>

TrailWritten ==
  \E v \in Verifiers : LogEvent(VTx(v), "PAYMENT_VERIFIED") /\ UNCHANGED <<tx, payee, job>>

JobAdded ==
  \E v \in Verifiers :
    /\ SetJob(VTx(v), Added) /\ UNCHANGED <<tx, payee, trail>>
    /\ tx[VTx(v)] # "NONE" /\ job[VTx(v)].state = "none"
    /\ "PAYMENT_VERIFIED" \in trail[VTx(v)] /\ vjob[vev[v]].state # "none"

Touched == \/ UNCHANGED transactionVars
           \/ RowWritten \/ TrailWritten \/ JobAdded

LEMMA IntakeStepInv ==
  ASSUME IntakeInv, VerifiersSound, RowsSound, IntakeNext
  PROVE  IntakeInv' /\ VerifiersSound' /\ Touched
<1>1. ASSUME NEW h \in Handlers,
             \/ HandlerStep(h) \/ AbortHandler(h)
             \/ \E e \in Events, m \in Headers : Deliver(h, e, m)
      PROVE  IntakeInv' /\ VerifiersSound' /\ Touched
  <2>1. IntakeInv'
    BY <1>1, DeliverInv, InsertWebhookInv, RecordProviderEventInv, EnqueueVerificationInv, EndHandlerInv
       DEF HandlerStep
  <2>2. UNCHANGED <<transactionVars, vpc, vev>>
    BY <1>1
       DEF HandlerStep, AbortHandler, Deliver, InsertWebhook, RecordProviderEvent,
           EnqueueVerification, Respond, verifierVars
  <2>3. UNCHANGED <<tx, job, trail, vpc, vev>>
    BY <2>2 DEF transactionVars
  <2>4. VerifiersSound'
    BY <2>3, HandlerKeepsVerifiers
  <2>. QED BY <2>1, <2>2, <2>4 DEF Touched
<1>2. ASSUME NEW v \in Verifiers, InsertVerified(v)
      PROVE  IntakeInv' /\ VerifiersSound' /\ Touched
  <2>1. IntakeInv' /\ VerifiersSound'
        /\ (InsertTransaction(VTx(v), found[v]) \/ UNCHANGED <<tx, payee>>)
    BY <1>2, InsertVerifiedInv DEF RowsSound, TransactionsTypeOK
  <2>2. vpc[v] = "insert" /\ UNCHANGED <<trail, job>>
    BY <1>2 DEF InsertVerified, VGo
  <2>. QED BY <2>1, <2>2 DEF Touched, RowWritten, transactionVars
<1>3. ASSUME NEW v \in Verifiers, LogVerified(v)
      PROVE  IntakeInv' /\ VerifiersSound' /\ Touched
  <2>1. IntakeInv' /\ VerifiersSound'
    BY <1>3, LogVerifiedInv DEF RowsSound, TransactionsTypeOK
  <2>2. TrailWritten
    BY <1>3 DEF LogVerified, TrailWritten
  <2>. QED BY <2>1, <2>2 DEF Touched
<1>4. ASSUME NEW v \in Verifiers, EnqueueReconciliation(v)
      PROVE  IntakeInv' /\ VerifiersSound' /\ Touched
  <2>1. /\ IntakeInv' /\ VerifiersSound'
        /\ job[VTx(v)].state = "none" /\ tx[VTx(v)] # "NONE"
        /\ "PAYMENT_VERIFIED" \in trail[VTx(v)]
    BY <1>4, EnqueueReconciliationInv DEF RowsSound, TransactionsTypeOK
  <2>2. vjob[vev[v]].state # "none"
    BY <1>4 DEF EnqueueReconciliation, VGo, IntakeInv
  <2>3. SetJob(VTx(v), Added) /\ UNCHANGED <<tx, payee, trail>>
    BY <1>4 DEF EnqueueReconciliation
  <2>. QED BY <2>1, <2>2, <2>3 DEF Touched, JobAdded
<1>5. ASSUME NEW v \in Verifiers,
             \/ VerifyTransaction(v) \/ FindAccount(v)
             \/ FinishVerification(v) \/ FailVerification(v) \/ CrashVerifier(v)
             \/ \E e \in Events : StartVerification(v, e)
      PROVE  IntakeInv' /\ VerifiersSound' /\ Touched
  <2>1. IntakeInv' /\ VerifiersSound'
    BY <1>5, VerifyOrFindInv, EndVerificationInv, StartVerificationInv
  <2>2. UNCHANGED transactionVars
    BY <1>5
       DEF VerifyTransaction, FindAccount, FinishVerification, FailVerification, CrashVerifier,
           StartVerification
  <2>. QED BY <2>1, <2>2 DEF Touched
<1>6. ASSUME NEW e \in Events, StallVerification(e)
      PROVE  IntakeInv' /\ VerifiersSound' /\ Touched
  <2>1. IntakeInv' /\ VerifiersSound'
    BY <1>6, StallVerificationInv
  <2>2. UNCHANGED transactionVars
    BY <1>6 DEF StallVerification
  <2>. QED BY <2>1, <2>2 DEF Touched
<1>. QED BY <1>1, <1>2, <1>3, <1>4, <1>5, <1>6 DEF IntakeNext, VerifierStep

LEMMA VTxType ==
  ASSUME IntakeInv, NEW v \in Verifiers
  PROVE  VTx(v) \in Transactions
  BY IntakeAssumption DEF VTx, IntakeInv, IntakeTypeOK

LEMMA TouchedRowsSound ==
  ASSUME IntakeInv, RowsSound, Touched
  PROVE  RowsSound'
<1>1. CASE UNCHANGED transactionVars
  BY <1>1 DEF RowsSound, TransactionsTypeOK, transactionVars
<1>2. CASE RowWritten
  <2>1. PICK v \in Verifiers : InsertTransaction(VTx(v), found[v]) /\ UNCHANGED <<trail, job>>
    BY <1>2 DEF RowWritten
  <2>2. VTx(v) \in Transactions /\ found[v] \in Customers \cup {NoCustomer}
    BY VTxType DEF IntakeInv, IntakeTypeOK
  <2>. QED BY <2>1, <2>2 DEF InsertTransaction, RowsSound, TransactionsTypeOK, TxStatuses
<1>3. CASE TrailWritten
  <2>1. PICK v \in Verifiers : LogEvent(VTx(v), "PAYMENT_VERIFIED") /\ UNCHANGED <<tx, payee, job>>
    BY <1>3 DEF TrailWritten
  <2>. QED BY <2>1, VTxType DEF LogEvent, RowsSound, TransactionsTypeOK, TrailEvents
<1>4. CASE JobAdded
  <2>1. PICK v \in Verifiers : /\ SetJob(VTx(v), Added) /\ UNCHANGED <<tx, payee, trail>>
                               /\ tx[VTx(v)] # "NONE"
    BY <1>4 DEF JobAdded
  <2>. QED BY <2>1, VTxType, NewJobsType DEF SetJob, RowsSound, TransactionsTypeOK
<1>. QED BY <1>1, <1>2, <1>3, <1>4 DEF Touched

LEMMA IntakeStutters ==
  ASSUME IntakeInv, VerifiersSound, RowsSound, UNCHANGED <<transactionVars, intakeVars>>
  PROVE  IntakeInv' /\ VerifiersSound' /\ RowsSound'
<1>. USE DEF transactionVars, intakeVars, handlerVars, verifierVars
<1>1. RowsSound'
  BY DEF RowsSound, TransactionsTypeOK
<1>2. VerifiersSound'
  BY HandlerKeepsVerifiers
<1>3. IntakeTypeOK' /\ VJobsSound' /\ VLocksSound' /\ QueueSound'
  BY DEF IntakeInv, IntakeTypeOK, VJobsSound, VLocksSound, QueueSound
<1>4. HandlersSound'
  BY DEF IntakeInv, HandlersSound, Mine, MustQueue
<1>. QED BY <1>1, <1>2, <1>3, <1>4 DEF IntakeInv

WebhookInv == IntakeInv /\ VerifiersSound /\ RowsSound

LEMMA WebhookInvInit == WebhookInit => WebhookInv
<1>. SUFFICES ASSUME WebhookInit PROVE WebhookInv
  OBVIOUS
<1>1. RowsSound
  BY NewJobsType
     DEF WebhookInit, TransactionsInit, RowsSound, TransactionsTypeOK, TxStatuses, NoJob
<1>. QED  BY <1>1, IntakeInvInit DEF WebhookInit, WebhookInv

LEMMA WebhookInvStep == WebhookInv /\ [IntakeNext]_webhookVars => WebhookInv'
<1>1. WebhookInv /\ IntakeNext => WebhookInv'
  BY IntakeStepInv, TouchedRowsSound DEF WebhookInv
<1>2. WebhookInv /\ UNCHANGED webhookVars => WebhookInv'
  BY IntakeStutters DEF WebhookInv, webhookVars
<1>. QED  BY <1>1, <1>2

LEMMA WebhookInvariant == WebhookSpec => []WebhookInv
  BY WebhookInvInit, WebhookInvStep, PTL DEF WebhookSpec

\* The intake's variables keep their types: in particular no verification is tried or handed
\* out more often than the queue allows (webhooks.service.ts, verification.processor.ts).
THEOREM IntakeTyped == WebhookSpec => []IntakeTypeOK
  BY WebhookInvariant, PTL DEF WebhookInv, IntakeInv

LEMMA FirstToAdd ==
  ASSUME IntakeInv, VerifiersSound
  PROVE  /\ \A h \in Handlers : hpc[h] = "enqueue" => vjob[hev[h]].state = "none"
         /\ \A v \in Verifiers : vpc[v] = "enqueue" => job[VTx(v)].state = "none"
  BY DEF IntakeInv, HandlersSound, VerifiersSound, Mine, MustQueue, Writing

\* Whoever adds a verification job or a reconciliation job is the first to do so
\* (receiveProviderWebhook line 72 and the verification processor's line 56, behind their
\* onConflictDoNothing), for any number of deliveries, event ids, retries and crashes.
THEOREM JobsOnce == WebhookSpec => JobsAddedOnce
<1>. DEFINE A == /\ \A h \in Handlers :
                      hpc[h] = "enqueue" /\ hpc'[h] = "respond" => vjob[hev[h]].state = "none"
                 /\ \A v \in Verifiers :
                      vpc[v] = "enqueue" /\ vpc'[v] = "finish" => job[VTx(v)].state = "none"
<1>1. WebhookInv /\ [IntakeNext]_webhookVars => [A]_webhookVars
  BY FirstToAdd DEF WebhookInv
<1>. QED BY <1>1, WebhookInvariant, PTL DEF WebhookSpec, JobsAddedOnce

-----------------------------------------------------------------------------
(* What is lost, and how.                                                       *)

VARIABLE cut   \* events and transactions whose job was still to be added when a handler stopped

StoppedEvents ==
  {hev[h] : h \in {k \in Handlers : /\ hpc[k] = "enqueue" \/ (hpc[k] = "record" /\ MustQueue(k))
                                    /\ hpc'[k] = "idle"}}

StoppedTransactions ==
  {VTx(v) : v \in {u \in Verifiers : vpc[u] \in {"event", "enqueue"} /\ vpc'[u] = "idle"}}

CutInit == WebhookInit /\ cut = {}

CutNext == IntakeNext /\ cut' = cut \cup StoppedEvents \cup StoppedTransactions

CutSpec == CutInit /\ [][CutNext]_<<webhookVars, cut>>

\* A webhook is lost in two ways only, and they are the two that AcknowledgedIsQueued and
\* VerifiedIsQueued run into.  An accepted event is queued for verification once no handler works
\* on it, unless a handler stopped after it wrote the row and before it added the job; a verified
\* transaction is queued for reconciliation once no verifier works on it, unless a verifier
\* stopped after the row and before the job.
LostOnlyWhenStopped ==
  /\ \A e \in Events :
       /\ webhook[e] \in Accepted
       /\ \A h \in Handlers : hpc[h] = "idle" \/ hev[h] # e
       => vjob[e].state # "none" \/ e \in cut
  /\ \A t \in Transactions :
       /\ tx[t] # "NONE"
       /\ \A v \in Verifiers : vpc[v] = "idle" \/ VTx(v) # t
       => job[t].state # "none" \/ t \in cut

\* The handler that will queue its event, if nothing stops it.
Pending(h) == hpc[h] \in {"record", "enqueue"} /\ MustQueue(h)

\* An accepted event and a transaction's row each have a job, or somebody about to add it, or
\* somebody who was stopped on the way to it.
Kept ==
  /\ \A e \in Events : webhook[e] \in Accepted =>
       \/ vjob[e].state # "none" \/ e \in cut
       \/ \E h \in Handlers : Pending(h) /\ hev[h] = e
  /\ \A t \in Transactions : tx[t] # "NONE" =>
       \/ job[t].state # "none" \/ t \in cut
       \/ \E v \in Verifiers : Writing(v) /\ VTx(v) = t

\* A status that accepts an event is one the event is queued under.
LEMMA AcceptedIsQueued ==
  ASSUME NEW m, ProcessingStatus(m) \in Accepted
  PROVE  ShouldVerify(m)
<1>1. SecretConfigured \in BOOLEAN
  BY IntakeAssumption
<1>. QED  BY <1>1 DEF ProcessingStatus, ShouldVerify, SignatureValid, ReplayProtected, Accepted

LEMMA JobsRemain ==
  ASSUME IntakeInv, RowsSound, IntakeNext
  PROVE  /\ \A e \in Events : vjob[e].state # "none" => vjob'[e].state # "none"
         /\ \A t \in Transactions : job[t].state # "none" => job'[t].state # "none"
<1>. USE DEF IntakeInv, IntakeTypeOK
<1>1. \A j \in Jobs : /\ Taken(j).state # "none" /\ Completed(j).state # "none"
                     /\ Failed(j).state # "none" /\ Stalled(j).state # "none"
                     /\ Added.state # "none"
  BY DEF Jobs, Taken, Completed, Failed, Stalled, Added
<1>2. CASE \E h \in Handlers : EnqueueVerification(h)
  BY <1>1, <1>2, NewJobsType DEF EnqueueVerification, transactionVars
<1>3. CASE \E v \in Verifiers : FinishVerification(v) \/ FailVerification(v)
  <2>1. PICK v \in Verifiers : FinishVerification(v) \/ FailVerification(v)
    BY <1>3
  <2>2. PICK j : /\ SetVJob(v, j) /\ UNCHANGED job
                 /\ j = Completed(vjob[vev[v]]) \/ j = Failed(vjob[vev[v]])
    BY <2>1 DEF FinishVerification, FailVerification, transactionVars
  <2>3. j.state # "none"
    BY <1>1, <2>2
  <2>. QED  BY <2>2, <2>3 DEF SetVJob
<1>4. CASE \E v \in Verifiers : EnqueueReconciliation(v)
  <2>1. PICK v \in Verifiers : EnqueueReconciliation(v)
    BY <1>4
  <2>2. vjob' = vjob /\ job' = [job EXCEPT ![VTx(v)] = Added]
    BY <2>1 DEF EnqueueReconciliation, SetJob
  <2>. QED  BY <1>1, <2>2, NewJobsType DEF RowsSound, TransactionsTypeOK
<1>5. CASE \E v \in Verifiers, e \in Events : StartVerification(v, e)
  BY <1>1, <1>5 DEF StartVerification, transactionVars
<1>6. CASE \E e \in Events : StallVerification(e)
  BY <1>1, <1>6 DEF StallVerification, transactionVars
<1>7. CASE UNCHANGED <<vjob, job>>
  BY <1>7
<1>8. \/ \E h \in Handlers : EnqueueVerification(h)
      \/ \E v \in Verifiers : FinishVerification(v) \/ FailVerification(v) \/ EnqueueReconciliation(v)
      \/ \E v \in Verifiers, e \in Events : StartVerification(v, e)
      \/ \E e \in Events : StallVerification(e)
      \/ UNCHANGED <<vjob, job>>
  BY DEF IntakeNext, HandlerStep, VerifierStep, InsertWebhook, RecordProviderEvent, Respond,
         AbortHandler, Deliver, VerifyTransaction, FindAccount, InsertVerified, LogVerified,
         CrashVerifier, transactionVars
<1>. QED  BY <1>2, <1>3, <1>4, <1>5, <1>6, <1>7, <1>8

\* Whoever is about to add a job still is, adds it, or stops.
LEMMA PendingGoesOn ==
  ASSUME IntakeInv, IntakeNext, NEW h \in Handlers, Pending(h)
  PROVE  \/ Pending(h)' /\ hev'[h] = hev[h]
         \/ vjob'[hev[h]] = Added
         \/ hev[h] \in StoppedEvents
<1>. USE DEF IntakeInv, IntakeTypeOK, Pending, HGo
<1>1. hpc[h] = "enqueue" \/ (hpc[h] = "record" /\ MustQueue(h))
  OBVIOUS
<1>2. CASE EnqueueVerification(h)
  BY <1>2 DEF EnqueueVerification
<1>3. CASE RecordProviderEvent(h)
  BY <1>3 DEF RecordProviderEvent, MustQueue
<1>4. CASE AbortHandler(h)
  <2>1. hpc'[h] = "idle"
    BY <1>4 DEF AbortHandler
  <2>. QED  BY <1>1, <2>1 DEF StoppedEvents
<1>5. CASE UNCHANGED <<hpc[h], hev[h], header[h], inserted[h]>>
  BY <1>5 DEF MustQueue
<1>6. \/ EnqueueVerification(h) \/ RecordProviderEvent(h) \/ AbortHandler(h)
      \/ UNCHANGED <<hpc[h], hev[h], header[h], inserted[h]>>
  <2>1. CASE \E g \in Handlers : HandlerStep(g) \/ AbortHandler(g)
    BY <2>1 DEF HandlerStep, InsertWebhook, RecordProviderEvent, EnqueueVerification, Respond,
                AbortHandler, EndHandler
  <2>2. CASE \E g \in Handlers, e \in Events, m \in Headers : Deliver(g, e, m)
    BY <2>2 DEF Deliver
  <2>3. CASE UNCHANGED handlerVars
    BY <2>3 DEF handlerVars
  <2>4. \A v \in Verifiers, e \in Events :
          StartVerification(v, e) \/ StallVerification(e) => UNCHANGED handlerVars
    BY DEF StartVerification, StallVerification
  <2>5. \A v \in Verifiers :
          VerifierStep(v) \/ FailVerification(v) \/ CrashVerifier(v) => UNCHANGED handlerVars
    BY DEF VerifierStep, VerifyTransaction, FindAccount, InsertVerified, LogVerified,
           EnqueueReconciliation, FinishVerification, FailVerification, CrashVerifier
  <2>6. \A e \in Events : StallVerification(e) => UNCHANGED handlerVars
    BY DEF StallVerification
  <2>. QED  BY <2>1, <2>2, <2>3, <2>4, <2>5, <2>6 DEF IntakeNext
<1>. QED  BY <1>2, <1>3, <1>4, <1>5, <1>6

LEMMA WritingGoesOn ==
  ASSUME IntakeInv, RowsSound, IntakeNext, NEW v \in Verifiers, Writing(v), NEW t \in Transactions, VTx(v) = t
  PROVE  \/ (Writing(v) /\ VTx(v) = t)'
         \/ job'[t].state # "none"
         \/ t \in StoppedTransactions
<1>. USE DEF IntakeInv, IntakeTypeOK, Writing, VGo
<1>1. CASE LogVerified(v)
  BY <1>1 DEF LogVerified, VTx
<1>2. CASE EnqueueReconciliation(v)
  BY <1>2 DEF EnqueueReconciliation, SetJob, Added, RowsSound, TransactionsTypeOK
<1>3. CASE FailVerification(v) \/ CrashVerifier(v)
  <2>1. vpc'[v] = "idle"
    BY <1>3 DEF FailVerification, CrashVerifier
  <2>. QED  BY <2>1 DEF StoppedTransactions
<1>4. CASE UNCHANGED <<vpc[v], vev[v]>>
  BY <1>4 DEF VTx
<1>5. \/ LogVerified(v) \/ EnqueueReconciliation(v) \/ FailVerification(v) \/ CrashVerifier(v)
      \/ UNCHANGED <<vpc[v], vev[v]>>
  <2>1. CASE \E u \in Verifiers : VerifierStep(u) \/ FailVerification(u) \/ CrashVerifier(u)
    BY <2>1 DEF VerifierStep, VerifyTransaction, FindAccount, InsertVerified, LogVerified,
                EnqueueReconciliation, FinishVerification, FailVerification, CrashVerifier,
                EndVerification
  <2>2. CASE \E u \in Verifiers, e \in Events : StartVerification(u, e)
    BY <2>2 DEF StartVerification
  <2>3. \A e \in Events : StallVerification(e) => UNCHANGED <<vpc[v], vev[v]>>
    BY DEF StallVerification
  <2>4. \A h \in Handlers : HandlerStep(h) \/ AbortHandler(h) => UNCHANGED <<vpc[v], vev[v]>>
    BY DEF HandlerStep, InsertWebhook, RecordProviderEvent, EnqueueVerification, Respond,
           AbortHandler, verifierVars
  <2>5. \A h \in Handlers, e \in Events, m \in Headers :
          Deliver(h, e, m) => UNCHANGED <<vpc[v], vev[v]>>
    BY DEF Deliver, verifierVars
  <2>. QED  BY <2>1, <2>2, <2>3, <2>4, <2>5 DEF IntakeNext
<1>. QED  BY <1>1, <1>2, <1>3, <1>4, <1>5
LEMMA KeptStep ==
  ASSUME IntakeInv, RowsSound, Kept, IntakeNext, cut' = cut \cup StoppedEvents \cup StoppedTransactions
  PROVE  Kept'
<1>. USE DEF IntakeInv, IntakeTypeOK
<1>1. ASSUME NEW e \in Events, webhook'[e] \in Accepted
      PROVE  \/ vjob'[e].state # "none" \/ e \in cut'
             \/ \E h \in Handlers : Pending(h)' /\ hev'[h] = e
  <2>1. CASE webhook[e] \in Accepted
    <3>1. ASSUME NEW h \in Handlers, Pending(h), hev[h] = e
          PROVE  (Pending(h)' /\ hev'[h] = e) \/ vjob'[e].state # "none" \/ e \in cut'
      BY <3>1, PendingGoesOn DEF Added
    <3>. QED  BY <2>1, <3>1, JobsRemain DEF Kept
  <2>2. CASE webhook[e] \notin Accepted
    <3>1. \E h \in Handlers : InsertWebhook(h)
      BY <1>1, <2>2
         DEF IntakeNext, HandlerStep, VerifierStep, RecordProviderEvent, EnqueueVerification,
             Respond, AbortHandler, Deliver, VerifyTransaction, FindAccount, InsertVerified,
             LogVerified, EnqueueReconciliation, FinishVerification, FailVerification,
             CrashVerifier, StartVerification, StallVerification
    <3>2. PICK h \in Handlers : InsertWebhook(h)
      BY <3>1
    <3>3. hev[h] = e /\ webhook[e] = "NONE" /\ ProcessingStatus(header[h]) \in Accepted
      BY <1>1, <2>2, <3>2 DEF InsertWebhook
    <3>4. hpc'[h] = "record" /\ inserted'[h] /\ header'[h] = header[h] /\ hev'[h] = e
      BY <3>2, <3>3 DEF InsertWebhook, HGo
    <3>. QED  BY <3>3, <3>4, AcceptedIsQueued DEF Pending, MustQueue
  <2>. QED  BY <2>1, <2>2
<1>2. ASSUME NEW t \in Transactions, tx'[t] # "NONE"
      PROVE  \/ job'[t].state # "none" \/ t \in cut'
             \/ \E v \in Verifiers : (Writing(v) /\ VTx(v) = t)'
  <2>1. CASE tx[t] # "NONE"
    <3>1. ASSUME NEW v \in Verifiers, Writing(v), VTx(v) = t
          PROVE  (Writing(v) /\ VTx(v) = t)' \/ job'[t].state # "none" \/ t \in cut'
      BY <3>1, WritingGoesOn
    <3>. QED  BY <2>1, <3>1, JobsRemain DEF Kept
  <2>2. CASE tx[t] = "NONE"
    <3>1. \E v \in Verifiers : InsertVerified(v)
      BY <1>2, <2>2
         DEF IntakeNext, HandlerStep, VerifierStep, InsertWebhook, RecordProviderEvent,
             EnqueueVerification, Respond, AbortHandler, Deliver, VerifyTransaction, FindAccount,
             LogVerified, EnqueueReconciliation, FinishVerification, FailVerification,
             CrashVerifier, StartVerification, StallVerification, transactionVars
    <3>2. PICK v \in Verifiers : InsertVerified(v)
      BY <3>1
    <3>3. VTx(v) = t /\ vpc'[v] = "event" /\ vev' = vev
      BY <1>2, <2>2, <3>2 DEF InsertVerified, InsertTransaction, VGo, RowsSound, TransactionsTypeOK
    <3>. QED  BY <3>3 DEF Writing, VTx
  <2>. QED  BY <2>1, <2>2
<1>. QED  BY <1>1, <1>2 DEF Kept

LEMMA CutInvariant == CutSpec => [](WebhookInv /\ Kept)
<1>1. CutInit => WebhookInit /\ Kept
  BY DEF CutInit, WebhookInit, IntakeInit, TransactionsInit, Kept, Accepted
<1>2. WebhookInv /\ Kept /\ [CutNext]_<<webhookVars, cut>> => Kept'
  <2>1. WebhookInv /\ Kept /\ CutNext => Kept'
    BY KeptStep DEF WebhookInv, CutNext
  <2>2. Kept /\ UNCHANGED <<webhookVars, cut>> => Kept'
    BY DEF Kept, Pending, Writing, VTx, MustQueue, webhookVars, transactionVars, intakeVars,
           handlerVars, verifierVars
  <2>. QED  BY <2>1, <2>2
<1>3. [CutNext]_<<webhookVars, cut>> => [IntakeNext]_webhookVars
  BY DEF CutNext
<1>4. CutSpec => []WebhookInv
  <2>1. WebhookInit => WebhookInv
    BY WebhookInvInit
  <2>2. WebhookInv /\ [IntakeNext]_webhookVars => WebhookInv'
    BY WebhookInvStep
  <2>. QED  BY <1>1, <1>3, <2>1, <2>2, PTL DEF CutSpec
<1>. QED  BY <1>1, <1>2, <1>4, PTL DEF CutSpec

\* An accepted webhook and a verified payment are lost only where a handler or a verifier was
\* stopped between the row and the job that the row makes every repetition skip.
THEOREM LostOnlyIfStopped == CutSpec => []LostOnlyWhenStopped
<1>1. WebhookInv /\ Kept => LostOnlyWhenStopped
  BY DEF Kept, Pending, Writing, LostOnlyWhenStopped
<1>. QED  BY <1>1, CutInvariant, PTL

-----------------------------------------------------------------------------
\* An accepted webhook row, its provider event and the verification behind t.
Original(t) == /\ \E e \in EventsOf(t) : webhook[e] \in Accepted /\ e \in recorded
               /\ "PAYMENT_VERIFIED" \in trail[t]

Queued(t) == job[t].state # "none"

\* A job exists only for what was verified; everything the reconciler has or leaves behind is
\* about a transaction whose job existed.
OriginInv ==
  /\ \A t \in Transactions : Queued(t) => Original(t)
  /\ \A w \in Workers : wpc[w] # "idle" => Queued(wtx[w])
  /\ \A t \in Transactions : caseStatus[t] # "NONE" => Queued(t)
  /\ \A r \in Requests : rpc[r] # "idle" => Queued(rtx[r])
  /\ \A i \in DOMAIN ledger : Queued(ledger[i].transaction)

Rightful(c, t) == c = OwnerOf[Recipient[t]] \/ c = NoCustomer

\* Whom a payment is booked to is its account's customer or nobody, from the look-up on.
OwnerInv ==
  /\ \A v \in Verifiers : vpc[v] = "insert" => Rightful(found[v], VTx(v))
  /\ \A t \in Transactions : Rightful(payee[t], t)
  /\ CreditGoesToOwner

PipelineInv == TypeInv /\ IntakeInv /\ VerifiersSound /\ OriginInv /\ OwnerInv

LEMMA RowsFollow == ASSUME TypeInv PROVE RowsSound
  BY DEF TypeInv, TypeOK, JobsSound, RowsSound

LEMMA RowsHaveTransactions ==
  ASSUME TypeInv
  PROVE  /\ \A w \in Workers : wtx[w] \in Transactions
         /\ \A r \in Requests : rtx[r] \in Transactions
         /\ \A i \in DOMAIN ledger : ledger[i].transaction \in Transactions
<1>1. ledger \in Seq(Entries)
  BY DEF TypeInv, TypeOK, RecordsTypeOK
<1>2. \A i \in DOMAIN ledger : ledger[i] \in Entries
  BY <1>1
<1>3. \A i \in DOMAIN ledger : ledger[i].transaction \in Transactions
  BY <1>2 DEF Entries
<1>. QED BY <1>3 DEF TypeInv, TypeOK, WorkersTypeOK, RequestsTypeOK

LEMMA QueuedHaveRows ==
  ASSUME TypeInv, NEW t \in Transactions, Queued(t)
  PROVE  tx[t] # "NONE"
  BY DEF TypeInv, JobsSound, Queued

-----------------------------------------------------------------------------
(* A step of the intake.                                                        *)

LEMMA IntakeKeepsDirectory == IntakeNext => UNCHANGED directoryVars
  BY DEF IntakeNext, HandlerStep, VerifierStep, Deliver, InsertWebhook, RecordProviderEvent,
         EnqueueVerification, Respond, AbortHandler, StartVerification, VerifyTransaction,
         FindAccount, InsertVerified, LogVerified, EnqueueReconciliation, FinishVerification,
         FailVerification, CrashVerifier, StallVerification

\* Rows that were accepted stay so, and what is on record stays there.
LEMMA WebhooksStay ==
  ASSUME IntakeInv, IntakeNext, NEW e \in Events
  PROVE  /\ webhook[e] \in Accepted => webhook'[e] \in Accepted
         /\ e \in recorded => e \in recorded'
<1>1. CASE \E h \in Handlers : InsertWebhook(h)
  BY <1>1 DEF InsertWebhook, IntakeInv, IntakeTypeOK, Accepted
<1>2. CASE \E h \in Handlers : RecordProviderEvent(h)
  BY <1>2 DEF RecordProviderEvent
<1>3. CASE UNCHANGED <<webhook, recorded>>
  BY <1>3
<1>4. \/ \E h \in Handlers : InsertWebhook(h) \/ RecordProviderEvent(h)
      \/ UNCHANGED <<webhook, recorded>>
  BY DEF IntakeNext, HandlerStep, VerifierStep, Deliver, EnqueueVerification, Respond,
         AbortHandler, StartVerification, VerifyTransaction, FindAccount, InsertVerified,
         LogVerified, EnqueueReconciliation, FinishVerification, FailVerification, CrashVerifier,
         StallVerification
<1>. QED BY <1>1, <1>2, <1>3, <1>4

\* A verifier about to insert has just looked the account up, or had done so before.
LEMMA FoundStays ==
  ASSUME IntakeInv, IntakeNext, NEW v \in Verifiers, vpc'[v] = "insert"
  PROVE  \/ vpc[v] = "insert" /\ vev'[v] = vev[v] /\ found'[v] = found[v]
         \/ vev'[v] = vev[v] /\ found'[v] = PayeeNow(VTx(v))
<1>. USE DEF IntakeInv, IntakeTypeOK
<1>1. CASE \E u \in Verifiers : \/ VerifierStep(u) \/ FailVerification(u) \/ CrashVerifier(u)
                                \/ \E e \in Events : StartVerification(u, e)
  <2>1. PICK u \in Verifiers : \/ VerifierStep(u) \/ FailVerification(u) \/ CrashVerifier(u)
                               \/ \E e \in Events : StartVerification(u, e)
    BY <1>1
  <2>2. CASE u = v
    BY <2>1, <2>2
       DEF VerifierStep, VerifyTransaction, FindAccount, InsertVerified, LogVerified,
           EnqueueReconciliation, FinishVerification, FailVerification, CrashVerifier,
           StartVerification, VGo
  <2>3. CASE u # v
    BY <2>1, <2>3
       DEF VerifierStep, VerifyTransaction, FindAccount, InsertVerified, LogVerified,
           EnqueueReconciliation, FinishVerification, FailVerification, CrashVerifier,
           StartVerification, VGo, EndVerification
  <2>. QED BY <2>2, <2>3
<1>2. CASE UNCHANGED <<vpc, vev, found>>
  BY <1>2
<1>3. \/ \E u \in Verifiers : \/ VerifierStep(u) \/ FailVerification(u) \/ CrashVerifier(u)
                              \/ \E e \in Events : StartVerification(u, e)
      \/ UNCHANGED <<vpc, vev, found>>
  BY DEF IntakeNext, HandlerStep, Deliver, InsertWebhook, RecordProviderEvent,
         EnqueueVerification, Respond, AbortHandler, StallVerification, verifierVars
<1>. QED BY <1>1, <1>2, <1>3

LEMMA IntakeStep ==
  ASSUME PipelineInv, IntakeNext, UNCHANGED <<recordVars, workerVars, requestVars>>
  PROVE  PipelineInv'
<1>. USE DEF PipelineInv
<1>1. RowsSound
  BY RowsFollow
<1>2. IntakeInv' /\ VerifiersSound' /\ Touched /\ RowsSound'
  BY <1>1, IntakeStepInv, TouchedRowsSound
<1>3. UNCHANGED directoryVars
  BY IntakeKeepsDirectory
<1>4. \A v \in Verifiers : VTx(v) \in Transactions /\ vev[v] \in Events
  BY VTxType DEF IntakeInv, IntakeTypeOK
\* Only a transaction without a job gets one.
<1>5. \A t \in Transactions :
        job'[t] = job[t] \/ (job[t].state = "none" /\ job'[t] = Added /\ JobAdded)
  <2>1. CASE JobAdded
    <3>1. PICK v \in Verifiers : SetJob(VTx(v), Added) /\ job[VTx(v)].state = "none"
      BY <2>1 DEF JobAdded
    <3>2. job' = [job EXCEPT ![VTx(v)] = Added] /\ job \in [Transactions -> Jobs]
      BY <1>1, <3>1 DEF SetJob, RowsSound, TransactionsTypeOK
    <3>. QED BY <2>1, <3>1, <3>2
  <2>2. CASE ~JobAdded
    BY <1>2, <2>2 DEF Touched, RowWritten, TrailWritten, transactionVars
  <2>. QED BY <2>1, <2>2
<1>6. TypeInv'
  <2>1. TypeOK'
    BY <1>2, <1>3
       DEF TypeInv, TypeOK, RowsSound, directoryVars, recordVars, workerVars, requestVars,
           DirectoryTypeOK, RecordsTypeOK, WorkersTypeOK, RequestsTypeOK
  <2>2. JobsSound'
    BY <1>2, <1>5, MaxAttemptsAssumption, MaxStallsAssumption
       DEF TypeInv, JobsSound, RowsSound, Added
  <2>3. LocksSound'
    <3>1. \A w \in Workers : wtx[w] \in Transactions
      BY DEF TypeInv, TypeOK, WorkersTypeOK
    <3>. QED BY <1>5, <3>1 DEF TypeInv, LocksSound, workerVars
  <2>. QED BY <2>1, <2>2, <2>3 DEF TypeInv
<1>7. \A t \in Transactions : trail[t] \subseteq trail'[t]
  BY <1>2 DEF Touched, RowWritten, TrailWritten, JobAdded, LogEvent, transactionVars, RowsSound,
             TransactionsTypeOK
<1>8. OriginInv'
  <2>1. \A t \in Transactions : Queued(t) => Queued(t)'
    BY <1>5 DEF Queued, Added
  <2>2. \A t \in Transactions : Original(t) => Original(t)'
    BY <1>7, WebhooksStay DEF Original, EventsOf
  <2>3. ASSUME JobAdded, NEW t \in Transactions, job[t].state = "none", job'[t] # job[t]
        PROVE  Original(t)
    <3>1. PICK v \in Verifiers :
            /\ SetJob(VTx(v), Added) /\ "PAYMENT_VERIFIED" \in trail[VTx(v)]
            /\ vjob[vev[v]].state # "none"
      BY <2>3 DEF JobAdded
    <3>2. t = VTx(v)
      BY <2>3, <3>1 DEF SetJob, RowsSound, TransactionsTypeOK, TypeInv, TypeOK
    <3>3. webhook[vev[v]] \in Accepted /\ vev[v] \in recorded /\ vev[v] \in EventsOf(t)
      BY <1>4, <3>1, <3>2 DEF IntakeInv, QueueSound, EventsOf, VTx
    <3>. QED BY <3>1, <3>2, <3>3 DEF Original
  <2>4. \A t \in Transactions : Queued(t)' => Original(t)'
    <3>. SUFFICES ASSUME NEW t \in Transactions, Queued(t)' PROVE Original(t)'
      OBVIOUS
    <3>1. CASE Queued(t)
      BY <2>2, <3>1 DEF OriginInv
    <3>2. CASE ~Queued(t)
      <4>1. JobAdded /\ job[t].state = "none" /\ job'[t] # job[t]
        BY <1>5, <3>2 DEF Queued, Added
      <4>. QED BY <2>2, <2>3, <4>1
    <3>. QED BY <3>1, <3>2
  <2>5. /\ \A w \in Workers : wtx[w] \in Transactions
        /\ \A r \in Requests : rtx[r] \in Transactions
        /\ \A i \in DOMAIN ledger : ledger[i].transaction \in Transactions
    BY RowsHaveTransactions
  <2>. QED BY <2>1, <2>4, <2>5 DEF OriginInv, recordVars, workerVars, requestVars, Queued
<1>9. OwnerInv'
  <2>1. \A v \in Verifiers : vpc'[v] = "insert" => Rightful(found[v], VTx(v))'
    BY FoundStays DEF OwnerInv, Rightful, PayeeNow, VTx
  <2>2. \A t \in Transactions : Rightful(payee'[t], t)
    BY <1>2, <1>4
       DEF Touched, RowWritten, TrailWritten, JobAdded, InsertTransaction, transactionVars, OwnerInv,
           Rightful, RowsSound, TransactionsTypeOK
  <2>3. CreditGoesToOwner'
    <3>1. \A i \in DOMAIN ledger : tx[ledger[i].transaction] # "NONE"
      BY QueuedHaveRows, RowsHaveTransactions DEF OriginInv
    <3>2. ASSUME NEW t \in Transactions, tx[t] # "NONE" PROVE payee'[t] = payee[t]
      BY <1>2, <1>4, <3>2
         DEF Touched, RowWritten, TrailWritten, JobAdded, InsertTransaction, transactionVars,
             RowsSound, TransactionsTypeOK
    <3>. QED BY <3>1, <3>2, RowsHaveTransactions DEF OwnerInv, CreditGoesToOwner, recordVars
  <2>. QED BY <2>1, <2>2, <2>3 DEF OwnerInv, Rightful
<1>. QED BY <1>2, <1>6, <1>8, <1>9

-----------------------------------------------------------------------------
(* A step of the reconciler.                                                    *)

\* No job appears or disappears, no row loses its payee.
LEMMA JobsStay ==
  ASSUME TypeInv, ReconciliationNext
  PROVE  /\ \A t \in Transactions : Queued(t)' <=> Queued(t)
         /\ \A t \in Transactions : tx[t] # "NONE" => tx'[t] # "NONE"
         /\ payee' = payee
<1>. USE DEF TypeInv, TypeOK, Queued, TransactionsTypeOK, transactionVars
<1>1. CASE \E w \in Workers : Settle(w)
  BY <1>1, StatusForType DEF Settle, SetTx, Settled
<1>2. CASE \E r \in Requests : SettleManual(r)
  BY <1>2 DEF SettleManual, SetTx
<1>3. CASE \E w \in Workers : Finish(w) \/ Fail(w)
  <2>1. PICK w \in Workers : Finish(w) \/ Fail(w)
    BY <1>3
  <2>2. held[w] => job[wtx[w]].state = "active"
    BY DEF LocksSound
  <2>3. job[wtx[w]] \in Jobs /\ wtx[w] \in Transactions
    BY RowsHaveTransactions
  <2>4. Completed(job[wtx[w]]).state # "none" /\ Failed(job[wtx[w]]).state # "none"
    BY <2>3 DEF Completed, Failed, Jobs
  <2>5. PICK j : SetJob(wtx[w], j) /\ (j = job[wtx[w]] \/ (held[w] /\ j.state # "none"))
    BY <2>1, <2>4 DEF Finish, Fail
  <2>6. UNCHANGED <<tx, payee>>
    BY <2>1 DEF Finish, Fail
  <2>. QED BY <2>2, <2>3, <2>5, <2>6 DEF SetJob
<1>4. CASE \E t \in Transactions : \/ Stall(t)
                                   \/ \E w \in Workers : Start(w, t)
  <2>1. PICK t \in Transactions : Stall(t) \/ \E w \in Workers : Start(w, t)
    BY <1>4
  <2>a. job[t] \in Jobs
    OBVIOUS
  <2>b. Stalled(job[t]).state # "none" /\ Taken(job[t]).state # "none"
    BY <2>a DEF Stalled, Taken, Jobs
  <2>2. PICK j : SetJob(t, j) /\ job[t].state # "none" /\ j.state # "none"
    BY <2>1, <2>b DEF Stall, Start
  <2>3. UNCHANGED <<tx, payee>>
    BY <2>1 DEF Stall, Start
  <2>. QED BY <2>2, <2>3 DEF SetJob
<1>5. \/ \E w \in Workers : Settle(w) \/ Finish(w) \/ Fail(w)
      \/ \E r \in Requests : SettleManual(r)
      \/ \E t \in Transactions : Stall(t) \/ \E w \in Workers : Start(w, t)
      \/ UNCHANGED <<tx, payee, job>>
  BY DEF ReconciliationNext, WorkerStep, ReadAccount, ReadCustomer, ReadHistory, Decide,
         AppendCredit, InsertCase, LogOutcome, EmitOutcome, Crash, RequestStep, AppendManual,
         CloseCase, AuditAction, LogOverride, EmitCaseUpdated, AbortRequest, Resolve, DirectoryStep
<1>6. CASE UNCHANGED <<tx, payee, job>>
  BY <1>6
<1>. QED BY <1>1, <1>2, <1>3, <1>4, <1>5, <1>6

\* A worker is at work on the transaction it was at work on, or has taken a waiting job.
LEMMA WorkersFollowJobs ==
  ASSUME TypeInv, ReconciliationNext, NEW w \in Workers, wpc'[w] # "idle"
  PROVE  \/ wpc[w] # "idle" /\ wtx'[w] = wtx[w]
         \/ job[wtx'[w]].state = "waiting"
<1>. USE DEF TypeInv, TypeOK, WorkersTypeOK
<1>1. CASE \E v \in Workers : WorkerStep(v)
  BY <1>1 DEF WorkerStep, ReadAccount, ReadCustomer, ReadHistory, Decide, AppendCredit, InsertCase,
              Settle, LogOutcome, EmitOutcome, Finish, Forget, Go
<1>2. CASE \E v \in Workers : Fail(v) \/ Crash(v)
  BY <1>2 DEF Fail, Crash, Quit, Forget
<1>3. CASE \E v \in Workers, t \in Transactions : Start(v, t)
  BY <1>3 DEF Start, Go
<1>4. \/ \E v \in Workers : WorkerStep(v) \/ Fail(v) \/ Crash(v)
      \/ \E v \in Workers, t \in Transactions : Start(v, t)
      \/ UNCHANGED <<wpc, wtx>>
  BY DEF ReconciliationNext, Stall, RequestStep, AppendManual, SettleManual, CloseCase,
         AuditAction, LogOverride, EmitCaseUpdated, AbortRequest, Resolve, DirectoryStep, workerVars
<1>. QED BY <1>1, <1>2, <1>3, <1>4

\* A case appears only under a worker, and is closed only by a request that found it.
LEMMA CasesFollowWorkers ==
  ASSUME TypeInv, ReconciliationNext, NEW t \in Transactions, caseStatus'[t] # "NONE"
  PROVE  \/ caseStatus[t] # "NONE"
         \/ \E w \in Workers : wpc[w] # "idle" /\ wtx[w] = t
         \/ \E r \in Requests : rpc[r] # "idle" /\ rtx[r] = t
<1>. USE DEF TypeInv, TypeOK, RecordsTypeOK
<1>1. CASE \E w \in Workers : InsertCase(w)
  BY <1>1 DEF InsertCase, OpenCase, Go
<1>2. CASE \E r \in Requests : CloseCase(r)
  BY <1>2 DEF CloseCase, RGo
<1>3. \/ \E w \in Workers : InsertCase(w)
      \/ \E r \in Requests : CloseCase(r)
      \/ UNCHANGED caseStatus
  BY DEF ReconciliationNext, WorkerStep, ReadAccount, ReadCustomer, ReadHistory, Decide,
         AppendCredit, Settle, LogOutcome, EmitOutcome, Finish, Fail, Crash, Start, Stall,
         RequestStep, AppendManual, SettleManual, AuditAction, LogOverride, EmitCaseUpdated,
         AbortRequest, Resolve, DirectoryStep, recordVars
<1>. QED BY <1>1, <1>2, <1>3

\* A request goes on with its case, or has just found one.
LEMMA RequestsFollowCases ==
  ASSUME TypeInv, ReconciliationNext, NEW r \in Requests, rpc'[r] # "idle"
  PROVE  \/ rpc[r] # "idle" /\ rtx'[r] = rtx[r]
         \/ rtx'[r] \in Transactions /\ caseStatus[rtx'[r]] # "NONE"
<1>. USE DEF TypeInv, TypeOK, RequestsTypeOK
<1>1. CASE \E q \in Requests : RequestStep(q) \/ AbortRequest(q)
  BY <1>1 DEF RequestStep, AppendManual, SettleManual, CloseCase, AuditAction, LogOverride,
              EmitCaseUpdated, AbortRequest, EndRequest, RGo
<1>2. CASE \E q \in Requests, t \in Transactions, a \in CaseActions : Resolve(q, t, a)
  BY <1>2 DEF Resolve, RGo
<1>3. \/ \E q \in Requests : RequestStep(q) \/ AbortRequest(q)
      \/ \E q \in Requests, t \in Transactions, a \in CaseActions : Resolve(q, t, a)
      \/ UNCHANGED <<rpc, rtx>>
  BY DEF ReconciliationNext, WorkerStep, ReadAccount, ReadCustomer, ReadHistory, Decide,
         AppendCredit, InsertCase, Settle, LogOutcome, EmitOutcome, Finish, Fail, Crash, Start,
         Stall, DirectoryStep, requestVars
<1>. QED BY <1>1, <1>2, <1>3

\* Every new row of the ledger is about the transaction its writer was at work on, and goes to
\* whom CreditedCustomer says.
LEMMA NewEntries ==
  ASSUME TypeInv, ReconciliationNext, NEW i \in DOMAIN ledger'
  PROVE  \/ i \in DOMAIN ledger /\ ledger'[i] = ledger[i]
         \/ \E w \in Workers :
              /\ wpc[w] # "idle"
              /\ ledger'[i] = Entry("ledger", wtx[w], CreditedCustomer("ledger", wtx[w]))
         \/ \E r \in Requests :
              /\ rpc[r] # "idle"
              /\ ledger'[i] = Entry("manual", rtx[r], CreditedCustomer("manual", rtx[r]))
<1>1. ledger \in Seq(Entries) /\ TypeOK
  BY DEF TypeInv, TypeOK, RecordsTypeOK
<1>2. ASSUME NEW kind \in {"ledger", "manual"}, NEW t \in Transactions,
             AppendEntry(kind, t, CreditedCustomer(kind, t))
      PROVE  \/ i \in DOMAIN ledger /\ ledger'[i] = ledger[i]
             \/ ledger'[i] = Entry(kind, t, CreditedCustomer(kind, t))
  <2>. DEFINE e == Entry(kind, t, CreditedCustomer(kind, t))
  <2>1. e \in Entries
    BY <1>1, CreditedCustomerType DEF Entry, Entries
  <2>2. ledger' = ledger \/ ledger' = Append(ledger, e)
    BY <1>2 DEF AppendEntry
  <2>. HIDE DEF e
  <2>3. (i \in DOMAIN ledger /\ ledger'[i] = ledger[i]) \/ ledger'[i] = e
    BY <1>1, <2>1, <2>2
  <2>. QED BY <2>3 DEF e
<1>3. CASE UNCHANGED ledger
  BY <1>3
<1>4. CASE \E w \in Workers : AppendCredit(w)
  BY <1>2, <1>4, RowsHaveTransactions DEF AppendCredit, Go
<1>5. CASE \E r \in Requests : AppendManual(r)
  BY <1>2, <1>5, RowsHaveTransactions DEF AppendManual, RGo
<1>. QED BY <1>3, <1>4, <1>5, LedgerSteps DEF Next

LEMMA ReconciliationStep ==
  ASSUME PipelineInv, ReconciliationNext, UNCHANGED intakeVars
  PROVE  PipelineInv'
<1>. USE DEF PipelineInv
<1>. USE RowsHaveTransactions
<1>1. TypeInv'
  BY TypeInvStep DEF Next
<1>2. /\ \A t \in Transactions : Queued(t)' <=> Queued(t)
      /\ \A t \in Transactions : tx[t] # "NONE" => tx'[t] # "NONE"
      /\ payee' = payee
  BY JobsStay
<1>3. \A t \in Transactions : trail[t] \subseteq trail'[t]
  BY GrowsStep DEF Grows, Next
<1>4. IntakeInv'
  <2>1. IntakeTypeOK' /\ VJobsSound' /\ VLocksSound' /\ QueueSound'
    BY DEF IntakeInv, IntakeTypeOK, VJobsSound, VLocksSound, QueueSound, intakeVars, handlerVars,
           verifierVars
  <2>2. HandlersSound'
    BY DEF IntakeInv, HandlersSound, Mine, MustQueue, intakeVars, handlerVars
  <2>. QED BY <2>1, <2>2 DEF IntakeInv, intakeVars, verifierVars
<1>5. VerifiersSound'
  <2>1. \A v \in Verifiers : VTx(v) \in Transactions /\ VTx(v)' = VTx(v)
    BY VTxType DEF VTx, intakeVars, verifierVars
  <2>2. \A v \in Verifiers : Writing(v)' <=> Writing(v)
    BY DEF Writing, intakeVars, verifierVars
  <2>. QED BY <1>2, <1>3, <2>1, <2>2 DEF VerifiersSound, Queued, intakeVars, verifierVars
<1>6. OriginInv'
  <2>1. \A t \in Transactions : Queued(t)' => Original(t)'
    BY <1>2, <1>3 DEF OriginInv, Original, EventsOf, intakeVars
  <2>2. \A w \in Workers : wpc'[w] # "idle" => Queued(wtx[w])'
    <3>. SUFFICES ASSUME NEW w \in Workers, wpc'[w] # "idle" PROVE Queued(wtx[w])'
      OBVIOUS
    <3>1. wtx'[w] \in Transactions
      BY <1>1 DEF TypeInv, TypeOK, WorkersTypeOK
    <3>2. job[wtx'[w]].state # "none"
      BY WorkersFollowJobs DEF OriginInv, Queued
    <3>. QED BY <1>2, <3>1, <3>2 DEF Queued
  <2>3. \A t \in Transactions : caseStatus'[t] # "NONE" => Queued(t)'
    BY <1>2, CasesFollowWorkers DEF OriginInv
  <2>4. \A r \in Requests : rpc'[r] # "idle" => Queued(rtx[r])'
    BY <1>2, RequestsFollowCases DEF OriginInv, Queued
  <2>5. \A i \in DOMAIN ledger' : Queued(ledger[i].transaction)'
    BY <1>2, NewEntries DEF OriginInv, Queued, Entry
  <2>. QED BY <2>1, <2>2, <2>3, <2>4, <2>5 DEF OriginInv
<1>7. OwnerInv'
  <2>1. \A v \in Verifiers : vpc'[v] = "insert" => Rightful(found[v], VTx(v))'
    BY DEF OwnerInv, Rightful, VTx, intakeVars, verifierVars
  <2>2. \A t \in Transactions : Rightful(payee'[t], t)
    BY <1>2 DEF OwnerInv
  <2>3. CreditGoesToOwner'
    BY <1>2, NewEntries, RowsHaveTransactions
       DEF OwnerInv, CreditGoesToOwner, Entry, CreditedCustomer, Rightful
  <2>. QED BY <2>1, <2>2, <2>3 DEF OwnerInv, Rightful
<1>. QED BY <1>1, <1>4, <1>5, <1>6, <1>7

-----------------------------------------------------------------------------
LEMMA PipelineInvInit == PipelineInit => PipelineInv
<1>. SUFFICES ASSUME PipelineInit PROVE PipelineInv
  OBVIOUS
<1>. USE DEF PipelineInit
<1>1. TypeInv
  BY TypeInvInit DEF WebhookInit, Init
<1>2. IntakeInv /\ VerifiersSound
  BY IntakeInvInit DEF WebhookInit
<1>3. OriginInv /\ OwnerInv
  BY DEF WebhookInit, TransactionsInit, IntakeInit, ReconciliationInit, OriginInv, OwnerInv, Queued,
         NoJob, Rightful, CreditGoesToOwner
<1>. QED BY <1>1, <1>2, <1>3 DEF PipelineInv

LEMMA PipelineStutters ==
  ASSUME PipelineInv, UNCHANGED pipelineVars
  PROVE  PipelineInv'
<1>. USE DEF PipelineInv, pipelineVars
<1>1. TypeInv'
  BY TypeInvStep
<1>2. IntakeInv' /\ VerifiersSound'
  BY RowsFollow, IntakeStutters DEF vars
<1>3. OriginInv' /\ OwnerInv'
  BY DEF OriginInv, OwnerInv, Queued, Original, EventsOf, Rightful, CreditGoesToOwner, VTx, vars,
         transactionVars, recordVars, workerVars, requestVars, intakeVars, verifierVars
<1>. QED BY <1>1, <1>2, <1>3

\* Every step is one half's.
LEMMA PipelineSteps ==
  ASSUME PipelineNext
  PROVE  \/ IntakeNext /\ UNCHANGED <<recordVars, workerVars, requestVars>>
         \/ ReconciliationNext /\ UNCHANGED intakeVars
  BY DEF PipelineNext, CalmNext, FaultNext, IntakeNext, ReconciliationNext

LEMMA PipelineInvariant == PipelineSpec => []PipelineInv
<1>1. PipelineInv /\ PipelineNext => PipelineInv'
  <2>. SUFFICES ASSUME PipelineInv, PipelineNext PROVE PipelineInv'
    OBVIOUS
  <2>. QED BY PipelineSteps, IntakeStep, ReconciliationStep
<1>2. PipelineInv /\ [PipelineNext]_pipelineVars => PipelineInv'
  BY <1>1, PipelineStutters
<1>. QED BY <1>2, PipelineInvInit, PTL DEF PipelineSpec

\* Behind every credit, automatic or manual, are an accepted webhook, its provider event and
\* the trail entry of its verification, whatever else is being delivered, verified,
\* reconciled or resolved at the time.
THEOREM CreditsHaveOrigin == PipelineSpec => []CreditHasOrigin
<1>1. PipelineInv => CreditHasOrigin
  BY RowsHaveTransactions DEF PipelineInv, OriginInv, Original, CreditHasOrigin, CreditsOf
<1>. QED BY <1>1, PipelineInvariant, PTL

\* Every credit is in the statement of the account's customer; a manual one is in nobody's where
\* the transaction's row names nobody, and in no case in another customer's
\* (verification.processor.ts line 35, reconciliation.service.ts lines 116 and 159).
THEOREM CreditsGoToOwner == PipelineSpec => []CreditGoesToOwner
<1>1. PipelineInv => CreditGoesToOwner
  BY DEF PipelineInv, OwnerInv
<1>. QED BY <1>1, PipelineInvariant, PTL

\* Neither half disturbs the types of the other's variables.
THEOREM PipelineTyped == PipelineSpec => [](TypeOK /\ IntakeTypeOK)
<1>1. PipelineInv => TypeOK /\ IntakeTypeOK
  BY DEF PipelineInv, TypeInv, IntakeInv
<1>. QED BY <1>1, PipelineInvariant, PTL

\* Nor does the reconciler, however it repeats its jobs, make a verifier or a handler add one
\* twice.
THEOREM PipelineJobsOnce == PipelineSpec => JobsAddedOnce
<1>. DEFINE A == /\ \A h \in Handlers :
                      hpc[h] = "enqueue" /\ hpc'[h] = "respond" => vjob[hev[h]].state = "none"
                 /\ \A v \in Verifiers :
                      vpc[v] = "enqueue" /\ vpc'[v] = "finish" => job[VTx(v)].state = "none"
<1>1. PipelineInv /\ [PipelineNext]_pipelineVars => [A]_webhookVars
  BY FirstToAdd DEF PipelineInv
<1>. QED BY <1>1, PipelineInvariant, PTL DEF PipelineSpec, JobsAddedOnce
-----------------------------------------------------------------------------
(* What the reconciler promises (CreditInv) was proved of verifiers that take   *)
(* the row, the event and the job in one go for each payment.  Here they race   *)
(* and repeat one another, and the promises are kept all the same: to the       *)
(* reconciler a step of the intake only adds.                                   *)

LEMMA IntakeAdds ==
  ASSUME PipelineInv, IntakeNext, UNCHANGED <<recordVars, workerVars, requestVars>>
  PROVE  /\ Grows
         /\ \A t \in Transactions :
              /\ tx'[t] \in {tx[t], "VERIFIED"}
              /\ job'[t].state \in {job[t].state, "waiting"}
<1>. USE DEF PipelineInv
<1>1. Touched /\ RowsSound
  BY RowsFollow, IntakeStepInv
<1>2. \A v \in Verifiers : VTx(v) \in Transactions
  BY VTxType
<1>3. ASSUME NEW t \in Transactions
      PROVE  /\ tx'[t] = tx[t] \/ (tx[t] = "NONE" /\ tx'[t] = "VERIFIED")
             /\ trail[t] \subseteq trail'[t]
             /\ job'[t] = job[t] \/ job'[t] = Added
  BY <1>1, <1>2
     DEF Touched, RowWritten, TrailWritten, JobAdded, InsertTransaction, LogEvent, SetJob,
         transactionVars, RowsSound, TransactionsTypeOK
<1>4. Grows
  BY <1>3 DEF Grows, Credited, recordVars, Settled
<1>. QED BY <1>3, <1>4 DEF Added

LEMMA IntakeKeepsCredits ==
  ASSUME PipelineInv, CreditInv, StatusSound, IntakeNext,
         UNCHANGED <<recordVars, workerVars, requestVars>>
  PROVE  CreditInv' /\ StatusSound'
<1>1. TypeInv
  BY DEF PipelineInv
<1>2. /\ Grows
      /\ \A t \in Transactions : /\ tx'[t] \in {tx[t], "VERIFIED"}
                                 /\ job'[t].state \in {job[t].state, "waiting"}
  BY IntakeAdds
<1>3. \A w \in Workers : WorkerKnows(w)'
  BY <1>1, <1>2, WorkerRemembers DEF CreditInv, workerVars
<1>4. \A r \in Requests : RequestKnows(r)'
  BY <1>1, <1>2, RequestRemembers DEF CreditInv, requestVars
<1>5. UniqueReference' /\ ApprovedIsCredited'
  BY DEF CreditInv, UniqueReference, ApprovedIsCredited, Credited, recordVars
<1>6. ReconciledIsCredited'
  BY <1>2 DEF CreditInv, ReconciledIsCredited, CreditsOf, recordVars
<1>7. NoticesAreTrue'
  BY <1>2 DEF CreditInv, NoticesAreTrue, Credited, Grows, recordVars
<1>8. CompletedIsSettled'
  BY <1>2 DEF CreditInv, CompletedIsSettled, Grows, recordVars
<1>9. StatusSound'
  BY <1>2 DEF StatusSound, RequestsSound, Settled, recordVars, requestVars
<1>. QED BY <1>3, <1>4, <1>5, <1>6, <1>7, <1>8, <1>9 DEF CreditInv

KeepsPromises == PipelineInv /\ CreditInv /\ StatusSound

LEMMA PromisesInvariant == PipelineSpec => []KeepsPromises
<1>1. PipelineInit => CreditInv /\ StatusSound
  BY DEF PipelineInit, WebhookInit, TransactionsInit, ReconciliationInit, NoJob, CreditInv,
         WorkerKnows, RequestKnows, UniqueReference, ReconciledIsCredited, ApprovedIsCredited,
         NoticesAreTrue, CompletedIsSettled, StatusSound, RequestsSound, Settled
<1>2. KeepsPromises /\ PipelineNext => CreditInv' /\ StatusSound'
  <2>. SUFFICES ASSUME KeepsPromises, PipelineNext PROVE CreditInv' /\ StatusSound'
    OBVIOUS
  <2>1. CASE ReconciliationNext
    BY <2>1, CreditInvStep, StatusSoundStep DEF KeepsPromises, PipelineInv, Next
  <2>. QED BY <2>1, PipelineSteps, IntakeKeepsCredits DEF KeepsPromises
<1>3. KeepsPromises /\ UNCHANGED pipelineVars => CreditInv' /\ StatusSound'
  BY CreditInvStep, StatusSoundStep DEF KeepsPromises, PipelineInv, pipelineVars
<1>4. KeepsPromises /\ [PipelineNext]_pipelineVars => CreditInv' /\ StatusSound'
  BY <1>2, <1>3
<1>. QED BY <1>1, <1>4, PipelineInvariant, PTL DEF PipelineSpec, KeepsPromises

\* However the webhooks of a payment are repeated and its verifications fail halfway: one entry
\* per reference, no RECONCILED row, APPROVED case, notice or completed job without what it
\* stands for (reconciliation.service.ts and its processor, fed by verification.processor.ts).
THEOREM PipelineKeepsPromises ==
  PipelineSpec => [](/\ UniqueReference /\ ReconciledIsCredited /\ ApprovedIsCredited
                     /\ NoticesAreTrue /\ CompletedIsSettled)
<1>1. KeepsPromises => /\ UniqueReference /\ ReconciledIsCredited /\ ApprovedIsCredited
                       /\ NoticesAreTrue /\ CompletedIsSettled
  BY DEF KeepsPromises, CreditInv
<1>. QED BY <1>1, PromisesInvariant, PTL

\* Nothing final is known of a transaction before it was verified and decided: a case, a final
\* status or a credit has behind it the accepted webhook and the decision.
FinalHasHistory ==
  \A t \in Transactions :
    caseStatus[t] # "NONE" \/ tx[t] \in Settled =>
      /\ decision[t] # "NONE" /\ "PAYMENT_VERIFIED" \in trail[t]
      /\ \E e \in EventsOf(t) : webhook[e] \in Accepted /\ e \in recorded

\* The same, of every execution of the pipeline (verification.processor.ts comes before
\* reconciliation.service.ts on every path).
THEOREM FinalsHaveHistory == PipelineSpec => []FinalHasHistory
<1>1. ASSUME KeepsPromises PROVE FinalHasHistory
  <2>. SUFFICES ASSUME NEW t \in Transactions, caseStatus[t] # "NONE" \/ tx[t] \in Settled
                PROVE  decision[t] # "NONE" /\ Original(t)
    BY DEF FinalHasHistory, Original
  <2>1. decision[t] # "NONE"
    BY <1>1 DEF KeepsPromises, StatusSound
  <2>2. Queued(t)
    <3>1. CASE caseStatus[t] # "NONE"
      BY <1>1, <3>1 DEF KeepsPromises, PipelineInv, OriginInv
    <3>2. CASE tx[t] = "RECONCILED"
      <4>1. PICK i \in DOMAIN ledger : ledger[i].transaction = t
        BY <1>1, <3>2 DEF KeepsPromises, CreditInv, ReconciledIsCredited, CreditsOf
      <4>. QED BY <1>1, <4>1 DEF KeepsPromises, PipelineInv, OriginInv
    <3>3. CASE tx[t] \in {"MANUAL_REVIEW", "REJECTED"}
      BY <1>1, <3>1, <3>3 DEF KeepsPromises, StatusSound
    <3>. QED BY <3>1, <3>2, <3>3 DEF Settled
  <2>. QED BY <1>1, <2>1, <2>2 DEF KeepsPromises, PipelineInv, OriginInv
<1>. QED BY <1>1, PromisesInvariant, PTL

\* A closed or restricted account stays without automatic credit, also when the webhook that
\* brings the payment is still on its way (RULE_ACCOUNT_STATUS of the reconciler).
THEOREM PipelineBarredUncredited == PipelineSpec => BarredStaysUncredited
<1>. DEFINE Found(t) == account[Recipient[t]] \in {"CLOSED", "RESTRICTED"} /\ ~Busy(t)
                          /\ ~Credited(t, "ledger")
            Always(t) == [](Found(t) => []~Credited(t, "ledger"))
<1>1. ASSUME NEW t \in Transactions PROVE PipelineSpec => Always(t)
  <2>1. KeepsPromises /\ Found(t) => Uncreditable(t)
    BY DEF Busy, Uncreditable, Barred
  <2>2. ASSUME KeepsPromises, [PipelineNext]_pipelineVars, Uncreditable(t) PROVE Uncreditable(t)'
    <3>1. CASE ReconciliationNext \/ UNCHANGED pipelineVars
      BY <2>2, <3>1, UncreditableStep DEF KeepsPromises, PipelineInv, Next, pipelineVars
    <3>2. CASE IntakeNext /\ UNCHANGED <<recordVars, workerVars, requestVars>>
      BY <2>2, <3>2, IntakeKeepsDirectory
         DEF Uncreditable, Credited, recordVars, workerVars, directoryVars
    <3>. QED BY <2>2, <3>1, <3>2, PipelineSteps
  <2>3. Uncreditable(t) => ~Credited(t, "ledger")
    BY DEF Uncreditable
  <2>. HIDE DEF Found
  <2>. QED BY <2>1, <2>2, <2>3, PromisesInvariant, PTL DEF PipelineSpec
<1>2. PipelineSpec => \A t \in Transactions : Always(t)
  <2>. HIDE DEF Always
  <2>. QED BY <1>1
<1>. QED BY <1>2 DEF BarredStaysUncredited

-----------------------------------------------------------------------------
(* Payments verified after their account was opened.                            *)

\* From the moment OwnerIsKnown(t) holds: whoever is about to write the row of t has found the
\* owner, the row names the owner, and so do the credits.
KnownInv(t) ==
  /\ account[Recipient[t]] # NoStatus
  /\ \A v \in Verifiers : vpc[v] = "insert" /\ VTx(v) = t => found[v] = OwnerOf[Recipient[t]]
  /\ tx[t] # "NONE" => payee[t] = OwnerOf[Recipient[t]]
  /\ PaidToOwner(t)

\* An account that was opened is never a missing one again.
LEMMA AccountsStay ==
  ASSUME TypeInv, ReconciliationNext, NEW a \in Accounts, account[a] # NoStatus
  PROVE  account'[a] # NoStatus
<1>1. CASE DirectoryStep
  BY <1>1
     DEF DirectoryStep, DirectoryNext, EditsNext, OpenAccount, SetStatus, SetTier, Rename, RecordRename,
         LoseRename, TypeInv, TypeOK, DirectoryTypeOK, NoStatus
<1>2. CASE UNCHANGED directoryVars
  BY <1>2 DEF directoryVars
<1>3. DirectoryStep \/ UNCHANGED directoryVars
  BY DEF ReconciliationNext, WorkerStep, ReadAccount, ReadCustomer, ReadHistory, Decide,
         AppendCredit, InsertCase, Settle, LogOutcome, EmitOutcome, Finish, Fail, Crash, Start,
         Stall, RequestStep, AppendManual, SettleManual, CloseCase, AuditAction, LogOverride,
         EmitCaseUpdated, AbortRequest, Resolve
<1>. QED  BY <1>1, <1>2, <1>3

LEMMA KnownInvIntake ==
  ASSUME PipelineInv, IntakeNext, UNCHANGED <<recordVars, workerVars, requestVars>>,
         NEW t \in Transactions, KnownInv(t)
  PROVE  KnownInv(t)'
<1>. USE DEF PipelineInv
<1>1. UNCHANGED directoryVars
  BY IntakeKeepsDirectory
<1>2. account'[Recipient[t]] # NoStatus
  BY <1>1 DEF KnownInv, directoryVars
<1>3. ASSUME NEW v \in Verifiers, vpc'[v] = "insert", VTx(v)' = t
      PROVE  found'[v] = OwnerOf[Recipient[t]]
  <2>1. \/ vpc[v] = "insert" /\ VTx(v) = t /\ found'[v] = found[v]
        \/ VTx(v) = t /\ found'[v] = PayeeNow(t)
    BY <1>3, FoundStays DEF VTx
  <2>. QED  BY <2>1 DEF KnownInv, PayeeNow
<1>4. tx'[t] # "NONE" => payee'[t] = OwnerOf[Recipient[t]]
  <2>1. CASE RowWritten
    <3>1. PICK v \in Verifiers : /\ vpc[v] = "insert" /\ InsertTransaction(VTx(v), found[v])
      BY <2>1 DEF RowWritten
    <3>2. VTx(v) \in Transactions /\ RowsSound
      BY VTxType, RowsFollow
    <3>. QED  BY <3>1, <3>2 DEF InsertTransaction, KnownInv, RowsSound, TransactionsTypeOK
  <2>2. CASE UNCHANGED <<tx, payee>>
    BY <2>2 DEF KnownInv
  <2>3. Touched
    BY RowsFollow, IntakeStepInv
  <2>. QED  BY <2>1, <2>2, <2>3 DEF Touched, TrailWritten, JobAdded, transactionVars
<1>5. PaidToOwner(t)'
  BY DEF KnownInv, PaidToOwner, recordVars
<1>. QED  BY <1>2, <1>3, <1>4, <1>5 DEF KnownInv

\* The reconciler and the administrators write no row that was not there.
LEMMA RowsStay ==
  ASSUME PipelineInv, ReconciliationNext, NEW t \in Transactions, tx[t] = "NONE"
  PROVE  tx'[t] = "NONE"
<1>. USE DEF PipelineInv
<1>1. ~Queued(t)
  BY QueuedHaveRows
<1>2. CASE \E w \in Workers : Settle(w)
  BY <1>1, <1>2 DEF Settle, Go, SetTx, OriginInv, TypeInv, TypeOK, TransactionsTypeOK
<1>3. CASE \E r \in Requests : SettleManual(r)
  BY <1>1, <1>3 DEF SettleManual, RGo, SetTx, OriginInv, TypeInv, TypeOK, TransactionsTypeOK
<1>4. \/ \E w \in Workers : Settle(w)
      \/ \E r \in Requests : SettleManual(r)
      \/ UNCHANGED tx
  BY DEF ReconciliationNext, WorkerStep, ReadAccount, ReadCustomer, ReadHistory, Decide,
         AppendCredit, InsertCase, LogOutcome, EmitOutcome, Finish, Fail, Crash, Start, Stall,
         RequestStep, AppendManual, CloseCase, AuditAction, LogOverride, EmitCaseUpdated,
         AbortRequest, Resolve, DirectoryStep, transactionVars
<1>. QED  BY <1>2, <1>3, <1>4

LEMMA KnownInvReconciliation ==
  ASSUME PipelineInv, ReconciliationNext, UNCHANGED intakeVars,
         NEW t \in Transactions, KnownInv(t)
  PROVE  KnownInv(t)'
<1>. USE DEF PipelineInv
<1>1. account'[Recipient[t]] # NoStatus
  BY AccountsStay, TransactionsAssumption DEF KnownInv
<1>2. \A v \in Verifiers : vpc'[v] = "insert" /\ VTx(v)' = t => found'[v] = OwnerOf[Recipient[t]]
  BY DEF KnownInv, VTx, intakeVars, verifierVars
<1>3. payee' = payee /\ (tx'[t] # "NONE" => tx[t] # "NONE")
  BY JobsStay, RowsStay
<1>4. PaidToOwner(t)'
  <2>. SUFFICES ASSUME NEW i \in DOMAIN ledger', ledger'[i].transaction = t
                PROVE  ledger'[i].customer = OwnerOf[Recipient[t]]
    BY DEF PaidToOwner
  <2>1. CASE i \in DOMAIN ledger /\ ledger'[i] = ledger[i]
    BY <2>1 DEF KnownInv, PaidToOwner
  <2>2. ASSUME NEW w \in Workers, ledger'[i] = Entry("ledger", wtx[w], CreditedCustomer("ledger", wtx[w]))
        PROVE  ledger'[i].customer = OwnerOf[Recipient[t]]
    BY <2>2 DEF Entry, CreditedCustomer
  <2>3. ASSUME NEW r \in Requests, rpc[r] # "idle",
               ledger'[i] = Entry("manual", rtx[r], CreditedCustomer("manual", rtx[r]))
        PROVE  ledger'[i].customer = OwnerOf[Recipient[t]]
    <3>1. rtx[r] = t /\ Queued(t)
      BY <2>3 DEF Entry, OriginInv
    <3>2. payee[t] = OwnerOf[Recipient[t]]
      BY <3>1, QueuedHaveRows DEF KnownInv
    <3>. QED  BY <2>3, <3>1, <3>2 DEF Entry, CreditedCustomer
  <2>. QED  BY <2>1, <2>2, <2>3, NewEntries
<1>. QED  BY <1>1, <1>2, <1>3, <1>4 DEF KnownInv

\* A payment whose account exists before anybody has looked it up, or whose look-ups so far have
\* all come to nothing, is credited to the account's customer only, at once or by any number of
\* administrators, whatever becomes of the account (verification.processor.ts lines 31-35).
THEOREM KnownOwnersArePaid == PipelineSpec => KnownOwnerIsPaid
<1>. DEFINE Always(t) == [](OwnerIsKnown(t) => []PaidToOwner(t))
<1>1. ASSUME NEW t \in Transactions PROVE PipelineSpec => Always(t)
  <2>1. PipelineInv /\ OwnerIsKnown(t) => KnownInv(t)
    <3>. SUFFICES ASSUME PipelineInv, OwnerIsKnown(t) PROVE PaidToOwner(t)
      BY DEF OwnerIsKnown, KnownInv
    <3>1. ~Queued(t)
      BY QueuedHaveRows DEF PipelineInv, OwnerIsKnown
    <3>. QED  BY <3>1 DEF PipelineInv, OriginInv, PaidToOwner
  <2>2. ASSUME PipelineInv, [PipelineNext]_pipelineVars, KnownInv(t) PROVE KnownInv(t)'
    <3>1. CASE PipelineNext
      BY <2>2, <3>1, PipelineSteps, KnownInvIntake, KnownInvReconciliation
    <3>2. CASE UNCHANGED pipelineVars
      BY <2>2, <3>2
         DEF KnownInv, PaidToOwner, VTx, pipelineVars, vars, directoryVars, transactionVars,
             recordVars, intakeVars, verifierVars
    <3>. QED  BY <2>2, <3>1, <3>2
  <2>3. KnownInv(t) => PaidToOwner(t)
    BY DEF KnownInv
  <2>. HIDE DEF OwnerIsKnown, PaidToOwner, KnownInv
  <2>. QED  BY <2>1, <2>2, <2>3, PipelineInvariant, PTL DEF PipelineSpec
<1>2. PipelineSpec => \A t \in Transactions : Always(t)
  <2>. HIDE DEF Always
  <2>. QED BY <1>1
<1>. QED BY <1>2 DEF KnownOwnerIsPaid
=============================================================================
