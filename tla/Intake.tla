------------------------------- MODULE Intake --------------------------------
(* The way of a provider webhook to a verified transaction:                     *)
(* WebhooksService.receiveProviderWebhook, run once per delivery, and           *)
(* VerificationProcessor.process, run by the workers of the verification queue. *)
(* The provider delivers an event as often as it likes, the same payment may    *)
(* come under several event ids, and either handler may stop between two of     *)
(* its statements.                                                              *)
EXTENDS Transactions

CONSTANTS Events,           \* provider event ids
          TransactionOf,    \* the transaction the provider reports for an event
          SecretConfigured, \* a webhook secret is configured
          Headers,          \* how deliveries may be signed, a subset of SignedHeaders
          Handlers,         \* concurrent executions of receiveProviderWebhook
          Verifiers,        \* concurrent executions of VerificationProcessor.process
          MaxDeliveries     \* bound on the deliveries of all events

\* The headers of a delivery: what they name, whether the signature is the one the secret gives
\* for this payload and this timestamp, and how the timestamp stands to the clock.
SignedHeaders == [algorithm : {"none", "hmacsha256", "other"}, version : {"none", "1.0.0", "other"},
                  signature : {"none", "computed", "other"},
                  timestamp : {"none", "unreadable", "within", "beyond"}]

ASSUME IntakeAssumption == /\ TransactionOf \in [Events -> Transactions]
                           /\ SecretConfigured \in BOOLEAN
                           /\ Headers \subseteq SignedHeaders
                           /\ MaxDeliveries \in Nat
ASSUME SomeEventAssumption == Events # {}

VARIABLES webhook,      \* webhook_events.processing_status, "NONE": no row
          recorded,     \* the events in provider_events
          delivered,    \* deliveries so far
          hpc, hev,     \* a handler's next statement and its event
          header,       \* the headers of the delivery it handles
          inserted,     \* its insert into webhook_events returned a row
          vjob,         \* the verify-provider-transaction job
          vpc, vev,     \* a verifier's next statement and its event
          vheld,        \* it still owns the lock of its job
          found         \* the customer it found behind the recipient account

handlerVars == <<hpc, hev, header, inserted, delivered>>
verifierVars == <<vpc, vev, vheld, found>>
intakeVars == <<webhook, recorded, vjob, handlerVars, verifierVars>>
webhookVars == <<directoryVars, transactionVars, intakeVars>>

Accepted == {"RECEIVED", "RECEIVED_PENDING_PROVIDER_VERIFICATION"}
Refused == {"SIGNATURE_HEADER_UNSUPPORTED", "SIGNATURE_FAILED", "REPLAY_REJECTED"}
HandlerSteps == {"insert", "record", "enqueue", "respond"}
VerifierSteps == {"verify", "account", "insert", "event", "enqueue", "finish"}

IntakeTypeOK ==
  /\ webhook \in [Events -> Accepted \cup Refused \cup {"NONE"}]
  /\ recorded \subseteq Events
  /\ delivered \in 0..MaxDeliveries
  /\ hpc \in [Handlers -> HandlerSteps \cup {"idle"}]
  /\ hev \in [Handlers -> Events]
  /\ header \in [Handlers -> SignedHeaders]
  /\ inserted \in [Handlers -> BOOLEAN]
  /\ vjob \in [Events -> Jobs]
  /\ vpc \in [Verifiers -> VerifierSteps \cup {"idle"}]
  /\ vev \in [Verifiers -> Events]
  /\ vheld \in [Verifiers -> BOOLEAN]
  /\ found \in [Verifiers -> Customers \cup {NoCustomer}]

AnEvent == CHOOSE e \in Events : TRUE
NoHeader == [algorithm |-> "none", version |-> "none", signature |-> "none", timestamp |-> "none"]

IntakeInit ==
  /\ webhook = [e \in Events |-> "NONE"]
  /\ recorded = {}
  /\ delivered = 0
  /\ hpc = [h \in Handlers |-> "idle"]
  /\ hev = [h \in Handlers |-> AnEvent]
  /\ header = [h \in Handlers |-> NoHeader]
  /\ inserted = [h \in Handlers |-> FALSE]
  /\ vjob = [e \in Events |-> NoJob]
  /\ vpc = [v \in Verifiers |-> "idle"]
  /\ vev = [v \in Verifiers |-> AnEvent]
  /\ vheld = [v \in Verifiers |-> FALSE]
  /\ found = [v \in Verifiers |-> NoCustomer]

-----------------------------------------------------------------------------
(* receiveProviderWebhook                                                       *)

\* supportsNombaSignatureHeaders(): a missing name is taken for the expected one.
Supported(m) == m.algorithm # "other" /\ m.version # "other"

\* verifyWebhook(), for a configured secret.
Authentic(m) == m.signature = "computed" /\ m.timestamp # "none"

\* isFreshTimestamp(): seconds or milliseconds, ten minutes either way.
Fresh(m) == m.timestamp = "within"

\* Without a secret nothing can be checked, and every timestamp passes.
SignatureValid(m) == SecretConfigured /\ Supported(m) /\ Authentic(m)
ReplayProtected(m) == SecretConfigured => Fresh(m)

\* Slip: the freshness of the timestamp left out of the condition.
ShouldVerifyStale(m) == Supported(m) /\ (SecretConfigured => SignatureValid(m))

ShouldVerify(m) == Supported(m) /\ (SecretConfigured => SignatureValid(m) /\ ReplayProtected(m))

ProcessingStatus(m) ==
  CASE ~Supported(m)        -> "SIGNATURE_HEADER_UNSUPPORTED"
    [] Supported(m) /\ ~SecretConfigured -> "RECEIVED_PENDING_PROVIDER_VERIFICATION"
    [] Supported(m) /\ SecretConfigured /\ ~SignatureValid(m) -> "SIGNATURE_FAILED"
    [] SignatureValid(m) /\ ~ReplayProtected(m) -> "REPLAY_REJECTED"
    [] OTHER -> "RECEIVED"

HGo(h, here, there) == hpc[h] = here /\ hpc' = [hpc EXCEPT ![h] = there]

\* The provider delivers e, for the first time or again; the headers are checked at once.
Deliver(h, e, m) ==
  /\ delivered < MaxDeliveries
  /\ HGo(h, "idle", "insert")
  /\ delivered' = delivered + 1
  /\ hev' = [hev EXCEPT ![h] = e]
  /\ header' = [header EXCEPT ![h] = m]
  /\ UNCHANGED <<directoryVars, transactionVars, webhook, recorded, vjob, inserted,
                 verifierVars>>

\* The unique index admits the first delivery of an event, whatever became of its signature.
InsertWebhook(h) ==
  LET e == hev[h]
  IN /\ HGo(h, "insert", "record")
     /\ inserted' = [inserted EXCEPT ![h] = webhook[e] = "NONE"]
     /\ webhook' = IF webhook[e] = "NONE"
                   THEN [webhook EXCEPT ![e] = ProcessingStatus(header[h])] ELSE webhook
     /\ UNCHANGED <<directoryVars, transactionVars, recorded, vjob, hev, header, delivered,
                    verifierVars>>

MustQueue(h) == inserted[h] /\ ShouldVerify(header[h])

RecordProviderEvent(h) ==
  /\ HGo(h, "record", IF MustQueue(h) THEN "enqueue" ELSE "respond")
  /\ recorded' = recorded \cup {hev[h]}
  /\ UNCHANGED <<directoryVars, transactionVars, webhook, vjob, hev, header, inserted,
                 delivered, verifierVars>>

EnqueueVerification(h) ==
  /\ HGo(h, "enqueue", "respond")
  /\ vjob' = [vjob EXCEPT ![hev[h]] = Added]
  /\ UNCHANGED <<directoryVars, transactionVars, webhook, recorded, hev, header, inserted,
                 delivered, verifierVars>>

\* What a handler leaves behind: nothing of its execution survives.
EndHandler(h) == /\ hev' = [hev EXCEPT ![h] = AnEvent]
                 /\ inserted' = [inserted EXCEPT ![h] = FALSE]
                 /\ header' = [header EXCEPT ![h] = NoHeader]

\* accepted: true, for a duplicate as for a new event.
Respond(h) ==
  /\ HGo(h, "respond", "idle")
  /\ EndHandler(h)
  /\ UNCHANGED <<directoryVars, transactionVars, webhook, recorded, vjob, delivered,
                 verifierVars>>

\* A statement throws or the API process dies: no response reaches the provider.
AbortHandler(h) ==
  /\ hpc[h] \in HandlerSteps
  /\ hpc' = [hpc EXCEPT ![h] = "idle"]
  /\ EndHandler(h)
  /\ UNCHANGED <<directoryVars, transactionVars, webhook, recorded, vjob, delivered,
                 verifierVars>>

-----------------------------------------------------------------------------
(* VerificationProcessor.process                                                *)

VGo(v, here, there) == vpc[v] = here /\ vpc' = [vpc EXCEPT ![v] = there]
VTx(v) == TransactionOf[vev[v]]

\* The job is taken and the webhook row read.
StartVerification(v, e) ==
  /\ vjob[e].state = "waiting"
  /\ VGo(v, "idle", "verify")
  /\ vjob' = [vjob EXCEPT ![e] = Taken(@)]
  /\ vev' = [vev EXCEPT ![v] = e]
  /\ vheld' = [vheld EXCEPT ![v] = TRUE]
  /\ UNCHANGED <<directoryVars, transactionVars, webhook, recorded, handlerVars, found>>

\* The provider confirms the transaction; when it does not, the call throws (FailVerification).
VerifyTransaction(v) ==
  /\ VGo(v, "verify", "account")
  /\ UNCHANGED <<directoryVars, transactionVars, webhook, recorded, vjob, handlerVars, vev,
                 vheld, found>>

FindAccount(v) ==
  /\ VGo(v, "account", "insert")
  /\ found' = [found EXCEPT ![v] = PayeeNow(VTx(v))]
  /\ UNCHANGED <<directoryVars, transactionVars, webhook, recorded, vjob, handlerVars, vev,
                 vheld>>

\* Slip: the row not taken as proof that the rest was done.
InsertVerifiedAlways(v) ==
  /\ VGo(v, "insert", "event")
  /\ IF tx[VTx(v)] = "NONE" THEN InsertTransaction(VTx(v), found[v]) ELSE UNCHANGED <<tx, payee>>
  /\ UNCHANGED <<directoryVars, trail, job, webhook, recorded, vjob, handlerVars, vev, vheld,
                 found>>

\* onConflictDoNothing: without a row returned, the rest is skipped and the job completes.
InsertVerified(v) ==
  /\ IF tx[VTx(v)] = "NONE"
     THEN VGo(v, "insert", "event") /\ InsertTransaction(VTx(v), found[v])
     ELSE VGo(v, "insert", "finish") /\ UNCHANGED <<tx, payee>>
  /\ UNCHANGED <<directoryVars, trail, job, webhook, recorded, vjob, handlerVars, vev, vheld,
                 found>>

\* Slip: the job forgotten.
LogVerifiedUnqueued(v) ==
  /\ VGo(v, "event", "finish")
  /\ LogEvent(VTx(v), "PAYMENT_VERIFIED")
  /\ UNCHANGED <<directoryVars, tx, payee, job, webhook, recorded, vjob, handlerVars, vev,
                 vheld, found>>

LogVerified(v) ==
  /\ VGo(v, "event", "enqueue")
  /\ LogEvent(VTx(v), "PAYMENT_VERIFIED")
  /\ UNCHANGED <<directoryVars, tx, payee, job, webhook, recorded, vjob, handlerVars, vev,
                 vheld, found>>

EnqueueReconciliation(v) ==
  /\ VGo(v, "enqueue", "finish")
  /\ SetJob(VTx(v), Added)
  /\ UNCHANGED <<directoryVars, tx, payee, trail, webhook, recorded, vjob, handlerVars, vev,
                 vheld, found>>

EndVerification(v) == /\ vev' = [vev EXCEPT ![v] = AnEvent]
                      /\ vheld' = [vheld EXCEPT ![v] = FALSE]
                      /\ found' = [found EXCEPT ![v] = NoCustomer]

SetVJob(v, value) == vjob' = IF vheld[v] THEN [vjob EXCEPT ![vev[v]] = value] ELSE vjob

FinishVerification(v) ==
  /\ VGo(v, "finish", "idle")
  /\ SetVJob(v, Completed(vjob[vev[v]]))
  /\ EndVerification(v)
  /\ UNCHANGED <<directoryVars, transactionVars, webhook, recorded, handlerVars>>

\* A statement throws: the database or Redis, or the provider, which issues no token, answers
\* with an error, or reports the transaction as unsuccessful.
FailVerification(v) ==
  /\ vpc[v] \in VerifierSteps \ {"finish"}
  /\ vpc' = [vpc EXCEPT ![v] = "idle"]
  /\ SetVJob(v, Failed(vjob[vev[v]]))
  /\ EndVerification(v)
  /\ UNCHANGED <<directoryVars, transactionVars, webhook, recorded, handlerVars>>

CrashVerifier(v) ==
  /\ vpc[v] \in VerifierSteps
  /\ vpc' = [vpc EXCEPT ![v] = "idle"]
  /\ EndVerification(v)
  /\ UNCHANGED <<directoryVars, transactionVars, webhook, recorded, vjob, handlerVars>>

StallVerification(e) ==
  /\ vjob[e].state = "active"
  /\ vjob' = [vjob EXCEPT ![e] = Stalled(@)]
  /\ vheld' = [v \in Verifiers |-> vheld[v] /\ vev[v] # e]
  /\ UNCHANGED <<directoryVars, transactionVars, webhook, recorded, handlerVars, vpc, vev, found>>

-----------------------------------------------------------------------------
HandlerStep(h) == \/ InsertWebhook(h) \/ RecordProviderEvent(h) \/ EnqueueVerification(h)
                  \/ Respond(h)

VerifierStep(v) == \/ VerifyTransaction(v) \/ FindAccount(v) \/ InsertVerified(v)
                   \/ LogVerified(v) \/ EnqueueReconciliation(v) \/ FinishVerification(v)

IntakeNext ==
  \/ \E h \in Handlers : HandlerStep(h) \/ AbortHandler(h)
  \/ \E h \in Handlers, e \in Events, m \in Headers : Deliver(h, e, m)
  \/ \E v \in Verifiers : VerifierStep(v) \/ FailVerification(v) \/ CrashVerifier(v)
  \/ \E v \in Verifiers, e \in Events : StartVerification(v, e)
  \/ \E e \in Events : StallVerification(e)

WebhookInit == DirectoryInit /\ TransactionsInit /\ IntakeInit

\* The directory stands still here and changes in Pipeline.
WebhookSpec == WebhookInit /\ [][IntakeNext]_webhookVars

Abandoned(e) == vjob[e].state = "active" /\ \A v \in Verifiers : ~(vheld[v] /\ vev[v] = e)

\* The same fairness as the reconciliation workers'; none for the provider and the handlers.
IntakeFairness ==
  /\ \A v \in Verifiers : WF_webhookVars(VerifierStep(v))
  /\ \A e \in Events : /\ WF_webhookVars(\E v \in Verifiers : StartVerification(v, e))
                       /\ WF_webhookVars(Abandoned(e) /\ StallVerification(e))

-----------------------------------------------------------------------------
EventsOf(t) == {e \in Events : TransactionOf[e] = t}

\* One verification job per event and one reconciliation job per transaction, ever: whoever
\* adds a job, it is the first, however often and under however many events a payment is
\* reported and its verification repeated.
JobsAddedOnce ==
  [][/\ \A h \in Handlers :
          hpc[h] = "enqueue" /\ hpc'[h] = "respond" => vjob[hev[h]].state = "none"
     /\ \A v \in Verifiers :
          vpc[v] = "enqueue" /\ vpc'[v] = "finish" => job[VTx(v)].state = "none"]_webhookVars

\* Every verification job comes to an end, and with it a completed one has the row.
VerificationEnds ==
  \A e \in Events : vjob[e].state = "waiting"
    ~> \/ vjob[e].state = "completed" /\ tx[TransactionOf[e]] # "NONE"
       \/ vjob[e].state = "failed"
=============================================================================
