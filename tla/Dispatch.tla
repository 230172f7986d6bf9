------------------------------ MODULE Dispatch -------------------------------
(* DownstreamWebhooksService: emit() writes a delivery row and adds a job for   *)
(* each subscription in turn, and dispatch(), run by the workers of the         *)
(* dispatch queue, posts the delivery and writes down what became of it.        *)
(* dispatch() limits its repetitions twice: by a job of its own after each      *)
(* refused post, and by the attempts of BullMQ for a job that throws.           *)
EXTENDS JobQueue, Sequences, FiniteSets

CONSTANTS Notices,      \* executions of emit
          Subscribers,
          Nobody,       \* no subscriber
          PostLimit,    \* posts that dispatch() counts up to
          Dispatchers,  \* concurrent executions of dispatch
          MaxFaults     \* bound on statements that throw, crashes and expired locks

ASSUME DispatchAssumption == /\ Nobody \notin Subscribers
                             /\ PostLimit \in Nat \ {0}
                             /\ MaxFaults \in Nat

VARIABLES subscription, \* webhook_subscriptions: whether there is a row, and is_active
          epc, matching, adding, \* an emit: where it is, whom it serves, whose job is next
          delivery,     \* webhook_deliveries
          djobs,        \* the jobs of the dispatch queue, in the order they were added
          dpc, djob, dheld, dread, \* a dispatch: statement, job, its lock, the attempts it read
          accepted,     \* the deliveries their subscriber has received and accepted
          posts,        \* the posts of each delivery
          faults        \* statements that threw, crashes and expired locks so far

emitVars == <<subscription, epc, matching, adding>>
workVars == <<dpc, djob, dheld, dread>>
worldVars == <<accepted, posts>>
dispatchVars == <<emitVars, delivery, djobs, workVars, worldVars, faults>>

Deliveries == Notices \X Subscribers
DispatchSteps == {"subscription", "post", "delivered", "refused", "requeue", "catch", "retry",
                  "finish"}

DispatchInit ==
  /\ subscription = [s \in Subscribers |-> "none"]
  /\ epc = [n \in Notices |-> "idle"]
  /\ matching = [n \in Notices |-> {}]
  /\ adding = [n \in Notices |-> Nobody]
  /\ delivery = [d \in Deliveries |-> [status |-> "NONE", attempts |-> 0]]
  /\ djobs = <<>>
  /\ dpc = [w \in Dispatchers |-> "idle"]
  /\ djob = [w \in Dispatchers |-> 0]
  /\ dheld = [w \in Dispatchers |-> FALSE]
  /\ dread = [w \in Dispatchers |-> 0]
  /\ accepted = {}
  /\ posts = [d \in Deliveries |-> 0]
  /\ faults = 0

Fault == faults < MaxFaults /\ faults' = faults + 1

\* The administrator registers a subscriber; nothing in the program takes one back.
Subscribe(s) ==
  /\ subscription[s] = "none"
  /\ subscription' = [subscription EXCEPT ![s] = "active"]
  /\ UNCHANGED <<epc, matching, adding, delivery, djobs, workVars, worldVars, faults>>

\* Somebody clears is_active in the database.
Deactivate(s) ==
  /\ subscription[s] = "active"
  /\ subscription' = [subscription EXCEPT ![s] = "inactive"]
  /\ UNCHANGED <<epc, matching, adding, delivery, djobs, workVars, worldVars, faults>>

-----------------------------------------------------------------------------
(* emit                                                                         *)

Active == {s \in Subscribers : subscription[s] = "active"}

Emit(n) ==
  /\ epc[n] = "idle"
  /\ epc' = [epc EXCEPT ![n] = "loop"]
  /\ matching' = [matching EXCEPT ![n] = Active]
  /\ UNCHANGED <<subscription, adding, delivery, djobs, workVars, worldVars, faults>>

InsertDelivery(n, s) ==
  /\ epc[n] = "loop" /\ adding[n] = Nobody
  /\ s \in matching[n] /\ delivery[<<n, s>>].status = "NONE"
  /\ adding' = [adding EXCEPT ![n] = s]
  /\ delivery' = [delivery EXCEPT ![<<n, s>>] = [status |-> "PENDING", attempts |-> 0]]
  /\ UNCHANGED <<subscription, epc, matching, djobs, workVars, worldVars, faults>>

AddJob(d) == djobs' = Append(djobs, [job |-> Added, of |-> d])

AddDispatch(n) ==
  /\ epc[n] = "loop" /\ adding[n] # Nobody
  /\ AddJob(<<n, adding[n]>>)
  /\ adding' = [adding EXCEPT ![n] = Nobody]
  /\ UNCHANGED <<subscription, epc, matching, delivery, workVars, worldVars, faults>>

\* Slip: the loop left after its first subscriber.
EmitReturnsEarly(n) ==
  /\ epc[n] = "loop" /\ adding[n] = Nobody
  /\ epc' = [epc EXCEPT ![n] = "returned"]
  /\ UNCHANGED <<subscription, matching, adding, delivery, djobs, workVars, worldVars, faults>>

EmitReturns(n) ==
  /\ epc[n] = "loop" /\ adding[n] = Nobody
  /\ \A s \in matching[n] : delivery[<<n, s>>].status # "NONE"
  /\ epc' = [epc EXCEPT ![n] = "returned"]
  /\ UNCHANGED <<subscription, matching, adding, delivery, djobs, workVars, worldVars, faults>>

\* The database or Redis throws, or the process dies: the rest of the loop is not done, and a
\* row may stay without a job.
EmitThrows(n) ==
  /\ epc[n] = "loop" /\ Fault
  /\ epc' = [epc EXCEPT ![n] = "thrown"]
  /\ adding' = [adding EXCEPT ![n] = Nobody]
  /\ UNCHANGED <<subscription, matching, delivery, djobs, workVars, worldVars>>

-----------------------------------------------------------------------------
(* dispatch                                                                     *)

DGo(w, here, there) == dpc[w] = here /\ dpc' = [dpc EXCEPT ![w] = there]
Current(w) == djobs[djob[w]].of
SetDJob(i, value) == djobs' = [djobs EXCEPT ![i].job = value]

\* A job is taken and its delivery row read.
StartDispatch(w, i) ==
  /\ djobs[i].job.state = "waiting"
  /\ DGo(w, "idle", "subscription")
  /\ SetDJob(i, Taken(djobs[i].job))
  /\ djob' = [djob EXCEPT ![w] = i]
  /\ dheld' = [dheld EXCEPT ![w] = TRUE]
  /\ dread' = [dread EXCEPT ![w] = delivery[djobs[i].of].attempts]
  /\ UNCHANGED <<emitVars, delivery, worldVars, faults>>

EndDispatch(w) == /\ dpc' = [dpc EXCEPT ![w] = "idle"]
                  /\ djob' = [djob EXCEPT ![w] = 0]
                  /\ dheld' = [dheld EXCEPT ![w] = FALSE]
                  /\ dread' = [dread EXCEPT ![w] = 0]

\* dispatch() throws: BullMQ counts an attempt, if the lock is still this worker's.
ThrowDispatch(w) ==
  /\ IF dheld[w] THEN SetDJob(djob[w], Failed(djobs[djob[w]].job)) ELSE UNCHANGED djobs
  /\ EndDispatch(w)

\* The subscription is read; when it is no longer active, dispatch() throws.
ReadSubscription(w) ==
  /\ dpc[w] = "subscription"
  /\ IF subscription[Current(w)[2]] = "active"
     THEN dpc' = [dpc EXCEPT ![w] = "post"] /\ UNCHANGED <<djobs, djob, dheld, dread>>
     ELSE ThrowDispatch(w)
  /\ UNCHANGED <<emitVars, delivery, worldVars, faults>>

\* The subscriber accepts or refuses the post, or fetch() throws; in the last case the post
\* may have been received all the same.
Post(w) ==
  /\ \/ DGo(w, "post", "delivered") /\ accepted' = accepted \cup {Current(w)}
     \/ DGo(w, "post", "refused") /\ UNCHANGED accepted
     \/ DGo(w, "post", "catch") /\ accepted' \in {accepted, accepted \cup {Current(w)}}
  /\ posts' = [posts EXCEPT ![Current(w)] = @ + 1]
  /\ UNCHANGED <<emitVars, delivery, djobs, djob, dheld, dread, faults>>

MayRepeat(w) == dread[w] + 1 < PostLimit

\* Slip: the attempts not counted.
WriteDeliveryUncounted(w, status) ==
  delivery' = [delivery EXCEPT ![Current(w)] = [status |-> status, attempts |-> dread[w]]]

WriteDelivery(w, status) ==
  delivery' = [delivery EXCEPT ![Current(w)] = [status |-> status, attempts |-> dread[w] + 1]]

\* Slip: the answer of the subscriber not looked at.
UpdateDelivered(w) ==
  /\ \/ DGo(w, "delivered", "finish")
     \/ DGo(w, "refused", IF MayRepeat(w) THEN "requeue" ELSE "finish")
  /\ WriteDelivery(w, "DELIVERED")
  /\ UNCHANGED <<emitVars, djobs, djob, dheld, dread, worldVars, faults>>

\* The update in the try block.
Update(w) ==
  /\ \/ DGo(w, "delivered", "finish") /\ WriteDelivery(w, "DELIVERED")
     \/ /\ DGo(w, "refused", IF MayRepeat(w) THEN "requeue" ELSE "finish")
        /\ WriteDelivery(w, "FAILED")
  /\ UNCHANGED <<emitVars, djobs, djob, dheld, dread, worldVars, faults>>

\* The update in the catch block.
Catch(w) ==
  /\ DGo(w, "catch", IF MayRepeat(w) THEN "retry" ELSE "finish")
  /\ WriteDelivery(w, "FAILED")
  /\ UNCHANGED <<emitVars, djobs, djob, dheld, dread, worldVars, faults>>

\* Slip: the error thrown on when the job for the next post has been added.
RequeueAndThrow(w) ==
  /\ dpc[w] \in {"requeue", "retry"} /\ dheld[w]
  /\ djobs' = Append([djobs EXCEPT ![djob[w]].job = Failed(@)], [job |-> Added, of |-> Current(w)])
  /\ EndDispatch(w)
  /\ UNCHANGED <<emitVars, delivery, worldVars, faults>>

\* Either block adds a job for the next post.
Requeue(w) ==
  /\ DGo(w, "requeue", "finish") \/ DGo(w, "retry", "finish")
  /\ AddJob(Current(w))
  /\ UNCHANGED <<emitVars, delivery, djob, dheld, dread, worldVars, faults>>

FinishDispatch(w) ==
  /\ dpc[w] = "finish"
  /\ IF dheld[w] THEN SetDJob(djob[w], Completed(djobs[djob[w]].job)) ELSE UNCHANGED djobs
  /\ EndDispatch(w)
  /\ UNCHANGED <<emitVars, delivery, worldVars, faults>>

\* A statement of the try block throws after the post: the catch block follows.
ThrowInTry(w) ==
  /\ Fault
  /\ \E here \in {"delivered", "refused", "requeue"} : DGo(w, here, "catch")
  /\ UNCHANGED <<emitVars, delivery, djobs, djob, dheld, dread, worldVars>>

\* A statement outside the try block throws.
FailDispatch(w) ==
  /\ Fault
  /\ dpc[w] \in {"subscription", "catch", "retry"}
  /\ ThrowDispatch(w)
  /\ UNCHANGED <<emitVars, delivery, worldVars>>

CrashDispatch(w) ==
  /\ Fault
  /\ dpc[w] \in DispatchSteps
  /\ EndDispatch(w)
  /\ UNCHANGED <<emitVars, delivery, djobs, worldVars>>

\* Whether its worker is dead or only slow, a job whose lock expires is handed out again.
StallDispatch(i) ==
  /\ djobs[i].job.state = "active"
  /\ \/ Fault
     \/ UNCHANGED faults /\ \A w \in Dispatchers : ~(dheld[w] /\ djob[w] = i)
  /\ SetDJob(i, Stalled(djobs[i].job))
  /\ dheld' = [w \in Dispatchers |-> dheld[w] /\ djob[w] # i]
  /\ UNCHANGED <<emitVars, delivery, dpc, djob, dread, worldVars>>

-----------------------------------------------------------------------------
EmitStep(n) == \/ AddDispatch(n) \/ EmitReturns(n)
               \/ \E s \in Subscribers : InsertDelivery(n, s)

DispatchStep(w) == \/ ReadSubscription(w) \/ Post(w) \/ Update(w) \/ Catch(w) \/ Requeue(w)
                   \/ FinishDispatch(w)

QueueNext ==
  \/ \E w \in Dispatchers : \/ DispatchStep(w) \/ ThrowInTry(w) \/ FailDispatch(w)
                            \/ CrashDispatch(w)
                            \/ \E i \in DOMAIN djobs : StartDispatch(w, i)
  \/ \E i \in DOMAIN djobs : StallDispatch(i)
  \/ \E s \in Subscribers : Subscribe(s) \/ Deactivate(s)

DispatchNext == QueueNext \/ \E n \in Notices : Emit(n) \/ EmitStep(n) \/ EmitThrows(n)

-----------------------------------------------------------------------------
Live(i) == djobs[i].job.state \in {"waiting", "active"}
LiveJobs(d) == {i \in DOMAIN djobs : djobs[i].of = d /\ Live(i)}
InHand(d) == \E w \in Dispatchers : dpc[w] # "idle" /\ Current(w) = d

\* A delivery is marked DELIVERED only if its subscriber has accepted it, whatever failed.
DeliveredIsAccepted ==
  \A d \in Deliveries : delivery[d].status = "DELIVERED" => d \in accepted

\* When nothing failed but subscribers, a delivery is posted PostLimit times at most, and it
\* comes to rest with its posts counted, and delivered, out of posts, or with its subscription
\* inactive.
QuietDelivery ==
  faults = 0 => \A d \in Deliveries :
    /\ posts[d] <= PostLimit
    /\ delivery[d].status # "NONE" /\ LiveJobs(d) = {} /\ adding[d[1]] # d[2] =>
         /\ delivery[d].attempts = posts[d]
         /\ \/ delivery[d].status = "DELIVERED"
            \/ posts[d] = PostLimit
            \/ subscription[d[2]] = "inactive"

\* What still posts d: its live jobs, but for those whose worker has only to return, and the
\* workers that have lost the lock of theirs on the way.
Spent(i) == \E w \in Dispatchers : dheld[w] /\ djob[w] = i /\ dpc[w] = "finish"
Posting(d) == {<<"job", i>> : i \in {j \in LiveJobs(d) : ~Spent(j)}}
         \cup {<<"worker", w>> : w \in {v \in Dispatchers : /\ dpc[v] \notin {"idle", "finish"}
                                                         /\ ~dheld[v] /\ Current(v) = d}}

\* Whatever fails, each failure leaves a delivery with at most one more job or worker that
\* posts it: those that dispatch() adds and those that BullMQ repeats do not multiply.
OneMorePerFailure ==
  \A d \in Deliveries : Cardinality(Posting(d)) <= 1 + faults
=============================================================================
