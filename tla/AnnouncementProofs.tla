------------------------- MODULE AnnouncementProofs --------------------------
(* What holds of requests with a key holds of them when their handlers announce *)
(* what they did; and a delivery is marked DELIVERED only when it is.           *)
EXTENDS Announcements, FiniteSetTheorems, TLAPS

-----------------------------------------------------------------------------
(* Requests with a key: one execution and one response, for any calls, keys and *)
(* bodies.                                                                      *)

\* An execution has left its row, with its own body, and is past the insert.
ExecutionsKnown ==
  \A q \in executed : /\ record[key[q]] # NoRow /\ record[key[q]].body = body[q]
                      /\ cpc[q] \notin {"unsent", "find", "insert"}

\* Only an execution is in the handler or past it.
HandlersExecute ==
  \A q \in Calls : cpc[q] \in {"handle", "complete"} => q \in executed

\* A stored response was computed by an execution under the same key.
ResponsesKnown ==
  \A k \in Keys : record[k] # NoRow /\ record[k].response # NoCall =>
    record[k].response \in executed /\ key[record[k].response] = k

CallsInv == /\ CallsTypeOK
            /\ ExecutionsKnown
            /\ HandlersExecute
            /\ ResponsesKnown
            /\ ExecutedOnce
            /\ AnswersAgree

-----------------------------------------------------------------------------
LEMMA InitCalls == CallsInit => CallsInv
<1>1. SUFFICES ASSUME CallsInit PROVE CallsInv
  OBVIOUS
<1>2. /\ (CHOOSE k \in Keys : TRUE) \in Keys
      /\ (CHOOSE b \in Bodies : TRUE) \in Bodies
  BY IdempotencyAssumption
<1>3. CallsTypeOK
  BY <1>1, <1>2 DEF CallsInit, CallsTypeOK, CallSteps, Ends
<1>4. ExecutionsKnown /\ HandlersExecute /\ ResponsesKnown /\ ExecutedOnce /\ AnswersAgree
  BY <1>1 DEF CallsInit, ExecutionsKnown, HandlersExecute, ResponsesKnown, ExecutedOnce,
              AnswersAgree
<1>5. QED
  BY <1>3, <1>4 DEF CallsInv

LEMMA CallKeeps ==
  ASSUME CallsInv, NEW q \in Calls, NEW k \in Keys, NEW b \in Bodies, Call(q, k, b)
  PROVE  CallsInv'
<1>1. q \notin executed
  BY DEF CallsInv, ExecutionsKnown, Call, CGo
<1>2. CallsTypeOK'
  BY DEF CallsInv, CallsTypeOK, Call, CGo, CallSteps
<1>3. /\ \A p \in executed : key'[p] = key[p] /\ body'[p] = body[p] /\ cpc'[p] = cpc[p]
      /\ \A p \in Calls : cpc'[p] = "answered" => /\ cpc[p] = "answered"
                                                 /\ key'[p] = key[p] /\ body'[p] = body[p]
      /\ \A p \in Calls : cpc'[p] \in {"handle", "complete"} => cpc[p] = cpc'[p]
      /\ executed \subseteq Calls
  BY <1>1 DEF CallsInv, CallsTypeOK, Call, CGo
<1>4. UNCHANGED <<record, executed, answer>>
  BY DEF Call
<1>5. ExecutionsKnown' /\ HandlersExecute' /\ ResponsesKnown' /\ ExecutedOnce'
  BY <1>3, <1>4 DEF CallsInv, ExecutionsKnown, HandlersExecute, ResponsesKnown, ExecutedOnce
<1>6. AnswersAgree'
  BY <1>3, <1>4 DEF CallsInv, AnswersAgree
<1>7. QED
  BY <1>2, <1>5, <1>6 DEF CallsInv

LEMMA FindKeeps ==
  ASSUME CallsInv, NEW q \in Calls, FindRecord(q)
  PROVE  CallsInv'
<1> DEFINE row == Existing(key[q])
<1>1. key[q] \in Keys /\ UNCHANGED <<record, key, body, executed>>
  BY DEF CallsInv, CallsTypeOK, FindRecord
<1>2. row # NoRow => row = record[key[q]] /\ row \in Rows
  BY <1>1 DEF CallsInv, CallsTypeOK, Existing
<1>3. Replays(q, row) => /\ row.response \in executed /\ row.response \in Calls
                         /\ key[row.response] = key[q] /\ body[row.response] = body[q]
  BY <1>1, <1>2 DEF CallsInv, CallsTypeOK, Replays, Matches, ResponsesKnown, ExecutionsKnown
<1>4. /\ cpc[q] = "find"
      /\ cpc' = [cpc EXCEPT ![q] = IF row = NoRow THEN "insert"
                                   ELSE IF Replays(q, row) THEN "answered" ELSE "conflict"]
      /\ answer' = IF Replays(q, row) THEN [answer EXCEPT ![q] = row.response] ELSE answer
  BY DEF FindRecord
<1>5. q \notin executed
  BY <1>4 DEF CallsInv, ExecutionsKnown
<1>6. CallsTypeOK'
  BY <1>1, <1>3, <1>4 DEF CallsInv, CallsTypeOK, CallSteps, Ends
<1>7. ExecutionsKnown' /\ HandlersExecute' /\ ResponsesKnown' /\ ExecutedOnce'
  BY <1>1, <1>4, <1>5 DEF CallsInv, CallsTypeOK, ExecutionsKnown, HandlersExecute,
                          ResponsesKnown, ExecutedOnce
<1>8. AnswersAgree'
  <2>1. SUFFICES ASSUME NEW p \in Calls, cpc'[p] = "answered"
                 PROVE  /\ answer'[p] \in executed
                        /\ key[answer'[p]] = key[p] /\ body[answer'[p]] = body[p]
                        /\ record[key[p]].response = answer'[p]
    BY <1>1 DEF AnswersAgree
  <2>2. CASE p = q
    <3>1. row # NoRow /\ Replays(q, row) /\ answer'[q] = row.response
      BY <1>4, <2>1, <2>2 DEF CallsInv, CallsTypeOK, Replays
    <3>2. QED
      BY <1>2, <1>3, <2>2, <3>1
  <2>3. CASE p # q
    <3>1. cpc[p] = "answered" /\ answer'[p] = answer[p]
      BY <1>4, <2>1, <2>3 DEF CallsInv, CallsTypeOK
    <3>2. QED
      BY <3>1 DEF CallsInv, AnswersAgree
  <2>4. QED
    BY <2>2, <2>3
<1>9. QED
  BY <1>6, <1>7, <1>8 DEF CallsInv

LEMMA InsertKeeps ==
  ASSUME CallsInv, NEW q \in Calls, InsertRecord(q)
  PROVE  CallsInv'
<1>1. /\ key[q] \in Keys /\ body[q] \in Bodies
      /\ cpc[q] = "insert" /\ UNCHANGED <<key, body, answer>>
  BY DEF CallsInv, CallsTypeOK, InsertRecord
<1>2. CASE record[key[q]] = NoRow
  <2>1. /\ cpc' = [cpc EXCEPT ![q] = "handle"]
        /\ record' = [record EXCEPT ![key[q]] = Fresh(q)]
        /\ executed' = executed \cup {q}
    BY <1>2 DEF InsertRecord
  <2>2. Fresh(q) \in Rows /\ Fresh(q) # NoRow /\ Fresh(q).response = NoCall
        /\ Fresh(q).body = body[q]
    <3>1. Fresh(q) \in Rows /\ Fresh(q).response = NoCall /\ Fresh(q).body = body[q]
      BY <1>1 DEF Fresh, Rows
    <3>2. QED
      BY <3>1, IdempotencyAssumption
  <2>3. \A p \in executed : key[p] # key[q] /\ p \in Calls /\ p # q
    BY <1>1, <1>2 DEF CallsInv, CallsTypeOK, ExecutionsKnown
  <2>4. CallsTypeOK'
    BY <1>1, <2>1, <2>2 DEF CallsInv, CallsTypeOK, CallSteps
  <2>5. ExecutionsKnown' /\ HandlersExecute'
    BY <1>1, <2>1, <2>2, <2>3 DEF CallsInv, CallsTypeOK, ExecutionsKnown, HandlersExecute
  <2>6. ResponsesKnown' /\ ExecutedOnce'
    BY <1>1, <2>1, <2>2, <2>3 DEF CallsInv, CallsTypeOK, ResponsesKnown, ExecutedOnce
  <2>7. AnswersAgree'
    <3>1. ASSUME NEW p \in Calls, cpc'[p] = "answered"
          PROVE  cpc[p] = "answered" /\ key[p] # key[q]
      <4>1. cpc[p] = "answered"
        BY <2>1, <3>1 DEF CallsInv, CallsTypeOK
      <4>2. QED
        BY <4>1, <2>3 DEF CallsInv, AnswersAgree
    <3>2. QED
      BY <1>1, <2>1, <3>1 DEF CallsInv, CallsTypeOK, AnswersAgree
  <2>8. QED
    BY <2>4, <2>5, <2>6, <2>7 DEF CallsInv
<1>3. CASE record[key[q]] # NoRow
  <2>1. cpc' = [cpc EXCEPT ![q] = "failed"] /\ UNCHANGED <<record, executed>>
    BY <1>3 DEF InsertRecord
  <2>2. QED
    BY <1>1, <2>1 DEF CallsInv, CallsTypeOK, CallSteps, Ends, ExecutionsKnown, HandlersExecute,
                      ResponsesKnown, ExecutedOnce, AnswersAgree
<1>4. QED
  BY <1>2, <1>3

LEMMA CompleteKeeps ==
  ASSUME CallsInv, NEW q \in Calls, Complete(q)
  PROVE  CallsInv'
<1>1. /\ cpc[q] = "complete" /\ cpc' = [cpc EXCEPT ![q] = "answered"]
      /\ record' = [record EXCEPT ![key[q]].response = q]
      /\ answer' = [answer EXCEPT ![q] = q]
      /\ UNCHANGED <<key, body, executed>>
  BY DEF Complete, CGo
<1>2. /\ q \in executed /\ key[q] \in Keys
      /\ record[key[q]] \in Rows /\ record[key[q]] # NoRow
  BY <1>1 DEF CallsInv, CallsTypeOK, HandlersExecute, ExecutionsKnown
<1>3. record' = [record EXCEPT ![key[q]] = [record[key[q]] EXCEPT !.response = q]]
  BY <1>1
<1>4. /\ record'[key[q]] \in Rows /\ record'[key[q]] # NoRow
      /\ record'[key[q]].response = q /\ record'[key[q]].body = record[key[q]].body
      /\ \A k \in Keys : k # key[q] => record'[k] = record[k]
      /\ DOMAIN record' = Keys
  BY <1>2, <1>3, IdempotencyAssumption DEF CallsInv, CallsTypeOK, Rows
<1>5. CallsTypeOK'
  <2>1. record' \in [Keys -> Rows \cup {NoRow}]
    BY <1>2, <1>3, <1>4 DEF CallsInv, CallsTypeOK
  <2>2. QED
    BY <1>1, <2>1 DEF CallsInv, CallsTypeOK, Ends
<1>6. ExecutionsKnown' /\ HandlersExecute'
  BY <1>1, <1>4 DEF CallsInv, CallsTypeOK, ExecutionsKnown, HandlersExecute
<1>7. ResponsesKnown' /\ ExecutedOnce'
  BY <1>1, <1>2, <1>4 DEF CallsInv, ResponsesKnown, ExecutedOnce
<1>8. AnswersAgree'
  <2>1. SUFFICES ASSUME NEW p \in Calls, cpc'[p] = "answered"
                 PROVE  /\ answer'[p] \in executed
                        /\ key[answer'[p]] = key[p] /\ body[answer'[p]] = body[p]
                        /\ record'[key[p]].response = answer'[p]
    BY <1>1 DEF AnswersAgree
  <2>2. CASE p = q
    BY <1>1, <1>2, <1>4, <2>2 DEF CallsInv, CallsTypeOK
  <2>3. CASE p # q
    <3>1. /\ cpc[p] = "answered" /\ answer'[p] = answer[p]
          /\ answer[p] \in executed /\ key[answer[p]] = key[p] /\ body[answer[p]] = body[p]
          /\ record[key[p]].response = answer[p] /\ key[p] \in Keys
      BY <1>1, <2>1, <2>3 DEF CallsInv, CallsTypeOK, AnswersAgree
    <3>2. key[p] = key[q] => answer[p] = q
      BY <1>2, <3>1 DEF CallsInv, ExecutedOnce
    <3>3. QED
      BY <1>4, <3>1, <3>2
  <2>4. QED
    BY <2>2, <2>3
<1>9. QED
  BY <1>5, <1>6, <1>7, <1>8 DEF CallsInv

LEMMA ExpireKeeps ==
  ASSUME CallsInv, NEW k \in Keys, Expire(k)
  PROVE  CallsInv'
<1>1. /\ record[k] \in Rows /\ record[k] # NoRow
      /\ record' = [record EXCEPT ![k] = [record[k] EXCEPT !.expired = TRUE]]
      /\ UNCHANGED <<cpc, key, body, executed, answer>>
  BY DEF CallsInv, CallsTypeOK, Expire
<1>2. /\ record'[k] \in Rows /\ record'[k] # NoRow
      /\ record'[k].response = record[k].response /\ record'[k].body = record[k].body
      /\ \A l \in Keys : l # k => record'[l] = record[l]
  BY <1>1, IdempotencyAssumption DEF CallsInv, CallsTypeOK, Rows
<1>3. CallsTypeOK'
  <2>1. record' \in [Keys -> Rows \cup {NoRow}]
    BY <1>1, <1>2 DEF CallsInv, CallsTypeOK
  <2>2. QED
    BY <1>1, <2>1 DEF CallsInv, CallsTypeOK
<1>4. \A l \in Keys : /\ record'[l] = NoRow <=> record[l] = NoRow
                      /\ record[l] # NoRow => /\ record'[l].response = record[l].response
                                              /\ record'[l].body = record[l].body
  BY <1>1, <1>2
<1>5. ExecutionsKnown' /\ HandlersExecute' /\ ResponsesKnown' /\ ExecutedOnce'
  BY <1>1, <1>4 DEF CallsInv, CallsTypeOK, ExecutionsKnown, HandlersExecute, ResponsesKnown,
                    ExecutedOnce
<1>6. AnswersAgree'
  <2>1. SUFFICES ASSUME NEW q \in Calls, cpc[q] = "answered"
                 PROVE  /\ answer[q] \in executed
                        /\ key[answer[q]] = key[q] /\ body[answer[q]] = body[q]
                        /\ record'[key[q]].response = answer[q]
    BY <1>1 DEF AnswersAgree
  <2>2. /\ answer[q] \in executed /\ key[answer[q]] = key[q] /\ body[answer[q]] = body[q]
        /\ record[key[q]].response = answer[q] /\ key[q] \in Keys
    BY <2>1 DEF CallsInv, CallsTypeOK, AnswersAgree
  <2>3. record[key[q]] # NoRow
    BY <2>2 DEF CallsInv, ExecutionsKnown
  <2>4. QED
    BY <1>4, <2>2, <2>3
<1>7. QED
  BY <1>3, <1>5, <1>6 DEF CallsInv

-----------------------------------------------------------------------------
LEMMA StepCalls == CallsInv /\ [CallsNext]_callVars => CallsInv'
<1>1. SUFFICES ASSUME CallsInv, [CallsNext]_callVars PROVE CallsInv'
  OBVIOUS
<1>2. ASSUME NEW q \in Calls, Handle(q) \/ AbortCall(q) PROVE CallsInv'
  <2>1. /\ UNCHANGED <<record, key, body, executed, answer>>
        /\ cpc[q] \in CallSteps
        /\ \/ cpc[q] = "handle" /\ cpc' = [cpc EXCEPT ![q] = "complete"]
           \/ cpc' = [cpc EXCEPT ![q] = "failed"]
    BY <1>2 DEF Handle, AbortCall, CGo, CallSteps
  <2>2. QED
    BY <1>1, <2>1 DEF CallsInv, CallsTypeOK, CallSteps, Ends, ExecutionsKnown, HandlersExecute,
                      ResponsesKnown, ExecutedOnce, AnswersAgree
<1>3. CASE UNCHANGED callVars
  BY <1>1, <1>3 DEF callVars, CallsInv, CallsTypeOK, ExecutionsKnown, HandlersExecute,
                    ResponsesKnown, ExecutedOnce, AnswersAgree
<1>4. QED
  BY <1>1, <1>2, <1>3, CallKeeps, FindKeeps, InsertKeeps, CompleteKeeps, ExpireKeeps
     DEF CallsNext

\* Through look-ups at the same time, failures and expiry, one key runs one handler, whatever the
\* calls, keys and bodies are.
THEOREM HandlerRunsOnce == CallsSpec => []ExecutedOnce
<1>1. CallsInv => ExecutedOnce
  BY DEF CallsInv
<1>2. QED
  BY InitCalls, StepCalls, <1>1, PTL DEF CallsSpec

\* Whoever is answered under a key has the response of its one execution, asked for with the
\* same body.
THEOREM ResponsesAgree == CallsSpec => []AnswersAgree
<1>1. CallsInv => AnswersAgree
  BY DEF CallsInv
<1>2. QED
  BY InitCalls, StepCalls, <1>1, PTL DEF CallsSpec

-----------------------------------------------------------------------------
(* The composition.                                                             *)

LEMMA AnnouncementsAreCalls == [AnnouncementsNext]_announcementVars => [CallsNext]_callVars
<1>1. SUFFICES ASSUME [AnnouncementsNext]_announcementVars PROVE [CallsNext]_callVars
  OBVIOUS
<1>2. ASSUME NEW q \in Calls,
             \/ Announce(q) \/ HandlerReturns(q) \/ HandlerThrows(q) \/ CallThrows(q)
             \/ FindRecord(q) \/ InsertRecord(q) \/ Complete(q)
      PROVE  [CallsNext]_callVars
  BY <1>2 DEF Announce, HandlerReturns, HandlerThrows, CallThrows, CallsNext
<1>3. CASE QueueNext /\ UNCHANGED callVars
  BY <1>3
<1>4. CASE UNCHANGED announcementVars
  BY <1>4 DEF announcementVars
<1>5. QED
  BY <1>1, <1>2, <1>3, <1>4 DEF AnnouncementsNext, CallsNext

\* The composition implements the interceptor's specification: dispatching, whatever it does,
\* leaves records, calls and answers alone.
THEOREM ImplementsCalls == AnnouncementsSpec => CallsSpec
<1>1. AnnouncementsInit => CallsInit
  BY DEF AnnouncementsInit
<1>2. QED
  BY <1>1, AnnouncementsAreCalls, PTL DEF AnnouncementsSpec, CallsSpec

\* One key, one execution, also when the executions announce and the queue delivers.
THEOREM OneExecution == AnnouncementsSpec => []ExecutedOnce
  BY ImplementsCalls, HandlerRunsOnce, PTL

\* Every answer under a key is the response of its one execution.
THEOREM OneAnswer == AnnouncementsSpec => []AnswersAgree
  BY ImplementsCalls, ResponsesAgree, PTL

-----------------------------------------------------------------------------
AnyJob == [state : JobStates, failures : Nat, stalls : Nat]
JobRows == [job : AnyJob, of : Deliveries]
DeliveryRows == [status : {"NONE", "PENDING", "DELIVERED", "FAILED"}, attempts : Nat]

\* What the tables and the workers hold.
DeliveriesTyped ==
  /\ adding \in [Notices -> Subscribers \cup {Nobody}]
  /\ djobs \in Seq(JobRows)
  /\ delivery \in [Deliveries -> DeliveryRows]
  /\ dpc \in [Dispatchers -> DispatchSteps \cup {"idle"}]
  /\ djob \in [Dispatchers -> Nat]
  /\ dread \in [Dispatchers -> Nat]

\* A worker that is not idle has a job of the queue in hand.
HandsKnown == \A w \in Dispatchers : dpc[w] # "idle" => djob[w] \in 1..Len(djobs)

\* A worker about to write DELIVERED has had its post accepted.
AcceptedKnown == \A w \in Dispatchers : dpc[w] = "delivered" => Current(w) \in accepted

DeliveryInv == DeliveriesTyped /\ HandsKnown /\ AcceptedKnown /\ DeliveredIsAccepted

\* Jobs are added and change their state; what they are for stays.
JobsKept == /\ djobs' \in Seq(JobRows)
            /\ Len(djobs') >= Len(djobs)
            /\ \A i \in 1..Len(djobs) : djobs'[i].of = djobs[i].of

\* The hands of w are untouched.
HandKept(w) == dpc'[w] = dpc[w] /\ djob'[w] = djob[w]

LEMMA JobOperators ==
  ASSUME NEW j \in AnyJob
  PROVE  /\ Taken(j) \in AnyJob /\ Completed(j) \in AnyJob
         /\ Failed(j) \in AnyJob /\ Stalled(j) \in AnyJob
<1>1. Taken(j) \in AnyJob /\ Completed(j) \in AnyJob
  BY DEF AnyJob, JobStates, Taken, Completed
<1>2. Failed(j) \in AnyJob
  <2> DEFINE state == IF j.failures + 1 < MaxAttempts THEN "waiting" ELSE "failed"
  <2>1. state \in JobStates
    BY DEF JobStates
  <2>2. j.failures + 1 \in Nat
    BY DEF AnyJob
  <2> HIDE DEF state
  <2>3. [j EXCEPT !.failures = j.failures + 1, !.state = state] \in AnyJob
    BY <2>1, <2>2 DEF AnyJob
  <2>4. QED
    BY <2>3 DEF Failed, state
<1>3. Stalled(j) \in AnyJob
  <2> DEFINE state == IF j.stalls + 1 > MaxStalls THEN "failed" ELSE "waiting"
  <2>1. state \in JobStates
    BY DEF JobStates
  <2>2. j.stalls + 1 \in Nat
    BY DEF AnyJob
  <2> HIDE DEF state
  <2>3. [j EXCEPT !.stalls = j.stalls + 1, !.state = state] \in AnyJob
    BY <2>1, <2>2 DEF AnyJob
  <2>4. QED
    BY <2>3 DEF Stalled, state
<1>4. QED
  BY <1>1, <1>2, <1>3

LEMMA SetKeepsJobs ==
  ASSUME djobs \in Seq(JobRows), NEW i \in 1..Len(djobs), NEW value \in AnyJob, SetDJob(i, value)
  PROVE  JobsKept
<1>1. djobs' = [djobs EXCEPT ![i] = [djobs[i] EXCEPT !.job = value]]
  BY DEF SetDJob
<1>2. djobs[i] \in JobRows
  OBVIOUS
<1>3. /\ [djobs[i] EXCEPT !.job = value] \in JobRows
      /\ [djobs[i] EXCEPT !.job = value].of = djobs[i].of
  BY <1>2 DEF JobRows
<1>4. QED
  BY <1>1, <1>3 DEF JobsKept

LEMMA AddKeepsJobs ==
  ASSUME djobs \in Seq(JobRows), NEW d \in Deliveries, AddJob(d)
  PROVE  JobsKept
<1>1. Added \in AnyJob
  BY DEF Added, AnyJob, JobStates
<1>2. [job |-> Added, of |-> d] \in JobRows
  BY <1>1 DEF JobRows
<1>3. djobs' = Append(djobs, [job |-> Added, of |-> d])
  BY DEF AddJob
<1>4. QED
  BY <1>2, <1>3 DEF JobsKept

LEMMA StayKeepsJobs ==
  ASSUME djobs \in Seq(JobRows), UNCHANGED djobs
  PROVE  JobsKept
  BY DEF JobsKept

LEMMA CurrentTyped ==
  ASSUME DeliveriesTyped, HandsKnown, NEW w \in Dispatchers, dpc[w] # "idle"
  PROVE  /\ djob[w] \in 1..Len(djobs) /\ djobs[djob[w]] \in JobRows
         /\ djobs[djob[w]].job \in AnyJob /\ Current(w) \in Deliveries
<1>1. djob[w] \in 1..Len(djobs) /\ djobs[djob[w]] \in JobRows
  BY DEF DeliveriesTyped, HandsKnown
<1>2. QED
  BY <1>1 DEF JobRows, Current

\* What a step must not do, worker by worker and row by row.
LEMMA Preserved ==
  ASSUME DeliveryInv, JobsKept, adding' \in [Notices -> Subscribers \cup {Nobody}],
         dpc' \in [Dispatchers -> DispatchSteps \cup {"idle"}],
         djob' \in [Dispatchers -> Nat], dread' \in [Dispatchers -> Nat],
         delivery' \in [Deliveries -> DeliveryRows],
         accepted \subseteq accepted',
         \A w \in Dispatchers :
           \/ dpc'[w] = "idle"
           \/ /\ djob'[w] \in 1..Len(djobs)
              /\ dpc'[w] = "delivered" =>
                   \/ HandKept(w)
                   \/ djobs[djob'[w]].of \in accepted',
         \A d \in Deliveries :
           delivery'[d].status = "DELIVERED" => delivery[d].status = "DELIVERED" \/ d \in accepted'
  PROVE  DeliveryInv'
<1>1. DeliveriesTyped'
  BY DEF DeliveriesTyped, JobsKept
<1>2. HandsKnown'
  BY DEF HandsKnown, JobsKept, DeliveryInv, DeliveriesTyped
<1>3. AcceptedKnown'
  <2>1. SUFFICES ASSUME NEW w \in Dispatchers, dpc'[w] = "delivered"
                 PROVE  djobs'[djob'[w]].of \in accepted'
    BY DEF AcceptedKnown, Current
  <2>2. djob'[w] \in 1..Len(djobs)
    BY <2>1
  <2>3. djobs[djob'[w]].of \in accepted'
    BY <2>1 DEF DeliveryInv, AcceptedKnown, Current, HandKept
  <2>4. QED
    BY <2>2, <2>3 DEF JobsKept
<1>4. DeliveredIsAccepted'
  BY DEF DeliveryInv, DeliveredIsAccepted
<1>5. QED
  BY <1>1, <1>2, <1>3, <1>4 DEF DeliveryInv

-----------------------------------------------------------------------------
LEMMA InitDelivery == DispatchInit => DeliveryInv
  BY DEF DispatchInit, DeliveryInv, DeliveriesTyped, HandsKnown, AcceptedKnown,
         DeliveredIsAccepted, DeliveryRows

\* The steps that touch no worker and leave DELIVERED alone.
LEMMA OutsideKeeps ==
  ASSUME DeliveryInv, JobsKept, adding' \in [Notices -> Subscribers \cup {Nobody}],
         UNCHANGED <<workVars, accepted>>,
         delivery' \in [Deliveries -> DeliveryRows],
         \A d \in Deliveries : delivery'[d].status = "DELIVERED" => delivery[d] = delivery'[d]
  PROVE  DeliveryInv'
<1>1. UNCHANGED <<dpc, djob, dread, accepted>>
  BY DEF workVars
<1>2. /\ dpc' \in [Dispatchers -> DispatchSteps \cup {"idle"}]
      /\ djob' \in [Dispatchers -> Nat] /\ dread' \in [Dispatchers -> Nat]
      /\ \A w \in Dispatchers : \/ dpc'[w] = "idle"
                                \/ djob'[w] \in 1..Len(djobs) /\ HandKept(w)
  BY <1>1 DEF DeliveryInv, DeliveriesTyped, HandsKnown, HandKept
<1>3. QED
  BY <1>1, <1>2, Preserved

LEMMA EmitKeeps ==
  ASSUME DeliveryInv, NEW n \in Notices, Emit(n) \/ EmitStep(n) \/ EmitThrows(n)
  PROVE  DeliveryInv'
<1>1. /\ djobs \in Seq(JobRows) /\ delivery \in [Deliveries -> DeliveryRows]
      /\ adding \in [Notices -> Subscribers \cup {Nobody}]
  BY DEF DeliveryInv, DeliveriesTyped
<1>2. CASE Emit(n) \/ EmitReturns(n) \/ EmitThrows(n)
  <2>1. /\ UNCHANGED <<workVars, accepted, delivery, djobs>>
        /\ adding' \in [Notices -> Subscribers \cup {Nobody}]
    BY <1>1, <1>2 DEF Emit, EmitReturns, EmitThrows, worldVars
  <2>2. QED
    BY <1>1, <2>1, StayKeepsJobs, OutsideKeeps
<1>3. ASSUME NEW s \in Subscribers, InsertDelivery(n, s) PROVE DeliveryInv'
  <2>1. /\ UNCHANGED <<workVars, accepted, djobs>>
        /\ delivery' = [delivery EXCEPT ![<<n, s>>] = [status |-> "PENDING", attempts |-> 0]]
        /\ <<n, s>> \in Deliveries /\ adding' \in [Notices -> Subscribers \cup {Nobody}]
    BY <1>1, <1>3 DEF InsertDelivery, worldVars, Deliveries
  <2>2. /\ delivery' \in [Deliveries -> DeliveryRows]
        /\ \A d \in Deliveries : delivery'[d].status = "DELIVERED" => delivery[d] = delivery'[d]
    BY <1>1, <2>1 DEF DeliveryRows
  <2>3. QED
    BY <1>1, <2>1, <2>2, StayKeepsJobs, OutsideKeeps
<1>4. CASE AddDispatch(n)
  <2>1. /\ UNCHANGED <<workVars, accepted, delivery>>
        /\ AddJob(<<n, adding[n]>>) /\ <<n, adding[n]>> \in Deliveries
        /\ adding' \in [Notices -> Subscribers \cup {Nobody}]
    BY <1>1, <1>4 DEF AddDispatch, worldVars, Deliveries
  <2>2. QED
    BY <1>1, <2>1, AddKeepsJobs, OutsideKeeps
<1>5. QED
  BY <1>2, <1>3, <1>4 DEF EmitStep

\* A step of one worker, from what it does to its own hands.
LEMMA WorkerKeeps ==
  ASSUME DeliveryInv, NEW w \in Dispatchers, JobsKept, UNCHANGED emitVars,
         NEW step \in DispatchSteps \cup {"idle"}, NEW j \in Nat, NEW r \in Nat,
         dpc' = [dpc EXCEPT ![w] = step], djob' = [djob EXCEPT ![w] = j],
         dread' = [dread EXCEPT ![w] = r],
         step # "idle" => j \in 1..Len(djobs),
         step = "delivered" => djobs[j].of \in accepted',
         delivery' \in [Deliveries -> DeliveryRows], accepted \subseteq accepted',
         \A d \in Deliveries :
           delivery'[d].status = "DELIVERED" => delivery[d].status = "DELIVERED" \/ d \in accepted'
  PROVE  DeliveryInv'
<1>1. /\ dpc' \in [Dispatchers -> DispatchSteps \cup {"idle"}]
      /\ djob' \in [Dispatchers -> Nat] /\ dread' \in [Dispatchers -> Nat]
      /\ adding' \in [Notices -> Subscribers \cup {Nobody}]
  BY DEF DeliveryInv, DeliveriesTyped, emitVars
<1>2. ASSUME NEW v \in Dispatchers
      PROVE  \/ dpc'[v] = "idle"
             \/ /\ djob'[v] \in 1..Len(djobs)
                /\ dpc'[v] = "delivered" => HandKept(v) \/ djobs[djob'[v]].of \in accepted'
  <2>1. CASE v = w
    BY <2>1 DEF DeliveryInv, DeliveriesTyped
  <2>2. CASE v # w
    BY <2>2 DEF DeliveryInv, DeliveriesTyped, HandsKnown, HandKept
  <2>3. QED
    BY <2>1, <2>2
<1>3. QED
  BY <1>1, <1>2, Preserved

\* The rows of deliveries and the record of what was accepted left alone.
LEMMA WorkerMoves ==
  ASSUME DeliveryInv, NEW w \in Dispatchers, JobsKept,
         UNCHANGED <<emitVars, delivery, accepted>>,
         NEW step \in (DispatchSteps \ {"delivered"}) \cup {"idle"}, NEW j \in Nat, NEW r \in Nat,
         dpc' = [dpc EXCEPT ![w] = step], djob' = [djob EXCEPT ![w] = j],
         dread' = [dread EXCEPT ![w] = r],
         step # "idle" => j \in 1..Len(djobs)
  PROVE  DeliveryInv'
<1>1. delivery' \in [Deliveries -> DeliveryRows]
  BY DEF DeliveryInv, DeliveriesTyped
<1>2. QED
  BY <1>1, WorkerKeeps

LEMMA EndsKeep ==
  ASSUME DeliveryInv, NEW w \in Dispatchers, JobsKept, EndDispatch(w),
         UNCHANGED <<emitVars, delivery, accepted>>
  PROVE  DeliveryInv'
  BY WorkerMoves DEF EndDispatch

LEMMA ThrowKeeps ==
  ASSUME DeliveryInv, NEW w \in Dispatchers, dpc[w] # "idle", ThrowDispatch(w),
         UNCHANGED <<emitVars, delivery, accepted>>
  PROVE  DeliveryInv'
<1>1. djobs \in Seq(JobRows) /\ djob[w] \in 1..Len(djobs) /\ djobs[djob[w]].job \in AnyJob
  BY CurrentTyped DEF DeliveryInv, DeliveriesTyped
<1>2. JobsKept
  BY <1>1, JobOperators, SetKeepsJobs, StayKeepsJobs DEF ThrowDispatch
<1>3. QED
  BY <1>2, EndsKeep DEF ThrowDispatch

LEMMA StartKeeps ==
  ASSUME DeliveryInv, NEW w \in Dispatchers, NEW i \in DOMAIN djobs, StartDispatch(w, i)
  PROVE  DeliveryInv'
<1>1. /\ djobs \in Seq(JobRows) /\ i \in 1..Len(djobs) /\ djobs[i] \in JobRows
      /\ delivery \in [Deliveries -> DeliveryRows]
  BY DEF DeliveryInv, DeliveriesTyped
<1>2. /\ djobs[i].job \in AnyJob /\ delivery[djobs[i].of].attempts \in Nat /\ i \in Nat
  BY <1>1 DEF JobRows, DeliveryRows
<1>3. JobsKept
  BY <1>1, <1>2, JobOperators, SetKeepsJobs DEF StartDispatch
<1>4. /\ dpc' = [dpc EXCEPT ![w] = "subscription"] /\ djob' = [djob EXCEPT ![w] = i]
      /\ dread' = [dread EXCEPT ![w] = delivery[djobs[i].of].attempts]
      /\ UNCHANGED <<emitVars, delivery, accepted>>
  BY DEF StartDispatch, DGo, worldVars
<1>5. "subscription" \in (DispatchSteps \ {"delivered"}) \cup {"idle"}
  BY DEF DispatchSteps
<1>6. QED
  BY <1>1, <1>2, <1>3, <1>4, <1>5, WorkerMoves

\* A step in the middle of dispatch(), which keeps job and count.
LEMMA GoKeeps ==
  ASSUME DeliveryInv, NEW w \in Dispatchers, JobsKept, UNCHANGED <<emitVars, djob, dread>>,
         dpc[w] # "idle", NEW step \in DispatchSteps, dpc' = [dpc EXCEPT ![w] = step],
         step = "delivered" => Current(w) \in accepted',
         delivery' \in [Deliveries -> DeliveryRows], accepted \subseteq accepted',
         \A d \in Deliveries :
           delivery'[d].status = "DELIVERED" => delivery[d].status = "DELIVERED" \/ d \in accepted'
  PROVE  DeliveryInv'
<1>1. /\ djob[w] \in Nat /\ dread[w] \in Nat /\ djob[w] \in 1..Len(djobs)
      /\ djob' = [djob EXCEPT ![w] = djob[w]] /\ dread' = [dread EXCEPT ![w] = dread[w]]
  BY DEF DeliveryInv, DeliveriesTyped, HandsKnown
<1>2. PICK j \in Nat, r \in Nat :
        /\ djob' = [djob EXCEPT ![w] = j] /\ dread' = [dread EXCEPT ![w] = r]
        /\ j \in 1..Len(djobs) /\ Current(w) = djobs[j].of
  BY <1>1 DEF Current
<1>3. step \in DispatchSteps \cup {"idle"} /\ UNCHANGED emitVars
  OBVIOUS
<1>4. QED
  BY <1>2, <1>3, WorkerKeeps

LEMMA WriteKeeps ==
  ASSUME DeliveryInv, NEW w \in Dispatchers, dpc[w] # "idle",
         NEW status \in {"DELIVERED", "FAILED"}, WriteDelivery(w, status),
         status = "DELIVERED" => Current(w) \in accepted
  PROVE  /\ delivery' \in [Deliveries -> DeliveryRows]
         /\ \A d \in Deliveries :
              delivery'[d].status = "DELIVERED" => delivery[d].status = "DELIVERED" \/ d \in accepted
<1>1. /\ Current(w) \in Deliveries /\ dread[w] + 1 \in Nat
      /\ delivery \in [Deliveries -> DeliveryRows]
  BY CurrentTyped DEF DeliveryInv, DeliveriesTyped
<1>2. delivery' = [delivery EXCEPT ![Current(w)] = [status |-> status, attempts |-> dread[w] + 1]]
  BY DEF WriteDelivery
<1>3. [status |-> status, attempts |-> dread[w] + 1] \in DeliveryRows
  BY <1>1 DEF DeliveryRows
<1>4. QED
  BY <1>1, <1>2, <1>3

LEMMA PostKeeps ==
  ASSUME DeliveryInv, NEW w \in Dispatchers, Post(w)
  PROVE  DeliveryInv'
<1>1. /\ dpc[w] = "post" /\ UNCHANGED <<emitVars, delivery, djobs, djob, dread>>
      /\ \/ dpc' = [dpc EXCEPT ![w] = "delivered"] /\ accepted' = accepted \cup {Current(w)}
         \/ dpc' = [dpc EXCEPT ![w] = "refused"] /\ accepted' = accepted
         \/ /\ dpc' = [dpc EXCEPT ![w] = "catch"]
            /\ accepted' \in {accepted, accepted \cup {Current(w)}}
  BY DEF Post, DGo
<1>2. JobsKept /\ delivery' \in [Deliveries -> DeliveryRows] /\ accepted \subseteq accepted'
  BY <1>1, StayKeepsJobs DEF DeliveryInv, DeliveriesTyped
<1>3. PICK step \in {"delivered", "refused", "catch"} :
        dpc' = [dpc EXCEPT ![w] = step] /\ (step = "delivered" => Current(w) \in accepted')
  BY <1>1
<1>4. step \in DispatchSteps
  BY DEF DispatchSteps
<1>5. QED
  BY <1>1, <1>2, <1>3, <1>4, GoKeeps

LEMMA UpdateKeeps ==
  ASSUME DeliveryInv, NEW w \in Dispatchers, Update(w) \/ Catch(w)
  PROVE  DeliveryInv'
<1>1. UNCHANGED <<emitVars, djobs, djob, dread, accepted>>
  BY DEF Update, Catch, worldVars
<1>2. JobsKept
  BY <1>1, StayKeepsJobs DEF DeliveryInv, DeliveriesTyped
<1>3. PICK step \in {"finish", "requeue", "retry"}, status \in {"DELIVERED", "FAILED"} :
        /\ dpc' = [dpc EXCEPT ![w] = step] /\ WriteDelivery(w, status)
        /\ status = "DELIVERED" => dpc[w] = "delivered"
        /\ dpc[w] \in {"delivered", "refused", "catch"}
  <2>1. CASE Update(w)
    BY <2>1 DEF Update, DGo
  <2>2. CASE Catch(w)
    BY <2>2 DEF Catch, DGo
  <2>3. QED
    BY <2>1, <2>2
<1>4. dpc[w] # "idle" /\ (status = "DELIVERED" => Current(w) \in accepted)
  BY <1>3 DEF DeliveryInv, AcceptedKnown
<1>5. step \in DispatchSteps /\ step # "delivered"
  BY DEF DispatchSteps
<1>6. /\ delivery' \in [Deliveries -> DeliveryRows]
      /\ \A d \in Deliveries :
           delivery'[d].status = "DELIVERED" => delivery[d].status = "DELIVERED" \/ d \in accepted
  BY <1>3, <1>4, WriteKeeps
<1>7. QED
  BY <1>1, <1>2, <1>3, <1>4, <1>5, <1>6, GoKeeps

LEMMA MiddleKeeps ==
  ASSUME DeliveryInv, NEW w \in Dispatchers, Requeue(w) \/ ThrowInTry(w)
  PROVE  DeliveryInv'
<1>1. PICK step \in {"finish", "catch"} :
        dpc[w] # "idle" /\ dpc' = [dpc EXCEPT ![w] = step]
  BY DEF Requeue, ThrowInTry, DGo
<1>2. UNCHANGED <<emitVars, delivery, djob, dread, accepted>>
  BY DEF Requeue, ThrowInTry, worldVars
<1>3. JobsKept
  <2>1. djobs \in Seq(JobRows) /\ Current(w) \in Deliveries
    BY <1>1, CurrentTyped DEF DeliveryInv, DeliveriesTyped
  <2>2. AddJob(Current(w)) \/ UNCHANGED djobs
    BY DEF Requeue, ThrowInTry
  <2>3. QED
    BY <2>1, <2>2, AddKeepsJobs, StayKeepsJobs
<1>4. step \in DispatchSteps /\ step # "delivered"
  BY DEF DispatchSteps
<1>5. delivery' \in [Deliveries -> DeliveryRows]
  BY <1>2 DEF DeliveryInv, DeliveriesTyped
<1>6. QED
  BY <1>1, <1>2, <1>3, <1>4, <1>5, GoKeeps

LEMMA ReadKeeps ==
  ASSUME DeliveryInv, NEW w \in Dispatchers, ReadSubscription(w)
  PROVE  DeliveryInv'
<1>1. dpc[w] # "idle" /\ UNCHANGED <<emitVars, delivery, accepted>>
  BY DEF ReadSubscription, worldVars
<1>2. CASE dpc' = [dpc EXCEPT ![w] = "post"] /\ UNCHANGED <<djobs, djob, dheld, dread>>
  <2>1. JobsKept /\ delivery' \in [Deliveries -> DeliveryRows]
    BY <1>1, <1>2, StayKeepsJobs DEF DeliveryInv, DeliveriesTyped
  <2>2. "post" \in DispatchSteps
    BY DEF DispatchSteps
  <2>3. QED
    BY <1>1, <1>2, <2>1, <2>2, GoKeeps
<1>3. CASE ThrowDispatch(w)
  BY <1>1, <1>3, ThrowKeeps
<1>4. QED
  BY <1>2, <1>3 DEF ReadSubscription

LEMMA LastKeeps ==
  ASSUME DeliveryInv, NEW w \in Dispatchers,
         FinishDispatch(w) \/ FailDispatch(w) \/ CrashDispatch(w)
  PROVE  DeliveryInv'
<1>1. dpc[w] # "idle" /\ UNCHANGED <<emitVars, delivery, accepted>>
  BY DEF FinishDispatch, FailDispatch, CrashDispatch, DispatchSteps, worldVars
<1>2. djobs \in Seq(JobRows) /\ djob[w] \in 1..Len(djobs) /\ djobs[djob[w]].job \in AnyJob
  BY <1>1, CurrentTyped DEF DeliveryInv, DeliveriesTyped
<1>3. CASE FinishDispatch(w)
  <2>1. JobsKept
    BY <1>2, <1>3, JobOperators, SetKeepsJobs, StayKeepsJobs DEF FinishDispatch
  <2>2. QED
    BY <1>1, <1>3, <2>1, EndsKeep DEF FinishDispatch
<1>4. CASE FailDispatch(w)
  BY <1>1, <1>4, ThrowKeeps DEF FailDispatch
<1>5. CASE CrashDispatch(w)
  BY <1>1, <1>2, <1>5, StayKeepsJobs, EndsKeep DEF CrashDispatch
<1>6. QED
  BY <1>3, <1>4, <1>5

LEMMA ElsewhereKeeps ==
  ASSUME DeliveryInv,
         \/ \E i \in DOMAIN djobs : StallDispatch(i)
         \/ \E s \in Subscribers : Subscribe(s) \/ Deactivate(s)
  PROVE  DeliveryInv'
<1>1. /\ UNCHANGED <<dpc, djob, dread, accepted, delivery>>
      /\ adding' = adding
  BY DEF StallDispatch, Subscribe, Deactivate, worldVars, workVars, emitVars
<1>2. JobsKept
  <2>1. CASE \E i \in DOMAIN djobs : StallDispatch(i)
    <3>1. PICK i \in DOMAIN djobs : StallDispatch(i)
      BY <2>1
    <3>2. i \in 1..Len(djobs) /\ djobs \in Seq(JobRows) /\ djobs[i] \in JobRows
      BY DEF DeliveryInv, DeliveriesTyped
    <3>3. djobs[i].job \in AnyJob
      BY <3>2 DEF JobRows
    <3>4. QED
      BY <3>1, <3>2, <3>3, JobOperators, SetKeepsJobs DEF StallDispatch
  <2>2. CASE \E s \in Subscribers : Subscribe(s) \/ Deactivate(s)
    BY <2>2, StayKeepsJobs DEF Subscribe, Deactivate, DeliveryInv, DeliveriesTyped
  <2>3. QED
    BY <2>1, <2>2
<1>3. QED
  <2>1. \A w \in Dispatchers : \/ dpc'[w] = "idle"
                               \/ djob'[w] \in 1..Len(djobs) /\ HandKept(w)
    BY <1>1 DEF DeliveryInv, HandsKnown, HandKept
  <2>2. DeliveriesTyped
    BY DEF DeliveryInv
  <2>3. QED
    BY <1>1, <1>2, <2>1, <2>2, Preserved DEF DeliveriesTyped

-----------------------------------------------------------------------------
LEMMA StepDelivery == DeliveryInv /\ [AnnouncementsNext]_announcementVars => DeliveryInv'
<1>1. SUFFICES ASSUME DeliveryInv, [AnnouncementsNext]_announcementVars PROVE DeliveryInv'
  OBVIOUS
<1>2. CASE QueueNext
  <2>1. ASSUME NEW w \in Dispatchers,
               \/ DispatchStep(w) \/ ThrowInTry(w) \/ FailDispatch(w) \/ CrashDispatch(w)
               \/ \E i \in DOMAIN djobs : StartDispatch(w, i)
        PROVE  DeliveryInv'
    BY <1>1, <2>1, ReadKeeps, PostKeeps, UpdateKeeps, MiddleKeeps, LastKeeps, StartKeeps
       DEF DispatchStep
  <2>2. QED
    BY <1>1, <1>2, <2>1, ElsewhereKeeps DEF QueueNext
<1>3. ASSUME NEW q \in Calls, Announce(q) \/ HandlerThrows(q) PROVE DeliveryInv'
  BY <1>1, <1>3, EmitKeeps, AnnouncementsAssumption DEF Announce, HandlerThrows
<1>4. CASE UNCHANGED dispatchVars
  <2>1. UNCHANGED <<adding, djobs, delivery, dpc, djob, dread, accepted>>
    BY <1>4 DEF dispatchVars, emitVars, workVars, worldVars
  <2>2. QED
    BY <1>1, <2>1 DEF DeliveryInv, DeliveriesTyped, HandsKnown, AcceptedKnown,
                      DeliveredIsAccepted, Current
<1>5. CASE UNCHANGED announcementVars
  BY <1>4, <1>5 DEF announcementVars
<1>6. QED
  BY <1>1, <1>2, <1>3, <1>4, <1>5 DEF AnnouncementsNext, HandlerReturns, CallThrows

\* A delivery is marked DELIVERED only if its subscriber accepted it, for any number of workers
\* and faults, although rows are overwritten by whoever comes late.
THEOREM DeliveredAccepted == AnnouncementsSpec => []DeliveredIsAccepted
<1>1. AnnouncementsInit => DeliveryInv
  BY InitDelivery DEF AnnouncementsInit
<1>2. DeliveryInv => DeliveredIsAccepted
  BY DEF DeliveryInv
<1>3. QED
  BY <1>1, <1>2, StepDelivery, PTL DEF AnnouncementsSpec

-----------------------------------------------------------------------------
(* Nobody is answered before the subscribers are served.                        *)

HasJob(d) == \E i \in DOMAIN djobs : djobs[i].of = d

\* Every row has its job, or its emit is about to add it or has failed; an emit that returned
\* has a row for each subscriber it found.
EmitsSound ==
  /\ epc \in [Notices -> {"idle", "loop", "returned", "thrown"}]
  /\ matching \in [Notices -> SUBSET Subscribers]
  /\ \A n \in Notices : epc[n] # "loop" => adding[n] = Nobody
  /\ \A n \in Notices : adding[n] # Nobody => delivery[<<n, adding[n]>>].status # "NONE"
  /\ \A n \in Notices, s \in Subscribers :
       epc[n] # "thrown" /\ delivery[<<n, s>>].status # "NONE" =>
         adding[n] = s \/ HasJob(<<n, s>>)
  /\ \A n \in Notices : epc[n] = "returned" =>
       \A s \in matching[n] : delivery[<<n, s>>].status # "NONE"

\* A step is one of an emit, of the queue, or leaves the dispatching alone.
LEMMA DispatchSteps3 ==
  ASSUME [AnnouncementsNext]_announcementVars
  PROVE  \/ \E n \in Notices : Emit(n) \/ EmitStep(n) \/ EmitThrows(n)
         \/ QueueNext
         \/ UNCHANGED dispatchVars
  BY AnnouncementsAssumption
     DEF AnnouncementsNext, Announce, HandlerThrows, HandlerReturns, CallThrows, announcementVars

\* What becomes of the jobs.
LEMMA JobsChange ==
  ASSUME DeliveryInv, [AnnouncementsNext]_announcementVars
  PROVE  \/ UNCHANGED djobs
         \/ \E i \in 1..Len(djobs), value \in AnyJob : SetDJob(i, value)
         \/ \E d \in Deliveries : AddJob(d)
<1>. USE DEF DeliveryInv
<1>1. ASSUME NEW i \in DOMAIN djobs
      PROVE  /\ i \in 1..Len(djobs)
             /\ Taken(djobs[i].job) \in AnyJob /\ Completed(djobs[i].job) \in AnyJob
             /\ Failed(djobs[i].job) \in AnyJob /\ Stalled(djobs[i].job) \in AnyJob
  <2>1. i \in 1..Len(djobs) /\ djobs[i] \in JobRows
    BY DEF DeliveriesTyped
  <2>. QED BY <2>1, JobOperators DEF JobRows
<1>2. ASSUME NEW w \in Dispatchers, dpc[w] # "idle"
      PROVE  djob[w] \in DOMAIN djobs /\ Current(w) \in Deliveries
  BY <1>2, CurrentTyped DEF DeliveriesTyped
<1>3. ASSUME NEW n \in Notices, AddDispatch(n) PROVE <<n, adding[n]>> \in Deliveries
  BY <1>3 DEF AddDispatch, DeliveriesTyped, Deliveries
<1>4. ASSUME NEW n \in Notices, Emit(n) \/ EmitStep(n) \/ EmitThrows(n)
      PROVE  UNCHANGED djobs \/ \E d \in Deliveries : AddJob(d)
  BY <1>3, <1>4 DEF Emit, EmitStep, EmitThrows, EmitReturns, InsertDelivery, AddDispatch
<1>5. ASSUME NEW w \in Dispatchers, DispatchStep(w) \/ ThrowInTry(w) \/ FailDispatch(w) \/ CrashDispatch(w)
      PROVE  \/ UNCHANGED djobs
             \/ \E i \in 1..Len(djobs), value \in AnyJob : SetDJob(i, value)
             \/ \E d \in Deliveries : AddJob(d)
  <2>1. dpc[w] # "idle"
    BY <1>5 DEF DispatchStep, ReadSubscription, Post, Update, Catch, Requeue, FinishDispatch,
                ThrowInTry, FailDispatch, CrashDispatch, DGo, DispatchSteps
  <2>. QED BY <1>1, <1>2, <1>5, <2>1
           DEF DispatchStep, ReadSubscription, Post, Update, Catch, Requeue, FinishDispatch,
               ThrowInTry, FailDispatch, CrashDispatch, ThrowDispatch
<1>6. ASSUME NEW i \in DOMAIN djobs, StallDispatch(i) \/ \E w \in Dispatchers : StartDispatch(w, i)
      PROVE  \E value \in AnyJob : SetDJob(i, value)
  BY <1>1, <1>6 DEF StallDispatch, StartDispatch
<1>7. CASE \E s \in Subscribers : Subscribe(s) \/ Deactivate(s)
  BY <1>7 DEF Subscribe, Deactivate
<1>. QED BY <1>1, <1>4, <1>5, <1>6, <1>7, DispatchSteps3 DEF QueueNext, dispatchVars

LEMMA JobsAreKept ==
  ASSUME DeliveryInv, [AnnouncementsNext]_announcementVars
  PROVE  JobsKept
  BY JobsChange, SetKeepsJobs, AddKeepsJobs, StayKeepsJobs DEF DeliveryInv, DeliveriesTyped

LEMMA JobsRemain ==
  ASSUME DeliveryInv, [AnnouncementsNext]_announcementVars, NEW d, HasJob(d)
  PROVE  HasJob(d)'
<1>1. PICK i \in DOMAIN djobs : djobs[i].of = d
  BY DEF HasJob
<1>2. i \in 1..Len(djobs) /\ i \in 1..Len(djobs') /\ djobs'[i].of = d
  BY <1>1, JobsAreKept, SMTT(30) DEF JobsKept, DeliveryInv, DeliveriesTyped
<1>3. DOMAIN djobs' = 1..Len(djobs')
  BY JobsAreKept DEF JobsKept
<1>. QED BY <1>2, <1>3 DEF HasJob

\* The queue writes rows that have jobs, and never back to NONE.
LEMMA QueueWrites ==
  ASSUME DeliveryInv, QueueNext, NEW d \in Deliveries
  PROVE  /\ UNCHANGED <<epc, matching, adding>>
         /\ delivery'[d] = delivery[d] \/ (HasJob(d) /\ delivery'[d].status # "NONE")
<1>1. ASSUME NEW w \in Dispatchers, Update(w) \/ Catch(w)
      PROVE  delivery'[d] = delivery[d] \/ (HasJob(d) /\ delivery'[d].status # "NONE")
  <2>1. dpc[w] # "idle"
    BY <1>1 DEF Update, Catch, DGo
  <2>2. HasJob(Current(w))
    <3>1. djob[w] \in DOMAIN djobs
      BY <2>1, CurrentTyped DEF DeliveryInv, DeliveriesTyped
    <3>. QED BY <3>1 DEF HasJob, Current
  <2>3. WriteDelivery(w, "DELIVERED") \/ WriteDelivery(w, "FAILED")
    BY <1>1 DEF Update, Catch
  <2>. QED BY <2>2, <2>3 DEF WriteDelivery, DeliveryInv, DeliveriesTyped
<1>2. \/ \E w \in Dispatchers : Update(w) \/ Catch(w)
      \/ UNCHANGED delivery
  BY DEF QueueNext, DispatchStep, ReadSubscription, Post, Requeue, FinishDispatch, ThrowInTry,
         FailDispatch, CrashDispatch, StartDispatch, StallDispatch, Subscribe, Deactivate
<1>3. UNCHANGED <<epc, matching, adding>>
  BY DEF QueueNext, DispatchStep, ReadSubscription, Post, Update, Catch, Requeue, FinishDispatch,
         ThrowInTry, FailDispatch, CrashDispatch, StartDispatch, StallDispatch, Subscribe,
         Deactivate, emitVars
<1>. QED BY <1>1, <1>2, <1>3

LEMMA EmitsSoundStep ==
  ASSUME DeliveryInv, EmitsSound, [AnnouncementsNext]_announcementVars
  PROVE  EmitsSound'
<1>1. \A d : HasJob(d) => HasJob(d)'
  BY JobsRemain
<1>2. ASSUME NEW n \in Notices, Emit(n) \/ EmitStep(n) \/ EmitThrows(n) PROVE EmitsSound'
  <2>. USE DEF EmitsSound, DeliveryInv, DeliveriesTyped
  <2>1. CASE Emit(n)
    BY <1>1, <2>1 DEF Emit, Active
  <2>2. ASSUME NEW s \in Subscribers, InsertDelivery(n, s) PROVE EmitsSound'
    <3>1. /\ delivery' = [delivery EXCEPT ![<<n, s>>] = [status |-> "PENDING", attempts |-> 0]]
          /\ adding' = [adding EXCEPT ![n] = s] /\ UNCHANGED <<epc, matching>>
          /\ epc[n] = "loop" /\ adding[n] = Nobody /\ s # Nobody
      BY <2>2, DispatchAssumption DEF InsertDelivery
    <3>2. \A m \in Notices, r \in Subscribers :
            /\ m = n /\ r = s => delivery'[<<m, r>>].status = "PENDING"
            /\ ~(m = n /\ r = s) => delivery'[<<m, r>>] = delivery[<<m, r>>]
      BY <3>1 DEF Deliveries
    <3>3. \A m \in Notices : IF m = n THEN adding'[m] = s ELSE adding'[m] = adding[m]
      BY <3>1
    <3>4. \A m \in Notices : adding'[m] # Nobody => delivery'[<<m, adding'[m]>>].status # "NONE"
      BY <3>2, <3>3
    <3>5. \A m \in Notices, r \in Subscribers :
            epc'[m] # "thrown" /\ delivery'[<<m, r>>].status # "NONE" =>
              adding'[m] = r \/ HasJob(<<m, r>>)'
      <4>. SUFFICES ASSUME NEW m \in Notices, NEW r \in Subscribers, epc'[m] # "thrown",
                           delivery'[<<m, r>>].status # "NONE", adding'[m] # r
                    PROVE  HasJob(<<m, r>>)'
        OBVIOUS
      <4>1. ~(m = n /\ r = s)
        BY <3>3
      <4>2. epc[m] # "thrown" /\ delivery[<<m, r>>].status # "NONE" /\ adding[m] # r
        <5>1. CASE m = n
          BY <3>1, <3>2, <4>1, <5>1, DispatchAssumption
        <5>2. CASE m # n
          BY <3>1, <3>2, <3>3, <5>2
        <5>. QED BY <5>1, <5>2
      <4>3. HasJob(<<m, r>>)
        BY <4>2
      <4>. QED BY <1>1, <4>3
    <3>6. \A m \in Notices : epc'[m] = "returned" =>
            \A r \in matching'[m] : delivery'[<<m, r>>].status # "NONE"
      BY <3>1, <3>2
    <3>7. /\ adding' \in [Notices -> Subscribers \cup {Nobody}]
          /\ \A m \in Notices : epc'[m] # "loop" => adding'[m] = Nobody
      BY <3>1, <3>3
    <3>. QED BY <3>1, <3>4, <3>5, <3>6, <3>7
  <2>3. CASE AddDispatch(n)
    <3>1. PICK s \in Subscribers :
            /\ adding[n] = s /\ AddJob(<<n, s>>) /\ adding' = [adding EXCEPT ![n] = Nobody]
            /\ epc[n] = "loop" /\ UNCHANGED <<epc, matching, delivery>>
            /\ <<n, s>> \in Deliveries
      BY <2>3 DEF AddDispatch, Deliveries
    <3>2. HasJob(<<n, s>>)'
      <4>. DEFINE row == [job |-> Added, of |-> <<n, s>>]
      <4>1. row \in JobRows /\ row.of = <<n, s>>
        BY <3>1 DEF JobRows, AnyJob, Added, JobStates
      <4>2. djobs' = Append(djobs, row) /\ djobs \in Seq(JobRows)
        BY <3>1 DEF AddJob
      <4>. HIDE DEF row
      <4>3. Len(djobs) + 1 \in DOMAIN djobs' /\ djobs'[Len(djobs) + 1] = row
        BY <4>1, <4>2
      <4>. QED BY <4>1, <4>3 DEF HasJob
    <3>. QED BY <1>1, <3>1, <3>2
  <2>4. CASE EmitReturns(n)
    BY <1>1, <2>4 DEF EmitReturns
  <2>5. CASE EmitThrows(n)
    BY <1>1, <2>5 DEF EmitThrows
  <2>. QED BY <1>2, <2>1, <2>2, <2>3, <2>4, <2>5 DEF EmitStep
<1>3. CASE QueueNext
  <2>1. /\ UNCHANGED <<epc, matching, adding>>
        /\ \A n \in Notices, s \in Subscribers :
             \/ delivery'[<<n, s>>] = delivery[<<n, s>>]
             \/ HasJob(<<n, s>>) /\ delivery'[<<n, s>>].status # "NONE"
    <3>1. \A n \in Notices, s \in Subscribers : <<n, s>> \in Deliveries
      BY DEF Deliveries
    <3>2. UNCHANGED <<epc, matching, adding>>
      BY <1>3 DEF QueueNext, DispatchStep, ReadSubscription, Post, Update, Catch, Requeue,
         FinishDispatch, ThrowInTry, FailDispatch, CrashDispatch, StartDispatch, StallDispatch,
         Subscribe, Deactivate, emitVars
    <3>. QED BY <1>3, <3>1, <3>2, QueueWrites
  <2>. QED BY <1>1, <2>1 DEF EmitsSound, DeliveryInv, DeliveriesTyped
<1>4. CASE UNCHANGED dispatchVars
  BY <1>4 DEF dispatchVars, emitVars, EmitsSound, HasJob
<1>. QED BY <1>2, <1>3, <1>4, DispatchSteps3

\* Behind a stored response and behind an answer is an execution whose emit has returned.
AnswersServed ==
  /\ \A q \in Calls : cpc[q] = "complete" => epc[q] = "returned"
  /\ \A k \in Keys : record[k] # NoRow /\ record[k].response # NoCall =>
       epc[record[k].response] = "returned"
  /\ \A q \in Calls : cpc[q] = "answered" => epc[answer[q]] = "returned"

\* An emit that has returned has returned for good.
LEMMA ReturnedForGood ==
  ASSUME DeliveryInv, EmitsSound, [AnnouncementsNext]_announcementVars,
         NEW p \in Calls, epc[p] = "returned"
  PROVE  epc'[p] = "returned"
<1>1. ASSUME NEW n \in Notices, Emit(n) \/ EmitStep(n) \/ EmitThrows(n) PROVE epc'[p] = "returned"
  BY <1>1, AnnouncementsAssumption
     DEF Emit, EmitStep, EmitThrows, InsertDelivery, AddDispatch, EmitReturns, EmitsSound
<1>2. CASE QueueNext
  BY <1>2 DEF QueueNext, DispatchStep, ReadSubscription, Post, Update, Catch, Requeue,
     FinishDispatch, ThrowInTry, FailDispatch, CrashDispatch, StartDispatch, StallDispatch,
     Subscribe, Deactivate, emitVars
<1>. QED BY <1>1, <1>2, DispatchSteps3 DEF dispatchVars, emitVars

LEMMA AnswersServedStep ==
  ASSUME CallsInv, DeliveryInv, EmitsSound, AnswersServed, [AnnouncementsNext]_announcementVars
  PROVE  AnswersServed'
<1>. USE DEF CallsInv, CallsTypeOK
<1>1. \A p \in Calls : epc[p] = "returned" => epc'[p] = "returned"
  BY ReturnedForGood
<1>2. \A k \in Keys : record[k] # NoRow /\ record[k].response # NoCall => record[k].response \in Calls
  BY DEF ResponsesKnown
<1>3. ASSUME NEW q \in Calls, FindRecord(q) PROVE AnswersServed'
  <2>1. UNCHANGED <<record, executed>>
    BY <1>3 DEF FindRecord
  <2>2. ASSUME NEW p \in Calls, cpc'[p] = "answered" PROVE epc'[answer'[p]] = "returned"
    <3>1. CASE p = q
      <4>. DEFINE row == Existing(key[q])
      <4>1. cpc'[q] = IF row = NoRow THEN "insert" ELSE IF Replays(q, row) THEN "answered" ELSE "conflict"
        BY <1>3 DEF FindRecord
      <4>2. row # NoRow /\ Replays(q, row)
        BY <2>2, <3>1, <4>1
      <4>3. answer'[q] = row.response /\ row = record[key[q]] /\ row.response # NoCall
        BY <1>3, <4>2 DEF FindRecord, Replays, Existing
      <4>. QED BY <1>1, <1>2, <3>1, <4>2, <4>3 DEF AnswersServed
    <3>2. CASE p # q
      <4>1. cpc[p] = "answered" /\ answer'[p] = answer[p]
        BY <1>3, <2>2, <3>2 DEF FindRecord
      <4>. QED BY <1>1, <4>1 DEF AnswersServed, AnswersAgree
    <3>. QED BY <3>1, <3>2
  <2>3. \A p \in Calls : cpc'[p] = "complete" => cpc[p] = "complete"
    BY <1>3 DEF FindRecord
  <2>. QED BY <1>1, <1>2, <2>1, <2>2, <2>3 DEF AnswersServed
<1>4. ASSUME NEW q \in Calls, Complete(q) PROVE AnswersServed'
  <2>1. /\ cpc[q] = "complete" /\ cpc' = [cpc EXCEPT ![q] = "answered"]
        /\ record' = [record EXCEPT ![key[q]].response = q]
        /\ answer' = [answer EXCEPT ![q] = q]
    BY <1>4 DEF Complete, CGo
  <2>2. epc[q] = "returned" /\ epc'[q] = "returned"
    BY <1>1, <2>1 DEF AnswersServed
  <2>3. record[key[q]] \in Rows
    BY <2>1 DEF HandlersExecute, ExecutionsKnown
  <2>4. record' = [record EXCEPT ![key[q]] = [record[key[q]] EXCEPT !.response = q]]
    BY <2>1
  <2>5. /\ record'[key[q]].response = q
        /\ \A k \in Keys : k # key[q] => record'[k] = record[k]
    BY <2>3, <2>4 DEF Rows
  <2>6. \A p \in Calls : cpc[p] = "answered" => answer[p] \in Calls
    BY DEF AnswersAgree
  <2>. QED BY <1>1, <1>2, <2>1, <2>2, <2>5, <2>6 DEF AnswersServed
<1>5. ASSUME NEW q \in Calls, InsertRecord(q) PROVE AnswersServed'
  <2>1. /\ \A p \in Calls : cpc'[p] \in {"complete", "answered"} => cpc'[p] = cpc[p]
        /\ answer' = answer
    BY <1>5 DEF InsertRecord
  <2>2. \A k \in Keys : record'[k] = record[k] \/ record'[k].response = NoCall
    BY <1>5 DEF InsertRecord, Fresh
  <2>3. \A p \in Calls : cpc[p] = "answered" => answer[p] \in Calls
    BY DEF AnswersAgree
  <2>. QED BY <1>1, <1>2, <2>1, <2>2, <2>3 DEF AnswersServed
<1>6. ASSUME NEW k \in Keys, Expire(k) PROVE AnswersServed'
  <2>1. /\ record[k] \in Rows /\ UNCHANGED <<cpc, answer>>
        /\ record' = [record EXCEPT ![k] = [record[k] EXCEPT !.expired = TRUE]]
    BY <1>6 DEF Expire
  <2>2. \A l \in Keys : /\ record'[l] = NoRow => record[l] = NoRow
                        /\ record[l] # NoRow => record'[l].response = record[l].response
    BY <2>1, IdempotencyAssumption DEF Rows
  <2>3. \A l \in Keys : record'[l] # NoRow => record[l] # NoRow
    BY <1>6, <2>1 DEF Expire
  <2>4. \A p \in Calls : cpc[p] = "answered" => answer[p] \in Calls
    BY DEF AnswersAgree
  <2>. QED BY <1>1, <1>2, <2>1, <2>2, <2>3, <2>4 DEF AnswersServed
<1>7. ASSUME UNCHANGED <<record, answer>>,
             \A p \in Calls : \/ cpc'[p] \notin {"complete", "answered"} \/ cpc'[p] = cpc[p]
                              \/ cpc'[p] = "complete" /\ epc[p] = "returned"
      PROVE  AnswersServed'
  <2>1. \A p \in Calls : cpc[p] = "answered" => answer[p] \in Calls
    BY DEF AnswersAgree
  <2>. QED BY <1>1, <1>2, <1>7, <2>1 DEF AnswersServed
<1>8. ASSUME NEW q \in Calls, HandlerReturns(q) \/ HandlerThrows(q) \/ CallThrows(q) PROVE AnswersServed'
  BY <1>7, <1>8 DEF HandlerReturns, HandlerThrows, CallThrows, Handle, AbortCall, CGo
<1>9. ASSUME NEW q \in Calls, NEW k \in Keys, NEW b \in Bodies, Call(q, k, b) PROVE AnswersServed'
  BY <1>7, <1>9 DEF Call, CGo
<1>10. CASE UNCHANGED callVars
  BY <1>7, <1>10 DEF callVars
<1>. QED BY <1>3, <1>4, <1>5, <1>6, <1>8, <1>9, <1>10
         DEF AnnouncementsNext, Announce, announcementVars

\* Whatever is lost, repeated or expired on the way: who is answered, also by a replay, is
\* answered with an execution that has a row and a job for each of its subscribers
\* (idempotency.interceptor.ts around resolveCase, downstream-webhooks.service.ts line 27).
THEOREM AnsweredAnnounced == AnnouncementsSpec => []AnsweredIsAnnounced
<1>1. AnnouncementsInit => CallsInv /\ DeliveryInv /\ EmitsSound /\ AnswersServed
  BY InitCalls, InitDelivery
     DEF AnnouncementsInit, DispatchInit, CallsInit, EmitsSound, AnswersServed, Deliveries
<1>2. CallsInv /\ [AnnouncementsNext]_announcementVars => CallsInv'
  BY AnnouncementsAreCalls, StepCalls
<1>3. ASSUME CallsInv, DeliveryInv, EmitsSound, AnswersServed PROVE AnsweredIsAnnounced
  <2>1. SUFFICES ASSUME NEW q \in Calls, cpc[q] = "answered", NEW s \in matching[answer[q]]
                 PROVE  /\ epc[answer[q]] = "returned"
                        /\ delivery[<<answer[q], s>>].status # "NONE" /\ HasJob(<<answer[q], s>>)
    BY <1>3 DEF AnsweredIsAnnounced, HasJob, AnswersServed
  <2>2. answer[q] \in Notices /\ epc[answer[q]] = "returned"
    BY <1>3, <2>1, AnnouncementsAssumption
       DEF AnswersServed, CallsInv, CallsTypeOK, AnswersAgree
  <2>3. s \in Subscribers /\ s # Nobody
    BY <1>3, <2>1, <2>2, DispatchAssumption DEF EmitsSound
  <2>. QED BY <1>3, <2>1, <2>2, <2>3 DEF EmitsSound
<1>. QED BY <1>1, <1>2, <1>3, StepDelivery, EmitsSoundStep, AnswersServedStep, PTL
         DEF AnnouncementsSpec

-----------------------------------------------------------------------------
(* A failure leaves a delivery with one more job or worker that posts it, and   *)
(* nothing else does.                                                           *)

JobPosts(i, d) == djobs[i].of = d /\ Live(i) /\ ~Spent(i)
WorkerPosts(w, d) == dpc[w] \notin {"idle", "finish"} /\ ~dheld[w] /\ Current(w) = d

LEMMA PostingParts ==
  ASSUME NEW d, NEW x
  PROVE  /\ x \in Posting(d) <=> \/ \E i \in DOMAIN djobs : x = <<"job", i>> /\ JobPosts(i, d)
                                 \/ \E w \in Dispatchers : x = <<"worker", w>> /\ WorkerPosts(w, d)
         /\ x \in Posting(d)' <=>
              \/ \E i \in DOMAIN djobs' : x = <<"job", i>> /\ JobPosts(i, d)'
              \/ \E w \in Dispatchers : x = <<"worker", w>> /\ WorkerPosts(w, d)'
  BY DEF Posting, LiveJobs, JobPosts, WorkerPosts

\* The jobs in hand under a lock are active, each with one worker.
HoldersSound ==
  /\ dheld \in [Dispatchers -> BOOLEAN]
  /\ \A w \in Dispatchers : dheld[w] => dpc[w] # "idle" /\ djobs[djob[w]].job.state = "active"
  /\ \A v, w \in Dispatchers : dheld[v] /\ dheld[w] /\ djob[v] = djob[w] => v = w

\* Before emit() adds the job of a row, it has none.
NoJobYet ==
  \A n \in Notices, s \in Subscribers :
    delivery[<<n, s>>].status = "NONE" \/ adding[n] = s => ~HasJob(<<n, s>>)

Counted(d) == IsFiniteSet(Posting(d)) /\ Cardinality(Posting(d)) <= 1 + faults

QueueSound == DeliveryInv /\ EmitsSound /\ HoldersSound /\ NoJobYet

PostingInv == QueueSound /\ faults \in Nat /\ \A d \in Deliveries : Counted(d)

\* What a step may do to what posts d: one of it goes on as another, the first one comes, or
\* one is added by a failure.
Moves(d) ==
  /\ faults' \in {faults, faults + 1}
  /\ \/ Posting(d)' \subseteq Posting(d)
     \/ \E x \in Posting(d) : \E y : Posting(d)' \subseteq (Posting(d) \ {x}) \cup {y}
     \/ Posting(d) = {} /\ \E y : Posting(d)' \subseteq {y}
     \/ faults' = faults + 1 /\ \E y : Posting(d)' \subseteq Posting(d) \cup {y}

LEMMA OneMore ==
  ASSUME NEW S, NEW y, IsFiniteSet(S)
  PROVE  /\ IsFiniteSet(S \cup {y}) /\ Cardinality(S \cup {y}) \in Nat
         /\ Cardinality(S \cup {y}) <= Cardinality(S) + 1
<1>1. /\ IsFiniteSet(S \cup {y})
      /\ Cardinality(S \cup {y}) = Cardinality(S) \/ Cardinality(S \cup {y}) = Cardinality(S) + 1
  BY FS_AddElement
<1>2. Cardinality(S) \in Nat /\ Cardinality(S \cup {y}) \in Nat
  BY <1>1, FS_CardinalityType
<1>. QED BY <1>1, <1>2

LEMMA MovesCount ==
  ASSUME faults \in Nat, NEW d, Counted(d), Moves(d)
  PROVE  Counted(d)'
<1>. DEFINE S == Posting(d)
            T == Posting(d)'
<1>0. 1 <= 1 + faults'
  <2>1. faults' = faults \/ faults' = faults + 1
    BY DEF Moves
  <2>. QED BY <2>1
<1>1. /\ faults' \in {faults, faults + 1}
      /\ \/ T \subseteq S
         \/ \E x \in S : \E y : T \subseteq (S \ {x}) \cup {y}
         \/ S = {} /\ \E y : T \subseteq {y}
         \/ faults' = faults + 1 /\ \E y : T \subseteq S \cup {y}
  BY DEF Moves
<1>2. IsFiniteSet(S) /\ Cardinality(S) \in Nat /\ Cardinality(S) <= 1 + faults
  BY FS_CardinalityType DEF Counted
<1>. HIDE DEF S, T
<1>3. \E R : T \subseteq R /\ IsFiniteSet(R) /\ Cardinality(R) <= 1 + faults'
  <2>1. CASE T \subseteq S
    BY <1>1, <1>2, <2>1
  <2>2. ASSUME NEW x \in S, NEW y, T \subseteq (S \ {x}) \cup {y}
        PROVE  \E R : T \subseteq R /\ IsFiniteSet(R) /\ Cardinality(R) <= 1 + faults'
    <3>1. IsFiniteSet(S \ {x}) /\ Cardinality(S \ {x}) = Cardinality(S) - 1
      BY <1>2, <2>2, FS_RemoveElement
    <3>2. /\ IsFiniteSet((S \ {x}) \cup {y}) /\ Cardinality((S \ {x}) \cup {y}) \in Nat
          /\ Cardinality((S \ {x}) \cup {y}) <= Cardinality(S \ {x}) + 1
      BY <3>1, OneMore
    <3>3. Cardinality((S \ {x}) \cup {y}) <= 1 + faults'
      BY <1>1, <1>2, <3>1, <3>2
    <3>. QED BY <2>2, <3>2, <3>3
  <2>3. ASSUME NEW y, T \subseteq {y}
        PROVE  \E R : T \subseteq R /\ IsFiniteSet(R) /\ Cardinality(R) <= 1 + faults'
    <3>1. IsFiniteSet({y}) /\ Cardinality({y}) = 1
      BY FS_Singleton
    <3>. QED BY <1>0, <2>3, <3>1
  <2>4. ASSUME NEW y, T \subseteq S \cup {y}, faults' = faults + 1
        PROVE  \E R : T \subseteq R /\ IsFiniteSet(R) /\ Cardinality(R) <= 1 + faults'
    <3>1. /\ IsFiniteSet(S \cup {y}) /\ Cardinality(S \cup {y}) \in Nat
          /\ Cardinality(S \cup {y}) <= Cardinality(S) + 1
      BY <1>2, OneMore
    <3>2. Cardinality(S \cup {y}) <= 1 + faults'
      BY <1>2, <2>4, <3>1
    <3>. QED BY <2>4, <3>1, <3>2
  <2>. QED BY <1>1, <2>1, <2>2, <2>3, <2>4
<1>4. PICK R : T \subseteq R /\ IsFiniteSet(R) /\ Cardinality(R) <= 1 + faults'
  BY <1>3
<1>5. IsFiniteSet(T) /\ Cardinality(T) <= Cardinality(R)
  BY <1>4, FS_Subset
<1>6. Cardinality(T) <= 1 + faults'
  BY <1>1, <1>4, <1>5, FS_CardinalityType
<1>. QED BY <1>5, <1>6 DEF Counted, T

-----------------------------------------------------------------------------
(* The workers' steps.                                                          *)

Untouched(v) == dpc'[v] = dpc[v] /\ djob'[v] = djob[v] /\ dheld'[v] = dheld[v]

\* A step of worker w that has a job leaves the other workers and the jobs of others alone.
StepOf(w) ==
  /\ dpc[w] # "idle"
  /\ \A v \in Dispatchers : v # w => Untouched(v)
  /\ dheld'[w] => dheld[w] /\ djob'[w] = djob[w]
  /\ dpc'[w] # "idle" => djob'[w] = djob[w] /\ dheld'[w] = dheld[w]
  /\ \A i \in 1..Len(djobs) : djobs'[i] = djobs[i] \/ (dheld[w] /\ i = djob[w])

\* What posts d after such a step did so before, or is w, its job, or a job it has just added.
LEMMA WorkerFrame ==
  ASSUME QueueSound, JobsKept, NEW w \in Dispatchers, StepOf(w), NEW d, NEW x \in Posting(d)'
  PROVE  \/ x \in Posting(d)
         \/ x = <<"worker", w>> /\ WorkerPosts(w, d)'
         \/ \E i \in DOMAIN djobs' : /\ x = <<"job", i>> /\ JobPosts(i, d)'
                                     /\ dheld[w] /\ i = djob[w] /\ i \in DOMAIN djobs
         \/ \E i \in DOMAIN djobs' : i > Len(djobs) /\ x = <<"job", i>> /\ JobPosts(i, d)'
<1>. USE DEF QueueSound, DeliveryInv, DeliveriesTyped, StepOf
<1>1. DOMAIN djobs = 1..Len(djobs) /\ DOMAIN djobs' = 1..Len(djobs') /\ Len(djobs) \in Nat
  BY DEF JobsKept
<1>2. ASSUME NEW i \in DOMAIN djobs', x = <<"job", i>>, JobPosts(i, d)', i <= Len(djobs),
             ~(dheld[w] /\ i = djob[w])
      PROVE  x \in Posting(d)
  <2>1. i \in 1..Len(djobs) /\ djobs'[i] = djobs[i]
    BY <1>1, <1>2
  <2>2. djobs[i].of = d /\ Live(i)
    BY <1>2, <2>1 DEF JobPosts, Live
  <2>3. ~Spent(i)
    BY <1>2 DEF JobPosts, Spent, Untouched
  <2>. QED BY <1>1, <1>2, <2>1, <2>2, <2>3, PostingParts DEF JobPosts
<1>3. ASSUME NEW v \in Dispatchers, x = <<"worker", v>>, WorkerPosts(v, d)', v # w
      PROVE  x \in Posting(d)
  <2>1. Untouched(v) /\ dpc[v] # "idle"
    BY <1>3 DEF WorkerPosts, Untouched
  <2>2. djob[v] \in 1..Len(djobs)
    BY <2>1 DEF HandsKnown
  <2>3. Current(v)' = Current(v)
    BY <2>1, <2>2 DEF Current, Untouched, JobsKept
  <2>4. WorkerPosts(v, d)
    BY <1>3, <2>1, <2>3 DEF WorkerPosts, Untouched
  <2>. QED BY <1>3, <2>4, PostingParts
<1>4. ASSUME NEW i \in DOMAIN djobs', i <= Len(djobs) PROVE i \in DOMAIN djobs
  BY <1>1, <1>4
<1>5. \A i \in DOMAIN djobs' : i <= Len(djobs) \/ i > Len(djobs)
  BY <1>1
<1>6. CASE \E i \in DOMAIN djobs' : x = <<"job", i>> /\ JobPosts(i, d)'
  BY <1>2, <1>4, <1>5, <1>6
<1>7. CASE \E v \in Dispatchers : x = <<"worker", v>> /\ WorkerPosts(v, d)'
  BY <1>3, <1>7
<1>. QED BY <1>6, <1>7, PostingParts

\* While it goes on, a worker neither comes to post nor lets others.
LEMMA GoingOn ==
  ASSUME QueueSound, NEW w \in Dispatchers, dpc[w] \notin {"idle", "finish"},
         NEW step \in DispatchSteps, dpc' = [dpc EXCEPT ![w] = step],
         UNCHANGED <<djobs, djob, dheld>>, NEW d
  PROVE  Posting(d)' \subseteq Posting(d)
<1>. USE DEF QueueSound, DeliveryInv, DeliveriesTyped
<1>1. StepOf(w) /\ JobsKept
  BY StayKeepsJobs DEF StepOf, Untouched
<1>2. SUFFICES ASSUME NEW x \in Posting(d)' PROVE x \in Posting(d)
  OBVIOUS
<1>3. CASE x = <<"worker", w>> /\ WorkerPosts(w, d)'
  BY <1>3, PostingParts DEF WorkerPosts, Current
<1>4. ASSUME NEW i \in DOMAIN djobs, x = <<"job", i>>, JobPosts(i, d)', dheld[w], i = djob[w]
      PROVE  x \in Posting(d)
  <2>1. JobPosts(i, d)
    BY <1>4 DEF JobPosts, Live, Spent, HoldersSound
  <2>. QED BY <1>4, <2>1, PostingParts
<1>5. DOMAIN djobs' = 1..Len(djobs)
  OBVIOUS
<1>. QED BY <1>1, <1>3, <1>4, <1>5, WorkerFrame

\* A worker that adds a job does not post any more.
LEMMA HandingOn ==
  ASSUME QueueSound, NEW w \in Dispatchers, Requeue(w), NEW d
  PROVE  Moves(d)
<1>. USE DEF QueueSound, DeliveryInv, DeliveriesTyped
<1>1. /\ dpc[w] \in {"requeue", "retry"} /\ dpc' = [dpc EXCEPT ![w] = "finish"]
      /\ AddJob(Current(w)) /\ UNCHANGED <<djob, dheld, faults>>
  BY DEF Requeue, DGo
<1>2. djob[w] \in 1..Len(djobs) /\ Current(w) \in Deliveries
  BY <1>1, CurrentTyped
<1>3. JobsKept
  BY <1>1, <1>2, AddKeepsJobs
<1>4. /\ Len(djobs') = Len(djobs) + 1 /\ \A i \in 1..Len(djobs) : djobs'[i] = djobs[i]
      /\ djobs'[Len(djobs) + 1].of = Current(w)
      /\ DOMAIN djobs' = 1..(Len(djobs) + 1) /\ Len(djobs) \in Nat
  <2>. DEFINE row == [job |-> Added, of |-> Current(w)]
  <2>1. row \in JobRows /\ row.of = Current(w)
    BY <1>2 DEF JobRows, AnyJob, Added, JobStates
  <2>2. djobs' = Append(djobs, row)
    BY <1>1 DEF AddJob
  <2>. HIDE DEF row
  <2>. QED BY <2>1, <2>2
<1>5. StepOf(w)
  BY <1>1, <1>4 DEF StepOf, Untouched
<1>6. /\ ~WorkerPosts(w, d)'
      /\ \A i : dheld[w] /\ i = djob[w] => ~JobPosts(i, d)'
  BY <1>1 DEF WorkerPosts, JobPosts, Spent
<1>7. Posting(d)' \subseteq Posting(d) \cup {<<"job", Len(djobs) + 1>>}
  BY <1>3, <1>4, <1>5, <1>6, WorkerFrame
<1>8. CASE d # Current(w)
  <2>1. <<"job", Len(djobs) + 1>> \notin Posting(d)'
    BY <1>4, <1>8, PostingParts DEF JobPosts
  <2>. QED BY <1>1, <1>7, <2>1 DEF Moves
<1>9. CASE d = Current(w)
  <2>1. PICK own : own \in Posting(d) /\ own \notin Posting(d)'
    <3>1. CASE dheld[w]
      <4>1. PICK i \in DOMAIN djobs : i = djob[w]
        BY <1>2
      <4>2. JobPosts(i, d)
        BY <1>1, <1>9, <3>1, <4>1 DEF JobPosts, Live, Spent, Current, HoldersSound
      <4>3. <<"job", i>> \in Posting(d)
        BY <4>2, PostingParts
      <4>4. <<"job", i>> \notin Posting(d)'
        BY <1>6, <3>1, <4>1, PostingParts
      <4>. QED BY <4>3, <4>4
    <3>2. CASE ~dheld[w]
      <4>1. WorkerPosts(w, d) /\ ~WorkerPosts(w, d)'
        BY <1>1, <1>6, <1>9, <3>2 DEF WorkerPosts
      <4>2. <<"worker", w>> \in Posting(d)
        BY <4>1, PostingParts
      <4>3. <<"worker", w>> \notin Posting(d)'
        BY <4>1, PostingParts
      <4>. QED BY <4>2, <4>3
    <3>. QED BY <3>1, <3>2
  <2>2. Posting(d)' \subseteq (Posting(d) \ {own}) \cup {<<"job", Len(djobs) + 1>>}
    BY <1>7, <2>1
  <2>. QED BY <1>1, <2>1, <2>2 DEF Moves
<1>. QED BY <1>8, <1>9

\* Who ends leaves nothing that posts, but for a crash, which may leave its job.
LEMMA Ending ==
  ASSUME QueueSound, NEW w \in Dispatchers, EndDispatch(w), dpc[w] # "idle",
         \/ dpc[w] # "finish" /\ (dheld[w] => SetDJob(djob[w], Failed(djobs[djob[w]].job)))
         \/ dheld[w] => SetDJob(djob[w], Completed(djobs[djob[w]].job)),
         ~dheld[w] => UNCHANGED djobs, NEW d
  PROVE  Posting(d)' \subseteq Posting(d)
<1>. USE DEF QueueSound, DeliveryInv, DeliveriesTyped
<1>1. djob[w] \in 1..Len(djobs) /\ djobs[djob[w]].job \in AnyJob
  BY CurrentTyped
<1>2. JobsKept
  BY <1>1, JobOperators, SetKeepsJobs, StayKeepsJobs
<1>3. StepOf(w)
  <2>1. \A i \in 1..Len(djobs) : djobs'[i] = djobs[i] \/ (dheld[w] /\ i = djob[w])
    BY <1>1 DEF SetDJob
  <2>. QED BY <2>1 DEF StepOf, Untouched, EndDispatch, HoldersSound
<1>4. ~WorkerPosts(w, d)'
  BY DEF WorkerPosts, EndDispatch
<1>5. ASSUME NEW i \in DOMAIN djobs, i = djob[w], dheld[w], JobPosts(i, d)'
      PROVE  <<"job", i>> \in Posting(d)
  <2>1. ~SetDJob(i, Completed(djobs[i].job))
    <3>1. SUFFICES ASSUME SetDJob(i, Completed(djobs[i].job)) PROVE FALSE
      OBVIOUS
    <3>2. djobs[i] \in JobRows /\ djobs' = [djobs EXCEPT ![i].job = Completed(djobs[i].job)]
      BY <1>1, <1>5, <3>1 DEF SetDJob
    <3>3. djobs'[i].job = Completed(djobs[i].job)
      BY <1>5, <3>2 DEF JobRows
    <3>4. djobs'[i].job.state = "completed"
      BY <1>1, <1>5, <3>3 DEF Completed, AnyJob
    <3>. QED BY <1>5, <3>4 DEF JobPosts, Live
  <2>2. dpc[w] # "finish"
    BY <1>5, <2>1
  <2>3. djobs[i].of = d
    <3>1. i \in 1..Len(djobs) /\ djobs'[i].of = d
      BY <1>1, <1>5 DEF JobPosts
    <3>. QED BY <1>2, <3>1 DEF JobsKept
  <2>4. JobPosts(i, d)
    BY <1>5, <2>2, <2>3 DEF JobPosts, Live, Spent, HoldersSound
  <2>. QED BY <2>4, PostingParts
<1>6. Len(djobs') = Len(djobs) /\ DOMAIN djobs' = 1..Len(djobs)
  BY <1>1 DEF SetDJob
<1>7. SUFFICES ASSUME NEW x \in Posting(d)' PROVE x \in Posting(d)
  OBVIOUS
<1>8. ~ \E i \in DOMAIN djobs' : i > Len(djobs)
  BY <1>6
<1>. QED BY <1>2, <1>3, <1>4, <1>5, <1>8, WorkerFrame

\* A crash may leave its job, and is a failure.
LEMMA Crashing ==
  ASSUME QueueSound, NEW w \in Dispatchers, CrashDispatch(w), NEW d
  PROVE  Moves(d)
<1>. USE DEF QueueSound, DeliveryInv, DeliveriesTyped
<1>1. /\ dpc[w] # "idle" /\ EndDispatch(w) /\ UNCHANGED djobs /\ faults' = faults + 1
  BY DEF CrashDispatch, Fault, DispatchSteps
<1>2. StepOf(w) /\ JobsKept
  BY <1>1, StayKeepsJobs DEF StepOf, Untouched, EndDispatch, HoldersSound
<1>3. ~WorkerPosts(w, d)'
  BY <1>1 DEF WorkerPosts, EndDispatch
<1>4. DOMAIN djobs' = 1..Len(djobs)
  BY <1>1
<1>5. Posting(d)' \subseteq Posting(d) \cup {<<"job", djob[w]>>}
  BY <1>2, <1>3, <1>4, WorkerFrame
<1>. QED BY <1>1, <1>5 DEF Moves

LEMMA Starting ==
  ASSUME QueueSound, NEW w \in Dispatchers, NEW i \in DOMAIN djobs, StartDispatch(w, i), NEW d
  PROVE  Posting(d)' \subseteq Posting(d) /\ faults' = faults /\ HoldersSound'
<1>. USE DEF QueueSound, DeliveryInv, DeliveriesTyped
<1>1. /\ djobs[i].job.state = "waiting" /\ dpc[w] = "idle" /\ faults' = faults
      /\ dpc' = [dpc EXCEPT ![w] = "subscription"] /\ djob' = [djob EXCEPT ![w] = i]
      /\ dheld' = [dheld EXCEPT ![w] = TRUE]
      /\ djobs' = [djobs EXCEPT ![i].job = Taken(djobs[i].job)]
  BY DEF StartDispatch, DGo, SetDJob
<1>2. /\ djobs[i] \in JobRows /\ djobs[i].job \in AnyJob /\ i \in 1..Len(djobs)
      /\ DOMAIN djobs' = DOMAIN djobs
  <2>1. djobs[i] \in JobRows /\ i \in 1..Len(djobs)
    OBVIOUS
  <2>. QED BY <1>1, <2>1 DEF JobRows
<1>3. /\ djobs'[i].job.state = "active" /\ djobs'[i].of = djobs[i].of
      /\ \A j \in DOMAIN djobs : j # i => djobs'[j] = djobs[j]
  BY <1>1, <1>2 DEF Taken, AnyJob, JobRows
<1>4. \A v \in Dispatchers : dheld[v] => djob[v] # i /\ v # w
  BY <1>1 DEF HoldersSound
<1>5. HoldersSound'
  <2>1. \A v \in Dispatchers : dheld'[v] => /\ dpc'[v] # "idle"
                                           /\ djobs'[djob'[v]].job.state = "active"
    <3>1. SUFFICES ASSUME NEW v \in Dispatchers, dheld'[v]
                   PROVE  dpc'[v] # "idle" /\ djobs'[djob'[v]].job.state = "active"
      OBVIOUS
    <3>2. CASE v = w
      BY <1>1, <1>3, <3>2
    <3>3. CASE v # w
      BY <1>1, <1>3, <1>4, <3>1, <3>3 DEF HoldersSound, HandsKnown
    <3>. QED BY <3>2, <3>3
  <2>2. \A u, v \in Dispatchers : dheld'[u] /\ dheld'[v] /\ djob'[u] = djob'[v] => u = v
    BY <1>1, <1>4 DEF HoldersSound
  <2>3. dheld' \in [Dispatchers -> BOOLEAN]
    BY <1>1 DEF HoldersSound
  <2>. QED BY <2>1, <2>2, <2>3 DEF HoldersSound
<1>6. ASSUME NEW j \in DOMAIN djobs, JobPosts(j, d)' PROVE JobPosts(j, d)
  <2>1. djobs[j].of = d /\ Live(j)
    BY <1>1, <1>2, <1>3, <1>6 DEF JobPosts, Live
  <2>2. ~Spent(j)
    <3>1. SUFFICES ASSUME NEW v \in Dispatchers, dheld[v], djob[v] = j, dpc[v] = "finish"
                   PROVE  Spent(j)'
      BY <1>6 DEF JobPosts, Spent
    <3>2. v # w
      BY <1>4, <3>1
    <3>3. dheld'[v] /\ djob'[v] = j /\ dpc'[v] = "finish"
      BY <1>1, <3>1, <3>2
    <3>. QED BY <3>3 DEF Spent
  <2>. QED BY <2>1, <2>2 DEF JobPosts
<1>7. ASSUME NEW v \in Dispatchers, WorkerPosts(v, d)' PROVE WorkerPosts(v, d)
  <2>1. v # w
    BY <1>1, <1>7 DEF WorkerPosts, HoldersSound
  <2>2. dpc'[v] = dpc[v] /\ djob'[v] = djob[v] /\ dheld'[v] = dheld[v] /\ dpc[v] # "idle"
    BY <1>1, <1>7, <2>1 DEF WorkerPosts
  <2>3. djob[v] \in DOMAIN djobs
    BY <2>2 DEF HandsKnown
  <2>4. Current(v)' = Current(v)
    BY <1>3, <2>2, <2>3 DEF Current
  <2>. QED BY <1>7, <2>2, <2>4 DEF WorkerPosts
<1>. QED BY <1>1, <1>2, <1>5, <1>6, <1>7, PostingParts

\* A worker that loses its lock posts beside the next one that takes the job.
LEMMA Stalling ==
  ASSUME QueueSound, NEW i \in DOMAIN djobs, StallDispatch(i), NEW d
  PROVE  Moves(d) /\ HoldersSound'
<1>. USE DEF QueueSound, DeliveryInv, DeliveriesTyped
<1>1. /\ djobs[i].job.state = "active"
      /\ \/ faults' = faults + 1
         \/ faults' = faults /\ \A w \in Dispatchers : ~(dheld[w] /\ djob[w] = i)
      /\ djobs' = [djobs EXCEPT ![i].job = Stalled(djobs[i].job)]
      /\ dheld' = [w \in Dispatchers |-> dheld[w] /\ djob[w] # i]
      /\ UNCHANGED <<dpc, djob>>
  BY DEF StallDispatch, Fault, SetDJob
<1>2. /\ djobs[i] \in JobRows /\ i \in 1..Len(djobs) /\ DOMAIN djobs' = DOMAIN djobs
      /\ djobs'[i].of = djobs[i].of
      /\ \A j \in DOMAIN djobs : j # i => djobs'[j] = djobs[j]
  <2>1. djobs[i] \in JobRows /\ i \in 1..Len(djobs)
    OBVIOUS
  <2>. QED BY <1>1, <2>1 DEF JobRows
<1>3. HoldersSound'
  <2>1. dheld' \in [Dispatchers -> BOOLEAN] /\ \A w \in Dispatchers : dheld'[w] => dheld[w] /\ djob[w] # i
    BY <1>1 DEF HoldersSound
  <2>2. \A w \in Dispatchers : dheld[w] => djob[w] \in DOMAIN djobs
    BY DEF HoldersSound, HandsKnown
  <2>. QED BY <1>1, <1>2, <2>1, <2>2 DEF HoldersSound
<1>4. ASSUME NEW j \in DOMAIN djobs, JobPosts(j, d)', j # i PROVE JobPosts(j, d)
  <2>1. djobs[j].of = d /\ Live(j)
    BY <1>2, <1>4 DEF JobPosts, Live
  <2>2. ~Spent(j)
    BY <1>1, <1>4 DEF JobPosts, Spent
  <2>. QED BY <2>1, <2>2 DEF JobPosts
<1>5. ASSUME NEW v \in Dispatchers, WorkerPosts(v, d)' PROVE WorkerPosts(v, d) \/ (dheld[v] /\ djob[v] = i)
  <2>1. dpc[v] # "idle" /\ djob[v] \in DOMAIN djobs
    BY <1>1, <1>5 DEF WorkerPosts, HandsKnown
  <2>2. Current(v)' = Current(v)
    BY <1>1, <1>2, <2>1 DEF Current
  <2>. QED BY <1>1, <1>5, <2>2 DEF WorkerPosts
<1>6. CASE \A w \in Dispatchers : ~(dheld[w] /\ djob[w] = i)
  <2>1. JobPosts(i, d)' => JobPosts(i, d)
    BY <1>1, <1>2, <1>6 DEF JobPosts, Live, Spent
  <2>2. Posting(d)' \subseteq Posting(d)
    BY <1>2, <1>4, <1>5, <1>6, <2>1, PostingParts
  <2>. QED BY <1>1, <1>3, <2>2 DEF Moves
<1>7. ASSUME NEW w \in Dispatchers, dheld[w], djob[w] = i PROVE Moves(d)
  <2>1. faults' = faults + 1 /\ \A v \in Dispatchers : dheld[v] /\ djob[v] = i => v = w
    BY <1>1, <1>7 DEF HoldersSound
  <2>2. CASE dpc[w] = "finish"
    <3>1. ~WorkerPosts(w, d)'
      BY <1>1, <2>2 DEF WorkerPosts
    <3>2. Posting(d)' \subseteq Posting(d) \cup {<<"job", i>>}
      BY <1>2, <1>4, <1>5, <2>1, <3>1, PostingParts
    <3>. QED BY <2>1, <3>2 DEF Moves
  <2>3. CASE dpc[w] # "finish"
    <3>1. JobPosts(i, d)' => JobPosts(i, d)
      BY <1>1, <1>2, <2>1, <2>3 DEF JobPosts, Live, Spent
    <3>2. Posting(d)' \subseteq Posting(d) \cup {<<"worker", w>>}
      BY <1>2, <1>4, <1>5, <2>1, <3>1, PostingParts
    <3>. QED BY <2>1, <3>2 DEF Moves
  <2>. QED BY <2>2, <2>3
<1>. QED BY <1>3, <1>6, <1>7

\* The locks of the other workers and of their jobs are not touched.
LEMMA HoldersStay ==
  ASSUME QueueSound, NEW w \in Dispatchers, StepOf(w), dheld' \in [Dispatchers -> BOOLEAN],
         dheld'[w] => dpc'[w] # "idle" /\ \A i \in 1..Len(djobs) : djobs'[i] = djobs[i]
  PROVE  HoldersSound'
<1>. USE DEF QueueSound, DeliveryInv, DeliveriesTyped, StepOf, Untouched
<1>1. \A v \in Dispatchers : dheld[v] => djob[v] \in 1..Len(djobs)
  BY DEF HoldersSound, HandsKnown
<1>2. \A v \in Dispatchers : dheld'[v] => dheld[v] /\ djob'[v] = djob[v]
  OBVIOUS
<1>3. ASSUME NEW v \in Dispatchers, dheld'[v]
      PROVE  dpc'[v] # "idle" /\ djobs'[djob'[v]].job.state = "active"
  <2>1. CASE v = w
    <3>1. dpc'[v] # "idle" /\ djobs'[djob[v]] = djobs[djob[v]]
      BY <1>1, <1>2, <1>3, <2>1
    <3>. QED BY <1>2, <1>3, <2>1, <3>1 DEF HoldersSound
  <2>2. CASE v # w
    <3>1. ~(dheld[w] /\ djob[v] = djob[w])
      BY <1>2, <1>3, <2>2 DEF HoldersSound
    <3>2. djobs'[djob[v]] = djobs[djob[v]]
      BY <1>1, <1>2, <1>3, <3>1
    <3>. QED BY <1>2, <1>3, <2>2, <3>2 DEF HoldersSound
  <2>. QED BY <2>1, <2>2
<1>4. \A u, v \in Dispatchers : dheld'[u] /\ dheld'[v] /\ djob'[u] = djob'[v] => u = v
  BY <1>2 DEF HoldersSound
<1>. QED BY <1>3, <1>4 DEF HoldersSound

WorkerAction(w) == DispatchStep(w) \/ ThrowInTry(w) \/ FailDispatch(w) \/ CrashDispatch(w)

\* How a step of a worker leaves it: gone on, its job handed on, ended or crashed.
LEMMA WorkerActions ==
  ASSUME NEW w \in Dispatchers, WorkerAction(w)
  PROVE  /\ dpc[w] # "idle"
         /\ \/ /\ dpc[w] # "finish" /\ UNCHANGED <<djobs, djob, dheld>>
               /\ \E step \in DispatchSteps : dpc' = [dpc EXCEPT ![w] = step]
               /\ faults' = faults \/ faults' = faults + 1
            \/ Requeue(w)
            \/ /\ dpc[w] # "finish" /\ ThrowDispatch(w)
               /\ faults' = faults \/ faults' = faults + 1
            \/ FinishDispatch(w)
            \/ CrashDispatch(w)
<1>1. CASE ReadSubscription(w)
  BY <1>1 DEF ReadSubscription, DispatchSteps
<1>2. CASE Post(w) \/ Update(w) \/ Catch(w)
  BY <1>2 DEF Post, Update, Catch, DGo, DispatchSteps
<1>3. CASE ThrowInTry(w)
  BY <1>3 DEF ThrowInTry, DGo, DispatchSteps, Fault
<1>4. CASE FailDispatch(w)
  BY <1>4 DEF FailDispatch, Fault
<1>5. CASE Requeue(w) \/ FinishDispatch(w) \/ CrashDispatch(w)
  BY <1>5 DEF Requeue, FinishDispatch, CrashDispatch, DGo, DispatchSteps
<1>. QED BY <1>1, <1>2, <1>3, <1>4, <1>5 DEF WorkerAction, DispatchStep

LEMMA WorkerMovesOn ==
  ASSUME QueueSound, NEW w \in Dispatchers, WorkerAction(w), NEW d
  PROVE  Moves(d) /\ HoldersSound'
<1>. USE DEF QueueSound, DeliveryInv, DeliveriesTyped
<1>0. dpc[w] # "idle" /\ djob[w] \in 1..Len(djobs)
  BY WorkerActions DEF HandsKnown
<1>1. ASSUME dpc[w] # "finish", UNCHANGED <<djobs, djob, dheld>>, NEW step \in DispatchSteps,
             dpc' = [dpc EXCEPT ![w] = step], faults' \in {faults, faults + 1}
      PROVE  Moves(d) /\ HoldersSound'
  <2>1. Posting(d)' \subseteq Posting(d)
    BY <1>0, <1>1, GoingOn
  <2>2. StepOf(w) /\ dpc'[w] # "idle"
    BY <1>0, <1>1 DEF StepOf, Untouched, DispatchSteps
  <2>3. HoldersSound'
    BY <1>1, <2>2, HoldersStay DEF HoldersSound
  <2>. QED BY <1>1, <2>1, <2>3 DEF Moves
<1>2. CASE Requeue(w)
  <2>1. /\ dpc' = [dpc EXCEPT ![w] = "finish"] /\ AddJob(Current(w)) /\ UNCHANGED <<djob, dheld>>
    BY <1>2 DEF Requeue, DGo
  <2>2. \A i \in 1..Len(djobs) : djobs'[i] = djobs[i]
    BY <2>1 DEF AddJob
  <2>3. StepOf(w) /\ dpc'[w] # "idle"
    BY <1>0, <2>1, <2>2 DEF StepOf, Untouched
  <2>4. HoldersSound'
    BY <2>1, <2>2, <2>3, HoldersStay DEF HoldersSound
  <2>. QED BY <1>2, <2>4, HandingOn
<1>3. ASSUME EndDispatch(w), \A i \in 1..Len(djobs) : djobs'[i] = djobs[i] \/ (dheld[w] /\ i = djob[w])
      PROVE  HoldersSound'
  <2>1. StepOf(w) /\ ~dheld'[w] /\ dheld' \in [Dispatchers -> BOOLEAN]
    BY <1>0, <1>3 DEF StepOf, Untouched, EndDispatch, HoldersSound
  <2>. QED BY <2>1, HoldersStay
<1>4. CASE dpc[w] # "finish" /\ ThrowDispatch(w) /\ (faults' = faults \/ faults' = faults + 1)
  <2>1. \A i \in 1..Len(djobs) : djobs'[i] = djobs[i] \/ (dheld[w] /\ i = djob[w])
    BY <1>0, <1>4 DEF ThrowDispatch, SetDJob
  <2>2. Posting(d)' \subseteq Posting(d)
    BY <1>0, <1>4, Ending DEF ThrowDispatch
  <2>. QED BY <1>3, <1>4, <2>1, <2>2 DEF ThrowDispatch, Moves
<1>5. CASE FinishDispatch(w)
  <2>1. \A i \in 1..Len(djobs) : djobs'[i] = djobs[i] \/ (dheld[w] /\ i = djob[w])
    BY <1>0, <1>5 DEF FinishDispatch, SetDJob
  <2>2. Posting(d)' \subseteq Posting(d)
    BY <1>0, <1>5, Ending DEF FinishDispatch
  <2>. QED BY <1>3, <1>5, <2>1, <2>2 DEF FinishDispatch, Moves
<1>6. CASE CrashDispatch(w)
  BY <1>3, <1>6, Crashing DEF CrashDispatch
<1>. QED BY <1>1, <1>2, <1>4, <1>5, <1>6, WorkerActions

\* emit() adds the first job of a row.
LEMMA EmitMoves ==
  ASSUME QueueSound, NEW n \in Notices, Emit(n) \/ EmitStep(n) \/ EmitThrows(n), NEW d
  PROVE  Moves(d) /\ HoldersSound'
<1>. USE DEF QueueSound, DeliveryInv, DeliveriesTyped
<1>1. UNCHANGED <<dpc, djob, dheld>> /\ (faults' = faults \/ faults' = faults + 1)
  BY DEF Emit, EmitStep, EmitThrows, InsertDelivery, AddDispatch, EmitReturns, Fault, workVars
<1>2. CASE UNCHANGED djobs
  <2>1. Posting(d)' = Posting(d)
    BY <1>1, <1>2 DEF Posting, LiveJobs, Live, Spent, Current
  <2>. QED BY <1>1, <1>2, <2>1 DEF Moves, HoldersSound
<1>3. CASE AddDispatch(n)
  <2>1. PICK s \in Subscribers : adding[n] = s /\ AddJob(<<n, s>>)
    BY <1>3 DEF AddDispatch
  <2>2. ~HasJob(<<n, s>>)
    BY <2>1 DEF NoJobYet
  <2>. DEFINE row == [job |-> Added, of |-> <<n, s>>]
  <2>3. row \in JobRows /\ row.of = <<n, s>>
    BY DEF JobRows, AnyJob, Added, JobStates, Deliveries
  <2>4. djobs' = Append(djobs, row)
    BY <2>1 DEF AddJob
  <2>. HIDE DEF row
  <2>5. /\ DOMAIN djobs' = 1..(Len(djobs) + 1) /\ Len(djobs) \in Nat
        /\ djobs'[Len(djobs) + 1].of = <<n, s>>
        /\ \A i \in 1..Len(djobs) : djobs'[i] = djobs[i]
    BY <2>3, <2>4
  <2>6. \A i \in DOMAIN djobs' : i \in DOMAIN djobs \/ i = Len(djobs) + 1
    BY <2>5
  <2>7. \A i \in DOMAIN djobs : JobPosts(i, d)' => JobPosts(i, d)
    BY <1>1, <2>5 DEF JobPosts, Live, Spent
  <2>8. \A v \in Dispatchers : WorkerPosts(v, d)' => WorkerPosts(v, d)
    <3>1. SUFFICES ASSUME NEW v \in Dispatchers, WorkerPosts(v, d)' PROVE WorkerPosts(v, d)
      OBVIOUS
    <3>2. dpc[v] # "idle" /\ djob'[v] = djob[v] /\ djob[v] \in 1..Len(djobs)
      BY <1>1, <3>1 DEF WorkerPosts, HandsKnown
    <3>3. Current(v)' = Current(v)
      BY <2>5, <3>2 DEF Current
    <3>. QED BY <1>1, <3>1, <3>3 DEF WorkerPosts
  <2>9. HoldersSound'
    <3>1. \A v \in Dispatchers : dheld[v] => djob[v] \in 1..Len(djobs)
      BY DEF HoldersSound, HandsKnown
    <3>. QED BY <1>1, <2>5, <3>1 DEF HoldersSound
  <2>10. CASE d = <<n, s>>
    <3>1. Posting(d) = {}
      <4>1. \A i \in DOMAIN djobs : djobs[i].of # d
        BY <2>2, <2>10 DEF HasJob
      <4>2. \A v \in Dispatchers : dpc[v] # "idle" => Current(v) # d
        BY <4>1 DEF HandsKnown, Current
      <4>. QED BY <4>1, <4>2, PostingParts DEF JobPosts, WorkerPosts
    <3>2. Posting(d)' \subseteq {<<"job", Len(djobs) + 1>>}
      BY <2>6, <2>7, <2>8, <3>1, PostingParts
    <3>. QED BY <1>1, <2>9, <3>1, <3>2 DEF Moves
  <2>11. CASE d # <<n, s>>
    <3>1. \A i : i = Len(djobs) + 1 => ~JobPosts(i, d)'
      BY <2>5, <2>11 DEF JobPosts
    <3>2. Posting(d)' \subseteq Posting(d)
      BY <2>6, <2>7, <2>8, <3>1, PostingParts
    <3>. QED BY <1>1, <2>9, <3>2 DEF Moves
  <2>. QED BY <2>10, <2>11
<1>. QED BY <1>2, <1>3 DEF Emit, EmitStep, EmitThrows, InsertDelivery, EmitReturns

-----------------------------------------------------------------------------
\* Only emit() gives a row its first job.
LEMMA FirstJobs ==
  ASSUME QueueSound, [AnnouncementsNext]_announcementVars, NEW d, HasJob(d)',
         \A n \in Notices : ~AddDispatch(n)
  PROVE  HasJob(d)
<1>. USE DEF QueueSound, DeliveryInv, DeliveriesTyped
<1>1. PICK i \in DOMAIN djobs' : djobs'[i].of = d
  BY DEF HasJob
<1>2. DOMAIN djobs = 1..Len(djobs)
  OBVIOUS
<1>3. CASE i \in 1..Len(djobs)
  BY <1>1, <1>2, <1>3, JobsAreKept DEF JobsKept, HasJob
<1>4. CASE i \notin 1..Len(djobs)
  <2>1. PICK e \in Deliveries : AddJob(e)
    <3>1. ~UNCHANGED djobs /\ ~ \E j \in 1..Len(djobs), value \in AnyJob : SetDJob(j, value)
      BY <1>1, <1>2, <1>4 DEF SetDJob
    <3>. QED BY <3>1, JobsChange
  <2>2. \E w \in Dispatchers : Requeue(w)
    <3>1. djobs' # djobs
      BY <1>1, <1>2, <1>4
    <3>2. \A j \in DOMAIN djobs, value \in AnyJob : ~SetDJob(j, value)
      BY <1>1, <1>2, <1>4 DEF SetDJob
    <3>3. \A j \in DOMAIN djobs :
            /\ Taken(djobs[j].job) \in AnyJob /\ Completed(djobs[j].job) \in AnyJob
            /\ Failed(djobs[j].job) \in AnyJob /\ Stalled(djobs[j].job) \in AnyJob
      <4>1. \A j \in DOMAIN djobs : djobs[j] \in JobRows
        OBVIOUS
      <4>. QED BY <4>1, JobOperators DEF JobRows
    <3>4. \A w \in Dispatchers : dpc[w] # "idle" => djob[w] \in DOMAIN djobs
      BY <1>2 DEF HandsKnown
    <3>5. \A w \in Dispatchers :
            FinishDispatch(w) \/ ReadSubscription(w) \/ FailDispatch(w) => dpc[w] # "idle"
      BY DEF FinishDispatch, ReadSubscription, FailDispatch
    <3>6. ~ \E w \in Dispatchers : ReadSubscription(w) \/ FailDispatch(w) \/ FinishDispatch(w)
      BY <3>1, <3>2, <3>3, <3>4, <3>5
         DEF ReadSubscription, FailDispatch, FinishDispatch, ThrowDispatch
    <3>7. ~ \E j \in DOMAIN djobs : StallDispatch(j) \/ \E w \in Dispatchers : StartDispatch(w, j)
      BY <3>2, <3>3 DEF StallDispatch, StartDispatch
    <3>8. ~ \E n \in Notices : Emit(n) \/ EmitStep(n) \/ EmitThrows(n)
      BY <3>1 DEF Emit, EmitStep, EmitThrows, InsertDelivery, EmitReturns
    <3>9. QueueNext
      BY <3>1, <3>8, DispatchSteps3 DEF dispatchVars
    <3>. QED BY <3>1, <3>6, <3>7, <3>9
             DEF QueueNext, DispatchStep, Post, Update, Catch, ThrowInTry, CrashDispatch,
                 Subscribe, Deactivate
  <2>3. PICK w \in Dispatchers : Requeue(w)
    BY <2>2
  <2>4. djob[w] \in DOMAIN djobs /\ Current(w) \in Deliveries /\ AddJob(Current(w))
    BY <1>2, <2>3, CurrentTyped DEF Requeue, DGo
  <2>5. d = Current(w)
    <3>. DEFINE row == [job |-> Added, of |-> Current(w)]
    <3>1. row \in JobRows /\ row.of = Current(w)
      BY <2>4 DEF JobRows, AnyJob, Added, JobStates
    <3>2. djobs' = Append(djobs, row)
      BY <2>4 DEF AddJob
    <3>. HIDE DEF row
    <3>3. i = Len(djobs) + 1 /\ djobs'[i] = row
      BY <1>1, <1>4, <3>1, <3>2
    <3>. QED BY <1>1, <3>1, <3>3
  <2>. QED BY <2>4, <2>5 DEF HasJob, Current
<1>. QED BY <1>3, <1>4

LEMMA NoJobYetStep ==
  ASSUME QueueSound, [AnnouncementsNext]_announcementVars
  PROVE  NoJobYet'
<1>. USE DEF QueueSound, DeliveryInv, DeliveriesTyped
<1>1. SUFFICES ASSUME NEW n \in Notices, NEW s \in Subscribers,
                      delivery'[<<n, s>>].status = "NONE" \/ adding'[n] = s
               PROVE  ~HasJob(<<n, s>>)'
  BY DEF NoJobYet
<1>2. <<n, s>> \in Deliveries /\ s # Nobody
  BY DispatchAssumption DEF Deliveries
<1>3. ASSUME NEW m \in Notices, AddDispatch(m) PROVE ~HasJob(<<n, s>>)'
  <2>1. /\ adding[m] \in Subscribers /\ AddJob(<<m, adding[m]>>) /\ delivery' = delivery
        /\ adding' = [adding EXCEPT ![m] = Nobody]
    BY <1>3 DEF AddDispatch
  <2>2. <<m, adding[m]>> # <<n, s>>
    BY <1>1, <1>2, <2>1 DEF EmitsSound
  <2>3. ~HasJob(<<n, s>>)
    BY <1>1, <2>1, <1>2 DEF NoJobYet
  <2>. DEFINE row == [job |-> Added, of |-> <<m, adding[m]>>]
  <2>4. row \in JobRows /\ row.of # <<n, s>>
    BY <2>1, <2>2 DEF JobRows, AnyJob, Added, JobStates, Deliveries
  <2>5. djobs' = Append(djobs, row)
    BY <2>1 DEF AddJob
  <2>. HIDE DEF row
  <2>6. \A i \in DOMAIN djobs' : (i \in DOMAIN djobs /\ djobs'[i] = djobs[i]) \/ djobs'[i] = row
    BY <2>4, <2>5
  <2>. QED BY <2>3, <2>4, <2>6 DEF HasJob
<1>4. CASE \A m \in Notices : ~AddDispatch(m)
  <2>1. delivery[<<n, s>>].status = "NONE" \/ adding[n] = s
    <3>1. ASSUME NEW m \in Notices, Emit(m) \/ EmitStep(m) \/ EmitThrows(m)
          PROVE  delivery[<<n, s>>].status = "NONE" \/ adding[n] = s
      <4>1. ASSUME NEW t \in Subscribers, InsertDelivery(m, t)
            PROVE  delivery[<<n, s>>].status = "NONE" \/ adding[n] = s
        BY <1>1, <1>2, <4>1 DEF InsertDelivery
      <4>. QED BY <1>1, <1>2, <1>4, <3>1, <4>1 DEF Emit, EmitStep, EmitThrows, EmitReturns
    <3>2. CASE QueueNext
      BY <1>1, <1>2, <3>2, QueueWrites
    <3>3. CASE UNCHANGED dispatchVars
      BY <1>1, <3>3 DEF dispatchVars, emitVars
    <3>. QED BY <3>1, <3>2, <3>3, DispatchSteps3
  <2>2. ~HasJob(<<n, s>>)
    BY <2>1 DEF NoJobYet
  <2>. QED BY <1>4, <2>2, FirstJobs
<1>. QED BY <1>3, <1>4

\* Any step, for any delivery.
LEMMA AnyMoves ==
  ASSUME QueueSound, [AnnouncementsNext]_announcementVars, NEW d
  PROVE  Moves(d) /\ HoldersSound'
<1>1. ASSUME UNCHANGED <<djobs, dpc, djob, dheld, faults>> PROVE Moves(d) /\ HoldersSound'
  <2>1. Posting(d)' = Posting(d)
    BY <1>1 DEF Posting, LiveJobs, Live, Spent, Current
  <2>. QED BY <1>1, <2>1 DEF Moves, QueueSound, HoldersSound
<1>2. ASSUME NEW i \in DOMAIN djobs, NEW w \in Dispatchers, StartDispatch(w, i)
      PROVE  Moves(d) /\ HoldersSound'
  BY <1>2, Starting DEF Moves
<1>3. CASE \E s \in Subscribers : Subscribe(s) \/ Deactivate(s)
  BY <1>1, <1>3 DEF Subscribe, Deactivate, workVars
<1>4. CASE QueueNext
  BY <1>2, <1>3, <1>4, Stalling, WorkerMovesOn DEF QueueNext, WorkerAction
<1>5. CASE UNCHANGED dispatchVars
  BY <1>1, <1>5 DEF dispatchVars, workVars
<1>. QED BY <1>4, <1>5, EmitMoves, DispatchSteps3

LEMMA PostingStep ==
  ASSUME PostingInv, [AnnouncementsNext]_announcementVars
  PROVE  PostingInv'
<1>. USE DEF PostingInv
<1>1. DeliveryInv' /\ EmitsSound' /\ NoJobYet'
  BY StepDelivery, EmitsSoundStep, NoJobYetStep DEF QueueSound
<1>2. HoldersSound' /\ faults' \in Nat
  BY AnyMoves DEF Moves
<1>3. \A d \in Deliveries : Counted(d)'
  BY AnyMoves, MovesCount
<1>. QED BY <1>1, <1>2, <1>3 DEF QueueSound

LEMMA InitPosting == AnnouncementsInit => PostingInv
<1>1. SUFFICES ASSUME AnnouncementsInit PROVE PostingInv
  OBVIOUS
<1>. USE DEF AnnouncementsInit, DispatchInit
<1>2. DeliveryInv /\ EmitsSound
  BY <1>1, InitDelivery DEF EmitsSound, Deliveries
<1>3. HoldersSound /\ NoJobYet /\ faults = 0
  BY <1>1 DEF HoldersSound, NoJobYet, HasJob
<1>4. \A d : Posting(d) = {}
  BY <1>1 DEF Posting, LiveJobs
<1>5. \A d : Counted(d)
  BY <1>3, <1>4, FS_EmptySet DEF Counted
<1>. QED BY <1>2, <1>3, <1>5 DEF PostingInv, QueueSound

\* Failures add up and do not multiply, for any number of workers, subscribers and failures: as
\* many jobs or workers are still to post a delivery as have failed so far, and one more; a job
\* that dispatch() adds itself takes the place of the one that BullMQ would repeat
\* (downstream-webhooks.service.ts line 117).
THEOREM OneMoreAtMost == AnnouncementsSpec => []OneMorePerFailure
<1>1. PostingInv => OneMorePerFailure
  BY DEF PostingInv, OneMorePerFailure, Counted
<1>. QED BY <1>1, InitPosting, PostingStep, PTL DEF AnnouncementsSpec

-----------------------------------------------------------------------------
(* While nothing fails but subscribers, the posts of a delivery are counted.    *)

Waiting(d) == {i \in DOMAIN djobs : djobs[i].of = d /\ djobs[i].job.state = "waiting"}
Working(d) == {w \in Dispatchers : dpc[w] \notin {"idle", "finish"} /\ Current(w) = d}

\* No job of d has been added.
Unserved(d) == delivery[d].status = "NONE" \/ adding[d[1]] = d[2]

Ready(d) == delivery[d].attempts = posts[d] /\ posts[d] < PostLimit

AtRest(d) == /\ delivery[d].attempts = posts[d]
             /\ \/ delivery[d].status = "DELIVERED"
                \/ posts[d] = PostLimit
                \/ subscription[d[2]] = "inactive"

InPhase(w, d) ==
  /\ dpc[w] \in {"subscription", "post"} => dread[w] = delivery[d].attempts /\ Ready(d)
  /\ dpc[w] \in {"delivered", "refused", "catch"} =>
       dread[w] = delivery[d].attempts /\ posts[d] = dread[w] + 1
  /\ dpc[w] \in {"requeue", "retry"} => Ready(d)

\* From the first job of d to its last there is one that waits or one worker, and the row and
\* what the worker has read agree with the posts.
Phases(d) ==
  /\ posts[d] <= PostLimit
  /\ Waiting(d) # {} => Ready(d)
  /\ \A w \in Working(d) : InPhase(w, d)
  /\ Unserved(d) => delivery[d].attempts = 0 /\ posts[d] = 0
  /\ Unserved(d) \/ Waiting(d) # {} \/ Working(d) # {} \/ AtRest(d)

\* A row is written for a registered subscriber, and nobody is struck off the register.
SubscribersKnown ==
  /\ subscription \in [Subscribers -> {"none", "active", "inactive"}]
  /\ \A n \in Notices : \A s \in matching[n] : subscription[s] # "none"
  /\ \A d \in Deliveries : delivery[d].status # "NONE" => subscription[d[2]] # "none"

HandsHold == \A w \in Dispatchers : dpc[w] # "idle" => dheld[w]
ActiveHeld == \A i \in DOMAIN djobs : djobs[i].job.state = "active" =>
                \E w \in Dispatchers : dheld[w] /\ djob[w] = i

Quiet == HandsHold /\ ActiveHeld /\ \A d \in Deliveries : Phases(d)

QuietInv == /\ PostingInv /\ SubscribersKnown /\ posts \in [Deliveries -> Nat]
            /\ faults = 0 => Quiet

\* The state of a run in which nothing has failed.
Undisturbed == PostingInv /\ SubscribersKnown /\ posts \in [Deliveries -> Nat] /\ faults = 0 /\ Quiet

LEMMA AtMostOneElement ==
  ASSUME NEW S, IsFiniteSet(S), Cardinality(S) <= 1, NEW x \in S, NEW y \in S
  PROVE  x = y
<1>1. IsFiniteSet(S \ {x}) /\ Cardinality(S \ {x}) = Cardinality(S) - 1
  BY FS_RemoveElement
<1>2. Cardinality(S) \in Nat /\ Cardinality(S \ {x}) \in Nat
  BY <1>1, FS_CardinalityType
<1>3. Cardinality(S \ {x}) = 0
  BY <1>1, <1>2
<1>4. S \ {x} = {}
  BY <1>1, <1>3, FS_EmptySet
<1>. QED BY <1>4

\* A worker at work has its job to itself, and its delivery no other.
LEMMA InHandAlone ==
  ASSUME Undisturbed, NEW w \in Dispatchers, dpc[w] # "idle"
  PROVE  /\ dheld[w] /\ djob[w] \in DOMAIN djobs /\ djobs[djob[w]] \in JobRows
         /\ djobs[djob[w]].job.state = "active"
         /\ Current(w) \in Deliveries /\ ~Unserved(Current(w))
<1>. USE DEF Undisturbed, PostingInv, QueueSound, DeliveryInv, DeliveriesTyped
<1>1. dheld[w] /\ djob[w] \in DOMAIN djobs /\ djobs[djob[w]] \in JobRows /\ Current(w) \in Deliveries
  BY CurrentTyped DEF Quiet, HandsHold
<1>2. HasJob(Current(w))
  BY <1>1 DEF HasJob, Current
<1>3. PICK n \in Notices, s \in Subscribers : Current(w) = <<n, s>>
  BY <1>1 DEF Deliveries
<1>4. ~Unserved(Current(w))
  BY <1>2, <1>3 DEF NoJobYet, Unserved
<1>. QED BY <1>1, <1>4 DEF HoldersSound

LEMMA OneAtWork ==
  ASSUME Undisturbed, NEW d \in Deliveries, NEW w \in Working(d)
  PROVE  Waiting(d) = {} /\ Working(d) = {w}
<1>. USE DEF Undisturbed, PostingInv, QueueSound
<1>1. ASSUME NEW v \in Working(d)
      PROVE  /\ <<"job", djob[v]>> \in Posting(d)
             /\ djobs[djob[v]].job.state = "active" /\ dheld[v]
  <2>1. v \in Dispatchers /\ dpc[v] \notin {"idle", "finish"} /\ Current(v) = d
    BY <1>1 DEF Working
  <2>2. dheld[v] /\ djob[v] \in DOMAIN djobs /\ djobs[djob[v]].job.state = "active"
    BY <2>1, InHandAlone
  <2>3. ~Spent(djob[v])
    BY <2>1, <2>2 DEF Spent, HoldersSound
  <2>4. PICK i \in DOMAIN djobs : i = djob[v]
    BY <2>2
  <2>5. JobPosts(i, d)
    BY <2>1, <2>2, <2>3, <2>4 DEF JobPosts, Live, Current
  <2>. QED BY <2>2, <2>4, <2>5, PostingParts
<1>2. ASSUME NEW i \in Waiting(d) PROVE <<"job", i>> \in Posting(d)
  <2>1. i \in DOMAIN djobs /\ djobs[i].of = d /\ djobs[i].job.state = "waiting"
    BY <1>2 DEF Waiting
  <2>2. JobPosts(i, d)
    BY <2>1 DEF JobPosts, Live, Spent, HoldersSound
  <2>. QED BY <2>1, <2>2, PostingParts
<1>3. \A x, y \in Posting(d) : x = y
  BY AtMostOneElement DEF Counted
<1>4. \A v \in Working(d) : v = w
  BY <1>1, <1>3 DEF HoldersSound, Working
<1>5. Waiting(d) = {}
  <2>1. SUFFICES ASSUME NEW i \in Waiting(d) PROVE FALSE
    OBVIOUS
  <2>2. i = djob[w]
    BY <1>1, <1>2, <1>3
  <2>. QED BY <1>1, <2>2 DEF Waiting
<1>. QED BY <1>4, <1>5

\* A row that a step does not concern.
LEMMA PhasesStay ==
  ASSUME NEW d, Phases(d),
         delivery'[d] = delivery[d], posts'[d] = posts[d],
         (adding'[d[1]] = d[2]) <=> (adding[d[1]] = d[2]),
         subscription[d[2]] = "inactive" => subscription'[d[2]] = "inactive",
         Waiting(d)' = Waiting(d), Working(d)' = Working(d),
         \A w \in Working(d) : dpc'[w] = dpc[w] /\ dread'[w] = dread[w]
  PROVE  Phases(d)'
<1>1. Unserved(d)' <=> Unserved(d)
  BY DEF Unserved
<1>2. (Ready(d)' <=> Ready(d)) /\ (AtRest(d) => AtRest(d)')
  BY DEF Ready, AtRest
<1>3. \A w \in Working(d) : InPhase(w, d) => InPhase(w, d)'
  BY <1>2 DEF InPhase
<1>. QED BY <1>1, <1>2, <1>3 DEF Phases

\* What a worker does concerns no other row.
LEMMA OtherRows ==
  ASSUME Undisturbed, NEW w \in Dispatchers, StepOf(w), JobsKept,
         \A i \in DOMAIN djobs' : i > Len(djobs) => djobs'[i].of = Current(w),
         UNCHANGED emitVars, \A v \in Dispatchers : v # w => dread'[v] = dread[v],
         NEW e \in Deliveries, e # Current(w), delivery'[e] = delivery[e], posts'[e] = posts[e]
  PROVE  Phases(e)'
<1>. USE DEF Undisturbed, PostingInv, QueueSound, DeliveryInv, DeliveriesTyped, StepOf, Untouched
<1>1. /\ DOMAIN djobs = 1..Len(djobs) /\ DOMAIN djobs' = 1..Len(djobs') /\ Len(djobs) \in Nat
      /\ Len(djobs') \in Nat /\ Len(djobs') >= Len(djobs)
  BY DEF JobsKept
<1>2. djob[w] \in 1..Len(djobs)
  BY DEF HandsKnown
<1>3. Waiting(e)' = Waiting(e)
  <2>1. ASSUME NEW i \in DOMAIN djobs PROVE i \in Waiting(e)' <=> i \in Waiting(e)
    <3>1. i \in DOMAIN djobs' /\ i \in 1..Len(djobs)
      BY <1>1, <2>1
    <3>2. CASE i = djob[w]
      BY <1>2, <3>1, <3>2 DEF JobsKept, Waiting, Current
    <3>3. CASE i # djob[w]
      BY <1>2, <3>1, <3>3 DEF Waiting
    <3>. QED BY <3>2, <3>3
  <2>2. ASSUME NEW i \in DOMAIN djobs', i \notin DOMAIN djobs PROVE i \notin Waiting(e)'
    BY <1>1, <2>2 DEF Waiting
  <2>3. \A i \in Waiting(e)' : i \in DOMAIN djobs'
    BY DEF Waiting
  <2>4. \A i \in Waiting(e) : i \in DOMAIN djobs
    BY DEF Waiting
  <2>. QED BY <2>1, <2>2, <2>3, <2>4
<1>4. ASSUME NEW v \in Dispatchers PROVE v \in Working(e)' <=> v \in Working(e)
  <2>1. CASE v = w
    <3>1. dpc'[w] # "idle" => Current(w)' = Current(w)
      BY <1>2 DEF Current, JobsKept
    <3>. QED BY <2>1, <3>1 DEF Working
  <2>2. CASE v # w
    <3>1. dpc[v] # "idle" => Current(v)' = Current(v)
      BY <2>2 DEF Current, JobsKept, HandsKnown
    <3>. QED BY <2>2, <3>1 DEF Working
  <2>. QED BY <2>1, <2>2
<1>5. Working(e)' = Working(e)
  BY <1>4 DEF Working
<1>6. \A v \in Working(e) : v # w
  BY DEF Working
<1>. QED BY <1>3, <1>5, <1>6, PhasesStay DEF emitVars, Working, Quiet

\* A worker that reads, posts or writes.
LEMMA WorkPhases ==
  ASSUME Undisturbed, NEW w \in Dispatchers, NEW d \in Deliveries, d = Current(w),
         UNCHANGED <<djobs, djob, dheld, dread, emitVars>>,
         dpc[w] \notin {"idle", "finish"}, NEW step \in DispatchSteps, dpc' = [dpc EXCEPT ![w] = step],
         \A e \in Deliveries \ {d} : delivery'[e] = delivery[e] /\ posts'[e] = posts[e],
         posts'[d] <= PostLimit,
         IF step = "finish" THEN AtRest(d)' ELSE InPhase(w, d)',
         delivery'[d].status # "NONE"
  PROVE  Quiet'
<1>. USE DEF Undisturbed, PostingInv, QueueSound, DeliveryInv, DeliveriesTyped
<1>1. ~Unserved(d) /\ dheld[w]
  BY InHandAlone
<1>2. HandsHold' /\ ActiveHeld'
  BY <1>1 DEF Quiet, HandsHold, ActiveHeld
<1>3. ASSUME NEW e \in Deliveries, e # d PROVE Phases(e)'
  <2>1. StepOf(w) /\ JobsKept
    BY StayKeepsJobs DEF StepOf, Untouched
  <2>2. \A i \in DOMAIN djobs' : ~(i > Len(djobs))
    OBVIOUS
  <2>. QED BY <1>3, <2>1, <2>2, OtherRows
<1>4. Phases(d)'
  <2>1. w \in Working(d)
    BY DEF Working
  <2>2. Waiting(d) = {} /\ Working(d) = {w}
    BY <2>1, OneAtWork
  <2>3. Waiting(d)' = {}
    BY <2>2 DEF Waiting
  <2>4. Working(d)' = IF step = "finish" THEN {} ELSE {w}
    BY <2>2 DEF Working, Current, DispatchSteps
  <2>5. ~Unserved(d)'
    BY <1>1 DEF Unserved, emitVars
  <2>. QED BY <2>3, <2>4, <2>5 DEF Phases
<1>. QED BY <1>2, <1>3, <1>4 DEF Quiet

LEMMA PostPhases ==
  ASSUME Undisturbed, NEW w \in Dispatchers, Post(w)
  PROVE  Quiet'
<1>. USE DEF Undisturbed, PostingInv, QueueSound, DeliveryInv, DeliveriesTyped
<1>1. PICK step \in {"delivered", "refused", "catch"} :
        dpc[w] = "post" /\ dpc' = [dpc EXCEPT ![w] = step]
  BY DEF Post, DGo
<1>2. PICK d \in Deliveries : d = Current(w)
  BY <1>1, InHandAlone
<1>3. /\ posts' = [posts EXCEPT ![d] = posts[d] + 1] /\ UNCHANGED <<delivery, djobs, djob, dheld, dread, emitVars>>
      /\ delivery[d].status # "NONE"
  BY <1>1, <1>2, InHandAlone DEF Post, Unserved
<1>4. dread[w] = delivery[d].attempts /\ Ready(d)
  BY <1>1, <1>2 DEF Quiet, Phases, InPhase, Working
<1>5. posts'[d] = dread[w] + 1 /\ posts'[d] <= PostLimit
  BY <1>3, <1>4, DispatchAssumption DEF Ready
<1>6. InPhase(w, d)'
  BY <1>1, <1>3, <1>4, <1>5 DEF InPhase
<1>. QED BY <1>1, <1>2, <1>3, <1>5, <1>6, WorkPhases DEF DispatchSteps

LEMMA WritePhases ==
  ASSUME Undisturbed, NEW w \in Dispatchers, Update(w) \/ Catch(w)
  PROVE  Quiet'
<1>. USE DEF Undisturbed, PostingInv, QueueSound, DeliveryInv, DeliveriesTyped
<1>0. dpc[w] \in {"delivered", "refused", "catch"}
  BY DEF Update, Catch, DGo
<1>1. PICK d \in Deliveries : d = Current(w)
  BY <1>0, InHandAlone
<1>2. PICK status \in {"DELIVERED", "FAILED"}, step \in {"finish", "requeue", "retry"} :
        /\ WriteDelivery(w, status) /\ dpc' = [dpc EXCEPT ![w] = step]
        /\ status = "FAILED" => step = IF ~MayRepeat(w) THEN "finish"
                                       ELSE IF dpc[w] = "refused" THEN "requeue" ELSE "retry"
        /\ status = "DELIVERED" => step = "finish"
  BY DEF Update, Catch, DGo
<1>3. UNCHANGED <<emitVars, djobs, djob, dheld, dread, posts>>
  BY DEF Update, Catch, worldVars
<1>4. dread[w] \in Nat /\ posts[d] = dread[w] + 1 /\ posts[d] <= PostLimit
  BY <1>0, <1>1 DEF Quiet, Phases, InPhase, Working
<1>5. /\ delivery' = [delivery EXCEPT ![d] = [status |-> status, attempts |-> dread[w] + 1]]
      /\ delivery'[d].attempts = posts'[d] /\ delivery'[d].status = status /\ posts'[d] = posts[d]
  BY <1>1, <1>2, <1>3, <1>4 DEF WriteDelivery
<1>6. IF step = "finish" THEN AtRest(d)' ELSE InPhase(w, d)'
  <2>1. CASE step = "finish"
    <3>1. status = "DELIVERED" \/ posts[d] = PostLimit
      BY <1>2, <1>4, <2>1, DispatchAssumption DEF MayRepeat
    <3>. QED BY <1>3, <1>5, <2>1, <3>1 DEF AtRest
  <2>2. CASE step # "finish"
    <3>1. posts[d] < PostLimit
      BY <1>2, <1>4, <2>2 DEF MayRepeat
    <3>2. dpc'[w] \in {"requeue", "retry"}
      BY <1>2, <2>2
    <3>. QED BY <1>5, <2>2, <3>1, <3>2 DEF InPhase, Ready
  <2>. QED BY <2>1, <2>2
<1>. QED BY <1>0, <1>1, <1>2, <1>3, <1>4, <1>5, <1>6, WorkPhases DEF DispatchSteps

\* A worker that gives its job back, in whatever state.
LEMMA EndPhases ==
  ASSUME Undisturbed, NEW w \in Dispatchers, NEW d \in Deliveries, d = Current(w),
         dpc[w] # "idle", EndDispatch(w), UNCHANGED <<emitVars, delivery, posts>>,
         NEW value \in AnyJob, SetDJob(djob[w], value), value.state # "active",
         value.state = "waiting" => Ready(d),
         dpc[w] = "finish" \/ value.state = "waiting" \/ AtRest(d)
  PROVE  Quiet'
<1>. USE DEF Undisturbed, PostingInv, QueueSound, DeliveryInv, DeliveriesTyped
<1>0. PICK k \in DOMAIN djobs : k = djob[w] /\ k \in 1..Len(djobs)
  BY InHandAlone
<1>1. /\ ~Unserved(d) /\ dheld[w] /\ djobs[k].job.state = "active" /\ djobs[k].of = d
  BY <1>0, InHandAlone DEF Current
<1>2. /\ dpc' = [dpc EXCEPT ![w] = "idle"] /\ dheld' = [dheld EXCEPT ![w] = FALSE]
      /\ djob' = [djob EXCEPT ![w] = 0] /\ dread' = [dread EXCEPT ![w] = 0]
  BY DEF EndDispatch
<1>3. /\ DOMAIN djobs' = DOMAIN djobs /\ Len(djobs') = Len(djobs)
      /\ \A i \in DOMAIN djobs : i # k => djobs'[i] = djobs[i]
      /\ djobs'[k].of = d /\ djobs'[k].job = value
  <2>1. djobs[k] \in JobRows /\ djobs' = [djobs EXCEPT ![k] = [djobs[k] EXCEPT !.job = value]]
    BY <1>0 DEF SetDJob
  <2>. QED BY <1>0, <1>1, <2>1 DEF JobRows
<1>4. JobsKept /\ StepOf(w)
  <2>1. JobsKept
    BY <1>0, SetKeepsJobs
  <2>2. \A i \in 1..Len(djobs) : djobs'[i] = djobs[i] \/ (dheld[w] /\ i = djob[w])
    <3>1. \A i \in 1..Len(djobs) : i \in DOMAIN djobs
      OBVIOUS
    <3>. QED BY <1>0, <1>1, <1>3, <3>1
  <2>3. dpc'[w] = "idle" /\ ~dheld'[w] /\ \A v \in Dispatchers : v # w => Untouched(v)
    BY <1>2 DEF Untouched, HoldersSound
  <2>. QED BY <2>1, <2>2, <2>3 DEF StepOf
<1>5. HandsHold' /\ ActiveHeld'
  <2>1. HandsHold'
    BY <1>2 DEF Quiet, HandsHold, HoldersSound
  <2>2. ASSUME NEW i \in DOMAIN djobs', djobs'[i].job.state = "active"
        PROVE  \E v \in Dispatchers : dheld'[v] /\ djob'[v] = i
    <3>1. i # k /\ djobs[i].job.state = "active" /\ i \in DOMAIN djobs
      BY <1>3, <2>2
    <3>2. PICK v \in Dispatchers : dheld[v] /\ djob[v] = i
      BY <3>1 DEF Quiet, ActiveHeld
    <3>. QED BY <1>0, <1>2, <3>1, <3>2 DEF HoldersSound
  <2>. QED BY <2>1, <2>2 DEF ActiveHeld
<1>6. ASSUME NEW e \in Deliveries, e # d PROVE Phases(e)'
  <2>1. \A i \in DOMAIN djobs' : ~(i > Len(djobs))
    BY <1>3
  <2>. QED BY <1>2, <1>4, <1>6, <2>1, OtherRows
<1>7. Phases(d)'
  <2>1. Waiting(d)' = Waiting(d) \cup (IF value.state = "waiting" THEN {k} ELSE {})
    BY <1>0, <1>1, <1>3 DEF Waiting
  <2>2. Working(d)' = Working(d) \ {w}
    <3>1. \A v \in Dispatchers : v # w /\ dpc[v] # "idle" => Current(v)' = Current(v)
      BY <1>2, <1>4 DEF Current, JobsKept, HandsKnown
    <3>. QED BY <1>2, <3>1 DEF Working
  <2>3. /\ (Unserved(d)' <=> Unserved(d)) /\ (Ready(d)' <=> Ready(d)) /\ (AtRest(d)' <=> AtRest(d))
        /\ \A v \in Working(d)' : InPhase(v, d) => InPhase(v, d)'
    BY <1>2, <2>2 DEF Unserved, Ready, AtRest, InPhase, emitVars
  <2>4. dpc[w] = "finish" => w \notin Working(d)
    BY DEF Working
  <2>5. Phases(d)
    BY DEF Quiet
  <2>. QED BY <1>1, <2>1, <2>2, <2>3, <2>4, <2>5 DEF Phases
<1>. QED BY <1>5, <1>6, <1>7 DEF Quiet

LEMMA ReadPhases ==
  ASSUME Undisturbed, SubscribersKnown, NEW w \in Dispatchers, ReadSubscription(w)
  PROVE  Quiet'
<1>. USE DEF Undisturbed, PostingInv, QueueSound, DeliveryInv, DeliveriesTyped
<1>1. dpc[w] = "subscription" /\ UNCHANGED <<emitVars, delivery, posts>>
  BY DEF ReadSubscription, worldVars
<1>2. PICK d \in Deliveries : d = Current(w)
  BY <1>1, InHandAlone
<1>3. dread[w] = delivery[d].attempts /\ Ready(d) /\ posts[d] <= PostLimit
  BY <1>1, <1>2 DEF Quiet, Phases, InPhase, Working
<1>4. delivery[d].status # "NONE"
  BY <1>1, <1>2, InHandAlone DEF Unserved
<1>5. CASE subscription[d[2]] = "active"
  <2>1. dpc' = [dpc EXCEPT ![w] = "post"] /\ UNCHANGED <<djobs, djob, dheld, dread>>
    BY <1>2, <1>5 DEF ReadSubscription
  <2>2. InPhase(w, d)'
    BY <1>1, <1>3, <2>1 DEF InPhase, Ready
  <2>. QED BY <1>1, <1>2, <1>3, <1>4, <2>1, <2>2, WorkPhases DEF DispatchSteps
<1>6. CASE subscription[d[2]] # "active"
  <2>1. ThrowDispatch(w)
    BY <1>2, <1>6 DEF ReadSubscription
  <2>2. AtRest(d)
    BY <1>3, <1>4, <1>6 DEF AtRest, Ready, SubscribersKnown, Deliveries
  <2>3. /\ EndDispatch(w) /\ SetDJob(djob[w], Failed(djobs[djob[w]].job))
        /\ Failed(djobs[djob[w]].job) \in AnyJob
    BY <1>1, <2>1, InHandAlone, JobOperators DEF ThrowDispatch, JobRows
  <2>4. Failed(djobs[djob[w]].job).state # "active"
    <3>1. djobs[djob[w]].job \in AnyJob
      BY <1>1, InHandAlone DEF JobRows
    <3>. QED BY <3>1 DEF Failed, AnyJob
  <2>. QED BY <1>1, <1>2, <1>3, <2>2, <2>3, <2>4, EndPhases
<1>. QED BY <1>5, <1>6

LEMMA FinishPhases ==
  ASSUME Undisturbed, NEW w \in Dispatchers, FinishDispatch(w)
  PROVE  Quiet'
<1>1. dpc[w] = "finish" /\ EndDispatch(w) /\ UNCHANGED <<emitVars, delivery, posts>>
  BY DEF FinishDispatch, worldVars
<1>2. PICK d \in Deliveries : d = Current(w)
  BY <1>1, InHandAlone
<1>. DEFINE value == Completed(djobs[djob[w]].job)
<1>3. SetDJob(djob[w], value) /\ value \in AnyJob
  BY <1>1, InHandAlone, JobOperators DEF FinishDispatch, JobRows
<1>4. value.state = "completed"
  <2>1. djobs[djob[w]].job \in AnyJob
    BY <1>1, InHandAlone DEF JobRows
  <2>. QED BY <2>1 DEF Completed, AnyJob
<1>. HIDE DEF value
<1>. QED BY <1>1, <1>2, <1>3, <1>4, EndPhases

LEMMA RequeuePhases ==
  ASSUME Undisturbed, NEW w \in Dispatchers, Requeue(w)
  PROVE  Quiet'
<1>. USE DEF Undisturbed, PostingInv, QueueSound, DeliveryInv, DeliveriesTyped
<1>1. /\ dpc[w] \in {"requeue", "retry"} /\ dpc' = [dpc EXCEPT ![w] = "finish"]
      /\ UNCHANGED <<emitVars, delivery, posts, djob, dheld, dread>>
  BY DEF Requeue, DGo, worldVars
<1>2. PICK d \in Deliveries : d = Current(w)
  BY <1>1, InHandAlone
<1>3. ~Unserved(d) /\ djob[w] \in DOMAIN djobs /\ dheld[w]
  BY <1>1, <1>2, InHandAlone
<1>4. /\ DOMAIN djobs = 1..Len(djobs) /\ DOMAIN djobs' = 1..(Len(djobs) + 1) /\ Len(djobs) \in Nat
      /\ \A i \in 1..Len(djobs) : djobs'[i] = djobs[i]
      /\ \A i \in DOMAIN djobs' : i > Len(djobs) =>
           djobs'[i].of = d /\ djobs'[i].job.state = "waiting"
  <2>. DEFINE row == [job |-> Added, of |-> d]
  <2>1. row \in JobRows /\ row.of = d /\ row.job.state = "waiting"
    BY DEF JobRows, AnyJob, Added, JobStates
  <2>2. djobs' = Append(djobs, row)
    BY <1>2 DEF Requeue, AddJob
  <2>. HIDE DEF row
  <2>. QED BY <2>1, <2>2
<1>5. JobsKept /\ StepOf(w)
  BY <1>1, <1>2, <1>4, AddKeepsJobs DEF Requeue, StepOf, Untouched
<1>6. HandsHold' /\ ActiveHeld'
  <2>1. HandsHold'
    BY <1>1, <1>3 DEF Quiet, HandsHold
  <2>2. ASSUME NEW i \in DOMAIN djobs', djobs'[i].job.state = "active"
        PROVE  i \in DOMAIN djobs /\ djobs'[i] = djobs[i]
    <3>1. ~(i > Len(djobs))
      BY <1>4, <2>2
    <3>2. i \in 1..Len(djobs)
      BY <1>4, <3>1
    <3>. QED BY <1>4, <3>2
  <2>. QED BY <1>1, <2>1, <2>2 DEF Quiet, ActiveHeld
<1>7. ASSUME NEW e \in Deliveries, e # d PROVE Phases(e)'
  BY <1>1, <1>2, <1>4, <1>5, <1>7, OtherRows
<1>8. Phases(d)'
  <2>1. w \in Working(d)
    BY <1>1, <1>2 DEF Working
  <2>2. Working(d) = {w} /\ Ready(d) /\ posts[d] <= PostLimit
    BY <1>1, <2>1, OneAtWork DEF Quiet, Phases, InPhase
  <2>3. Working(d)' = {}
    <3>1. \A v \in Dispatchers : dpc[v] # "idle" => Current(v)' = Current(v)
      BY <1>1, <1>5 DEF Current, JobsKept, HandsKnown
    <3>. QED BY <1>1, <2>2, <3>1 DEF Working
  <2>4. Waiting(d)' # {}
    <3>1. PICK i : i = Len(djobs) + 1
      OBVIOUS
    <3>2. i \in DOMAIN djobs' /\ i > Len(djobs)
      BY <1>4, <3>1
    <3>. QED BY <1>4, <3>2 DEF Waiting
  <2>5. Ready(d)' /\ ~Unserved(d)'
    BY <1>1, <1>3, <2>2 DEF Ready, Unserved, emitVars
  <2>. QED BY <1>1, <2>2, <2>3, <2>4, <2>5 DEF Phases
<1>. QED BY <1>6, <1>7, <1>8 DEF Quiet

LEMMA StartPhases ==
  ASSUME Undisturbed, NEW w \in Dispatchers, NEW i \in DOMAIN djobs, StartDispatch(w, i)
  PROVE  Quiet'
<1>. USE DEF Undisturbed, PostingInv, QueueSound, DeliveryInv, DeliveriesTyped
<1>1. /\ djobs[i].job.state = "waiting" /\ dpc[w] = "idle"
      /\ dpc' = [dpc EXCEPT ![w] = "subscription"] /\ djob' = [djob EXCEPT ![w] = i]
      /\ dheld' = [dheld EXCEPT ![w] = TRUE]
      /\ dread' = [dread EXCEPT ![w] = delivery[djobs[i].of].attempts]
      /\ UNCHANGED <<emitVars, delivery, posts>>
  BY DEF StartDispatch, DGo, worldVars
<1>2. djobs[i] \in JobRows /\ i \in 1..Len(djobs)
  OBVIOUS
<1>3. /\ djobs[i].of \in Deliveries /\ DOMAIN djobs' = DOMAIN djobs
      /\ djobs'[i].job.state = "active" /\ djobs'[i].of = djobs[i].of
      /\ \A j \in DOMAIN djobs : j # i => djobs'[j] = djobs[j]
  <2>1. djobs[i].job \in AnyJob /\ djobs[i].of \in Deliveries
    BY <1>2 DEF JobRows
  <2>2. djobs' = [djobs EXCEPT ![i] = [djobs[i] EXCEPT !.job = Taken(djobs[i].job)]]
    BY DEF StartDispatch, SetDJob
  <2>. QED BY <1>2, <2>1, <2>2 DEF JobRows, Taken, AnyJob
<1>4. HandsHold' /\ ActiveHeld'
  <2>1. HandsHold'
    BY <1>1 DEF Quiet, HandsHold, HoldersSound
  <2>2. ASSUME NEW j \in DOMAIN djobs', djobs'[j].job.state = "active"
        PROVE  \E v \in Dispatchers : dheld'[v] /\ djob'[v] = j
    <3>1. CASE j = i
      BY <1>1, <3>1 DEF HoldersSound
    <3>2. CASE j # i
      <4>1. j \in DOMAIN djobs /\ djobs[j].job.state = "active"
        BY <1>3, <2>2, <3>2
      <4>2. PICK v \in Dispatchers : dheld[v] /\ djob[v] = j
        BY <4>1 DEF Quiet, ActiveHeld
      <4>. QED BY <1>1, <4>2 DEF HoldersSound
    <3>. QED BY <3>1, <3>2
  <2>. QED BY <2>1, <2>2 DEF ActiveHeld
<1>5. ASSUME NEW d \in Deliveries PROVE Phases(d)'
  <2>1. Waiting(d)' = Waiting(d) \ {i}
    BY <1>1, <1>3 DEF Waiting
  <2>2. \A v \in Dispatchers : v # w /\ dpc[v] # "idle" => Current(v)' = Current(v)
    <3>1. ASSUME NEW v \in Dispatchers, v # w, dpc[v] # "idle" PROVE Current(v)' = Current(v)
      <4>1. djob'[v] = djob[v] /\ djob[v] \in DOMAIN djobs
        BY <1>1, <3>1 DEF HandsKnown
      <4>. QED BY <1>3, <4>1 DEF Current
    <3>. QED BY <3>1
  <2>3. Current(w)' = djobs[i].of
    BY <1>1, <1>3 DEF Current
  <2>4. Working(d)' = IF djobs[i].of = d THEN Working(d) \cup {w} ELSE Working(d)
    BY <1>1, <2>2, <2>3 DEF Working
  <2>5. /\ (Unserved(d)' <=> Unserved(d)) /\ (Ready(d)' <=> Ready(d)) /\ (AtRest(d)' <=> AtRest(d))
        /\ \A v \in Dispatchers \ {w} : InPhase(v, d) => InPhase(v, d)'
    BY <1>1 DEF Unserved, Ready, AtRest, InPhase, emitVars
  <2>6. Phases(d) /\ w \notin Working(d) /\ posts'[d] = posts[d] /\ delivery'[d] = delivery[d]
    BY <1>1 DEF Quiet, Working
  <2>7. CASE djobs[i].of = d
    <3>1. i \in Waiting(d)
      BY <1>1, <2>7 DEF Waiting
    <3>2. Ready(d)
      BY <2>6, <3>1 DEF Phases
    <3>3. InPhase(w, d)'
      BY <1>1, <2>5, <2>7, <3>2 DEF InPhase
    <3>. QED BY <2>1, <2>4, <2>5, <2>6, <2>7, <3>2, <3>3 DEF Phases, Working
  <2>8. CASE djobs[i].of # d
    <3>1. i \notin Waiting(d)
      BY <2>8 DEF Waiting
    <3>. QED BY <2>1, <2>4, <2>5, <2>6, <2>8, <3>1 DEF Phases, Working
  <2>. QED BY <2>7, <2>8
<1>. QED BY <1>4, <1>5 DEF Quiet

\* emit() and the register of subscribers.
LEMMA EmitPhases ==
  ASSUME Undisturbed, NEW n \in Notices, Emit(n) \/ EmitStep(n)
  PROVE  Quiet'
<1>. USE DEF Undisturbed, PostingInv, QueueSound, DeliveryInv, DeliveriesTyped
<1>1. UNCHANGED <<subscription, workVars, posts>>
  BY DEF Emit, EmitStep, InsertDelivery, AddDispatch, EmitReturns, worldVars
<1>2. ASSUME UNCHANGED djobs
      PROVE  /\ HandsHold' /\ ActiveHeld'
             /\ \A d \in Deliveries : Waiting(d)' = Waiting(d) /\ Working(d)' = Working(d)
  BY <1>1, <1>2 DEF workVars, Quiet, HandsHold, ActiveHeld, Waiting, Working, Current
<1>3. ASSUME UNCHANGED <<djobs, delivery, adding>> PROVE Quiet'
  BY <1>1, <1>2, <1>3, PhasesStay DEF Quiet, workVars
<1>4. ASSUME NEW s \in Subscribers, InsertDelivery(n, s) PROVE Quiet'
  <2>1. /\ adding[n] = Nobody /\ delivery[<<n, s>>].status = "NONE" /\ UNCHANGED djobs
        /\ adding' = [adding EXCEPT ![n] = s] /\ s # Nobody
        /\ delivery' = [delivery EXCEPT ![<<n, s>>] = [status |-> "PENDING", attempts |-> 0]]
    BY <1>4, DispatchAssumption DEF InsertDelivery
  <2>2. ASSUME NEW d \in Deliveries PROVE Phases(d)'
    <3>0. PICK m \in Notices, r \in Subscribers : d = <<m, r>>
      BY <2>2 DEF Deliveries
    <3>1. Phases(d) /\ d[1] = m /\ d[2] = r
      BY <2>2, <3>0 DEF Quiet
    <3>2. Waiting(d)' = Waiting(d) /\ Working(d)' = Working(d) /\ posts'[d] = posts[d]
      BY <1>1, <1>2, <2>1, <2>2
    <3>3. CASE m = n /\ r = s
      <4>1. ~HasJob(d)
        BY <2>1, <3>0, <3>3 DEF NoJobYet
      <4>2. Waiting(d) = {} /\ Working(d) = {}
        BY <4>1 DEF HasJob, Waiting, Working, HandsKnown, Current
      <4>3. posts[d] = 0 /\ delivery'[d].attempts = 0 /\ adding'[m] = r
        BY <2>1, <3>0, <3>1, <3>3 DEF Phases, Unserved
      <4>4. Unserved(d)'
        BY <3>1, <4>3 DEF Unserved
      <4>5. posts'[d] <= PostLimit /\ delivery'[d].attempts = 0 /\ posts'[d] = 0
        BY <3>2, <4>3, DispatchAssumption
      <4>. QED BY <3>2, <4>2, <4>4, <4>5 DEF Phases
    <3>4. CASE ~(m = n /\ r = s)
      <4>1. delivery'[d] = delivery[d] /\ (adding'[m] = r <=> adding[m] = r)
        BY <2>1, <3>0, <3>1, <3>4, DispatchAssumption
      <4>2. \A v \in Working(d) : dpc'[v] = dpc[v] /\ dread'[v] = dread[v]
        BY <1>1 DEF workVars
      <4>3. subscription'[d[2]] = subscription[d[2]]
        BY <1>1
      <4>. QED BY <3>1, <3>2, <4>1, <4>2, <4>3, PhasesStay
    <3>. QED BY <3>3, <3>4
  <2>. QED BY <1>2, <2>1, <2>2 DEF Quiet
<1>5. CASE AddDispatch(n)
  <2>1. PICK s \in Subscribers : adding[n] = s /\ AddJob(<<n, s>>)
    BY <1>5 DEF AddDispatch
  <2>2. delivery' = delivery /\ adding' = [adding EXCEPT ![n] = Nobody]
    BY <1>5 DEF AddDispatch
  <2>3. PICK d \in Deliveries : d = <<n, s>>
    BY DEF Deliveries
  <2>. DEFINE row == [job |-> Added, of |-> d]
  <2>4. row \in JobRows /\ row.of = d /\ row.job.state = "waiting"
    BY DEF JobRows, AnyJob, Added, JobStates
  <2>5. djobs' = Append(djobs, row)
    BY <2>1, <2>3 DEF AddJob
  <2>. HIDE DEF row
  <2>6. /\ DOMAIN djobs = 1..Len(djobs) /\ DOMAIN djobs' = 1..(Len(djobs) + 1) /\ Len(djobs) \in Nat
        /\ \A i \in 1..Len(djobs) : djobs'[i] = djobs[i]
        /\ \A i \in DOMAIN djobs' : i \in DOMAIN djobs \/ (i = Len(djobs) + 1 /\ djobs'[i] = row)
    BY <2>4, <2>5
  <2>7. \A e : Waiting(e)' = IF e = d THEN Waiting(e) \cup {Len(djobs) + 1} ELSE Waiting(e)
    BY <2>4, <2>5, <2>6 DEF Waiting
  <2>8. \A e : Working(e)' = Working(e)
    <3>1. \A v \in Dispatchers : dpc[v] # "idle" => Current(v)' = Current(v)
      BY <1>1, <2>6 DEF Current, HandsKnown, workVars
    <3>. QED BY <1>1, <3>1 DEF Working, workVars
  <2>9. HandsHold' /\ ActiveHeld'
    <3>1. \A i \in DOMAIN djobs' : djobs'[i].job.state = "active" =>
            i \in DOMAIN djobs /\ djobs'[i] = djobs[i]
      BY <2>4, <2>6
    <3>. QED BY <1>1, <3>1 DEF Quiet, HandsHold, ActiveHeld, workVars
  <2>10. ASSUME NEW e \in Deliveries, e # d PROVE Phases(e)'
    <3>1. PICK m \in Notices, r \in Subscribers : e = <<m, r>>
      BY <2>10 DEF Deliveries
    <3>2. adding'[m] = r <=> adding[m] = r
      BY <2>1, <2>2, <2>3, <2>10, <3>1, DispatchAssumption
    <3>3. Phases(e) /\ e[1] = m /\ e[2] = r
      BY <2>10, <3>1 DEF Quiet
    <3>4. \A v \in Working(e) : dpc'[v] = dpc[v] /\ dread'[v] = dread[v]
      BY <1>1 DEF workVars
    <3>. QED BY <1>1, <2>2, <2>7, <2>8, <2>10, <3>2, <3>3, <3>4, PhasesStay
  <2>11. Phases(d)'
    <3>1. Unserved(d)
      BY <2>1, <2>3 DEF Unserved
    <3>2. delivery[d].attempts = 0 /\ posts[d] = 0
      BY <3>1 DEF Quiet, Phases
    <3>3. ~HasJob(d)
      BY <2>1, <2>3 DEF NoJobYet
    <3>4. Working(d) = {}
      BY <3>3 DEF HasJob, Working, HandsKnown, Current
    <3>5. Ready(d)' /\ posts'[d] <= PostLimit
      BY <1>1, <2>2, <3>2, DispatchAssumption DEF Ready
    <3>6. Waiting(d)' # {} /\ Working(d)' = {}
      BY <2>7, <2>8, <3>4
    <3>7. Unserved(d)' => delivery'[d].attempts = 0 /\ posts'[d] = 0
      BY <1>1, <2>2, <3>2
    <3>. QED BY <3>5, <3>6, <3>7 DEF Phases
  <2>. QED BY <2>9, <2>10, <2>11 DEF Quiet
<1>. QED BY <1>3, <1>4, <1>5 DEF Emit, EmitStep, EmitReturns

LEMMA RegisterPhases ==
  ASSUME Undisturbed, NEW s \in Subscribers, Subscribe(s) \/ Deactivate(s)
  PROVE  Quiet'
<1>. USE DEF Undisturbed, PostingInv, QueueSound, DeliveryInv, DeliveriesTyped
<1>1. UNCHANGED <<adding, delivery, djobs, workVars, posts>>
  BY DEF Subscribe, Deactivate, worldVars
<1>2. \A r \in Subscribers : subscription[r] = "inactive" => subscription'[r] = "inactive"
  BY DEF Subscribe, Deactivate, SubscribersKnown
<1>3. \A d \in Deliveries : d[2] \in Subscribers
  BY DEF Deliveries
<1>4. \A d : Waiting(d)' = Waiting(d) /\ Working(d)' = Working(d)
  BY <1>1 DEF Waiting, Working, Current, workVars
<1>. QED BY <1>1, <1>2, <1>3, <1>4, PhasesStay DEF Quiet, HandsHold, ActiveHeld, workVars

LEMMA QuietStays ==
  ASSUME Undisturbed, [AnnouncementsNext]_announcementVars, faults' = 0
  PROVE  Quiet'
<1>. USE DEF Undisturbed
<1>1. ~Fault
  BY DEF Fault
<1>2. ASSUME NEW i \in DOMAIN djobs PROVE ~StallDispatch(i)
  BY <1>1, <1>2 DEF StallDispatch, Quiet, ActiveHeld
<1>3. CASE QueueNext
  <2>1. ASSUME NEW w \in Dispatchers, DispatchStep(w) PROVE Quiet'
    BY <2>1, ReadPhases, PostPhases, WritePhases, RequeuePhases, FinishPhases DEF DispatchStep
  <2>. QED BY <1>1, <1>2, <1>3, <2>1, StartPhases, RegisterPhases
           DEF QueueNext, ThrowInTry, FailDispatch, CrashDispatch
<1>4. CASE UNCHANGED dispatchVars
  <2>1. UNCHANGED <<subscription, adding, delivery, djobs, workVars, posts>>
    BY <1>4 DEF dispatchVars, emitVars, worldVars
  <2>2. \A d : Waiting(d)' = Waiting(d) /\ Working(d)' = Working(d)
    BY <2>1 DEF Waiting, Working, Current, workVars
  <2>. QED BY <2>1, <2>2, PhasesStay DEF Quiet, HandsHold, ActiveHeld, workVars
<1>5. ASSUME NEW n \in Notices, Emit(n) \/ EmitStep(n) \/ EmitThrows(n) PROVE Quiet'
  BY <1>1, <1>5, EmitPhases DEF EmitThrows
<1>. QED BY <1>3, <1>4, <1>5, DispatchSteps3

LEMMA SubscribersStep ==
  ASSUME PostingInv, SubscribersKnown, [AnnouncementsNext]_announcementVars
  PROVE  SubscribersKnown'
<1>. USE DEF PostingInv, QueueSound, DeliveryInv, DeliveriesTyped
<1>1. \A d \in Deliveries : d[2] \in Subscribers
  BY DEF Deliveries
<1>2. CASE QueueNext
  <2>1. ASSUME NEW d \in Deliveries, delivery'[d].status # "NONE" PROVE subscription[d[2]] # "none"
    <3>1. PICK n \in Notices, s \in Subscribers : d = <<n, s>>
      BY <2>1 DEF Deliveries
    <3>2. delivery[d].status # "NONE"
      BY <1>2, <2>1, <3>1, QueueWrites DEF NoJobYet
    <3>. QED BY <2>1, <3>2 DEF SubscribersKnown
  <2>2. /\ subscription' \in [Subscribers -> {"none", "active", "inactive"}]
        /\ \A s \in Subscribers : subscription[s] # "none" => subscription'[s] # "none"
    <3>1. CASE \E s \in Subscribers : Subscribe(s) \/ Deactivate(s)
      BY <3>1 DEF Subscribe, Deactivate, SubscribersKnown
    <3>2. CASE UNCHANGED subscription
      BY <3>2 DEF SubscribersKnown
    <3>. QED BY <1>2, <3>1, <3>2
             DEF QueueNext, DispatchStep, ReadSubscription, Post, Update, Catch, Requeue,
                 FinishDispatch, ThrowInTry, FailDispatch, CrashDispatch, StartDispatch,
                 StallDispatch, emitVars
  <2>3. matching' = matching
    BY <1>2 DEF QueueNext, DispatchStep, ReadSubscription, Post, Update, Catch, Requeue,
                FinishDispatch, ThrowInTry, FailDispatch, CrashDispatch, StartDispatch,
                StallDispatch, Subscribe, Deactivate, emitVars
  <2>4. \A n \in Notices : matching[n] \subseteq Subscribers
    BY DEF EmitsSound
  <2>. QED BY <1>1, <2>1, <2>2, <2>3, <2>4 DEF SubscribersKnown
<1>3. ASSUME NEW n \in Notices, Emit(n) \/ EmitStep(n) \/ EmitThrows(n) PROVE SubscribersKnown'
  <2>1. CASE Emit(n)
    BY <2>1 DEF Emit, Active, SubscribersKnown, EmitsSound
  <2>2. ASSUME NEW s \in Subscribers, InsertDelivery(n, s) PROVE SubscribersKnown'
    <3>1. /\ s \in matching[n] /\ UNCHANGED <<subscription, matching>>
          /\ \A d \in Deliveries : d # <<n, s>> => delivery'[d] = delivery[d]
      BY <2>2 DEF InsertDelivery
    <3>. QED BY <3>1 DEF SubscribersKnown
  <2>. QED BY <1>3, <2>1, <2>2
           DEF EmitStep, EmitThrows, AddDispatch, EmitReturns, SubscribersKnown
<1>4. CASE UNCHANGED dispatchVars
  BY <1>4 DEF dispatchVars, emitVars, SubscribersKnown
<1>. QED BY <1>2, <1>3, <1>4, DispatchSteps3

LEMMA PostsTyped ==
  ASSUME posts \in [Deliveries -> Nat], [AnnouncementsNext]_announcementVars
  PROVE  posts' \in [Deliveries -> Nat]
<1>1. ASSUME NEW w \in Dispatchers, Post(w) PROVE posts' \in [Deliveries -> Nat]
  <2>1. PICK d : d = Current(w)
    OBVIOUS
  <2>2. posts' = [posts EXCEPT ![d] = posts[d] + 1]
    BY <1>1, <2>1 DEF Post
  <2>3. d \in Deliveries => posts[d] + 1 \in Nat
    OBVIOUS
  <2>. QED BY <2>2, <2>3
<1>2. CASE UNCHANGED posts
  BY <1>2
<1>. QED BY <1>1, <1>2, DispatchSteps3
         DEF QueueNext, DispatchStep, ReadSubscription, Update, Catch, Requeue, FinishDispatch,
             ThrowInTry, FailDispatch, CrashDispatch, StartDispatch, StallDispatch, Subscribe,
             Deactivate, Emit, EmitStep, EmitThrows, InsertDelivery, AddDispatch, EmitReturns,
             dispatchVars, worldVars

\* Subscribers may refuse and posts get lost as often as they like: as long as nothing else
\* fails, a delivery is posted PostLimit times at most, and one that no job is left of is
\* delivered, out of posts, or its subscription inactive, with every post in its row; for any
\* number of dispatchers and any limit (downstream-webhooks.service.ts lines 57 to 117).
THEOREM QuietDelivered == AnnouncementsSpec => []QuietDelivery
<1>1. AnnouncementsInit => QuietInv
  <2>1. SUFFICES ASSUME AnnouncementsInit PROVE QuietInv
    OBVIOUS
  <2>2. PostingInv
    BY <2>1, InitPosting
  <2>. USE DEF AnnouncementsInit, DispatchInit
  <2>3. SubscribersKnown /\ posts \in [Deliveries -> Nat]
    BY <2>1 DEF SubscribersKnown
  <2>4. HandsHold /\ ActiveHeld
    BY <2>1 DEF HandsHold, ActiveHeld
  <2>5. ASSUME NEW d \in Deliveries PROVE Phases(d)
    <3>1. Waiting(d) = {} /\ Working(d) = {}
      BY <2>1 DEF Waiting, Working
    <3>2. Unserved(d) /\ posts[d] = 0 /\ delivery[d].attempts = 0
      BY <2>1 DEF Unserved
    <3>. QED BY <3>1, <3>2, DispatchAssumption DEF Phases
  <2>. QED BY <2>2, <2>3, <2>4, <2>5 DEF QuietInv, Quiet
<1>2. QuietInv /\ [AnnouncementsNext]_announcementVars => QuietInv'
  <2>1. SUFFICES ASSUME QuietInv, [AnnouncementsNext]_announcementVars PROVE QuietInv'
    OBVIOUS
  <2>2. PostingInv' /\ SubscribersKnown' /\ posts' \in [Deliveries -> Nat]
    BY <2>1, PostingStep, SubscribersStep, PostsTyped DEF QuietInv
  <2>3. ASSUME faults' = 0 PROVE Quiet'
    <3>1. faults = 0
      <4>1. faults \in Nat /\ faults' \in {faults, faults + 1}
        BY <2>1, AnyMoves DEF QuietInv, PostingInv, Moves
      <4>. QED BY <2>3, <4>1
    <3>. QED BY <2>1, <2>3, <3>1, QuietStays DEF QuietInv, Undisturbed
  <2>. QED BY <2>2, <2>3 DEF QuietInv
<1>3. QuietInv => QuietDelivery
  <2>1. SUFFICES ASSUME QuietInv, faults = 0, NEW d \in Deliveries
                 PROVE  /\ posts[d] <= PostLimit
                        /\ delivery[d].status # "NONE" /\ LiveJobs(d) = {} /\ adding[d[1]] # d[2]
                             => AtRest(d)
    BY DEF QuietDelivery, AtRest
  <2>2. Undisturbed /\ Phases(d)
    BY <2>1 DEF QuietInv, Quiet, Undisturbed
  <2>3. ASSUME LiveJobs(d) = {} PROVE Waiting(d) = {} /\ Working(d) = {}
    <3>1. Waiting(d) = {}
      BY <2>3 DEF Waiting, LiveJobs, Live
    <3>2. ASSUME NEW w \in Working(d) PROVE FALSE
      <4>1. w \in Dispatchers /\ dpc[w] # "idle" /\ Current(w) = d
        BY <3>2 DEF Working
      <4>2. djob[w] \in DOMAIN djobs /\ djobs[djob[w]].job.state = "active"
        BY <2>2, <4>1, InHandAlone
      <4>. QED BY <2>3, <4>1, <4>2 DEF LiveJobs, Live, Current
    <3>. QED BY <3>1, <3>2
  <2>. QED BY <2>2, <2>3 DEF Phases, Unserved
<1>. QED BY <1>1, <1>2, <1>3, PTL DEF AnnouncementsSpec
=============================================================================
