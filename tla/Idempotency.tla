---------------------------- MODULE Idempotency -----------------------------
(* IdempotencyInterceptor around a mutating handler: the look-up of the key,    *)
(* the insert of its record, the handler, and the stored response.  A call is   *)
(* one HTTP request; a client that repeats a request makes another call.  The   *)
(* key of a call stands for the header and the scope (method and path), which   *)
(* the look-up and the unique index always take together.                       *)

CONSTANTS Calls,    \* requests
          Keys,     \* idempotency keys, each with its scope
          Bodies,   \* request bodies, as their hashes tell them apart
          NoCall,   \* no response
          NoRow     \* no record under a key

\* response is the call whose execution computed it, or NoCall: responseBody is null.
Rows == [body : Bodies, response : Calls \cup {NoCall}, expired : BOOLEAN]

ASSUME IdempotencyAssumption == /\ NoCall \notin Calls /\ NoRow \notin Rows
                                /\ Keys # {} /\ Bodies # {}

VARIABLES record,   \* idempotency_records: one row per key
          cpc,      \* the next statement of a call, or how it ended
          key, body,
          executed, \* the calls whose handler was entered
          answer    \* whose execution's response a call was answered with

callVars == <<record, cpc, key, body, executed, answer>>

Ends == {"answered", "conflict", "failed"}
CallSteps == {"find", "insert", "handle", "complete"}

CallsTypeOK ==
  /\ record \in [Keys -> Rows \cup {NoRow}]
  /\ cpc \in [Calls -> {"unsent"} \cup CallSteps \cup Ends]
  /\ key \in [Calls -> Keys]
  /\ body \in [Calls -> Bodies]
  /\ executed \subseteq Calls
  /\ answer \in [Calls -> Calls \cup {NoCall}]

CallsInit ==
  /\ record = [k \in Keys |-> NoRow]
  /\ cpc = [q \in Calls |-> "unsent"]
  /\ key = [q \in Calls |-> CHOOSE k \in Keys : TRUE]
  /\ body = [q \in Calls |-> CHOOSE b \in Bodies : TRUE]
  /\ executed = {}
  /\ answer = [q \in Calls |-> NoCall]

-----------------------------------------------------------------------------
CGo(q, here, there) == cpc[q] = here /\ cpc' = [cpc EXCEPT ![q] = there]

\* A request with a key arrives; one without goes straight to its handler.
Call(q, k, b) ==
  /\ CGo(q, "unsent", "find")
  /\ key' = [key EXCEPT ![q] = k]
  /\ body' = [body EXCEPT ![q] = b]
  /\ UNCHANGED <<record, executed, answer>>

\* The row the look-up returns: an expired one does not count.
Existing(k) == IF record[k] # NoRow /\ ~record[k].expired THEN record[k] ELSE NoRow

\* Slip: the hashes not compared.
MatchesAnyBody(q, row) == TRUE

Matches(q, row) == row.body = body[q]

Replays(q, row) == row # NoRow /\ Matches(q, row) /\ row.response # NoCall

\* start(): a response that is stored is replayed; another body, or an execution that has
\* not stored its response, is a conflict.
FindRecord(q) ==
  /\ cpc[q] = "find"
  /\ LET row == Existing(key[q])
     IN /\ cpc' = [cpc EXCEPT ![q] = IF row = NoRow THEN "insert"
                                     ELSE IF Replays(q, row) THEN "answered" ELSE "conflict"]
        /\ answer' = IF Replays(q, row) THEN [answer EXCEPT ![q] = row.response] ELSE answer
  /\ UNCHANGED <<record, key, body, executed>>

Fresh(q) == [body |-> body[q], response |-> NoCall, expired |-> FALSE]

\* Slip: an expired row replaced.
InsertRecordOverExpired(q) ==
  /\ cpc[q] = "insert"
  /\ IF Existing(key[q]) = NoRow
     THEN /\ cpc' = [cpc EXCEPT ![q] = "handle"]
          /\ record' = [record EXCEPT ![key[q]] = Fresh(q)]
          /\ executed' = executed \cup {q}
     ELSE cpc' = [cpc EXCEPT ![q] = "failed"] /\ UNCHANGED <<record, executed>>
  /\ UNCHANGED <<key, body, answer>>

\* The unique index refuses a second row under one key, be the first one new or expired; the
\* insert then throws, and the request is answered with an error.
InsertRecord(q) ==
  /\ cpc[q] = "insert"
  /\ IF record[key[q]] = NoRow
     THEN /\ cpc' = [cpc EXCEPT ![q] = "handle"]
          /\ record' = [record EXCEPT ![key[q]] = Fresh(q)]
          /\ executed' = executed \cup {q}
     ELSE cpc' = [cpc EXCEPT ![q] = "failed"] /\ UNCHANGED <<record, executed>>
  /\ UNCHANGED <<key, body, answer>>

\* The handler returns.
Handle(q) ==
  /\ CGo(q, "handle", "complete")
  /\ UNCHANGED <<record, key, body, executed, answer>>

\* complete(), and the response goes out.
Complete(q) ==
  /\ CGo(q, "complete", "answered")
  /\ record' = [record EXCEPT ![key[q]].response = q]
  /\ answer' = [answer EXCEPT ![q] = q]
  /\ UNCHANGED <<key, body, executed>>

\* A statement, the validation of the body or the handler throws, or the process dies: the
\* record stays as it is.
AbortCall(q) ==
  /\ cpc[q] \in CallSteps
  /\ cpc' = [cpc EXCEPT ![q] = "failed"]
  /\ UNCHANGED <<record, key, body, executed, answer>>

\* A day has passed since the record was made; no handler runs for a day.
Expire(k) ==
  /\ record[k] # NoRow /\ ~record[k].expired
  /\ \A q \in Calls : key[q] = k => cpc[q] \notin {"handle", "complete"}
  /\ record' = [record EXCEPT ![k].expired = TRUE]
  /\ UNCHANGED <<cpc, key, body, executed, answer>>

-----------------------------------------------------------------------------
CallsNext ==
  \/ \E q \in Calls : FindRecord(q) \/ InsertRecord(q) \/ Handle(q) \/ Complete(q) \/ AbortCall(q)
  \/ \E q \in Calls, k \in Keys, b \in Bodies : Call(q, k, b)
  \/ \E k \in Keys : Expire(k)

CallsSpec == CallsInit /\ [][CallsNext]_callVars

-----------------------------------------------------------------------------
\* One key, one execution, for good: neither requests that look the key up at the same time
\* nor the expiry of its record lets the handler run again.
ExecutedOnce ==
  \A p, q \in executed : key[p] = key[q] => p = q

\* Whoever is answered under a key gets the response of the one execution of this key, which
\* was asked for with the same body, and which stays stored for the next one who asks.
AnswersAgree ==
  \A q \in Calls : cpc[q] = "answered" =>
    /\ answer[q] \in executed
    /\ key[answer[q]] = key[q] /\ body[answer[q]] = body[q]
    /\ record[key[q]].response = answer[q]
=============================================================================
