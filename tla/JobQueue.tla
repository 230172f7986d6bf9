------------------------------ MODULE JobQueue -------------------------------
(* One BullMQ job as the queues of this backend configure it: how often it is   *)
(* handed to a worker and when it is given up.  The library itself is not part  *)
(* of the repository; this is the contract its callers rely on.  Backoff only   *)
(* delays a job, so a job that waits for its retry is a waiting job.            *)
EXTENDS Integers

CONSTANTS MaxAttempts,   \* defaultJobOptions.attempts
          MaxStalls      \* how often a job whose worker vanished is handed out again

ASSUME MaxAttemptsAssumption == MaxAttempts \in Nat \ {0}
ASSUME MaxStallsAssumption == MaxStalls \in Nat

JobStates == {"none", "waiting", "active", "completed", "failed"}

Jobs == [state : JobStates, failures : 0..MaxAttempts, stalls : 0..(MaxStalls + 1)]

NoJob == [state |-> "none", failures |-> 0, stalls |-> 0]

\* queue.add(...)
Added == [state |-> "waiting", failures |-> 0, stalls |-> 0]

\* A worker takes the job and holds its lock.
Taken(j) == [j EXCEPT !.state = "active"]

\* The processor returned.
Completed(j) == [j EXCEPT !.state = "completed"]

\* Slip: the attempts not counted.
FailedForever(j) == [j EXCEPT !.state = "waiting"]

\* The processor threw: back to the queue until all attempts are used.
Failed(j) == [j EXCEPT !.failures = j.failures + 1,
                       !.state = IF j.failures + 1 < MaxAttempts THEN "waiting" ELSE "failed"]

\* The lock expired, because its worker died or was held up for too long: the job is handed
\* out again up to MaxStalls times, and no attempt is counted.
Stalled(j) == [j EXCEPT !.stalls = j.stalls + 1,
                        !.state = IF j.stalls + 1 > MaxStalls THEN "failed" ELSE "waiting"]
=============================================================================
