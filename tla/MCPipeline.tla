----------------------------- MODULE MCPipeline ------------------------------
(* A small instance of Pipeline for TLC: one payment, delivered again, another  *)
(* customer with an account next to its own, and a record of whether anything   *)
(* has failed, for what is promised only as long as nothing has.                *)
EXTENDS Pipeline

VARIABLE failed   \* a statement has thrown or a process has died

WatchedInit == PipelineInit /\ failed = FALSE

WatchedNext == \/ CalmNext /\ UNCHANGED failed
               \/ FaultNext /\ failed' = TRUE

WatchedSpec == WatchedInit /\ [][WatchedNext]_<<pipelineVars, failed>> /\ PipelineFairness

-----------------------------------------------------------------------------
\* Every customer owns one account.
TheOwner == CHOOSE f \in [Accounts -> Customers] :
              \A a, b \in Accounts : a # b => f[a] # f[b]

TheAccount == CHOOSE a \in Accounts : TRUE
TheRecipient == [t \in Transactions |-> TheAccount]
TheAmount == [t \in Transactions |-> 40000]
TheMatch == [t \in Transactions |-> Names]
TheTransaction == [e \in Events |-> CHOOSE t \in Transactions : TRUE]

\* The account that is paid is still to be opened, the other one has been in use for long.
TheAccountUnopened == [a \in Accounts |-> IF a = TheAccount THEN NoStatus ELSE "ACTIVE"]
TierOne == [c \in Customers |-> "TIER_1"]
OneName == [c \in Customers |-> CHOOSE n \in Names : TRUE]
OpenedAndClosed == {TheAccount} \X {"ACTIVE", "CLOSED"}
NoChange == {}

Signed == [algorithm |-> "hmacsha256", version |-> "1.0.0",
           signature |-> "computed", timestamp |-> "within"]
StaleOrForeign == {Signed, [Signed EXCEPT !.timestamp = "beyond"],
                   [Signed EXCEPT !.algorithm = "other"]}

-----------------------------------------------------------------------------
\* As long as nothing fails, an accepted webhook ends in a settled transaction, unless the locks
\* of its jobs expired too often.
AcceptedIsSettled ==
  \A e \in Events : LET t == TransactionOf[e] IN
    webhook[e] \in Accepted
      ~> \/ tx[t] \in Settled
         \/ "failed" \in {vjob[e].state, job[t].state}
         \/ failed
=============================================================================
