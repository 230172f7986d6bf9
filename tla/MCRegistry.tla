----------------------------- MODULE MCRegistry ------------------------------
(* Small instances of Registry for TLC: one customer and one account, renamed,  *)
(* raised, opened and closed by two clients.                                    *)
EXTENDS Registry

TheOwner == [a \in Accounts |-> CHOOSE c \in Customers : TRUE]
AccountsUnopened == [a \in Accounts |-> NoStatus]
TierOne == [c \in Customers |-> "TIER_1"]
NamedMaiden == [c \in Customers |-> "maiden"]
AnyStatus == Accounts \X {"ACTIVE", "CLOSED", "RESTRICTED"}
AnyTier == Customers \X {"TIER_1", "TIER_2"}
AnyName == Customers \X Names

VARIABLE upset   \* two requests have overlapped, or one has not come to its end

\* Registry, with a record of what may spoil the histories.
WatchedInit == RegistryInit /\ upset = FALSE

WatchedNext ==
  /\ RegistryNext
  /\ upset' = (\/ upset
               \/ \E k \in Clients : Abort(k)
               \/ \E j, k \in Clients : j # k /\ step'[j] # "idle" /\ step'[k] # "idle")

WatchedSpec == WatchedInit /\ [][WatchedNext]_<<registryVars, upset>>

\* As long as requests come one after the other and none fails, the history tables tell the
\* whole story whenever no handler is at work.
HistoryReplays ==
  ~upset /\ (\A k \in Clients : step[k] = "idle") => \A c \in Customers : HistoryTells(c)
=============================================================================
