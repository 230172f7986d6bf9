------------------------------ MODULE MCAccess -------------------------------
(* Portal behind the Gates, the Gates under requests of their own, and Provider *)
(* for TLC.  The three have nothing but the clock in common, so one behaviour   *)
(* moves one of them.                                                           *)
EXTENDS Portal, Provider, Sequences, TLC

CONSTANT Visit   \* bound on the clock while the portal moves
ASSUME VisitAssumption == Visit \in Nat

VARIABLES part,        \* the one that moves
          arrivals,    \* the requests since the process started, and what became of them
          acted,       \* the version the tab's last action left
          overlapped   \* calls have overlapped since the tab last had none under way

historyVars == <<arrivals, acted, overlapped>>
allVars == <<part, now, bucket, portalVars, tokenVars, historyVars>>

MaxArrivals == 2 * MaxCount

AccessInit ==
  /\ part \in {"gate", "portal", "provider"}
  /\ now = 0
  /\ GatesInit /\ PortalInit /\ ProviderInit
  /\ arrivals = [a \in Addresses |-> << >>]
  /\ acted = 0 /\ overlapped = FALSE

Arrive(a) ==
  /\ Len(arrivals[a]) < MaxArrivals
  /\ Count(a)
  /\ arrivals' = [arrivals EXCEPT ![a] = Append(@, [at |-> now, admitted |-> Admitted(a)])]

GateNext ==
  /\ \/ \E a \in Addresses : Arrive(a) /\ UNCHANGED now
     \/ RestartApi /\ arrivals' = [a \in Addresses |-> << >>] /\ UNCHANGED now
     \/ Tick /\ UNCHANGED <<bucket, arrivals>>
  /\ UNCHANGED <<portalVars, tokenVars, acted, overlapped>>

UnderWay == {k \in Calls : ~Free(k)}

\* What the tab's calls have done, seen from one step.  A call left behind is one more.
Watched ==
  /\ acted' = IF /\ version' > version
                 /\ \/ \E k \in UnderWay : call[k].kind = "action" /\ ~call[k].answered
                    \/ Strays # {}
              THEN version' ELSE acted
  /\ overlapped' = \/ Cardinality(UnderWay') > 1 \/ Strays' # {}
                   \/ overlapped /\ (UnderWay \cup Strays # {} \/ UnderWay' = {})

PortalStep ==
  /\ \/ PortalNext
     \/ now < Visit /\ Tick /\ UNCHANGED <<bucket, portalVars>>
     \/ RestartApi /\ UNCHANGED <<now, portalVars>>
  /\ Watched
  /\ UNCHANGED <<tokenVars, arrivals>>

ProviderStep ==
  /\ ProviderNext \/ (Tick /\ UNCHANGED tokenVars)
  /\ UNCHANGED <<bucket, portalVars, historyVars>>

AccessNext ==
  /\ \/ part = "gate" /\ GateNext
     \/ part = "portal" /\ PortalStep
     \/ part = "provider" /\ ProviderStep
  /\ UNCHANGED part

Symmetric == Permutations(Calls) \cup Permutations(Callers)

AccessSpec == AccessInit /\ [][AccessNext]_allVars

-----------------------------------------------------------------------------
\* No stretch of time as long as the window lets more than twice the limit pass, however the
\* requests of an address fall around the end of a window.
AtMostTwiceTheLimit ==
  \A a \in Addresses : \A i \in DOMAIN arrivals[a] :
    LET start == arrivals[a][i].at
        passed == {j \in DOMAIN arrivals[a] : /\ arrivals[a][j].admitted
                                              /\ arrivals[a][j].at \in start..(start + Window - 1)}
    IN Cardinality(passed) <= 2 * Limit

\* Who keeps to the limit is never refused: before a request answered with 429, the same address
\* has sent as many requests as the limit allows within less than one window.
PatientNeverRefused ==
  \A a \in Addresses : \A i \in DOMAIN arrivals[a] :
    ~arrivals[a][i].admitted =>
      LET recent == {j \in 1..(i - 1) : arrivals[a][j].at > arrivals[a][i].at - Window}
      IN Cardinality(recent) >= Limit

\* A tab at rest that shows no error shows the cases as its last action left them, or later: an
\* action loads the dashboard again after it is done.  Only what overlaps may come back in any
\* order and leave an older dashboard on the screen, and a call that the tab lost or reloaded away
\* overlaps with all that the tab does until the API is done with it.
OwnActionShown ==
  UnderWay \cup Strays = {} /\ ~overlapped /\ ~error /\ token # NoToken => shown >= acted

\* The spinner turns only while a call is under way, whichever of several calls fails, is lost
\* or comes back first.
NeverStuckLoading == loading => UnderWay # {}
=============================================================================
