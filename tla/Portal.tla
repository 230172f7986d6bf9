------------------------------- MODULE Portal --------------------------------
(* The administrators' portal, App() in one browser tab, and the API behind the *)
(* Gates as far as the portal sees it.  No button waits for the call of another *)
(* one, so calls overlap and come back in any order.  The dashboard is reduced  *)
(* to the version of the cases it was read from.                                *)
EXTENDS Gates

CONSTANTS Calls,        \* as many calls as may be under way at once
          Tab,          \* the address the tab's requests come from
          MaxVersion    \* bound on the changes of the cases

ASSUME PortalAssumption == Tab \in Addresses /\ MaxVersion \in Nat

VARIABLES token,     \* kept in the browser's storage, so it outlives the page
          shown,     \* the dashboard on the screen, Nothing: none
          loading, error,
          call,      \* what is under way, with the token of the page that started it
          stray,     \* actions the tab has given up on and the API has not: their tokens
          version    \* the cases as the API has them

portalVars == <<token, shown, loading, error, call, stray, version>>

Nothing == -1
NoCall == [kind |-> "none", answered |-> FALSE, ok |-> FALSE, token |-> NoToken, result |-> 0]
Sent(kind, tok) == [NoCall EXCEPT !.kind = kind, !.token = tok]

PortalInit ==
  /\ token = NoToken /\ shown = Nothing
  /\ loading = FALSE /\ error = FALSE
  /\ call = [k \in Calls |-> NoCall]
  /\ stray = [k \in Calls |-> NoToken]
  /\ version = 0

Strays == {k \in Calls : stray[k] # NoToken}
Free(k) == call[k].kind = "none"
Answered(k, kind) == call[k].kind = kind /\ call[k].answered

-----------------------------------------------------------------------------
\* login(): the form is there as long as there is no token.
SubmitLogin(k) ==
  /\ Free(k) /\ token = NoToken
  /\ call' = [call EXCEPT ![k] = Sent("login", NoToken)]
  /\ error' = FALSE
  /\ UNCHANGED <<now, bucket, token, shown, loading, stray, version>>

\* loadDashboard() from slot k, with the token of the page it belongs to.
Load(k, tok) ==
  /\ call' = [call EXCEPT ![k] = Sent("load", tok)]
  /\ loading' = TRUE /\ error' = FALSE

\* The token is stored, and the effect that depends on it loads the dashboard if it is new.
LoggedIn(k) ==
  LET new == call[k].result
  IN /\ Answered(k, "login") /\ call[k].ok
     /\ token' = new
     /\ IF new # token THEN Load(k, new)
        ELSE call' = [call EXCEPT ![k] = NoCall] /\ UNCHANGED <<loading, error>>
     /\ UNCHANGED <<now, bucket, shown, stray, version>>

Refresh(k) ==
  /\ Free(k) /\ token # NoToken
  /\ Load(k, token)
  /\ UNCHANGED <<now, bucket, token, shown, stray, version>>

\* A dashboard is shown whenever it comes, after a logout as well.
Loaded(k) ==
  /\ Answered(k, "load") /\ call[k].ok
  /\ shown' = call[k].result
  /\ loading' = FALSE
  /\ call' = [call EXCEPT ![k] = NoCall]
  /\ UNCHANGED <<now, bucket, token, error, stray, version>>

\* runCaseAction(): the buttons are there for every case of a dashboard, whatever its status.
Act(k) ==
  /\ Free(k) /\ token # NoToken /\ shown # Nothing
  /\ call' = [call EXCEPT ![k] = Sent("action", token)]
  /\ loading' = TRUE /\ error' = FALSE
  /\ UNCHANGED <<now, bucket, token, shown, stray, version>>

\* Slip: the dashboard not loaded again.
ActedOnly(k) ==
  /\ Answered(k, "action") /\ call[k].ok
  /\ call' = [call EXCEPT ![k] = NoCall] /\ loading' = FALSE
  /\ UNCHANGED <<now, bucket, token, shown, error, stray, version>>

\* The action is done: the dashboard is loaded, with the token the action had.
Acted(k) ==
  /\ Answered(k, "action") /\ call[k].ok
  /\ Load(k, call[k].token)
  /\ UNCHANGED <<now, bucket, token, shown, stray, version>>

\* Slip: no finally.
RefusedLoading(k) ==
  /\ call[k].answered /\ ~call[k].ok
  /\ error' = TRUE
  /\ call' = [call EXCEPT ![k] = NoCall]
  /\ UNCHANGED <<now, bucket, token, shown, loading, stray, version>>

\* A call throws: the message is shown, and the token stays, an expired one included.
Refused(k) ==
  /\ call[k].answered /\ ~call[k].ok
  /\ error' = TRUE
  /\ loading' = IF call[k].kind = "login" THEN loading ELSE FALSE
  /\ call' = [call EXCEPT ![k] = NoCall]
  /\ UNCHANGED <<now, bucket, token, shown, stray, version>>

\* logout() leaves the calls under way alone.
Logout ==
  /\ token # NoToken
  /\ token' = NoToken /\ shown' = Nothing
  /\ UNCHANGED <<now, bucket, loading, error, call, stray, version>>

\* The API may have some of these calls, or still get them, though the tab will see no answer.  An
\* action may then change its case; all that a login or a load does is count.  (At most one action
\* for each slot: Calls bounds those left behind as well.)
LeaveBehind(calls) ==
  \E left \in SUBSET {k \in calls : /\ call[k].kind = "action" /\ ~call[k].answered
                                    /\ stray[k] = NoToken} :
    stray' = [k \in Calls |-> IF k \in left THEN call[k].token ELSE stray[k]]

\* The page is opened again: only the token survives, and the dashboard is loaded with it.
Reload(k) ==
  /\ shown' = Nothing /\ error' = FALSE
  /\ loading' = (token # NoToken)
  /\ call' = [j \in Calls |-> IF j = k /\ token # NoToken THEN Sent("load", token) ELSE NoCall]
  /\ LeaveBehind(Calls)
  /\ UNCHANGED <<now, bucket, token, version>>

-----------------------------------------------------------------------------
Reply(k, ok, result) ==
  call' = [call EXCEPT ![k].answered = TRUE, ![k].ok = ok, ![k].result = result]

\* A call is answered, or is not: wrong credentials, a failing database, or resolveCase failing
\* after it has changed the case.
Served(k) ==
  \/ Reply(k, FALSE, 0) /\ UNCHANGED version
  \/ /\ call[k].kind = "login" /\ Reply(k, TRUE, Login) /\ UNCHANGED version
  \/ /\ call[k].kind = "load" /\ Accepts(call[k].token)
     /\ Reply(k, TRUE, version) /\ UNCHANGED version
  \/ /\ call[k].kind = "action" /\ Accepts(call[k].token) /\ version < MaxVersion
     /\ version' = version + 1
     /\ \E ok \in BOOLEAN : Reply(k, ok, version')

\* The API takes a call of the tab through the gates.
Serve(k) ==
  /\ ~Free(k) /\ ~call[k].answered
  /\ Count(Tab)
  /\ IF Admitted(Tab) THEN Served(k) ELSE Reply(k, FALSE, 0) /\ UNCHANGED version
  /\ UNCHANGED <<now, token, shown, loading, error, stray>>

\* The API is done with an action that nobody waits for any more, or never gets it.
ServeStray(k) ==
  /\ stray[k] # NoToken
  /\ \/ UNCHANGED <<bucket, version>>
     \/ Count(Tab) /\ UNCHANGED version
     \/ /\ Count(Tab) /\ Admitted(Tab)
        /\ Accepts(stray[k]) /\ version < MaxVersion /\ version' = version + 1
  /\ stray' = [stray EXCEPT ![k] = NoToken]
  /\ UNCHANGED <<now, token, shown, loading, error, call>>

\* Another request from the tab's address: a lost login or load, or another tab's.
OtherRequest == /\ Count(Tab)
                /\ UNCHANGED <<now, portalVars>>

\* The connection breaks: before the API has the call or while it carries it out, so that it may
\* still do so, or before the tab has its answer.
Lose(k) ==
  /\ ~Free(k)
  /\ Reply(k, FALSE, 0)
  /\ LeaveBehind({k})
  /\ UNCHANGED <<now, bucket, token, shown, loading, error, version>>

\* The pipeline, or another administrator, changes the cases.
Change == /\ version < MaxVersion /\ version' = version + 1
          /\ UNCHANGED <<now, bucket, token, shown, loading, error, call, stray>>

PortalNext ==
  \/ \E k \in Calls : \/ SubmitLogin(k) \/ LoggedIn(k) \/ Refresh(k) \/ Loaded(k) \/ Act(k)
                      \/ Acted(k) \/ Refused(k) \/ Reload(k) \/ Serve(k) \/ Lose(k)
                      \/ ServeStray(k)
  \/ Logout
  \/ OtherRequest
  \/ Change
=============================================================================
