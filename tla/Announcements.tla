---------------------------- MODULE Announcements ----------------------------
(* An administrator's keyed request, and what subscribers hear of it: the       *)
(* handler inside the idempotency interceptor ends in emit(), as resolveCase    *)
(* does, and the dispatch queue takes it from there.                            *)
EXTENDS Idempotency, Dispatch

\* Each execution of the handler emits one notice.
ASSUME AnnouncementsAssumption == Notices = Calls

announcementVars == <<callVars, dispatchVars>>

AnnouncementsInit == CallsInit /\ DispatchInit

\* Inside the handler of q.
Announce(q) == /\ cpc[q] = "handle"
               /\ Emit(q) \/ EmitStep(q)
               /\ UNCHANGED callVars

\* The handler returns when emit() has; it throws when emit() throws.
HandlerReturns(q) == epc[q] = "returned" /\ Handle(q) /\ UNCHANGED dispatchVars
HandlerThrows(q) == EmitThrows(q) /\ AbortCall(q)

\* A call ends early elsewhere; a handler may do so before it emits, and when it has emitted.
CallThrows(q) == epc[q] # "loop" /\ AbortCall(q) /\ UNCHANGED dispatchVars

AnnouncementsNext ==
  \/ \E q \in Calls : \/ Announce(q) \/ HandlerReturns(q) \/ HandlerThrows(q) \/ CallThrows(q)
                      \/ /\ FindRecord(q) \/ InsertRecord(q) \/ Complete(q)
                         /\ UNCHANGED dispatchVars
  \/ \E q \in Calls, k \in Keys, b \in Bodies : Call(q, k, b) /\ UNCHANGED dispatchVars
  \/ \E k \in Keys : Expire(k) /\ UNCHANGED dispatchVars
  \/ QueueNext /\ UNCHANGED callVars

AnnouncementsSpec == AnnouncementsInit /\ [][AnnouncementsNext]_announcementVars

-----------------------------------------------------------------------------
\* Nobody is answered before the subscribers are served: behind every response, replayed ones
\* included, stands one execution that has a row and a job for each subscriber it found.
AnsweredIsAnnounced ==
  \A q \in Calls : cpc[q] = "answered" =>
    LET p == answer[q]
    IN /\ epc[p] = "returned"
       /\ \A s \in matching[p] :
            /\ delivery[<<p, s>>].status # "NONE"
            /\ \E i \in DOMAIN djobs : djobs[i].of = <<p, s>>
=============================================================================
