--------------------------- MODULE SettlementProofs ----------------------------
(* One payment, one credit: Reconciliation implements Settlement, for any        *)
(* workers, requests, payments and directory.  A payment keeps its promise as    *)
(* long as its job is not executed again, or the directory rows it is decided    *)
(* from stay as they are while it is under way.                                  *)
EXTENDS MCSettlement, ReconciliationProofs, FiniteSetTheorems

-----------------------------------------------------------------------------
(* Sums.  What MapThenSumSet computes is defined by recursion over the subsets  *)
(* of a set; each fact about it is proved of a least subset that lacks it.      *)

Total(f, S) == MapThenSumSet(LAMBDA i : f[i], S)

Pick(s) == CHOOSE x \in s : TRUE

IsTable(g, f, S) ==
  g = [s \in SUBSET S |-> IF s = {} THEN 0 ELSE f[Pick(s)] + g[s \ {Pick(s)}]]

\* A sum is the value at S of a table of sums of the subsets of S.
LEMMA TotalIsTabled ==
  ASSUME NEW f, NEW S
  PROVE  Total(f, S) = (CHOOSE g : IsTable(g, f, S))[S]
  BY DEF Total, MapThenSumSet, MapThenFoldSet, IsTable, Pick

\* Among subsets of a finite set there is a least one.
LEMMA MinimalSubset ==
  ASSUME NEW S, IsFiniteSet(S), NEW T \in SUBSET (SUBSET S), T # {}
  PROVE  \E m \in T : \A s \in T : s \subseteq m => s = m
<1>1. FiniteSubsetsOf(S) = SUBSET S
  BY FS_FiniteSubsetsOfFinite
<1>2. IsWellFoundedOn(StrictSubsetOrdering(S), FiniteSubsetsOf(S))
  BY FS_StrictSubsetOrderingWellFounded
<1>3. PICK m \in T : \A s \in T : ~(<<s, m>> \in StrictSubsetOrdering(S))
  BY <1>1, <1>2, WFMin
<1>. QED  BY <1>3 DEF StrictSubsetOrdering

\* Two tables agree where both are defined.
LEMMA TablesAgree ==
  ASSUME NEW f, NEW g, NEW h, NEW A, NEW B, IsTable(g, f, A), IsTable(h, f, B),
         NEW S, IsFiniteSet(S), S \subseteq A, S \subseteq B
  PROVE  g[S] = h[S]
<1>1. SUFFICES ASSUME g[S] # h[S] PROVE FALSE
  OBVIOUS
<1>. DEFINE T == {s \in SUBSET S : g[s] # h[s]}
<1>2. T # {} /\ T \in SUBSET (SUBSET S)
  BY <1>1
<1>3. PICK m \in T : \A s \in T : s \subseteq m => s = m
  <2>. HIDE DEF T
  <2>. QED  BY <1>2, MinimalSubset
<1>4. m \in SUBSET A /\ m \in SUBSET B
  BY <1>3
<1>5. /\ g[m] = IF m = {} THEN 0 ELSE f[Pick(m)] + g[m \ {Pick(m)}]
      /\ h[m] = IF m = {} THEN 0 ELSE f[Pick(m)] + h[m \ {Pick(m)}]
  BY <1>4 DEF IsTable
<1>6. CASE m = {}
  BY <1>3, <1>5, <1>6
<1>7. CASE m # {}
  <2>1. Pick(m) \in m
    BY <1>7 DEF Pick
  <2>2. g[m \ {Pick(m)}] = h[m \ {Pick(m)}]
    BY <1>3, <2>1
  <2>. QED  BY <1>3, <1>5, <1>7, <2>2
<1>. QED  BY <1>6, <1>7

\* Such a table exists: build it from those of the smaller subsets.
LEMMA TableExists ==
  ASSUME NEW f, NEW S, IsFiniteSet(S)
  PROVE  IsTable(CHOOSE g : IsTable(g, f, S), f, S)
<1>. DEFINE Tabled(s) == IsTable(CHOOSE g : IsTable(g, f, s), f, s)
            T == {s \in SUBSET S : ~Tabled(s)}
<1>1. SUFFICES ASSUME ~Tabled(S) PROVE FALSE
  OBVIOUS
<1>2. T # {} /\ T \in SUBSET (SUBSET S)
  BY <1>1
<1>3. PICK m \in T : \A s \in T : s \subseteq m => s = m
  <2>. HIDE DEF T
  <2>. QED  BY <1>2, MinimalSubset
<1>4. \A s \in SUBSET m : s # m => Tabled(s)
  BY <1>3
<1>. DEFINE Value(s) == IF s = {} THEN 0 ELSE f[Pick(s)] + Total(f, s \ {Pick(s)})
            g == [s \in SUBSET m |-> Value(s)]
<1>5. \A s \in SUBSET m : s # m => Total(f, s) = Value(s)
  <2>. SUFFICES ASSUME NEW s \in SUBSET m, s # m PROVE Total(f, s) = Value(s)
    OBVIOUS
  <2>. DEFINE h == CHOOSE h : IsTable(h, f, s)
              r == s \ {Pick(s)}
              k == CHOOSE k : IsTable(k, f, r)
  <2>1. IsTable(h, f, s) /\ Total(f, s) = h[s] /\ Total(f, r) = k[r]
    BY <1>4, TotalIsTabled
  <2>2. h[s] = IF s = {} THEN 0 ELSE f[Pick(s)] + h[r]
    BY <2>1 DEF IsTable
  <2>3. r \in SUBSET m /\ r # m /\ r \subseteq s
    OBVIOUS
  <2>4. IsTable(k, f, r)
    BY <1>4, <2>3
  <2>5. IsFiniteSet(r)
    BY <2>3, <1>3, FS_Subset
  <2>6. h[r] = k[r]
    <3>. HIDE DEF h, k, r
    <3>. QED  BY <2>1, <2>3, <2>4, <2>5, TablesAgree
  <2>. QED  BY <2>1, <2>2, <2>6
<1>6. IsTable(g, f, m)
  <2>1. \A s \in SUBSET m : s # {} => s \ {Pick(s)} \in SUBSET m /\ s \ {Pick(s)} # m
    BY DEF Pick
  <2>2. \A s \in SUBSET m : s # {} => g[s \ {Pick(s)}] = Total(f, s \ {Pick(s)})
    BY <1>5, <2>1
  <2>3. \A s \in SUBSET m : Value(s) = IF s = {} THEN 0 ELSE f[Pick(s)] + g[s \ {Pick(s)}]
    BY <2>2
  <2>. QED  BY <2>3 DEF IsTable
<1>7. Tabled(m)
  BY <1>6
<1>. QED  BY <1>3, <1>7

\* The equation the sum satisfies, whatever element is picked.
LEMMA TotalEquation ==
  ASSUME NEW f, NEW S, IsFiniteSet(S)
  PROVE  Total(f, S) = IF S = {} THEN 0 ELSE f[Pick(S)] + Total(f, S \ {Pick(S)})
<1>. DEFINE g == CHOOSE g : IsTable(g, f, S)
            R == S \ {Pick(S)}
            h == CHOOSE h : IsTable(h, f, R)
<1>1. IsFiniteSet(R)
  BY FS_Subset
<1>2. IsTable(g, f, S) /\ IsTable(h, f, R) /\ Total(f, S) = g[S] /\ Total(f, R) = h[R]
  BY <1>1, TableExists, TotalIsTabled
<1>3. g[S] = IF S = {} THEN 0 ELSE f[Pick(S)] + g[R]
  BY <1>2 DEF IsTable
<1>4. g[R] = h[R]
  <2>. HIDE DEF g, h
  <2>. QED  BY <1>1, <1>2, TablesAgree
<1>. QED  BY <1>2, <1>3, <1>4

\* A sum of natural numbers is one.
LEMMA TotalType ==
  ASSUME NEW f, NEW S, IsFiniteSet(S), \A x \in S : f[x] \in Nat
  PROVE  Total(f, S) \in Nat
<1>. DEFINE T == {s \in SUBSET S : Total(f, s) \notin Nat}
<1>. SUFFICES ASSUME T # {} PROVE FALSE
  OBVIOUS
<1>1. T # {} /\ T \in SUBSET (SUBSET S)
  OBVIOUS
<1>2. PICK m \in T : \A s \in T : s \subseteq m => s = m
  <2>. HIDE DEF T
  <2>. QED  BY <1>1, MinimalSubset
<1>3. IsFiniteSet(m)
  BY <1>2, FS_Subset
<1>4. m # {} /\ Pick(m) \in m
  <2>1. Total(f, {}) = 0
    BY FS_EmptySet, TotalEquation
  <2>2. Total(f, m) \notin Nat /\ 0 \in Nat
    BY <1>2
  <2>3. m # {}
    BY <2>1, <2>2
  <2>. QED  BY <2>3 DEF Pick
<1>5. Total(f, m \ {Pick(m)}) \in Nat
  BY <1>2, <1>4
<1>6. Total(f, m) \in Nat
  BY <1>2, <1>3, <1>4, <1>5, TotalEquation
<1>. QED  BY <1>2, <1>6

\* Any element may be taken out first.
LEMMA TotalRemove ==
  ASSUME NEW f, NEW S, IsFiniteSet(S), \A x \in S : f[x] \in Nat, NEW e \in S
  PROVE  Total(f, S) = f[e] + Total(f, S \ {e})
<1>. DEFINE Wrong(s) == \E x \in s : Total(f, s) # f[x] + Total(f, s \ {x})
            T == {s \in SUBSET S : Wrong(s)}
<1>. SUFFICES ASSUME T # {} PROVE FALSE
  OBVIOUS
<1>1. T # {} /\ T \in SUBSET (SUBSET S)
  OBVIOUS
<1>2. PICK m \in T : \A s \in T : s \subseteq m => s = m
  <2>. HIDE DEF T
  <2>. QED  BY <1>1, MinimalSubset
<1>3. PICK x \in m : Total(f, m) # f[x] + Total(f, m \ {x})
  BY <1>2
<1>. DEFINE p == Pick(m)
<1>4. p \in m
  BY <1>3 DEF Pick
<1>. HIDE DEF p
<1>5. IsFiniteSet(m) /\ IsFiniteSet(m \ {p}) /\ IsFiniteSet((m \ {p}) \ {x})
  BY <1>2, FS_Subset
<1>6. Total(f, m) = f[p] + Total(f, m \ {p})
  BY <1>3, <1>5, TotalEquation DEF p
<1>7. x # p
  BY <1>3, <1>6
<1>8. /\ Total(f, m \ {p}) = f[x] + Total(f, (m \ {p}) \ {x})
      /\ Total(f, m \ {x}) = f[p] + Total(f, (m \ {x}) \ {p})
  <2>1. \A s \in SUBSET m : s # m => ~Wrong(s)
    BY <1>2
  <2>2. /\ m \ {p} \in SUBSET m /\ m \ {p} # m /\ x \in m \ {p}
        /\ m \ {x} \in SUBSET m /\ m \ {x} # m /\ p \in m \ {x}
    BY <1>3, <1>4, <1>7
  <2>3. ~Wrong(m \ {p}) /\ ~Wrong(m \ {x})
    <3>. HIDE DEF Wrong
    <3>. QED  BY <2>1, <2>2
  <2>. QED  BY <2>2, <2>3
<1>9. (m \ {x}) \ {p} = (m \ {p}) \ {x}
  OBVIOUS
<1>10. f[p] \in Nat /\ f[x] \in Nat /\ Total(f, (m \ {p}) \ {x}) \in Nat
  BY <1>2, <1>3, <1>4, <1>5, TotalType
<1>11. \A a, b, c \in Nat : a + (b + c) = b + (a + c)
  OBVIOUS
<1>12. Total(f, m) = f[p] + (f[x] + Total(f, (m \ {p}) \ {x}))
  BY <1>6, <1>8
<1>13. Total(f, m \ {x}) = f[p] + Total(f, (m \ {p}) \ {x})
  BY <1>8, <1>9
<1>14. Total(f, m) = f[x] + Total(f, m \ {x})
  BY <1>10, <1>11, <1>12, <1>13
<1>. QED  BY <1>3, <1>14

\* Only the values at the members count.
LEMMA TotalExtensional ==
  ASSUME NEW f, NEW g, NEW S, IsFiniteSet(S), \A x \in S : f[x] = g[x]
  PROVE  Total(f, S) = Total(g, S)
<1>. DEFINE T == {s \in SUBSET S : Total(f, s) # Total(g, s)}
<1>. SUFFICES ASSUME T # {} PROVE FALSE
  OBVIOUS
<1>1. T # {} /\ T \in SUBSET (SUBSET S)
  OBVIOUS
<1>2. PICK m \in T : \A s \in T : s \subseteq m => s = m
  <2>. HIDE DEF T
  <2>. QED  BY <1>1, MinimalSubset
<1>3. IsFiniteSet(m)
  BY <1>2, FS_Subset
<1>4. m # {} /\ Pick(m) \in m
  BY <1>2, <1>3, TotalEquation DEF Pick
<1>5. Total(f, m \ {Pick(m)}) = Total(g, m \ {Pick(m)})
  BY <1>2, <1>4
<1>6. Total(f, m) = Total(g, m)
  BY <1>2, <1>3, <1>4, <1>5, TotalEquation
<1>. QED  BY <1>2, <1>6
-----------------------------------------------------------------------------
(* The invariant.  It speaks of each payment by itself; only what is always      *)
(* true of all of them is shared.                                               *)

Reading == {"account", "customer", "history", "decide"}
Acting == {"credit", "case", "settle", "event", "emit", "finish"}

\* Nothing has been done about t, and no worker is at it.
Untouched(t) == /\ decision[t] = "NONE" /\ caseStatus[t] = "NONE"
                /\ \A i \in DOMAIN ledger : ledger[i].transaction # t
                /\ \A w \in Workers : ~Executing(w, t)

NotBegun(t) == job[t].state = "none" \/ (job[t].state = "waiting" /\ Fresh(job[t]))

\* What holds of every payment.
RowSound(t) ==
  /\ tx[t] # "DUPLICATE"
  /\ NotBegun(t) => Untouched(t)
  /\ payee[t] \in {NoCustomer, OwnerOf[Recipient[t]]}
  /\ upset[t] \in SUBSET {"again", "moved"}
  /\ job[t].state = "none" => upset[t] = {}

RowsSound == RequestsSound /\ \A t \in Transactions : RowSound(t)

\* Every credit has its ground: the decision, or the case.
EntrySound(e) ==
  \/ e.kind = "ledger" /\ decision[e.transaction] = "AUTO_RECONCILED"
  \/ e.kind = "manual" /\ caseStatus[e.transaction] # "NONE"

\* The rows about a payment that is not disturbed fit together.
PaymentSound(t) ==
  /\ caseStatus[t] # "NONE" => /\ decision[t] \notin {"NONE", "AUTO_RECONCILED"}
                               /\ caseReason[t] = decision[t]
  /\ \A i \in DOMAIN ledger : ledger[i].transaction = t => EntrySound(ledger[i])
  /\ \A w \in Workers : wpc[w] \in Acting /\ wtx[w] = t => verdict[w] = decision[t]

\* What makes it so is either that its job runs once ...
RunsOnce(t) ==
  /\ job[t].state = "active" => Fresh(job[t])
  /\ \A v, w \in Workers : Executing(v, t) /\ Executing(w, t) => v = w
  /\ \A w \in Workers : Executing(w, t) /\ wpc[w] \in Reading => decision[t] = "NONE"

\* ... or that every execution sees the same directory and comes to the same outcome.
FirstSignals == [NoFacts EXCEPT !.verified = TRUE, !.duplicate = FALSE]

OutcomeNow(t) ==
  LET f == AccountSignals(FirstSignals, t)
  IN IF StatusNow(t) = NoStatus THEN Outcome(f)
     ELSE Outcome(HistorySignals(CustomerSignals(f, t), t))

SeenNow(w, t) ==
  LET f == AccountSignals(FirstSignals, t)
  IN /\ wpc[w] = "account" => seen[w] = FirstSignals
     /\ wpc[w] = "customer" => seen[w] = f /\ StatusNow(t) # NoStatus
     /\ wpc[w] = "history" => seen[w] = CustomerSignals(f, t) /\ StatusNow(t) # NoStatus
     /\ wpc[w] = "decide" => Outcome(seen[w]) = OutcomeNow(t)

Steady(t) == /\ \A w \in Workers : Executing(w, t) => SeenNow(w, t)
             /\ UnderWay(t) => decision[t] \in {"NONE", OutcomeNow(t)}

SettlementInv ==
  /\ RowsSound
  /\ \A t \in Transactions : /\ ~Disturbed(t) => PaymentSound(t)
                             /\ "again" \notin upset[t] => RunsOnce(t)
                             /\ "moved" \notin upset[t] => Steady(t)

-----------------------------------------------------------------------------
(* Rows that fit together.                                                      *)

\* No execution decides anew: it finds no decision, or the one it comes to itself.
LEMMA DecidesTheSame ==
  ASSUME TypeInv, NEW t \in Transactions, RunsOnce(t) \/ Steady(t),
         NEW w \in Workers, Decide(w), wtx[w] = t
  PROVE  decision[t] \in {"NONE", Outcome(seen[w])}
<1>1. wpc[w] = "decide" /\ Executing(w, t)
  BY DEF Decide, Go, Executing
<1>2. CASE RunsOnce(t)
  BY <1>1, <1>2 DEF RunsOnce, Reading
<1>3. CASE Steady(t)
  BY <1>1, <1>3 DEF Steady, SeenNow, UnderWay
<1>. QED  BY <1>2, <1>3

LEMMA DecisionKept ==
  ASSUME TypeInv, [Next]_vars, NEW t \in Transactions, RunsOnce(t) \/ Steady(t),
         decision[t] # "NONE"
  PROVE  decision'[t] = decision[t]
<1>1. CASE \E w \in Workers : Decide(w) /\ wtx[w] = t
  <2>1. PICK w \in Workers : Decide(w) /\ wtx[w] = t
    BY <1>1
  <2>2. decision'[t] = Outcome(seen[w])
    BY <2>1 DEF Decide, Record, TypeInv, TypeOK, RecordsTypeOK
  <2>. QED  BY <2>1, <2>2, DecidesTheSame
<1>. QED  BY <1>1, DecisionChanges

\* What nobody has touched stays untouched until a worker takes its job: there is no case to
\* resolve yet.
LEMMA UntouchedKept ==
  ASSUME TypeInv, RequestsSound, [Next]_vars, NEW t \in Transactions, Untouched(t),
         ~\E w \in Workers : Start(w, t)
  PROVE  Untouched(t)'
<1>1. \A w \in Workers : wtx[w] = t => wpc[w] = "idle"
  BY DEF Untouched, Executing
<1>2. \A r \in Requests : rtx[r] = t => rpc[r] = "idle"
  BY DEF Untouched, RequestsSound
<1>3. decision'[t] = "NONE"
  BY <1>1, DecisionChanges DEF Decide, Go, Untouched
<1>4. caseStatus'[t] = "NONE"
  BY <1>1, <1>2, CaseChanges DEF InsertCase, CloseCase, Go, RGo, Untouched
<1>5. \A i \in DOMAIN ledger' : ledger'[i].transaction # t
  BY <1>1, <1>2, EntryIsNew DEF AppendCredit, AppendManual, Go, RGo, Entry, Untouched
<1>6. ASSUME NEW w \in Workers PROVE ~(wpc'[w] # "idle" /\ wtx'[w] = t)
  <2>1. CASE \E u \in Transactions : Start(w, u)
    <3>1. PICK u \in Transactions : Start(w, u)
      BY <2>1
    <3>2. u # t /\ wtx'[w] = u
      BY <3>1 DEF Start, TypeInv, TypeOK, WorkersTypeOK
    <3>. QED  BY <3>2
  <2>2. CASE ~\E u \in Transactions : Start(w, u)
    BY <1>1, <2>2, WorkerChanges
  <2>. QED  BY <2>1, <2>2
<1>. QED  BY <1>3, <1>4, <1>5, <1>6 DEF Untouched, Executing

\* A job that an execution has ended, or lost its lock on, is no longer fresh.
LEMMA EndedIsStale ==
  ASSUME NEW j \in Jobs
  PROVE  /\ Completed(j).state = "completed"
         /\ ~Fresh(Failed(j)) /\ Failed(j).state \notin {"none", "active"}
         /\ ~Fresh(Stalled(j)) /\ Stalled(j).state \notin {"none", "active"}
<1>1. j.failures \in Nat /\ j.stalls \in Nat
  BY MaxAttemptsAssumption, MaxStallsAssumption DEF Jobs
<1>2. Failed(j).failures = j.failures + 1 /\ Stalled(j).stalls = j.stalls + 1
  BY DEF Failed, Stalled, Jobs
<1>3. /\ Failed(j).state \notin {"none", "active"} /\ Stalled(j).state \notin {"none", "active"}
      /\ Completed(j).state = "completed"
  BY DEF Failed, Stalled, Completed, Jobs
<1>. QED  BY <1>1, <1>2, <1>3 DEF Fresh

\* A job that has been begun is never again one that has not.
LEMMA BegunStays ==
  ASSUME TypeInv, [Next]_vars, NEW t \in Transactions, NotBegun(t)'
  PROVE  /\ NotBegun(t) /\ ~\E w \in Workers : Start(w, t)
         /\ job'[t].state = "none" => job[t].state = "none"
<1>. USE DEF TypeInv, TypeOK, TransactionsTypeOK, NotBegun
<1>1. job[t] \in Jobs
  OBVIOUS
<1>2. ASSUME NEW w \in Workers, Start(w, t) PROVE FALSE
  <2>1. job'[t] = Taken(job[t]) /\ Taken(job[t]).state = "active"
    BY <1>1, <1>2 DEF Start, SetJob, Taken, Jobs
  <2>. QED  BY <2>1
<1>3. CASE QueueArrival(t)
  BY <1>2, <1>3 DEF QueueArrival, SetJob, Added
<1>4. job'[t] = job[t] \/ QueueArrival(t)
  BY <1>1, <1>2, JobChanges, EndedIsStale
<1>. QED  BY <1>2, <1>3, <1>4

LEMMA RowStep ==
  ASSUME TypeInv, RowsSound, [Next]_vars, NEW t \in Transactions,
         upset'[t] = Upsets(t) \/ (UNCHANGED vars /\ UNCHANGED upset)
  PROVE  RowSound(t)'
<1>. USE DEF RowSound
<1>1. RowSound(t)
  BY DEF RowsSound
<1>2. tx'[t] # "DUPLICATE"
  <2>1. CASE ArriveRow(t)
    BY <2>1 DEF ArriveRow, InsertTransaction, TypeInv, TypeOK, TransactionsTypeOK
  <2>. QED  BY <1>1, <2>1, TransactionChanges DEF Settled
<1>3. ASSUME NotBegun(t)' PROVE Untouched(t)'
  BY <1>1, <1>3, BegunStays, UntouchedKept DEF RowsSound
<1>4. payee'[t] \in {NoCustomer, OwnerOf[Recipient[t]]}
  <2>1. CASE ArriveRow(t)
    BY <2>1 DEF ArriveRow, FoundBefore, InsertTransaction, PayeeNow, TypeInv, TypeOK, TransactionsTypeOK
  <2>. QED  BY <1>1, <2>1, TransactionChanges
<1>5. upset'[t] \in SUBSET {"again", "moved"}
  BY <1>1 DEF Upsets
<1>6. ASSUME job'[t].state = "none" PROVE upset'[t] = {}
  <2>1. job[t].state = "none" /\ upset[t] = {} /\ Untouched(t)
    BY <1>1, <1>6, BegunStays DEF NotBegun
  <2>2. ~ExecutedAgain(t) /\ ~DirectoryMoved(t)
    BY <2>1 DEF ExecutedAgain, DirectoryMoved, UnderWay, Untouched
  <2>. QED  BY <2>1, <2>2 DEF Upsets
<1>. QED  BY <1>2, <1>3, <1>4, <1>5, <1>6

LEMMA CaseStep ==
  ASSUME TypeInv, CreditInv, RowsSound, [Next]_vars, NEW t \in Transactions, PaymentSound(t),
         RunsOnce(t) \/ Steady(t), caseStatus'[t] # "NONE"
  PROVE  decision'[t] \notin {"NONE", "AUTO_RECONCILED"} /\ caseReason'[t] = decision'[t]
<1>1. CASE \E w \in Workers : InsertCase(w) /\ wtx[w] = t /\ caseStatus[t] = "NONE"
  <2>1. PICK w \in Workers : InsertCase(w) /\ wtx[w] = t /\ caseStatus[t] = "NONE"
    BY <1>1
  <2>2. wpc[w] = "case" /\ caseReason'[t] = verdict[w] /\ decision' = decision
    BY <2>1 DEF InsertCase, OpenCase, Go, TypeInv, TypeOK, RecordsTypeOK
  <2>3. verdict[w] = decision[t] /\ decision[t] \notin {"NONE", "AUTO_RECONCILED"}
    BY <2>1, <2>2 DEF PaymentSound, Acting, CreditInv, WorkerKnows, Automatic
  <2>. QED  BY <2>2, <2>3
<1>2. CASE caseStatus[t] # "NONE" /\ caseReason'[t] = caseReason[t]
  BY <1>2, DecisionKept DEF PaymentSound
<1>3. \A r \in Requests : CloseCase(r) /\ rtx[r] = t => caseStatus[t] # "NONE"
  BY DEF CloseCase, RGo, RowsSound, RequestsSound
<1>. QED  BY <1>1, <1>2, <1>3, CaseChanges

LEMMA EntriesStep ==
  ASSUME TypeInv, CreditInv, RowsSound, [Next]_vars, NEW t \in Transactions, PaymentSound(t),
         RunsOnce(t) \/ Steady(t), NEW i \in DOMAIN ledger', ledger'[i].transaction = t
  PROVE  EntrySound(ledger[i])'
<1>. USE DEF EntrySound, Entry
<1>1. CASE i \in DOMAIN ledger /\ ledger'[i] = ledger[i]
  <2>1. EntrySound(ledger[i])
    BY <1>1 DEF PaymentSound
  <2>2. decision[t] = "AUTO_RECONCILED" => decision'[t] = "AUTO_RECONCILED"
    BY DecisionKept
  <2>3. caseStatus[t] # "NONE" => caseStatus'[t] # "NONE"
    BY GrowsStep DEF Grows
  <2>. QED  BY <1>1, <2>1, <2>2, <2>3
<1>2. ASSUME NEW w \in Workers, AppendCredit(w),
             ledger'[i] = Entry("ledger", wtx[w], CreditedCustomer("ledger", wtx[w]))
      PROVE  EntrySound(ledger[i])'
  <2>1. wpc[w] = "credit" /\ decision' = decision /\ wtx[w] = t
    BY <1>2 DEF AppendCredit, Go
  <2>2. decision[t] = "AUTO_RECONCILED"
    BY <2>1 DEF PaymentSound, Acting, CreditInv, WorkerKnows, Automatic
  <2>. QED  BY <1>2, <2>1, <2>2
<1>3. ASSUME NEW r \in Requests, AppendManual(r),
             ledger'[i] = Entry("manual", rtx[r], CreditedCustomer("manual", rtx[r]))
      PROVE  EntrySound(ledger[i])'
  <2>1. rpc[r] = "credit" /\ caseStatus' = caseStatus
    BY <1>3 DEF AppendManual, RGo
  <2>2. caseStatus[rtx[r]] # "NONE"
    BY <2>1 DEF RowsSound, RequestsSound
  <2>. QED  BY <1>3, <2>1, <2>2
<1>. QED  BY <1>1, <1>2, <1>3, EntryIsNew

LEMMA VerdictsStep ==
  ASSUME TypeInv, CreditInv, [Next]_vars, NEW t \in Transactions, PaymentSound(t),
         RunsOnce(t) \/ Steady(t), NEW w \in Workers, wpc'[w] \in Acting, wtx'[w] = t
  PROVE  verdict'[w] = decision'[t]
<1>. USE DEF Acting
<1>1. CASE Decide(w)
  BY <1>1 DEF Decide, Record, TypeInv, TypeOK, WorkersTypeOK, RecordsTypeOK
<1>2. CASE wpc[w] \in Acting /\ verdict'[w] = verdict[w] /\ wtx'[w] = wtx[w]
  <2>1. decision[t] # "NONE"
    BY <1>2 DEF CreditInv, WorkerKnows
  <2>. QED  BY <1>2, <2>1, DecisionKept DEF PaymentSound
<1>3. CASE WorkerStep(w) /\ ~Decide(w)
  <2>1. wpc[w] \in Acting /\ verdict'[w] = verdict[w] /\ wtx'[w] = wtx[w]
    BY <1>3 DEF WorkerStep, ReadAccount, ReadCustomer, ReadHistory, AppendCredit, InsertCase, Settle,
                LogOutcome, EmitOutcome, Finish, Go, TypeInv, TypeOK, WorkersTypeOK
  <2>. QED  BY <1>2, <2>1
<1>4. CASE \E u \in Transactions : Start(w, u)
  BY <1>4 DEF Start, Go, TypeInv, TypeOK, WorkersTypeOK
<1>. QED  BY <1>1, <1>2, <1>3, <1>4, WorkerChanges

LEMMA PaymentStep ==
  ASSUME TypeInv, CreditInv, RowsSound, [Next]_vars, NEW t \in Transactions, PaymentSound(t),
         RunsOnce(t) \/ Steady(t)
  PROVE  PaymentSound(t)'
  BY CaseStep, EntriesStep, VerdictsStep DEF PaymentSound

-----------------------------------------------------------------------------
(* A job that runs once.                                                        *)

\* Without a new execution, whoever is executing t was doing so before, and no worker goes back
\* to reading.
LEMMA ExecutionsKept ==
  ASSUME TypeInv, [Next]_vars, NEW t \in Transactions, ~\E v \in Workers : Start(v, t),
         NEW w \in Workers, Executing(w, t)'
  PROVE  Executing(w, t) /\ (wpc'[w] \in Reading => wpc[w] \in Reading /\ ~Decide(w))
<1>. USE DEF Executing, Reading, TypeInv, TypeOK, WorkersTypeOK
<1>1. CASE WorkerStep(w)
  BY <1>1 DEF WorkerStep, ReadAccount, ReadCustomer, ReadHistory, Decide, AppendCredit, InsertCase,
              Settle, LogOutcome, EmitOutcome, Finish, Go
<1>2. CASE \E u \in Transactions : Start(w, u)
  BY <1>2 DEF Start
<1>3. CASE UNCHANGED <<wpc[w], wtx[w]>> /\ ~WorkerStep(w)
  BY <1>3 DEF WorkerStep
<1>. QED  BY <1>1, <1>2, <1>3, WorkerChanges

LEMMA StartedOnce ==
  ASSUME TypeInv, RowsSound, NEW t \in Transactions, ~ExecutedAgain(t),
         NEW w \in Workers, Start(w, t)
  PROVE  RunsOnce(t)' /\ Untouched(t)
<1>. USE DEF TypeInv, TypeOK, TransactionsTypeOK, WorkersTypeOK
<1>1. /\ job[t].state = "waiting" /\ job[t] \in Jobs
      /\ job'[t] = Taken(job[t]) /\ Taken(job[t]).state = "active"
      /\ Taken(job[t]).failures = job[t].failures /\ Taken(job[t]).stalls = job[t].stalls
  BY DEF Start, SetJob, Taken, Jobs
<1>2. Fresh(job[t])
  BY <1>1 DEF ExecutedAgain
<1>3. Untouched(t)
  BY <1>1, <1>2 DEF RowsSound, RowSound, NotBegun
<1>4. decision'[t] = "NONE"
  BY <1>3 DEF Start, recordVars, Untouched
<1>5. \A v \in Workers : Executing(v, t)' => v = w
  BY <1>3 DEF Start, Go, Executing, Untouched
<1>. QED  BY <1>1, <1>2, <1>3, <1>4, <1>5 DEF RunsOnce, Fresh

LEMMA OnceStep ==
  ASSUME TypeInv, RowsSound, [Next]_vars, NEW t \in Transactions, RunsOnce(t), ~ExecutedAgain(t)
  PROVE  RunsOnce(t)'
<1>1. CASE \E w \in Workers : Start(w, t)
  BY <1>1, StartedOnce
<1>2. CASE ~\E w \in Workers : Start(w, t)
  <2>1. \A v, w \in Workers : Executing(v, t)' /\ Executing(w, t)' => v = w
    BY <1>2, ExecutionsKept DEF RunsOnce
  <2>2. ASSUME NEW w \in Workers, Executing(w, t)', wpc'[w] \in Reading
        PROVE  decision'[t] = "NONE"
    <3>1. Executing(w, t) /\ wpc[w] \in Reading /\ ~Decide(w)
      BY <1>2, <2>2, ExecutionsKept
    <3>2. decision[t] = "NONE" /\ \A v \in Workers : Executing(v, t) => v = w
      BY <3>1 DEF RunsOnce
    <3>3. \A v \in Workers : Decide(v) /\ wtx[v] = t => Executing(v, t)
      BY DEF Decide, Go, Executing
    <3>. QED  BY <3>1, <3>2, <3>3, DecisionChanges
  <2>3. ASSUME job'[t].state = "active" PROVE Fresh(job'[t])
    <3>1. job[t] \in Jobs
      BY DEF TypeInv, TypeOK, TransactionsTypeOK
    <3>2. QueueArrival(t) => job'[t].state = "waiting"
      BY DEF QueueArrival, SetJob, Added, TypeInv, TypeOK, TransactionsTypeOK
    <3>3. job'[t] = job[t]
      BY <1>2, <2>3, <3>1, <3>2, JobChanges, EndedIsStale
    <3>. QED  BY <2>3, <3>3 DEF RunsOnce
  <2>. QED  BY <2>1, <2>2, <2>3 DEF RunsOnce
<1>. QED  BY <1>1, <1>2

-----------------------------------------------------------------------------
(* A payment whose directory stays as it is.                                    *)

\* What an unchanged directory says is what it said.
LEMMA DirectorySaysTheSame ==
  ASSUME NEW t \in Transactions, Reads(t)' = Reads(t)
  PROVE  /\ OutcomeNow(t)' = OutcomeNow(t) /\ StatusNow(t)' = StatusNow(t)
         /\ AccountSignals(FirstSignals, t)' = AccountSignals(FirstSignals, t)
         /\ CustomerSignals(AccountSignals(FirstSignals, t), t)'
              = CustomerSignals(AccountSignals(FirstSignals, t), t)
<1>. DEFINE c == OwnerOf[Recipient[t]]
            f == AccountSignals(FirstSignals, t)
<1>1. /\ account'[Recipient[t]] = account[Recipient[t]]
      /\ tier'[c] = tier[c] /\ fullName'[c] = fullName[c] /\ approved'[c] = approved[c]
  BY DEF Reads
<1>2. StatusNow(t)' = StatusNow(t)
  BY <1>1 DEF StatusNow
<1>3. f' = f
  BY <1>2 DEF AccountSignals, FirstSignals
<1>4. \A g : CustomerSignals(g, t)' = CustomerSignals(g, t) /\ HistorySignals(g, t)' = HistorySignals(g, t)
  BY <1>1 DEF CustomerSignals, HistorySignals
<1>. HIDE DEF f
<1>5. CustomerSignals(f, t)' = CustomerSignals(f, t)
  BY <1>1, <1>3 DEF CustomerSignals
<1>6. HistorySignals(CustomerSignals(f, t), t)' = HistorySignals(CustomerSignals(f, t), t)
  BY <1>1, <1>5 DEF HistorySignals
<1>. QED  BY <1>2, <1>3, <1>5, <1>6 DEF OutcomeNow, f

\* Each read adds what the directory says now; the last one completes OutcomeNow.
LEMMA ReadsSteadily ==
  ASSUME TypeInv, NEW t \in Transactions, NEW w \in Workers, SeenNow(w, t), wtx[w] = t,
         WorkerStep(w), Reads(t)' = Reads(t)
  PROVE  SeenNow(w, t)'
<1>. USE DEF TypeInv, TypeOK, WorkersTypeOK
<1>. DEFINE f == AccountSignals(FirstSignals, t)
<1>3. /\ OutcomeNow(t)' = OutcomeNow(t) /\ StatusNow(t)' = StatusNow(t) /\ f' = f
      /\ CustomerSignals(f, t)' = CustomerSignals(f, t)
  BY DirectorySaysTheSame
<1>. HIDE DEF f
<1>4. CASE ReadAccount(w)
  <2>1. /\ wpc[w] = "account" /\ seen'[w] = f
        /\ wpc'[w] = IF StatusNow(t) = NoStatus THEN "decide" ELSE "customer"
    BY <1>4 DEF ReadAccount, Go, SeenNow, f
  <2>2. StatusNow(t) = NoStatus => Outcome(f) = OutcomeNow(t)
    BY DEF OutcomeNow, f
  <2>. QED  BY <1>3, <2>1, <2>2 DEF SeenNow, f
<1>5. CASE ReadCustomer(w)
  <2>1. /\ wpc[w] = "customer" /\ wpc'[w] = "history"
        /\ seen'[w] = CustomerSignals(seen[w], t)
    BY <1>5 DEF ReadCustomer, Go
  <2>2. seen[w] = f /\ StatusNow(t) # NoStatus
    BY <2>1 DEF SeenNow, f
  <2>. QED  BY <1>3, <2>1, <2>2 DEF SeenNow, f
<1>6. CASE ReadHistory(w)
  <2>1. /\ wpc[w] = "history" /\ wpc'[w] = "decide"
        /\ seen'[w] = HistorySignals(seen[w], t)
    BY <1>6 DEF ReadHistory, Go
  <2>2. seen[w] = CustomerSignals(f, t) /\ StatusNow(t) # NoStatus
    BY <2>1 DEF SeenNow, f
  <2>3. Outcome(seen'[w]) = OutcomeNow(t)
    BY <2>1, <2>2 DEF OutcomeNow, f
  <2>. QED  BY <1>3, <2>1, <2>3 DEF SeenNow
<1>7. CASE ~(ReadAccount(w) \/ ReadCustomer(w) \/ ReadHistory(w))
  <2>1. wpc'[w] \notin Reading
    BY <1>7 DEF WorkerStep, Decide, AppendCredit, InsertCase, Settle, LogOutcome, EmitOutcome,
                Finish, Go, Reading
  <2>. QED  BY <2>1 DEF SeenNow, Reading
<1>. QED  BY <1>4, <1>5, <1>6, <1>7

\* The first execution of t finds it untouched.
LEMMA StartedSteadily ==
  ASSUME TypeInv, RowsSound, NEW t \in Transactions, Steady(t), ~DirectoryMoved(t),
         NEW w \in Workers, Start(w, t)
  PROVE  Steady(t)'
<1>. USE DEF TypeInv, TypeOK, WorkersTypeOK
<1>1. IsDuplicate(t) = FALSE
  BY DEF IsDuplicate, RowsSound, RowSound
<1>2. /\ wpc'[w] = "account" /\ seen'[w] = FirstSignals
      /\ \A v \in Workers : v # w => UNCHANGED <<wpc[v], wtx[v], seen[v]>>
      /\ decision' = decision /\ Reads(t)' = Reads(t)
  <2>1. wpc'[w] = "account" /\ \A v \in Workers : v # w => UNCHANGED <<wpc[v], wtx[v], seen[v]>>
    BY DEF Start, Go
  <2>2. seen'[w] = FirstSignals
    <3>1. seen'[w] = [NoFacts EXCEPT !.verified = TRUE, !.duplicate = IsDuplicate(t)]
      BY DEF Start
    <3>. QED  BY <1>1, <3>1 DEF FirstSignals
  <2>3. decision' = decision /\ Reads(t)' = Reads(t)
    BY DEF Start, recordVars, directoryVars, Reads
  <2>. QED  BY <2>1, <2>2, <2>3
<1>3. OutcomeNow(t)' = OutcomeNow(t)
  BY <1>2, DirectorySaysTheSame
<1>4. ASSUME NEW v \in Workers, Executing(v, t)' PROVE SeenNow(v, t)'
  <2>1. CASE v = w
    BY <1>2, <2>1 DEF SeenNow, FirstSignals
  <2>2. CASE v # w
    <3>1. SeenNow(v, t)
      BY <1>2, <1>4, <2>2 DEF Executing, Steady
    <3>. QED  BY <1>2, <2>2, <3>1, DirectorySaysTheSame DEF SeenNow, FirstSignals
  <2>. QED  BY <2>1, <2>2
<1>5. decision[t] \in {"NONE", OutcomeNow(t)}
  <2>1. job[t].state = "waiting"
    BY DEF Start
  <2>2. Fresh(job[t]) => decision[t] = "NONE"
    BY <2>1 DEF RowsSound, RowSound, NotBegun, Untouched
  <2>. QED  BY <2>1, <2>2 DEF Steady, UnderWay
<1>. QED  BY <1>2, <1>3, <1>4, <1>5 DEF Steady

\* A payment gets under way by an execution only.
LEMMA GetsUnderWay ==
  ASSUME TypeInv, [Next]_vars, NEW t \in Transactions, UnderWay(t)',
         ~\E w \in Workers : Start(w, t)
  PROVE  UnderWay(t)
<1>1. CASE \E w \in Workers : Executing(w, t)'
  BY <1>1, ExecutionsKept DEF UnderWay
<1>2. CASE ~NotBegun(t)' /\ job'[t].state \in {"active", "waiting"}
  <2>1. QueueArrival(t) => NotBegun(t)'
    BY DEF QueueArrival, SetJob, Added, NotBegun, Fresh, TypeInv, TypeOK, TransactionsTypeOK
  <2>2. CASE job'[t] = job[t]
    BY <1>2, <2>2 DEF UnderWay, NotBegun
  <2>3. ASSUME NEW w \in Workers, held[w], wtx[w] = t PROVE UnderWay(t)
    BY <2>3 DEF UnderWay, TypeInv, LocksSound
  <2>. QED  BY <1>2, <2>1, <2>2, <2>3, JobChanges DEF UnderWay
<1>. QED  BY <1>1, <1>2 DEF UnderWay, NotBegun

LEMMA SteadyStep ==
  ASSUME TypeInv, RowsSound, [Next]_vars, NEW t \in Transactions, Steady(t), ~DirectoryMoved(t)
  PROVE  Steady(t)'
<1>. USE DEF TypeInv, TypeOK, WorkersTypeOK
<1>1. CASE \E w \in Workers : Start(w, t)
  BY <1>1, StartedSteadily
<1>2. CASE ~(\E w \in Workers : Start(w, t)) /\ UnderWay(t)
  <2>1. Reads(t)' = Reads(t)
    BY <1>2 DEF DirectoryMoved
  <2>2. OutcomeNow(t)' = OutcomeNow(t)
    BY <2>1, DirectorySaysTheSame
  <2>3. ASSUME NEW w \in Workers, Executing(w, t)' PROVE SeenNow(w, t)'
    <3>1. Executing(w, t) /\ SeenNow(w, t) /\ wtx[w] = t
      BY <1>2, <2>3, ExecutionsKept DEF Steady, Executing
    <3>2. ~\E u \in Transactions : Start(w, u)
      BY <3>1 DEF Start, Go, Executing
    <3>3. CASE UNCHANGED <<wpc[w], wtx[w], seen[w]>>
      BY <2>1, <3>1, <3>3, DirectorySaysTheSame DEF SeenNow, FirstSignals
    <3>. QED  BY <2>1, <2>3, <3>1, <3>2, <3>3, WorkerChanges, ReadsSteadily DEF Executing
  <2>4. decision'[t] \in {"NONE", OutcomeNow(t)}
    <3>1. ASSUME NEW w \in Workers, Decide(w), wtx[w] = t PROVE decision'[t] = OutcomeNow(t)
      <4>1. wpc[w] = "decide" /\ decision'[t] = Outcome(seen[w])
        BY <3>1 DEF Decide, Go, Record, RecordsTypeOK
      <4>. QED  BY <3>1, <4>1 DEF Steady, SeenNow, Executing
    <3>. QED  BY <1>2, <3>1, DecisionChanges DEF Steady
  <2>. QED  BY <2>2, <2>3, <2>4 DEF Steady
<1>3. CASE ~(\E w \in Workers : Start(w, t)) /\ ~UnderWay(t)
  <2>1. ~UnderWay(t)'
    BY <1>3, GetsUnderWay
  <2>. QED  BY <2>1 DEF Steady, UnderWay
<1>. QED  BY <1>1, <1>2, <1>3

-----------------------------------------------------------------------------
(* The invariant holds.                                                         *)

LEMMA SettlementInvInit == UpsetInit => SettlementInv
<1>. SUFFICES ASSUME UpsetInit PROVE SettlementInv
  OBVIOUS
<1>. USE DEF UpsetInit, Init, TransactionsInit, ReconciliationInit
<1>1. RowsSound
  BY DEF RowsSound, RequestsSound, RowSound, Untouched, Executing
<1>2. \A t \in Transactions : PaymentSound(t)
  BY DEF PaymentSound, Acting
<1>3. \A t \in Transactions : RunsOnce(t)
  BY DEF RunsOnce, NoJob, Executing
<1>4. \A t \in Transactions : Steady(t)
  BY DEF Steady, Executing
<1>. QED  BY <1>1, <1>2, <1>3, <1>4 DEF SettlementInv

\* What has happened to a payment is remembered.
LEMMA UpsetGrows ==
  ASSUME [UpsetNext]_<<vars, upset>>, NEW t \in Transactions
  PROVE  /\ upset[t] \subseteq upset'[t]
         /\ upset'[t] \in SUBSET (upset[t] \cup {"again", "moved"})
         /\ ExecutedAgain(t) => "again" \in upset'[t]
         /\ DirectoryMoved(t) => "moved" \in upset'[t]
<1>1. CASE upset'[t] = Upsets(t)
  BY <1>1 DEF Upsets
<1>2. CASE UNCHANGED vars /\ UNCHANGED upset
  BY <1>2 DEF ExecutedAgain, DirectoryMoved, Reads, vars, transactionVars, directoryVars
<1>. QED  BY <1>1, <1>2 DEF UpsetNext

LEMMA SettlementInvStep ==
  ASSUME TypeInv, CreditInv, SettlementInv, [UpsetNext]_<<vars, upset>>
  PROVE  SettlementInv'
<1>1. [Next]_vars
  BY DEF UpsetNext
<1>2. \A t \in Transactions : upset'[t] = Upsets(t) \/ (UNCHANGED vars /\ UNCHANGED upset)
  BY DEF UpsetNext
<1>3. RowsSound /\ RequestsSound'
  BY <1>1, RequestsHaveCases DEF SettlementInv, RowsSound, RequestsSound
<1>4. RowsSound'
  BY <1>1, <1>2, <1>3, RowStep DEF RowsSound
<1>5. ASSUME NEW t \in Transactions
      PROVE  /\ ~Disturbed(t)' => PaymentSound(t)'
             /\ "again" \notin upset'[t] => RunsOnce(t)'
             /\ "moved" \notin upset'[t] => Steady(t)'
  <2>1. /\ upset[t] \in SUBSET {"again", "moved"} /\ upset[t] \subseteq upset'[t]
        /\ upset'[t] \in SUBSET {"again", "moved"}
        /\ ExecutedAgain(t) => "again" \in upset'[t]
        /\ DirectoryMoved(t) => "moved" \in upset'[t]
    BY <1>3, <1>4, UpsetGrows DEF RowsSound, RowSound
  <2>2. ASSUME "again" \notin upset'[t] PROVE RunsOnce(t)'
    BY <1>1, <1>3, <2>1, <2>2, OnceStep DEF SettlementInv
  <2>3. ASSUME "moved" \notin upset'[t] PROVE Steady(t)'
    BY <1>1, <1>3, <2>1, <2>3, SteadyStep DEF SettlementInv
  <2>4. ASSUME ~Disturbed(t)' PROVE PaymentSound(t)'
    <3>1. ~Disturbed(t) /\ (RunsOnce(t) \/ Steady(t))
      BY <2>1, <2>4 DEF Disturbed, SettlementInv
    <3>. QED  BY <1>1, <1>3, <3>1, PaymentStep DEF SettlementInv
  <2>. QED  BY <2>2, <2>3, <2>4
<1>. QED  BY <1>4, <1>5 DEF SettlementInv

\* The invariant from which the theorems below are read off.
LEMMA SettlementInvariant == UpsetSpec => [](TypeInv /\ CreditInv /\ SettlementInv)
<1>1. UpsetInit => TypeInv /\ CreditInv /\ SettlementInv
  BY TypeInvInit, CreditInvInit, SettlementInvInit DEF UpsetInit
<1>2. TypeInv /\ CreditInv /\ SettlementInv /\ [UpsetNext]_<<vars, upset>>
        => TypeInv' /\ CreditInv' /\ SettlementInv'
  <2>1. [UpsetNext]_<<vars, upset>> => [Next]_vars
    BY DEF UpsetNext
  <2>. QED  BY <2>1, TypeInvStep, CreditInvStep, SettlementInvStep
<1>. QED  BY <1>1, <1>2, PTL DEF UpsetSpec

-----------------------------------------------------------------------------
(* What follows from it at once.                                                *)

\* A payment credited twice would have one entry of each kind, but a decision to credit rules
\* out a case.
LEMMA CreditIsTheOnly ==
  ASSUME UniqueReference, NEW t \in Transactions, PaymentSound(t), NEW i \in CreditsOf(t)
  PROVE  CreditsOf(t) = {i}
<1>1. ASSUME NEW j \in CreditsOf(t) PROVE j = i
  <2>1. /\ i \in DOMAIN ledger /\ j \in DOMAIN ledger
        /\ ledger[i].transaction = t /\ ledger[j].transaction = t
    BY <1>1 DEF CreditsOf
  <2>2. ledger[i].kind = ledger[j].kind
    BY <2>1 DEF PaymentSound, EntrySound
  <2>. QED  BY <2>1, <2>2 DEF UniqueReference, Reference
<1>. QED  BY <1>1

\* One payment, one credit: whatever the interleaving of workers and administrators, and
\* whatever becomes of other payments, a payment has at most one entry in the ledger unless it
\* was both executed again and met by a change of the directory rows it is decided from,
\* between its first execution and its last (reconciliation.service.ts lines 116-136, 157-169).
THEOREM OneCredit == UpsetSpec => []OneCreditEach
<1>1. ASSUME TypeInv, CreditInv, SettlementInv PROVE OneCreditEach
  <2>. SUFFICES ASSUME NEW t \in Transactions, ~Disturbed(t) PROVE Cardinality(CreditsOf(t)) <= 1
    BY DEF OneCreditEach
  <2>1. CASE CreditsOf(t) = {}
    BY <2>1, FS_EmptySet
  <2>2. CASE CreditsOf(t) # {}
    <3>1. PICK i \in CreditsOf(t) : TRUE
      BY <2>2
    <3>2. CreditsOf(t) = {i}
      BY <1>1, CreditIsTheOnly DEF CreditInv, SettlementInv
    <3>3. Cardinality({i}) = 1
      BY FS_Singleton
    <3>. QED  BY <3>2, <3>3
  <2>. QED  BY <2>1, <2>2
<1>. QED  BY <1>1, SettlementInvariant, PTL

\* The reason the case of such a payment gives is the outcome in the decision row next to it
\* (reconciliation.service.ts lines 104 and 131).
THEOREM CaseMatches == UpsetSpec => []CaseMatchesDecision
<1>1. SettlementInv => CaseMatchesDecision
  BY DEF SettlementInv, PaymentSound, CaseMatchesDecision
<1>. QED  BY <1>1, SettlementInvariant, PTL

\* The automatic credit of such a payment is appended only while the decision row says
\* AUTO_RECONCILED, however many executions overlap.
THEOREM CreditFollows == UpsetSpec => CreditFollowsDecision
<1>. DEFINE Follows == \A t \in Transactions :
              ~Disturbed(t) /\ Credited(t, "ledger")' /\ ~Credited(t, "ledger")
                => decision[t] = "AUTO_RECONCILED"
<1>1. ASSUME TypeInv, CreditInv, SettlementInv, [Next]_vars PROVE Follows
  <2>. SUFFICES ASSUME NEW t \in Transactions, ~Disturbed(t),
                       Credited(t, "ledger")', ~Credited(t, "ledger")
                PROVE  decision[t] = "AUTO_RECONCILED"
    OBVIOUS
  <2>1. PICK i \in DOMAIN ledger' : Reference(ledger'[i]) = <<"ledger", t>>
    BY DEF Credited, Reference
  <2>2. ~(i \in DOMAIN ledger /\ ledger'[i] = ledger[i])
    BY <2>1 DEF Credited, Reference
  <2>3. PICK w \in Workers : AppendCredit(w) /\ wtx[w] = t
    BY <1>1, <2>1, <2>2, EntryIsNew DEF Reference, Entry
  <2>. QED  BY <1>1, <2>3
            DEF AppendCredit, Go, SettlementInv, PaymentSound, Acting, CreditInv, WorkerKnows, Automatic
<1>2. TypeInv /\ CreditInv /\ SettlementInv /\ [UpsetNext]_<<vars, upset>> => [Follows]_<<vars, upset>>
  BY <1>1 DEF UpsetNext
<1>. QED  BY <1>2, SettlementInvariant, PTL DEF UpsetSpec, CreditFollowsDecision

-----------------------------------------------------------------------------
(* Reconciliation implements Settlement.                                        *)

Paid(c) == {i \in DOMAIN ledger : ledger[i].customer = c}

LEMMA BalanceIsTotal ==
  ASSUME NEW c
  PROVE  /\ Balance(c) = Total(EntryAmount, Paid(c))
         /\ Balance(c)' = Total(EntryAmount', Paid(c)')
  BY DEF Balance, Paid, Total, MapThenSumSet, MapThenFoldSet

LEMMA LedgerRows ==
  ASSUME TypeInv
  PROVE  /\ DOMAIN ledger = 1..Len(ledger) /\ Len(ledger) \in Nat
         /\ \A i \in DOMAIN ledger : ledger[i] \in Entries /\ EntryAmount[i] \in Nat
         /\ \A c : IsFiniteSet(Paid(c)) /\ Paid(c) \subseteq DOMAIN ledger
<1>1. ledger \in Seq(Entries)
  BY DEF TypeInv, TypeOK, RecordsTypeOK
<1>2. DOMAIN ledger = 1..Len(ledger) /\ Len(ledger) \in Nat /\ \A i \in DOMAIN ledger : ledger[i] \in Entries
  BY <1>1
<1>3. \A i \in DOMAIN ledger : EntryAmount[i] \in Nat
  BY <1>2, TransactionsAssumption DEF EntryAmount, Entries
<1>4. IsFiniteSet(DOMAIN ledger)
  BY <1>2, FS_Interval
<1>5. \A c : IsFiniteSet(Paid(c)) /\ Paid(c) \subseteq DOMAIN ledger
  BY <1>4, FS_Subset DEF Paid
<1>. QED  BY <1>2, <1>3, <1>5

\* A new row adds its amount to the statement of its customer, and of nobody else.
LEMMA BalanceGrows ==
  ASSUME TypeInv, NEW e \in Entries, ledger' = Append(ledger, e), NEW c
  PROVE  Balance(c)' = IF e.customer = c THEN Balance(c) + Amount[e.transaction] ELSE Balance(c)
<1>. DEFINE n == Len(ledger) + 1
            now == EntryAmount
            next == EntryAmount'
<1>1. /\ DOMAIN ledger = 1..Len(ledger) /\ Len(ledger) \in Nat /\ ledger \in Seq(Entries)
      /\ \A i \in DOMAIN ledger : EntryAmount[i] \in Nat
      /\ IsFiniteSet(Paid(c)) /\ Paid(c) \subseteq DOMAIN ledger
  BY LedgerRows DEF TypeInv, TypeOK, RecordsTypeOK
<1>2. /\ DOMAIN ledger' = 1..n /\ n \notin DOMAIN ledger
      /\ \A i \in DOMAIN ledger : ledger'[i] = ledger[i]
      /\ ledger'[n] = e
  BY <1>1
<1>3. DOMAIN ledger' = DOMAIN ledger \cup {n}
  BY <1>1, <1>2
<1>4. Paid(c)' = IF e.customer = c THEN Paid(c) \cup {n} ELSE Paid(c)
  BY <1>2, <1>3 DEF Paid
<1>5. (\A i \in DOMAIN ledger : next[i] = now[i]) /\ next[n] = Amount[e.transaction]
  BY <1>2, <1>3 DEF EntryAmount
<1>6. Amount[e.transaction] \in Nat
  BY TransactionsAssumption DEF Entries
<1>7. Balance(c) = Total(now, Paid(c)) /\ Balance(c)' = Total(next, Paid(c)')
  BY BalanceIsTotal
<1>. HIDE DEF n, now, next
<1>8. Total(next, Paid(c)) = Total(now, Paid(c)) /\ Total(now, Paid(c)) \in Nat
  BY <1>1, <1>5, TotalExtensional, TotalType DEF now
<1>9. CASE e.customer = c
  <2>. DEFINE S == Paid(c) \cup {n}
  <2>1. IsFiniteSet(S) /\ n \in S /\ S \ {n} = Paid(c)
    BY <1>1, <1>2, FS_AddElement
  <2>2. \A x \in S : next[x] \in Nat
    BY <1>1, <1>5, <1>6 DEF now
  <2>3. Total(next, S) = next[n] + Total(next, S \ {n})
    <3>. HIDE DEF S
    <3>. QED  BY <2>1, <2>2, TotalRemove
  <2>4. Balance(c)' = Amount[e.transaction] + Balance(c)
    BY <1>4, <1>5, <1>7, <1>8, <1>9, <2>1, <2>3
  <2>. QED  BY <1>6, <1>7, <1>8, <1>9, <2>4
<1>10. CASE e.customer # c
  BY <1>4, <1>7, <1>8, <1>10
<1>. QED  BY <1>9, <1>10

LEMMA LedgerKept ==
  ASSUME UNCHANGED ledger
  PROVE  \A c : Balance(c)' = Balance(c)
<1>1. EntryAmount' = EntryAmount /\ \A c : Paid(c)' = Paid(c)
  BY DEF EntryAmount, Paid
<1>. QED  BY <1>1, BalanceIsTotal

\* What a phase depends on, next to whether the payment is disturbed: its credits, and whether
\* there are a row and a case.
SameRows(t) == /\ CreditsOf(t)' = CreditsOf(t)
               /\ \A i \in CreditsOf(t) : ledger'[i] = ledger[i]
               /\ caseStatus'[t] = "NONE" <=> caseStatus[t] = "NONE"
               /\ tx'[t] = "NONE" <=> tx[t] = "NONE"

LEMMA PhaseKept ==
  ASSUME NEW t, SameRows(t), Disturbed(t)' <=> Disturbed(t)
  PROVE  Phase(t)' = Phase(t)
<1>1. \A kind : Credited(t, kind)' <=> Credited(t, kind)
  <2>1. \A kind : Credited(t, kind) <=> \E i \in CreditsOf(t) : Reference(ledger[i]) = <<kind, t>>
    BY DEF Credited, CreditsOf, Reference
  <2>2. \A kind : Credited(t, kind)' <=> \E i \in CreditsOf(t)' : Reference(ledger'[i]) = <<kind, t>>
    BY DEF Credited, CreditsOf, Reference
  <2>. QED  BY <2>1, <2>2 DEF SameRows
<1>. QED  BY <1>1 DEF Phase, SameRows

LEMMA NewRow ==
  ASSUME TypeInv, NEW e \in Entries, ledger' = Append(ledger, e)
  PROVE  /\ \A t : t # e.transaction => /\ CreditsOf(t)' = CreditsOf(t)
                                        /\ \A i \in CreditsOf(t) : ledger'[i] = ledger[i]
         /\ \A kind : Credited(e.transaction, kind)'
                        <=> Credited(e.transaction, kind) \/ kind = e.kind
<1>. DEFINE n == Len(ledger) + 1
<1>1. DOMAIN ledger = 1..Len(ledger) /\ Len(ledger) \in Nat /\ ledger \in Seq(Entries)
  BY LedgerRows DEF TypeInv, TypeOK, RecordsTypeOK
<1>2. /\ DOMAIN ledger' = DOMAIN ledger \cup {n}
      /\ \A i \in DOMAIN ledger : ledger'[i] = ledger[i] /\ i # n
      /\ ledger'[n] = e
  BY <1>1
<1>. HIDE DEF n
<1>. QED  BY <1>2 DEF CreditsOf, Credited, Reference

\* A payment that is executed, or has a case, has a row.
LEMMA TouchedHasRow ==
  ASSUME TypeInv, RowsSound, NEW t \in Transactions,
         \/ \E w \in Workers : Executing(w, t)
         \/ caseStatus[t] # "NONE"
  PROVE  tx[t] # "NONE"
<1>1. job[t].state # "none"
  BY DEF RowsSound, RowSound, NotBegun, Untouched
<1>. QED  BY <1>1 DEF TypeInv, JobsSound

\* Steps that leave the jobs and the directory alone disturb nobody.
LEMMA Undisturbing ==
  ASSUME [UpsetNext]_<<vars, upset>>, UNCHANGED <<job, directoryVars>>, NEW t \in Transactions
  PROVE  upset'[t] = upset[t]
<1>1. ~ExecutedAgain(t) /\ ~DirectoryMoved(t)
  BY DEF ExecutedAgain, DirectoryMoved, Reads, directoryVars
<1>. QED  BY <1>1 DEF UpsetNext, Upsets

PhaseOf == [t \in Transactions |-> Phase(t)]
KnownOf == [t \in Transactions |-> payee[t] # NoCustomer]
BalanceOf == [c \in Customers |-> Balance(c)]

\* Only t moves on.
LEMMA OnlyOneMoves ==
  ASSUME NEW t \in Transactions, \A u \in Transactions : upset'[u] = upset[u],
         \A u \in Transactions : u # t => SameRows(u), Disturbed(t) => SameRows(t) \/ Disturbed(t)'
  PROVE  /\ PhaseOf' = [PhaseOf EXCEPT ![t] = Phase(t)'] /\ PhaseOf[t] = Phase(t)
         /\ Disturbed(t) => PhaseOf' = PhaseOf /\ PhaseOf[t] = "disturbed"
<1>1. \A u \in Transactions : Disturbed(u)' <=> Disturbed(u)
  BY DEF Disturbed
<1>2. \A u \in Transactions : u # t => Phase(u)' = Phase(u)
  BY <1>1, PhaseKept
<1>3. Disturbed(t) => Phase(t)' = "disturbed" /\ Phase(t) = "disturbed"
  BY <1>1 DEF Phase
<1>. QED  BY <1>2, <1>3 DEF PhaseOf

LEMMA CreditImplements ==
  ASSUME TypeInv, CreditInv, SettlementInv, [UpsetNext]_<<vars, upset>>,
         NEW w \in Workers, NEW t \in Transactions, wtx[w] = t, AppendCredit(w), ledger' # ledger
  PROVE  Abstract!Credit(t) \/ Abstract!PayAgain(t)
<1>. DEFINE e == Entry("ledger", t, OwnerOf[Recipient[t]])
<1>1. wpc[w] = "credit" /\ UNCHANGED <<caseStatus, tx, payee, job, directoryVars>>
  BY DEF AppendCredit, Go, transactionVars
<1>2. ledger' = Append(ledger, e) /\ ~Credited(t, "ledger")
  BY DEF AppendCredit, AppendEntry, CreditedCustomer, Credited
<1>3. e \in Entries /\ e.transaction = t /\ e.kind = "ledger" /\ e.customer = OwnerOf[Recipient[t]]
      /\ OwnerOf[Recipient[t]] \in Customers
  BY TransactionsAssumption, OwnerAssumption DEF Entry, Entries
<1>. HIDE DEF e
<1>4. \A u \in Transactions : upset'[u] = upset[u]
  BY <1>1, Undisturbing
<1>5. \A u \in Transactions : u # t => SameRows(u)
  BY <1>1, <1>2, <1>3, NewRow DEF SameRows
<1>6. Disturbed(t)' <=> Disturbed(t)
  BY <1>4 DEF Disturbed
<1>7. /\ PhaseOf' = [PhaseOf EXCEPT ![t] = Phase(t)'] /\ PhaseOf[t] = Phase(t)
      /\ Disturbed(t) => PhaseOf' = PhaseOf /\ PhaseOf[t] = "disturbed"
  BY <1>4, <1>5, <1>6, OnlyOneMoves
<1>8. \A c \in Customers :
         Balance(c)' = IF c = OwnerOf[Recipient[t]] THEN Balance(c) + Amount[t] ELSE Balance(c)
  BY <1>2, <1>3, BalanceGrows
<1>9. BalanceOf' = [BalanceOf EXCEPT ![OwnerOf[Recipient[t]]] = @ + Amount[t]]
  BY <1>3, <1>8 DEF BalanceOf
<1>10. [u \in Transactions |-> OwnerOf[Recipient[u]]][t] = OwnerOf[Recipient[t]]
  OBVIOUS
<1>11. KnownOf' = KnownOf
  BY <1>1 DEF KnownOf
<1>12. ASSUME ~Disturbed(t) PROVE Phase(t) = "verified" /\ Phase(t)' = "credited"
  <2>1. PaymentSound(t)
    BY <1>12 DEF SettlementInv
  <2>2. decision[t] = "AUTO_RECONCILED" /\ caseStatus[t] = "NONE"
    BY <1>1, <2>1 DEF PaymentSound, Acting, CreditInv, WorkerKnows, Automatic
  <2>3. CreditsOf(t) = {}
    BY <1>2, <2>1, <2>2 DEF CreditsOf, Credited, Reference, PaymentSound, EntrySound
  <2>4. tx[t] # "NONE"
    BY <1>1, TouchedHasRow DEF Executing, SettlementInv
  <2>5. Phase(t) = "verified"
    BY <1>12, <2>2, <2>3, <2>4 DEF Phase, Credited, CreditsOf, Reference
  <2>6. Credited(t, "ledger")'
    BY <1>2, <1>3, NewRow
  <2>7. ~Disturbed(t)' /\ Credited(t, "ledger")' => Phase(t)' = "credited"
    BY DEF Phase, Credited, CreditsOf, Reference
  <2>. QED  BY <1>6, <1>12, <2>5, <2>6, <2>7
<1>. QED  BY <1>7, <1>9, <1>10, <1>11, <1>12
          DEF Abstract!Credit, Abstract!PayAgain, Abstract!Move, Abstract!Pay,
              PhaseOf, KnownOf, BalanceOf

LEMMA ApproveImplements ==
  ASSUME TypeInv, CreditInv, SettlementInv, [UpsetNext]_<<vars, upset>>,
         NEW r \in Requests, NEW t \in Transactions, rtx[r] = t, AppendManual(r), ledger' # ledger
  PROVE  Abstract!Approve(t) \/ Abstract!PayAgain(t) \/ UNCHANGED Abstract!settlementVars
<1>. DEFINE e == Entry("manual", t, payee[t])
<1>1. rpc[r] = "credit" /\ UNCHANGED <<caseStatus, tx, payee, job, directoryVars>>
  BY DEF AppendManual, RGo, transactionVars
<1>2. ledger' = Append(ledger, e) /\ ~Credited(t, "manual")
  BY DEF AppendManual, AppendEntry, CreditedCustomer, Credited
<1>3. e \in Entries /\ e.transaction = t /\ e.kind = "manual" /\ e.customer = payee[t]
      /\ OwnerOf[Recipient[t]] \in Customers /\ NoCustomer \notin Customers
  BY TransactionsAssumption, OwnerAssumption
     DEF Entry, Entries, TypeInv, TypeOK, TransactionsTypeOK
<1>. HIDE DEF e
<1>4. \A u \in Transactions : upset'[u] = upset[u]
  BY <1>1, Undisturbing
<1>5. \A u \in Transactions : u # t => SameRows(u)
  BY <1>1, <1>2, <1>3, NewRow DEF SameRows
<1>6. Disturbed(t)' <=> Disturbed(t)
  BY <1>4 DEF Disturbed
<1>7. /\ PhaseOf' = [PhaseOf EXCEPT ![t] = Phase(t)'] /\ PhaseOf[t] = Phase(t)
      /\ Disturbed(t) => PhaseOf' = PhaseOf /\ PhaseOf[t] = "disturbed"
  BY <1>4, <1>5, <1>6, OnlyOneMoves
<1>8. \A c \in Customers :
         Balance(c)' = IF c = payee[t] THEN Balance(c) + Amount[t] ELSE Balance(c)
  BY <1>2, <1>3, BalanceGrows
<1>9. IF payee[t] # NoCustomer
      THEN BalanceOf' = [BalanceOf EXCEPT ![OwnerOf[Recipient[t]]] = @ + Amount[t]]
      ELSE BalanceOf' = BalanceOf
  <2>1. CASE payee[t] = OwnerOf[Recipient[t]]
    BY <1>3, <1>8, <2>1 DEF BalanceOf
  <2>2. CASE payee[t] = NoCustomer
    BY <1>3, <1>8, <2>2 DEF BalanceOf
  <2>. QED  BY <2>1, <2>2 DEF SettlementInv, RowsSound, RowSound
<1>10. [u \in Transactions |-> OwnerOf[Recipient[u]]][t] = OwnerOf[Recipient[t]]
  OBVIOUS
<1>11. KnownOf' = KnownOf /\ (KnownOf[t] <=> payee[t] # NoCustomer)
  BY <1>1 DEF KnownOf
<1>12. ASSUME ~Disturbed(t) PROVE Phase(t) = "review" /\ Phase(t)' = "approved"
  <2>1. PaymentSound(t)
    BY <1>12 DEF SettlementInv
  <2>2. caseStatus[t] # "NONE" /\ decision[t] # "AUTO_RECONCILED"
    BY <1>1, <2>1 DEF SettlementInv, RowsSound, RequestsSound, PaymentSound
  <2>3. CreditsOf(t) = {}
    BY <1>2, <2>1, <2>2 DEF CreditsOf, Credited, Reference, PaymentSound, EntrySound
  <2>4. ~Credited(t, "ledger") /\ ~Credited(t, "manual")
    BY <2>3 DEF CreditsOf, Credited, Reference
  <2>5. Phase(t) = "review"
    BY <1>12, <2>2, <2>3, <2>4 DEF Phase
  <2>6. Credited(t, "manual")' /\ ~Credited(t, "ledger")'
    BY <1>2, <1>3, <2>4, NewRow
  <2>7. ~Disturbed(t)' /\ Credited(t, "manual")' /\ ~Credited(t, "ledger")'
          => Phase(t)' = "approved"
    BY DEF Phase, Credited, CreditsOf, Reference
  <2>. QED  BY <1>6, <1>12, <2>5, <2>6, <2>7
<1>13. CASE ~Disturbed(t)
  BY <1>7, <1>9, <1>10, <1>11, <1>12, <1>13
     DEF Abstract!Approve, Abstract!Move, Abstract!Pay, PhaseOf, KnownOf, BalanceOf
<1>14. CASE Disturbed(t)
  BY <1>7, <1>9, <1>10, <1>11, <1>14
     DEF Abstract!PayAgain, Abstract!Pay, Abstract!settlementVars, PhaseOf, KnownOf, BalanceOf
<1>. QED  BY <1>13, <1>14

LEMMA FlagImplements ==
  ASSUME TypeInv, CreditInv, SettlementInv, [UpsetNext]_<<vars, upset>>,
         NEW w \in Workers, NEW t \in Transactions, wtx[w] = t, InsertCase(w), caseStatus[t] = "NONE"
  PROVE  Abstract!Flag(t) \/ UNCHANGED Abstract!settlementVars
<1>1. /\ wpc[w] = "case" /\ UNCHANGED <<ledger, tx, payee, job, directoryVars>>
      /\ caseStatus' = [caseStatus EXCEPT ![t] = "OPEN"]
  BY DEF InsertCase, OpenCase, Go, transactionVars
<1>2. \A u \in Transactions : upset'[u] = upset[u]
  BY <1>1, Undisturbing
<1>3. \A u : CreditsOf(u)' = CreditsOf(u)
  BY <1>1 DEF CreditsOf
<1>4. \A u \in Transactions : u # t => SameRows(u)
  BY <1>1, <1>3 DEF SameRows, TypeInv, TypeOK, RecordsTypeOK
<1>5. Disturbed(t)' <=> Disturbed(t)
  BY <1>2 DEF Disturbed
<1>6. /\ PhaseOf' = [PhaseOf EXCEPT ![t] = Phase(t)'] /\ PhaseOf[t] = Phase(t)
      /\ Disturbed(t) => PhaseOf' = PhaseOf /\ PhaseOf[t] = "disturbed"
  BY <1>2, <1>4, <1>5, OnlyOneMoves
<1>7. BalanceOf' = BalanceOf /\ KnownOf' = KnownOf
  BY <1>1, LedgerKept DEF BalanceOf, KnownOf
<1>8. ASSUME ~Disturbed(t) PROVE Phase(t) = "verified" /\ Phase(t)' = "review"
  <2>1. PaymentSound(t)
    BY <1>8 DEF SettlementInv
  <2>2. decision[t] # "AUTO_RECONCILED"
    BY <1>1, <2>1 DEF PaymentSound, Acting, CreditInv, WorkerKnows, Automatic
  <2>3. CreditsOf(t) = {}
    BY <2>1, <2>2 DEF CreditsOf, PaymentSound, EntrySound
  <2>4. tx[t] # "NONE"
    BY <1>1, TouchedHasRow DEF Executing, SettlementInv
  <2>5. ~Credited(t, "ledger") /\ ~Credited(t, "manual")
    BY <2>3 DEF CreditsOf, Credited, Reference
  <2>6. ~Credited(t, "ledger")' /\ ~Credited(t, "manual")'
    BY <1>1, <2>5 DEF Credited
  <2>7. CreditsOf(t)' = {} /\ caseStatus'[t] # "NONE"
    BY <1>1, <1>3, <2>3 DEF TypeInv, TypeOK, RecordsTypeOK
  <2>. QED  BY <1>5, <1>8, <2>3, <2>4, <2>5, <2>6, <2>7 DEF Phase
<1>. QED  BY <1>6, <1>7, <1>8
          DEF Abstract!Flag, Abstract!Move, Abstract!settlementVars, PhaseOf, KnownOf, BalanceOf

LEMMA VerifyImplements ==
  ASSUME TypeInv, SettlementInv, [UpsetNext]_<<vars, upset>>, NEW t \in Transactions, ArriveRow(t)
  PROVE  Abstract!Verify(t)
<1>1. /\ tx[t] = "NONE" /\ UNCHANGED <<ledger, caseStatus, job, directoryVars>>
      /\ tx' = [tx EXCEPT ![t] = "VERIFIED"]
      /\ \A u \in Transactions : u # t => payee'[u] = payee[u]
  BY DEF ArriveRow, InsertTransaction, recordVars, TypeInv, TypeOK, TransactionsTypeOK
<1>2. job[t].state = "none"
  BY <1>1 DEF TypeInv, JobsSound
<1>3. CreditsOf(t) = {} /\ caseStatus[t] = "NONE" /\ ~Disturbed(t)
  BY <1>2 DEF CreditsOf, SettlementInv, RowsSound, RowSound, NotBegun, Untouched, Disturbed
<1>4. \A u \in Transactions : upset'[u] = upset[u]
  BY <1>1, Undisturbing
<1>5. \A u : CreditsOf(u)' = CreditsOf(u)
  BY <1>1 DEF CreditsOf
<1>6. \A u \in Transactions : u # t => SameRows(u)
  BY <1>1, <1>5 DEF SameRows, TypeInv, TypeOK, TransactionsTypeOK
<1>7. PhaseOf' = [PhaseOf EXCEPT ![t] = Phase(t)'] /\ PhaseOf[t] = Phase(t)
  BY <1>3, <1>4, <1>6, OnlyOneMoves
<1>8. Phase(t) = "unseen"
  BY <1>1, <1>3 DEF Phase, Credited, CreditsOf, Reference
<1>9. Phase(t)' = "verified"
  <2>1. CreditsOf(t)' = {} /\ caseStatus'[t] = "NONE" /\ tx'[t] # "NONE" /\ ~Disturbed(t)'
    BY <1>1, <1>3, <1>4, <1>5 DEF TypeInv, TypeOK, TransactionsTypeOK, Disturbed
  <2>. QED  BY <2>1 DEF Phase, Credited, CreditsOf, Reference
<1>10. BalanceOf' = BalanceOf
  BY <1>1, LedgerKept DEF BalanceOf
<1>11. \E b \in BOOLEAN : KnownOf' = [KnownOf EXCEPT ![t] = b]
  <2>1. KnownOf' = [KnownOf EXCEPT ![t] = payee'[t] # NoCustomer]
    BY <1>1 DEF KnownOf
  <2>. QED  BY <2>1
<1>. QED  BY <1>7, <1>8, <1>9, <1>10, <1>11
          DEF Abstract!Verify, Abstract!Move, PhaseOf, KnownOf, BalanceOf

\* Every other step is invisible, but for the payments it disturbs.
LEMMA OthersDisturb ==
  ASSUME TypeInv, CreditInv, SettlementInv, [UpsetNext]_<<vars, upset>>, UNCHANGED ledger,
         ~\E t \in Transactions : ArriveRow(t),
         ~\E w \in Workers : InsertCase(w) /\ caseStatus[wtx[w]] = "NONE"
  PROVE  \E ts \in SUBSET Transactions : Abstract!Disturb(ts)
<1>. DEFINE ts == {t \in Transactions : Disturbed(t)'}
<1>0. [Next]_vars /\ RowsSound
  BY DEF UpsetNext, SettlementInv
<1>1. ASSUME NEW t \in Transactions
      PROVE  Phase(t)' = IF t \in ts THEN "disturbed" ELSE Phase(t)
  <2>1. CreditsOf(t)' = CreditsOf(t)
    BY DEF CreditsOf
  <2>2. caseStatus'[t] = "NONE" <=> caseStatus[t] = "NONE"
    BY <1>0, CaseChanges DEF CloseCase, RGo, RowsSound, RequestsSound
  <2>3. tx'[t] = "NONE" <=> tx[t] = "NONE"
    <3>1. ASSUME NEW w \in Workers, Settle(w), wtx[w] = t PROVE tx[t] # "NONE"
      BY <1>0, <3>1, TouchedHasRow DEF Settle, Go, Executing
    <3>2. ASSUME NEW r \in Requests, SettleManual(r), rtx[r] = t PROVE tx[t] # "NONE"
      BY <1>0, <3>2, TouchedHasRow DEF SettleManual, RGo, RowsSound, RequestsSound
    <3>. QED  BY <1>0, <3>1, <3>2, TransactionChanges DEF Settled
  <2>4. SameRows(t)
    BY <2>1, <2>2, <2>3 DEF SameRows
  <2>5. Disturbed(t) => Disturbed(t)'
    BY UpsetGrows DEF Disturbed
  <2>. QED  BY <2>4, <2>5, PhaseKept DEF Phase
<1>2. PhaseOf' = [t \in Transactions |-> IF t \in ts THEN "disturbed" ELSE PhaseOf[t]]
  BY <1>1 DEF PhaseOf
<1>3. \A t \in Transactions : payee'[t] = payee[t]
  BY <1>0, TransactionChanges
<1>4. BalanceOf' = BalanceOf /\ KnownOf' = KnownOf
  BY <1>3, LedgerKept DEF BalanceOf, KnownOf
<1>. QED  BY <1>2, <1>4 DEF Abstract!Disturb, PhaseOf, KnownOf, BalanceOf

\* Reconciliation implements Settlement, with no condition on the behaviour.  Seen through the
\* ledger, the cases and the rows, a payment is verified, then credited to the owner of its
\* account or flagged, then perhaps approved, to the owner of its account if its customer was
\* known when it was verified and to nobody if not, each at most once: until it is disturbed,
\* executed again and met by a change of the rows it is decided from.  From then on all that is
\* promised of it is that statements grow by its amount, each time one more entry is made.  The
\* statements of customers are the sums of these payments, and of nothing else.
THEOREM RefinesSettlement == UpsetSpec => ImplementsSettlement
<1>1. UpsetInit => Abstract!Init
  <2>. SUFFICES ASSUME UpsetInit PROVE Abstract!Init
    OBVIOUS
  <2>. USE DEF UpsetInit, Init, TransactionsInit, ReconciliationInit
  <2>1. DOMAIN ledger = {}
    OBVIOUS
  <2>2. \A t \in Transactions : Phase(t) = "unseen"
    BY <2>1 DEF Phase, Credited, CreditsOf, Disturbed
  <2>3. \A c : Balance(c) = 0
    <3>1. \A c : Paid(c) = {}
      BY <2>1 DEF Paid
    <3>. QED  BY <3>1, FS_EmptySet, TotalEquation, BalanceIsTotal
  <2>4. [t \in Transactions |-> payee[t] # NoCustomer] = [t \in Transactions |-> FALSE]
    OBVIOUS
  <2>. QED  BY <2>2, <2>3, <2>4 DEF Abstract!Init
<1>2. TypeInv /\ CreditInv /\ SettlementInv /\ [UpsetNext]_<<vars, upset>>
        => [Abstract!Next]_(Abstract!settlementVars)
  <2>. SUFFICES ASSUME TypeInv, CreditInv, SettlementInv, [UpsetNext]_<<vars, upset>>
                PROVE  [Abstract!Next]_(Abstract!settlementVars)
    OBVIOUS
  <2>0. [Next]_vars
    BY DEF UpsetNext
  <2>1. ASSUME NEW w \in Workers, AppendCredit(w), ledger' # ledger PROVE Abstract!Next
    BY <2>1, CreditImplements DEF Abstract!Next, TypeInv, TypeOK, WorkersTypeOK
  <2>2. ASSUME NEW r \in Requests, AppendManual(r), ledger' # ledger
        PROVE  [Abstract!Next]_(Abstract!settlementVars)
    BY <2>2, ApproveImplements DEF Abstract!Next, TypeInv, TypeOK, RequestsTypeOK
  <2>3. ASSUME NEW w \in Workers, InsertCase(w), caseStatus[wtx[w]] = "NONE"
        PROVE  [Abstract!Next]_(Abstract!settlementVars)
    BY <2>3, FlagImplements DEF Abstract!Next, TypeInv, TypeOK, WorkersTypeOK
  <2>4. ASSUME NEW t \in Transactions, ArriveRow(t) PROVE Abstract!Next
    BY <2>4, VerifyImplements DEF Abstract!Next
  <2>5. CASE UNCHANGED ledger /\ ~(\E t \in Transactions : ArriveRow(t))
             /\ ~\E w \in Workers : InsertCase(w) /\ caseStatus[wtx[w]] = "NONE"
    BY <2>5, OthersDisturb DEF Abstract!Next
  <2>. QED  BY <2>0, <2>1, <2>2, <2>3, <2>4, <2>5, LedgerSteps
<1>. QED  BY <1>1, <1>2, SettlementInvariant, PTL DEF UpsetSpec, ImplementsSettlement, Abstract!Spec

=============================================================================
