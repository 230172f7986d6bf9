---------------------------- MODULE AccessProofs -----------------------------
(* The gates, the portal and the provider's client, for any window, limit and   *)
(* lifetimes and any number of addresses, calls and callers.                    *)
EXTENDS MCAccess, FiniteSetTheorems, TLAPS

-----------------------------------------------------------------------------
(* A request never carries a dead token.  What makes it so is how old the token *)
(* in memory, and a token on its way to the provider, can be.                   *)

\* Math.max of the floor and what the margin leaves.
LEMMA KeptForBounds ==
  ASSUME NEW life \in Lifetimes
  PROVE  /\ KeptFor(life) \in Int
         /\ KeptFor(life) >= Floor
         /\ KeptFor(life) = Floor \/ KeptFor(life) = life - Margin
         /\ life >= Margin + Floor => KeptFor(life) = life - Margin
<1>1. /\ life \in Nat /\ Margin \in Nat /\ Floor \in Nat /\ Floor >= 1
  BY ProviderAssumption
<1>2. \E x \in {Floor, life - Margin} : \A y \in {Floor, life - Margin} : x >= y
  BY <1>1
<1>3. /\ KeptFor(life) \in {Floor, life - Margin}
      /\ \A y \in {Floor, life - Margin} : KeptFor(life) >= y
  BY <1>2 DEF KeptFor, Max
<1>. QED BY <1>1, <1>3

\* A token somebody has, issued before its answer was read.
Known(access) == /\ access \in Tokens
                /\ access.issuedAt <= access.readAt /\ access.readAt <= now

\* The token in memory is given up in time, and so is one that is on its way.
CachedKnown == cached # NoAccess =>
  Known(cached) /\ until = cached.readAt + KeptFor(cached.life)

CallerKnows(c) ==
  /\ step[c] = "keep" => held[c] \in Tokens /\ held[c].issuedAt <= now
  /\ step[c] = "answer" => /\ Known(held[c])
                           /\ held[c].readAt <= sentAt[c] /\ sentAt[c] <= now
                           /\ sentAt[c] < held[c].readAt + KeptFor(held[c].life)

ProviderInv == ProviderTypeOK /\ CachedKnown /\ \A c \in Callers : CallerKnows(c)

LEMMA NoAccessIsNoToken == NoAccess \notin Tokens
  BY ProviderAssumption DEF NoAccess, Tokens

LEMMA InitKnows == now = 0 /\ ProviderInit => ProviderInv
  BY HorizonAssumption DEF ProviderInit, ProviderInv, ProviderTypeOK, CachedKnown, CallerKnows, NoAccess

\* What a caller knows stays true while others move and time passes.
LEMMA OthersKeepKnowing ==
  ASSUME NEW c \in Callers, CallerKnows(c), now \in Nat, sentAt[c] \in Nat,
         now' \in Nat, now <= now',
         step'[c] = step[c], held'[c] = held[c], sentAt'[c] = sentAt[c]
  PROVE  CallerKnows(c)'
<1>1. \A known \in Tokens : known.issuedAt \in Nat /\ known.readAt \in Nat
  BY HorizonAssumption DEF Tokens
<1>2. CASE step[c] = "keep"
  BY <1>1, <1>2 DEF CallerKnows
<1>3. CASE step[c] = "answer"
  <2>1. Known(held[c])'
    BY <1>1, <1>3 DEF CallerKnows, Known
  <2>. QED BY <1>3, <2>1 DEF CallerKnows
<1>. QED BY <1>2, <1>3 DEF CallerKnows

LEMMA StepKeepsKnowing ==
  ASSUME ProviderInv, ProviderNext \/ (Tick /\ UNCHANGED tokenVars)
  PROVE  ProviderInv'
<1>. USE HorizonAssumption
<1>1. /\ ProviderTypeOK /\ CachedKnown /\ \A c \in Callers : CallerKnows(c) /\ sentAt[c] \in Nat
      /\ now \in Nat
  BY DEF ProviderInv, ProviderTypeOK
<1>2. \A known \in Tokens : known.issuedAt \in Nat /\ known.readAt \in Nat /\ known.life \in Lifetimes
  BY DEF Tokens
<1>3. ASSUME NEW c \in Callers, Reuse(c) PROVE ProviderInv'
  <2>1. ProviderTypeOK'
    BY <1>1, <1>3, Zenon DEF ProviderTypeOK, Reuse, PGo, SendWith
  <2>2. CachedKnown'
    BY <1>1, <1>3 DEF CachedKnown, Known, Reuse
  <2>3. CallerKnows(c)'
    <3>1. Known(cached) /\ now < cached.readAt + KeptFor(cached.life)
      BY <1>1, <1>3 DEF Reuse, Usable, CachedKnown
    <3>2. held'[c] = cached /\ sentAt'[c] = now /\ step'[c] = "answer" /\ now' = now
      BY <1>1, <1>3 DEF Reuse, PGo, SendWith, ProviderTypeOK
    <3>. QED BY <3>1, <3>2, <1>1 DEF CallerKnows, Known
  <2>4. ASSUME NEW d \in Callers, d # c PROVE CallerKnows(d)'
    BY <1>1, <1>3, <2>4, OthersKeepKnowing DEF Reuse, PGo, SendWith, ProviderTypeOK
  <2>. QED BY <2>1, <2>2, <2>3, <2>4 DEF ProviderInv
<1>4. ASSUME NEW c \in Callers, Ask(c) PROVE ProviderInv'
  <2>1. ProviderTypeOK' /\ CachedKnown'
    BY <1>1, <1>4 DEF ProviderTypeOK, CachedKnown, Known, Ask, PGo
  <2>2. CallerKnows(c)'
    BY <1>1, <1>4 DEF Ask, PGo, CallerKnows, ProviderTypeOK
  <2>3. ASSUME NEW d \in Callers, d # c PROVE CallerKnows(d)'
    BY <1>1, <1>4, <2>3, OthersKeepKnowing DEF Ask, PGo, ProviderTypeOK
  <2>. QED BY <2>1, <2>2, <2>3 DEF ProviderInv
<1>5. ASSUME NEW c \in Callers, NEW life \in Lifetimes, Issue(c, life) PROVE ProviderInv'
  <2>. DEFINE access == [issuedAt |-> now, life |-> life, readAt |-> now]
  <2>1. access \in Tokens
    BY <1>1, <1>5 DEF ProviderTypeOK, Tokens
  <2>2. ProviderTypeOK' /\ CachedKnown'
    BY <1>1, <1>5, <2>1 DEF ProviderTypeOK, CachedKnown, Known, Issue, PGo
  <2>3. CallerKnows(c)'
    BY <1>1, <1>5, <2>1 DEF Issue, PGo, CallerKnows, ProviderTypeOK
  <2>4. ASSUME NEW d \in Callers, d # c PROVE CallerKnows(d)'
    BY <1>1, <1>5, <2>4, OthersKeepKnowing DEF Issue, PGo, ProviderTypeOK
  <2>. QED BY <2>2, <2>3, <2>4 DEF ProviderInv
<1>6. ASSUME NEW c \in Callers, Keep(c) PROVE ProviderInv'
  <2>. DEFINE access == [held[c] EXCEPT !.readAt = now]
  <2>1. held[c] \in Tokens /\ held[c].issuedAt <= now
    BY <1>1, <1>6 DEF Keep, PGo, CallerKnows
  <2>2. /\ access \in Tokens /\ access.readAt = now /\ access.issuedAt = held[c].issuedAt
        /\ access.life \in Lifetimes
    BY <1>1, <2>1 DEF ProviderTypeOK, Tokens
  <2>3. Known(access)
    BY <1>1, <2>1, <2>2 DEF Known
  <2>4. KeptFor(access.life) \in Int /\ KeptFor(access.life) >= 1
    BY <2>2, KeptForBounds, ProviderAssumption
  <2>5. /\ cached' = access /\ until' = now + KeptFor(access.life) /\ now' = now
        /\ step' = [step EXCEPT ![c] = "answer"]
        /\ held' = [held EXCEPT ![c] = access] /\ sentAt' = [sentAt EXCEPT ![c] = now]
    BY <1>6 DEF Keep, PGo, SendWith
  <2>. HIDE DEF access
  <2>6. ProviderTypeOK'
    BY <1>1, <2>2, <2>4, <2>5 DEF ProviderTypeOK
  <2>7. CachedKnown'
    BY <2>2, <2>3, <2>5 DEF CachedKnown, Known
  <2>8. CallerKnows(c)'
    <3>1. held'[c] = access /\ sentAt'[c] = now /\ step'[c] = "answer"
      BY <1>1, <2>5 DEF ProviderTypeOK
    <3>. QED BY <1>1, <2>2, <2>3, <2>4, <2>5, <3>1 DEF CallerKnows, Known
  <2>9. ASSUME NEW d \in Callers, d # c PROVE CallerKnows(d)'
    BY <1>1, <2>5, <2>9, OthersKeepKnowing DEF ProviderTypeOK
  <2>. QED BY <2>6, <2>7, <2>8, <2>9 DEF ProviderInv
<1>7. ASSUME NEW c \in Callers, Return(c) PROVE ProviderInv'
  <2>1. ProviderTypeOK' /\ CachedKnown'
    BY <1>1, <1>7 DEF ProviderTypeOK, CachedKnown, Known, Return, PGo
  <2>2. CallerKnows(c)'
    BY <1>1, <1>7 DEF Return, PGo, CallerKnows, ProviderTypeOK
  <2>3. ASSUME NEW d \in Callers, d # c PROVE CallerKnows(d)'
    BY <1>1, <1>7, <2>3, OthersKeepKnowing DEF Return, PGo, ProviderTypeOK
  <2>. QED BY <2>1, <2>2, <2>3 DEF ProviderInv
<1>8. ASSUME RestartProvider PROVE ProviderInv'
  BY <1>1, <1>8 DEF RestartProvider, ProviderInv, ProviderTypeOK, CachedKnown, CallerKnows
<1>9. ASSUME Tick, UNCHANGED tokenVars PROVE ProviderInv'
  <2>1. ProviderTypeOK' /\ now' \in Nat /\ now <= now'
    BY <1>1, <1>9 DEF ProviderTypeOK, Tick, tokenVars
  <2>2. CachedKnown'
    BY <1>1, <1>2, <1>9, <2>1 DEF CachedKnown, Known, tokenVars
  <2>3. ASSUME NEW c \in Callers PROVE CallerKnows(c)'
    BY <1>1, <1>9, <2>1, OthersKeepKnowing DEF tokenVars
  <2>. QED BY <2>1, <2>2, <2>3 DEF ProviderInv
<1>. QED BY <1>3, <1>4, <1>5, <1>6, <1>7, <1>8, <1>9 DEF ProviderNext

LEMMA StutterKeepsKnowing == ProviderInv /\ UNCHANGED providerVars => ProviderInv'
  BY DEF ProviderInv, ProviderTypeOK, CachedKnown, CallerKnows, Known, providerVars, tokenVars

LEMMA ProviderInvariant == ProviderSpec => []ProviderInv
<1>1. ProviderInv /\ [ProviderNext \/ (Tick /\ UNCHANGED tokenVars)]_providerVars => ProviderInv'
  BY StepKeepsKnowing, StutterKeepsKnowing
<1>. QED BY <1>1, InitKnows, PTL DEF ProviderSpec

\* The variables of the cached token and of its users are well typed (nomba.provider.ts:37,
\* getAccessToken): until is the end of a token's keeping, or 0.
THEOREM ProviderTyped == ProviderSpec => []ProviderTypeOK
  BY ProviderInvariant, PTL DEF ProviderInv

\* A token that is issued for margin and floor at least is alive whenever a request carries it,
\* however callers overlap and answers are delayed by up to the margin.  A shorter one is sent out
\* dead as well, but for less than the floor after its end (getAccessToken, lines 209-231), the
\* way of the answer that brought it added.
THEOREM AliveTokens == ProviderSpec => []TokensSentAreAlive
<1>1. ProviderInv => TokensSentAreAlive
  <2>. SUFFICES ASSUME ProviderInv, NEW c \in Callers, step[c] = "answer"
                PROVE  LET access == held[c]
                           delay == (access.readAt - access.issuedAt) + (now - sentAt[c])
                       IN /\ access.life >= Margin + Floor /\ delay <= Margin
                               => now < ExpiresAt(access)
                          /\ sentAt[c] < ExpiresAt(access) + Floor + (access.readAt - access.issuedAt)
    BY DEF TokensSentAreAlive
  <2>1. /\ Known(held[c]) /\ sentAt[c] < held[c].readAt + KeptFor(held[c].life)
        /\ now \in Nat /\ sentAt[c] \in Nat
    BY HorizonAssumption DEF ProviderInv, ProviderTypeOK, CallerKnows
  <2>2. /\ held[c].life \in Lifetimes /\ held[c].life \in Nat
        /\ held[c].readAt \in Nat /\ held[c].issuedAt \in Nat
    <3>1. held[c] \in Tokens
      BY <2>1 DEF Known
    <3>2. \A known \in Tokens :
            known.life \in Lifetimes /\ known.readAt \in Nat /\ known.issuedAt \in Nat
      BY HorizonAssumption DEF Tokens
    <3>. QED BY <3>1, <3>2, ProviderAssumption
  <2>3. /\ KeptFor(held[c].life) \in Int
        /\ KeptFor(held[c].life) = Floor \/ KeptFor(held[c].life) = held[c].life - Margin
        /\ held[c].life >= Margin + Floor => KeptFor(held[c].life) = held[c].life - Margin
    BY <2>2, KeptForBounds
  <2>. QED BY <2>1, <2>2, <2>3, ProviderAssumption DEF ExpiresAt
<1>. QED BY <1>1, ProviderInvariant, PTL

-----------------------------------------------------------------------------
(* The rate limit.  An address's window and the one before it are all that any  *)
(* stretch of a window's length can meet.                                       *)

Requests == [at : Nat, admitted : BOOLEAN]

GatesTyped == /\ now \in Nat
              /\ bucket \in [Addresses -> [count : Nat, resetAt : Int]]
              /\ arrivals \in [Addresses -> Seq(Requests)]

\* The requests let pass in a stretch of time.
Passed(a, first, last) == {j \in DOMAIN arrivals[a] : /\ arrivals[a][j].admitted
                                                      /\ arrivals[a][j].at \in first..last}

AtMost(S, n) == IsFiniteSet(S) /\ Cardinality(S) <= n

\* The window of a opened at most now, no request is later than its end, and no more have passed
\* within it than it has counted, nor than the limit; the same limit holds for what any stretch
\* that reaches into it may have met before.
WindowSound(a) ==
  LET b == bucket[a]
  IN /\ b.resetAt <= now + Window
     /\ \A j \in DOMAIN arrivals[a] : arrivals[a][j].at < b.resetAt
     /\ AtMost(Passed(a, b.resetAt - Window, b.resetAt - 1), b.count)
     /\ AtMost(Passed(a, b.resetAt - Window, b.resetAt - 1), Limit)
     /\ AtMost(Passed(a, b.resetAt - 2 * Window + 1, b.resetAt - Window - 1), Limit)

\* The requests it has counted are the last ones, and came within it.
CountSound(a) ==
  LET b == bucket[a]
  IN /\ b.count <= Len(arrivals[a])
     /\ \A j \in DOMAIN arrivals[a] :
          j > Len(arrivals[a]) - b.count => arrivals[a][j].at >= b.resetAt - Window

StretchSound(a) == \A s \in Int : AtMost(Passed(a, s, s + Window - 1), 2 * Limit)

Recent(a, i) == {j \in 1..(i - 1) : arrivals[a][j].at > arrivals[a][i].at - Window}

RefusedSound(a) ==
  \A i \in DOMAIN arrivals[a] : ~arrivals[a][i].admitted => Cardinality(Recent(a, i)) >= Limit

AddressSound(a) == WindowSound(a) /\ CountSound(a) /\ StretchSound(a) /\ RefusedSound(a)

\* A behaviour that moves another part has no requests of its own.
GateInv ==
  /\ part = "gate" => GatesTyped /\ \A a \in Addresses : AddressSound(a)
  /\ part # "gate" => arrivals = [a \in Addresses |-> << >>]

LEMMA AtMostUnion ==
  ASSUME NEW S, NEW T, NEW U, NEW m \in Int, NEW n \in Int, AtMost(S, m), AtMost(T, n),
         U \subseteq S \cup T
  PROVE  AtMost(U, m + n)
<1>1. /\ IsFiniteSet(S \cup T)
      /\ Cardinality(S \cup T) = Cardinality(S) + Cardinality(T) - Cardinality(S \cap T)
  BY FS_Union DEF AtMost
<1>2. IsFiniteSet(S \cap T)
  BY FS_Intersection DEF AtMost
<1>3. IsFiniteSet(U) /\ Cardinality(U) <= Cardinality(S \cup T)
  BY <1>1, FS_Subset
<1>4. /\ Cardinality(S) \in Nat /\ Cardinality(T) \in Nat /\ Cardinality(S \cap T) \in Nat
      /\ Cardinality(U) \in Nat /\ Cardinality(S \cup T) \in Nat
  BY <1>1, <1>2, <1>3, FS_CardinalityType DEF AtMost
<1>. QED BY <1>1, <1>3, <1>4 DEF AtMost

LEMMA AtMostSubset ==
  ASSUME NEW S, NEW U, NEW m \in Int, NEW n \in Int, AtMost(S, m), U \subseteq S, m <= n
  PROVE  AtMost(U, n)
<1>1. IsFiniteSet(U) /\ Cardinality(U) <= Cardinality(S)
  BY FS_Subset DEF AtMost
<1>2. Cardinality(S) \in Nat /\ Cardinality(U) \in Nat
  BY <1>1, FS_CardinalityType DEF AtMost
<1>. QED BY <1>1, <1>2 DEF AtMost

LEMMA AtMostOne == ASSUME NEW x PROVE AtMost({x}, 1)
  BY FS_Singleton DEF AtMost

LEMMA AtMostNone == ASSUME NEW n \in Nat PROVE AtMost({}, n)
  BY FS_EmptySet DEF AtMost

-----------------------------------------------------------------------------
\* The requests of a after one more, t being the present.
Joined(a, n, t) ==
  /\ DOMAIN arrivals[a] = 1..n /\ Len(arrivals[a]) = n
  /\ DOMAIN arrivals'[a] = 1..(n + 1) /\ Len(arrivals'[a]) = n + 1
  /\ \A j \in 1..n : arrivals[a][j].at \in Nat
  /\ \A j \in 1..n : arrivals'[a][j] = arrivals[a][j]
  /\ arrivals'[a][n + 1].at = t
  /\ arrivals'[a][n + 1].admitted <=> Admitted(a)

LEMMA OneArrival ==
  ASSUME GatesTyped, NEW a \in Addresses, Arrive(a), NEW n, n = Len(arrivals[a]), NEW t, t = now
  PROVE  /\ n \in Nat /\ t \in Nat
         /\ Joined(a, n, t)
         /\ arrivals' \in [Addresses -> Seq(Requests)]
         /\ \A b \in Addresses : b # a => arrivals'[b] = arrivals[b]
         /\ bucket'[a] = Counted(bucket[a])
<1>1. arrivals[a] \in Seq(Requests) /\ t \in Nat
  BY DEF GatesTyped
<1>2. PICK request : request = [at |-> t, admitted |-> Admitted(a)]
  OBVIOUS
<1>3. request \in Requests /\ request.at = t /\ (request.admitted <=> Admitted(a))
  <2>1. PICK ok \in BOOLEAN : ok = Admitted(a)
    <3>1. Admitted(a) \in BOOLEAN
      BY DEF Admitted
    <3>. QED BY <3>1, Zenon
  <2>2. request = [at |-> t, admitted |-> ok]
    BY <1>2, <2>1, Zenon
  <2>3. request \in Requests /\ request.at = t /\ request.admitted = ok
    BY <1>1, <2>2 DEF Requests
  <2>4. ok <=> Admitted(a)
    BY <2>1, Zenon
  <2>. QED BY <2>3, <2>4, Zenon
<1>4. /\ arrivals' = [arrivals EXCEPT ![a] = Append(arrivals[a], request)]
      /\ bucket'[a] = Counted(bucket[a])
  BY <1>2 DEF Arrive, Count, GatesTyped
<1>5. /\ arrivals'[a] = Append(arrivals[a], request)
      /\ \A b \in Addresses : b # a => arrivals'[b] = arrivals[b]
  BY <1>4 DEF GatesTyped
<1>6. Append(arrivals[a], request) \in Seq(Requests)
  BY <1>1, <1>3
<1>7. arrivals' \in [Addresses -> Seq(Requests)]
  BY <1>4, <1>6 DEF GatesTyped
<1>8. n \in Nat /\ DOMAIN arrivals[a] = 1..n
  BY <1>1
<1>9. \A j \in 1..n : arrivals[a][j] \in Requests
  BY <1>1, <1>8
<1>10. \A j \in 1..n : arrivals[a][j].at \in Nat
  BY <1>9 DEF Requests
<1>11. /\ Len(arrivals'[a]) = n + 1
       /\ \A j \in 1..n : arrivals'[a][j] = arrivals[a][j]
       /\ arrivals'[a][n + 1] = request
  BY <1>1, <1>3, <1>5, <1>8
<1>12. DOMAIN arrivals'[a] = 1..(n + 1)
  BY <1>5, <1>6, <1>11
<1>. QED BY <1>1, <1>3, <1>4, <1>5, <1>7, <1>8, <1>10, <1>11, <1>12 DEF Joined

LEMMA PassedGrows ==
  ASSUME NEW a, NEW n \in Nat, NEW t \in Nat, Joined(a, n, t), NEW first \in Int, NEW last \in Int
  PROVE  /\ Passed(a, first, last)' \subseteq Passed(a, first, last) \cup {n + 1}
         /\ (t \notin first..last \/ ~Admitted(a)) =>
              Passed(a, first, last)' \subseteq Passed(a, first, last)
<1>1. \A j \in 1..(n + 1) : j \in 1..n \/ j = n + 1
  OBVIOUS
<1>2. ASSUME NEW j, j \in Passed(a, first, last)', j # n + 1 PROVE j \in Passed(a, first, last)
  <2>1. j \in 1..n
    BY <1>1, <1>2 DEF Joined, Passed
  <2>. QED BY <1>2, <2>1 DEF Joined, Passed
<1>3. n + 1 \in Passed(a, first, last)' => t \in first..last /\ Admitted(a)
  BY DEF Joined, Passed
<1>. QED BY <1>2, <1>3

\* A stretch that the present is in meets the window and what the one before it leaves.
LEMMA StretchesMeetTwo ==
  ASSUME NEW a, NEW n \in Nat, NEW t \in Nat, Joined(a, n, t), StretchSound(a),
         NEW end \in Int, bucket'[a].resetAt = end, WindowSound(a)', now' = t
  PROVE  StretchSound(a)'
<1>. DEFINE before == Passed(a, end - 2 * Window + 1, end - Window - 1)'
            within == Passed(a, end - Window, end - 1)'
<1>. USE GatesAssumption
<1>1. SUFFICES ASSUME NEW s \in Int PROVE AtMost(Passed(a, s, s + Window - 1)', 2 * Limit)
  BY DEF StretchSound
<1>2. end <= t + Window
  BY DEF WindowSound
<1>3. CASE t \notin s..(s + Window - 1)
  <2>1. AtMost(Passed(a, s, s + Window - 1), 2 * Limit)
    BY DEF StretchSound
  <2>2. Passed(a, s, s + Window - 1)' \subseteq Passed(a, s, s + Window - 1)
    <3>1. s + Window - 1 \in Int
      OBVIOUS
    <3>. QED BY <1>3, <3>1, PassedGrows
  <2>. QED BY <2>1, <2>2, AtMostSubset
<1>4. CASE t \in s..(s + Window - 1)
  <2>1. AtMost(before, Limit) /\ AtMost(within, Limit)
    BY DEF WindowSound
  <2>2. ASSUME NEW j \in Passed(a, s, s + Window - 1)' PROVE j \in before \cup within
    <3>1. j \in DOMAIN arrivals'[a] /\ arrivals'[a][j].admitted /\ arrivals'[a][j].at \in Int
          /\ s <= arrivals'[a][j].at
      BY <2>2 DEF Passed
    <3>2. arrivals'[a][j].at < end
      BY <3>1 DEF WindowSound
    <3>3. \/ arrivals'[a][j].at \in (end - 2 * Window + 1)..(end - Window - 1)
          \/ arrivals'[a][j].at \in (end - Window)..(end - 1)
      BY <1>2, <1>4, <3>1, <3>2
    <3>. QED BY <3>1, <3>3 DEF Passed
  <2>. HIDE DEF before, within
  <2>3. Passed(a, s, s + Window - 1)' \subseteq before \cup within
    BY <2>2
  <2>4. AtMost(Passed(a, s, s + Window - 1)', Limit + Limit)
    <3>1. Limit \in Int
      OBVIOUS
    <3>. QED BY <2>1, <2>3, <3>1, AtMostUnion, Zenon
  <2>5. Limit + Limit = 2 * Limit
    OBVIOUS
  <2>. QED BY <2>4, <2>5
<1>. QED BY <1>3, <1>4

\* Earlier refusals keep their reason.
LEMMA RecentStays ==
  ASSUME NEW a, NEW n \in Nat, NEW t \in Nat, Joined(a, n, t), NEW i \in 1..n
  PROVE  Recent(a, i)' = Recent(a, i)
<1>1. \A j \in 1..(i - 1) : arrivals'[a][j] = arrivals[a][j]
  BY DEF Joined
<1>2. arrivals'[a][i] = arrivals[a][i]
  BY DEF Joined
<1>. QED BY <1>1, <1>2 DEF Recent

\* A request within the window of its address.
LEMMA CountedIsSound ==
  ASSUME NEW a, NEW n \in Nat, NEW t \in Nat, Joined(a, n, t), now = t, now' = t, AddressSound(a),
         NEW end \in Int, bucket[a].resetAt = end, NEW c \in Nat, bucket[a].count = c, t < end,
         bucket'[a].resetAt = end, bucket'[a].count = c + 1
  PROVE  AddressSound(a)'
<1>. USE GatesAssumption
<1>1. Admitted(a) <=> c + 1 <= Limit
  BY DEF Admitted
<1>2. \A j \in 1..(n + 1) : j \in 1..n \/ j = n + 1
  OBVIOUS
<1>3. WindowSound(a)'
  <2>1. end <= t + Window
    BY DEF WindowSound, AddressSound
  <2>2. \A j \in DOMAIN arrivals'[a] : arrivals'[a][j].at < end
    BY <1>2 DEF WindowSound, AddressSound, Joined
  <2>3. AtMost(Passed(a, end - Window, end - 1)', c + 1)
    <3>1. AtMost(Passed(a, end - Window, end - 1), c)
      BY DEF WindowSound, AddressSound
    <3>2. AtMost({n + 1}, 1)
      BY AtMostOne
    <3>3. Passed(a, end - Window, end - 1)' \subseteq Passed(a, end - Window, end - 1) \cup {n + 1}
      <4>1. end - Window \in Int /\ end - 1 \in Int
        OBVIOUS
      <4>. QED BY <4>1, PassedGrows
    <3>. QED BY <3>1, <3>2, <3>3, AtMostUnion
  <2>4. AtMost(Passed(a, end - Window, end - 1)', Limit)
    <3>1. CASE Admitted(a)
      <4>1. Passed(a, end - Window, end - 1)' \subseteq Passed(a, end - Window, end - 1)'
        OBVIOUS
      <4>. QED BY <1>1, <2>3, <3>1, <4>1, AtMostSubset
    <3>2. CASE ~Admitted(a)
      <4>1. AtMost(Passed(a, end - Window, end - 1), Limit)
        BY DEF WindowSound, AddressSound
      <4>2. end - Window \in Int /\ end - 1 \in Int
        OBVIOUS
      <4>3. Passed(a, end - Window, end - 1)' \subseteq Passed(a, end - Window, end - 1)
        BY <3>2, <4>2, PassedGrows
      <4>. QED BY <4>1, <4>3, AtMostSubset
    <3>. QED BY <3>1, <3>2
  <2>5. AtMost(Passed(a, end - 2 * Window + 1, end - Window - 1)', Limit)
    <3>1. AtMost(Passed(a, end - 2 * Window + 1, end - Window - 1), Limit)
      BY DEF WindowSound, AddressSound
    <3>2. /\ t \notin (end - 2 * Window + 1)..(end - Window - 1)
          /\ end - 2 * Window + 1 \in Int /\ end - Window - 1 \in Int
      BY <2>1
    <3>3. Passed(a, end - 2 * Window + 1, end - Window - 1)'
            \subseteq Passed(a, end - 2 * Window + 1, end - Window - 1)
      <4>. HIDE GatesAssumption
      <4>. QED BY <3>2, PassedGrows
    <3>. QED BY <3>1, <3>3, AtMostSubset
  <2>. QED BY <2>1, <2>2, <2>3, <2>4, <2>5 DEF WindowSound
<1>4. /\ c <= n
      /\ \A j \in 1..n : j > n - c => arrivals[a][j].at >= end - Window
      /\ t >= end - Window
  <2>1. DOMAIN arrivals[a] = 1..n /\ Len(arrivals[a]) = n
    BY DEF Joined
  <2>2. c <= n /\ \A j \in 1..n : j > n - c => arrivals[a][j].at >= end - Window
    BY <2>1 DEF CountSound, AddressSound
  <2>3. end <= t + Window
    BY DEF WindowSound, AddressSound
  <2>. QED BY <2>2, <2>3
<1>5. CountSound(a)'
  <2>1. \A j \in 1..(n + 1) : j > (n + 1) - (c + 1) => arrivals'[a][j].at >= end - Window
    <3>. SUFFICES ASSUME NEW j \in 1..(n + 1), j > (n + 1) - (c + 1)
                  PROVE  arrivals'[a][j].at >= end - Window
      OBVIOUS
    <3>1. CASE j = n + 1
      BY <1>4, <3>1 DEF Joined
    <3>2. CASE j \in 1..n
      <4>1. j > n - c
        OBVIOUS
      <4>. QED BY <1>4, <3>2, <4>1 DEF Joined
    <3>. QED BY <1>2, <3>1, <3>2
  <2>. QED BY <1>4, <2>1 DEF CountSound, Joined
<1>6. StretchSound(a)'
  BY <1>3, StretchesMeetTwo DEF AddressSound
<1>7. RefusedSound(a)'
  <2>. SUFFICES ASSUME NEW i \in 1..(n + 1), ~arrivals'[a][i].admitted
                PROVE  Cardinality(Recent(a, i)') >= Limit
    BY DEF RefusedSound, Joined
  <2>1. CASE i \in 1..n
    <3>1. ~arrivals[a][i].admitted
      BY <2>1 DEF Joined
    <3>2. Cardinality(Recent(a, i)) >= Limit
      BY <2>1, <3>1 DEF RefusedSound, AddressSound, Joined
    <3>. QED BY <2>1, <3>2, RecentStays
  <2>2. CASE i = n + 1
    <3>1. c >= Limit
      BY <1>1, <2>2 DEF Joined
    <3>2. ASSUME NEW j \in (n - c + 1)..n PROVE j \in Recent(a, i)'
      <4>1. j \in 1..n /\ j > n - c
        BY <1>4
      <4>2. arrivals'[a][j].at >= end - Window /\ arrivals'[a][j].at \in Nat
            /\ arrivals'[a][i].at = t
        BY <1>4, <2>2, <4>1 DEF Joined
      <4>. QED BY <2>2, <4>1, <4>2 DEF Recent
    <3>3. IsFiniteSet(Recent(a, i)')
      <4>1. Recent(a, i)' \subseteq 1..n
        BY <2>2 DEF Recent
      <4>2. IsFiniteSet(1..n)
        <5>1. 1 \in Int /\ n \in Int
          OBVIOUS
        <5>. QED BY <5>1, FS_Interval
      <4>. QED BY <4>1, <4>2, FS_Subset
    <3>4. Cardinality((n - c + 1)..n) = c
      <4>1. n - c + 1 \in Int /\ n \in Int /\ ~(n - c + 1 > n) /\ n - (n - c + 1) + 1 = c
        BY <3>1
      <4>. QED BY <4>1, FS_Interval
    <3>5. Cardinality((n - c + 1)..n) <= Cardinality(Recent(a, i)')
      BY <3>2, <3>3, FS_Subset
    <3>6. Cardinality(Recent(a, i)') \in Nat
      BY <3>3, FS_CardinalityType
    <3>. QED BY <3>1, <3>4, <3>5, <3>6
  <2>. QED BY <1>2, <2>1, <2>2
<1>. QED BY <1>3, <1>5, <1>6, <1>7 DEF AddressSound

\* A request that opens a window.
LEMMA OpenedIsSound ==
  ASSUME NEW a, NEW n \in Nat, NEW t \in Nat, Joined(a, n, t), now = t, now' = t, AddressSound(a),
         NEW end \in Int, bucket[a].resetAt = end, end <= t,
         bucket'[a].resetAt = t + Window, bucket'[a].count = 1
  PROVE  AddressSound(a)'
<1>. USE GatesAssumption
<1>1. Admitted(a)
  BY DEF Admitted
<1>2. \A j \in 1..(n + 1) : j \in 1..n \/ j = n + 1
  OBVIOUS
<1>3. \A j \in 1..n : arrivals'[a][j].at < end /\ arrivals'[a][j].at \in Nat
  BY DEF WindowSound, AddressSound, Joined
<1>4. WindowSound(a)'
  <2>1. \A j \in DOMAIN arrivals'[a] : arrivals'[a][j].at < t + Window
    BY <1>2, <1>3, SMTT(30) DEF Joined
  <2>2. AtMost(Passed(a, t, t + Window - 1)', 1)
    <3>1. Passed(a, t, t + Window - 1)' \subseteq {n + 1}
      BY <1>2, <1>3 DEF Passed, Joined
    <3>2. AtMost({n + 1}, 1)
      BY AtMostOne
    <3>. QED BY <3>1, <3>2, AtMostSubset
  <2>3. AtMost(Passed(a, t, t + Window - 1)', Limit)
    <3>1. Passed(a, t, t + Window - 1)' \subseteq Passed(a, t, t + Window - 1)'
      OBVIOUS
    <3>. QED BY <2>2, <3>1, AtMostSubset
  <2>4. AtMost(Passed(a, t - Window + 1, t - 1)', Limit)
    <3>1. AtMost(Passed(a, end - Window, end - 1), Limit)
      BY DEF WindowSound, AddressSound
    <3>2. ASSUME NEW j \in Passed(a, t - Window + 1, t - 1)' PROVE j \in Passed(a, end - Window, end - 1)
      <4>1. /\ j \in 1..n /\ arrivals'[a][j].admitted
            /\ arrivals'[a][j].at \in (t - Window + 1)..(t - 1)
        BY <1>2, <3>2 DEF Passed, Joined
      <4>2. arrivals'[a][j].at \in (end - Window)..(end - 1)
        BY <1>3, <4>1
      <4>. QED BY <4>1, <4>2 DEF Passed, Joined
    <3>3. Passed(a, t - Window + 1, t - 1)' \subseteq Passed(a, end - Window, end - 1)
      BY <3>2
    <3>. QED BY <3>1, <3>3, AtMostSubset
  <2>5. /\ (t + Window) - Window = t
        /\ (t + Window) - 2 * Window + 1 = t - Window + 1
        /\ (t + Window) - Window - 1 = t - 1
    OBVIOUS
  <2>. QED BY <2>1, <2>2, <2>3, <2>4, <2>5 DEF WindowSound
<1>5. CountSound(a)'
  <2>1. \A j \in 1..(n + 1) : j > (n + 1) - 1 => arrivals'[a][j].at >= (t + Window) - Window
    BY DEF Joined
  <2>. QED BY <2>1 DEF CountSound, Joined
<1>6. StretchSound(a)'
  BY <1>4, StretchesMeetTwo DEF AddressSound
<1>7. RefusedSound(a)'
  <2>. SUFFICES ASSUME NEW i \in 1..(n + 1), ~arrivals'[a][i].admitted
                PROVE  Cardinality(Recent(a, i)') >= Limit
    BY DEF RefusedSound, Joined
  <2>1. i \in 1..n /\ ~arrivals[a][i].admitted
    BY <1>1, <1>2 DEF Joined
  <2>2. Cardinality(Recent(a, i)) >= Limit
    BY <2>1 DEF RefusedSound, AddressSound, Joined
  <2>. QED BY <2>1, <2>2, RecentStays
<1>. QED BY <1>4, <1>5, <1>6, <1>7 DEF AddressSound

\* Other addresses, time and a restart.
LEMMA LeftAloneIsSound ==
  ASSUME GatesTyped, NEW a, AddressSound(a), now' \in Nat, now <= now',
         arrivals'[a] = arrivals[a], bucket'[a] = bucket[a], bucket[a].resetAt \in Int
  PROVE  AddressSound(a)'
<1>1. WindowSound(a)'
  BY GatesAssumption DEF AddressSound, WindowSound, Passed, GatesTyped
<1>. QED BY <1>1 DEF AddressSound, CountSound, StretchSound, RefusedSound, Passed, Recent

LEMMA EmptyIsSound ==
  \A a \in Addresses : arrivals[a] = << >> /\ bucket[a] = NoBucket /\ now \in Nat => AddressSound(a)
<1>. SUFFICES ASSUME NEW a \in Addresses, arrivals[a] = << >>, bucket[a] = NoBucket, now \in Nat
              PROVE  AddressSound(a)
  OBVIOUS
<1>. USE GatesAssumption
<1>1. DOMAIN arrivals[a] = {} /\ Len(arrivals[a]) = 0
  OBVIOUS
<1>2. ASSUME NEW s, NEW t PROVE Passed(a, s, t) = {}
  BY <1>1 DEF Passed
<1>3. bucket[a].count = 0 /\ bucket[a].resetAt = 0
  BY DEF NoBucket
<1>4. AtMost({}, 0) /\ AtMost({}, Limit) /\ AtMost({}, 2 * Limit)
  BY AtMostNone
<1>5. WindowSound(a)
  <2>1. 0 <= now + Window
    OBVIOUS
  <2>. QED BY <1>1, <1>2, <1>3, <1>4, <2>1, Zenon DEF WindowSound
<1>6. StretchSound(a)
  BY <1>2, <1>4, Zenon DEF StretchSound
<1>7. CountSound(a) /\ RefusedSound(a)
  BY <1>1, <1>3 DEF CountSound, RefusedSound
<1>. QED BY <1>5, <1>6, <1>7 DEF AddressSound

LEMMA GateStepSound ==
  ASSUME GatesTyped, \A a \in Addresses : AddressSound(a), GateNext
  PROVE  GatesTyped' /\ \A a \in Addresses : AddressSound(a)'
<1>. USE GatesAssumption
<1>1. \A a \in Addresses : bucket[a].resetAt \in Int /\ bucket[a].count \in Nat
  BY DEF GatesTyped
<1>2. ASSUME NEW a \in Addresses, Arrive(a), UNCHANGED now
      PROVE  GatesTyped' /\ \A b \in Addresses : AddressSound(b)'
  <2>1. PICK n, t, end, c : /\ n = Len(arrivals[a]) /\ t = now
                            /\ end = bucket[a].resetAt /\ c = bucket[a].count
    OBVIOUS
  <2>2. /\ n \in Nat /\ t \in Nat /\ end \in Int /\ c \in Nat
        /\ Joined(a, n, t)
        /\ arrivals' \in [Addresses -> Seq(Requests)]
        /\ \A b \in Addresses : b # a => arrivals'[b] = arrivals[b]
        /\ bucket'[a] = Counted(bucket[a])
    BY <1>1, <1>2, <2>1, OneArrival
  <2>3. bucket[a] = [count |-> c, resetAt |-> end]
    BY <2>1 DEF GatesTyped
  <2>4. Counted(bucket[a]) = IF end <= t THEN [count |-> 1, resetAt |-> t + Window]
                             ELSE [count |-> c + 1, resetAt |-> end]
    BY <2>1, <2>3 DEF Counted, Opened
  <2>5. GatesTyped'
    <3>1. Counted(bucket[a]) \in [count : Nat, resetAt : Int]
      BY <2>2, <2>4
    <3>2. bucket' \in [Addresses -> [count : Nat, resetAt : Int]]
      BY <1>2, <3>1 DEF GatesTyped, Arrive, Count
    <3>. QED BY <1>2, <2>2, <3>2 DEF GatesTyped
  <2>6. AddressSound(a)'
    <3>1. CASE t < end
      <4>1. bucket'[a] = [count |-> c + 1, resetAt |-> end]
        BY <2>2, <2>4, <3>1
      <4>2. AddressSound(a) /\ now = t /\ now' = t
        BY <1>2, <2>1
      <4>3. /\ bucket[a].resetAt = end /\ bucket[a].count = c
            /\ bucket'[a].resetAt = end /\ bucket'[a].count = c + 1
        BY <2>1, <4>1
      <4>4. n \in Nat /\ t \in Nat /\ end \in Int /\ c \in Nat /\ Joined(a, n, t)
        BY <2>2
      <4>. QED BY ONLY <3>1, <4>2, <4>3, <4>4, CountedIsSound
    <3>2. CASE end <= t
      <4>1. bucket'[a] = [count |-> 1, resetAt |-> t + Window]
        BY <2>2, <2>4, <3>2
      <4>2. AddressSound(a) /\ now = t /\ now' = t
        BY <1>2, <2>1
      <4>3. bucket[a].resetAt = end /\ bucket'[a].resetAt = t + Window /\ bucket'[a].count = 1
        BY <2>1, <4>1
      <4>4. n \in Nat /\ t \in Nat /\ end \in Int /\ Joined(a, n, t)
        BY <2>2
      <4>. QED BY ONLY <3>2, <4>2, <4>3, <4>4, OpenedIsSound
    <3>. QED BY <2>2, <3>1, <3>2
  <2>7. ASSUME NEW b \in Addresses, b # a PROVE AddressSound(b)'
    <3>1. arrivals'[b] = arrivals[b] /\ bucket'[b] = bucket[b] /\ now' \in Nat /\ now <= now'
      BY <1>2, <2>2, <2>7 DEF Arrive, Count, GatesTyped
    <3>. QED BY <1>1, <2>7, <3>1, LeftAloneIsSound
  <2>. QED BY <2>5, <2>6, <2>7
<1>3. ASSUME RestartApi, arrivals' = [a \in Addresses |-> << >>], UNCHANGED now
      PROVE  GatesTyped' /\ \A a \in Addresses : AddressSound(a)'
  <2>1. GatesTyped'
    BY <1>3 DEF GatesTyped, RestartApi, NoBucket
  <2>2. \A a \in Addresses : arrivals'[a] = << >> /\ bucket'[a] = NoBucket' /\ now' \in Nat
    BY <1>3, <2>1 DEF RestartApi, GatesTyped, NoBucket
  <2>3. (\A a \in Addresses : arrivals[a] = << >> /\ bucket[a] = NoBucket /\ now \in Nat
           => AddressSound(a))'
    BY EmptyIsSound, PTL
  <2>. QED BY <2>1, <2>2, <2>3
<1>4. ASSUME Tick, UNCHANGED <<bucket, arrivals>>
      PROVE  GatesTyped' /\ \A a \in Addresses : AddressSound(a)'
  <2>1. GatesTyped' /\ now <= now'
    BY <1>4 DEF GatesTyped, Tick
  <2>. QED BY <1>1, <1>4, <2>1, LeftAloneIsSound DEF GatesTyped
<1>. QED BY <1>2, <1>3, <1>4 DEF GateNext

LEMMA GateInvariant == AccessSpec => []GateInv
<1>1. AccessInit => GateInv
  <2>. SUFFICES ASSUME AccessInit PROVE GateInv
    OBVIOUS
  <2>1. GatesTyped
    BY DEF AccessInit, GatesInit, GatesTyped, NoBucket
  <2>2. \A a \in Addresses : AddressSound(a)
    BY EmptyIsSound DEF AccessInit, GatesInit
  <2>. QED BY <2>1, <2>2 DEF AccessInit, GateInv
<1>2. GateInv /\ [AccessNext]_allVars => GateInv'
  <2>. SUFFICES ASSUME GateInv, [AccessNext]_allVars PROVE GateInv'
    OBVIOUS
  <2>1. CASE part = "gate" /\ GateNext /\ UNCHANGED part
    BY <2>1, GateStepSound DEF GateInv
  <2>2. CASE part # "gate" /\ UNCHANGED <<part, arrivals>>
    BY <2>2 DEF GateInv
  <2>3. CASE UNCHANGED allVars
    <3>1. UNCHANGED <<part, now, bucket, arrivals>>
      BY <2>3 DEF allVars, historyVars
    <3>2. GatesTyped => GatesTyped'
      BY <3>1 DEF GatesTyped
    <3>3. \A a \in Addresses : AddressSound(a) => AddressSound(a)'
      BY <3>1 DEF AddressSound, WindowSound, CountSound, StretchSound, RefusedSound, Passed, Recent
    <3>. QED BY <3>1, <3>2, <3>3 DEF GateInv
  <2>4. AccessNext => \/ part = "gate" /\ GateNext /\ UNCHANGED part
                      \/ part # "gate" /\ UNCHANGED <<part, arrivals>>
    BY DEF AccessNext, PortalStep, ProviderStep, historyVars
  <2>. QED BY <2>1, <2>2, <2>3, <2>4
<1>. QED BY <1>1, <1>2, PTL DEF AccessSpec

\* However the requests of an address fall around the end of a window, no stretch of time as long
\* as the window lets more than twice max of them pass (rateLimit.ts, createRateLimitHook): a
\* fixed window promises no less and no more.
THEOREM TwiceTheLimit == AccessSpec => []AtMostTwiceTheLimit
<1>1. GateInv => AtMostTwiceTheLimit
  <2>. SUFFICES ASSUME GateInv, NEW a \in Addresses, NEW i \in DOMAIN arrivals[a]
                PROVE  Cardinality(Passed(a, arrivals[a][i].at, arrivals[a][i].at + Window - 1))
                         <= 2 * Limit
    BY DEF AtMostTwiceTheLimit, Passed
  <2>1. part = "gate"
    <3>1. CASE part # "gate"
      <4>1. arrivals[a] = << >>
        BY <3>1 DEF GateInv
      <4>. QED BY <4>1
    <3>. QED BY <3>1
  <2>2. GatesTyped /\ StretchSound(a)
    BY <2>1 DEF GateInv, AddressSound
  <2>3. arrivals[a][i] \in Requests
    <3>1. arrivals[a] \in Seq(Requests)
      BY <2>2 DEF GatesTyped
    <3>. QED BY <3>1
  <2>4. arrivals[a][i].at \in Int
    BY <2>3 DEF Requests
  <2>. QED BY <2>2, <2>4 DEF StretchSound, AtMost
<1>. QED BY <1>1, GateInvariant, PTL

\* A request is answered with 429 only to an address that has sent max requests within less than
\* one window before it, the refused ones counted as well (rateLimit.ts, createRateLimitHook).
THEOREM PatientServed == AccessSpec => []PatientNeverRefused
<1>1. GateInv => PatientNeverRefused
  <2>. SUFFICES ASSUME GateInv, NEW a \in Addresses, NEW i \in DOMAIN arrivals[a],
                       ~arrivals[a][i].admitted
                PROVE  Cardinality(Recent(a, i)) >= Limit
    BY DEF PatientNeverRefused, Recent
  <2>1. part = "gate"
    <3>1. CASE part # "gate"
      <4>1. arrivals[a] = << >>
        BY <3>1 DEF GateInv
      <4>. QED BY <4>1
    <3>. QED BY <3>1
  <2>2. RefusedSound(a)
    BY <2>1 DEF GateInv, AddressSound
  <2>. QED BY <2>2 DEF RefusedSound
<1>. QED BY <1>1, GateInvariant, PTL

-----------------------------------------------------------------------------
(* The portal.  As long as its calls do not overlap, a dashboard on the screen  *)
(* is no older than the tab's last action, or another one is on its way.        *)

CallRecords == [kind : {"none", "login", "load", "action"}, answered : BOOLEAN, ok : BOOLEAN,
                token : Int, result : Int]

PortalTyped ==
  /\ now \in Nat /\ call \in [Calls -> CallRecords]
  /\ token \in Int /\ shown \in Int /\ version \in Nat /\ acted \in Nat
  /\ loading \in BOOLEAN /\ error \in BOOLEAN

\* A login that went well brought a token, and what is not under way has no answer.
AnswersSound ==
  \A k \in Calls : /\ Answered(k, "login") /\ call[k].ok => call[k].result # NoToken
                   /\ Free(k) => ~call[k].answered

\* A call that turns the spinner is under way.
Fetching == \E k \in Calls : call[k].kind \in {"load", "action"}

Alone == \A j, k \in UnderWay : j = k

\* As long as calls have not overlapped: the form is only sent without a token, a dashboard on its
\* way is not older than the tab's last action, and one that shows less is being replaced.
Orderly ==
  /\ Alone
  /\ \A k \in Calls : call[k].kind = "login" => token = NoToken
  /\ \A k \in Calls : Answered(k, "load") /\ call[k].ok => call[k].result >= acted
  /\ ~error /\ token # NoToken => shown >= acted \/ Fetching

PortalInv ==
  /\ PortalTyped
  /\ IsFiniteSet(UnderWay) /\ acted <= version
  /\ AnswersSound
  /\ loading => Fetching
  /\ ~overlapped => Orderly /\ Strays = {}

LEMMA CallsAreRecords ==
  /\ NoCall \in CallRecords /\ NoCall.kind = "none" /\ NoCall.answered = FALSE
  /\ \A kind \in {"login", "load", "action"}, tok \in Int :
       /\ Sent(kind, tok) \in CallRecords
       /\ Sent(kind, tok).kind = kind /\ Sent(kind, tok).answered = FALSE
<1>1. NoCall \in CallRecords /\ NoCall.kind = "none" /\ NoCall.answered = FALSE
  BY DEF CallRecords, NoCall, NoToken
<1>2. PICK blank : blank = NoCall
  OBVIOUS
<1>3. blank \in CallRecords /\ blank.answered = FALSE
  BY <1>1, <1>2 DEF NoCall
<1>4. ASSUME NEW kind \in {"login", "load", "action"}, NEW tok \in Int
      PROVE  /\ Sent(kind, tok) \in CallRecords
             /\ Sent(kind, tok).kind = kind /\ Sent(kind, tok).answered = FALSE
  <2>1. Sent(kind, tok) = [blank EXCEPT !.kind = kind, !.token = tok]
    BY <1>2 DEF Sent
  <2>. QED BY <1>3, <2>1 DEF CallRecords
<1>. QED BY <1>1, <1>4

LEMMA PortalStarts ==
  ASSUME AccessInit PROVE PortalInv
<1>1. PortalTyped
  <2>1. call \in [Calls -> CallRecords]
    BY CallsAreRecords DEF AccessInit, PortalInit
  <2>2. Nothing \in Int
    BY DEF Nothing
  <2>3. 0 \in Nat /\ NoToken \in Int
    BY DEF NoToken
  <2>. QED BY <2>1, <2>2, <2>3 DEF AccessInit, PortalInit, PortalTyped
<1>2. UnderWay = {}
  BY DEF AccessInit, PortalInit, UnderWay, Free, NoCall
<1>3. \A k \in Calls : call[k].kind = "none" /\ call[k].answered = FALSE
  BY DEF AccessInit, PortalInit, NoCall
<1>4. token = NoToken /\ loading = FALSE /\ acted = 0 /\ version = 0
  BY DEF AccessInit, PortalInit
<1>5. Orderly /\ AnswersSound
  BY <1>2, <1>3, <1>4 DEF Orderly, Alone, AnswersSound, Answered, Free
<1>6. IsFiniteSet(UnderWay)
  BY <1>2, FS_EmptySet
<1>7. Strays = {}
  BY DEF AccessInit, PortalInit, Strays
<1>. QED BY <1>1, <1>4, <1>5, <1>6, <1>7 DEF PortalInv

\* What the step of one call, or of none, must leave.
Leaves(k) ==
  /\ PortalTyped' /\ version <= version'
  /\ UnderWay' \subseteq UnderWay \cup {k}
  /\ AnswersSound'
  /\ loading' => Fetching'
  /\ Alone' /\ Strays' = {} /\ (~overlapped \/ (UnderWay = {} /\ UnderWay' # {})) => Orderly'

\* The step of a call changes its record alone.
LEMMA OneRecord ==
  ASSUME PortalTyped, NEW k \in Calls, NEW r \in CallRecords, call' = [call EXCEPT ![k] = r]
  PROVE  /\ call' \in [Calls -> CallRecords]
         /\ call'[k] = r
         /\ \A j \in Calls : j # k => call'[j] = call[j]
         /\ UnderWay' \subseteq UnderWay \cup {k}
         /\ r.kind # "none" => k \in UnderWay'
         /\ r.kind # "none" /\ Alone' => \A j \in Calls : j # k => call'[j].kind = "none"
<1>1. /\ call' \in [Calls -> CallRecords]
      /\ call'[k] = r
      /\ \A j \in Calls : j # k => call'[j] = call[j]
  BY DEF PortalTyped
<1>. QED BY <1>1 DEF UnderWay, Free, Alone

\* The tab's last action is no newer than the cases, and only a step under an action that is not
\* answered yet, or is left behind, moves it.
LEMMA ActedMoves ==
  ASSUME PortalInv, Watched, version' \in Nat, version <= version'
  PROVE  /\ acted' \in Nat /\ acted' <= version'
         /\ acted' # acted => \/ \E k \in UnderWay : call[k].kind = "action" /\ ~call[k].answered
                             \/ Strays # {}
  BY DEF PortalInv, PortalTyped, Watched

\* Whatever is under way when calls do not overlap is a single call.
LEMMA NotOverlapped ==
  ASSUME Watched, ~overlapped', IsFiniteSet(UnderWay')
  PROVE  Alone' /\ Strays' = {} /\ (~overlapped \/ (UnderWay = {} /\ UnderWay' # {}))
<1>1. PICK S : S = UnderWay'
  OBVIOUS
<1>2. ~(Cardinality(S) > 1) /\ Cardinality(S) \in Nat
  BY <1>1, FS_CardinalityType DEF Watched
<1>3. ASSUME NEW j \in S, NEW k \in S, j # k PROVE FALSE
  <2>1. IsFiniteSet({j}) /\ Cardinality({j}) = 1
    BY FS_Singleton
  <2>2. Cardinality({j} \cup {k}) = 2
    <3>1. k \notin {j}
      BY <1>3
    <3>2. Cardinality({j} \cup {k}) = IF k \in {j} THEN Cardinality({j}) ELSE Cardinality({j}) + 1
      BY ONLY <2>1, FS_AddElement
    <3>. QED BY ONLY <2>1, <3>1, <3>2
  <2>3. Cardinality({j} \cup {k}) <= Cardinality(S)
    <3>1. {j} \cup {k} \subseteq S
      OBVIOUS
    <3>. QED BY <1>1, <3>1, FS_Subset
  <2>. QED BY <1>2, <2>2, <2>3
<1>4. Strays' = {} /\ (~overlapped \/ (UnderWay = {} /\ UnderWay' # {}))
  BY DEF Watched
<1>. QED BY <1>1, <1>3, <1>4 DEF Alone

\* A call that starts, in a free slot or in that of the call it follows.
LEMMA StartLeaves ==
  ASSUME PortalInv, Watched, NEW k \in Calls, NEW tok \in Int, NEW kind \in {"login", "load", "action"},
         call' = [call EXCEPT ![k] = Sent(kind, tok)],
         kind = "login" => token' = NoToken,
         loading' => kind # "login" \/ (loading /\ Free(k)),
         loading' \in BOOLEAN, error' \in BOOLEAN, token' \in Int, shown' \in Int,
         UNCHANGED <<now, version>>
  PROVE  Leaves(k)
<1>1. PICK r : r = Sent(kind, tok)
  OBVIOUS
<1>2. r \in CallRecords /\ r.kind = kind /\ r.answered = FALSE
  BY <1>1, CallsAreRecords
<1>3. /\ call' \in [Calls -> CallRecords] /\ call'[k] = r
      /\ \A j \in Calls : j # k => call'[j] = call[j]
      /\ UnderWay' \subseteq UnderWay \cup {k}
      /\ Alone' => \A j \in Calls : j # k => call'[j].kind = "none"
  BY <1>1, <1>2, OneRecord DEF PortalInv
<1>4. acted' \in Nat
  BY ActedMoves DEF PortalInv, PortalTyped
<1>5. PortalTyped'
  BY <1>3, <1>4 DEF PortalInv, PortalTyped
<1>6. AnswersSound'
  BY <1>2, <1>3 DEF PortalInv, AnswersSound, Answered, Free
<1>7. kind # "login" => Fetching'
  BY <1>2, <1>3 DEF Fetching
<1>8. loading' => Fetching'
  <2>1. ASSUME Free(k), NEW j \in Calls, call[j].kind \in {"load", "action"} PROVE Fetching'
    BY <1>3, <2>1 DEF Fetching, Free
  <2>. QED BY <1>7, <2>1 DEF PortalInv, Fetching
<1>9. Alone' => Orderly'
  <2>. SUFFICES ASSUME Alone' PROVE Orderly'
    OBVIOUS
  <2>1. \A j \in Calls : call'[j].kind = "login" => token' = NoToken
    BY <1>2, <1>3
  <2>2. \A j \in Calls : ~Answered(j, "load")'
    BY <1>2, <1>3 DEF Answered
  <2>. QED BY <1>7, <2>1, <2>2 DEF Orderly, NoToken
<1>. QED BY <1>3, <1>5, <1>6, <1>8, <1>9 DEF Leaves, PortalInv, PortalTyped

\* A call that has its answer and gives its slot up.
LEMMA EndLeaves ==
  ASSUME PortalInv, Watched, NEW k \in Calls, ~Free(k),
         call' = [call EXCEPT ![k] = NoCall],
         loading' => loading /\ call[k].kind \notin {"load", "action"},
         Orderly => (~error' /\ token' # NoToken => shown' >= acted),
         loading' \in BOOLEAN, error' \in BOOLEAN, token' \in Int, shown' \in Int,
         UNCHANGED <<now, version>>
  PROVE  Leaves(k)
<1>1. PICK r : r = NoCall
  OBVIOUS
<1>2. r \in CallRecords /\ r.kind = "none" /\ r.answered = FALSE
  BY <1>1, CallsAreRecords
<1>3. /\ call' \in [Calls -> CallRecords] /\ call'[k] = r
      /\ \A j \in Calls : j # k => call'[j] = call[j]
      /\ UnderWay' \subseteq UnderWay \cup {k}
  BY <1>1, <1>2, OneRecord DEF PortalInv
<1>4. acted' = acted /\ acted' \in Nat
  BY DEF Watched, PortalInv, PortalTyped
<1>5. PortalTyped'
  BY <1>3, <1>4 DEF PortalInv, PortalTyped
<1>6. AnswersSound'
  BY <1>2, <1>3 DEF PortalInv, AnswersSound, Answered, Free
<1>7. loading' => Fetching'
  <2>1. ASSUME NEW j \in Calls, call[j].kind \in {"load", "action"}, j # k PROVE Fetching'
    BY <1>3, <2>1 DEF Fetching
  <2>. QED BY <2>1 DEF PortalInv, Fetching
<1>8. ASSUME ~overlapped PROVE Orderly'
  <2>1. Orderly /\ k \in UnderWay
    BY <1>8 DEF PortalInv, UnderWay
  <2>2. \A j \in Calls : call'[j].kind = "none"
    BY <1>2, <1>3, <2>1 DEF Orderly, Alone, UnderWay, Free
  <2>3. UnderWay' = {}
    BY <2>2 DEF UnderWay, Free
  <2>4. \A j \in Calls : call'[j].kind # "login" /\ ~Answered(j, "load")'
    BY <2>2 DEF Answered
  <2>. QED BY <1>4, <2>1, <2>3, <2>4 DEF Orderly, Alone, NoToken
<1>9. k \in UnderWay
  BY DEF UnderWay
<1>. QED BY <1>3, <1>5, <1>6, <1>7, <1>8, <1>9 DEF Leaves, PortalInv, PortalTyped

\* A call that is answered, or lost.
LEMMA ReplyLeaves ==
  ASSUME PortalInv, Watched, NEW k \in Calls, ~Free(k), NEW ok \in BOOLEAN, NEW result \in Int,
         Reply(k, ok, result),
         ok /\ call[k].kind = "login" => result # NoToken,
         ok /\ call[k].kind = "load" => result = version,
         version' \in Nat, version <= version', UNCHANGED <<now, token, shown, loading, error>>
  PROVE  Leaves(k)
<1>1. PICK old : old = call[k]
  OBVIOUS
<1>2. old \in CallRecords
  BY <1>1 DEF PortalInv, PortalTyped
<1>3. PICK r : r = [old EXCEPT !.answered = TRUE, !.ok = ok, !.result = result]
  OBVIOUS
<1>4. /\ r \in CallRecords /\ r.kind = old.kind /\ r.answered = TRUE /\ r.ok = ok
      /\ r.result = result
  BY <1>2, <1>3 DEF CallRecords
<1>5. call' = [call EXCEPT ![k] = r]
  BY <1>1, <1>2, <1>3 DEF Reply, PortalInv, PortalTyped
<1>6. /\ call' \in [Calls -> CallRecords] /\ call'[k] = r
      /\ \A j \in Calls : j # k => call'[j] = call[j]
      /\ UnderWay' \subseteq UnderWay \cup {k}
  BY <1>4, <1>5, OneRecord DEF PortalInv
<1>7. /\ acted' \in Nat
      /\ acted' # acted => \/ \E j \in UnderWay : call[j].kind = "action" /\ ~call[j].answered
                          \/ Strays # {}
  BY ActedMoves
<1>8. PortalTyped'
  BY <1>6, <1>7 DEF PortalInv, PortalTyped
<1>9. AnswersSound'
  BY <1>1, <1>4, <1>6 DEF PortalInv, AnswersSound, Answered, Free, NoToken
<1>10. \A j \in Calls : call'[j].kind = call[j].kind
  BY <1>1, <1>4, <1>6
<1>11. Fetching' = Fetching
  BY <1>10 DEF Fetching
<1>12. ASSUME ~overlapped PROVE Orderly'
  <2>1. Orderly /\ k \in UnderWay /\ Strays = {}
    BY <1>12 DEF PortalInv, UnderWay
  <2>2. UnderWay' = UnderWay /\ Alone'
    BY <1>10, <2>1 DEF Orderly, Alone, UnderWay, Free
  <2>3. \A j \in Calls : j # k => call'[j].kind = "none"
    BY <1>10, <2>1 DEF Orderly, Alone, UnderWay, Free
  <2>4. \A j \in Calls : call'[j].kind = "login" => token' = NoToken
    BY <1>10, <2>1 DEF Orderly
  <2>5. acted' # acted => old.kind = "action"
    BY <1>1, <1>7, <2>1 DEF Orderly, Alone
  <2>6. \A j \in Calls : (Answered(j, "load") /\ call[j].ok)' => call'[j].result >= acted'
    <3>1. ASSUME (Answered(k, "load") /\ call[k].ok)' PROVE call'[k].result >= acted'
      <4>1. old.kind = "load" /\ ok
        BY <1>4, <1>6, <3>1 DEF Answered
      <4>2. acted' = acted /\ result = version
        BY <1>1, <2>5, <4>1
      <4>. QED BY <1>4, <1>6, <4>2 DEF PortalInv, PortalTyped
    <3>. QED BY <2>3, <3>1 DEF Answered
  <2>7. acted' # acted => Fetching'
    BY <1>1, <1>10, <2>5 DEF Fetching
  <2>8. (~error /\ token # NoToken => shown >= acted \/ Fetching)'
    BY <1>11, <2>1, <2>7 DEF Orderly, NoToken
  <2>. QED BY <2>2, <2>4, <2>6, <2>8 DEF Orderly
<1>13. k \in UnderWay
  BY DEF UnderWay
<1>. QED BY <1>6, <1>8, <1>9, <1>11, <1>12, <1>13 DEF Leaves, PortalInv

\* A step that starts and ends no call.
LEMMA OthersLeave ==
  ASSUME PortalInv, Watched, NEW k, UNCHANGED <<call, loading, error>>,
         token' \in Int, shown' \in Int, now' \in Nat,
         UNCHANGED <<token, shown>> \/ token' = NoToken,
         version' \in Nat, version <= version'
  PROVE  Leaves(k)
<1>1. UnderWay' = UnderWay /\ Fetching' = Fetching
  BY DEF UnderWay, Free, Fetching
<1>2. /\ acted' \in Nat
      /\ acted' # acted => \/ \E j \in UnderWay : call[j].kind = "action" /\ ~call[j].answered
                          \/ Strays # {}
  BY ActedMoves
<1>3. PortalTyped'
  BY <1>2 DEF PortalInv, PortalTyped
<1>4. AnswersSound'
  BY DEF PortalInv, AnswersSound, Answered, Free, NoToken
<1>5. ASSUME ~overlapped PROVE Orderly'
  <2>1. Orderly /\ Strays = {}
    BY <1>5 DEF PortalInv
  <2>2. acted' # acted => Fetching
    BY <1>2, <2>1 DEF Fetching, UnderWay
  <2>3. \A j \in Calls : (Answered(j, "load") /\ call[j].ok)' => call'[j].result >= acted'
    <3>1. ASSUME NEW j \in Calls, Answered(j, "load") PROVE acted' = acted
      BY <1>2, <2>1, <3>1 DEF Orderly, Alone, UnderWay, Answered, Free
    <3>. QED BY <2>1, <3>1 DEF Orderly, Answered
  <2>. QED BY <1>1, <2>1, <2>2, <2>3 DEF Orderly, Alone, NoToken
<1>. QED BY <1>1, <1>3, <1>4, <1>5 DEF Leaves, PortalInv

\* The page opened again has one call at most.
LEMMA ReloadLeaves ==
  ASSUME PortalInv, Watched, NEW k \in Calls, Reload(k)
  PROVE  Leaves(k)
<1>1. PICK r : r = IF token # NoToken THEN Sent("load", token) ELSE NoCall
  OBVIOUS
<1>2. /\ r \in CallRecords /\ r.answered = FALSE
      /\ r.kind = IF token # NoToken THEN "load" ELSE "none"
      /\ NoCall \in CallRecords /\ NoCall.kind = "none" /\ NoCall.answered = FALSE
  BY <1>1, CallsAreRecords DEF PortalInv, PortalTyped
<1>3. call' = [j \in Calls |-> IF j = k THEN r ELSE NoCall]
  BY <1>1 DEF Reload
<1>4. /\ call' \in [Calls -> CallRecords] /\ call'[k] = r
      /\ r.kind = "none" => r.answered = FALSE
      /\ \A j \in Calls : j # k => call'[j].kind = "none" /\ call'[j].answered = FALSE
  <2>1. \A j \in Calls : j # k => call'[j] = NoCall
    BY <1>3
  <2>2. call'[k] = r /\ call' \in [Calls -> CallRecords]
    BY <1>2, <1>3
  <2>. QED BY <1>2, <2>1, <2>2
<1>5. UnderWay' \subseteq {k} /\ UNCHANGED <<now, token, version>>
  BY <1>4 DEF UnderWay, Free, Reload
<1>6. acted' \in Nat
  BY <1>5, ActedMoves DEF PortalInv, PortalTyped
<1>7. PortalTyped'
  <2>1. shown' \in Int /\ loading' \in BOOLEAN /\ error' \in BOOLEAN
    <3>1. (token # NoToken) \in BOOLEAN
      OBVIOUS
    <3>2. Nothing \in Int
      BY DEF Nothing
    <3>. QED BY <3>1, <3>2 DEF Reload
  <2>. QED BY <1>4, <1>5, <1>6, <2>1 DEF PortalInv, PortalTyped
<1>8. AnswersSound'
  BY <1>2, <1>4 DEF AnswersSound, Answered, Free
<1>9. token # NoToken => Fetching'
  BY <1>2, <1>4 DEF Fetching
<1>10. loading' => Fetching'
  BY <1>9 DEF Reload
<1>11. Orderly'
  <2>1. \A j \in Calls : call'[j].kind # "login" /\ ~Answered(j, "load")'
    BY <1>2, <1>4 DEF Answered
  <2>. QED BY <1>5, <1>9, <2>1 DEF Orderly, Alone, NoToken
<1>. QED BY <1>5, <1>7, <1>8, <1>10, <1>11 DEF Leaves, PortalInv, PortalTyped

LEMMA PortalNextLeaves ==
  ASSUME PortalInv, Watched, PortalNext
  PROVE  \E k : Leaves(k)
<1>1. /\ token \in Int /\ shown \in Int /\ version \in Nat /\ now \in Nat
      /\ loading \in BOOLEAN /\ error \in BOOLEAN
  BY DEF PortalInv, PortalTyped
<1>2. \A k \in Calls : /\ call[k].token \in Int /\ call[k].result \in Int
                       /\ call[k].kind \in {"none", "login", "load", "action"}
  BY DEF PortalInv, PortalTyped, CallRecords
<1>3. ASSUME NEW k \in Calls, SubmitLogin(k) PROVE Leaves(k)
  <2>1. /\ call' = [call EXCEPT ![k] = Sent("login", NoToken)]
        /\ Free(k) /\ token = NoToken /\ NoToken \in Int /\ error' = FALSE
        /\ UNCHANGED <<now, token, shown, loading, version>>
    BY <1>3 DEF SubmitLogin, NoToken
  <2>2. token' = NoToken
    BY <2>1 DEF NoToken
  <2>. QED BY <1>1, <2>1, <2>2, StartLeaves
<1>4. ASSUME NEW k \in Calls, Refresh(k) \/ Act(k) PROVE Leaves(k)
  <2>1. PICK kind \in {"load", "action"} : call' = [call EXCEPT ![k] = Sent(kind, token)]
    BY <1>4 DEF Refresh, Act, Load
  <2>2. /\ loading' = TRUE /\ error' = FALSE /\ UNCHANGED <<now, token, shown, version>>
    BY <1>4 DEF Refresh, Act, Load
  <2>. QED BY <1>1, <2>1, <2>2, StartLeaves
<1>5. ASSUME NEW k \in Calls, LoggedIn(k) PROVE Leaves(k)
  <2>1. PICK new : new = call[k].result
    OBVIOUS
  <2>2. /\ new \in Int /\ new # NoToken /\ call[k].kind = "login" /\ ~Free(k)
        /\ token' = new /\ UNCHANGED <<now, shown, version>>
    BY <1>2, <1>5, <2>1 DEF LoggedIn, Answered, Free, PortalInv, AnswersSound
  <2>3. CASE new # token
    <3>1. call' = [call EXCEPT ![k] = Sent("load", new)] /\ loading' = TRUE /\ error' = FALSE
      BY <1>5, <2>1, <2>3 DEF LoggedIn, Load
    <3>. QED BY <1>1, <2>2, <3>1, StartLeaves
  <2>4. CASE new = token
    <3>1. call' = [call EXCEPT ![k] = NoCall] /\ UNCHANGED <<loading, error>>
      BY <1>5, <2>1, <2>4 DEF LoggedIn
    <3>2. ~Orderly
      BY <2>2, <2>4 DEF Orderly
    <3>. QED BY <1>1, <2>2, <3>1, <3>2, EndLeaves
  <2>. QED BY <2>3, <2>4
<1>6. ASSUME NEW k \in Calls, Loaded(k) PROVE Leaves(k)
  <2>1. /\ call' = [call EXCEPT ![k] = NoCall] /\ ~Free(k) /\ loading' = FALSE
        /\ shown' = call[k].result /\ UNCHANGED <<now, token, error, version>>
    BY <1>6 DEF Loaded, Answered, Free
  <2>2. Orderly => shown' >= acted
    BY <1>6, <2>1 DEF Loaded, Orderly
  <2>. QED BY <1>1, <1>2, <2>1, <2>2, EndLeaves
<1>7. ASSUME NEW k \in Calls, Acted(k) PROVE Leaves(k)
  <2>1. PICK tok \in Int : tok = call[k].token
    BY <1>2
  <2>2. /\ call' = [call EXCEPT ![k] = Sent("load", tok)] /\ loading' = TRUE /\ error' = FALSE
        /\ UNCHANGED <<now, token, shown, version>>
    BY <1>7, <2>1 DEF Acted, Load
  <2>. QED BY <1>1, <2>2, StartLeaves
<1>8. ASSUME NEW k \in Calls, Refused(k) PROVE Leaves(k)
  <2>1. ~Free(k)
    BY <1>8 DEF Refused, PortalInv, AnswersSound
  <2>. QED BY <1>1, <1>2, <1>8, <2>1, EndLeaves DEF Refused
<1>9. ASSUME NEW k \in Calls, Serve(k) \/ Lose(k) PROVE Leaves(k)
  <2>1. ~Free(k) /\ UNCHANGED <<now, token, shown, loading, error>>
    BY <1>9 DEF Serve, Lose
  <2>2. \/ Reply(k, FALSE, 0) /\ version' = version
        \/ Serve(k) /\ Served(k)
    BY <1>9 DEF Serve, Lose
  <2>. DEFINE yes == TRUE
              no == FALSE
  <2>5. yes \in BOOLEAN /\ no \in BOOLEAN /\ ~no
    OBVIOUS
  <2>3. CASE Reply(k, FALSE, 0) /\ version' = version
    <3>1. Reply(k, no, 0)
      BY <2>3
    <3>. HIDE DEF no
    <3>. QED BY <1>1, <2>1, <2>3, <2>5, <3>1, ReplyLeaves
  <2>4. CASE Serve(k) /\ Served(k)
    <3>1. CASE call[k].kind = "login" /\ Reply(k, TRUE, Login) /\ version' = version
      <4>1. Login \in Int /\ Login # NoToken
        BY <1>1, GatesAssumption DEF Login, NoToken
      <4>2. Reply(k, yes, Login)
        BY <3>1
      <4>. HIDE DEF yes
      <4>. QED BY <1>1, <2>1, <2>5, <3>1, <4>1, <4>2, ReplyLeaves
    <3>2. CASE call[k].kind = "load" /\ Reply(k, TRUE, version) /\ version' = version
      <4>1. Reply(k, yes, version)
        BY <3>2
      <4>. HIDE DEF yes
      <4>. QED BY <1>1, <2>1, <2>5, <3>2, <4>1, ReplyLeaves
    <3>3. CASE /\ call[k].kind = "action" /\ version' = version + 1
               /\ \E ok \in BOOLEAN : Reply(k, ok, version')
      <4>1. PICK v \in Nat : v = version + 1
        BY <1>1
      <4>2. PICK ok \in BOOLEAN : Reply(k, ok, v)
        BY <3>3, <4>1
      <4>. QED BY <1>1, <2>1, <3>3, <4>1, <4>2, ReplyLeaves
    <3>. QED BY <2>3, <2>4, <3>1, <3>2, <3>3 DEF Served
  <2>. QED BY <2>2, <2>3, <2>4
<1>10. ASSUME Logout \/ Change \/ OtherRequest PROVE Leaves(0)
  BY <1>1, <1>10, OthersLeave DEF Logout, Change, OtherRequest, portalVars, NoToken, Nothing
<1>11. ASSUME NEW k \in Calls, ServeStray(k) PROVE Leaves(0)
  <2>1. UNCHANGED <<now, token, shown, loading, error, call>> /\ version' \in {version, version + 1}
    BY <1>11 DEF ServeStray
  <2>. QED BY <1>1, <2>1, OthersLeave
<1>. QED BY <1>3, <1>4, <1>5, <1>6, <1>7, <1>8, <1>9, <1>10, <1>11, ReloadLeaves DEF PortalNext

LEMMA PortalStepKeeps ==
  ASSUME PortalInv, PortalStep
  PROVE  PortalInv'
<1>1. PICK k : Leaves(k)
  <2>1. CASE PortalNext
    BY <2>1, PortalNextLeaves DEF PortalStep
  <2>2. CASE ~PortalNext
    <3>1. /\ UNCHANGED portalVars /\ now' \in Nat /\ Watched
          /\ token \in Int /\ shown \in Int /\ version \in Nat
      BY <2>2 DEF PortalStep, Tick, PortalInv, PortalTyped
    <3>. QED BY <3>1, OthersLeave DEF portalVars
  <2>. QED BY <2>1, <2>2
<1>2. version' \in Nat /\ version <= version' /\ Watched
  BY <1>1 DEF Leaves, PortalTyped, PortalStep
<1>3. acted' <= version'
  BY <1>2, ActedMoves
<1>4. IsFiniteSet(UnderWay')
  <2>1. IsFiniteSet({k})
    BY FS_Singleton
  <2>2. IsFiniteSet(UnderWay \cup {k})
    BY <2>1, FS_Union DEF PortalInv
  <2>. QED BY <1>1, <2>2, FS_Subset DEF Leaves
<1>5. ~overlapped' => Orderly' /\ Strays' = {}
  BY <1>1, <1>2, <1>4, NotOverlapped DEF Leaves
<1>. QED BY <1>1, <1>3, <1>4, <1>5 DEF Leaves, PortalInv

LEMMA PortalInvariant == AccessSpec => []PortalInv
<1>1. AccessInit => PortalInv
  BY PortalStarts
<1>2. PortalInv /\ [AccessNext]_allVars => PortalInv'
  <2>. SUFFICES ASSUME PortalInv, [AccessNext]_allVars PROVE PortalInv'
    OBVIOUS
  <2>1. CASE PortalStep
    BY <2>1, PortalStepKeeps
  <2>2. CASE now' \in Nat /\ UNCHANGED <<portalVars, acted, overlapped>>
    <3>1. UnderWay' = UnderWay /\ Fetching' = Fetching /\ Alone' = Alone /\ Strays' = Strays
      BY <2>2 DEF UnderWay, Free, Fetching, Alone, Strays, portalVars
    <3>2. PortalTyped' /\ AnswersSound'
      BY <2>2 DEF PortalInv, PortalTyped, AnswersSound, Answered, Free, NoToken, portalVars
    <3>3. Orderly => Orderly'
      BY <2>2, <3>1 DEF Orderly, Answered, NoToken, portalVars
    <3>. QED BY <2>2, <3>1, <3>2, <3>3 DEF PortalInv, portalVars
  <2>3. GateNext \/ ProviderStep \/ UNCHANGED allVars
          => now' \in Nat /\ UNCHANGED <<portalVars, acted, overlapped>>
    BY DEF GateNext, ProviderStep, ProviderNext, Reuse, Ask, Issue, Keep, Return, RestartProvider,
           SendWith, PGo, Tick, PortalInv, PortalTyped, allVars, historyVars
  <2>. QED BY <2>1, <2>2, <2>3 DEF AccessNext
<1>. QED BY <1>1, <1>2, PTL DEF AccessSpec

\* A tab at rest that shows no error, and whose calls have not overlapped since, shows the cases as
\* its last action left them, or later (App.tsx, runCaseAction and loadDashboard), whatever answers
\* were lost or refused on the way and whatever others changed.  An action that the tab lost or
\* reloaded away, and the API still carries out, overlaps with whatever the tab does meanwhile.
THEOREM OwnShown == AccessSpec => []OwnActionShown
<1>1. PortalInv => OwnActionShown
  <2>1. UnderWay = {} => ~Fetching
    BY DEF UnderWay, Free, Fetching
  <2>. QED BY <2>1 DEF PortalInv, Orderly, OwnActionShown
<1>. QED BY <1>1, PortalInvariant, PTL

\* The spinner of the portal turns only while a call is under way (App.tsx, the finally blocks),
\* however many calls overlap and in whichever order they come back, fail or are lost.
THEOREM NeverStuck == AccessSpec => []NeverStuckLoading
<1>1. PortalInv => NeverStuckLoading
  <2>1. Fetching => UnderWay # {}
    BY DEF UnderWay, Free, Fetching
  <2>. QED BY <2>1 DEF PortalInv, NeverStuckLoading
<1>. QED BY <1>1, PortalInvariant, PTL
=============================================================================
