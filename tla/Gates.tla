-------------------------------- MODULE Gates --------------------------------
(* What every request to the API passes: the fixed window counter of            *)
(* createRateLimitHook(), which lives in the memory of the process, and, on     *)
(* administrators' routes, AdminAuthGuard over AuthService.login() and          *)
(* verify(), which keep nothing.                                                *)
EXTENDS Clock

CONSTANTS Addresses,   \* the keys of the buckets: forwarded or socket addresses
          Window,      \* windowMs
          Limit,       \* max
          TokenLife,   \* eight hours
          MaxCount     \* bound on the requests of one window

ASSUME GatesAssumption == /\ Window \in Nat \ {0} /\ Limit \in Nat \ {0}
                          /\ TokenLife \in Nat \ {0} /\ MaxCount \in Nat

VARIABLE bucket   \* the bucket of an address; a missing one is one that ended long ago

Buckets == [count : 0..MaxCount, resetAt : 0..(Horizon + Window)]
NoBucket == [count |-> 0, resetAt |-> 0]

GatesInit == bucket = [a \in Addresses |-> NoBucket]

Opened == [count |-> 1, resetAt |-> now + Window]

\* Slip: the request that opens a window is not counted.
CountedFromZero(b) ==
  IF b.resetAt <= now THEN [Opened EXCEPT !.count = 0] ELSE [b EXCEPT !.count = @ + 1]
\* Slip: every request moves the end of the window.
CountedSliding(b) ==
  IF b.resetAt <= now THEN Opened ELSE [count |-> b.count + 1, resetAt |-> now + Window]

\* The first request of a window opens it, and every later one counts, refused ones as well.
Counted(b) == IF b.resetAt <= now THEN Opened ELSE [b EXCEPT !.count = @ + 1]

Count(a) == /\ bucket[a].count < MaxCount
            /\ bucket' = [bucket EXCEPT ![a] = Counted(@)]

\* Without an answer of 429.
Admitted(a) == bucket'[a].count <= Limit

\* The process starts again with an empty map.
RestartApi == bucket' = [a \in Addresses |-> NoBucket]

-----------------------------------------------------------------------------
\* A token is signed for its expiry; two logins in one second give the same token.
NoToken == 0
Login == now + TokenLife

\* canActivate(): a token is good up to and including the second it names.
Accepts(token) == token # NoToken /\ token >= now
=============================================================================
