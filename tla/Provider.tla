------------------------------ MODULE Provider -------------------------------
(* NombaProvider and the access token it keeps in memory for all its callers.   *)
(* Requests for a token may overlap, and every answer replaces the token in     *)
(* memory, even by an older one.  The provider's clock is taken to be ours.     *)
EXTENDS Clock, FiniteSetsExt

CONSTANTS Callers,     \* concurrent calls of createVirtualAccount and fetchTransaction
          Lifetimes,   \* how long the provider's tokens live (expires_in, or 1800 seconds)
          Margin,      \* 300 seconds: a token is given up that long before its end,
          Floor        \* 60 seconds: but handed out that long in any case

ASSUME ProviderAssumption ==
  Lifetimes \subseteq Nat /\ Margin \in Nat /\ Floor \in Nat \ {0}

VARIABLES cached,   \* accessToken
          until,    \* accessTokenExpiresAt
          step,     \* a caller's next statement
          held,     \* the token it goes to the provider with
          sentAt    \* when its request left

tokenVars == <<cached, until, step, held, sentAt>>
providerVars == <<now, tokenVars>>

\* A token: when the provider issued it, for how long, and when its answer was read.
Tokens == [issuedAt : 0..Horizon, life : Lifetimes, readAt : 0..Horizon]
NoAccess == [issuedAt |-> 0, life |-> -1, readAt |-> 0]
ExpiresAt(token) == token.issuedAt + token.life

ProviderTypeOK ==
  /\ now \in 0..Horizon
  /\ cached \in Tokens \cup {NoAccess}
  /\ until \in Int
  /\ step \in [Callers -> {"idle", "issue", "keep", "answer"}]
  /\ held \in [Callers -> Tokens \cup {NoAccess}]
  /\ sentAt \in [Callers -> 0..Horizon]

ProviderInit ==
  /\ cached = NoAccess /\ until = 0
  /\ step = [c \in Callers |-> "idle"]
  /\ held = [c \in Callers |-> NoAccess]
  /\ sentAt = [c \in Callers |-> 0]

-----------------------------------------------------------------------------
PGo(c, here, there) == step[c] = here /\ step' = [step EXCEPT ![c] = there]

\* The request leaves as soon as there is a token: nothing awaits in between.
SendWith(c, token) == /\ held' = [held EXCEPT ![c] = token]
                      /\ sentAt' = [sentAt EXCEPT ![c] = now]

\* Slip: a token handed out as long as there is one.
UsableForever == cached # NoAccess

Usable == cached # NoAccess /\ now < until

\* getAccessToken() finds a token,
Reuse(c) == /\ Usable /\ PGo(c, "idle", "answer")
            /\ SendWith(c, cached)
            /\ UNCHANGED <<now, cached, until>>

\* or asks for one, which the provider issues,
Ask(c) == /\ ~Usable /\ PGo(c, "idle", "issue")
          /\ UNCHANGED <<now, cached, until, held, sentAt>>

Issue(c, life) ==
  /\ PGo(c, "issue", "keep")
  /\ held' = [held EXCEPT ![c] = [issuedAt |-> now, life |-> life, readAt |-> now]]
  /\ UNCHANGED <<now, cached, until, sentAt>>

\* Slip: the token handed out for all of its life.
KeptForLife(life) == Max({Floor, life})

KeptFor(life) == Max({Floor, life - Margin})

\* and keeps it from the moment its answer is read.
Keep(c) ==
  LET token == [held[c] EXCEPT !.readAt = now]
  IN /\ PGo(c, "keep", "answer")
     /\ cached' = token /\ until' = now + KeptFor(token.life)
     /\ SendWith(c, token)
     /\ UNCHANGED now

\* The provider answers, refuses the token, or is not reached, and no token comes with its
\* answer: the caller goes on or throws, and the token in memory stays whatever happened.
Return(c) ==
  /\ step[c] # "idle" /\ PGo(c, step[c], "idle")
  /\ held' = [held EXCEPT ![c] = NoAccess]
  /\ UNCHANGED <<now, cached, until, sentAt>>

\* The process dies and starts again.
RestartProvider ==
  /\ cached' = NoAccess /\ until' = 0
  /\ step' = [c \in Callers |-> "idle"]
  /\ held' = [c \in Callers |-> NoAccess]
  /\ UNCHANGED <<now, sentAt>>

ProviderNext ==
  \/ \E c \in Callers : Reuse(c) \/ Ask(c) \/ Keep(c) \/ Return(c)
  \/ \E c \in Callers, life \in Lifetimes : Issue(c, life)
  \/ RestartProvider

ProviderSpec == /\ now = 0 /\ ProviderInit
                /\ [][ProviderNext \/ (Tick /\ UNCHANGED tokenVars)]_providerVars

-----------------------------------------------------------------------------
\* A request reaches the provider with a token that is still good, however requests for tokens
\* overlap, if the token is issued for margin and floor at least, and reading the token's answer
\* and sending the request took no more than the margin together.  A token of a shorter life may
\* be dead when it is sent, but is sent for less than the floor after its end, counted from its
\* late answer.
TokensSentAreAlive ==
  \A c \in Callers : step[c] = "answer" =>
    LET token == held[c]
        delay == (token.readAt - token.issuedAt) + (now - sentAt[c])
    IN /\ token.life >= Margin + Floor /\ delay <= Margin
            => now < ExpiresAt(token)
       /\ sentAt[c] < ExpiresAt(token) + Floor + (token.readAt - token.issuedAt)
=============================================================================
