---------------------------- MODULE RateLimiter ----------------------------
(***************************************************************************)
(* The token bucket of pkg/ratelimit/limiter.go.  The code counts tokens   *)
(* in a float64; here a token is Unit units and the bucket gains Rate units*)
(* per tick of the clock, so that the fractions of a token a tick adds are *)
(* exact.                                                                  *)
(***************************************************************************)
EXTENDS Integers

CONSTANTS Burst,   \* maxTokens, in tokens
          Unit,    \* units per token
          Rate,    \* units gained per tick
          MaxTime  \* bound: the last tick of the clock

ASSUME LimiterAssumption ==
    /\ Burst \in Nat
    /\ Unit \in Nat \ {0}
    /\ Rate \in Nat \ {0}
    /\ MaxTime \in Nat

VARIABLES tokens,    \* Limiter.tokens, in units
          lastTime,  \* Limiter.lastTime
          now,       \* the clock
          spent,     \* history: the units of all tokens granted
          spentAt,   \* history: spent when each tick began
          lastGrant  \* history: the tick of the last token granted, or of New

vars == <<tokens, lastTime, now, spent, spentAt, lastGrant>>

MaxTokens == Burst * Unit

\* New: the bucket starts full.
Init == /\ tokens = MaxTokens
        /\ lastTime = 0
        /\ now = 0
        /\ spent = 0
        /\ spentAt = [t \in 0 .. MaxTime |-> 0]
        /\ lastGrant = 0

\* Time passes; the monotonic clock never goes back.
Tick == /\ now < MaxTime
        /\ now' = now + 1
        /\ spentAt' = [spentAt EXCEPT ![now'] = spent]
        /\ UNCHANGED <<tokens, lastTime, spent, lastGrant>>

\* Mutant: the bucket is not capped.
RefillUncapped == tokens + (now - lastTime) * Rate

\* The tokens of the bucket at this moment, capped at the burst size.
Refill == LET filled == tokens + (now - lastTime) * Rate
          IN  IF filled > MaxTokens THEN MaxTokens ELSE filled

Available == Refill >= Unit

\* Allow finds a token and consumes it.
AllowGrants == /\ Available
               /\ tokens' = Refill - Unit
               /\ lastTime' = now
               /\ spent' = spent + Unit
               /\ lastGrant' = now
               /\ UNCHANGED <<now, spentAt>>

\* Mutant: a refused call restarts the clock and does not keep the refill.
AllowForgets == /\ ~Available
                /\ lastTime' = now
                /\ UNCHANGED <<tokens, now, spent, spentAt, lastGrant>>

\* Allow finds none: it keeps the refill, moves lastTime and returns false.
AllowRefuses == /\ ~Available
                /\ tokens' = Refill
                /\ lastTime' = now
                /\ UNCHANGED <<now, spent, spentAt, lastGrant>>

Next == Tick \/ AllowGrants \/ AllowRefuses

Spec == Init /\ [][Next]_vars

-----------------------------------------------------------------------------
\* The types; the bucket never holds less than nothing or more than the burst.
TypeOK == /\ tokens \in 0 .. MaxTokens
          /\ now \in 0 .. MaxTime
          /\ lastTime \in 0 .. now
          /\ spent \in Nat
          /\ spentAt \in [0 .. MaxTime -> Nat]
          /\ lastGrant \in 0 .. now

\* What WithRateLimit promises of every period, not only of the first: the
\* intents let through from the beginning of any tick t until now are at most
\* a burst plus what the rate adds in that time.
WindowBound ==
    \A t \in 0 .. now : spent - spentAt[t] <= MaxTokens + Rate * (now - t)

\* Calls that are refused cost nothing: whatever the pattern of calls since
\* the last token was granted, all the time since then counts towards the
\* next one (up to the burst), so that a client that polls is not starved.
NoCreditLost ==
    Refill >= MaxTokens \/ Refill >= Rate * (now - lastGrant)

\* The inductive strengthening of WindowBound: what a window has granted and
\* what the bucket could grant at once stay below the bound together.
Potential(t) == spent - spentAt[t] + Refill

LimiterInv == /\ TypeOK
              /\ \A t \in 0 .. now : /\ spentAt[t] <= spent
                                     /\ Potential(t) <= MaxTokens + Rate * (now - t)
              /\ NoCreditLost
=============================================================================
