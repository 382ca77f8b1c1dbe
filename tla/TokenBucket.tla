---------------------------- MODULE TokenBucket ----------------------------
(***************************************************************************)
(* RateLimitOperator: one token bucket for the whole stream, by the wall   *)
(* clock.  The time of an event here is the clock when it is processed, in *)
(* ticks, and tokens are counted in fractions, of which Token make one.    *)
(***************************************************************************)
EXTENDS Integers

CONSTANTS
  Token,          \* the fractions in a token
  Rate,           \* max_per_second, in fractions a tick
  TicksPerSecond

Higher(a, b) == IF a >= b THEN a ELSE b
Lower(a, b) == IF a <= b THEN a ELSE b

\* burst_capacity: one second's worth, and one token at least.
Burst == Higher(Rate * TicksPerSecond, Token)

\* A bucket starts full.
Initial(now) == [tokens |-> Burst, lastRefill |-> now]

\* Mutant: the time of a refill is kept only when the event passes.
RefilledTwice(bucket, now) ==
  LET tokens == Lower(bucket.tokens + (now - bucket.lastRefill) * Rate, Burst)
  IN  [tokens |-> tokens, lastRefill |-> IF tokens < Token THEN bucket.lastRefill ELSE now]

Refilled(bucket, now) ==
  [tokens |-> Lower(bucket.tokens + (now - bucket.lastRefill) * Rate, Burst), lastRefill |-> now]

\* The bucket after an event, and the event if it passes.
Process(bucket, e) ==
  LET full == Refilled(bucket, e.ts)
  IN  IF full.tokens < Token
      THEN [state |-> full, out |-> << >>]
      ELSE [state |-> [full EXCEPT !.tokens = @ - Token], out |-> <<[action |-> "pass"]>>]

=============================================================================
