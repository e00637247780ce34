------------------------------ MODULE RateLimiter -------------------------------
(***************************************************************************)
(* The fixed-window limiter of internal/auth/ratelimit.go.  A limiter is   *)
(* [hits, sweepAt]: for each key [count, resetAt] of its window, None      *)
(* without one, and the time of the next sweep.  Each operation holds the  *)
(* limiter's mutex.                                                        *)
(***************************************************************************)
EXTENDS Naturals

CONSTANTS
  None,
  LimiterKeys

NewLimiter == [hits |-> [k \in LimiterKeys |-> None], sweepAt |-> 0]

\* The window of the key has elapsed, or there is none.
Elapsed(window, now) == window = None \/ now > window.resetAt

Sweep(limiter, window, now) ==
  IF now < limiter.sweepAt THEN limiter
  ELSE [hits |-> [k \in LimiterKeys |-> IF Elapsed(limiter.hits[k], now) THEN None
                                        ELSE limiter.hits[k]],
        sweepAt |-> now + window]

Allowed(limiter, key, max, now) ==
  Elapsed(limiter.hits[key], now) \/ limiter.hits[key].count < max

\* The limiter after an attempt; one that is refused is not counted.
Attempt(limiter, key, max, window, now) ==
  LET swept == Sweep(limiter, window, now) IN
  IF Elapsed(swept.hits[key], now)
  THEN [swept EXCEPT !.hits[key] = [count |-> 1, resetAt |-> now + window]]
  ELSE IF Allowed(swept, key, max, now) THEN [swept EXCEPT !.hits[key].count = @ + 1]
  ELSE swept

Reset(limiter, key) == [limiter EXCEPT !.hits[key] = None]
=============================================================================
