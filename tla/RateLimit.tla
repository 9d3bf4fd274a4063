----------------------------- MODULE RateLimit ------------------------------
(***************************************************************************)
(* The limiter of process signals (collector/collector/lib/RateLimit.cpp): *)
(* a token bucket per key (TimeLimiter) in a cache of bounded size         *)
(* (RateLimitCache).  The operators are functions of a bucket or a cache   *)
(* and of the time, NowMicros, which is the system clock and may be set.   *)
(***************************************************************************)
EXTENDS Integers, FiniteSets

CONSTANTS
  BurstSize,            \* burst_size_
  RefillTime,           \* refill_time_
  Capacity              \* capacity_

ASSUME RateLimitAssumption ==
  BurstSize \in Nat \ {0} /\ RefillTime \in Nat \ {0} /\ Capacity \in Nat

TokenBucket == [tokens |-> 0, last_time |-> 0]

(* The division of C++ truncates towards zero.                             *)
refill_count(b, now) ==
  IF now >= b.last_time THEN (now - b.last_time) \div RefillTime
  ELSE -((b.last_time - now) \div RefillTime)

fill_bucket(now) == [tokens |-> BurstSize, last_time |-> now]

(* Tokens does not write the bucket.  TokensUncapped forgets the limit.    *)
TokensUncapped(b, now) == b.tokens + refill_count(b, now) * BurstSize

Tokens(b, now) ==
  LET t == b.tokens + refill_count(b, now) * BurstSize
  IN  IF t < BurstSize THEN t ELSE BurstSize

(* The bucket at the time of a call, before tokens are taken from it.  A   *)
(* time of 0 marks a new one.  RefilledUncapped forgets to fill a bucket   *)
(* that is full, so that tokens add up.                                    *)
RefilledUncapped(b, now) ==
  LET c == IF b.last_time = 0 THEN fill_bucket(now) ELSE b
      r == refill_count(c, now)
  IN  [tokens |-> c.tokens + r * BurstSize, last_time |-> c.last_time + r * RefillTime]

Refilled(b, now) ==
  LET c == IF b.last_time = 0 THEN fill_bucket(now) ELSE b
      r == refill_count(c, now)
      d == [tokens |-> c.tokens + r * BurstSize, last_time |-> c.last_time + r * RefillTime]
  IN  IF d.tokens >= BurstSize THEN fill_bucket(now) ELSE d

(* What AllowN returns, and the bucket it leaves.  AllowNLess keeps the    *)
(* last token.                                                             *)
AllowNLess(b, n, now) ==
  LET c == Refilled(b, now)
  IN  IF n >= c.tokens THEN [ok |-> FALSE, bucket |-> c]
      ELSE [ok |-> TRUE, bucket |-> [c EXCEPT !.tokens = @ - n]]

AllowN(b, n, now) ==
  LET c == Refilled(b, now)
  IN  IF n > c.tokens THEN [ok |-> FALSE, bucket |-> c]
      ELSE [ok |-> TRUE, bucket |-> [c EXCEPT !.tokens = @ - n]]

(* RateLimitCache::Allow.  A new key that does not fit flushes the cache   *)
(* and is let through without a bucket.  AllowUnflushed never flushes.     *)
AllowUnflushed(cache, key, now) ==
  LET b == IF key \in DOMAIN cache THEN cache[key] ELSE TokenBucket
      r == AllowN(b, 1, now)
  IN  [ok |-> r.ok, flushed |-> FALSE,
       cache |-> [k \in DOMAIN cache \cup {key} |-> IF k = key THEN r.bucket ELSE cache[k]]]

Allow(cache, key, now) ==
  IF key \notin DOMAIN cache /\ Cardinality(DOMAIN cache) + 1 > Capacity
  THEN [ok |-> TRUE, flushed |-> TRUE, cache |-> [k \in {} |-> TokenBucket]]
  ELSE LET b == IF key \in DOMAIN cache THEN cache[key] ELSE TokenBucket
           r == AllowN(b, 1, now)
       IN  [ok |-> r.ok, flushed |-> FALSE,
            cache |-> [k \in DOMAIN cache \cup {key} |->
                         IF k = key THEN r.bucket ELSE cache[k]]]
=============================================================================
