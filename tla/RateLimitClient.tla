---------------------------- MODULE RateLimitClient -------------------------
(***************************************************************************)
(* A RateLimitCache that is asked for keys at any time, on a clock that    *)
(* runs, and that is set back or forward MaxSets times by up to MaxStep.   *)
(***************************************************************************)
EXTENDS RateLimit, Sequences

CONSTANTS
  Keys,
  Subject,              \* any one of the keys, whose calls are recorded
  MaxClock,             \* bound of the clock and of the time that passes
  MaxSets, MaxStep,     \* how often, and how far, the clock is set
  MaxGrants,            \* calls for the subject that return true
  MaxResets             \* flushes, and times the clock is set forward

ASSUME LimiterAssumption == Subject \in Keys /\ MaxStep \in Nat

VARIABLES
  clock,                \* NowMicros()
  buckets,              \* cache_
  sets,                 \* times the clock was set
  elapsed,              \* ghost: the time that has really passed
  grants,               \* ghost: when (in elapsed) the subject's calls were that returned true
  resets,               \* ghost: when (in elapsed) the cache was flushed or the clock set forward
  lag,                  \* ghost: by how much the clock was set back, in all
  peak,                 \* ghost: the latest time the clock has shown
  denied                \* ghost: the last step was a call of the subject that returned false

limiterVars == <<clock, buckets, sets, elapsed, grants, resets, lag, peak, denied>>

LimiterInit ==
  /\ clock = 1 /\ buckets = [k \in {} |-> TokenBucket] /\ sets = 0
  /\ elapsed = 0 /\ grants = <<>> /\ resets = <<>>
  /\ lag = 0 /\ peak = 1 /\ denied = FALSE

Later(time) == IF time > peak THEN time ELSE peak

TimePasses ==
  /\ clock < MaxClock /\ elapsed < MaxClock
  /\ clock' = clock + 1 /\ elapsed' = elapsed + 1
  /\ peak' = Later(clock + 1) /\ denied' = FALSE
  /\ UNCHANGED <<buckets, sets, grants, resets, lag>>

SetBack ==
  /\ sets < MaxSets
  /\ \E d \in 1..MaxStep : d < clock /\ clock' = clock - d /\ lag' = lag + d
  /\ sets' = sets + 1 /\ denied' = FALSE
  /\ UNCHANGED <<buckets, elapsed, grants, resets, peak>>

SetForward ==
  /\ sets < MaxSets /\ Len(resets) < MaxResets
  /\ \E d \in 1..MaxStep :
       clock + d <= MaxClock /\ clock' = clock + d /\ peak' = Later(clock + d)
  /\ sets' = sets + 1 /\ resets' = Append(resets, elapsed) /\ denied' = FALSE
  /\ UNCHANGED <<buckets, elapsed, grants, lag>>

Call(k) ==
  LET r == Allow(buckets, k, clock) IN
  /\ Len(grants) < MaxGrants
  /\ r.flushed => Len(resets) < MaxResets
  /\ buckets' = r.cache
  /\ grants' = IF r.ok /\ k = Subject THEN Append(grants, elapsed) ELSE grants
  /\ resets' = IF r.flushed THEN Append(resets, elapsed) ELSE resets
  /\ denied' = (~r.ok /\ k = Subject)
  /\ UNCHANGED <<clock, sets, elapsed, lag, peak>>

LimiterNext == TimePasses \/ SetBack \/ SetForward \/ \E k \in Keys : Call(k)

LimiterSpec == LimiterInit /\ [][LimiterNext]_limiterVars

-----------------------------------------------------------------------------
(* "Limit duplicate events to rate of 10 every 30 min" (RateLimit.cpp:55): *)
(* no key is let through more than a burst in any stretch of one refill    *)
(* time.  A bucket that was filled and is used up only just before it is   *)
(* filled again lets two bursts through, and a flush of the cache gives a  *)
(* key another.                                                            *)
RateIsKept ==
  \A i \in DOMAIN grants :
    i + BurstSize \in DOMAIN grants => grants[i + BurstSize] - grants[i] >= RefillTime

(* What the limiter keeps to, whatever the clock does: in any stretch of   *)
(* one refill time a key is let through at most two bursts, and a burst    *)
(* and one more for each time the cache was flushed or the clock set       *)
(* forward in that stretch.                                                *)
GrantsBounded ==
  \A i, j \in DOMAIN grants :
    i <= j /\ grants[j] - grants[i] < RefillTime =>
      LET there == {n \in DOMAIN resets : resets[n] \in grants[i]..grants[j]}
      IN  j - i + 1 <= 2 * BurstSize + (BurstSize + 1) * Cardinality(there)

(* A key is refused only when it has used up a whole burst within the last *)
(* refill time, which lasts longer by what the clock was set back, or as   *)
(* long as the clock has not caught up with the latest time it has shown.  *)
RefusedForABurst ==
  denied =>
    \/ clock < peak
    \/ /\ Len(grants) >= BurstSize
       /\ grants[Len(grants) - BurstSize + 1] > elapsed - RefillTime - lag

(* Whatever the clock does, no bucket ever holds more than a burst, and    *)
(* the cache never holds more buckets than its capacity.                   *)
BucketsBounded ==
  /\ Cardinality(DOMAIN buckets) <= Capacity
  /\ \A k \in DOMAIN buckets : buckets[k].tokens <= BurstSize

(* What Tokens says of a bucket that has been used is what a call at the   *)
(* same time finds in it.                                                  *)
TokensAreTold ==
  \A k \in DOMAIN buckets :
    buckets[k].last_time # 0 => Tokens(buckets[k], clock) = Refilled(buckets[k], clock).tokens

(* RateLimitCache::Allow: a key is let through no more than its bucket,    *)
(* flushes and the clock account for, and refused only for a burst or for  *)
(* a clock that was set back; the buckets and the cache keep their limits; *)
(* and Tokens tells what the next call will find.                          *)
BurstsAreKept ==
  GrantsBounded /\ RefusedForABurst /\ BucketsBounded /\ TokensAreTold
=============================================================================
