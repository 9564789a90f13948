----------------------------- MODULE RateLimiter -----------------------------
(***************************************************************************)
(* rate_limit.rs: the limiter in front of /v1/payments.  One gateway uses  *)
(* a token bucket under a mutex; replicas share counters in a cache, one   *)
(* per window of a second, and weigh the previous window's count by how    *)
(* much of it the trailing second still covers.                            *)
(*                                                                         *)
(* Time is counted in ticks.  RlSecond ticks make a second; a token is     *)
(* worth RlSecond microtokens (10^6 of both in the code) and a window is   *)
(* RlSecond ticks long (1000 ms in the code).  An observer counts what is  *)
(* admitted from a moment of its own choice on.                            *)
(***************************************************************************)
EXTENDS Integers

CONSTANTS
    RlSecond,    \* ticks of a second
    RlRates,     \* values of OPENWRAPPER_RATE_LIMIT to explore
    RlReplicas,  \* requests in progress, on whichever replica
    RlMaxTime,   \* bound on the clock
    RlMaxCount   \* bound on a window's counter, and on failing open

ASSUME RateLimiterAssumption ==
    /\ RlSecond \in Nat \ {0}
    /\ RlRates \subseteq Nat
    /\ RlMaxTime \in Nat /\ RlMaxTime >= RlSecond
    /\ RlMaxCount \in Nat

VARIABLES
    rlKind,    \* RateLimiter::InProcess or ::Distributed
    rlRate,    \* requests per second, at least one
    rlNow,     \* the clock
    rlTokens,  \* TokenBucket: microtokens left
    rlLast,    \*   and when they were last refilled
    rlCount,   \* the cache: requests counted in each window
    rlStamp,   \* the time each request in progress has read, 0 for none
    rlMark,    \* the observer's start
    rlSince,   \* requests admitted since then, by their own clock reading
    rlSlack    \* history: the cache failed, or a request was counted in a
               \* window after one of the next window had read its count

rlVars == <<rlKind, rlRate, rlNow, rlTokens, rlLast, rlCount, rlStamp,
            rlMark, rlSince, rlSlack>>

Windows == 0 .. (RlMaxTime \div RlSecond)

(* requests_per_sec.max(1) *)
AtLeastOne(rate) == IF rate = 0 THEN 1 ELSE rate

Capacity == rlRate * RlSecond

LimiterInit ==
    /\ rlKind \in {"bucket", "window"}
    /\ rlRate \in {AtLeastOne(r) : r \in RlRates}
    /\ rlNow = RlSecond
    /\ rlTokens = Capacity
    /\ rlLast = rlNow
    /\ rlCount = [w \in Windows |-> 0]
    /\ rlStamp = [p \in RlReplicas |-> 0]
    /\ rlMark \in RlSecond .. RlMaxTime
    /\ rlSince = 0
    /\ rlSlack = FALSE

Tick ==
    /\ rlNow < RlMaxTime
    /\ rlNow' = rlNow + 1
    /\ UNCHANGED <<rlKind, rlRate, rlTokens, rlLast, rlCount, rlStamp,
                   rlMark, rlSince, rlSlack>>

Admit(stamp) == rlSince' = IF stamp >= rlMark THEN rlSince + 1 ELSE rlSince

------------------------------------------------------------------------------
(* The refill: rate microtokens per microsecond, up to the capacity. *)
Refilled(tokens, elapsed) ==
    IF tokens + elapsed * rlRate > Capacity THEN Capacity
    ELSE tokens + elapsed * rlRate

(* TokenBucket::try_acquire, under its mutex.  Whether the bucket was      *)
(* filled or not, last_refill ends up at now.                              *)
TakeToken ==
    LET tokens == Refilled(rlTokens, rlNow - rlLast) IN
    /\ rlKind = "bucket"
    /\ rlLast' = rlNow
    /\ \/ /\ tokens >= RlSecond
          /\ rlTokens' = tokens - RlSecond
          /\ Admit(rlNow)
       \/ /\ tokens < RlSecond
          /\ rlTokens' = tokens
          /\ UNCHANGED rlSince
    /\ UNCHANGED <<rlKind, rlRate, rlNow, rlCount, rlStamp, rlMark, rlSlack>>

------------------------------------------------------------------------------
(* DistributedLimiter::try_acquire reads the clock ... *)
ReadClock(p) ==
    /\ rlKind = "window"
    /\ rlStamp[p] = 0
    /\ rlStamp' = [rlStamp EXCEPT ![p] = rlNow]
    /\ UNCHANGED <<rlKind, rlRate, rlNow, rlTokens, rlLast, rlCount, rlMark,
                   rlSince, rlSlack>>

(* Mutation: the naive fixed window forgets the previous one.              *)
MutPrevWeighted(prev_count, delta) == 0

(* prev_count * (window - delta) / window, in integers. *)
PrevWeighted(prev_count, delta) == (prev_count * (RlSecond - delta)) \div RlSecond

(* ... and then sends INCR, EXPIRE and GET as one atomic pipeline, which   *)
(* the cache may execute any time later.  A rejected request has been      *)
(* counted too.                                                            *)
CountRequest(p) ==
    LET stamp     == rlStamp[p]
        bucket_id == stamp \div RlSecond
        curr      == rlCount[bucket_id] + 1
        total     == curr + PrevWeighted(rlCount[bucket_id - 1], stamp % RlSecond)
    IN
    /\ stamp # 0
    /\ curr <= RlMaxCount
    /\ rlCount' = [rlCount EXCEPT ![bucket_id] = curr]
    /\ rlStamp' = [rlStamp EXCEPT ![p] = 0]
    /\ IF total <= rlRate THEN Admit(stamp) ELSE UNCHANGED rlSince
    /\ rlSlack' = (rlSlack \/ \E w \in Windows : w > bucket_id /\ rlCount[w] > 0)
    /\ UNCHANGED <<rlKind, rlRate, rlNow, rlTokens, rlLast, rlMark>>

(* The cache cannot be reached: the limiter fails open.  The request may   *)
(* or may not have been counted.                                           *)
CacheFails(p) ==
    LET bucket_id == rlStamp[p] \div RlSecond IN
    /\ rlStamp[p] # 0
    /\ rlCount[bucket_id] < RlMaxCount /\ rlSince < RlMaxCount
    /\ rlCount' \in {rlCount, [rlCount EXCEPT ![bucket_id] = @ + 1]}
    /\ rlStamp' = [rlStamp EXCEPT ![p] = 0]
    /\ Admit(rlStamp[p])
    /\ rlSlack' = TRUE
    /\ UNCHANGED <<rlKind, rlRate, rlNow, rlTokens, rlLast, rlMark>>

LimiterNext ==
    \/ Tick
    \/ TakeToken
    \/ \E p \in RlReplicas : ReadClock(p) \/ CountRequest(p) \/ CacheFails(p)

LimiterSpec == LimiterInit /\ [][LimiterNext]_rlVars

------------------------------------------------------------------------------
(* Length of the observed interval so far, and the least number of whole   *)
(* requests that covers x ticks' worth of the rate.                        *)
Observed == rlNow - rlMark
RateOver(x) == (rlRate * x + RlSecond - 1) \div RlSecond

(* No choice of moments finds more admissions than the configured rate     *)
(* allows.  TokenBucket::try_acquire admits a full bucket and what the     *)
(* interval refills.  DistributedLimiter::try_acquire, within less than a  *)
(* second, admits one second's worth and the interval's own share, even    *)
(* across a window boundary, unless the cache failed or counted a request  *)
(* of the previous window too late.                                        *)
AdmissionsBounded ==
    rlNow >= rlMark =>
        /\ rlKind = "bucket" =>
              rlSince * RlSecond <= Capacity + rlRate * Observed
        /\ rlKind = "window" /\ ~rlSlack /\ Observed < RlSecond =>
              rlSince <= rlRate + RateOver(Observed)

==============================================================================
