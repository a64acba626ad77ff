----------------------------- MODULE TokenBucket -----------------------------
(***************************************************************************)
(* internal/ratelimit/token_bucket.go, with the capacity and the refill    *)
(* rate newRateLimiter gives it (internal/httpapi/router.go:98): Quota     *)
(* tokens, and Quota tokens a minute.  A bucket is refilled lazily, when a *)
(* request of its key comes.  Time passes in ticks, Minute to the minute;  *)
(* the float64 tokens are counted in parts, Minute to the token, so that a *)
(* tick is worth Quota parts.                                              *)
(***************************************************************************)
EXTENDS Naturals

CONSTANTS
  Keys,       \* the ids of the API keys
  Quota,      \* quotaPerMinute
  Minute,     \* ticks to a minute
  MaxWindow   \* bound of the windows the admissions are counted over

ASSUME QuotaAssumption == Quota \in Nat \ {0}     \* router.go:21
ASSUME MinuteAssumption == Minute \in Nat \ {0}
ASSUME MaxWindowAssumption == MaxWindow \in Nat

VARIABLES
  tokens,    \* bucket.tokens
  age,       \* now - bucket.last, no longer than fills a bucket
  window,    \* history: the length of the window looked at
  admitted   \* history: the requests admitted in it

bucket     == <<tokens, age>>
bucketVars == <<tokens, age, window, admitted>>

Capacity == Quota * Minute

BucketTypeOK ==
  /\ tokens \in [Keys -> 0..Capacity]
  /\ age \in [Keys -> 0..Minute]
  /\ window \in 0..MaxWindow
  /\ admitted \in [Keys -> Nat]

\* A key nobody has seen has a full bucket; so has every key after a restart.
Fresh ==
  /\ tokens' = [k \in Keys |-> Capacity]
  /\ age' = [k \in Keys |-> 0]

NewWindow ==
  /\ window' = 0
  /\ admitted' = [k \in Keys |-> 0]

BucketInit ==
  /\ tokens = [k \in Keys |-> Capacity]
  /\ age = [k \in Keys |-> 0]
  /\ window = 0
  /\ admitted = [k \in Keys |-> 0]

\* Variant: tokens saved up without limit.
RefilledUncapped(k) == tokens[k] + age[k] * Quota

\* Variant: only whole tokens are added.
RefilledWhole(k) ==
  LET sum == tokens[k] + Minute * ((age[k] * Quota) \div Minute)
  IN IF sum > Capacity THEN Capacity ELSE sum

\* refillBucket
Refilled(k) ==
  LET sum == tokens[k] + age[k] * Quota
  IN IF sum > Capacity THEN Capacity ELSE sum

\* Allow, when it returns true.
Admit(k) ==
  /\ Refilled(k) >= Minute
  /\ tokens' = [tokens EXCEPT ![k] = Refilled(k) - Minute]
  /\ age' = [age EXCEPT ![k] = 0]
  /\ admitted' = [admitted EXCEPT ![k] = @ + 1]
  /\ UNCHANGED window

\* Variant: last is moved, the tokens are not added.
DenyForgets(k) ==
  /\ Refilled(k) < Minute
  /\ age' = [age EXCEPT ![k] = 0]
  /\ UNCHANGED <<tokens, window, admitted>>

\* Allow, when it returns false; the bucket is refilled all the same.
Deny(k) ==
  /\ Refilled(k) < Minute
  /\ tokens' = [tokens EXCEPT ![k] = Refilled(k)]
  /\ age' = [age EXCEPT ![k] = 0]
  /\ UNCHANGED <<window, admitted>>

\* A second or so; a window of MaxWindow ends and another begins.
TickBuckets ==
  /\ age' = [k \in Keys |-> IF age[k] < Minute THEN age[k] + 1 ELSE age[k]]
  /\ UNCHANGED tokens
  /\ \/ window < MaxWindow /\ window' = window + 1 /\ UNCHANGED admitted
     \/ NewWindow

RestartBuckets == Fresh /\ NewWindow

BucketNext == TickBuckets \/ RestartBuckets \/ \E k \in Keys : Admit(k) \/ Deny(k)

BucketSpec == BucketInit /\ [][BucketNext]_bucketVars

-----------------------------------------------------------------------------
(* Properties *)

(***************************************************************************)
(* In no window, wherever it begins, is a key admitted more often than the *)
(* burst and the refill of the window allow.                               *)
(***************************************************************************)
QuotaInWindow == \A k \in Keys : admitted[k] * Minute <= Capacity + window * Quota

(***************************************************************************)
(* The lazy bucket is the continuously refilled one: when the requests     *)
(* come, and whether they are refused, makes no difference to the level.   *)
(***************************************************************************)
Level == [k \in Keys |-> Refilled(k)]
Eager == INSTANCE RateQuota WITH level <- Level
EagerSpec == Eager!Spec
=============================================================================
