------------------------------ MODULE RateLimit ------------------------------
(***************************************************************************)
(* RateLimiter and TokenBucket: buckets of tokens by key, created on first *)
(* use, refilled with time, pruned when idle, and used by several loops.   *)
(*                                                                         *)
(* allow() reads the clock, then looks its bucket up under the limiter's   *)
(* mutex, then takes a token under the bucket's own mutex.  Time is        *)
(* counted in steps in which one token is refilled.                        *)
(***************************************************************************)
EXTENDS Integers, FiniteSets

CONSTANTS
    Loops,          \* threads that call allow()
    Keys,
    Capacity,       \* tokens of a full bucket
    MaxBuckets,     \* max_bucket_count
    IdleLimit,      \* bucket_idle_seconds
    MaxStall,       \* bound: steps one call of allow() takes
    MaxTime,        \* bound: steps of the clock
    MaxUses         \* bound: calls of allow()

\* A bucket is pruned only after it had the time to fill and two calls to finish, since
\* a late call sets last_used back: bucket_idle_seconds is 600, and the slowest bucket,
\* allowLogin's, fills in 60 seconds
ASSUME RateLimitAssumption ==
    /\ Capacity \in Nat \ {0} /\ MaxBuckets \in Nat /\ IdleLimit \in Nat /\ MaxStall \in Nat
    /\ Capacity + 2 * MaxStall <= IdleLimit

NoBucket == 0

VARIABLES
    clock,
    store,          \* every bucket ever made: tokens_ and last_refill_
    entry,          \* buckets_: the bucket of a key and its last_used
    stage,          \* what each loop is doing: pc, key, now and bucket
    admitted,       \* calls that were allowed, by key
    uses

limitVars == <<clock, store, entry, stage, admitted, uses>>

Rest == [pc |-> "rest", key |-> CHOOSE k \in Keys : TRUE, now |-> 0, bucket |-> NoBucket]
NoEntry == [bucket |-> NoBucket, used |-> 0]

RateLimitInit ==
    /\ clock = 0 /\ store = [b \in {} |-> 0] /\ entry = [k \in Keys |-> NoEntry]
    /\ stage = [l \in Loops |-> Rest] /\ admitted = [k \in Keys |-> 0] /\ uses = 0

Present(e) == {k \in Keys : e[k].bucket # NoBucket}

\* Mutation: a bucket goes after the first step without use
prunedTooEarly(now) ==
    [k \in Keys |-> IF now - entry[k].used >= 1 THEN NoEntry ELSE entry[k]]

\* pruneLocked
pruned(now) ==
    [k \in Keys |-> IF now - entry[k].used >= IdleLimit THEN NoEntry ELSE entry[k]]

\* allowLogin, allowMessage, allowPacket: allow() reads the clock
enterAllow(l, k) ==
    /\ stage[l].pc = "rest" /\ uses < MaxUses /\ uses' = uses + 1
    /\ stage' = [stage EXCEPT ![l] = [pc |-> "lookup", key |-> k, now |-> clock, bucket |-> NoBucket]]
    /\ UNCHANGED <<clock, store, entry, admitted>>

\* The part of allow() under the limiter's mutex.  Every 256th call prunes, and
\* every call that finds the map full; a key without bucket is refused while it
\* stays full
findBucket(l) ==
    LET k == stage[l].key
        full == Cardinality(Present(entry)) >= MaxBuckets
    IN  /\ stage[l].pc = "lookup"
        /\ \E prune \in {TRUE, full} :
             LET kept == IF prune THEN pruned(stage[l].now) ELSE entry
                 known == kept[k].bucket # NoBucket
                 b == IF known THEN kept[k].bucket ELSE Cardinality(DOMAIN store) + 1
             IN  IF ~known /\ Cardinality(Present(kept)) >= MaxBuckets
                 THEN entry' = kept /\ stage' = [stage EXCEPT ![l] = Rest] /\ UNCHANGED store
                 ELSE /\ entry' = [kept EXCEPT ![k] = [bucket |-> b, used |-> stage[l].now]]
                      /\ store' = IF known THEN store
                                  ELSE [x \in 1 .. b |-> IF x = b THEN [tokens |-> Capacity, last |-> clock]
                                                         ELSE store[x]]
                      /\ stage' = [stage EXCEPT ![l].pc = "take", ![l].bucket = b]
        /\ UNCHANGED <<clock, admitted, uses>>

\* refillLocked
refilled(bucket) ==
    LET sum == bucket.tokens + (clock - bucket.last)
    IN  [tokens |-> IF sum > Capacity THEN Capacity ELSE sum, last |-> clock]

\* TokenBucket::allow, under the bucket's mutex
take(l) ==
    LET b == stage[l].bucket
        now == refilled(store[b])
    IN  /\ stage[l].pc = "take" /\ stage' = [stage EXCEPT ![l] = Rest]
        /\ IF now.tokens < 1 THEN store' = [store EXCEPT ![b] = now] /\ UNCHANGED admitted
           ELSE /\ store' = [store EXCEPT ![b] = [now EXCEPT !.tokens = @ - 1]]
                /\ admitted' = [admitted EXCEPT ![stage[l].key] = @ + 1]
        /\ UNCHANGED <<clock, entry, uses>>

\* Time passes, but no call of allow() takes longer than MaxStall
tick ==
    /\ clock < MaxTime /\ clock' = clock + 1
    /\ \A l \in Loops : stage[l].pc # "rest" => clock' - stage[l].now <= MaxStall
    /\ UNCHANGED <<store, entry, stage, admitted, uses>>

RateLimitNext ==
    \/ tick
    \/ \E l \in Loops : findBucket(l) \/ take(l) \/ \E k \in Keys : enterAllow(l, k)

RateLimitSpec == RateLimitInit /\ [][RateLimitNext]_limitVars

-----------------------------------------------------------------------------
(* Properties                                                               *)

\* The map never holds more than max_bucket_count buckets, whatever the loops do
\* between their lookups (RateLimiter::allow)
BucketsAreBounded == Cardinality(Present(entry)) <= MaxBuckets

\* Up to any moment a key was admitted at most a full bucket plus what the time
\* refilled: throwing idle buckets away and making new ones, also while another
\* loop that read the clock earlier sets last_used back, gives nobody more, because a
\* bucket is idle for longer than it takes to fill and two calls to finish; and the map
\* stays within its bound (RateLimiter::allow, pruneLocked, refillLocked).
RateIsKept == BucketsAreBounded /\ \A k \in Keys : admitted[k] <= Capacity + clock
=============================================================================
