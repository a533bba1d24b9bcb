----------------------------- MODULE PionexClient -----------------------------
(* The REST client's request loop over one token bucket: the wait for tokens,
   the signature's clock, the answer's reading, the retries of idempotent reads
   and the cool-down after HTTP 429, for several callers at once.
   (pionex/client.go do, pionex/ratelimiter.go, pionex/clock.go.)

   Abstractions: a tick is the time in which RefillRate tokens come back; the
   exchange applies a mutation or not before it answers, and what an answer
   does not tell is the choice of the environment. *)
EXTENDS Integers

CONSTANTS
    Callers,
    Capacity,       \* of the bucket
    RefillRate,     \* tokens a tick
    Weights,        \* of a request
    Cooldown,       \* ticks of the cool-down after a 429
    ClientTop,      \* bound: ticks observed
    MaxCalls        \* bound: calls begun
ASSUME ClientAssumption ==
    /\ Capacity \in Nat \ {0} /\ RefillRate \in Nat \ {0} /\ Weights \subseteq 1 .. Capacity
    /\ Cooldown \in Nat \ {0} /\ ClientTop \in Nat /\ MaxCalls \in Nat

VARIABLES
    bucket,     \* the limiter: [tokens, idle (ticks since lastRefill), quiet (of the cool-down)]
    drifted,    \* the local clock is outside the signing window
    call,       \* the calls
    spent,      \* weight admitted since the limiter was made
    ticks,
    calls

clientVars == <<bucket, drifted, call, spent, ticks, calls>>

Methods == {"GET", "POST"}
Attempts(method) == IF method = "GET" THEN 3 ELSE 1
NoCall == [step |-> "none", method |-> "GET", weight |-> 0, attempt |-> 0, applied |-> 0,
           verdict |-> "none"]
On(c, step) == call[c].step = step
Becomes(c, r) == call' = [call EXCEPT ![c] = r]
\* What the caller is told: "ok", "refused" (a definite error) or "unknown".
Told(c, verdict) ==
    Becomes(c, [call[c] EXCEPT !.step = "told", !.weight = 0, !.attempt = 0, !.verdict = verdict])

ClientInit ==
    /\ bucket = [tokens |-> Capacity, idle |-> 0, quiet |-> 0]
    /\ drifted \in BOOLEAN
    /\ call = [c \in Callers |-> NoCall] /\ spent = 0 /\ ticks = 0 /\ calls = 0

BeginCall(c) ==
    /\ call[c].step \in {"none", "told"} /\ calls < MaxCalls /\ calls' = calls + 1
    /\ \E m \in Methods, w \in Weights :
           Becomes(c, [step |-> "wait", method |-> m, weight |-> w, attempt |-> 1, applied |-> 0,
                       verdict |-> "none"])
    /\ UNCHANGED <<bucket, drifted, spent, ticks>>
---------------------------------------------------------------------------
(* RateLimiter. *)
Full(n) == IF n > Capacity THEN Capacity ELSE n
\* a bug: the moment of the last refill is not moved.
Refilled_Again == [bucket EXCEPT !.tokens = Full(bucket.tokens + bucket.idle * RefillRate)]
Refilled ==
    [bucket EXCEPT !.tokens = Full(bucket.tokens + bucket.idle * RefillRate),
                   !.idle = 0]

\* Wait: the caller is turned away, takes its tokens, or sleeps and asks again.
Wait(c) ==
    /\ On(c, "wait")
    /\ IF bucket.quiet > 0
       THEN Told(c, "refused") /\ UNCHANGED <<bucket, spent>>
       ELSE /\ Refilled.tokens >= call[c].weight
            /\ bucket' = [Refilled EXCEPT !.tokens = @ - call[c].weight]
            /\ spent' = spent + call[c].weight
            /\ Becomes(c, [call[c] EXCEPT !.step = "sent"])
    /\ UNCHANGED <<drifted, ticks, calls>>
WaitInVain(c) ==
    /\ On(c, "wait") /\ bucket.quiet = 0 /\ Refilled.tokens < call[c].weight
    /\ Refilled # bucket /\ bucket' = Refilled
    /\ UNCHANGED <<drifted, call, spent, ticks, calls>>

\* The caller's context ends while it sleeps.
Cancelled(c) ==
    /\ call[c].step \in {"wait", "backoff"} /\ Told(c, "refused")
    /\ UNCHANGED <<bucket, drifted, spent, ticks, calls>>

TriggerCooldown == [bucket EXCEPT !.quiet = Cooldown]
---------------------------------------------------------------------------
(* The exchange: what arrives is carried out once, unless it is over the
   limit, unacceptable or its timestamp is outside the window.  An answer that
   is lost, late or a 5xx is silent; one that breaks off, truncated.  (A 2xx
   that cannot be decoded is GridLifecycle's.) *)
Serve(c) ==
    /\ On(c, "sent")
    /\ \/ Becomes(c, [call[c] EXCEPT !.step = "limited"])
       \/ Becomes(c, [call[c] EXCEPT !.step = "rejected"])
       \/ drifted /\ Becomes(c, [call[c] EXCEPT !.step = "timestamp"])
       \/ ~drifted /\ Becomes(c, [call[c] EXCEPT !.step = "answered", !.applied = @ + 1])
       \/ \E s \in {"silent", "truncated"}, done \in {0, 1} :
              /\ drifted => done = 0
              /\ Becomes(c, [call[c] EXCEPT !.step = s, !.applied = @ + done])
    /\ UNCHANGED <<bucket, drifted, spent, ticks, calls>>

(* do, after the answer. *)
Retries(c) == call[c].method = "GET" /\ call[c].attempt < Attempts(call[c].method)
BacksOff(c) == Becomes(c, [call[c] EXCEPT !.step = "backoff"])
Unproven(c) ==
    IF Retries(c) THEN BacksOff(c)
    ELSE Told(c, IF call[c].method = "GET" THEN "refused" ELSE "unknown")
Answered(c) ==
    /\ \/ On(c, "answered") /\ Told(c, "ok") /\ UNCHANGED <<bucket, drifted>>
       \/ On(c, "rejected") /\ Told(c, "refused") /\ UNCHANGED <<bucket, drifted>>
       \/ On(c, "limited") /\ Told(c, "refused") /\ bucket' = TriggerCooldown /\ UNCHANGED drifted
       \/ On(c, "silent") /\ Unproven(c) /\ UNCHANGED <<bucket, drifted>>
       \/ /\ On(c, "truncated") /\ UNCHANGED <<bucket, drifted>>
          /\ Told(c, IF call[c].method = "GET" THEN "refused" ELSE "unknown")
    /\ UNCHANGED <<spent, ticks, calls>>

\* A timestamp refused: the offset is read again, outside of the limiter; an
\* answer without a time counts as one.
SyncWithServer(c) ==
    /\ On(c, "timestamp")
    /\ \/ drifted' \in {FALSE, drifted} /\ IF Retries(c) THEN BacksOff(c) ELSE Told(c, "refused")
       \/ UNCHANGED drifted /\ Told(c, "refused")
    /\ UNCHANGED <<bucket, spent, ticks, calls>>

waitRetry(c) ==
    /\ On(c, "backoff")
    /\ Becomes(c, [call[c] EXCEPT !.step = "wait", !.attempt = @ + 1])
    /\ UNCHANGED <<bucket, drifted, spent, ticks, calls>>

ClientTick ==
    /\ ticks < ClientTop /\ ticks' = ticks + 1
    /\ bucket' = [bucket EXCEPT !.idle = @ + 1, !.quiet = IF @ > 0 THEN @ - 1 ELSE 0]
    /\ UNCHANGED <<drifted, call, spent, calls>>

ClientNext ==
    \/ \E c \in Callers :
           \/ BeginCall(c) \/ Wait(c) \/ WaitInVain(c) \/ Cancelled(c) \/ Serve(c) \/ Answered(c)
           \/ SyncWithServer(c) \/ waitRetry(c)
    \/ ClientTick
ClientSpec == ClientInit /\ [][ClientNext]_clientVars
---------------------------------------------------------------------------
(* The values the client can be in. *)
ClientTypeOK ==
    /\ bucket.tokens \in 0 .. Capacity /\ bucket.idle \in 0 .. ClientTop
    /\ bucket.quiet \in 0 .. Cooldown /\ spent \in Nat

(* "concurrent callers cannot over-admit beyond the refill rate", whoever
   sleeps, wakes up or is turned away in between. *)
RateIsKept == spent + bucket.tokens <= Capacity + RefillRate * (ticks - bucket.idle)

(* A caller that is told of a definite failure of a mutation may book it as
   failed: it was never carried out; one that is told of its success is
   right; and no mutation is carried out twice, whatever was lost. *)
VerdictIsTrue ==
    \A c \in Callers : call[c].method = "POST" =>
        /\ call[c].applied <= 1
        /\ call[c].verdict = "refused" => call[c].applied = 0
        /\ call[c].verdict = "ok" => call[c].applied = 1

(* The client's callers may rely on it: both of the above. *)
RequestsAreHonest == RateIsKept /\ VerdictIsTrue
=============================================================================
