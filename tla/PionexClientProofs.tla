-------------------------- MODULE PionexClientProofs --------------------------
(* The request loop keeps the rate and tells the truth, for any number of
   callers, capacity, rate, weights and cool-down. *)
EXTENDS PionexClient, TLAPS

Steps == {"none", "wait", "sent", "limited", "rejected", "timestamp", "answered", "silent",
          "truncated", "backoff", "told"}
Records == [step : Steps, method : Methods, weight : Nat, attempt : Nat, applied : Nat,
            verdict : {"none", "ok", "refused", "unknown"}]

\* What a mutation's call has done by the step it is at.
Faithful(r) ==
    r.method = "POST" =>
        /\ r.step \in {"none", "wait", "sent", "limited", "rejected", "timestamp"}
              => r.applied = 0
        /\ r.step = "answered" => r.applied = 1
        /\ r.step # "backoff"
        /\ r.applied <= 1
        /\ r.verdict = "refused" => r.applied = 0
        /\ r.verdict = "ok" => r.applied = 1
        /\ r.step \notin {"none", "told"} => r.verdict = "none"

BucketInv ==
    /\ bucket \in [tokens : 0 .. Capacity, idle : Nat, quiet : Nat]
    /\ spent \in Nat /\ ticks \in Nat /\ RateIsKept
CallsInv == /\ call \in [Callers -> Records] /\ \A c \in Callers : Faithful(call[c])
ClientInv == BucketInv /\ CallsInv

\* Tokens that come back are those of the time that has passed.
LEMMA RefilledKeeps ==
    ASSUME BucketInv
    PROVE  /\ Refilled \in [tokens : 0 .. Capacity, idle : Nat, quiet : Nat]
           /\ Refilled.quiet = bucket.quiet /\ Refilled.idle = 0
           /\ Refilled.tokens <= bucket.tokens + bucket.idle * RefillRate
           /\ spent + Refilled.tokens <= Capacity + RefillRate * ticks
<1> DEFINE back == bucket.idle * RefillRate
<1>1. back \in Nat /\ RefillRate * ticks \in Nat
  BY ClientAssumption, SMTT(30) DEF BucketInv
<1>2. RefillRate * (ticks - bucket.idle) = RefillRate * ticks - back
  BY ClientAssumption, SMTT(30) DEF BucketInv
<1>3. spent + bucket.tokens + back <= Capacity + RefillRate * ticks
  <2> HIDE DEF back
  <2> QED BY <1>1, <1>2, ClientAssumption DEF BucketInv, RateIsKept
<1> HIDE DEF back
<1>4. Refilled = [bucket EXCEPT !.tokens = Full(bucket.tokens + back), !.idle = 0]
  BY DEF Refilled, back
<1>5. Full(bucket.tokens + back) \in 0 .. Capacity
      /\ Full(bucket.tokens + back) <= bucket.tokens + back
  BY <1>1, ClientAssumption DEF Full, BucketInv
<1>6. /\ Refilled \in [tokens : 0 .. Capacity, idle : Nat, quiet : Nat]
      /\ Refilled.quiet = bucket.quiet /\ Refilled.idle = 0
      /\ Refilled.tokens = Full(bucket.tokens + back)
  <2> HIDE DEF Full
  <2> QED BY <1>4, <1>5 DEF BucketInv
<1>7. Refilled.tokens <= bucket.tokens + back
      /\ spent + Refilled.tokens <= Capacity + RefillRate * ticks
  BY <1>1, <1>3, <1>5, <1>6, ClientAssumption DEF BucketInv
<1> QED BY <1>6, <1>7 DEF back

LEMMA ClientStarts == ClientInit => ClientInv
<1> SUFFICES ASSUME ClientInit PROVE ClientInv
  OBVIOUS
<1>1. BucketInv
  BY ClientAssumption DEF ClientInit, BucketInv, RateIsKept
<1>2. CallsInv
  BY DEF ClientInit, CallsInv, NoCall, Records, Steps, Methods, Faithful
<1> QED BY <1>1, <1>2 DEF ClientInv

\* One call's record moves; the others stay.
LEMMA OneMoves ==
    ASSUME CallsInv, NEW c \in Callers, NEW r \in Records, Faithful(r),
           call' = [call EXCEPT ![c] = r]
    PROVE  CallsInv'
<1>1. call' \in [Callers -> Records]
  BY DEF CallsInv
<1>2. ASSUME NEW d \in Callers PROVE Faithful(call'[d])
  <2>1. call'[d] = IF d = c THEN r ELSE call[d]
    BY DEF CallsInv
  <2> QED BY <2>1 DEF CallsInv
<1> QED BY <1>1, <1>2 DEF CallsInv

\* What is told ends a call in a record of its own.
LEMMA TellsTruth ==
    ASSUME CallsInv, NEW c \in Callers, NEW v \in {"ok", "refused", "unknown"}, Told(c, v),
           call[c].method = "POST" =>
               /\ v = "refused" => call[c].applied = 0
               /\ v = "ok" => call[c].applied = 1
    PROVE  CallsInv'
<1> DEFINE r == [call[c] EXCEPT !.step = "told", !.weight = 0, !.attempt = 0, !.verdict = v]
<1>1. call[c] \in Records /\ Faithful(call[c])
  BY DEF CallsInv
<1>2. r \in Records /\ r.step = "told" /\ r.verdict = v
      /\ r.method = call[c].method /\ r.applied = call[c].applied
  BY <1>1 DEF Records, Steps
<1>3. Faithful(r)
  <2> HIDE DEF r
  <2> QED BY <1>1, <1>2 DEF Faithful
<1>4. call' = [call EXCEPT ![c] = r]
  BY DEF Told, Becomes
<1> HIDE DEF r
<1> QED BY <1>2, <1>3, <1>4, OneMoves

\* A call that goes on to another step, with done carried out on the way.
LEMMA GoesOn ==
    ASSUME CallsInv, NEW c \in Callers, NEW r \in Records, NEW done \in {0, 1},
           call' = [call EXCEPT ![c] = r],
           call[c].step \notin {"none", "told"}, r.step \notin {"none", "told"},
           r.method = call[c].method, r.verdict = call[c].verdict,
           r.applied = call[c].applied + done,
           r.method = "POST" =>
               /\ r.step # "backoff" /\ call[c].applied = 0
               /\ r.step \in {"wait", "sent", "limited", "rejected", "timestamp"} => done = 0
               /\ r.step = "answered" => done = 1
    PROVE  CallsInv'
<1>1. Faithful(call[c])
  BY DEF CallsInv
<1>2. Faithful(r)
  BY <1>1 DEF Faithful
<1> QED BY <1>2, OneMoves

\* One with nothing carried out and all but the step as before.
LEMMA GoesOnPlain ==
    ASSUME CallsInv, NEW c \in Callers, call[c].step \notin {"none", "told"},
           NEW step \in Steps \ {"none", "told", "answered"},
           Becomes(c, [call[c] EXCEPT !.step = step]),
           call[c].method = "POST" => step # "backoff" /\ call[c].applied = 0
    PROVE  CallsInv'
<1> DEFINE r == [call[c] EXCEPT !.step = step]
<1>1. call[c] \in Records
  BY DEF CallsInv
<1>2. /\ r \in Records /\ r.step = step /\ r.verdict = call[c].verdict
      /\ r.method = call[c].method /\ r.applied = call[c].applied
  BY <1>1 DEF Records
<1>3. call' = [call EXCEPT ![c] = r]
  BY DEF Becomes
<1>4. r.applied = call[c].applied + 0
  BY <1>1, <1>2 DEF Records
<1> HIDE DEF r
<1> QED BY <1>2, <1>3, <1>4, GoesOn

LEMMA BacksOffKeeps ==
    ASSUME CallsInv, NEW c \in Callers, call[c].step \notin {"none", "told"},
           Retries(c), BacksOff(c)
    PROVE  CallsInv'
<1>1. call[c].method # "POST"
  BY DEF Retries
<1> QED BY <1>1, GoesOnPlain DEF BacksOff, Steps

LEMMA ClientStep == ClientInv /\ [ClientNext]_clientVars => ClientInv'
<1> SUFFICES ASSUME ClientInv, [ClientNext]_clientVars PROVE ClientInv'
  OBVIOUS
<1> USE DEF ClientInv
<1>kept. ASSUME UNCHANGED <<bucket, spent, ticks>> PROVE BucketInv'
  BY <1>kept DEF BucketInv, RateIsKept
<1>1. ASSUME NEW c \in Callers, BeginCall(c) PROVE ClientInv'
  <2>1. PICK m \in Methods, w \in Weights :
            call' = [call EXCEPT ![c] =
                       [step |-> "wait", method |-> m, weight |-> w, attempt |-> 1,
                        applied |-> 0, verdict |-> "none"]]
    BY <1>1 DEF BeginCall, Becomes
  <2> DEFINE r == [step |-> "wait", method |-> m, weight |-> w, attempt |-> 1,
                   applied |-> 0, verdict |-> "none"]
  <2>2. r \in Records /\ Faithful(r)
    BY ClientAssumption DEF Records, Steps, Faithful
  <2>3. CallsInv'
    <3> HIDE DEF r
    <3> QED BY <2>1, <2>2, OneMoves DEF r
  <2> QED BY <2>3, <1>1, <1>kept DEF BeginCall
<1>2. ASSUME NEW c \in Callers, Wait(c) PROVE ClientInv'
  <2>0. call[c] \in Records /\ Faithful(call[c]) /\ call[c].step = "wait"
    BY <1>2 DEF Wait, On, CallsInv
  <2>1. CASE bucket.quiet > 0
    <3>1. CallsInv'
      BY <1>2, <2>0, <2>1, TellsTruth DEF Wait, Faithful
    <3> QED BY <1>2, <2>1, <3>1, <1>kept DEF Wait
  <2>2. CASE ~(bucket.quiet > 0)
    <3>1. CallsInv'
      <4>1. Becomes(c, [call[c] EXCEPT !.step = "sent"])
        BY <1>2, <2>2 DEF Wait
      <4> QED BY <2>0, <4>1, GoesOnPlain DEF Steps, Faithful
    <3>2. BucketInv'
      <4> DEFINE full == Refilled
      <4>1. /\ full.tokens >= call[c].weight
            /\ bucket' = [full EXCEPT !.tokens = @ - call[c].weight]
            /\ spent' = spent + call[c].weight /\ ticks' = ticks
        BY <1>2, <2>2 DEF Wait
      <4>2. /\ full \in [tokens : 0 .. Capacity, idle : Nat, quiet : Nat] /\ full.idle = 0
            /\ spent + full.tokens <= Capacity + RefillRate * ticks
        BY RefilledKeeps
      <4>3. call[c].weight \in Nat
        BY <2>0 DEF Records
      <4> HIDE DEF full
      <4>4. /\ bucket' \in [tokens : 0 .. Capacity, idle : Nat, quiet : Nat]
            /\ bucket'.tokens = full.tokens - call[c].weight /\ bucket'.idle = 0
        BY <4>1, <4>2, <4>3, ClientAssumption
      <4>5. RateIsKept'
        <5>1. RefillRate * (ticks' - bucket'.idle) = RefillRate * ticks
          BY <4>1, <4>4 DEF BucketInv
        <5>2. RefillRate * ticks \in Nat
          BY ClientAssumption, SMTT(30) DEF BucketInv
        <5> QED BY <4>1, <4>2, <4>3, <4>4, <5>1, <5>2, ClientAssumption DEF RateIsKept, BucketInv
      <4> QED BY <4>1, <4>3, <4>4, <4>5 DEF BucketInv
    <3> QED BY <3>1, <3>2
  <2> QED BY <2>1, <2>2
<1>3. ASSUME NEW c \in Callers, WaitInVain(c) PROVE ClientInv'
  <2>1. bucket' = Refilled /\ UNCHANGED <<call, spent, ticks>>
    BY <1>3 DEF WaitInVain
  <2>2. BucketInv'
    <3>1. RefillRate * (ticks' - bucket'.idle) = RefillRate * ticks
      BY <2>1, RefilledKeeps DEF BucketInv
    <3> QED BY <2>1, <3>1, RefilledKeeps DEF BucketInv, RateIsKept
  <2> QED BY <2>1, <2>2 DEF CallsInv
<1>4. ASSUME NEW c \in Callers, Cancelled(c) PROVE ClientInv'
  <2>1. CallsInv'
    BY <1>4, TellsTruth DEF Cancelled, CallsInv, Faithful
  <2> QED BY <1>4, <2>1, <1>kept DEF Cancelled
<1>5. ASSUME NEW c \in Callers, Serve(c) PROVE ClientInv'
  <2>0. call[c] \in Records /\ Faithful(call[c]) /\ call[c].step = "sent"
    BY <1>5 DEF Serve, On, CallsInv
  <2>1. CallsInv'
    <3>1. CASE \E s \in {"limited", "rejected", "timestamp"} :
                  Becomes(c, [call[c] EXCEPT !.step = s])
      BY <2>0, <3>1, GoesOnPlain DEF Steps, Faithful
    <3>2. CASE \E s \in {"answered", "silent", "truncated"}, done \in {0, 1} :
                  /\ s = "answered" => done = 1
                  /\ Becomes(c, [call[c] EXCEPT !.step = s, !.applied = @ + done])
      <4>1. PICK s \in {"answered", "silent", "truncated"}, done \in {0, 1} :
                  /\ s = "answered" => done = 1
                  /\ Becomes(c, [call[c] EXCEPT !.step = s, !.applied = @ + done])
        BY <3>2
      <4> DEFINE sum == call[c].applied + done
                 r == [call[c] EXCEPT !.step = s, !.applied = sum]
      <4>2. sum \in Nat
        BY <2>0 DEF Records
      <4>3. call' = [call EXCEPT ![c] = r]
        BY <4>1 DEF Becomes
      <4>4. sum = call[c].applied + done
        OBVIOUS
      <4> HIDE DEF sum
      <4>5. /\ r \in Records /\ r.step = s /\ r.verdict = call[c].verdict
            /\ r.method = call[c].method /\ r.applied = sum
        BY <2>0, <4>2 DEF Records, Steps
      <4> HIDE DEF r
      <4> QED BY <2>0, <4>1, <4>3, <4>4, <4>5, GoesOn DEF Faithful
    <3> QED BY <1>5, <3>1, <3>2 DEF Serve
  <2> QED BY <1>5, <2>1, <1>kept DEF Serve
<1>6. ASSUME NEW c \in Callers, Answered(c) PROVE ClientInv'
  <2>0. call[c] \in Records /\ Faithful(call[c])
        /\ call[c].step \in {"answered", "rejected", "limited", "silent", "truncated"}
    BY <1>6 DEF Answered, On, CallsInv
  <2>1. CallsInv'
    <3>1. CASE \E v \in {"ok", "refused", "unknown"} :
                  /\ Told(c, v)
                  /\ v = "ok" => call[c].step = "answered"
                  /\ v = "refused" => call[c].step \in {"rejected", "limited"}
                                       \/ call[c].method = "GET"
      BY <2>0, <3>1, TellsTruth DEF Faithful
    <3>2. CASE Retries(c) /\ BacksOff(c)
      BY <2>0, <3>2, BacksOffKeeps
    <3> QED BY <1>6, <2>0, <3>1, <3>2 DEF Answered, Unproven, On
  <2>2. BucketInv'
    <3>1. CASE UNCHANGED bucket
      BY <1>6, <3>1, <1>kept DEF Answered
    <3>2. CASE bucket' = TriggerCooldown
      <4>1. bucket' \in [tokens : 0 .. Capacity, idle : Nat, quiet : Nat]
            /\ bucket'.tokens = bucket.tokens /\ bucket'.idle = bucket.idle
        BY <3>2, ClientAssumption DEF TriggerCooldown, BucketInv
      <4> QED BY <1>6, <4>1 DEF Answered, BucketInv, RateIsKept
    <3> QED BY <1>6, <3>1, <3>2 DEF Answered
  <2> QED BY <2>1, <2>2
<1>7. ASSUME NEW c \in Callers, SyncWithServer(c) PROVE ClientInv'
  <2>0. call[c] \in Records /\ Faithful(call[c]) /\ call[c].step = "timestamp"
    BY <1>7 DEF SyncWithServer, On, CallsInv
  <2>1. CASE Told(c, "refused")
    <3>1. CallsInv'
      BY <2>0, <2>1, TellsTruth DEF Faithful
    <3> QED BY <1>7, <3>1, <1>kept DEF SyncWithServer
  <2>2. CASE Retries(c) /\ BacksOff(c)
    <3>1. CallsInv'
      BY <2>0, <2>2, BacksOffKeeps
    <3> QED BY <1>7, <3>1, <1>kept DEF SyncWithServer
  <2> QED BY <1>7, <2>1, <2>2 DEF SyncWithServer
<1>8. ASSUME NEW c \in Callers, waitRetry(c) PROVE ClientInv'
  <2>0. call[c] \in Records /\ Faithful(call[c]) /\ call[c].step = "backoff"
    BY <1>8 DEF waitRetry, On, CallsInv
  <2> DEFINE n == call[c].attempt + 1
             r == [call[c] EXCEPT !.step = "wait", !.attempt = n]
  <2>1. n \in Nat
    BY <2>0 DEF Records
  <2>2. call' = [call EXCEPT ![c] = r]
    BY <1>8 DEF waitRetry, Becomes
  <2> HIDE DEF n
  <2>3. /\ r \in Records /\ r.step = "wait" /\ r.verdict = call[c].verdict
        /\ r.method = call[c].method /\ r.applied = call[c].applied
    BY <2>0, <2>1 DEF Records, Steps
  <2> HIDE DEF r
  <2>4. CallsInv'
    <3>1. r.applied = call[c].applied + 0 /\ r.method # "POST"
      BY <2>0, <2>3 DEF Records, Faithful
    <3> QED BY <2>0, <2>2, <2>3, <3>1, GoesOn
  <2> QED BY <1>8, <2>4, <1>kept DEF waitRetry
<1>9. ASSUME ClientTick PROVE ClientInv'
  <2> DEFINE i == bucket.idle + 1
             q == IF bucket.quiet > 0 THEN bucket.quiet - 1 ELSE 0
  <2>0. /\ i \in Nat /\ q \in Nat /\ i = bucket.idle + 1
        /\ bucket' = [bucket EXCEPT !.idle = i, !.quiet = q]
    BY <1>9 DEF ClientTick, BucketInv
  <2> HIDE DEF i, q
  <2>1. /\ bucket' \in [tokens : 0 .. Capacity, idle : Nat, quiet : Nat]
        /\ bucket'.tokens = bucket.tokens /\ bucket'.idle = bucket.idle + 1
        /\ ticks' = ticks + 1 /\ UNCHANGED <<call, spent>>
    BY <1>9, <2>0 DEF ClientTick, BucketInv
  <2>2. ticks' - bucket'.idle = ticks - bucket.idle
    BY <2>1 DEF BucketInv
  <2>3. BucketInv'
    BY <2>1, <2>2 DEF BucketInv, RateIsKept
  <2> QED BY <2>1, <2>3 DEF CallsInv
<1>10. CASE UNCHANGED clientVars
  BY <1>10, <1>kept DEF clientVars, CallsInv
<1> QED BY <1>1, <1>2, <1>3, <1>4, <1>5, <1>6, <1>7, <1>8, <1>9, <1>10 DEF ClientNext

(* Whatever the number of callers, the bucket's size and rate: never more
   weight is admitted than the rate allows, a mutation is carried out at most
   once a call, and a definite answer about it is true. *)
THEOREM ClientIsHonest == ClientSpec => []RequestsAreHonest
<1>1. ClientInv => RequestsAreHonest
  BY DEF ClientInv, BucketInv, CallsInv, Faithful, RequestsAreHonest, VerdictIsTrue
<1> QED BY <1>1, ClientStarts, ClientStep, PTL DEF ClientSpec
=============================================================================
