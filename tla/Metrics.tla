------------------------------ MODULE Metrics ------------------------------
(***************************************************************************)
(* The metrics of the request path (src/metrics.rs) on top of Router.tla:  *)
(* every step of a request with the counters and the gauge it moves.       *)
(*                                                                         *)
(* The counters of a node are kept apart by the request that incremented   *)
(* them: the value Prometheus reads is the sum over the requests.  Those   *)
(* of the skips, which a property only bounds while the request lives, are *)
(* forgotten with its other locals.                                        *)
(***************************************************************************)
EXTENDS Router

VARIABLES sleepQueue,  \* the gauge rpc_sleep_queue_size
          requests,    \* rpc_requests, by outcome
          attempts,    \* attempts[r][n][o], rpc_upstream_attempts by outcome
          refused,     \* refused[r][n], skips for quota_exhausted and
                       \* method_unsupported
          limited,     \* limited[r][n], skips for rate_limit in this round
          fate         \* history: fate[r][n], was r sent to n, and cancelled there?

skips == <<refused, limited>>
counters == <<attempts, skips, fate>>
metricVars == <<sleepQueue, requests, counters>>
allVars == <<vars, metricVars>>

RequestOutcome == {"Forwarded", "BadRequest", "BadGateway", "Timeout"}
Outcome == {"Success", "ForwardedHttpError", "ForwardedRpcError", "RetryableRpcError",
            "InvalidJson", "BodyError", "TransportError"}

\* The outcomes of an attempt whose response goes to the client.
Settling == {"Success", "ForwardedHttpError", "ForwardedRpcError"}

MetricsInit ==
    /\ Init
    /\ sleepQueue = 0
    /\ requests = [o \in RequestOutcome |-> 0]
    /\ attempts = [r \in Request |-> [n \in Node |-> [o \in Outcome |-> 0]]]
    /\ fate = [r \in Request |-> [n \in Node |-> "unsent"]]
    /\ refused = [r \in Request |-> Nothing]
    /\ limited = [r \in Request |-> Nothing]

-----------------------------------------------------------------------------

\* GaugeGuard: up when the guard is made, down when it is dropped.
GuardMade == sleepQueue' = sleepQueue + 1
GuardDropped == sleepQueue' = sleepQueue - 1

\* Where a future that holds the guard awaits.
Guarded(r) == pc[r] \in {"sleep", "parked", "granted"}

\* Mutant: the gauge is put back after the await, which a dropped future never
\* reaches.
CancelledHoldsGuard(r) == UNCHANGED sleepQueue

\* Drop runs on a cancelled future too.
CancelledGuard(r) ==
    \/ Guarded(r) /\ GuardDropped
    \/ ~Guarded(r) /\ UNCHANGED sleepQueue

RecordRequest(o) == requests' = [requests EXCEPT ![o] = @ + 1]

\* The skips that are kept apart for r end with r.
Settle(r) ==
    /\ refused' = [refused EXCEPT ![r] = Nothing]
    /\ limited' = [limited EXCEPT ![r] = Nothing]

\* Mutant: a transport error is logged and not counted.
RecordAnswer(r, o) ==
    attempts' = IF o = "TransportError" THEN attempts
                ELSE [attempts EXCEPT ![r][cur[r]][o] = @ + 1]

\* record_attempt on the node the request is at.
RecordAttempt(r, o) == attempts' = [attempts EXCEPT ![r][cur[r]][o] = @ + 1]

\* record_skip with quota_exhausted or method_unsupported.
RecordRefusal(r, n) ==
    /\ refused' = [refused EXCEPT ![r][n] = @ + 1]
    /\ UNCHANGED <<attempts, limited, fate>>

\* record_skip with rate_limit.
RecordLimited(r, n) ==
    /\ limited' = [limited EXCEPT ![r][n] = @ + 1]
    /\ UNCHANGED <<attempts, refused, fate>>

-----------------------------------------------------------------------------
(* The steps of a request with what they record *)

\* Steps that record nothing, or a skip for a penalty or a busy node, which
\* count once for every time they happen.
Unrecorded(r) ==
    /\ \/ \E m \in Method : Arrive(r, m)
       \/ SkipPenalized(r) \/ SkipSaturated(r) \/ TakePermit(r)
       \/ TakeToken(r) \/ BookAccepted(r) \/ FailOpen(r)
    /\ UNCHANGED metricVars

\* Nothing is counted before the attempt has ended.
Sent(r) ==
    /\ AddAndSend(r)
    /\ fate' = [fate EXCEPT ![r][cur[r]] = "sent"]
    /\ UNCHANGED <<sleepQueue, requests, attempts, skips>>

\* Mutant: the nodes that are done with count as refusals in every round.
TriedIsRefusal(r) ==
    SkipTried(r) /\ RecordRefusal(r, At(r)) /\ UNCHANGED <<sleepQueue, requests>>

\* A node that is done with is passed over in silence.
PassTried(r) == SkipTried(r) /\ UNCHANGED metricVars

NewRound(r) ==
    /\ StartRound(r)
    /\ limited' = [limited EXCEPT ![r] = Nothing]
    /\ UNCHANGED <<sleepQueue, requests, attempts, refused, fate>>

\* admit or admit_waiting finds no token; the latter goes to sleep on it.
Limited(r) ==
    /\ RateLimited(r)
    /\ RecordLimited(r, cur[r])
    /\ \/ via[r] = "walk" /\ UNCHANGED sleepQueue
       \/ via[r] = "wait" /\ GuardMade
    /\ UNCHANGED requests

Refused(r) ==
    BookRefused(r) /\ RecordRefusal(r, cur[r]) /\ UNCHANGED <<sleepQueue, requests>>

\* attempt and classify_response record every attempt they see the end of, and
\* send the request such an attempt settles.
Ended(r, v) ==
    /\ RecordAttempt(r, v.outcome)
    /\ \/ v.attempt = "Done" /\ RecordRequest("Forwarded") /\ Settle(r)
       \/ v.attempt = "Retry" /\ UNCHANGED <<requests, skips>>
    /\ UNCHANGED <<sleepQueue, fate>>

\* A future that is dropped in an attempt never gets to record_attempt.
CancelledAttempt(r) ==
    /\ \/ pc[r] = "attempt" /\ fate' = [fate EXCEPT ![r][cur[r]] = "cancelled"]
       \/ pc[r] # "attempt" /\ UNCHANGED fate
    /\ UNCHANGED attempts

Asleep(r) == SleepOnRateLimit(r) /\ GuardMade /\ UNCHANGED <<requests, counters>>

Awake(r) == (Wake(r) \/ Granted(r)) /\ GuardDropped /\ UNCHANGED <<requests, counters>>

\* A permit that has come free is taken without a wait: the guard comes and
\* goes in one step.
Waiting(r) ==
    /\ AdmitWaiting(r)
    /\ \/ permits[round[r].saturated] > 0 /\ UNCHANGED sleepQueue
       \/ permits[round[r].saturated] = 0 /\ GuardMade
    /\ UNCHANGED <<requests, counters>>

\* send records what dispatch returned ...
Answered(r) ==
    \/ /\ \/ RejectBody(r) /\ RecordRequest("BadRequest")
          \/ AllNodesFailed(r) /\ RecordRequest("BadGateway")
       /\ Settle(r) /\ UNCHANGED <<sleepQueue, attempts, fate>>
    \/ /\ Timeout(r) /\ RecordRequest("Timeout")
       /\ Settle(r) /\ CancelledGuard(r) /\ CancelledAttempt(r)

\* ... unless the server dropped it with its connection.
Dropped(r) ==
    /\ Disconnect(r) /\ UNCHANGED requests
    /\ Settle(r) /\ CancelledGuard(r) /\ CancelledAttempt(r)

MetricsNext ==
    \/ \E r \in Request :
          \/ Unrecorded(r) \/ Sent(r) \/ PassTried(r) \/ NewRound(r)
          \/ Limited(r) \/ Refused(r)
          \/ AttemptDeadline(r) /\ Ended(r, TransportError)
          \/ \E v \in Verdicts : AttemptEnds(r, v) /\ Ended(r, v)
          \/ Asleep(r) \/ Awake(r) \/ Waiting(r)
          \/ Answered(r) \/ Dropped(r)
    \/ (Rerank \/ Tick \/ Horizon) /\ UNCHANGED metricVars

MetricsSpec == MetricsInit /\ [][MetricsNext]_allVars

-----------------------------------------------------------------------------
(* Properties *)

\* "the increment and the matching decrement cannot drift apart, because the
\* decrement is Drop and runs on every path out - including a cancelled future"
\* (metrics.rs:261): the gauge is the number of requests that hold its guard -
\* those that sleep on a rate limit, and those that admit_waiting parks on a busy
\* node (router.rs:357) - however they got there and however they leave.
GaugeNeverDrifts ==
    sleepQueue = Cardinality({r \in Request : Guarded(r)})

\* "requests currently parked waiting for a rate-limit window" (README.md:203):
\* the gauge counts the requests that sleep on a rate limit.
GaugeCountsRateLimited ==
    sleepQueue = Cardinality({r \in Request : pc[r] = "sleep"})

\* The labels under which the attempt of r on n was recorded.
Labels(r, n) == {o \in Outcome : attempts[r][n][o] # 0}

\* "the outcome label partitions the attempts rather than sampling them"
\* (metrics.rs:236): an attempt that was sent is recorded once and under one
\* label when it ends, unless it is cancelled - the "every path out of an attempt
\* goes through here" of that comment forgets the global timeout and the client
\* that leaves, whose attempts are counted nowhere.  The client's counters agree:
\* a request is counted as forwarded exactly when one attempt of its is recorded
\* with an outcome that settles it, and every other answer is counted once.
AttemptsPartitioned ==
    /\ \A r \in Request : \A n \in Node :
          /\ \A o \in Outcome : attempts[r][n][o] <= 1
          /\ \A o, p \in Labels(r, n) : o = p
          /\ Labels(r, n) # {}
               <=> fate[r][n] = "sent" /\ ~(pc[r] = "attempt" /\ cur[r] = n)
    /\ \A r \in Request :
          /\ answer[r] = "Forwarded"
               <=> \E n \in Node : Labels(r, n) \intersect Settling # {}
          /\ \A n, k \in Node :
                /\ Labels(r, n) \intersect Settling # {}
                /\ Labels(r, k) \intersect Settling # {}
                => n = k
    /\ \A o \in RequestOutcome :
          requests[o] = Cardinality({r \in Request :
              answer[r] = IF o = "BadGateway" THEN "AllNodesFailed" ELSE o})

\* "QuotaExhausted and MethodUnsupported fire at most once per request per node
\* ... RateLimit fires once per retry round" (metrics.rs:250), and a node that
\* was sent the request is never counted as passed over for them: over all
\* rounds, sleeps and waits of a request.
SkipsCounted ==
    \A r \in Request : \A n \in Node :
        refused[r][n] + sent[r][n] <= 1 /\ limited[r][n] <= 1
=============================================================================
