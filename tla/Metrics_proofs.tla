---------------------------- MODULE Metrics_proofs ----------------------------
(***************************************************************************)
(* Proofs about Metrics for every set of nodes, requests and methods and   *)
(* every limit.  A step with its metrics is a step of Router, so what      *)
(* Router_proofs shows of the requests holds here as well; MInv adds what  *)
(* the gauge and the counters owe to where the requests are.               *)
(***************************************************************************)
EXTENDS Metrics, Router_proofs

\* The label of an outcome's requests.
AnswerOf(o) == IF o = "BadGateway" THEN "AllNodesFailed" ELSE o

Sleepers == {r \in Request : Guarded(r)}
WithAnswer(o) == {r \in Request : answer[r] = AnswerOf(o)}

MetricTypes ==
    /\ sleepQueue \in Int
    /\ requests \in [RequestOutcome -> Nat]
    /\ attempts \in [Request -> [Node -> [Outcome -> Nat]]]
    /\ refused \in [Request -> [Node -> Nat]]
    /\ limited \in [Request -> [Node -> Nat]]
    /\ fate \in [Request -> [Node -> {"unsent", "sent", "cancelled"}]]

\* A request that has not ended has no answer yet.
OpenOK(r) == pc[r] # "done" => answer[r] = "None"

\* The counters of an attempt that is not recorded, and of one recorded as o.
NoLabel == [p \in Outcome |-> 0]
OneLabel(o) == [p \in Outcome |-> IF p = o THEN 1 ELSE 0]

\* The attempt of r on n ran to its end.
Completed(r, n) == fate[r][n] = "sent" /\ ~(pc[r] = "attempt" /\ cur[r] = n)

\* A node that is not tried was not sent the request; an attempt in flight was.
FateOK(r) ==
    /\ pc[r] # "done" => \A n \in Node \ req[r].tried : fate[r][n] = "unsent"
    /\ pc[r] = "attempt" => fate[r][cur[r]] = "sent"

\* An attempt that ran to its end is recorded under one label, any other under
\* none.
LabelsOK(r) ==
    \A n \in Node :
        /\ ~Completed(r, n) => attempts[r][n] = NoLabel
        /\ Completed(r, n) => \E o \in Outcome : attempts[r][n] = OneLabel(o)

\* No attempt of r on a node of S is recorded with an outcome that settles it.
Unsettled(r, S) == \A n \in S : \A o \in Settling : attempts[r][n][o] = 0

\* A forwarded request has one attempt that settled it, any other none.
SettledOK(r) ==
    \/ answer[r] # "Forwarded" /\ Unsettled(r, Node)
    \/ /\ answer[r] = "Forwarded"
       /\ \E n \in Node : /\ \E o \in Settling : attempts[r][n][o] # 0
                         /\ Unsettled(r, Node \ {n})

AttemptsOK(r) == FateOK(r) /\ LabelsOK(r) /\ SettledOK(r)

\* A node that is not tried was not refused either.
RefusedOK(r) ==
    \A n \in Node :
        /\ refused[r][n] + sent[r][n] <= 1
        /\ n \notin req[r].tried => refused[r][n] = 0

\* A skip for the rate limit in this walk leaves a wait behind and was at a node
\* already passed; the walk that parked met no rate limit.
LimitedOK(r) ==
    /\ \A n \in Node : limited[r][n] <= 1
    /\ pc[r] \in OnWalk /\ via[r] = "walk"
         => \A n \in Node : limited[r][n] # 0
              => /\ round[r].best # 0
                 /\ \E i \in 1 .. Len(round[r].walk) :
                       i < round[r].pos /\ round[r].walk[i] = n
    /\ pc[r] \in OnNode /\ via[r] = "wait" => \A n \in Node : limited[r][n] = 0

CountsOK(r) == OpenOK(r) /\ AttemptsOK(r) /\ RefusedOK(r) /\ LimitedOK(r)

Counts == \A r \in Request : CountsOK(r)
Outcomes == \A o \in RequestOutcome : requests[o] = Cardinality(WithAnswer(o))

\* The inductive invariant.
MInv == IInv /\ MetricTypes /\ GaugeNeverDrifts /\ Counts /\ Outcomes

-----------------------------------------------------------------------------
(* The steps of a request *)

\* The steps of request r with what they record.
Recorded(r) ==
    \/ Unrecorded(r) \/ Sent(r) \/ PassTried(r) \/ NewRound(r)
    \/ Limited(r) \/ Refused(r)
    \/ AttemptDeadline(r) /\ Ended(r, TransportError)
    \/ \E v \in Verdicts : AttemptEnds(r, v) /\ Ended(r, v)
    \/ Asleep(r) \/ Awake(r) \/ Waiting(r)
    \/ Answered(r) \/ Dropped(r)

\* Every step is a recorded step of one request or records nothing.
LEMMA MetricsSplit ==
    ASSUME [MetricsNext]_allVars
    PROVE  \/ \E r \in Request : Recorded(r)
           \/ (Rerank \/ Tick \/ Horizon \/ UNCHANGED vars) /\ UNCHANGED metricVars
  BY DEF MetricsNext, Recorded, allVars

\* A recorded step is a step of the router.
LEMMA RecordedMoves ==
    ASSUME NEW r \in Request, Recorded(r)
    PROVE  Moves(r)
  BY DEF Recorded, Unrecorded, Sent, PassTried, NewRound, Limited, Refused, Asleep, Awake, Waiting,
         Answered, Dropped, Moves, Step

\* So is every step with its metrics.
LEMMA MetricsMoves ==
    ASSUME [MetricsNext]_allVars
    PROVE  [Next]_vars
  <1>1. ASSUME NEW r \in Request, Recorded(r) PROVE Next
    BY <1>1, RecordedMoves DEF Moves, Next
  <1>2. CASE Rerank \/ Tick \/ Horizon \/ UNCHANGED vars
    BY <1>2 DEF Next
  <1> QED BY <1>1, <1>2, MetricsSplit

\* Where r goes with a step that gives its permit back.
LEMMA WhereTo ==
    ASSUME IInv, NEW r \in Request
    PROVE  /\ RateLimited(r) => /\ pc[r] = "rate" /\ cur[r] \in Node
                                /\ pc'[r] = IF via[r] = "walk" THEN "walk" ELSE "sleep"
           /\ BookRefused(r) => /\ pc[r] = "book" /\ cur[r] \in Node
                                /\ pc'[r] = MoveOn(r)
           /\ \A v \in Verdicts :
                 AttemptEnds(r, v) =>
                    /\ pc[r] = "attempt" /\ cur[r] \in Node
                    /\ pc'[r] = IF v.attempt = "Done" THEN "done" ELSE MoveOn(r)
           /\ \A a : Cancel(r, a) => pc'[r] = "done"
  <1> USE DEF IInv
  <1>0. /\ pc \in [Request -> Pc] /\ via[r] \in {"walk", "wait"}
        /\ pc[r] \in OnNode => cur[r] \in Node
    BY DEF TypeOK, Places, PlaceOK
  <1>1. {"walk", "sleep", "round", "done"} \subseteq Pc /\ MoveOn(r) \in {"walk", "round"}
    BY DEF Pc, Await, MoveOn
  <1>2. ASSUME RateLimited(r)
        PROVE  /\ pc[r] = "rate" /\ cur[r] \in Node
               /\ pc'[r] = IF via[r] = "walk" THEN "walk" ELSE "sleep"
    <2>1. pc[r] = "rate" /\ cur[r] \in Node
      BY <1>0, <1>2 DEF RateLimited, OnNode
    <2>2. Release(r, cur[r], IF via[r] = "walk" THEN "walk" ELSE "sleep")
      BY <1>2 DEF RateLimited
    <2>3. (IF via[r] = "walk" THEN "walk" ELSE "sleep") \in Pc
      BY <1>1
    <2> QED BY <2>1, <2>2, <2>3, ReleaseMoves
  <1>3. ASSUME BookRefused(r)
        PROVE  pc[r] = "book" /\ cur[r] \in Node /\ pc'[r] = MoveOn(r)
    <2>1. pc[r] = "book" /\ cur[r] \in Node /\ Release(r, cur[r], MoveOn(r))
      BY <1>0, <1>3 DEF BookRefused, OnNode
    <2> QED BY <1>1, <2>1, ReleaseMoves
  <1>4. ASSUME NEW v \in Verdicts, AttemptEnds(r, v)
        PROVE  /\ pc[r] = "attempt" /\ cur[r] \in Node
               /\ pc'[r] = IF v.attempt = "Done" THEN "done" ELSE MoveOn(r)
    <2>1. pc[r] = "attempt" /\ cur[r] \in Node
      BY <1>0, <1>4 DEF AttemptEnds, OnNode
    <2>2. Release(r, cur[r], IF v.attempt = "Done" THEN "done" ELSE MoveOn(r))
      BY <1>4 DEF AttemptEnds
    <2>3. (IF v.attempt = "Done" THEN "done" ELSE MoveOn(r)) \in Pc
      BY <1>1
    <2> QED BY <2>1, <2>2, <2>3, ReleaseMoves
  <1>5. ASSUME NEW a, Cancel(r, a) PROVE pc'[r] = "done"
    <2>1. CASE pc[r] \in {"attempt", "granted"}
      <3>1. cur[r] \in Node /\ Release(r, cur[r], "done")
        BY <1>0, <1>5, <2>1 DEF Cancel, OnNode
      <3> QED BY <1>1, <2>1, <3>1, ReleaseMoves
    <2>2. CASE pc[r] \in {"parked", "sleep"}
      BY <1>0, <1>5, <2>2 DEF Cancel
    <2> QED BY <1>5, <2>1, <2>2 DEF Cancel
  <1> QED BY <1>2, <1>3, <1>4, <1>5

\* What is kept apart for the other requests stays.
OthersUncounted(r) ==
    \A q \in Request \ {r} :
        /\ attempts'[q] = attempts[q] /\ refused'[q] = refused[q]
        /\ limited'[q] = limited[q] /\ fate'[q] = fate[q]

\* A step of r counts for r only.
LEMMA CountsOwn ==
    ASSUME MetricTypes, NEW r \in Request, Recorded(r)
    PROVE  OthersUncounted(r)
  <1>0. /\ attempts \in [Request -> [Node -> [Outcome -> Nat]]]
        /\ refused \in [Request -> [Node -> Nat]] /\ limited \in [Request -> [Node -> Nat]]
        /\ fate \in [Request -> [Node -> {"unsent", "sent", "cancelled"}]]
    BY DEF MetricTypes
  <1> DEFINE Skipped == \A q \in Request \ {r} :
                          refused'[q] = refused[q] /\ limited'[q] = limited[q]
             Left == \A q \in Request \ {r} : attempts'[q] = attempts[q] /\ fate'[q] = fate[q]
  <1>1. CASE Unrecorded(r) \/ PassTried(r) \/ Asleep(r) \/ Awake(r) \/ Waiting(r)
    BY <1>1 DEF Unrecorded, PassTried, Asleep, Awake, Waiting, metricVars, counters, skips,
                OthersUncounted
  <1>2. CASE NewRound(r) \/ Limited(r) \/ Refused(r)
    BY <1>0, <1>2 DEF NewRound, Limited, Refused, RecordLimited, RecordRefusal,
                      OthersUncounted
  <1>3. CASE Sent(r)
    BY <1>0, <1>3 DEF Sent, skips, OthersUncounted
  <1>4. Settle(r) \/ UNCHANGED skips => Skipped
    BY <1>0 DEF Settle, skips
  <1>5. CancelledAttempt(r) \/ UNCHANGED <<attempts, fate>> => Left
    BY <1>0 DEF CancelledAttempt
  <1>6. ASSUME NEW v, Ended(r, v) PROVE OthersUncounted(r)
    <2>1. Left
      BY <1>0, <1>6 DEF Ended, RecordAttempt
    <2> QED BY <1>4, <1>6, <2>1 DEF Ended, OthersUncounted
  <1>7. CASE Answered(r) \/ Dropped(r)
    BY <1>4, <1>5, <1>7 DEF Answered, Dropped, OthersUncounted
  <1> QED BY <1>1, <1>2, <1>3, <1>6, <1>7 DEF Recorded

-----------------------------------------------------------------------------
(* The gauge *)

\* The gauge moves with the guard of r.
GaugeMoves(r) ==
    \/ (Guarded(r)' <=> Guarded(r)) /\ sleepQueue' = sleepQueue
    \/ ~Guarded(r) /\ Guarded(r)' /\ sleepQueue' = sleepQueue + 1
    \/ Guarded(r) /\ ~Guarded(r)' /\ sleepQueue' = sleepQueue - 1

\* Every step of r moves the gauge as it moves r in or out of an await that is
\* guarded, cancellation included.
LEMMA GaugeFollows ==
    ASSUME IInv, NEW r \in Request, Recorded(r)
    PROVE  GaugeMoves(r)
  <1>0. pc \in [Request -> Pc] /\ via[r] \in {"walk", "wait"}
    BY DEF IInv, TypeOK
  <1>1. CASE Unrecorded(r)
    <2>1. sleepQueue' = sleepQueue
      BY <1>1 DEF Unrecorded, metricVars
    <2>2. ~Guarded(r) /\ ~Guarded(r)'
      BY <1>0, <1>1 DEF Unrecorded, Guarded, Arrive, SkipPenalized, SkipSaturated,
                        TakePermit, TakeToken, BookAccepted, FailOpen, Walking,
                        NothingToWaitFor, Walked
    <2> QED BY <2>1, <2>2 DEF GaugeMoves
  <1>13. CASE Sent(r)
    BY <1>0, <1>13 DEF Sent, AddAndSend, Guarded, GaugeMoves
  <1>2. CASE PassTried(r) \/ NewRound(r)
    BY <1>0, <1>2 DEF PassTried, NewRound, SkipTried, StartRound, metricVars, Walking,
                      Guarded, GaugeMoves
  <1>3. CASE Limited(r)
    <2>1. RateLimited(r)
      BY <1>3 DEF Limited
    <2>2. pc[r] = "rate" /\ pc'[r] = IF via[r] = "walk" THEN "walk" ELSE "sleep"
      BY <2>1, WhereTo
    <2>3. \/ via[r] = "walk" /\ sleepQueue' = sleepQueue
          \/ via[r] = "wait" /\ sleepQueue' = sleepQueue + 1
      BY <1>3 DEF Limited, GuardMade
    <2> QED BY <2>2, <2>3 DEF Guarded, GaugeMoves
  <1>4. CASE Refused(r)
    <2>1. BookRefused(r) /\ sleepQueue' = sleepQueue
      BY <1>4 DEF Refused
    <2>2. pc[r] = "book" /\ pc'[r] \in {"walk", "round"}
      BY <2>1, WhereTo DEF MoveOn
    <2> QED BY <2>1, <2>2 DEF Guarded, GaugeMoves
  <1>5. ASSUME NEW v \in Verdicts, AttemptEnds(r, v), Ended(r, v) PROVE GaugeMoves(r)
    <2>1. sleepQueue' = sleepQueue
      BY <1>5 DEF Ended
    <2>2. pc[r] = "attempt" /\ pc'[r] \in {"done", "walk", "round"}
      BY <1>5, WhereTo DEF MoveOn
    <2> QED BY <2>1, <2>2 DEF Guarded, GaugeMoves
  <1>6. CASE Asleep(r)
    BY <1>0, <1>6 DEF Asleep, SleepOnRateLimit, Walked, GuardMade, Guarded, GaugeMoves
  <1>7. CASE Awake(r)
    BY <1>0, <1>7 DEF Awake, Wake, Granted, GuardDropped, Guarded, GaugeMoves
  <1>8. CASE Waiting(r)
    <2>1. pc[r] = "walk"
      BY <1>8 DEF Waiting, AdmitWaiting, Walked
    <2>2. CASE permits[round[r].saturated] > 0
      <3>1. permits[round[r].saturated] # 0
        BY <1>8, <2>2 DEF Waiting, AdmitWaiting, IInv, TypeOK, RoundLocals
      <3>2. pc'[r] = "rate" /\ sleepQueue' = sleepQueue
        BY <1>0, <1>8, <2>2, <3>1 DEF Waiting, AdmitWaiting
      <3> QED BY <2>1, <3>2 DEF Guarded, GaugeMoves
    <2>3. CASE permits[round[r].saturated] = 0
      <3>1. pc'[r] = "parked" /\ sleepQueue' = sleepQueue + 1
        BY <1>0, <1>8, <2>3 DEF Waiting, AdmitWaiting, GuardMade
      <3> QED BY <2>1, <3>1 DEF Guarded, GaugeMoves
    <2> QED BY <1>8, <2>2, <2>3 DEF Waiting
  <1>9. ASSUME CancelledGuard(r), pc'[r] = "done" PROVE GaugeMoves(r)
    BY <1>9 DEF CancelledGuard, GuardDropped, Guarded, GaugeMoves
  <1>10. CASE Answered(r)
    <2>1. CASE RejectBody(r) /\ UNCHANGED sleepQueue
      BY <1>0, <2>1 DEF RejectBody, Guarded, GaugeMoves
    <2>2. CASE AllNodesFailed(r) /\ UNCHANGED sleepQueue
      BY <1>0, <2>2 DEF AllNodesFailed, NothingToWaitFor, Walked, Guarded, GaugeMoves
    <2>3. CASE Timeout(r) /\ CancelledGuard(r)
      BY <1>9, <2>3, WhereTo DEF Timeout
    <2> QED BY <1>10, <2>1, <2>2, <2>3 DEF Answered
  <1>11. CASE Dropped(r)
    BY <1>9, <1>11, WhereTo DEF Dropped, Disconnect
  <1>12. CASE AttemptDeadline(r) /\ Ended(r, TransportError)
    BY <1>5, <1>12, TransportErrorIsVerdict DEF AttemptDeadline
  <1> QED
    BY <1>1, <1>2, <1>3, <1>4, <1>5, <1>6, <1>7, <1>8, <1>10, <1>11, <1>12, <1>13
       DEF Recorded

\* A set of requests changes its size as r joins or leaves it.
LEMMA OneJoinsOrLeaves ==
    ASSUME NEW S \in SUBSET Request, NEW T \in SUBSET Request, NEW r \in Request,
           \A q \in Request \ {r} : q \in S <=> q \in T
    PROVE  /\ Cardinality(S) \in Nat
           /\ (r \in S <=> r \in T) => Cardinality(T) = Cardinality(S)
           /\ r \notin S /\ r \in T => Cardinality(T) = Cardinality(S) + 1
           /\ r \in S /\ r \notin T => Cardinality(T) = Cardinality(S) - 1
  <1>1. IsFiniteSet(S)
    BY RequestAssumption, FS_Subset
  <1>2. Cardinality(S) \in Nat
    BY <1>1, FS_CardinalityType
  <1>3. ASSUME r \in S <=> r \in T PROVE Cardinality(T) = Cardinality(S)
    <2>1. S = T
      BY <1>3
    <2> QED BY <2>1
  <1>4. ASSUME r \notin S, r \in T PROVE Cardinality(T) = Cardinality(S) + 1
    <2>1. T = S \union {r}
      BY <1>4
    <2>2. Cardinality(S \union {r}) = Cardinality(S) + 1
      BY <1>1, <1>4, FS_AddElement
    <2> QED BY <2>1, <2>2
  <1>5. ASSUME r \in S, r \notin T PROVE Cardinality(T) = Cardinality(S) - 1
    <2>1. T = S \ {r}
      BY <1>5
    <2>2. Cardinality(S \ {r}) = Cardinality(S) - 1
      BY <1>1, <1>5, FS_RemoveElement
    <2> QED BY <2>1, <2>2
  <1> QED BY <1>2, <1>3, <1>4, <1>5

\* The gauge is the number of sleepers, said with Sleepers.
LEMMA GaugeIsSleepers == GaugeNeverDrifts <=> sleepQueue = Cardinality(Sleepers)
  BY DEF GaugeNeverDrifts, Sleepers

\* A permit handed to a waiter leaves it guarded, so the gauge stays exact.
LEMMA GaugeStep ==
    ASSUME IInv, GaugeNeverDrifts, NEW r \in Request, Recorded(r)
    PROVE  GaugeNeverDrifts'
  <1>1. \A q \in Request \ {r} : q \in Sleepers <=> q \in Sleepers'
    <2>1. OthersStay(r)
      BY RecordedMoves, OthersLeft
    <2> QED BY <2>1 DEF OthersStay, Sleepers, Guarded
  <1>2. (r \in Sleepers <=> Guarded(r)) /\ (r \in Sleepers' <=> Guarded(r)')
    BY DEF Sleepers
  <1>3. Sleepers \in SUBSET Request /\ Sleepers' \in SUBSET Request
    BY DEF Sleepers
  <1>4. GaugeMoves(r) /\ sleepQueue = Cardinality(Sleepers)
    BY GaugeFollows, GaugeIsSleepers
  <1> DEFINE S == Sleepers
             T == Sleepers'
  <1> HIDE DEF S, T
  <1>5. /\ (r \in S <=> r \in T) => Cardinality(T) = Cardinality(S)
        /\ r \notin S /\ r \in T => Cardinality(T) = Cardinality(S) + 1
        /\ r \in S /\ r \notin T => Cardinality(T) = Cardinality(S) - 1
    BY <1>1, <1>3, OneJoinsOrLeaves DEF S, T
  <1>6. sleepQueue' = Cardinality(T)
    <2>1. (r \in S <=> Guarded(r)) /\ (r \in T <=> Guarded(r)') /\ sleepQueue = Cardinality(S)
      BY <1>2, <1>4 DEF S, T
    <2>2. CASE (Guarded(r)' <=> Guarded(r)) /\ sleepQueue' = sleepQueue
      BY <1>5, <2>1, <2>2
    <2>3. CASE ~Guarded(r) /\ Guarded(r)' /\ sleepQueue' = sleepQueue + 1
      BY <1>5, <2>1, <2>3
    <2>4. CASE Guarded(r) /\ ~Guarded(r)' /\ sleepQueue' = sleepQueue - 1
      BY <1>5, <2>1, <2>4
    <2> QED BY <1>4, <2>2, <2>3, <2>4 DEF GaugeMoves
  <1> QED BY <1>6 DEF T, GaugeNeverDrifts, Sleepers, Guarded

-----------------------------------------------------------------------------
(* The requests by outcome *)

\* What a step of r answers is what it records, unless the client has left.
Replies(r) ==
    /\ answer[r] = "None"
    /\ \/ answer' = answer /\ requests' = requests
       \/ \E o \in RequestOutcome :
             /\ answer' = [answer EXCEPT ![r] = AnswerOf(o)]
             /\ requests' = [requests EXCEPT ![o] = @ + 1]
             /\ pc'[r] = "done"
       \/ /\ answer' = [answer EXCEPT ![r] = "Dropped"]
          /\ requests' = requests
          /\ pc'[r] = "done"

\* A request is answered once, and every path that answers it records it.
LEMMA StepReplies ==
    ASSUME IInv, NEW r \in Request, OpenOK(r), Recorded(r)
    PROVE  Replies(r)
  <1>0. /\ pc \in [Request -> Pc] /\ answer \in [Request -> Answer]
        /\ {"Forwarded", "BadRequest", "BadGateway", "Timeout"} = RequestOutcome
    BY DEF IInv, TypeOK, RequestOutcome
  <1>1. CASE \/ Unrecorded(r) \/ Sent(r) \/ PassTried(r) \/ NewRound(r) \/ Asleep(r)
             \/ Awake(r) \/ Waiting(r)
    <2>1. pc[r] # "done"
      BY <1>1 DEF Unrecorded, Sent, PassTried, NewRound, Asleep, Awake, Waiting, Arrive,
                  SkipPenalized, SkipSaturated, TakePermit, TakeToken, BookAccepted,
                  AddAndSend, FailOpen, SkipTried, StartRound, SleepOnRateLimit, Wake,
                  Granted, AdmitWaiting, Walking, NothingToWaitFor, Walked
    <2>2. answer' = answer
      BY <1>1 DEF Unrecorded, Sent, PassTried, NewRound, Asleep, Awake, Waiting, Arrive,
                  SkipPenalized, SkipSaturated, TakePermit, TakeToken, BookAccepted,
                  AddAndSend, FailOpen, SkipTried, StartRound, SleepOnRateLimit, Wake,
                  Granted, AdmitWaiting
    <2>3. requests' = requests
      BY <1>1 DEF Unrecorded, Sent, PassTried, NewRound, Asleep, Awake, Waiting, metricVars
    <2> QED BY <2>1, <2>2, <2>3 DEF OpenOK, Replies
  <1>2. CASE Limited(r) \/ Refused(r)
    BY <1>2 DEF Limited, Refused, RateLimited, BookRefused, OpenOK, Replies
  <1>3. ASSUME NEW v \in Verdicts, AttemptEnds(r, v), Ended(r, v) PROVE Replies(r)
    <2>0. answer[r] = "None"
      BY <1>3 DEF AttemptEnds, OpenOK
    <2>1. CASE v.attempt = "Done"
      <3>1. /\ answer' = [answer EXCEPT ![r] = "Forwarded"]
            /\ requests' = [requests EXCEPT !["Forwarded"] = @ + 1]
        BY <1>3, <2>1 DEF AttemptEnds, Ended, Close, RecordRequest
      <3>2. pc'[r] = "done"
        BY <1>3, <2>1, WhereTo
      <3>3. AnswerOf("Forwarded") = "Forwarded"
        BY DEF AnswerOf
      <3> QED BY <1>0, <2>0, <3>1, <3>2, <3>3 DEF Replies
    <2>2. CASE v.attempt = "Retry"
      <3>1. answer' = answer /\ requests' = requests
        BY <1>3, <2>2 DEF AttemptEnds, Ended
      <3> QED BY <2>0, <3>1 DEF Replies
    <2> QED BY <1>3, <2>1, <2>2 DEF Ended
  <1>4. CASE AttemptDeadline(r) /\ Ended(r, TransportError)
    BY <1>3, <1>4, TransportErrorIsVerdict DEF AttemptDeadline
  <1>5. CASE RejectBody(r) /\ RecordRequest("BadRequest")
    <2>1. /\ answer[r] = "None" /\ pc'[r] = "done"
          /\ answer' = [answer EXCEPT ![r] = "BadRequest"]
          /\ requests' = [requests EXCEPT !["BadRequest"] = @ + 1]
      BY <1>0, <1>5 DEF RejectBody, RecordRequest, OpenOK
    <2>2. AnswerOf("BadRequest") = "BadRequest"
      BY DEF AnswerOf
    <2> QED BY <1>0, <2>1, <2>2 DEF Replies
  <1>6. CASE AllNodesFailed(r) /\ RecordRequest("BadGateway")
    <2>1. /\ answer[r] = "None" /\ pc'[r] = "done"
          /\ answer' = [answer EXCEPT ![r] = "AllNodesFailed"]
          /\ requests' = [requests EXCEPT !["BadGateway"] = @ + 1]
      BY <1>0, <1>6 DEF AllNodesFailed, NothingToWaitFor, Walked, Close, RecordRequest, OpenOK
    <2>2. AnswerOf("BadGateway") = "AllNodesFailed"
      BY DEF AnswerOf
    <2> QED BY <1>0, <2>1, <2>2 DEF Replies
  <1>7. CASE Timeout(r) /\ RecordRequest("Timeout")
    <2>1. Cancel(r, "Timeout") /\ answer[r] = "None"
      BY <1>7 DEF Timeout, Await, OpenOK
    <2>2. pc'[r] = "done"
      BY <2>1, WhereTo
    <2>3. /\ answer' = [answer EXCEPT ![r] = "Timeout"]
          /\ requests' = [requests EXCEPT !["Timeout"] = @ + 1]
      BY <1>7, <2>1 DEF Cancel, Close, RecordRequest
    <2>4. AnswerOf("Timeout") = "Timeout"
      BY DEF AnswerOf
    <2> QED BY <1>0, <2>1, <2>2, <2>3, <2>4 DEF Replies
  <1>8. CASE Dropped(r)
    <2>1. Cancel(r, "Dropped") /\ answer[r] = "None" /\ requests' = requests
      BY <1>8 DEF Dropped, Disconnect, Await, OpenOK
    <2>2. pc'[r] = "done"
      BY <2>1, WhereTo
    <2>3. answer' = [answer EXCEPT ![r] = "Dropped"]
      BY <2>1 DEF Cancel, Close
    <2> QED BY <2>1, <2>2, <2>3 DEF Replies
  <1> QED
    BY <1>1, <1>2, <1>3, <1>4, <1>5, <1>6, <1>7, <1>8 DEF Recorded, Answered

\* The labels are told apart, and no label stands for an open or a dropped request.
LEMMA LabelsDiffer ==
    /\ \A o \in RequestOutcome : AnswerOf(o) \notin {"None", "Dropped"}
    /\ \A o, p \in RequestOutcome : AnswerOf(o) = AnswerOf(p) => o = p
  BY DEF RequestOutcome, AnswerOf

\* Each counter follows the requests with its answer.
LEMMA OutcomesStep ==
    ASSUME IInv, MetricTypes, Counts, Outcomes, NEW r \in Request, Recorded(r)
    PROVE  Outcomes' /\ requests' \in [RequestOutcome -> Nat]
  <1>0. Replies(r) /\ answer \in [Request -> Answer] /\ requests \in [RequestOutcome -> Nat]
    BY StepReplies DEF Counts, CountsOK, IInv, TypeOK, MetricTypes
  <1>1. CASE answer' = answer /\ requests' = requests
    BY <1>0, <1>1 DEF Outcomes, WithAnswer
  <1>2. CASE answer' # answer \/ requests' # requests
    <2>1. PICK a : /\ answer' = [answer EXCEPT ![r] = a]
                   /\ \/ a = "Dropped" /\ requests' = requests
                      \/ \E o \in RequestOutcome :
                            a = AnswerOf(o) /\ requests' = [requests EXCEPT ![o] = @ + 1]
      BY <1>0, <1>2 DEF Replies
    <2>2. requests' \in [RequestOutcome -> Nat]
      BY <1>0, <2>1
    <2>3. ASSUME NEW p \in RequestOutcome PROVE requests'[p] = Cardinality(WithAnswer(p)')
      <3> DEFINE S == WithAnswer(p)
                 T == WithAnswer(p)'
      <3>1. S \in SUBSET Request /\ T \in SUBSET Request
        BY DEF WithAnswer
      <3>2. \A q \in Request \ {r} : q \in S <=> q \in T
        BY <1>0, <2>1 DEF WithAnswer
      <3>3. r \notin S
        BY <1>0, LabelsDiffer DEF WithAnswer, Replies
      <3>4. r \in T <=> a = AnswerOf(p)
        BY <1>0, <2>1 DEF WithAnswer
      <3>5. requests[p] = Cardinality(S)
        BY DEF Outcomes
      <3> HIDE DEF S, T
      <3>6. /\ r \notin T => Cardinality(T) = Cardinality(S)
            /\ r \in T => Cardinality(T) = Cardinality(S) + 1
        BY <3>1, <3>2, <3>3, OneJoinsOrLeaves
      <3>7. requests'[p] = Cardinality(T)
        <4>1. CASE a = "Dropped" /\ requests' = requests
          BY <3>4, <3>5, <3>6, <4>1, LabelsDiffer
        <4>2. ASSUME NEW o \in RequestOutcome, a = AnswerOf(o),
                     requests' = [requests EXCEPT ![o] = @ + 1]
              PROVE  requests'[p] = Cardinality(T)
          <5>1. r \in T <=> o = p
            BY <3>4, <4>2, LabelsDiffer
          <5> QED BY <1>0, <3>5, <3>6, <4>2, <5>1
        <4> QED BY <2>1, <4>1, <4>2
      <3> QED BY <3>7 DEF T
    <2> QED BY <2>2, <2>3 DEF Outcomes
  <1> QED BY <1>1, <1>2

-----------------------------------------------------------------------------
(* The attempts and the refusals *)

\* A request that has ended has its skips forgotten.
LEMMA SettledCounts ==
    ASSUME MetricTypes, NEW r \in Request, Settle(r), pc'[r] = "done", sent'[r] = Nothing
    PROVE  RefusedOK(r)' /\ LimitedOK(r)'
  <1>1. \A n \in Node : refused'[r][n] = 0 /\ limited'[r][n] = 0 /\ sent'[r][n] = 0
    BY DEF Settle, MetricTypes, Nothing
  <1> QED BY <1>1 DEF RefusedOK, LimitedOK, OnWalk, OnNode

\* The steps that end a request settle its counters.
LEMMA EndSettles ==
    ASSUME IInv, NEW r \in Request,
           \/ Answered(r) \/ Dropped(r)
           \/ \E v \in Verdicts : AttemptEnds(r, v) /\ Ended(r, v) /\ v.attempt = "Done"
    PROVE  Settle(r) /\ pc'[r] = "done" /\ sent'[r] = Nothing
  <1>0. pc \in [Request -> Pc] /\ sent \in [Request -> [Node -> Nat]]
    BY DEF IInv, TypeOK
  <1>1. ASSUME NEW a, Close(r, a) PROVE sent'[r] = Nothing
    BY <1>0, <1>1 DEF Close
  <1>2. CASE RejectBody(r) /\ Settle(r)
    <2>1. \A n \in Node : sent[r][n] = 0
      BY <1>2 DEF RejectBody, IInv, Places, PlaceOK, Attempts, SentOK
    <2>2. sent[r] = Nothing
      BY <1>0, <2>1 DEF Nothing
    <2> QED BY <1>0, <1>2, <2>2 DEF RejectBody
  <1>3. CASE AllNodesFailed(r) /\ Settle(r)
    BY <1>0, <1>1, <1>3 DEF AllNodesFailed
  <1>4. CASE (Timeout(r) \/ Disconnect(r)) /\ Settle(r)
    <2>1. \E a : Cancel(r, a) /\ Close(r, a)
      BY <1>4 DEF Timeout, Disconnect, Cancel
    <2> QED BY <1>1, <1>4, <2>1, WhereTo
  <1>5. ASSUME NEW v \in Verdicts, AttemptEnds(r, v), Ended(r, v), v.attempt = "Done"
        PROVE  Settle(r) /\ pc'[r] = "done" /\ sent'[r] = Nothing
    <2>1. Settle(r) /\ Close(r, "Forwarded")
      BY <1>5 DEF AttemptEnds, Ended
    <2> QED BY <1>1, <1>5, <2>1, WhereTo
  <1> QED BY <1>2, <1>3, <1>4, <1>5 DEF Answered, Dropped

\* The steps of r that send nothing, refuse nothing and end no attempt.
Idle(r) ==
    \/ Unrecorded(r)
    \/ PassTried(r) \/ NewRound(r) \/ Limited(r) \/ Asleep(r) \/ Awake(r) \/ Waiting(r)

\* They change nothing the attempts and the refusals are counted by.
LEMMA IdleCounts ==
    ASSUME IInv, NEW r \in Request, Idle(r)
    PROVE  /\ attempts' = attempts /\ refused' = refused /\ sent' = sent /\ fate' = fate
           /\ req'[r].tried = req[r].tried /\ answer' = answer
           /\ pc[r] \notin {"attempt", "done"} /\ pc'[r] \notin {"attempt", "done"}
  <1>0. /\ pc \in [Request -> Pc] /\ req \in [Request -> RequestLocals]
        /\ via[r] \in {"walk", "wait"}
    BY DEF IInv, TypeOK
  <1>1. attempts' = attempts /\ refused' = refused /\ fate' = fate
    BY DEF Idle, Unrecorded, PassTried, NewRound, Limited, Asleep, Awake, Waiting,
           RecordLimited, metricVars, counters, skips
  <1>2. sent' = sent /\ answer' = answer
    BY DEF Idle, Unrecorded, PassTried, NewRound, Limited, Asleep, Awake, Waiting, Arrive,
           SkipPenalized, SkipSaturated, TakePermit, TakeToken, BookAccepted, FailOpen,
           SkipTried, StartRound, RateLimited, SleepOnRateLimit, Wake, Granted, AdmitWaiting
  <1>3. ASSUME NEW m \in Method, Arrive(r, m)
        PROVE  /\ req'[r].tried = req[r].tried
               /\ pc[r] \notin {"attempt", "done"} /\ pc'[r] \notin {"attempt", "done"}
    BY <1>0, <1>3 DEF Arrive, IInv, Places, PlaceOK
  <1>4. CASE FailOpen(r)
    BY <1>0, <1>1, <1>2, <1>4 DEF FailOpen, NothingToWaitFor, Walked, RequestLocals
  <1>5. CASE RateLimited(r)
    <2>1. req' = req
      BY <1>5 DEF RateLimited
    <2>2. pc[r] = "rate" /\ pc'[r] \in {"walk", "sleep"}
      BY <1>5, WhereTo
    <2> QED BY <1>1, <1>2, <2>1, <2>2
  <1>6. CASE \/ SkipPenalized(r) \/ SkipSaturated(r) \/ TakePermit(r) \/ TakeToken(r)
             \/ BookAccepted(r) \/ SkipTried(r) \/ StartRound(r) \/ SleepOnRateLimit(r)
             \/ Wake(r) \/ Granted(r) \/ AdmitWaiting(r)
    <2>1. req' = req
      BY <1>6 DEF SkipPenalized, SkipSaturated, TakePermit, TakeToken, BookAccepted,
                  SkipTried, StartRound, SleepOnRateLimit, Wake, Granted, AdmitWaiting
    <2>2. pc[r] \notin {"attempt", "done"} /\ pc'[r] \notin {"attempt", "done"}
      BY <1>0, <1>6 DEF SkipPenalized, SkipSaturated, TakePermit, TakeToken, BookAccepted,
                  SkipTried, StartRound, SleepOnRateLimit, Wake, Granted, AdmitWaiting,
                  Walking, Walked
    <2> QED BY <1>1, <1>2, <2>1, <2>2
  <1> QED
    BY <1>1, <1>2, <1>3, <1>4, <1>5, <1>6
       DEF Idle, Unrecorded, PassTried, NewRound, Limited, Asleep, Awake, Waiting

\* A verdict has one of the labels, and settles the request if its label does.
LEMMA VerdictLabels ==
    ASSUME NEW v \in Verdicts
    PROVE  v.outcome \in Outcome /\ (v.attempt = "Done" <=> v.outcome \in Settling)
  <1>1. CASE v \in {TransportError, BodyError}
    BY <1>1 DEF TransportError, BodyError, Verdict, Outcome, Settling
  <1>2. CASE v \notin {TransportError, BodyError}
    <2>1. PICK x \in Response : v = ClassifyResponse(x.status, x.header, x.body)
      BY <1>2 DEF Verdicts
    <2>2. \E k, c : v \in {Verdict("Done", "ForwardedHttpError", k, c),
                           Verdict("Retry", "InvalidJson", k, c),
                           Verdict("Done", "ForwardedRpcError", k, c),
                           Verdict("Retry", "RetryableRpcError", k, c),
                           Verdict("Done", "Success", k, c)}
      BY <2>1, Zenon DEF ClassifyResponse
    <2> QED BY <2>2 DEF Verdict, Outcome, Settling
  <1> QED BY <1>1, <1>2

\* What the attempts of r are counted by, when a step leaves the counters alone.
LEMMA AttemptsLeft ==
    ASSUME NEW r \in Request, AttemptsOK(r),
           attempts'[r] = attempts[r], fate'[r] = fate[r],
           pc[r] # "attempt", pc'[r] # "attempt",
           pc[r] # "done", pc'[r] # "done" => req[r].tried \subseteq req'[r].tried,
           answer'[r] = "Forwarded" <=> answer[r] = "Forwarded"
    PROVE  AttemptsOK(r)'
  <1>1. FateOK(r)'
    BY DEF AttemptsOK, FateOK
  <1>2. LabelsOK(r)'
    BY DEF AttemptsOK, LabelsOK, Completed
  <1>3. SettledOK(r)'
    BY DEF AttemptsOK, SettledOK, Unsettled
  <1> QED BY <1>1, <1>2, <1>3 DEF AttemptsOK

\* An attempt is sent where none was before.
LEMMA SentStep ==
    ASSUME IInv, MetricTypes, NEW r \in Request, AttemptsOK(r), Sent(r)
    PROVE  AttemptsOK(r)'
  <1>0. /\ pc \in [Request -> Pc] /\ req \in [Request -> RequestLocals]
        /\ fate \in [Request -> [Node -> {"unsent", "sent", "cancelled"}]]
        /\ PlaceOK(r) /\ req[r].tried \in SUBSET Node
    BY DEF IInv, TypeOK, MetricTypes, Places, RequestLocals
  <1>a. pc[r] = "add" /\ cur[r] \in Node
    BY <1>0 DEF Sent, AddAndSend, PlaceOK, OnNode
  <1>b. PICK n \in Node : n = cur[r]
    BY <1>a
  <1>1. /\ pc[r] = "add" /\ pc'[r] = "attempt" /\ cur' = cur
        /\ n \notin req[r].tried /\ answer' = answer
        /\ req'[r].tried = req[r].tried \union {n}
    BY <1>0, <1>b DEF Sent, AddAndSend, MarkTried, PlaceOK, OnNode, RequestLocals
  <1>2. attempts' = attempts /\ fate' = [fate EXCEPT ![r][n] = "sent"]
    BY <1>b DEF Sent
  <1>3. fate'[r][n] = "sent" /\ \A m \in Node \ {n} : fate'[r][m] = fate[r][m]
    BY <1>0, <1>1, <1>2
  <1>4. FateOK(r)'
    BY <1>1, <1>3, <1>b DEF AttemptsOK, FateOK
  <1>5. LabelsOK(r)'
    <2> SUFFICES ASSUME NEW m \in Node
                 PROVE  /\ ~Completed(r, m)' => attempts'[r][m] = NoLabel
                        /\ Completed(r, m)' => \E o \in Outcome : attempts'[r][m] = OneLabel(o)
      BY DEF LabelsOK, NoLabel, OneLabel
    <2>1. CASE m = n
      <3>1. ~Completed(r, n) /\ ~Completed(r, n)'
        BY <1>1, <1>3, <1>b DEF Completed, AttemptsOK, FateOK
      <3> QED BY <1>2, <2>1, <3>1 DEF AttemptsOK, LabelsOK
    <2>2. CASE m # n
      <3>1. Completed(r, m)' <=> Completed(r, m)
        BY <1>1, <1>3, <1>b, <2>2 DEF Completed
      <3> QED BY <1>2, <3>1 DEF AttemptsOK, LabelsOK
    <2> QED BY <2>1, <2>2
  <1>6. SettledOK(r)'
    BY <1>1, <1>2 DEF AttemptsOK, SettledOK, Unsettled
  <1> QED BY <1>4, <1>5, <1>6 DEF AttemptsOK

\* An attempt that ends is recorded under one label, and the label says whether
\* it settles the request.
LEMMA EndedStep ==
    ASSUME IInv, MetricTypes, NEW r \in Request, AttemptsOK(r), OpenOK(r),
           NEW v \in Verdicts, AttemptEnds(r, v), Ended(r, v)
    PROVE  AttemptsOK(r)'
  <1>a. cur[r] \in Node /\ v.outcome \in Outcome
    BY WhereTo, VerdictLabels
  <1>b. PICK n \in Node : n = cur[r]
    BY <1>a
  <1>c. PICK l \in Outcome : l = v.outcome
    BY <1>a
  <1>0. /\ attempts \in [Request -> [Node -> [Outcome -> Nat]]]
        /\ answer \in [Request -> Answer]
        /\ (v.attempt = "Done" <=> l \in Settling) /\ v.attempt \in {"Done", "Retry"}
    BY <1>c, VerdictLabels, VerdictsTyped DEF IInv, TypeOK, MetricTypes
  <1>1. /\ pc[r] = "attempt"
        /\ pc'[r] = IF v.attempt = "Done" THEN "done" ELSE MoveOn(r)
    BY WhereTo
  <1>2. pc'[r] # "attempt" /\ (pc'[r] # "done" => v.attempt = "Retry")
    BY <1>0, <1>1 DEF MoveOn
  <1>3. attempts' = [attempts EXCEPT ![r][n][l] = @ + 1] /\ fate' = fate
    BY <1>b, <1>c DEF Ended, RecordAttempt
  <1>4. answer[r] = "None" /\ Unsettled(r, Node)
    BY <1>1 DEF OpenOK, AttemptsOK, SettledOK
  <1>5. /\ v.attempt = "Done" => answer'[r] = "Forwarded"
        /\ v.attempt = "Retry" => answer'[r] # "Forwarded" /\ req' = req
    BY <1>0, <1>4 DEF AttemptEnds, Close
  <1>6. attempts[r][n] = NoLabel /\ fate[r][n] = "sent"
    BY <1>1, <1>b DEF AttemptsOK, LabelsOK, FateOK, Completed
  <1>7. attempts'[r][n] = OneLabel(l) /\ \A m \in Node \ {n} : attempts'[r][m] = attempts[r][m]
    <2>1. /\ attempts'[r][n] = [attempts[r][n] EXCEPT ![l] = @ + 1]
          /\ \A m \in Node \ {n} : attempts'[r][m] = attempts[r][m]
      BY <1>0, <1>1, <1>3
    <2>2. [NoLabel EXCEPT ![l] = @ + 1] = OneLabel(l)
      BY <1>0 DEF NoLabel, OneLabel
    <2> QED BY <1>6, <2>1, <2>2
  <1>8. FateOK(r)'
    BY <1>1, <1>2, <1>3, <1>5 DEF AttemptsOK, FateOK
  <1>9. LabelsOK(r)'
    <2> SUFFICES ASSUME NEW m \in Node
                 PROVE  /\ ~Completed(r, m)' => attempts'[r][m] = NoLabel
                        /\ Completed(r, m)' => \E o \in Outcome : attempts'[r][m] = OneLabel(o)
      BY DEF LabelsOK, NoLabel, OneLabel
    <2>1. CASE m = n
      <3>1. Completed(r, n)'
        BY <1>2, <1>3, <1>6 DEF Completed
      <3> QED BY <1>0, <1>7, <2>1, <3>1
    <2>2. CASE m # n
      <3>1. Completed(r, m)' <=> Completed(r, m)
        BY <1>2, <1>3, <1>b, <2>2 DEF Completed
      <3> QED BY <1>7, <2>2, <3>1 DEF AttemptsOK, LabelsOK
    <2> QED BY <2>1, <2>2
  <1>10. SettledOK(r)'
    <2>1. Unsettled(r, Node \ {n})'
      BY <1>4, <1>7 DEF Unsettled
    <2>2. CASE v.attempt = "Done"
      <3>1. l \in Settling /\ attempts'[r][n][l] # 0
        BY <1>0, <1>7, <2>2 DEF OneLabel
      <3> QED BY <1>1, <1>5, <2>1, <2>2, <3>1 DEF SettledOK
    <2>3. CASE v.attempt = "Retry"
      <3>1. \A o \in Settling : o \in Outcome /\ o # l
        BY <1>0, <2>3 DEF Settling, Outcome
      <3>2. \A o \in Settling : attempts'[r][n][o] = 0
        BY <1>7, <3>1 DEF OneLabel
      <3>3. Unsettled(r, Node)'
        BY <2>1, <3>2 DEF Unsettled
      <3> QED BY <1>5, <2>3, <3>3 DEF SettledOK
    <2> QED BY <1>0, <2>2, <2>3
  <1> QED BY <1>8, <1>9, <1>10 DEF AttemptsOK

\* A future dropped in an attempt leaves it uncounted, and says so in its fate.
LEMMA CancelledStep ==
    ASSUME IInv, MetricTypes, NEW r \in Request, AttemptsOK(r), OpenOK(r),
           NEW a, Cancel(r, a), a # "Forwarded", CancelledAttempt(r)
    PROVE  AttemptsOK(r)'
  <1>0. /\ answer \in [Request -> Answer]
        /\ fate \in [Request -> [Node -> {"unsent", "sent", "cancelled"}]]
    BY DEF IInv, TypeOK, MetricTypes
  <1>1. pc[r] # "done" /\ pc'[r] = "done" /\ attempts' = attempts
    BY WhereTo DEF Cancel, CancelledAttempt
  <1>2. answer[r] = "None" /\ answer'[r] = a
    BY <1>0, <1>1 DEF Cancel, Close, OpenOK
  <1>3. CASE pc[r] # "attempt"
    <2>1. fate' = fate
      BY <1>3 DEF CancelledAttempt
    <2> QED BY <1>1, <1>2, <1>3, <2>1, AttemptsLeft
  <1>4. CASE pc[r] = "attempt"
    <2>a. cur[r] \in Node
      BY <1>4 DEF IInv, Places, PlaceOK, OnNode
    <2>b. PICK n \in Node : n = cur[r]
      BY <2>a
    <2>1. fate' = [fate EXCEPT ![r][n] = "cancelled"]
      BY <1>4, <2>b DEF CancelledAttempt
    <2>2. fate'[r][n] = "cancelled" /\ \A m \in Node \ {n} : fate'[r][m] = fate[r][m]
      BY <1>0, <2>1
    <2>3. FateOK(r)'
      BY <1>1 DEF FateOK
    <2>4. LabelsOK(r)'
      <3> SUFFICES ASSUME NEW m \in Node
                   PROVE  /\ ~Completed(r, m)' => attempts'[r][m] = NoLabel
                          /\ Completed(r, m)' => \E o \in Outcome : attempts'[r][m] = OneLabel(o)
        BY DEF LabelsOK, NoLabel, OneLabel
      <3>1. CASE m = n
        <4>1. ~Completed(r, n) /\ ~Completed(r, n)'
          BY <1>4, <2>2, <2>b DEF Completed
        <4> QED BY <1>1, <3>1, <4>1 DEF AttemptsOK, LabelsOK
      <3>2. CASE m # n
        <4>1. Completed(r, m)' <=> Completed(r, m)
          BY <1>1, <1>4, <2>2, <2>b, <3>2 DEF Completed
        <4> QED BY <1>1, <4>1 DEF AttemptsOK, LabelsOK
      <3> QED BY <3>1, <3>2
    <2>5. SettledOK(r)'
      BY <1>1, <1>2 DEF AttemptsOK, SettledOK, Unsettled
    <2> QED BY <2>3, <2>4, <2>5 DEF AttemptsOK
  <1> QED BY <1>3, <1>4

\* Every attempt is counted when it ends, and not before.
LEMMA AttemptsStep ==
    ASSUME IInv, MetricTypes, NEW r \in Request, AttemptsOK(r), OpenOK(r), Recorded(r)
    PROVE  AttemptsOK(r)'
  <1>0. /\ pc \in [Request -> Pc] /\ req \in [Request -> RequestLocals]
        /\ answer \in [Request -> Answer]
    BY DEF IInv, TypeOK
  <1>1. CASE Idle(r)
    BY <1>1, IdleCounts, AttemptsLeft
  <1>2. CASE Sent(r)
    BY <1>2, SentStep
  <1>3. CASE Refused(r)
    <2>1. /\ pc[r] = "book" /\ pc'[r] \in {"walk", "round"}
          /\ attempts' = attempts /\ fate' = fate /\ answer' = answer
      BY <1>3, WhereTo DEF Refused, BookRefused, RecordRefusal, MoveOn
    <2>2. req[r].tried \subseteq req'[r].tried
      BY <1>0, <1>3 DEF Refused, BookRefused, MarkTried, RequestLocals
    <2> QED BY <2>1, <2>2, AttemptsLeft
  <1>4. CASE \E v \in Verdicts : AttemptEnds(r, v) /\ Ended(r, v)
    BY <1>4, EndedStep
  <1>5. CASE AttemptDeadline(r) /\ Ended(r, TransportError)
    BY <1>4, <1>5, TransportErrorIsVerdict DEF AttemptDeadline
  <1>6. CASE (RejectBody(r) \/ AllNodesFailed(r)) /\ UNCHANGED <<attempts, fate>>
    <2>1. pc[r] \in {"new", "walk"} /\ pc'[r] = "done"
      BY <1>0, <1>6 DEF RejectBody, AllNodesFailed, NothingToWaitFor, Walked
    <2>2. answer[r] = "None" /\ answer'[r] # "Forwarded"
      BY <1>0, <1>6, <2>1 DEF RejectBody, AllNodesFailed, Close, OpenOK
    <2> QED BY <1>6, <2>1, <2>2, AttemptsLeft
  <1>7. CASE (Timeout(r) \/ Disconnect(r)) /\ CancelledAttempt(r)
    BY <1>7, CancelledStep DEF Timeout, Disconnect
  <1> QED BY <1>1, <1>2, <1>3, <1>4, <1>5, <1>6, <1>7 DEF Recorded, Idle, Answered, Dropped

\* A node is refused or attempted only while it is not tried.
LEMMA RefusedStep ==
    ASSUME IInv, MetricTypes, NEW r \in Request, RefusedOK(r), Recorded(r)
    PROVE  RefusedOK(r)'
  <1>0. /\ pc \in [Request -> Pc] /\ req \in [Request -> RequestLocals]
        /\ cur \in [Request -> Node \union {NoNode}]
        /\ sent \in [Request -> [Node -> Nat]]
        /\ refused \in [Request -> [Node -> Nat]]
        /\ PlaceOK(r) /\ SentOK(r) /\ req[r].tried \in SUBSET Node
    BY DEF IInv, TypeOK, MetricTypes, Places, Attempts, RequestLocals
  <1>1. CASE Idle(r)
    <2>1. refused' = refused /\ sent' = sent /\ req'[r].tried = req[r].tried
      BY <1>1, IdleCounts
    <2> QED BY <2>1 DEF RefusedOK
  <1>2. CASE Sent(r)
    <2> DEFINE n == cur[r]
    <2>1. /\ pc[r] = "add" /\ n \in Node /\ n \notin req[r].tried
          /\ sent' = [sent EXCEPT ![r][n] = @ + 1]
          /\ req'[r].tried = req[r].tried \union {n}
      BY <1>0, <1>2 DEF Sent, AddAndSend, MarkTried, PlaceOK, OnNode, RequestLocals
    <2>2. refused' = refused
      BY <1>2 DEF Sent, skips
    <2>3. sent[r][n] = 0 /\ refused[r][n] = 0
      BY <1>0, <2>1 DEF SentOK, RefusedOK
    <2> HIDE DEF n
    <2>4. sent'[r][n] = 1 /\ \A m \in Node \ {n} : sent'[r][m] = sent[r][m]
      BY <1>0, <2>1, <2>3
    <2> QED BY <1>0, <2>1, <2>2, <2>3, <2>4 DEF RefusedOK
  <1>3. CASE Refused(r)
    <2> DEFINE n == cur[r]
    <2>1. pc[r] = "book" /\ n \in Node /\ n \notin req[r].tried
      BY <1>0, <1>3, WhereTo DEF Refused, PlaceOK, OnNode
    <2>2. /\ refused' = [refused EXCEPT ![r][n] = @ + 1]
          /\ sent' = sent /\ req'[r].tried = req[r].tried \union {n}
      BY <1>0, <1>3 DEF Refused, BookRefused, RecordRefusal, MarkTried, RequestLocals
    <2>3. sent[r][n] = 0 /\ refused[r][n] = 0
      BY <1>0, <2>1 DEF SentOK, RefusedOK
    <2> HIDE DEF n
    <2>4. refused'[r][n] = 1 /\ \A m \in Node \ {n} : refused'[r][m] = refused[r][m]
      BY <1>0, <2>1, <2>2, <2>3
    <2> QED BY <1>0, <2>2, <2>3, <2>4 DEF RefusedOK
  <1>4. ASSUME NEW v \in Verdicts, AttemptEnds(r, v), Ended(r, v) PROVE RefusedOK(r)'
    <2>1. CASE v.attempt = "Done"
      BY <1>4, <2>1, EndSettles, SettledCounts
    <2>2. CASE v.attempt = "Retry"
      <3>1. refused' = refused /\ sent' = sent /\ req' = req
        BY <1>4, <2>2 DEF AttemptEnds, Ended, skips
      <3> QED BY <3>1 DEF RefusedOK
    <2> QED BY <1>4, <2>1, <2>2 DEF Ended
  <1>5. CASE AttemptDeadline(r) /\ Ended(r, TransportError)
    BY <1>4, <1>5, TransportErrorIsVerdict DEF AttemptDeadline
  <1>6. CASE Answered(r) \/ Dropped(r)
    BY <1>6, EndSettles, SettledCounts
  <1> QED BY <1>1, <1>2, <1>3, <1>4, <1>5, <1>6 DEF Recorded, Idle

-----------------------------------------------------------------------------
(* The skips for the rate limit *)

\* A step that counts no such skip and stays in its walk, or leaves it.
WalksOn(r) ==
    /\ pc'[r] \in OnWalk /\ via'[r] = "walk"
         => /\ pc[r] \in OnWalk /\ via[r] = "walk"
            /\ round'[r].walk = round[r].walk
            /\ round'[r].pos \in {round[r].pos, round[r].pos + 1}
            /\ round'[r].best = round[r].best
    /\ pc'[r] \in OnNode /\ via'[r] = "wait" => pc[r] \in OnNode /\ via[r] = "wait"

\* What was passed stays passed.
LEMMA WalkedOn ==
    ASSUME TypeOK, NEW r \in Request, LimitedOK(r), limited'[r] = limited[r], WalksOn(r)
    PROVE  LimitedOK(r)'
  <1>1. round[r].pos \in Nat
    BY DEF TypeOK, RoundLocals
  <1>2. ASSUME pc'[r] \in OnWalk, via'[r] = "walk", NEW n \in Node, limited[r][n] # 0
        PROVE  /\ round'[r].best # 0
               /\ \E i \in 1 .. Len(round'[r].walk) :
                     i < round'[r].pos /\ round'[r].walk[i] = n
    <2>1. /\ pc[r] \in OnWalk /\ via[r] = "walk" /\ round'[r].walk = round[r].walk
          /\ round'[r].pos \in {round[r].pos, round[r].pos + 1}
          /\ round'[r].best = round[r].best
      BY <1>2 DEF WalksOn
    <2>2. /\ round[r].best # 0
          /\ \E i \in 1 .. Len(round[r].walk) : i < round[r].pos /\ round[r].walk[i] = n
      BY <1>2, <2>1 DEF LimitedOK
    <2>3. PICK i \in 1 .. Len(round[r].walk) : i < round[r].pos /\ round[r].walk[i] = n
      BY <2>2
    <2>4. i \in Int /\ i < round'[r].pos
      BY <1>1, <2>1, <2>3
    <2> QED BY <2>1, <2>2, <2>3, <2>4
  <1>3. pc'[r] \in OnNode /\ via'[r] = "wait" => \A n \in Node : limited'[r][n] = 0
    BY DEF WalksOn, LimitedOK
  <1>4. \A n \in Node : limited'[r][n] <= 1
    BY DEF LimitedOK
  <1> QED BY <1>2, <1>3, <1>4 DEF LimitedOK

\* A walk counts a node once: it is past the nodes it has counted.  A walk that
\* parks has counted none.
LEMMA LimitedStep ==
    ASSUME IInv, MetricTypes, NEW r \in Request, LimitedOK(r), Recorded(r)
    PROVE  LimitedOK(r)'
  <1>0. /\ pc \in [Request -> Pc] /\ round \in [Request -> RoundLocals]
        /\ via \in [Request -> {"walk", "wait"}] /\ limited \in [Request -> [Node -> Nat]]
        /\ round[r] \in RoundLocals /\ round[r].pos \in Nat /\ round[r].best \in Nat
        /\ PlaceOK(r) /\ TypeOK
    BY DEF IInv, TypeOK, MetricTypes, Places, RoundLocals
  <1>1. CASE Unrecorded(r) \/ Sent(r) \/ PassTried(r) \/ Asleep(r) \/ Awake(r)
    <2>1. limited' = limited
      BY <1>1 DEF Unrecorded, Sent, PassTried, Asleep, Awake, metricVars, counters, skips
    <2>2. via' = via
      BY <1>1 DEF Unrecorded, PassTried, Asleep, Awake, Arrive, SkipPenalized, SkipSaturated,
                  TakePermit, TakeToken, BookAccepted, FailOpen, SkipTried,
                  SleepOnRateLimit, Wake, Granted, Sent, AddAndSend
    <2>3. CASE \/ \E m \in Method : Arrive(r, m)
               \/ FailOpen(r) \/ SleepOnRateLimit(r) \/ Wake(r)
      <3>1. pc'[r] \in {"round", "sleep"}
        BY <1>0, <2>3 DEF Arrive, FailOpen, SleepOnRateLimit, Wake
      <3>2. WalksOn(r)
        BY <3>1 DEF WalksOn, OnWalk, OnNode
      <3> QED BY <1>0, <2>1, <3>2, WalkedOn
    <2>4. CASE SkipTried(r) \/ SkipPenalized(r) \/ SkipSaturated(r)
      <3>1. /\ pc[r] = "walk" /\ pc' = pc /\ via[r] = "walk"
            /\ round'[r].walk = round[r].walk /\ round'[r].best = round[r].best
            /\ round'[r].pos \in {round[r].pos, round[r].pos + 1}
        BY <1>0, <2>4 DEF SkipTried, SkipPenalized, SkipSaturated, Walking, Advance, PlaceOK,
                          RoundLocals
      <3>2. WalksOn(r)
        BY <2>2, <3>1 DEF WalksOn, OnWalk, OnNode
      <3> QED BY <1>0, <2>1, <3>2, WalkedOn
    <2>5. CASE TakePermit(r) \/ TakeToken(r) \/ BookAccepted(r) \/ AddAndSend(r) \/ Granted(r)
      <3>1. /\ pc[r] \in {"walk", "rate", "book", "add", "granted"} /\ round' = round
            /\ pc[r] = "walk" => via[r] = "walk"
            /\ pc[r] = "granted" => via[r] = "wait"
        BY <1>0, <2>5 DEF TakePermit, TakeToken, BookAccepted, AddAndSend, Granted, Walking,
                          PlaceOK
      <3>2. WalksOn(r)
        BY <1>0, <2>2, <3>1 DEF WalksOn, OnWalk, OnNode
      <3> QED BY <1>0, <2>1, <3>2, WalkedOn
    <2> QED BY <1>1, <2>3, <2>4, <2>5 DEF Unrecorded, Sent, PassTried, Asleep, Awake
  <1>2. CASE NewRound(r)
    <2>1. \A n \in Node : limited'[r][n] = 0
      BY <1>0, <1>2 DEF NewRound, Nothing
    <2> QED BY <2>1 DEF LimitedOK
  <1>3. CASE Limited(r)
    <2> DEFINE n == cur[r]
    <2>1. /\ RateLimited(r) /\ pc[r] = "rate" /\ n \in Node
          /\ pc'[r] = IF via[r] = "walk" THEN "walk" ELSE "sleep"
          /\ limited' = [limited EXCEPT ![r][n] = @ + 1] /\ via' = via
      BY <1>3, WhereTo DEF Limited, RecordLimited, RateLimited
    <2>2. CASE via[r] = "walk"
      <3>1. /\ n = round[r].walk[round[r].pos] /\ round[r].pos \in 1 .. Len(round[r].walk)
            /\ round[r].walk \in Orders
        <4>1. n = At(r) /\ round[r].pos <= Len(round[r].walk) /\ round[r].pos >= 1
          BY <1>0, <2>1, <2>2 DEF PlaceOK, OnNode
        <4>2. round[r].walk \in {<<>>} \union Orders /\ Len(<<>>) = 0
          BY <1>0 DEF RoundLocals
        <4>3. round[r].walk \in Orders
          BY <1>0, <4>1, <4>2
        <4>4. Len(round[r].walk) \in Nat
          BY <4>3, OrderIsWalk
        <4> QED BY <1>0, <4>1, <4>3, <4>4 DEF At
      <3>2. limited[r][n] = 0
        <4>1. \A i \in 1 .. Len(round[r].walk) : i < round[r].pos => round[r].walk[i] # n
          BY <3>1, OrderIsWalk
        <4>2. pc[r] \in OnWalk
          BY <2>1 DEF OnWalk
        <4> QED BY <2>1, <2>2, <4>1, <4>2 DEF LimitedOK
      <3>3. round'[r].walk = round[r].walk /\ round'[r].pos = round[r].pos + 1
        BY <1>0, <2>1, <2>2 DEF RateLimited, RoundLocals
      <3>4. round'[r].best # 0
        <4>1. debt[n] \in Nat /\ Tolerance(n) \in Int
          <5>1. Burst[n] \in Nat /\ Interval[n] \in Nat
            BY <2>1, LimitAssumption
          <5>2. (Burst[n] - 1) * Interval[n] \in Int
            BY <5>1
          <5> QED BY <2>1, <5>2 DEF Tolerance, IInv, TypeOK
        <4> DEFINE w == debt[n] - Tolerance(n)
        <4>2. w # 0
          BY <2>1, <4>1 DEF RateLimited
        <4>3. round'[r].best = IF round[r].best = 0 \/ w < round[r].best
                               THEN w ELSE round[r].best
          BY <1>0, <2>1, <2>2 DEF RateLimited, RoundLocals
        <4> QED BY <4>2, <4>3
      <3> HIDE DEF n
      <3>5. limited'[r][n] = 1 /\ \A m \in Node \ {n} : limited'[r][m] = limited[r][m]
        BY <1>0, <2>1, <3>2
      <3>6. ASSUME NEW m \in Node, limited'[r][m] # 0
            PROVE  \E i \in 1 .. Len(round[r].walk) :
                      i < round[r].pos + 1 /\ round[r].walk[i] = m
        <4>1. CASE m = n
          <5>1. round[r].pos < round[r].pos + 1
            BY <1>0
          <5> QED BY <3>1, <4>1, <5>1 DEF n
        <4>2. CASE m # n
          <5>1. limited[r][m] # 0 /\ pc[r] \in OnWalk
            BY <2>1, <3>5, <3>6, <4>2 DEF OnWalk
          <5>2. PICK i \in 1 .. Len(round[r].walk) :
                   i < round[r].pos /\ round[r].walk[i] = m
            BY <2>2, <5>1 DEF LimitedOK
          <5>3. i < round[r].pos + 1
            BY <1>0, <5>2
          <5> QED BY <5>2, <5>3
        <4> QED BY <4>1, <4>2
      <3>7. \A m \in Node : limited'[r][m] <= 1
        BY <3>5 DEF LimitedOK
      <3> QED BY <2>1, <2>2, <3>3, <3>4, <3>6, <3>7 DEF LimitedOK
    <2>3. CASE via[r] = "wait"
      <3>1. limited[r][n] = 0 /\ pc'[r] = "sleep"
        BY <2>1, <2>3 DEF LimitedOK, OnNode
      <3> HIDE DEF n
      <3>2. limited'[r][n] = 1 /\ \A m \in Node \ {n} : limited'[r][m] = limited[r][m]
        BY <1>0, <2>1, <3>1
      <3>3. \A m \in Node : limited'[r][m] <= 1
        BY <3>2 DEF LimitedOK
      <3> QED BY <3>1, <3>3 DEF LimitedOK, OnWalk, OnNode
    <2> QED BY <1>0, <2>2, <2>3
  <1>4. CASE Refused(r)
    <2>1. pc[r] = "book" /\ pc'[r] = MoveOn(r)
      BY <1>4, WhereTo DEF Refused
    <2>2. limited' = limited /\ via' = via /\ Advance(r)
      BY <1>4 DEF Refused, BookRefused, RecordRefusal
    <2>3. /\ round'[r].walk = round[r].walk /\ round'[r].best = round[r].best
          /\ round'[r].pos \in {round[r].pos, round[r].pos + 1}
      BY <1>0, <2>2 DEF Advance, RoundLocals
    <2>4. WalksOn(r)
      BY <2>1, <2>2, <2>3 DEF WalksOn, MoveOn, OnWalk, OnNode
    <2> QED BY <1>0, <2>2, <2>4, WalkedOn
  <1>5. ASSUME NEW v \in Verdicts, AttemptEnds(r, v), Ended(r, v) PROVE LimitedOK(r)'
    <2>1. CASE v.attempt = "Done"
      BY <1>5, <2>1, EndSettles, SettledCounts
    <2>2. CASE v.attempt = "Retry"
      <3>1. pc[r] = "attempt" /\ pc'[r] = MoveOn(r)
        BY <1>5, <2>2, WhereTo
      <3>2. limited' = limited /\ via' = via /\ Advance(r)
        BY <1>5, <2>2 DEF AttemptEnds, Ended, skips
      <3>3. /\ round'[r].walk = round[r].walk /\ round'[r].best = round[r].best
            /\ round'[r].pos \in {round[r].pos, round[r].pos + 1}
        BY <1>0, <3>2 DEF Advance, RoundLocals
      <3>4. WalksOn(r)
        BY <3>1, <3>2, <3>3 DEF WalksOn, MoveOn, OnWalk, OnNode
      <3> QED BY <1>0, <3>2, <3>4, WalkedOn
    <2> QED BY <1>5, <2>1, <2>2 DEF Ended
  <1>6. CASE AttemptDeadline(r) /\ Ended(r, TransportError)
    BY <1>5, <1>6, TransportErrorIsVerdict DEF AttemptDeadline
  <1>7. CASE Waiting(r)
    <2>1. /\ pc[r] = "walk" /\ via[r] = "walk" /\ round[r].best = 0 /\ limited' = limited
          /\ via'[r] = "wait"
      BY <1>0, <1>7 DEF Waiting, AdmitWaiting, Walked, PlaceOK, counters, skips
    <2>2. \A n \in Node : limited[r][n] = 0
      BY <2>1 DEF LimitedOK, OnWalk
    <2> QED BY <2>1, <2>2 DEF LimitedOK
  <1>8. CASE Answered(r) \/ Dropped(r)
    BY <1>8, EndSettles, SettledCounts
  <1> QED BY <1>1, <1>2, <1>3, <1>4, <1>5, <1>6, <1>7, <1>8 DEF Recorded

-----------------------------------------------------------------------------
(* The invariant *)

\* The counters keep their types.
LEMMA MetricTypesStep ==
    ASSUME IInv, MetricTypes, Counts, Outcomes, NEW r \in Request, Recorded(r)
    PROVE  MetricTypes'
  <1>0. /\ sleepQueue \in Int /\ Nothing \in [Node -> Nat]
        /\ refused \in [Request -> [Node -> Nat]] /\ limited \in [Request -> [Node -> Nat]]
        /\ attempts \in [Request -> [Node -> [Outcome -> Nat]]]
        /\ fate \in [Request -> [Node -> {"unsent", "sent", "cancelled"}]]
        /\ pc[r] \in OnNode => cur[r] \in Node
    BY DEF MetricTypes, Nothing, IInv, Places, PlaceOK
  <1>1. requests' \in [RequestOutcome -> Nat]
    BY OutcomesStep
  <1>2. sleepQueue' \in Int
    <2>1. sleepQueue' \in {sleepQueue, sleepQueue + 1, sleepQueue - 1}
      BY GaugeFollows, Zenon DEF GaugeMoves
    <2>2. sleepQueue \in Int
      BY <1>0
    <2> QED BY <2>1, <2>2
  <1> DEFINE Skips == /\ refused' \in [Request -> [Node -> Nat]]
                      /\ limited' \in [Request -> [Node -> Nat]]
             Tried == /\ attempts' \in [Request -> [Node -> [Outcome -> Nat]]]
                      /\ fate' \in [Request -> [Node -> {"unsent", "sent", "cancelled"}]]
             Typed == Skips /\ Tried
  <1>3. Settle(r) \/ UNCHANGED skips => Skips
    BY <1>0 DEF Settle, skips
  <1>4. ASSUME Unrecorded(r) \/ PassTried(r) \/ Asleep(r) \/ Awake(r) \/ Waiting(r) PROVE Typed
    BY <1>0, <1>4 DEF Unrecorded, PassTried, Asleep, Awake, Waiting, metricVars, counters, skips
  <1>5. ASSUME NewRound(r) PROVE Typed
    BY <1>0, <1>5 DEF NewRound
  <1>6. ASSUME Sent(r) PROVE Typed
    <2>1. cur[r] \in Node
      BY <1>0, <1>6 DEF Sent, AddAndSend, OnNode
    <2>2. fate' \in [Request -> [Node -> {"unsent", "sent", "cancelled"}]]
      BY <1>0, <1>6, <2>1 DEF Sent
    <2> QED BY <1>0, <1>3, <1>6, <2>2 DEF Sent
  <1>7. ASSUME Limited(r) \/ Refused(r) PROVE Typed
    <2>1. cur[r] \in Node
      BY <1>7, WhereTo DEF Limited, Refused
    <2>2. CASE Limited(r)
      BY <1>0, <2>1, <2>2 DEF Limited, RecordLimited
    <2>3. CASE Refused(r)
      BY <1>0, <2>1, <2>3 DEF Refused, RecordRefusal
    <2> QED BY <1>7, <2>2, <2>3
  <1>8. ASSUME NEW v \in Verdicts, AttemptEnds(r, v), Ended(r, v) PROVE Typed
    <2>1. cur[r] \in Node /\ v.outcome \in Outcome
      BY <1>8, WhereTo, VerdictLabels
    <2>2. attempts' = [attempts EXCEPT ![r][cur[r]][v.outcome] = @ + 1] /\ fate' = fate
      BY <1>8 DEF Ended, RecordAttempt
    <2>3. attempts' \in [Request -> [Node -> [Outcome -> Nat]]]
      BY <1>0, <2>1, <2>2
    <2>4. Skips
      BY <1>3, <1>8 DEF Ended
    <2> QED BY <1>0, <2>2, <2>3, <2>4
  <1>9. ASSUME AttemptDeadline(r), Ended(r, TransportError) PROVE Typed
    BY <1>8, <1>9, TransportErrorIsVerdict DEF AttemptDeadline
  <1>10. ASSUME Answered(r) \/ Dropped(r) PROVE Typed
    <2>1. Settle(r) /\ (CancelledAttempt(r) \/ UNCHANGED <<attempts, fate>>)
      BY <1>10 DEF Answered, Dropped
    <2>2. ASSUME CancelledAttempt(r) PROVE Tried
      <3>1. attempts' = attempts
        BY <2>2 DEF CancelledAttempt
      <3>2. CASE pc[r] = "attempt"
        <4>1. cur[r] \in Node /\ fate' = [fate EXCEPT ![r][cur[r]] = "cancelled"]
          BY <1>0, <2>2, <3>2 DEF CancelledAttempt, OnNode
        <4> QED BY <1>0, <3>1, <4>1
      <3>3. CASE pc[r] # "attempt"
        BY <1>0, <2>2, <3>1, <3>3 DEF CancelledAttempt
      <3> QED BY <3>2, <3>3
    <2> QED BY <1>0, <1>3, <2>1, <2>2
  <1>11. Typed
    BY <1>4, <1>5, <1>6, <1>7, <1>8, <1>9, <1>10 DEF Recorded
  <1> QED BY <1>1, <1>2, <1>11 DEF MetricTypes

\* What is said of the counters of every request.
LEMMA CountsStep ==
    ASSUME IInv, MetricTypes, Counts, NEW r \in Request, Recorded(r)
    PROVE  Counts'
  <1>1. CountsOK(r)'
    <2>1. CountsOK(r)
      BY DEF Counts
    <2>2. AttemptsOK(r)' /\ RefusedOK(r)' /\ LimitedOK(r)'
      BY <2>1, AttemptsStep, RefusedStep, LimitedStep DEF CountsOK
    <2>3. Replies(r) /\ answer \in [Request -> Answer]
      BY <2>1, StepReplies DEF CountsOK, IInv, TypeOK
    <2>4. OpenOK(r)'
      BY <2>3 DEF Replies, OpenOK
    <2> QED BY <2>2, <2>4 DEF CountsOK
  <1>2. ASSUME NEW q \in Request \ {r} PROVE CountsOK(q)'
    <2>1. CountsOK(q) /\ PlaceOK(q)
      BY DEF Counts, IInv, Places
    <2>2. OthersStay(r) /\ answer'[q] = answer[q]
      BY RecordedMoves, OthersLeft, AnswerSteps DEF IInv
    <2>3. OthersUncounted(r)
      BY CountsOwn
    <2>4. /\ round'[q] = round[q] /\ req'[q] = req[q] /\ cur'[q] = cur[q]
          /\ via'[q] = via[q] /\ sent'[q] = sent[q]
          /\ pc'[q] = pc[q] \/ (pc[q] = "parked" /\ pc'[q] = "granted")
          /\ attempts'[q] = attempts[q] /\ refused'[q] = refused[q]
          /\ limited'[q] = limited[q] /\ fate'[q] = fate[q]
      BY <2>2, <2>3 DEF OthersStay, OthersUncounted
    <2>5. OpenOK(q)' /\ RefusedOK(q)'
      BY <2>1, <2>2, <2>4 DEF CountsOK, OpenOK, RefusedOK
    <2>7. AttemptsOK(q)'
      <3>1. FateOK(q)'
        BY <2>1, <2>4 DEF CountsOK, AttemptsOK, FateOK
      <3>2. \A n \in Node : Completed(q, n)' <=> Completed(q, n)
        BY <2>4 DEF Completed
      <3>3. LabelsOK(q)'
        BY <2>1, <2>4, <3>2 DEF CountsOK, AttemptsOK, LabelsOK, NoLabel, OneLabel
      <3>4. SettledOK(q)'
        BY <2>1, <2>2, <2>4 DEF CountsOK, AttemptsOK, SettledOK, Unsettled
      <3> QED BY <3>1, <3>3, <3>4 DEF AttemptsOK
    <2>6. LimitedOK(q)'
      BY <2>1, <2>4 DEF CountsOK, LimitedOK, OnWalk, OnNode
    <2> QED BY <2>5, <2>6, <2>7 DEF CountsOK
  <1> QED BY <1>1, <1>2 DEF Counts

\* Nothing is counted before the first request.
LEMMA MetricsStart == MetricsInit => MInv
  <1> SUFFICES ASSUME MetricsInit PROVE MInv
    OBVIOUS
  <1>0. /\ Init /\ IInv
        /\ \A r \in Request : pc[r] = "new" /\ answer[r] = "None" /\ sent[r] = Nothing
    BY InitInv DEF MetricsInit, Init
  <1>1. \A n \in Node : Nothing[n] = 0
    BY DEF Nothing
  <1>2. MetricTypes
    BY DEF MetricsInit, MetricTypes, Nothing
  <1>3. ASSUME NEW r \in Request PROVE CountsOK(r)
    <2>1. /\ refused[r] = Nothing /\ limited[r] = Nothing
          /\ \A n \in Node : attempts[r][n] = NoLabel /\ fate[r][n] = "unsent"
      BY DEF MetricsInit, NoLabel
    <2>2. AttemptsOK(r)
      <3>1. Unsettled(r, Node)
        BY <2>1 DEF Unsettled, NoLabel, Settling, Outcome
      <3> QED BY <1>0, <2>1, <3>1 DEF AttemptsOK, FateOK, LabelsOK, Completed, SettledOK
    <2> QED BY <1>0, <1>1, <2>1, <2>2 DEF CountsOK, OpenOK, RefusedOK, LimitedOK
  <1>4. GaugeNeverDrifts
    <2>1. Sleepers = {}
      BY <1>0 DEF Sleepers, Guarded
    <2>2. Cardinality(Sleepers) = 0
      BY <2>1, FS_EmptySet
    <2> QED BY <2>2, GaugeIsSleepers DEF MetricsInit
  <1>5. ASSUME NEW o \in RequestOutcome PROVE requests[o] = Cardinality(WithAnswer(o))
    <2>1. WithAnswer(o) = {}
      BY <1>0, LabelsDiffer DEF WithAnswer
    <2>2. Cardinality(WithAnswer(o)) = 0
      BY <2>1, FS_EmptySet
    <2> QED BY <2>2 DEF MetricsInit
  <1> QED BY <1>0, <1>2, <1>3, <1>4, <1>5 DEF MInv, Counts, Outcomes

\* Every step preserves the invariant.
LEMMA MetricsStep == MInv /\ [MetricsNext]_allVars => MInv'
  <1> SUFFICES ASSUME MInv, [MetricsNext]_allVars PROVE MInv'
    OBVIOUS
  <1>1. IInv'
    BY MetricsMoves, StepInv DEF MInv
  <1>2. ASSUME NEW r \in Request, Recorded(r)
        PROVE  MetricTypes' /\ GaugeNeverDrifts' /\ Counts' /\ Outcomes'
    BY <1>2, MetricTypesStep, GaugeStep, CountsStep, OutcomesStep DEF MInv
  <1>3. ASSUME Rerank \/ Tick \/ Horizon \/ UNCHANGED vars, UNCHANGED metricVars
        PROVE  MetricTypes' /\ GaugeNeverDrifts' /\ Counts' /\ Outcomes'
    <2>1. /\ UNCHANGED <<pc, req, round, cur, via, answer, sent>>
          /\ UNCHANGED <<sleepQueue, requests, attempts, refused, limited, fate>>
      BY <1>3 DEF Rerank, Tick, Horizon, vars, reqVars, metricVars, counters, skips
    <2>2. MetricTypes' /\ GaugeNeverDrifts'
      BY <2>1 DEF MInv, MetricTypes, GaugeNeverDrifts, Guarded
    <2>3. Outcomes'
      BY <2>1 DEF MInv, Outcomes, WithAnswer
    <2>4. Counts'
      BY <2>1 DEF MInv, Counts, CountsOK, OpenOK, AttemptsOK, RefusedOK, LimitedOK, FateOK,
                  LabelsOK, Completed, SettledOK, Unsettled
    <2> QED BY <2>2, <2>3, <2>4
  <1> QED BY <1>1, <1>2, <1>3, MetricsSplit DEF MInv

\* The invariant of every behaviour.
LEMMA MetricsInvariant == MetricsSpec => []MInv
  BY MetricsStart, MetricsStep, PTL DEF MetricsSpec

-----------------------------------------------------------------------------
(* The theorems *)

\* Recording changes nothing: what a request does with its metrics is a
\* behaviour of the request path, so its theorems hold beside the metrics.
THEOREM MetricsOnlyWatch == MetricsSpec => Spec
  <1>1. MetricsInit => Init
    BY DEF MetricsInit
  <1>2. [MetricsNext]_allVars => [Next]_vars
    BY MetricsMoves
  <1> QED BY <1>1, <1>2, PTL DEF MetricsSpec, Spec

\* rpc_sleep_queue_size is the number of requests that sleep or wait for a
\* permit, on every path out of an await, for any number of requests.
THEOREM GaugeIsExact == MetricsSpec => []GaugeNeverDrifts
  <1>1. MInv => GaugeNeverDrifts
    BY DEF MInv
  <1> QED BY <1>1, MetricsInvariant, PTL

\* rpc_upstream_attempts counts an attempt once and under one outcome when it
\* ends, and never one that is cancelled; a request is counted as forwarded when
\* one of its attempts settled it, and rpc_requests counts every answer once.
THEOREM AttemptsAreCounted == MetricsSpec => []AttemptsPartitioned
  <1>1. ASSUME MInv PROVE AttemptsPartitioned
    <2>1. ASSUME NEW r \in Request, NEW n \in Node
          PROVE  /\ \A o \in Outcome : attempts[r][n][o] <= 1
                 /\ \A o, p \in Labels(r, n) : o = p
                 /\ Labels(r, n) # {} <=> Completed(r, n)
      <3>1. /\ ~Completed(r, n) => attempts[r][n] = NoLabel
            /\ Completed(r, n) => \E o \in Outcome : attempts[r][n] = OneLabel(o)
        BY <1>1 DEF MInv, Counts, CountsOK, AttemptsOK, LabelsOK
      <3>2. CASE Completed(r, n)
        <4>1. PICK l \in Outcome : attempts[r][n] = OneLabel(l)
          BY <3>1, <3>2
        <4>2. \A o \in Outcome : attempts[r][n][o] = IF o = l THEN 1 ELSE 0
          BY <4>1 DEF OneLabel
        <4> QED BY <3>2, <4>2 DEF Labels
      <3>3. CASE ~Completed(r, n)
        <4>1. \A o \in Outcome : attempts[r][n][o] = 0
          BY <3>1, <3>3 DEF NoLabel
        <4> QED BY <3>3, <4>1 DEF Labels
      <3> QED BY <3>2, <3>3
    <2>2. ASSUME NEW r \in Request
          PROVE  /\ answer[r] = "Forwarded"
                      <=> \E n \in Node : Labels(r, n) \intersect Settling # {}
                 /\ \A n, k \in Node :
                       /\ Labels(r, n) \intersect Settling # {}
                       /\ Labels(r, k) \intersect Settling # {}
                       => n = k
      <3>1. SettledOK(r)
        BY <1>1 DEF MInv, Counts, CountsOK, AttemptsOK
      <3>2. \A n \in Node : Labels(r, n) \intersect Settling # {}
                              <=> \E o \in Settling : attempts[r][n][o] # 0
        BY DEF Labels, Settling, Outcome
      <3> QED BY <3>1, <3>2 DEF SettledOK, Unsettled
    <2>3. \A o \in RequestOutcome :
             requests[o] = Cardinality({r \in Request :
                 answer[r] = IF o = "BadGateway" THEN "AllNodesFailed" ELSE o})
      BY <1>1 DEF MInv, Outcomes, WithAnswer, AnswerOf
    <2> QED BY <2>1, <2>2, <2>3 DEF AttemptsPartitioned, Completed
  <1> QED BY <1>1, MetricsInvariant, PTL

\* A request is counted as refused by a node at most once in all its rounds and
\* never if it was sent there, and as rate-limited by it at most once a round.
THEOREM SkipsAreCounted == MetricsSpec => []SkipsCounted
  <1>1. MInv => SkipsCounted
    BY DEF MInv, Counts, CountsOK, RefusedOK, LimitedOK, SkipsCounted
  <1> QED BY <1>1, MetricsInvariant, PTL
=============================================================================
