------------------------------- MODULE Router -------------------------------
(***************************************************************************)
(* The request path of the balancer (src/core/router.rs) over a fixed set  *)
(* of nodes: concurrent requests walk the ranked nodes, are admitted by a  *)
(* node's penalty, semaphore, rate limiter and quota, attempt it under a   *)
(* deadline, sleep on a rate limit, park on a busy node, fail open, and    *)
(* are answered within the global budget.  Reloads are in Balancer.tla.    *)
(*                                                                         *)
(* Every atomic operation another task may interleave with is a step: the  *)
(* load of the routing table, a permit, a rate-limit token, the read of    *)
(* the quota counter and the addition to it, the end of an attempt.  A     *)
(* request is cancelled only where its future awaits: in an attempt, in a  *)
(* sleep, or waiting for a permit.                                         *)
(***************************************************************************)
EXTENDS Health, Classify, Sequences, FiniteSets

CONSTANTS Node, Request, Method,
          NoNode,          \* no node, for Option<&RpcNode>
          Tier,            \* RpcNode::tier
          MaxConcurrent,   \* permits of the node's semaphore
          Burst, Interval, \* the node's bucket: cells, ticks per cell
          Threshold,       \* RpcNode::spillover_threshold
          Cost,            \* Cost[n][m], the entry of the node's cost table
          UnknownCost,     \* u32::MAX, the entry of a method with no price
          Response,        \* responses an upstream may give
          GlobalTimeout, AttemptTimeout,   \* in ticks
          MaxClock         \* bound on the model's clock

ASSUME NodeAssumption == IsFiniteSet(Node) /\ NoNode \notin Node
ASSUME RequestAssumption == IsFiniteSet(Request)
\* The catch-all method always has an id (registry.rs); a header is a u32.
ASSUME MethodAssumption == Method # {}
ASSUME ResponseAssumption == \A x \in Response : x.header \in Nat
ASSUME LimitAssumption ==
    /\ Tier \in [Node -> Nat]
    /\ MaxConcurrent \in [Node -> Nat]
    /\ Burst \in [Node -> Nat \ {0}]
    /\ Interval \in [Node -> Nat \ {0}]
    /\ Threshold \in [Node -> Nat]
    /\ UnknownCost \in Nat
    /\ Cost \in [Node -> [Method -> 0 .. UnknownCost]]
\* router.rs:37, the compile-time assertion.
ASSUME TimeoutAssumption == /\ AttemptTimeout \in Nat \ {0}
                            /\ GlobalTimeout \in Nat
                            /\ AttemptTimeout < GlobalTimeout
ASSUME ClockAssumption == MaxClock \in Nat

VARIABLES clock,     \* real time, in ticks
          ranked,    \* the published order, Topology::ranked
          until,     \* until[n], NodePenalty::until_s
          permits,   \* permits[n], free permits of NodeLimits::concurrency
          queue,     \* queue[n], the tasks waiting for a permit, in order
          debt,      \* debt[n], NodeLimits::rate_limiting: backlog in ticks
          usage,     \* usage[n], the node's quota counter
          pc,        \* where each request is
          req,       \* locals of dispatch and route that outlive a round
          round,     \* locals of one round of route
          cur,       \* the node a request is being admitted on or attempts
          via,       \* did it get there by the walk or by admit_waiting?
          due,       \* when the attempt's deadline or the sleep ends
          answer,    \* what the client got
          sent       \* history: attempts of the request on each node

nodeVars == <<until, permits, queue, debt, usage>>
reqVars == <<pc, req, round, cur, via, due, answer, sent>>
vars == <<clock, ranked, nodeVars, reqVars>>

Await == {"attempt", "parked", "sleep"}
Pc == {"new", "done", "round", "walk", "rate", "book", "add", "granted"} \union Await

Answer == {"None", "Forwarded", "BadRequest", "AllNodesFailed", "Timeout",
           "Dropped"}

\* The orders Topology::rank can publish: by tier, and by a latency that may
\* be anything within a tier.
Orders ==
    {s \in [1 .. Cardinality(Node) -> Node] :
        \A i, j \in 1 .. Cardinality(Node) :
            i < j => s[i] # s[j] /\ Tier[s[i]] <= Tier[s[j]]}

NoRound == [walk |-> <<>>, pos |-> 1, best |-> 0, saturated |-> NoNode,
            penalized |-> FALSE]

NoRequest == [method |-> CHOOSE m \in Method : TRUE, nowS |-> 0, deadline |-> 0,
              tried |-> {}, ignore |-> FALSE]

Nothing == [n \in Node |-> 0]

\* The verdicts an attempt may end with: no response, a body cut short, or
\* the classification of a response.
Verdicts ==
    {TransportError, BodyError}
      \union {ClassifyResponse(x.status, x.header, x.body) : x \in Response}

Init ==
    /\ clock = 0
    /\ ranked \in Orders
    /\ until = Nothing
    /\ permits = MaxConcurrent
    /\ queue = [n \in Node |-> <<>>]
    /\ debt = Nothing
    /\ usage = Nothing
    /\ pc = [r \in Request |-> "new"]
    /\ req = [r \in Request |-> NoRequest]
    /\ round = [r \in Request |-> NoRound]
    /\ cur = [r \in Request |-> NoNode]
    /\ via = [r \in Request |-> "walk"]
    /\ due = [r \in Request |-> 0]
    /\ answer = [r \in Request |-> "None"]
    /\ sent = [r \in Request |-> Nothing]

-----------------------------------------------------------------------------
(* The semaphore: a freed permit goes to the first waiter, if there is one. *)

\* r gives its permit on n back and moves on to next.
Release(r, n, next) ==
    \/ /\ queue[n] = <<>>
       /\ permits' = [permits EXCEPT ![n] = @ + 1]
       /\ pc' = [pc EXCEPT ![r] = next]
       /\ UNCHANGED queue
    \/ /\ queue[n] # <<>>
       /\ pc' = [pc EXCEPT ![r] = next, ![Head(queue[n])] = "granted"]
       /\ queue' = [queue EXCEPT ![n] = Tail(@)]
       /\ UNCHANGED permits

\* Where a request goes on when the node it tried did not settle it: the rest
\* of the walk, or a new round after admit_waiting.
MoveOn(r) == IF via[r] = "walk" THEN "walk" ELSE "round"

\* The walk moves past the node at pos.
Advance(r) ==
    round' = [round EXCEPT ![r].pos = IF via[r] = "walk" THEN @ + 1 ELSE @]

-----------------------------------------------------------------------------
(* dispatch *)

\* send and dispatch: the penalty clock is stamped and the budget starts.
Arrive(r, m) ==
    /\ pc[r] = "new"
    /\ clock + GlobalTimeout <= MaxClock
    /\ req' = [req EXCEPT ![r] =
                 [method |-> m, nowS |-> SecondsSinceStart(clock),
                  deadline |-> clock + GlobalTimeout,
                  tried |-> {}, ignore |-> FALSE]]
    /\ pc' = [pc EXCEPT ![r] = "round"]
    /\ UNCHANGED <<clock, ranked, nodeVars, round, cur, via, due, answer, sent>>

\* extract_method fails: the request never reaches route.
RejectBody(r) ==
    /\ pc[r] = "new"
    /\ pc' = [pc EXCEPT ![r] = "done"]
    /\ answer' = [answer EXCEPT ![r] = "BadRequest"]
    /\ UNCHANGED <<clock, ranked, nodeVars, req, round, cur, via, due, sent>>

\* The request ends with answer a, its permit and its place in a queue aside.
Close(r, a) ==
    /\ answer' = [answer EXCEPT ![r] = a]
    /\ req' = [req EXCEPT ![r] = NoRequest]
    /\ sent' = [sent EXCEPT ![r] = Nothing]
    /\ round' = [round EXCEPT ![r] = NoRound]
    /\ cur' = [cur EXCEPT ![r] = NoNode]
    /\ via' = [via EXCEPT ![r] = "walk"]
    /\ due' = [due EXCEPT ![r] = 0]

-----------------------------------------------------------------------------
(* route: one round over the ranked nodes *)

StartRound(r) ==
    /\ pc[r] = "round"
    /\ pc' = [pc EXCEPT ![r] = "walk"]
    /\ round' = [round EXCEPT ![r] = [NoRound EXCEPT !.walk = ranked]]
    /\ via' = [via EXCEPT ![r] = "walk"]
    /\ cur' = [cur EXCEPT ![r] = NoNode]
    /\ due' = [due EXCEPT ![r] = 0]
    /\ UNCHANGED <<clock, ranked, nodeVars, req, answer, sent>>

Walking(r) == pc[r] = "walk" /\ round[r].pos <= Len(round[r].walk)
Walked(r) == pc[r] = "walk" /\ round[r].pos > Len(round[r].walk)
At(r) == round[r].walk[round[r].pos]

HeldOut(r, n) == ~req[r].ignore /\ IsPenalized(req[r].nowS, until[n])

SkipTried(r) ==
    /\ Walking(r)
    /\ At(r) \in req[r].tried
    /\ Advance(r)
    /\ UNCHANGED <<clock, ranked, nodeVars, pc, req, cur, via, due, answer, sent>>

\* Not marked tried: the fail-open round comes back for it.
SkipPenalized(r) ==
    /\ Walking(r)
    /\ At(r) \notin req[r].tried
    /\ HeldOut(r, At(r))
    /\ round' = [round EXCEPT ![r].pos = @ + 1, ![r].penalized = TRUE]
    /\ UNCHANGED <<clock, ranked, nodeVars, pc, req, cur, via, due, answer, sent>>

\* try_admit finds no permit; the first such node is remembered.
SkipSaturated(r) ==
    /\ Walking(r)
    /\ At(r) \notin req[r].tried
    /\ ~HeldOut(r, At(r))
    /\ permits[At(r)] = 0
    /\ round' = [round EXCEPT ![r].pos = @ + 1,
                              ![r].saturated = IF @ = NoNode THEN At(r) ELSE @]
    /\ UNCHANGED <<clock, ranked, nodeVars, pc, req, cur, via, due, answer, sent>>

\* Mutant: the permit is taken without looking whether there is one.
TakePermitBlindly(r) ==
    /\ Walking(r)
    /\ At(r) \notin req[r].tried
    /\ ~HeldOut(r, At(r))
    /\ permits' = [permits EXCEPT ![At(r)] = @ - 1]
    /\ cur' = [cur EXCEPT ![r] = At(r)]
    /\ pc' = [pc EXCEPT ![r] = "rate"]
    /\ UNCHANGED <<clock, ranked, until, queue, debt, usage, req, round, via,
                   due, answer, sent>>

\* try_admit takes a permit.
TakePermit(r) ==
    /\ Walking(r)
    /\ At(r) \notin req[r].tried
    /\ ~HeldOut(r, At(r))
    /\ permits[At(r)] > 0
    /\ permits' = [permits EXCEPT ![At(r)] = @ - 1]
    /\ cur' = [cur EXCEPT ![r] = At(r)]
    /\ pc' = [pc EXCEPT ![r] = "rate"]
    /\ UNCHANGED <<clock, ranked, until, queue, debt, usage, req, round, via,
                   due, answer, sent>>

-----------------------------------------------------------------------------
(* admit and admit_waiting, with the permit in hand *)

\* The backlog up to which the bucket lets one more cell through.
Tolerance(n) == (Burst[n] - 1) * Interval[n]

\* Mutant: the permit is given back before the cost is booked.
TakeTokenLetGo(r) ==
    LET n == cur[r]
    IN  /\ pc[r] = "rate"
        /\ debt[n] <= Tolerance(n)
        /\ debt' = [debt EXCEPT ![n] = @ + Interval[n]]
        /\ permits' = [permits EXCEPT ![n] = @ + 1]
        /\ pc' = [pc EXCEPT ![r] = "book"]
        /\ UNCHANGED <<clock, ranked, until, queue, usage, req, round, cur, via,
                       due, answer, sent>>

TakeToken(r) ==
    LET n == cur[r]
    IN  /\ pc[r] = "rate"
        /\ debt[n] <= Tolerance(n)
        /\ debt' = [debt EXCEPT ![n] = @ + Interval[n]]
        /\ pc' = [pc EXCEPT ![r] = "book"]
        /\ UNCHANGED <<clock, ranked, until, permits, queue, usage, req, round,
                       cur, via, due, answer, sent>>

\* check_rate fails.  On the walk the shortest wait is kept; after
\* admit_waiting the request sleeps it out at once.  The permit goes back.
RateLimited(r) ==
    LET n == cur[r]
        wait == debt[n] - Tolerance(n)
    IN  /\ pc[r] = "rate"
        /\ debt[n] > Tolerance(n)
        /\ \/ /\ via[r] = "walk"
              /\ Release(r, n, "walk")
              /\ round' = [round EXCEPT
                             ![r].pos = @ + 1,
                             ![r].best = IF @ = 0 \/ wait < @ THEN wait ELSE @]
              /\ UNCHANGED due
           \/ /\ via[r] = "wait"
              /\ Release(r, n, "sleep")
              /\ due' = [due EXCEPT ![r] = clock + wait]
              /\ UNCHANGED round
        /\ cur' = [cur EXCEPT ![r] = NoNode]
        /\ UNCHANGED <<clock, ranked, until, debt, usage, req, via, answer, sent>>

Refuses(n, r) ==
    usage[n] > Threshold[n] \/ Cost[n][req[r].method] = UnknownCost

\* Mutant: the bit is never set.
MarkNothing(r, n) == UNCHANGED req

\* tried |= 1 << node.id
MarkTried(r, n) == req' = [req EXCEPT ![r].tried = @ \union {n}]

\* Mutant: the permit is not given back.
BookRefusedHolding(r) ==
    LET n == cur[r]
    IN  /\ pc[r] = "book"
        /\ Refuses(n, r)
        /\ pc' = [pc EXCEPT ![r] = MoveOn(r)]
        /\ Advance(r)
        /\ MarkTried(r, n)
        /\ cur' = [cur EXCEPT ![r] = NoNode]
        /\ UNCHANGED <<clock, ranked, nodeVars, via, due, answer, sent>>

\* book answers Skip: quota spent, or the node has no price for the method.
BookRefused(r) ==
    LET n == cur[r]
    IN  /\ pc[r] = "book"
        /\ Refuses(n, r)
        /\ Release(r, n, MoveOn(r))
        /\ Advance(r)
        /\ MarkTried(r, n)
        /\ cur' = [cur EXCEPT ![r] = NoNode]
        /\ UNCHANGED <<clock, ranked, until, debt, usage, via, due, answer, sent>>

\* book read a counter at or below the threshold; the addition is another step.
BookAccepted(r) ==
    /\ pc[r] = "book"
    /\ ~Refuses(cur[r], r)
    /\ pc' = [pc EXCEPT ![r] = "add"]
    /\ UNCHANGED <<clock, ranked, nodeVars, req, round, cur, via, due, answer, sent>>

\* The cost is added, the node marked tried and the attempt sent.
AddAndSend(r) ==
    LET n == cur[r]
    IN  /\ pc[r] = "add"
        /\ usage' = [usage EXCEPT ![n] = @ + Cost[n][req[r].method]]
        /\ MarkTried(r, n)
        /\ sent' = [sent EXCEPT ![r][n] = @ + 1]
        /\ due' = [due EXCEPT ![r] = clock + AttemptTimeout]
        /\ pc' = [pc EXCEPT ![r] = "attempt"]
        /\ UNCHANGED <<clock, ranked, until, permits, queue, debt, round, cur,
                       via, answer>>

-----------------------------------------------------------------------------
(* The attempt *)

\* observe_answer clears the penalty, penalize sets a new deadline.
Judge(n, v) ==
    until' = CASE v.health = "observe" -> [until EXCEPT ![n] = 0]
               [] v.health = "penalize" ->
                    [until EXCEPT ![n] =
                       PenaltyUntil(SecondsSinceStart(clock), v.cooldown)]
               [] v.health = "leave" -> until

AttemptEnds(r, v) ==
    /\ pc[r] = "attempt"
    /\ Judge(cur[r], v)
    /\ \/ /\ v.attempt = "Done"
          /\ Release(r, cur[r], "done")
          /\ Close(r, "Forwarded")
       \/ /\ v.attempt = "Retry"
          /\ Release(r, cur[r], MoveOn(r))
          /\ Advance(r)
          /\ cur' = [cur EXCEPT ![r] = NoNode]
          /\ due' = [due EXCEPT ![r] = 0]
          /\ UNCHANGED <<req, via, answer, sent>>
    /\ UNCHANGED <<clock, ranked, debt, usage>>

\* The client's own deadline on the attempt, ATTEMPT_TIMEOUT.
AttemptDeadline(r) == clock >= due[r] /\ AttemptEnds(r, TransportError)

-----------------------------------------------------------------------------
(* The end of a round *)

\* Some node is only rate-limited: sleep until the first of them is not.
SleepOnRateLimit(r) ==
    /\ Walked(r)
    /\ round[r].best # 0
    /\ due' = [due EXCEPT ![r] = clock + round[r].best]
    /\ pc' = [pc EXCEPT ![r] = "sleep"]
    /\ UNCHANGED <<clock, ranked, nodeVars, req, round, cur, via, answer, sent>>

Wake(r) ==
    /\ pc[r] = "sleep"
    /\ clock >= due[r]
    /\ pc' = [pc EXCEPT ![r] = "round"]
    /\ UNCHANGED <<clock, ranked, nodeVars, req, round, cur, via, due, answer, sent>>

\* Mutant: a busy node is not waited for.
NothingRateLimited(r) == Walked(r) /\ round[r].best = 0

NothingToWaitFor(r) ==
    Walked(r) /\ round[r].best = 0 /\ round[r].saturated = NoNode

\* Mutant: a penalty is as good as a failure.
NeverOnlyPenalized(r) == FALSE

\* Some node was passed over for its penalty, and may still be offered.
OnlyPenalized(r) == round[r].penalized /\ ~req[r].ignore

\* Mutant: the next round checks the penalties again.
FailOpenForgets(r) ==
    /\ NothingToWaitFor(r)
    /\ OnlyPenalized(r)
    /\ pc' = [pc EXCEPT ![r] = "round"]
    /\ UNCHANGED <<clock, ranked, nodeVars, req, round, cur, via, due, answer, sent>>

\* Only penalized nodes are left: walk again without the check.
FailOpen(r) ==
    /\ NothingToWaitFor(r)
    /\ OnlyPenalized(r)
    /\ req' = [req EXCEPT ![r].ignore = TRUE]
    /\ pc' = [pc EXCEPT ![r] = "round"]
    /\ UNCHANGED <<clock, ranked, nodeVars, round, cur, via, due, answer, sent>>

AllNodesFailed(r) ==
    /\ NothingToWaitFor(r)
    /\ ~OnlyPenalized(r)
    /\ pc' = [pc EXCEPT ![r] = "done"]
    /\ Close(r, "AllNodesFailed")
    /\ UNCHANGED <<clock, ranked, nodeVars>>

\* Mutant: the queue is joined without looking for a permit first.
AdmitWaitingParks(r) ==
    LET n == round[r].saturated
    IN  /\ Walked(r)
        /\ round[r].best = 0
        /\ n # NoNode
        /\ cur' = [cur EXCEPT ![r] = n]
        /\ via' = [via EXCEPT ![r] = "wait"]
        /\ queue' = [queue EXCEPT ![n] = Append(@, r)]
        /\ pc' = [pc EXCEPT ![r] = "parked"]
        /\ UNCHANGED <<clock, ranked, until, permits, debt, usage, req, round,
                       due, answer, sent>>

\* admit_waiting on the first saturated node: take a permit that has come free
\* since, or join the queue.
AdmitWaiting(r) ==
    LET n == round[r].saturated
    IN  /\ Walked(r)
        /\ round[r].best = 0
        /\ n # NoNode
        /\ cur' = [cur EXCEPT ![r] = n]
        /\ via' = [via EXCEPT ![r] = "wait"]
        /\ \/ /\ permits[n] > 0
              /\ permits' = [permits EXCEPT ![n] = @ - 1]
              /\ pc' = [pc EXCEPT ![r] = "rate"]
              /\ UNCHANGED queue
           \/ /\ permits[n] = 0
              /\ queue' = [queue EXCEPT ![n] = Append(@, r)]
              /\ pc' = [pc EXCEPT ![r] = "parked"]
              /\ UNCHANGED permits
        /\ UNCHANGED <<clock, ranked, until, debt, usage, req, round, due,
                       answer, sent>>

\* The waiter a permit was handed to is polled again.
Granted(r) ==
    /\ pc[r] = "granted"
    /\ pc' = [pc EXCEPT ![r] = "rate"]
    /\ UNCHANGED <<clock, ranked, nodeVars, req, round, cur, via, due, answer, sent>>

-----------------------------------------------------------------------------
(* Cancellation *)

\* The queue q without its i-th waiter.
Without(q, i) == [j \in 1 .. Len(q) - 1 |-> IF j < i THEN q[j] ELSE q[j + 1]]

\* A waiter whose future is dropped leaves the queue.
LeaveQueue(r) ==
    \E i \in DOMAIN queue[cur[r]] :
        /\ queue[cur[r]][i] = r
        /\ queue' = [queue EXCEPT ![cur[r]] = Without(@, i)]

\* The future is dropped where it awaits: a permit it holds or was handed is
\* released, a place in a queue given up; tokens and quota stay spent.
Cancel(r, a) ==
    /\ \/ /\ pc[r] \in {"attempt", "granted"}
          /\ Release(r, cur[r], "done")
       \/ /\ pc[r] = "parked"
          /\ LeaveQueue(r)
          /\ pc' = [pc EXCEPT ![r] = "done"]
          /\ UNCHANGED permits
       \/ /\ pc[r] = "sleep"
          /\ pc' = [pc EXCEPT ![r] = "done"]
          /\ UNCHANGED <<permits, queue>>
    /\ Close(r, a)
    /\ UNCHANGED <<clock, ranked, until, debt, usage>>

\* GLOBAL_TIMEOUT.  A future that is ready to run is polled before the
\* timeout is, so a waiter that was handed a permit is not timed out.
Timeout(r) ==
    /\ pc[r] \in Await
    /\ clock >= req[r].deadline
    /\ Cancel(r, "Timeout")

\* The client closes its connection and the server drops the handler.
Disconnect(r) ==
    /\ pc[r] \in Await \union {"granted"}
    /\ Cancel(r, "Dropped")

-----------------------------------------------------------------------------
(* The environment *)

\* RankLoop::rerank publishes a new order.
Rerank ==
    /\ ranked' \in Orders \ {ranked}
    /\ UNCHANGED <<clock, nodeVars, reqVars>>

\* Timers fire when they are due and code between two awaits takes no time:
\* the clock moves only when every request awaits something still to come.
Tick ==
    /\ clock < MaxClock
    /\ \A r \in Request :
          \/ pc[r] \in {"new", "done"}
          \/ /\ pc[r] \in Await
             /\ clock < req[r].deadline
             /\ pc[r] \in {"attempt", "sleep"} => clock < due[r]
    /\ clock' = clock + 1
    /\ debt' = [n \in Node |-> IF debt[n] = 0 THEN 0 ELSE debt[n] - 1]
    /\ UNCHANGED <<ranked, until, permits, queue, usage, reqVars>>

\* The bound on the clock is reached and every request that came is answered.
Horizon ==
    /\ clock = MaxClock
    /\ \A r \in Request : pc[r] \in {"new", "done"}
    /\ UNCHANGED vars

\* The steps the balancer takes on its own for request r.
Step(r) ==
    \/ StartRound(r)
    \/ SkipTried(r) \/ SkipPenalized(r) \/ SkipSaturated(r) \/ TakePermit(r)
    \/ TakeToken(r) \/ RateLimited(r)
    \/ BookRefused(r) \/ BookAccepted(r) \/ AddAndSend(r)
    \/ AttemptDeadline(r)
    \/ SleepOnRateLimit(r) \/ Wake(r)
    \/ FailOpen(r) \/ AllNodesFailed(r)
    \/ AdmitWaiting(r) \/ Granted(r)
    \/ Timeout(r)

Next ==
    \/ \E r \in Request :
          \/ \E m \in Method : Arrive(r, m)
          \/ RejectBody(r)
          \/ Step(r)
          \/ \E v \in Verdicts : AttemptEnds(r, v)
          \/ Disconnect(r)
    \/ Rerank
    \/ Tick
    \/ Horizon

Spec == Init /\ [][Next]_vars

\* The runtime polls every task that is ready and fires its timers, and time
\* passes.  Nothing is assumed of clients or upstreams.
Fairness == /\ \A r \in Request : WF_vars(Step(r))
            /\ WF_vars(Tick)

FairSpec == Spec /\ Fairness

-----------------------------------------------------------------------------
(* Properties *)

RequestLocals == [method : Method, nowS : Nat, deadline : Nat,
                  tried : SUBSET Node, ignore : BOOLEAN]
RoundLocals == [walk : {<<>>} \union Orders, pos : Nat, best : Nat,
                saturated : Node \union {NoNode}, penalized : BOOLEAN]

TypeOK ==
    /\ clock \in 0 .. MaxClock
    /\ ranked \in Orders
    /\ until \in [Node -> Nat]
    /\ permits \in [Node -> Nat]
    /\ queue \in [Node -> Seq(Request)]
    /\ debt \in [Node -> Nat]
    /\ usage \in [Node -> Nat]
    /\ pc \in [Request -> Pc]
    /\ req \in [Request -> RequestLocals]
    /\ round \in [Request -> RoundLocals]
    /\ cur \in [Request -> Node \union {NoNode}]
    /\ via \in [Request -> {"walk", "wait"}]
    /\ due \in [Request -> Nat]
    /\ answer \in [Request -> Answer]
    /\ sent \in [Request -> [Node -> Nat]]

\* The requests holding a permit of n, or handed one and not polled yet.
Holders(n) ==
    {r \in Request : cur[r] = n /\
                     pc[r] \in {"rate", "book", "add", "attempt", "granted"}}

\* No path through admit, admit_waiting, an attempt, a timeout or a dropped
\* connection loses a permit or returns one twice, so a node never serves more
\* than max_concurrent attempts and never fewer than it could.
PermitsConserved ==
    \A n \in Node : permits[n] + Cardinality(Holders(n)) = MaxConcurrent[n]

\* A parked request is in the queue of its node exactly once and a cancelled
\* one in none; and nobody waits while a permit is free, so a freed permit is
\* never overlooked and no later request overtakes the queue.
WaitersQueued ==
    \A n \in Node :
        /\ {queue[n][i] : i \in DOMAIN queue[n]}
             = {r \in Request : pc[r] = "parked" /\ cur[r] = n}
        /\ \A i, j \in DOMAIN queue[n] : queue[n][i] = queue[n][j] => i = j
        /\ queue[n] # <<>> => permits[n] = 0

\* c bounds what the node charges for any method it has a price for.
ChargesAtMost(n, c) ==
    \A m \in Method : Cost[n][m] # UnknownCost => Cost[n][m] <= c

\* book reads the counter and adds to it in two steps, so requests that read
\* it together overshoot the spillover threshold - but each of them holds a
\* permit, so by no more than max_concurrent times the dearest method.
OverspendBounded ==
    \A n \in Node : \A c \in 0 .. UnknownCost :
        ChargesAtMost(n, c)
          => usage[n] <= Threshold[n] + MaxConcurrent[n] * c

\* "A node serves the request at most once, however many rounds the sleeping
\* takes" (router.rs:175): walk, fail-open round and parking together never
\* send a request to one node twice.
OneAttemptPerNode == \A r \in Request : \A n \in Node : sent[r][n] <= 1

\* A 502 is answered only after every node was attempted or refused the
\* request for its quota or its method: not while one is merely rate-limited,
\* busy, or under a penalty the balancer imposed.
FailedMeansExhausted ==
    [][\A r \in Request :
          answer[r] = "None" /\ answer'[r] = "AllNodesFailed"
            => req[r].tried = Node]_vars

\* The request path read as the service of Service.tla.
Promise == INSTANCE Service WITH
    phase <- [r \in Request |-> IF pc[r] \in {"new", "done"} THEN pc[r] ELSE "open"],
    spent <- [r \in Request |-> req[r].tried],
    inflight <- [r \in Request |-> IF pc[r] = "attempt" THEN cur[r] ELSE NoNode],
    outcome <- answer

\* Admission, penalties, parking, sleeping, fail-open rounds and cancellation
\* together keep the promise of Service.tla: whatever requests run beside it,
\* a request is at one node at a time, at no node twice, and is failed only
\* when every node has had it or ruled itself out.
KeepsPromise == Promise!Spec

\* Every request is answered, whatever the upstreams and the other requests
\* do: no interleaving leaves it walking, sleeping or parked for ever.
EveryRequestAnswered ==
    \A r \in Request : pc[r] \notin {"new", "done"} ~> pc[r] = "done"

\* "a node that stalls has to hit its own deadline while this future is still
\* alive to record the penalty" (router.rs:33): when the global timeout drops a
\* request in an attempt, the node that left it waiting is under a penalty.
StalledNodePenalized ==
    [][\A r \in Request :
          pc[r] = "attempt" /\ answer'[r] = "Timeout"
            => IsPenalized(SecondsSinceStart(clock), until[cur[r]])]_vars
=============================================================================
