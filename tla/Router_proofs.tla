---------------------------- MODULE Router_proofs ----------------------------
(***************************************************************************)
(* Proofs about Router for every set of nodes, requests and methods, every *)
(* limit and every clock bound.  What a request does on a node follows     *)
(* from where it is and what it holds, and a released permit moves another *)
(* request along: the parts of the inductive invariant IInv - the types,   *)
(* the place of every request, the semaphores' queues, the attempts made - *)
(* are preserved together.                                                 *)
(*                                                                         *)
(* SInv, in the second half, adds what a semaphore, a counter and a walk   *)
(* owe to the requests on their nodes: permits are conserved, the          *)
(* overshoot of a quota is bounded by the permits, "all nodes failed" is   *)
(* said only when every node was tried, and Router implements Service.     *)
(***************************************************************************)
EXTENDS Router, FiniteSetTheorems, SequenceTheorems, TLAPS

OnNode == {"rate", "book", "add", "attempt", "granted", "parked"}

\* A request on a node has one, on the walk it is the node at pos, and until
\* the attempt is sent the node is not among the tried ones.
PlaceOK(r) ==
    /\ round[r].pos >= 1
    /\ pc[r] = "new" => req[r].tried = {}
    /\ pc[r] \in OnNode => cur[r] \in Node
    /\ pc[r] \in OnNode \ {"attempt"} => cur[r] \notin req[r].tried
    /\ pc[r] \in {"granted", "parked"} => via[r] = "wait"
    /\ pc[r] = "walk" => via[r] = "walk"
    /\ pc[r] \in OnNode /\ via[r] = "walk"
         => round[r].pos <= Len(round[r].walk) /\ cur[r] = At(r)

\* The node a walk will park on was passed earlier in the walk, and has not
\* been tried since.
SaturatedOK(r) ==
    pc[r] \in OnNode \union {"walk"} /\ via[r] = "walk" /\ round[r].saturated # NoNode
      => /\ round[r].saturated \notin req[r].tried
         /\ \E i \in 1 .. Len(round[r].walk) :
               i < round[r].pos /\ round[r].walk[i] = round[r].saturated

\* A node that is not tried was not attempted.
SentOK(r) ==
    \A n \in Node : sent[r][n] <= 1 /\ (n \notin req[r].tried => sent[r][n] = 0)

\* WaitersQueued, element by element.
QueueOK(n) ==
    /\ \A i \in DOMAIN queue[n] : pc[queue[n][i]] = "parked" /\ cur[queue[n][i]] = n
    /\ \A i, j \in DOMAIN queue[n] : queue[n][i] = queue[n][j] => i = j
    /\ queue[n] # <<>> => permits[n] = 0

ParkedOK(r) ==
    pc[r] = "parked" => \E i \in DOMAIN queue[cur[r]] : queue[cur[r]][i] = r

Places == \A r \in Request : PlaceOK(r) /\ SaturatedOK(r)
Queues == (\A n \in Node : QueueOK(n)) /\ (\A r \in Request : ParkedOK(r))
Attempts == \A r \in Request : SentOK(r)

\* The inductive invariant.
IInv == TypeOK /\ Places /\ Queues /\ Attempts

-----------------------------------------------------------------------------
(* The operators *)

\* A published order lists every place once.
LEMMA OrderIsWalk ==
    ASSUME NEW w \in Orders
    PROVE  /\ w \in Seq(Node)
           /\ \A i \in 1 .. Len(w) : w[i] \in Node
           /\ \A i, j \in 1 .. Len(w) : i < j => w[i] # w[j]
  <1>1. Cardinality(Node) \in Nat
    BY NodeAssumption, FS_CardinalityType
  <1>2. w \in Seq(Node) /\ Len(w) = Cardinality(Node)
    BY <1>1, IsASeq DEF Orders
  <1> QED BY <1>1, <1>2 DEF Orders

\* What classify_response and the transport can say.
LEMMA VerdictsTyped ==
    ASSUME NEW v \in Verdicts
    PROVE  /\ v.cooldown \in Nat
           /\ v.health \in {"observe", "penalize", "leave"}
           /\ v.attempt \in {"Done", "Retry"}
  <1>1. CASE v \in {TransportError, BodyError}
    BY <1>1 DEF TransportError, BodyError, Verdict
  <1>2. CASE v \notin {TransportError, BodyError}
    <2>1. PICK x \in Response : v = ClassifyResponse(x.status, x.header, x.body)
      BY <1>2 DEF Verdicts
    <2>2. RetryAfter(x.status, x.header) \in Nat
      BY ResponseAssumption DEF RetryAfter
    <2> QED BY <2>1, <2>2 DEF ClassifyResponse, Verdict
  <1> QED BY <1>1, <1>2

\* The attempt deadline is one of the verdicts.
LEMMA TransportErrorIsVerdict == TransportError \in Verdicts
  BY DEF Verdicts

\* The penalty clock and its deadlines are naturals.
LEMMA UntilTyped ==
    ASSUME NEW t \in Nat, NEW c \in Nat
    PROVE  SecondsSinceStart(t) \in Nat /\ PenaltyUntil(SecondsSinceStart(t), c) \in Nat
  BY TicksAssumption, PenaltyAssumption
     DEF SecondsSinceStart, PenaltyUntil, PenaltyLength

\* Taking one waiter out leaves the others in place.
LEMMA WithoutWaiter ==
    ASSUME NEW q \in Seq(Request), NEW i \in DOMAIN q
    PROVE  /\ Without(q, i) \in Seq(Request)
           /\ DOMAIN Without(q, i) = 1 .. Len(q) - 1
           /\ \A j \in 1 .. Len(q) - 1 :
                 Without(q, i)[j] = IF j < i THEN q[j] ELSE q[j + 1]
  <1>1. Len(q) \in Nat \ {0} /\ DOMAIN q = 1 .. Len(q)
    OBVIOUS
  <1>2. \A j \in 1 .. Len(q) - 1 : (IF j < i THEN q[j] ELSE q[j + 1]) \in Request
    BY <1>1
  <1> QED BY <1>1, <1>2, IsASeq DEF Without

\* What releasing a permit does to the other requests.
LEMMA ReleaseMoves ==
    ASSUME IInv, NEW r \in Request, NEW n \in Node, NEW next \in Pc,
           pc[r] # "parked", Release(r, n, next)
    PROVE  /\ permits' \in [Node -> Nat]
           /\ queue' \in [Node -> Seq(Request)]
           /\ pc' \in [Request -> Pc]
           /\ pc'[r] = next
           /\ \A q \in Request \ {r} :
                 \/ pc'[q] = pc[q]
                 \/ pc[q] = "parked" /\ cur[q] = n /\ pc'[q] = "granted"
  <1> USE DEF IInv, TypeOK
  <1>1. CASE queue[n] = <<>>
    <2>1. /\ permits' = [permits EXCEPT ![n] = @ + 1]
          /\ pc' = [pc EXCEPT ![r] = next]
          /\ queue' = queue
      BY <1>1 DEF Release
    <2> QED BY <2>1
  <1>2. CASE queue[n] # <<>>
    <2> DEFINE h == Head(queue[n])
    <2>1. h \in Request /\ pc[h] = "parked" /\ cur[h] = n /\ Tail(queue[n]) \in Seq(Request)
      <3>1. queue[n] \in Seq(Request) /\ 1 \in DOMAIN queue[n] /\ h = queue[n][1]
        BY <1>2
      <3> QED BY <1>2, <3>1 DEF Queues, QueueOK
    <2>2. /\ pc' = [pc EXCEPT ![r] = next, ![h] = "granted"]
          /\ queue' = [queue EXCEPT ![n] = Tail(@)]
          /\ permits' = permits
      BY <1>2 DEF Release
    <2> HIDE DEF h
    <2> QED BY <2>1, <2>2 DEF Pc
  <1> QED BY <1>1, <1>2
-----------------------------------------------------------------------------
(* Type correctness *)

\* The node at pos, while there is one.
LEMMA AtIsNode ==
    ASSUME IInv, NEW r \in Request, Walking(r)
    PROVE  At(r) \in Node
  <1>1. round[r].walk \in Orders /\ round[r].pos \in 1 .. Len(round[r].walk)
    BY DEF IInv, TypeOK, RoundLocals, Places, PlaceOK, Walking
  <1> QED BY <1>1, OrderIsWalk DEF At

\* Every variable starts in its type.
LEMMA TypeInit == Init => TypeOK
  BY LimitAssumption, MethodAssumption, ClockAssumption
     DEF Init, TypeOK, Nothing, NoRequest, NoRound, Pc, Answer,
         RequestLocals, RoundLocals

\* A request that ends leaves its locals in their initial state.
LEMMA CloseTyped ==
    ASSUME TypeOK, NEW r \in Request, NEW a \in Answer, Close(r, a)
    PROVE  /\ answer' \in [Request -> Answer]
           /\ req' \in [Request -> RequestLocals]
           /\ round' \in [Request -> RoundLocals]
           /\ cur' \in [Request -> Node \union {NoNode}]
           /\ via' \in [Request -> {"walk", "wait"}]
           /\ due' \in [Request -> Nat]
           /\ sent' \in [Request -> [Node -> Nat]]
  <1>1. NoRequest \in RequestLocals
    BY MethodAssumption DEF NoRequest, RequestLocals
  <1>2. NoRound \in RoundLocals
    BY DEF NoRound, RoundLocals
  <1>3. Nothing \in [Node -> Nat]
    BY DEF Nothing
  <1> QED BY <1>1, <1>2, <1>3 DEF Close, TypeOK

\* Updates of the locals of a round and of a request keep their types.
LEMMA RoundUpdates ==
    ASSUME NEW f \in [Request -> RoundLocals], NEW r \in Request, NEW pos \in Nat,
           NEW best \in Nat, NEW n \in Node \union {NoNode}
    PROVE  /\ [f EXCEPT ![r].pos = pos] \in [Request -> RoundLocals]
           /\ [f EXCEPT ![r].pos = pos, ![r].penalized = TRUE] \in [Request -> RoundLocals]
           /\ [f EXCEPT ![r].pos = pos, ![r].saturated = n] \in [Request -> RoundLocals]
           /\ [f EXCEPT ![r].pos = pos, ![r].best = best] \in [Request -> RoundLocals]
           /\ f[r].pos \in Nat /\ f[r].best \in Nat
           /\ f[r].saturated \in Node \union {NoNode}
  <1>1. [f EXCEPT ![r].pos = pos] \in [Request -> RoundLocals]
    BY DEF RoundLocals
  <1>2. [f EXCEPT ![r].pos = pos, ![r].penalized = TRUE] \in [Request -> RoundLocals]
    BY DEF RoundLocals
  <1>3. [f EXCEPT ![r].pos = pos, ![r].saturated = n] \in [Request -> RoundLocals]
    BY DEF RoundLocals
  <1>4. [f EXCEPT ![r].pos = pos, ![r].best = best] \in [Request -> RoundLocals]
    BY DEF RoundLocals
  <1> QED BY <1>1, <1>2, <1>3, <1>4 DEF RoundLocals

\* The same for the locals of a request: a node marked tried, the fail-open flag.
LEMMA RequestUpdates ==
    ASSUME NEW f \in [Request -> RequestLocals], NEW r \in Request, NEW n \in Node
    PROVE  /\ [f EXCEPT ![r].tried = @ \union {n}] \in [Request -> RequestLocals]
           /\ [f EXCEPT ![r].ignore = TRUE] \in [Request -> RequestLocals]
  <1>1. [f EXCEPT ![r].tried = @ \union {n}] \in [Request -> RequestLocals]
    BY DEF RequestLocals
  <1>2. [f EXCEPT ![r].ignore = TRUE] \in [Request -> RequestLocals]
    BY DEF RequestLocals
  <1> QED BY <1>1, <1>2

\* Moving past a node keeps the type of the locals of a round.
LEMMA AdvanceTyped ==
    ASSUME TypeOK, NEW r \in Request, Advance(r)
    PROVE  round' \in [Request -> RoundLocals]
  <1> DEFINE p == IF via[r] = "walk" THEN round[r].pos + 1 ELSE round[r].pos
  <1>1. round \in [Request -> RoundLocals]
    BY DEF TypeOK
  <1>2. p \in Nat
    BY <1>1 DEF RoundLocals
  <1>3. round' = [round EXCEPT ![r].pos = p]
    BY DEF Advance
  <1> HIDE DEF p
  <1> QED BY <1>1, <1>2, <1>3, RoundUpdates

\* No step takes a variable out of its type.
LEMMA TypeStep ==
    ASSUME IInv, [Next]_vars
    PROVE  TypeOK'
  <1> USE DEF IInv
  <1>a. /\ round \in [Request -> RoundLocals]
        /\ req \in [Request -> RequestLocals]
        /\ debt \in [Node -> Nat]
        /\ clock \in Nat
    BY DEF TypeOK
  <1>b. \A r \in Request : round[r].pos + 1 \in Nat /\ round[r].best \in Nat
    BY <1>a DEF RoundLocals
  <1>1. ASSUME NEW r \in Request, NEW m \in Method, Arrive(r, m) PROVE TypeOK'
    <2>1. SecondsSinceStart(clock) \in Nat /\ clock + GlobalTimeout \in Nat
      BY UntilTyped, TimeoutAssumption DEF TypeOK
    <2>2. req' \in [Request -> RequestLocals]
      BY <1>1, <2>1 DEF Arrive, TypeOK, RequestLocals
    <2> QED BY <1>1, <2>2 DEF Arrive, TypeOK, Pc, nodeVars
  <1>2. ASSUME NEW r \in Request, RejectBody(r) PROVE TypeOK'
    BY <1>2 DEF RejectBody, TypeOK, Pc, Answer, nodeVars
  <1>3. ASSUME NEW r \in Request, StartRound(r) PROVE TypeOK'
    <2>1. round' \in [Request -> RoundLocals]
      BY <1>3 DEF StartRound, TypeOK, NoRound, RoundLocals
    <2> QED BY <1>3, <2>1 DEF StartRound, TypeOK, Pc, nodeVars
  <1>4. ASSUME NEW r \in Request, SkipTried(r) PROVE TypeOK'
    <2>1. round' \in [Request -> RoundLocals]
      BY <1>4, AdvanceTyped DEF SkipTried
    <2> QED BY <1>4, <2>1 DEF SkipTried, TypeOK, nodeVars
  <1>5. ASSUME NEW r \in Request, SkipPenalized(r) PROVE TypeOK'
    <2>1. round' \in [Request -> RoundLocals]
      <3> DEFINE p == round[r].pos + 1
      <3>1. round' = [round EXCEPT ![r].pos = p, ![r].penalized = TRUE]
        BY <1>5 DEF SkipPenalized
      <3>2. p \in Nat
        BY <1>b
      <3> HIDE DEF p
      <3> QED BY <1>a, <3>1, <3>2, RoundUpdates
    <2> QED BY <1>5, <2>1 DEF SkipPenalized, TypeOK, nodeVars
  <1>6. ASSUME NEW r \in Request, SkipSaturated(r) PROVE TypeOK'
    <2>1. At(r) \in Node
      BY <1>6, AtIsNode DEF SkipSaturated
    <2>2. round' \in [Request -> RoundLocals]
      <3> DEFINE p == round[r].pos + 1
                 n == IF round[r].saturated = NoNode THEN At(r) ELSE round[r].saturated
      <3>1. round' = [round EXCEPT ![r].pos = p, ![r].saturated = n]
        BY <1>6 DEF SkipSaturated
      <3>2. p \in Nat /\ n \in Node \union {NoNode}
        BY <1>a, <1>b, <2>1 DEF RoundLocals
      <3> HIDE DEF p, n
      <3> QED BY <1>a, <3>1, <3>2, RoundUpdates
    <2> QED BY <1>6, <2>2 DEF SkipSaturated, TypeOK, nodeVars
  <1>7. ASSUME NEW r \in Request, TakePermit(r) PROVE TypeOK'
    <2>1. At(r) \in Node
      BY <1>7, AtIsNode DEF TakePermit
    <2>2. permits' \in [Node -> Nat] /\ cur' \in [Request -> Node \union {NoNode}]
      BY <1>7, <2>1 DEF TakePermit, TypeOK
    <2> QED BY <1>7, <2>2 DEF TakePermit, TypeOK, Pc
  <1>8. ASSUME NEW r \in Request, TakeToken(r) PROVE TypeOK'
    <2>1. cur[r] \in Node
      BY <1>8 DEF TakeToken, Places, PlaceOK, OnNode
    <2>2. debt' \in [Node -> Nat]
      <3>1. debt' = [debt EXCEPT ![cur[r]] = @ + Interval[cur[r]]]
        BY <1>8 DEF TakeToken
      <3>2. debt[cur[r]] + Interval[cur[r]] \in Nat
        BY <1>a, <2>1, LimitAssumption
      <3> QED BY <1>a, <3>1, <3>2
    <2> QED BY <1>8, <2>2 DEF TakeToken, TypeOK, Pc
  <1>9. ASSUME NEW r \in Request, RateLimited(r) PROVE TypeOK'
    <2> DEFINE n == cur[r]
               wait == debt[n] - Tolerance(n)
    <2>1. n \in Node
      BY <1>9 DEF RateLimited, Places, PlaceOK, OnNode
    <2>2. wait \in Nat
      <3>1. /\ Burst[n] \in Nat \ {0} /\ Interval[n] \in Nat \ {0} /\ debt[n] \in Nat
        BY <2>1, LimitAssumption DEF TypeOK
      <3>2. Tolerance(n) \in Nat
        BY <3>1 DEF Tolerance
      <3> QED BY <1>9, <3>1, <3>2 DEF RateLimited
    <2>3. cur' \in [Request -> Node \union {NoNode}]
      BY <1>9 DEF RateLimited, TypeOK
    <2>4. CASE via[r] = "walk"
      <3>1. /\ Release(r, n, "walk")
            /\ round' = [round EXCEPT ![r].pos = @ + 1,
                            ![r].best = IF @ = 0 \/ wait < @ THEN wait ELSE @]
            /\ due' = due
        BY <1>9, <2>4 DEF RateLimited
      <3>2. /\ permits' \in [Node -> Nat]
            /\ queue' \in [Node -> Seq(Request)]
            /\ pc' \in [Request -> Pc]
        BY <1>9, <2>1, <3>1, ReleaseMoves DEF RateLimited, Pc
      <3> HIDE DEF wait
      <3>3. round' \in [Request -> RoundLocals]
        <4> DEFINE p == round[r].pos + 1
                   b == IF round[r].best = 0 \/ wait < round[r].best THEN wait ELSE round[r].best
        <4>1. round' = [round EXCEPT ![r].pos = p, ![r].best = b]
          BY <3>1
        <4>2. p \in Nat /\ b \in Nat
          BY <1>b, <2>2
        <4> HIDE DEF p, b
        <4> QED BY <1>a, <4>1, <4>2, RoundUpdates
      <3> QED BY <1>9, <2>3, <3>1, <3>2, <3>3 DEF RateLimited, TypeOK
    <2>5. CASE via[r] = "wait"
      <3>1. /\ Release(r, n, "sleep")
            /\ due' = [due EXCEPT ![r] = clock + wait]
            /\ round' = round
        BY <1>9, <2>5 DEF RateLimited
      <3>2. /\ permits' \in [Node -> Nat]
            /\ queue' \in [Node -> Seq(Request)]
            /\ pc' \in [Request -> Pc]
        BY <1>9, <2>1, <3>1, ReleaseMoves DEF RateLimited, Pc, Await
      <3> HIDE DEF wait
      <3>3. due' \in [Request -> Nat]
        BY <2>2, <3>1 DEF TypeOK
      <3> QED BY <1>9, <2>3, <3>1, <3>2, <3>3 DEF RateLimited, TypeOK
    <2> QED BY <2>4, <2>5 DEF TypeOK
  <1>10. ASSUME NEW r \in Request, BookRefused(r) PROVE TypeOK'
    <2>1. cur[r] \in Node
      BY <1>10 DEF BookRefused, Places, PlaceOK, OnNode
    <2>2. /\ permits' \in [Node -> Nat]
          /\ queue' \in [Node -> Seq(Request)]
          /\ pc' \in [Request -> Pc]
      BY <1>10, <2>1, ReleaseMoves DEF BookRefused, MoveOn, Pc
    <2>3. req' \in [Request -> RequestLocals]
      BY <1>10, <2>1, RequestUpdates DEF BookRefused, MarkTried, TypeOK
    <2>4. round' \in [Request -> RoundLocals]
      BY <1>10, AdvanceTyped DEF BookRefused
    <2> QED BY <1>10, <2>2, <2>3, <2>4 DEF BookRefused, TypeOK
  <1>11. ASSUME NEW r \in Request, BookAccepted(r) PROVE TypeOK'
    BY <1>11 DEF BookAccepted, TypeOK, Pc, nodeVars
  <1>12. ASSUME NEW r \in Request, AddAndSend(r) PROVE TypeOK'
    <2>1. cur[r] \in Node
      BY <1>12 DEF AddAndSend, Places, PlaceOK, OnNode
    <2>2. Cost[cur[r]][req[r].method] \in Nat /\ clock + AttemptTimeout \in Nat
      BY <2>1, LimitAssumption, TimeoutAssumption DEF TypeOK, RequestLocals
    <2>3. usage' \in [Node -> Nat]
      BY <1>12, <2>1, <2>2 DEF AddAndSend, TypeOK
    <2>4. req' \in [Request -> RequestLocals]
      BY <1>12, <2>1, RequestUpdates DEF AddAndSend, MarkTried, TypeOK
    <2>5. sent' \in [Request -> [Node -> Nat]]
      BY <1>12, <2>1 DEF AddAndSend, TypeOK
    <2> QED BY <1>12, <2>2, <2>3, <2>4, <2>5 DEF AddAndSend, TypeOK, Pc, Await
  <1>13. ASSUME NEW r \in Request, NEW v \in Verdicts, AttemptEnds(r, v) PROVE TypeOK'
    <2>1. cur[r] \in Node /\ pc[r] = "attempt"
      BY <1>13 DEF AttemptEnds, Places, PlaceOK, OnNode
    <2>2. until' \in [Node -> Nat]
      <3>1. PenaltyUntil(SecondsSinceStart(clock), v.cooldown) \in Nat
        BY <1>a, VerdictsTyped, UntilTyped
      <3>2. \/ until' = until
            \/ until' = [until EXCEPT ![cur[r]] = 0]
            \/ until' = [until EXCEPT ![cur[r]] =
                           PenaltyUntil(SecondsSinceStart(clock), v.cooldown)]
        BY <1>13, VerdictsTyped, Zenon DEF AttemptEnds, Judge
      <3> HIDE DEF IInv
      <3>3. until \in [Node -> Nat]
        BY DEF IInv, TypeOK
      <3> DEFINE u == PenaltyUntil(SecondsSinceStart(clock), v.cooldown)
      <3> HIDE DEF u
      <3>4. CASE until' = [until EXCEPT ![cur[r]] = u]
        BY <2>1, <3>1, <3>3, <3>4 DEF u
      <3> QED BY <2>1, <3>2, <3>3, <3>4 DEF u
    <2>3. CASE v.attempt = "Done"
      <3>1. Release(r, cur[r], "done") /\ Close(r, "Forwarded")
        BY <1>13, <2>3 DEF AttemptEnds
      <3>2. /\ permits' \in [Node -> Nat]
            /\ queue' \in [Node -> Seq(Request)]
            /\ pc' \in [Request -> Pc]
        BY <2>1, <3>1, ReleaseMoves DEF Pc
      <3>3. "Forwarded" \in Answer
        BY DEF Answer
      <3> QED BY <1>13, <2>2, <3>1, <3>2, <3>3, CloseTyped DEF AttemptEnds, TypeOK
    <2>4. CASE v.attempt = "Retry"
      <3>1. /\ Release(r, cur[r], MoveOn(r))
            /\ Advance(r)
            /\ cur' = [cur EXCEPT ![r] = NoNode]
            /\ due' = [due EXCEPT ![r] = 0]
            /\ UNCHANGED <<req, via, answer, sent>>
        BY <1>13, <2>4 DEF AttemptEnds
      <3>2. /\ permits' \in [Node -> Nat]
            /\ queue' \in [Node -> Seq(Request)]
            /\ pc' \in [Request -> Pc]
        BY <2>1, <3>1, ReleaseMoves DEF MoveOn, Pc
      <3>3. round' \in [Request -> RoundLocals]
        BY <3>1, AdvanceTyped
      <3> QED BY <1>13, <2>2, <3>1, <3>2, <3>3 DEF AttemptEnds, TypeOK
    <2> QED BY <2>3, <2>4, VerdictsTyped
  <1>14. ASSUME NEW r \in Request, AttemptDeadline(r) PROVE TypeOK'
    BY <1>13, <1>14, TransportErrorIsVerdict DEF AttemptDeadline
  <1>15. ASSUME NEW r \in Request, SleepOnRateLimit(r) PROVE TypeOK'
    <2>1. clock + round[r].best \in Nat
      BY <1>a, <1>b
    <2> QED BY <1>15, <2>1 DEF SleepOnRateLimit, TypeOK, Pc, Await, nodeVars
  <1>16. ASSUME NEW r \in Request, Wake(r) PROVE TypeOK'
    BY <1>16 DEF Wake, TypeOK, Pc, nodeVars
  <1>17. ASSUME NEW r \in Request, FailOpen(r) PROVE TypeOK'
    <2>1. req' \in [Request -> RequestLocals]
      BY <1>17, <1>a DEF FailOpen, RequestLocals
    <2> QED BY <1>17, <2>1 DEF FailOpen, TypeOK, Pc, nodeVars
  <1>18. ASSUME NEW r \in Request, AllNodesFailed(r) PROVE TypeOK'
    <2>1. Close(r, "AllNodesFailed") /\ "AllNodesFailed" \in Answer
      BY <1>18 DEF AllNodesFailed, Answer
    <2> QED BY <1>18, <2>1, CloseTyped DEF AllNodesFailed, TypeOK, Pc, nodeVars
  <1>19. ASSUME NEW r \in Request, AdmitWaiting(r) PROVE TypeOK'
    <2> DEFINE n == round[r].saturated
    <2>1. n \in Node
      BY <1>19, <1>a DEF AdmitWaiting, RoundLocals
    <2>2. permits' \in [Node -> Nat] /\ pc' \in [Request -> Pc]
      <3>1. permits \in [Node -> Nat] /\ pc \in [Request -> Pc]
        BY DEF TypeOK
      <3>2. CASE permits[n] > 0
        <4>1. /\ permits' = [permits EXCEPT ![n] = @ - 1]
              /\ pc' = [pc EXCEPT ![r] = "rate"]
          BY <1>19, <3>2 DEF AdmitWaiting
        <4> QED BY <2>1, <3>1, <3>2, <4>1 DEF Pc
      <3>3. CASE ~(permits[n] > 0)
        <4>1. permits' = permits /\ pc' = [pc EXCEPT ![r] = "parked"]
          BY <1>19, <3>3 DEF AdmitWaiting
        <4> QED BY <3>1, <4>1 DEF Pc, Await
      <3> QED BY <3>2, <3>3
    <2>3. queue' \in [Node -> Seq(Request)]
      <3>1. Append(queue[n], r) \in Seq(Request)
        BY <2>1 DEF TypeOK
      <3> QED BY <1>19, <2>1, <3>1 DEF AdmitWaiting, TypeOK
    <2> QED BY <1>19, <2>1, <2>2, <2>3 DEF AdmitWaiting, TypeOK
  <1>20. ASSUME NEW r \in Request, Granted(r) PROVE TypeOK'
    BY <1>20 DEF Granted, TypeOK, Pc, nodeVars
  <1>21. ASSUME NEW r \in Request, NEW a \in Answer, Cancel(r, a) PROVE TypeOK'
    <2>1. /\ permits' \in [Node -> Nat]
          /\ queue' \in [Node -> Seq(Request)]
          /\ pc' \in [Request -> Pc]
      <3>1. CASE pc[r] \in {"attempt", "granted"}
        <4>1. cur[r] \in Node /\ Release(r, cur[r], "done")
          BY <1>21, <3>1 DEF Cancel, Places, PlaceOK, OnNode
        <4> QED BY <3>1, <4>1, ReleaseMoves DEF Pc
      <3>2. CASE pc[r] = "parked"
        <4>1. cur[r] \in Node /\ queue[cur[r]] \in Seq(Request)
          BY <3>2 DEF Places, PlaceOK, OnNode, TypeOK
        <4>2. PICK i \in DOMAIN queue[cur[r]] :
                 queue' = [queue EXCEPT ![cur[r]] = Without(@, i)]
          BY <1>21, <3>2 DEF Cancel, LeaveQueue
        <4>3. Without(queue[cur[r]], i) \in Seq(Request)
          BY <4>1, WithoutWaiter
        <4> QED BY <1>21, <3>2, <4>1, <4>2, <4>3 DEF Cancel, TypeOK, Pc
      <3>3. CASE pc[r] = "sleep"
        BY <1>21, <3>3 DEF Cancel, TypeOK, Pc
      <3> QED BY <1>21, <3>1, <3>2, <3>3 DEF Cancel
    <2> QED BY <1>21, <2>1, CloseTyped DEF Cancel, TypeOK
  <1>22. ASSUME NEW r \in Request, Timeout(r) \/ Disconnect(r) PROVE TypeOK'
    <2>1. "Timeout" \in Answer /\ "Dropped" \in Answer
      BY DEF Answer
    <2> QED BY <1>21, <1>22, <2>1 DEF Timeout, Disconnect
  <1>23. CASE Rerank
    BY <1>23 DEF Rerank, TypeOK, nodeVars, reqVars
  <1>24. CASE Tick
    <2>1. clock' \in 0 .. MaxClock
      BY <1>24, ClockAssumption DEF Tick, TypeOK
    <2>2. debt' \in [Node -> Nat]
      BY <1>24, <1>a DEF Tick
    <2> QED BY <1>24, <2>1, <2>2 DEF Tick, TypeOK, reqVars
  <1>25. CASE Horizon \/ UNCHANGED vars
    BY <1>25 DEF Horizon, TypeOK, vars, nodeVars, reqVars
  <1> QED
    BY <1>1, <1>2, <1>3, <1>4, <1>5, <1>6, <1>7, <1>8, <1>9, <1>10, <1>11, <1>12,
       <1>13, <1>14, <1>15, <1>16, <1>17, <1>18, <1>19, <1>20, <1>22, <1>23,
       <1>24, <1>25 DEF Next, Step

-----------------------------------------------------------------------------
(* The semaphores' queues *)

\* Steps that touch no queue: a permit is taken from a node that has one, and
\* the request that moves is parked neither before nor after.
LEMMA QueuesKept ==
    ASSUME IInv, NEW r \in Request, queue' = queue,
           \A n \in Node : permits'[n] = permits[n] \/ permits[n] > 0,
           pc[r] # "parked", pc'[r] # "parked",
           \A q \in Request \ {r} : pc'[q] = pc[q] /\ cur'[q] = cur[q]
    PROVE  Queues'
  <1>1. queue \in [Node -> Seq(Request)] /\ permits \in [Node -> Nat]
    BY DEF IInv, TypeOK
  <1>2. ASSUME NEW n \in Node PROVE QueueOK(n)'
    <2>1. QueueOK(n)
      BY DEF IInv, Queues
    <2>2. \A i \in DOMAIN queue[n] : queue[n][i] \in Request
      BY <1>1
    <2> QED BY <1>1, <2>1, <2>2 DEF QueueOK
  <1>3. ASSUME NEW q \in Request PROVE ParkedOK(q)'
    BY DEF IInv, Queues, ParkedOK
  <1> QED BY <1>2, <1>3 DEF Queues

\* A released permit goes to the first waiter, who leaves the queue.
LEMMA QueuesReleased ==
    ASSUME IInv, NEW r \in Request, NEW n \in Node, NEW next \in Pc \ {"parked"},
           pc[r] # "parked", Release(r, n, next),
           \A q \in Request \ {r} : cur'[q] = cur[q]
    PROVE  Queues'
  <1>1. queue \in [Node -> Seq(Request)] /\ permits \in [Node -> Nat] /\ pc \in [Request -> Pc]
    BY DEF IInv, TypeOK
  <1>2. \A m \in Node : QueueOK(m) /\ \A i \in DOMAIN queue[m] : queue[m][i] \in Request
    BY <1>1 DEF IInv, Queues
  <1>3. \A q \in Request : ParkedOK(q)
    BY DEF IInv, Queues
  <1>4. CASE queue[n] = <<>>
    <2>1. /\ permits' = [permits EXCEPT ![n] = @ + 1]
          /\ pc' = [pc EXCEPT ![r] = next]
          /\ queue' = queue
      BY <1>4 DEF Release
    <2>2. ASSUME NEW m \in Node PROVE QueueOK(m)'
      <3>1. \A i \in DOMAIN queue[m] : queue[m][i] \in Request /\ queue[m][i] # r
        BY <1>2 DEF QueueOK
      <3>2. \A i \in DOMAIN queue[m] : pc'[queue[m][i]] = "parked" /\ cur'[queue[m][i]] = m
        BY <1>1, <1>2, <2>1, <3>1 DEF QueueOK
      <3>3. queue[m] # <<>> => permits'[m] = 0
        BY <1>1, <1>2, <1>4, <2>1 DEF QueueOK
      <3> QED BY <1>2, <2>1, <3>2, <3>3 DEF QueueOK
    <2>3. ASSUME NEW q \in Request PROVE ParkedOK(q)'
      BY <1>1, <1>3, <2>1 DEF ParkedOK
    <2> QED BY <2>2, <2>3 DEF Queues
  <1>5. CASE queue[n] # <<>>
    <2> DEFINE h == Head(queue[n])
    <2>1. /\ pc' = [pc EXCEPT ![r] = next, ![h] = "granted"]
          /\ queue' = [queue EXCEPT ![n] = Tail(@)]
          /\ permits' = permits
      BY <1>5 DEF Release
    <2>2. /\ Len(queue[n]) \in Nat \ {0} /\ DOMAIN queue[n] = 1 .. Len(queue[n])
          /\ h = queue[n][1]
          /\ DOMAIN Tail(queue[n]) = 1 .. Len(queue[n]) - 1
          /\ \A i \in 1 .. Len(queue[n]) - 1 : Tail(queue[n])[i] = queue[n][i + 1]
      BY <1>1, <1>5
    <2>3. h \in Request /\ pc[h] = "parked" /\ cur[h] = n
      BY <1>2, <2>2 DEF QueueOK
    <2> HIDE DEF h
    <2>4. ASSUME NEW m \in Node PROVE QueueOK(m)'
      <3>1. CASE m = n
        <4>1. queue'[m] = Tail(queue[n]) /\ permits'[m] = permits[n]
          BY <1>1, <2>1, <3>1
        <4>2. \A i \in DOMAIN queue'[m] :
                 /\ queue'[m][i] = queue[n][i + 1] /\ i + 1 \in DOMAIN queue[n]
                 /\ queue[n][i + 1] \in Request
                 /\ queue[n][i + 1] # h /\ queue[n][i + 1] # r
          <5>1. SUFFICES ASSUME NEW i \in 1 .. Len(queue[n]) - 1
                         PROVE  /\ queue'[m][i] = queue[n][i + 1] /\ i + 1 \in DOMAIN queue[n]
                                /\ queue[n][i + 1] \in Request
                                /\ queue[n][i + 1] # h /\ queue[n][i + 1] # r
            BY <2>2, <4>1
          <5>2. queue'[m][i] = queue[n][i + 1] /\ i + 1 \in DOMAIN queue[n] /\ i + 1 # 1
                /\ 1 \in DOMAIN queue[n]
            BY <2>2, <4>1
          <5> QED BY <1>2, <2>2, <5>2 DEF QueueOK
        <4>3. \A i \in DOMAIN queue'[m] : pc'[queue'[m][i]] = "parked" /\ cur'[queue'[m][i]] = m
          <5>1. SUFFICES ASSUME NEW i \in DOMAIN queue'[m]
                         PROVE  pc'[queue'[m][i]] = "parked" /\ cur'[queue'[m][i]] = m
            OBVIOUS
          <5> DEFINE x == queue[n][i + 1]
          <5>2. queue'[m][i] = x /\ x \in Request /\ x # h /\ x # r
            BY <4>2
          <5>3. pc[x] = "parked" /\ cur[x] = n
            BY <1>2, <4>2 DEF QueueOK
          <5> HIDE DEF x
          <5> QED BY <1>1, <2>1, <3>1, <5>2, <5>3
        <4>4. \A i, j \in DOMAIN queue'[m] : queue'[m][i] = queue'[m][j] => i = j
          <5>1. SUFFICES ASSUME NEW i \in DOMAIN queue'[m], NEW j \in DOMAIN queue'[m],
                                queue'[m][i] = queue'[m][j]
                         PROVE  i = j
            OBVIOUS
          <5>2. i + 1 = j + 1
            BY <1>2, <4>2, <5>1 DEF QueueOK
          <5>3. i \in Nat /\ j \in Nat
            BY <2>2, <4>1
          <5> QED BY <5>2, <5>3
        <4>5. permits'[m] = 0
          BY <1>2, <1>5, <4>1 DEF QueueOK
        <4> QED BY <4>3, <4>4, <4>5 DEF QueueOK
      <3>2. CASE m # n
        <4>1. queue'[m] = queue[m] /\ permits'[m] = permits[m]
          BY <1>1, <2>1, <3>2
        <4>2. \A i \in DOMAIN queue[m] : /\ queue[m][i] \in Request
                                         /\ queue[m][i] # h /\ queue[m][i] # r
          BY <1>2, <2>3, <3>2 DEF QueueOK
        <4>3. \A i \in DOMAIN queue[m] : pc'[queue[m][i]] = "parked" /\ cur'[queue[m][i]] = m
          BY <1>1, <1>2, <2>1, <4>2 DEF QueueOK
        <4> QED BY <1>2, <4>1, <4>3 DEF QueueOK
      <3> QED BY <3>1, <3>2
    <2>5. ASSUME NEW q \in Request, pc'[q] = "parked"
          PROVE  \E i \in DOMAIN queue'[cur'[q]] : queue'[cur'[q]][i] = q
      <3>1. q # r /\ q # h /\ pc[q] = "parked" /\ cur'[q] = cur[q]
        BY <1>1, <2>1, <2>3, <2>5
      <3>2. PICK i \in DOMAIN queue[cur[q]] : queue[cur[q]][i] = q
        BY <1>3, <3>1 DEF ParkedOK
      <3>3. CASE cur[q] = n
        <4>1. i # 1 /\ i - 1 \in DOMAIN Tail(queue[n])
          BY <2>2, <3>1, <3>2, <3>3
        <4>2. Tail(queue[n])[i - 1] = q
          BY <2>2, <3>2, <3>3, <4>1
        <4>3. queue'[cur'[q]] = Tail(queue[n])
          BY <1>1, <2>1, <3>1, <3>3
        <4> QED BY <4>1, <4>2, <4>3
      <3>4. CASE cur[q] # n
        BY <1>1, <2>1, <3>1, <3>2, <3>4
      <3> QED BY <3>3, <3>4
    <2> QED BY <2>4, <2>5 DEF Queues, ParkedOK
  <1> QED BY <1>4, <1>5

\* The last step of a wait: the request joins the queue of a node that has no
\* permit left.
LEMMA QueuesJoined ==
    ASSUME IInv, NEW r \in Request, NEW n \in Node, pc[r] # "parked", permits[n] = 0,
           queue' = [queue EXCEPT ![n] = Append(@, r)], permits' = permits,
           pc' = [pc EXCEPT ![r] = "parked"], cur' = [cur EXCEPT ![r] = n]
    PROVE  Queues'
  <1>1. /\ queue \in [Node -> Seq(Request)] /\ pc \in [Request -> Pc]
        /\ cur \in [Request -> Node \union {NoNode}]
    BY DEF IInv, TypeOK
  <1>2. \A m \in Node : QueueOK(m) /\ \A i \in DOMAIN queue[m] : queue[m][i] \in Request
    BY <1>1 DEF IInv, Queues
  <1>3. \A m \in Node : \A i \in DOMAIN queue[m] :
           /\ queue[m][i] # r
           /\ pc'[queue[m][i]] = "parked" /\ cur'[queue[m][i]] = m
    <2> SUFFICES ASSUME NEW m \in Node, NEW i \in DOMAIN queue[m]
                 PROVE  /\ queue[m][i] # r
                        /\ pc'[queue[m][i]] = "parked" /\ cur'[queue[m][i]] = m
      OBVIOUS
    <2> DEFINE x == queue[m][i]
    <2>1. x \in Request /\ pc[x] = "parked" /\ cur[x] = m
      BY <1>2 DEF QueueOK
    <2> HIDE DEF x
    <2>2. x # r /\ pc'[x] = "parked" /\ cur'[x] = m
      BY <1>1, <2>1
    <2> QED BY <2>2 DEF x
  <1>4. LET k == Len(queue[n]) IN
        /\ k \in Nat /\ DOMAIN queue[n] = 1 .. k /\ DOMAIN queue'[n] = 1 .. k + 1
        /\ queue'[n][k + 1] = r
        /\ \A i \in 1 .. k : queue'[n][i] = queue[n][i]
    BY <1>1
  <1>5. ASSUME NEW m \in Node PROVE QueueOK(m)'
    <2>1. CASE m # n
      <3>1. queue'[m] = queue[m] /\ permits'[m] = permits[m]
        BY <1>1, <2>1
      <3>2. \A i \in DOMAIN queue'[m] : pc'[queue'[m][i]] = "parked" /\ cur'[queue'[m][i]] = m
        <4> SUFFICES ASSUME NEW i \in DOMAIN queue'[m]
                     PROVE  pc'[queue'[m][i]] = "parked" /\ cur'[queue'[m][i]] = m
          BY Zenon
        <4>1. i \in DOMAIN queue[m] /\ queue'[m][i] = queue[m][i]
          BY <3>1, Zenon
        <4>2. pc'[queue[m][i]] = "parked" /\ cur'[queue[m][i]] = m
          BY <1>3, <4>1, Zenon
        <4> QED BY <4>1, <4>2, Zenon
      <3>3. /\ \A i, j \in DOMAIN queue'[m] : queue'[m][i] = queue'[m][j] => i = j
            /\ queue'[m] # <<>> => permits'[m] = 0
        BY <1>2, <3>1 DEF QueueOK
      <3> QED BY <3>2, <3>3 DEF QueueOK
    <2>2. CASE m = n
      <3> DEFINE k == Len(queue[n])
      <3>1. /\ k \in Nat /\ DOMAIN queue[n] = 1 .. k /\ DOMAIN queue'[n] = 1 .. k + 1
            /\ queue'[n][k + 1] = r
            /\ \A i \in 1 .. k : queue'[n][i] = queue[n][i] /\ queue[n][i] # r
        BY <1>3, <1>4
      <3> HIDE DEF k
      <3>2. pc'[r] = "parked" /\ cur'[r] = n
        BY <1>1
      <3>3. \A i \in 1 .. k + 1 : i \in 1 .. k \/ i = k + 1
        BY <3>1
      <3>4. \A i \in DOMAIN queue'[n] : pc'[queue'[n][i]] = "parked" /\ cur'[queue'[n][i]] = n
        BY <1>3, <3>1, <3>2, <3>3
      <3>5. \A i, j \in DOMAIN queue'[n] : queue'[n][i] = queue'[n][j] => i = j
        <4> SUFFICES ASSUME NEW i \in 1 .. k + 1, NEW j \in 1 .. k + 1,
                            queue'[n][i] = queue'[n][j]
                     PROVE  i = j
          BY <3>1
        <4>1. CASE i \in 1 .. k /\ j \in 1 .. k
          BY <1>2, <3>1, <4>1 DEF QueueOK
        <4>2. CASE i = k + 1 \/ j = k + 1
          BY <3>1, <3>3, <4>2
        <4> QED BY <3>3, <4>1, <4>2
      <3> QED BY <2>2, <3>4, <3>5 DEF QueueOK
    <2> QED BY <2>1, <2>2
  <1>6. ASSUME NEW q \in Request PROVE ParkedOK(q)'
    <2>1. CASE q = r
      <3>1. cur'[q] = n
        BY <1>1, <2>1
      <3>2. Len(queue[n]) + 1 \in DOMAIN queue'[n] /\ queue'[n][Len(queue[n]) + 1] = q
        BY <1>4, <2>1
      <3>3. \E i \in DOMAIN queue'[n] : queue'[n][i] = q
        BY <3>2
      <3> QED BY <3>1, <3>3 DEF ParkedOK
    <2>2. CASE q # r
      <3>1. pc'[q] = pc[q] /\ cur'[q] = cur[q]
        BY <1>1, <2>2
      <3>2. SUFFICES ASSUME pc[q] = "parked"
                     PROVE  \E i \in DOMAIN queue'[cur[q]] : queue'[cur[q]][i] = q
        BY <3>1 DEF ParkedOK
      <3>3. PICK i \in DOMAIN queue[cur[q]] : queue[cur[q]][i] = q
        BY <3>2 DEF IInv, Queues, ParkedOK
      <3>4. CASE cur[q] = n
        BY <1>4, <3>3, <3>4
      <3>5. CASE cur[q] # n
        BY <1>1, <3>3, <3>5
      <3> QED BY <3>4, <3>5
    <2> QED BY <2>1, <2>2
  <1> QED BY <1>5, <1>6 DEF Queues

\* A cancelled waiter leaves its queue and nobody else's place is lost.
LEMMA QueuesLeft ==
    ASSUME IInv, NEW r \in Request, pc[r] = "parked", LeaveQueue(r), permits' = permits,
           pc' = [pc EXCEPT ![r] = "done"],
           \A q \in Request \ {r} : cur'[q] = cur[q]
    PROVE  Queues'
  <1> DEFINE n == cur[r]
  <1>1. /\ queue \in [Node -> Seq(Request)] /\ pc \in [Request -> Pc] /\ n \in Node
    BY DEF IInv, TypeOK, Places, PlaceOK, OnNode
  <1>2. \A m \in Node : QueueOK(m) /\ \A i \in DOMAIN queue[m] : queue[m][i] \in Request
    BY <1>1 DEF IInv, Queues
  <1>3. PICK k \in DOMAIN queue[n] :
           queue[n][k] = r /\ queue' = [queue EXCEPT ![n] = Without(@, k)]
    BY DEF LeaveQueue
  <1> DEFINE old(i) == IF i < k THEN i ELSE i + 1
             len == Len(queue[n])
  <1>4. /\ len \in Nat \ {0} /\ DOMAIN queue[n] = 1 .. len /\ k \in 1 .. len
        /\ DOMAIN queue'[n] = 1 .. len - 1
        /\ \A i \in 1 .. len - 1 : queue'[n][i] = queue[n][old(i)]
    <2>1. /\ DOMAIN Without(queue[n], k) = 1 .. len - 1
          /\ \A j \in 1 .. len - 1 :
                 Without(queue[n], k)[j] = IF j < k THEN queue[n][j] ELSE queue[n][j + 1]
      BY <1>1, <1>3, WithoutWaiter
    <2>2. queue'[n] = Without(queue[n], k)
      BY <1>1, <1>3
    <2> QED BY <1>1, <1>3, <2>1, <2>2
  <1> HIDE DEF n, len
  <1>5. \A i \in 1 .. len - 1 : old(i) \in 1 .. len /\ old(i) # k
    BY <1>4
  <1>6. \A i, j \in 1 .. len - 1 : old(i) = old(j) => i = j
    BY <1>4
  <1>7. \A j \in 1 .. len : j # k => \E i \in 1 .. len - 1 : old(i) = j
    <2> SUFFICES ASSUME NEW j \in 1 .. len, j # k
                 PROVE  \E i \in 1 .. len - 1 : old(i) = j
      OBVIOUS
    <2>1. CASE j < k
      <3>1. j \in 1 .. len - 1 /\ old(j) = j
        BY <1>4, <2>1
      <3> QED BY <3>1
    <2>2. CASE j > k
      <3>1. j - 1 \in 1 .. len - 1 /\ old(j - 1) = j
        BY <1>4, <2>2
      <3> QED BY <3>1
    <2> QED BY <1>4, <2>1, <2>2
  <1> HIDE DEF old
  <1>8. ASSUME NEW m \in Node, NEW i \in DOMAIN queue[m], queue[m][i] # r
        PROVE  pc'[queue[m][i]] = "parked" /\ cur'[queue[m][i]] = m
    <2> DEFINE x == queue[m][i]
    <2>1. x \in Request /\ pc[x] = "parked" /\ cur[x] = m /\ x # r
      BY <1>2, <1>8 DEF QueueOK
    <2> HIDE DEF x
    <2>2. pc'[x] = "parked" /\ cur'[x] = m
      BY <1>1, <2>1
    <2> QED BY <2>2 DEF x
  <1>9. ASSUME NEW m \in Node PROVE QueueOK(m)'
    <2>1. CASE m # n
      <3>1. queue'[m] = queue[m]
        BY <1>1, <1>3, <2>1
      <3>2. \A i \in DOMAIN queue[m] : queue[m][i] # r
        BY <1>2, <2>1 DEF QueueOK, n
      <3> QED BY <1>2, <1>8, <3>1, <3>2 DEF QueueOK
    <2>2. CASE m = n
      <3>1. \A i \in 1 .. len - 1 : queue[n][old(i)] # r
        BY <1>1, <1>2, <1>3, <1>4, <1>5 DEF QueueOK
      <3>2. \A i \in DOMAIN queue'[n] : pc'[queue'[n][i]] = "parked" /\ cur'[queue'[n][i]] = n
        <4> SUFFICES ASSUME NEW i \in 1 .. len - 1
                     PROVE  pc'[queue'[n][i]] = "parked" /\ cur'[queue'[n][i]] = n
          BY <1>4
        <4>1. queue'[n][i] = queue[n][old(i)] /\ old(i) \in DOMAIN queue[n]
          BY <1>4, <1>5
        <4> QED BY <1>1, <1>8, <3>1, <4>1
      <3>3. \A i, j \in DOMAIN queue'[n] : queue'[n][i] = queue'[n][j] => i = j
        <4> SUFFICES ASSUME NEW i \in 1 .. len - 1, NEW j \in 1 .. len - 1,
                            queue'[n][i] = queue'[n][j]
                     PROVE  i = j
          BY <1>4
        <4>1. queue[n][old(i)] = queue[n][old(j)]
          BY <1>4
        <4>2. old(i) \in DOMAIN queue[n] /\ old(j) \in DOMAIN queue[n]
          BY <1>4, <1>5
        <4>3. old(i) = old(j)
          BY <1>1, <1>2, <4>1, <4>2 DEF QueueOK
        <4> QED BY <1>6, <4>3
      <3>4. permits'[n] = 0
        BY <1>1, <1>2, <1>3 DEF QueueOK
      <3> QED BY <2>2, <3>2, <3>3, <3>4 DEF QueueOK
    <2> QED BY <2>1, <2>2
  <1>10. ASSUME NEW q \in Request, pc'[q] = "parked"
         PROVE  \E i \in DOMAIN queue'[cur'[q]] : queue'[cur'[q]][i] = q
    <2>1. q # r /\ pc[q] = "parked" /\ cur'[q] = cur[q]
      BY <1>1, <1>10
    <2>2. PICK j \in DOMAIN queue[cur[q]] : queue[cur[q]][j] = q
      BY <2>1 DEF IInv, Queues, ParkedOK
    <2>3. CASE cur[q] = n
      <3>1. PICK i \in 1 .. len - 1 : old(i) = j
        BY <1>3, <1>4, <1>7, <2>1, <2>2, <2>3
      <3> QED BY <1>4, <2>1, <2>2, <2>3, <3>1
    <2>4. CASE cur[q] # n
      BY <1>1, <1>3, <2>1, <2>2, <2>4
    <2> QED BY <2>3, <2>4
  <1> QED BY <1>9, <1>10 DEF Queues, ParkedOK

-----------------------------------------------------------------------------
(* The place of a request, and its attempts *)

LocalOK(r) == PlaceOK(r) /\ SaturatedOK(r) /\ SentOK(r)

\* A step of r leaves the locals of the others alone, and at most hands one of
\* them a permit.
OthersStay(r) ==
    \A q \in Request \ {r} :
        /\ round'[q] = round[q] /\ req'[q] = req[q] /\ cur'[q] = cur[q]
        /\ via'[q] = via[q] /\ sent'[q] = sent[q]
        /\ pc'[q] = pc[q] \/ (pc[q] = "parked" /\ pc'[q] = "granted")

\* If r keeps what is said of it, so does everyone a step of r leaves alone.
LEMMA OthersKeepPlace ==
    ASSUME IInv, NEW r \in Request, OthersStay(r), LocalOK(r)'
    PROVE  Places' /\ Attempts'
  <1>1. ASSUME NEW q \in Request \ {r} PROVE LocalOK(q)'
    <2>1. LocalOK(q)
      BY DEF IInv, Places, Attempts, LocalOK
    <2>2. PlaceOK(q)'
      BY <2>1 DEF OthersStay, LocalOK, PlaceOK, OnNode, At
    <2>3. SaturatedOK(q)'
      BY <2>1 DEF OthersStay, LocalOK, PlaceOK, SaturatedOK, OnNode
    <2>4. SentOK(q)'
      BY <2>1 DEF OthersStay, LocalOK, SentOK
    <2> QED BY <2>2, <2>3, <2>4 DEF LocalOK
  <1> QED BY <1>1 DEF Places, Attempts, LocalOK

\* A request that has ended is nowhere.
LEMMA ClosedPlace ==
    ASSUME TypeOK, NEW r \in Request, NEW a \in Answer, Close(r, a), pc'[r] = "done"
    PROVE  LocalOK(r)'
  <1>1. round'[r] = NoRound /\ sent'[r] = Nothing
    BY DEF Close, TypeOK
  <1>2. PlaceOK(r)' /\ SaturatedOK(r)'
    BY <1>1 DEF PlaceOK, SaturatedOK, NoRound, OnNode
  <1>3. SentOK(r)'
    BY <1>1 DEF SentOK, Nothing
  <1> QED BY <1>2, <1>3 DEF LocalOK

\* The end of r is not seen by the others, but for a permit handed on.
LEMMA ClosedOthers ==
    ASSUME TypeOK, NEW r \in Request, NEW a \in Answer, Close(r, a),
           \A q \in Request \ {r} :
              pc'[q] = pc[q] \/ (pc[q] = "parked" /\ pc'[q] = "granted")
    PROVE  OthersStay(r)
  BY DEF Close, TypeOK, OthersStay

\* On the walk, moving past a node keeps what was found before it.
LEMMA WalkedPast ==
    ASSUME IInv, NEW r \in Request, via[r] = "walk", pc[r] \in OnNode \union {"walk"},
           pc'[r] = "walk", via'[r] = "walk",
           round'[r].walk = round[r].walk, round'[r].pos = round[r].pos + 1,
           round'[r].saturated = round[r].saturated,
           req'[r].tried = req[r].tried \/
              (pc[r] # "walk" /\ req'[r].tried = req[r].tried \union {cur[r]})
    PROVE  PlaceOK(r)' /\ SaturatedOK(r)'
  <1>1. PlaceOK(r) /\ SaturatedOK(r) /\ round[r] \in RoundLocals
    BY DEF IInv, Places, TypeOK
  <1>2. round[r].pos \in Nat /\ round[r].walk \in {<<>>} \union Orders
    BY <1>1 DEF RoundLocals
  <1>3. PlaceOK(r)'
    BY <1>1, <1>2 DEF PlaceOK, OnNode
  <1>4. ASSUME round[r].saturated # NoNode
        PROVE  /\ round[r].saturated \notin req'[r].tried
               /\ \E i \in 1 .. Len(round[r].walk) :
                     i < round[r].pos + 1 /\ round[r].walk[i] = round[r].saturated
    <2>1. PICK i \in 1 .. Len(round[r].walk) :
             i < round[r].pos /\ round[r].walk[i] = round[r].saturated
      BY <1>1, <1>4 DEF SaturatedOK
    <2>2. round[r].saturated \notin req[r].tried
      BY <1>1, <1>4 DEF SaturatedOK
    <2>3. pc[r] # "walk" => round[r].saturated # cur[r]
      <3> SUFFICES ASSUME pc[r] # "walk" PROVE round[r].saturated # cur[r]
        OBVIOUS
      <3>1. cur[r] = round[r].walk[round[r].pos] /\ round[r].pos \in 1 .. Len(round[r].walk)
        BY <1>1, <1>2 DEF PlaceOK, At
      <3>2. round[r].walk \in Orders
        BY <1>2, <2>1
      <3> QED BY <2>1, <3>1, <3>2, OrderIsWalk
    <2> QED BY <1>2, <2>1, <2>2, <2>3
  <1>5. SaturatedOK(r)'
    BY <1>4 DEF SaturatedOK
  <1> QED BY <1>3, <1>5

-----------------------------------------------------------------------------
(* One lemma per group of actions: where the request goes, and what happens to *)
(* the queues.                                                                 *)

Kept == Places' /\ Attempts' /\ Queues'

\* Steps of r alone: no queue, no permit, no other request is touched.
Alone(r) ==
    /\ queue' = queue /\ permits' = permits
    /\ pc[r] # "parked" /\ pc'[r] # "parked"
    /\ \A q \in Request \ {r} : pc'[q] = pc[q]

\* Such a step preserves all three parts.
LEMMA AloneKeeps ==
    ASSUME IInv, NEW r \in Request, Alone(r), OthersStay(r), LocalOK(r)'
    PROVE  Kept
  <1>1. Queues'
    <2>1. \A n \in Node : permits'[n] = permits[n] \/ permits[n] > 0
      BY DEF Alone
    <2> QED BY <2>1, QueuesKept DEF Alone, OthersStay
  <1> QED BY <1>1, OthersKeepPlace DEF Kept

\* Arrival, rejection, the start of a round, a sleep, waking up, failing open
\* and giving up: r holds nothing.
LEMMA RoundsKeep ==
    ASSUME IInv, NEW r \in Request,
           \/ \E m \in Method : Arrive(r, m)
           \/ RejectBody(r) \/ StartRound(r) \/ SleepOnRateLimit(r) \/ Wake(r)
           \/ FailOpen(r) \/ AllNodesFailed(r)
    PROVE  Kept
  <1> USE DEF IInv
  <1>a. LocalOK(r)
    BY DEF Places, Attempts, LocalOK
  <1>1. ASSUME NEW m \in Method, Arrive(r, m) PROVE Kept
    <2>1. /\ pc'[r] = "round" /\ req'[r].tried = {} /\ req[r].tried = {}
          /\ round' = round /\ sent' = sent
      BY <1>1, <1>a DEF Arrive, TypeOK, LocalOK, PlaceOK
    <2>2. LocalOK(r)'
      BY <1>a, <2>1 DEF LocalOK, PlaceOK, SaturatedOK, SentOK, OnNode
    <2>3. Alone(r) /\ OthersStay(r)
      BY <1>1 DEF Arrive, TypeOK, Alone, OthersStay, nodeVars
    <2> QED BY <2>2, <2>3, AloneKeeps
  <1>2. ASSUME RejectBody(r) PROVE Kept
    <2>1. pc'[r] = "done" /\ UNCHANGED <<req, round, sent>>
      BY <1>2 DEF RejectBody, TypeOK
    <2>2. LocalOK(r)'
      BY <1>a, <2>1 DEF LocalOK, PlaceOK, SaturatedOK, SentOK, OnNode
    <2>3. Alone(r) /\ OthersStay(r)
      BY <1>2 DEF RejectBody, TypeOK, Alone, OthersStay, nodeVars
    <2> QED BY <2>2, <2>3, AloneKeeps
  <1>3. ASSUME StartRound(r) PROVE Kept
    <2>1. /\ pc'[r] = "walk" /\ via'[r] = "walk"
          /\ round'[r].pos = 1 /\ round'[r].saturated = NoNode
          /\ UNCHANGED <<req, sent>>
      BY <1>3 DEF StartRound, TypeOK, NoRound
    <2>2. LocalOK(r)'
      BY <1>a, <2>1 DEF LocalOK, PlaceOK, SaturatedOK, SentOK, OnNode
    <2>3. Alone(r) /\ OthersStay(r)
      BY <1>3 DEF StartRound, TypeOK, Alone, OthersStay, nodeVars
    <2> QED BY <2>2, <2>3, AloneKeeps
  <1>4. ASSUME SleepOnRateLimit(r) \/ Wake(r) PROVE Kept
    <2>1. /\ pc'[r] \in {"sleep", "round"}
          /\ UNCHANGED <<req, round, sent>>
      BY <1>4 DEF SleepOnRateLimit, Wake, TypeOK
    <2>2. LocalOK(r)'
      BY <1>a, <2>1 DEF LocalOK, PlaceOK, SaturatedOK, SentOK, OnNode
    <2>3. Alone(r) /\ OthersStay(r)
      BY <1>4 DEF SleepOnRateLimit, Walked, Wake, TypeOK, Alone, OthersStay, nodeVars
    <2> QED BY <2>2, <2>3, AloneKeeps
  <1>5. ASSUME FailOpen(r) PROVE Kept
    <2>1. /\ pc'[r] = "round" /\ UNCHANGED <<round, sent>>
          /\ req'[r].tried = req[r].tried
      BY <1>5 DEF FailOpen, TypeOK, RequestLocals
    <2>2. LocalOK(r)'
      BY <1>a, <2>1 DEF LocalOK, PlaceOK, SaturatedOK, SentOK, OnNode
    <2>3. Alone(r) /\ OthersStay(r)
      BY <1>5 DEF FailOpen, NothingToWaitFor, Walked, TypeOK, Alone, OthersStay, nodeVars
    <2> QED BY <2>2, <2>3, AloneKeeps
  <1>6. ASSUME AllNodesFailed(r) PROVE Kept
    <2>1. /\ "AllNodesFailed" \in Answer /\ Close(r, "AllNodesFailed")
          /\ pc'[r] = "done" /\ \A q \in Request \ {r} : pc'[q] = pc[q]
      BY <1>6 DEF AllNodesFailed, Answer, TypeOK
    <2>2. LocalOK(r)' /\ OthersStay(r)
      BY <2>1, ClosedPlace, ClosedOthers
    <2>3. Alone(r)
      BY <1>6, <2>1 DEF AllNodesFailed, NothingToWaitFor, Walked, Alone, nodeVars
    <2> QED BY <2>2, <2>3, AloneKeeps
  <1> QED BY <1>1, <1>2, <1>3, <1>4, <1>5, <1>6

\* The walk: skips, and a permit taken.
LEMMA WalkKeeps ==
    ASSUME IInv, NEW r \in Request,
           SkipTried(r) \/ SkipPenalized(r) \/ SkipSaturated(r) \/ TakePermit(r)
    PROVE  Kept
  <1> USE DEF IInv
  <1>a. LocalOK(r) /\ pc[r] = "walk" /\ via[r] = "walk" /\ round[r] \in RoundLocals
    BY DEF Places, Attempts, LocalOK, PlaceOK, TypeOK, SkipTried, SkipPenalized,
           SkipSaturated, TakePermit, Walking
  <1>b. round[r].pos \in Nat /\ Walking(r)
    BY <1>a DEF RoundLocals, SkipTried, SkipPenalized, SkipSaturated, TakePermit
  <1>1. ASSUME SkipTried(r) \/ SkipPenalized(r) PROVE Kept
    <2>1. /\ UNCHANGED <<pc, req, cur, via, sent, queue, permits>>
          /\ round'[r].walk = round[r].walk /\ round'[r].pos = round[r].pos + 1
          /\ round'[r].saturated = round[r].saturated
          /\ \A q \in Request \ {r} : round'[q] = round[q]
      BY <1>1, <1>a DEF SkipTried, SkipPenalized, Advance, TypeOK, RoundLocals, nodeVars
    <2>2. PlaceOK(r)' /\ SaturatedOK(r)'
      BY <1>a, <2>1, WalkedPast
    <2>3. LocalOK(r)' /\ Alone(r) /\ OthersStay(r)
      BY <1>a, <2>1, <2>2 DEF LocalOK, SentOK, Alone, OthersStay
    <2> QED BY <2>3, AloneKeeps
  <1>2. ASSUME SkipSaturated(r) PROVE Kept
    <2>1. /\ UNCHANGED <<pc, req, cur, via, sent, queue, permits>>
          /\ round'[r].walk = round[r].walk /\ round'[r].pos = round[r].pos + 1
          /\ round'[r].saturated = IF round[r].saturated = NoNode
                                   THEN At(r) ELSE round[r].saturated
          /\ \A q \in Request \ {r} : round'[q] = round[q]
          /\ At(r) \notin req[r].tried
      BY <1>2 DEF SkipSaturated, TypeOK, RoundLocals, nodeVars
    <2>2. CASE round[r].saturated # NoNode
      <3>1. PlaceOK(r)' /\ SaturatedOK(r)'
        BY <1>a, <2>1, <2>2, WalkedPast
      <3>2. LocalOK(r)' /\ Alone(r) /\ OthersStay(r)
        BY <1>a, <2>1, <3>1 DEF LocalOK, SentOK, Alone, OthersStay
      <3> QED BY <3>2, AloneKeeps
    <2>3. CASE round[r].saturated = NoNode
      <3>1. PlaceOK(r)'
        BY <1>a, <1>b, <2>1 DEF LocalOK, PlaceOK, OnNode
      <3>2. /\ round[r].pos \in 1 .. Len(round[r].walk)
            /\ round[r].walk[round[r].pos] = At(r)
        BY <1>a, <1>b DEF LocalOK, PlaceOK, Walking, At
      <3>3. SaturatedOK(r)'
        BY <1>b, <2>1, <2>3, <3>2 DEF SaturatedOK
      <3>4. LocalOK(r)' /\ Alone(r) /\ OthersStay(r)
        BY <1>a, <2>1, <3>1, <3>3 DEF LocalOK, SentOK, Alone, OthersStay
      <3> QED BY <3>4, AloneKeeps
    <2> QED BY <2>2, <2>3
  <1>3. ASSUME TakePermit(r) PROVE Kept
    <2>1. /\ UNCHANGED <<req, round, via, sent, queue>>
          /\ pc'[r] = "rate" /\ cur'[r] = At(r) /\ At(r) \notin req[r].tried
          /\ \A q \in Request \ {r} : pc'[q] = pc[q] /\ cur'[q] = cur[q]
          /\ \A n \in Node : permits'[n] = permits[n] \/ permits[n] > 0
      BY <1>3 DEF TakePermit, TypeOK
    <2>2. At(r) \in Node
      BY <1>b, AtIsNode
    <2>3. PlaceOK(r)'
      BY <1>a, <1>b, <2>1, <2>2 DEF LocalOK, PlaceOK, OnNode, At, Walking
    <2>4. SaturatedOK(r)' /\ SentOK(r)'
      BY <1>a, <2>1 DEF LocalOK, SaturatedOK, SentOK
    <2>5. OthersStay(r) /\ LocalOK(r)'
      BY <2>1, <2>3, <2>4 DEF OthersStay, LocalOK
    <2>6. Queues'
      BY <1>a, <2>1, QueuesKept
    <2> QED BY <2>5, <2>6, OthersKeepPlace DEF Kept
  <1> QED BY <1>1, <1>2, <1>3

\* Admission with the permit in hand, up to the attempt.
LEMMA AdmissionKeeps ==
    ASSUME IInv, NEW r \in Request,
           TakeToken(r) \/ BookAccepted(r) \/ AddAndSend(r) \/ Granted(r)
    PROVE  Kept
  <1> USE DEF IInv
  <1>a. LocalOK(r) /\ cur[r] \in Node
    BY DEF Places, Attempts, LocalOK, PlaceOK, OnNode, TakeToken, BookAccepted,
           AddAndSend, Granted
  <1>1. ASSUME TakeToken(r) \/ BookAccepted(r) \/ Granted(r) PROVE Kept
    <2>1. /\ UNCHANGED <<req, round, cur, via, sent, queue, permits>>
          /\ pc[r] \in {"rate", "book", "granted"} /\ pc'[r] \in {"rate", "book", "add"}
          /\ \A q \in Request \ {r} : pc'[q] = pc[q]
      BY <1>1 DEF TakeToken, BookAccepted, Granted, TypeOK, nodeVars
    <2>2. PlaceOK(r)'
      BY <1>a, <2>1 DEF LocalOK, PlaceOK, OnNode, At
    <2>3. SaturatedOK(r)' /\ SentOK(r)'
      BY <1>a, <2>1 DEF LocalOK, SaturatedOK, SentOK, OnNode
    <2>4. LocalOK(r)' /\ Alone(r) /\ OthersStay(r)
      BY <2>1, <2>2, <2>3 DEF LocalOK, Alone, OthersStay
    <2> QED BY <2>4, AloneKeeps
  <1>2. ASSUME AddAndSend(r) PROVE Kept
    <2>1. /\ UNCHANGED <<round, cur, via, queue, permits>>
          /\ pc[r] = "add" /\ pc'[r] = "attempt"
          /\ \A q \in Request \ {r} : pc'[q] = pc[q] /\ req'[q] = req[q] /\ sent'[q] = sent[q]
          /\ req'[r].tried = req[r].tried \union {cur[r]}
      BY <1>2 DEF AddAndSend, MarkTried, TypeOK, RequestLocals
    <2>2. PlaceOK(r)'
      BY <1>a, <2>1 DEF LocalOK, PlaceOK, OnNode, At
    <2>3. SentOK(r)'
      <3>1. \A n \in Node : sent'[r][n] = IF n = cur[r] THEN sent[r][n] + 1 ELSE sent[r][n]
        BY <1>2, <1>a DEF AddAndSend, TypeOK
      <3>2. cur[r] \notin req[r].tried
        BY <1>a, <2>1 DEF LocalOK, PlaceOK, OnNode
      <3> QED BY <1>a, <2>1, <3>1, <3>2 DEF LocalOK, SentOK
    <2>4. SaturatedOK(r)'
      <3> SUFFICES ASSUME via[r] = "walk", round[r].saturated # NoNode
                   PROVE  /\ round[r].saturated \notin req'[r].tried
                          /\ \E i \in 1 .. Len(round[r].walk) :
                                i < round[r].pos /\ round[r].walk[i] = round[r].saturated
        BY <2>1 DEF SaturatedOK
      <3>1. /\ round[r].saturated \notin req[r].tried
            /\ \E i \in 1 .. Len(round[r].walk) :
                  i < round[r].pos /\ round[r].walk[i] = round[r].saturated
        BY <1>a, <2>1 DEF LocalOK, SaturatedOK, OnNode
      <3>2. /\ cur[r] = round[r].walk[round[r].pos]
            /\ round[r].pos >= 1 /\ round[r].pos <= Len(round[r].walk)
        BY <1>a, <2>1 DEF LocalOK, PlaceOK, OnNode, At
      <3>3. round[r].pos \in Nat /\ round[r].walk \in {<<>>} \union Orders
        BY DEF TypeOK, RoundLocals
      <3>4. round[r].walk \in Orders
        BY <3>1, <3>3
      <3>5. round[r].saturated # cur[r]
        BY <3>1, <3>2, <3>3, <3>4, OrderIsWalk
      <3> QED BY <2>1, <3>1, <3>5
    <2>5. LocalOK(r)' /\ Alone(r) /\ OthersStay(r)
      BY <2>1, <2>2, <2>3, <2>4 DEF LocalOK, Alone, OthersStay
    <2> QED BY <2>5, AloneKeeps
  <1> QED BY <1>1, <1>2

\* A request that gives its permit back and goes on: with the walk, or - after
\* a wait - with a sleep or a new round.
LEMMA MovedOnKeeps ==
    ASSUME IInv, NEW r \in Request, NEW next \in {"walk", "round", "sleep"},
           pc[r] \in OnNode \ {"granted", "parked"}, Release(r, cur[r], next),
           next = "walk" => via[r] = "walk" /\ round'[r].pos = round[r].pos + 1,
           round'[r].walk = round[r].walk, round'[r].pos >= 1,
           round'[r].saturated = round[r].saturated,
           \/ req'[r].tried = req[r].tried
           \/ req'[r].tried = req[r].tried \union {cur[r]},
           via' = via, sent' = sent,
           \A q \in Request \ {r} :
              round'[q] = round[q] /\ req'[q] = req[q] /\ cur'[q] = cur[q]
    PROVE  Kept
  <1> USE DEF IInv
  <1>1. LocalOK(r) /\ cur[r] \in Node
    BY DEF Places, Attempts, LocalOK, PlaceOK
  <1>2. next \in Pc \ {"parked"} /\ pc[r] # "parked"
    BY DEF Pc, Await
  <1>3. /\ pc'[r] = next
        /\ \A q \in Request \ {r} :
              pc'[q] = pc[q] \/ (pc[q] = "parked" /\ pc'[q] = "granted")
    BY <1>1, <1>2, ReleaseMoves
  <1>4. OthersStay(r)
    BY <1>3 DEF OthersStay
  <1>5. Queues'
    BY <1>1, <1>2, QueuesReleased
  <1>6. SentOK(r)'
    BY <1>1 DEF LocalOK, SentOK
  <1>7. PlaceOK(r)' /\ SaturatedOK(r)'
    <2>1. CASE next = "walk"
      <3>1. pc[r] # "walk" /\ pc[r] \in OnNode \union {"walk"}
        BY DEF OnNode
      <3> QED BY <1>3, <2>1, <3>1, WalkedPast
    <2>2. CASE next # "walk"
      BY <1>3, <2>2 DEF PlaceOK, SaturatedOK, OnNode
    <2> QED BY <2>1, <2>2
  <1> QED BY <1>4, <1>5, <1>6, <1>7, OthersKeepPlace DEF Kept, LocalOK

\* A node that is rate-limited or refuses the request gets its permit back.
LEMMA RefusalsKeep ==
    ASSUME IInv, NEW r \in Request, RateLimited(r) \/ BookRefused(r)
    PROVE  Kept
  <1> USE DEF IInv
  <1>a. LocalOK(r) /\ round[r].pos \in Nat /\ via[r] \in {"walk", "wait"}
    BY DEF Places, Attempts, LocalOK, TypeOK, RoundLocals
  <1>b. round[r].pos >= 1
    BY <1>a DEF LocalOK, PlaceOK
  <1>1. ASSUME RateLimited(r) PROVE Kept
    <2>1. /\ pc[r] = "rate" /\ UNCHANGED <<req, via, sent>>
          /\ \A q \in Request \ {r} : cur'[q] = cur[q]
      BY <1>1 DEF RateLimited, TypeOK
    <2>2. CASE via[r] = "walk"
      <3>1. /\ Release(r, cur[r], "walk")
            /\ round'[r].walk = round[r].walk /\ round'[r].pos = round[r].pos + 1
            /\ round'[r].saturated = round[r].saturated
            /\ \A q \in Request \ {r} : round'[q] = round[q]
        BY <1>1, <2>2 DEF RateLimited, TypeOK, RoundLocals
      <3> QED BY <1>a, <2>1, <2>2, <3>1, MovedOnKeeps DEF OnNode
    <2>3. CASE via[r] = "wait"
      <3>1. Release(r, cur[r], "sleep") /\ round' = round
        BY <1>1, <2>3 DEF RateLimited
      <3> QED BY <1>b, <2>1, <3>1, MovedOnKeeps DEF OnNode
    <2> QED BY <1>a, <2>2, <2>3
  <1>2. ASSUME BookRefused(r) PROVE Kept
    <2>1. /\ pc[r] = "book" /\ UNCHANGED <<via, sent>>
          /\ Release(r, cur[r], MoveOn(r))
          /\ req'[r].tried = req[r].tried \union {cur[r]}
          /\ \A q \in Request \ {r} : req'[q] = req[q] /\ cur'[q] = cur[q] /\ round'[q] = round[q]
      BY <1>2 DEF BookRefused, MarkTried, Advance, TypeOK, RequestLocals
    <2>2. /\ round'[r].walk = round[r].walk /\ round'[r].saturated = round[r].saturated
          /\ round'[r].pos = IF via[r] = "walk" THEN round[r].pos + 1 ELSE round[r].pos
      BY <1>2 DEF BookRefused, Advance, TypeOK, RoundLocals
    <2>3. MoveOn(r) = IF via[r] = "walk" THEN "walk" ELSE "round"
      BY DEF MoveOn
    <2> QED BY <1>a, <1>b, <2>1, <2>2, <2>3, MovedOnKeeps DEF OnNode
  <1> QED BY <1>1, <1>2

\* A response, a failure or the attempt's deadline.
LEMMA AttemptKeeps ==
    ASSUME IInv, NEW r \in Request, NEW v \in Verdicts, AttemptEnds(r, v)
    PROVE  Kept
  <1> USE DEF IInv
  <1>a. /\ LocalOK(r) /\ round[r].pos \in Nat /\ via[r] \in {"walk", "wait"}
        /\ pc[r] = "attempt" /\ cur[r] \in Node
    BY DEF Places, Attempts, LocalOK, TypeOK, RoundLocals, AttemptEnds, PlaceOK, OnNode
  <1>b. round[r].pos >= 1
    BY <1>a DEF LocalOK, PlaceOK
  <1>1. CASE v.attempt = "Done"
    <2>1. Release(r, cur[r], "done") /\ Close(r, "Forwarded") /\ "Forwarded" \in Answer
      BY <1>1 DEF AttemptEnds, Answer
    <2>2. /\ pc'[r] = "done"
          /\ \A q \in Request \ {r} :
                pc'[q] = pc[q] \/ (pc[q] = "parked" /\ pc'[q] = "granted")
      BY <1>a, <2>1, ReleaseMoves DEF Pc
    <2>3. OthersStay(r) /\ LocalOK(r)'
      BY <2>1, <2>2, ClosedPlace, ClosedOthers
    <2>4. Queues'
      BY <1>a, <2>1, <2>3, QueuesReleased DEF Pc, OthersStay
    <2> QED BY <2>3, <2>4, OthersKeepPlace DEF Kept
  <1>2. CASE v.attempt = "Retry"
    <2>1. /\ Release(r, cur[r], MoveOn(r)) /\ UNCHANGED <<req, via, sent>>
          /\ \A q \in Request \ {r} : cur'[q] = cur[q] /\ round'[q] = round[q]
      BY <1>2 DEF AttemptEnds, Advance, TypeOK
    <2>2. /\ round'[r].walk = round[r].walk /\ round'[r].saturated = round[r].saturated
          /\ round'[r].pos = IF via[r] = "walk" THEN round[r].pos + 1 ELSE round[r].pos
      BY <1>2 DEF AttemptEnds, Advance, TypeOK, RoundLocals
    <2>3. MoveOn(r) = IF via[r] = "walk" THEN "walk" ELSE "round"
      BY DEF MoveOn
    <2> QED BY <1>a, <1>b, <2>1, <2>2, <2>3, MovedOnKeeps DEF OnNode
  <1> QED BY <1>1, <1>2, VerdictsTyped

\* admit_waiting: a permit that has come free, or the end of the queue.
LEMMA WaitingKeeps ==
    ASSUME IInv, NEW r \in Request, AdmitWaiting(r)
    PROVE  Kept
  <1> USE DEF IInv
  <1> DEFINE n == round[r].saturated
  <1>a. LocalOK(r) /\ pc[r] = "walk" /\ via[r] = "walk" /\ n # NoNode
    BY DEF Places, Attempts, LocalOK, PlaceOK, AdmitWaiting, Walked
  <1>b. n \in Node /\ n \notin req[r].tried
    BY <1>a DEF TypeOK, RoundLocals, LocalOK, SaturatedOK
  <1>c. /\ UNCHANGED <<req, round, sent>> /\ cur' = [cur EXCEPT ![r] = n]
        /\ via'[r] = "wait" /\ cur'[r] = n
        /\ \A q \in Request \ {r} : via'[q] = via[q] /\ cur'[q] = cur[q]
    BY DEF AdmitWaiting, TypeOK
  <1>d. \/ /\ permits[n] > 0 /\ permits' = [permits EXCEPT ![n] = @ - 1]
           /\ pc' = [pc EXCEPT ![r] = "rate"] /\ queue' = queue
        \/ /\ permits[n] = 0 /\ queue' = [queue EXCEPT ![n] = Append(@, r)]
           /\ pc' = [pc EXCEPT ![r] = "parked"] /\ permits' = permits
    BY DEF AdmitWaiting
  <1> HIDE DEF n
  <1>e. pc'[r] \in {"rate", "parked"} /\ \A q \in Request \ {r} : pc'[q] = pc[q]
    BY <1>d DEF TypeOK
  <1>1. PlaceOK(r)'
    BY <1>a, <1>b, <1>c, <1>e DEF LocalOK, PlaceOK, OnNode
  <1>2. LocalOK(r)' /\ OthersStay(r)
    BY <1>a, <1>c, <1>e, <1>1 DEF LocalOK, SaturatedOK, SentOK, OthersStay
  <1>3. Queues'
    <2>1. CASE permits[n] > 0
      <3>1. /\ queue' = queue /\ pc'[r] # "parked"
            /\ \A m \in Node : permits'[m] = permits[m] \/ permits[m] > 0
        BY <1>b, <1>d, <2>1 DEF TypeOK
      <3> QED BY <1>a, <1>c, <1>e, <3>1, QueuesKept
    <2>2. CASE permits[n] = 0
      <3>1. /\ queue' = [queue EXCEPT ![n] = Append(@, r)] /\ permits' = permits
            /\ pc' = [pc EXCEPT ![r] = "parked"]
        BY <1>d, <2>2
      <3>2. cur' = [cur EXCEPT ![r] = n] /\ pc[r] # "parked"
        BY <1>a, <1>c
      <3> QED BY <1>b, <2>2, <3>1, <3>2, QueuesJoined, Zenon
    <2> QED BY <1>d, <2>1, <2>2
  <1> QED BY <1>2, <1>3, OthersKeepPlace DEF Kept

\* A future dropped where it awaits.
LEMMA CancelKeeps ==
    ASSUME IInv, NEW r \in Request, NEW a \in Answer, Cancel(r, a)
    PROVE  Kept
  <1> USE DEF IInv
  <1>a. Close(r, a) /\ \A q \in Request \ {r} : cur'[q] = cur[q]
    BY DEF Cancel, Close, TypeOK
  <1>1. CASE pc[r] \in {"attempt", "granted"}
    <2>1. Release(r, cur[r], "done") /\ cur[r] \in Node
      BY <1>1 DEF Cancel, Places, PlaceOK, OnNode
    <2>2. /\ pc'[r] = "done"
          /\ \A q \in Request \ {r} :
                pc'[q] = pc[q] \/ (pc[q] = "parked" /\ pc'[q] = "granted")
      BY <1>1, <2>1, ReleaseMoves DEF Pc
    <2>3. OthersStay(r) /\ LocalOK(r)'
      BY <1>a, <2>2, ClosedPlace, ClosedOthers
    <2>4. Queues'
      BY <1>a, <1>1, <2>1, QueuesReleased DEF Pc
    <2> QED BY <2>3, <2>4, OthersKeepPlace DEF Kept
  <1>2. CASE pc[r] = "parked"
    <2>1. LeaveQueue(r) /\ permits' = permits /\ pc' = [pc EXCEPT ![r] = "done"]
      BY <1>2 DEF Cancel
    <2>2. pc'[r] = "done" /\ \A q \in Request \ {r} : pc'[q] = pc[q]
      BY <2>1 DEF TypeOK
    <2>3. OthersStay(r) /\ LocalOK(r)'
      BY <1>a, <2>2, ClosedPlace, ClosedOthers
    <2>4. Queues'
      BY <1>a, <1>2, <2>1, QueuesLeft
    <2> QED BY <2>3, <2>4, OthersKeepPlace DEF Kept
  <1>3. CASE pc[r] = "sleep"
    <2>1. queue' = queue /\ permits' = permits /\ pc' = [pc EXCEPT ![r] = "done"]
      BY <1>3 DEF Cancel
    <2>2. pc'[r] = "done" /\ \A q \in Request \ {r} : pc'[q] = pc[q]
      BY <2>1 DEF TypeOK
    <2>3. OthersStay(r) /\ LocalOK(r)'
      BY <1>a, <2>2, ClosedPlace, ClosedOthers
    <2>4. Alone(r)
      BY <1>3, <2>1, <2>2 DEF Alone
    <2> QED BY <2>3, <2>4, AloneKeeps
  <1> QED BY <1>1, <1>2, <1>3 DEF Cancel

\* A new order, the passing of time and a stutter touch no request, queue or
\* permit.
LEMMA EnvironmentKeeps ==
    ASSUME IInv, Rerank \/ Tick \/ UNCHANGED vars
    PROVE  Kept
  <1>1. UNCHANGED <<pc, req, round, cur, via, sent, queue, permits>>
    BY DEF Rerank, Tick, vars, nodeVars, reqVars
  <1>2. Places'
    BY <1>1 DEF IInv, Places, PlaceOK, SaturatedOK, At
  <1>3. Attempts'
    BY <1>1 DEF IInv, Attempts, SentOK
  <1>4. Queues'
    BY <1>1 DEF IInv, Queues, QueueOK, ParkedOK
  <1> QED BY <1>2, <1>3, <1>4 DEF Kept

-----------------------------------------------------------------------------
(* The theorems *)

\* Before the first request nobody is on a node, queued or sent.
LEMMA InitInv == Init => IInv
  <1> SUFFICES ASSUME Init PROVE IInv
    OBVIOUS
  <1>1. /\ \A r \in Request : /\ pc[r] = "new" /\ req[r] = NoRequest /\ round[r] = NoRound
                              /\ sent[r] = Nothing
        /\ \A n \in Node : queue[n] = <<>>
    BY DEF Init
  <1>2. \A r \in Request :
           req[r].tried = {} /\ round[r].pos = 1 /\ round[r].saturated = NoNode
    <2>1. NoRequest.tried = {} /\ NoRound.pos = 1 /\ NoRound.saturated = NoNode
      BY Zenon DEF NoRequest, NoRound
    <2> QED BY <1>1, <2>1
  <1>3. Places
    BY <1>1, <1>2 DEF Places, PlaceOK, SaturatedOK, OnNode
  <1>4. Attempts
    BY <1>1 DEF Attempts, SentOK, Nothing
  <1>5. Queues
    BY <1>1 DEF Queues, QueueOK, ParkedOK
  <1> QED BY <1>3, <1>4, <1>5, TypeInit DEF IInv

\* Every step of every request and of the environment preserves the invariant.
LEMMA StepInv == IInv /\ [Next]_vars => IInv'
  <1> SUFFICES ASSUME IInv, [Next]_vars PROVE IInv'
    OBVIOUS
  <1>1. ASSUME NEW r \in Request, Step(r) PROVE Kept
    <2>1. CASE \/ StartRound(r) \/ SleepOnRateLimit(r) \/ Wake(r) \/ FailOpen(r)
               \/ AllNodesFailed(r)
      BY <2>1, RoundsKeep
    <2>2. CASE SkipTried(r) \/ SkipPenalized(r) \/ SkipSaturated(r) \/ TakePermit(r)
      BY <2>2, WalkKeeps
    <2>3. CASE TakeToken(r) \/ BookAccepted(r) \/ AddAndSend(r) \/ Granted(r)
      BY <2>3, AdmissionKeeps
    <2>4. CASE RateLimited(r) \/ BookRefused(r)
      BY <2>4, RefusalsKeep
    <2>5. CASE AttemptDeadline(r)
      BY <2>5, AttemptKeeps, TransportErrorIsVerdict DEF AttemptDeadline
    <2>6. CASE AdmitWaiting(r)
      BY <2>6, WaitingKeeps
    <2>7. CASE Timeout(r)
      BY <2>7, CancelKeeps DEF Timeout, Answer
    <2> QED BY <1>1, <2>1, <2>2, <2>3, <2>4, <2>5, <2>6, <2>7 DEF Step
  <1>2. ASSUME NEW r \in Request,
               (\E m \in Method : Arrive(r, m)) \/ RejectBody(r)
        PROVE  Kept
    BY <1>2, RoundsKeep
  <1>3. ASSUME NEW r \in Request, NEW v \in Verdicts, AttemptEnds(r, v) PROVE Kept
    BY <1>3, AttemptKeeps
  <1>4. ASSUME NEW r \in Request, Disconnect(r) PROVE Kept
    BY <1>4, CancelKeeps DEF Disconnect, Answer
  <1>5. ASSUME Rerank \/ Tick \/ Horizon \/ UNCHANGED vars PROVE Kept
    BY <1>5, EnvironmentKeeps DEF Horizon
  <1>6. Kept
    BY <1>1, <1>2, <1>3, <1>4, <1>5 DEF Next
  <1> QED BY <1>6, TypeStep DEF IInv, Kept

\* The invariant says more than the properties it was made for.
LEMMA InvImplies == IInv => TypeOK /\ WaitersQueued /\ OneAttemptPerNode
  <1> SUFFICES ASSUME IInv PROVE TypeOK /\ WaitersQueued /\ OneAttemptPerNode
    OBVIOUS
  <1>1. ASSUME NEW n \in Node
        PROVE  {queue[n][i] : i \in DOMAIN queue[n]}
                 = {r \in Request : pc[r] = "parked" /\ cur[r] = n}
    <2>1. \A i \in DOMAIN queue[n] :
             queue[n][i] \in Request /\ pc[queue[n][i]] = "parked" /\ cur[queue[n][i]] = n
      BY DEF IInv, TypeOK, Queues, QueueOK
    <2>2. \A r \in Request :
             pc[r] = "parked" /\ cur[r] = n => \E i \in DOMAIN queue[n] : queue[n][i] = r
      BY DEF IInv, Queues, ParkedOK
    <2> QED BY <2>1, <2>2
  <1>2. WaitersQueued
    BY <1>1 DEF WaitersQueued, IInv, Queues, QueueOK
  <1>3. OneAttemptPerNode
    BY DEF OneAttemptPerNode, IInv, Attempts, SentOK
  <1> QED BY <1>2, <1>3 DEF IInv

\* Whatever requests, orders, verdicts, timeouts and disconnections interleave
\* in send and route, every piece of the balancer's state keeps its type.
THEOREM TypeCorrect == Spec => []TypeOK
  BY InitInv, StepInv, InvImplies, PTL DEF Spec

\* acquire_owned in admit_waiting, the release of a permit and a dropped waiter
\* keep each node's queue: exactly its parked requests, each once, and none
\* while a permit is free - for any number of nodes, requests and permits.
THEOREM WaitersAreQueued == Spec => []WaitersQueued
  BY InitInv, StepInv, InvImplies, PTL DEF Spec

\* The tried bitmap of route works: over any number of rounds, sleeps, waits
\* and fail-open passes a request is sent to one node at most once.
THEOREM AttemptedOnce == Spec => []OneAttemptPerNode
  BY InitInv, StepInv, InvImplies, PTL DEF Spec

-----------------------------------------------------------------------------
(* The stronger invariant *)

Holding == {"rate", "book", "add", "attempt", "granted"}

\* The requests that have read n's counter and are about to add to it.
Adders(n) == {r \in Request : cur[r] = n /\ pc[r] = "add"}

\* What the requests between the two steps of book may still add is within
\* the bound as well: each of them holds a permit and was priced.
SpendOK(n) ==
    \A c \in 0 .. UnknownCost :
        ChargesAtMost(n, c)
          => usage[n] + Cardinality(Adders(n)) * c <= Threshold[n] + MaxConcurrent[n] * c

\* A node the walk has passed was tried, or left one of the reasons not to give
\* up behind: a wait, a busy node, a penalty that can still be ignored.
Accounted(rd, rq, n) ==
    \/ n \in rq.tried
    \/ rd.best # 0
    \/ rd.saturated # NoNode
    \/ rd.penalized /\ ~rq.ignore

OnWalk == {"walk", "rate", "book", "add", "attempt"}

PassedOK(r) ==
    pc[r] \in OnWalk /\ via[r] = "walk"
      => /\ round[r].walk \in Orders
         /\ \A i \in 1 .. Len(round[r].walk) :
               i < round[r].pos => Accounted(round[r], req[r], round[r].walk[i])

BookedOK(r) ==
    /\ pc[r] = "add" => Cost[cur[r]][req[r].method] # UnknownCost
    /\ pc[r] = "attempt" => cur[r] \in req[r].tried

Passed == \A r \in Request : PassedOK(r)
Booked == \A r \in Request : BookedOK(r)
Budget == \A n \in Node : SpendOK(n)

\* The stronger inductive invariant.
SInv == IInv /\ PermitsConserved /\ Booked /\ Budget /\ Passed

-----------------------------------------------------------------------------
(* Permits *)

PermitsOK(n) == permits[n] + Cardinality(Holders(n)) = MaxConcurrent[n]

\* The holders of a node and their number.
LEMMA HoldersFinite ==
    ASSUME NEW n
    PROVE  IsFiniteSet(Holders(n)) /\ Cardinality(Holders(n)) \in Nat
  <1>1. Holders(n) \subseteq Request
    BY DEF Holders
  <1>2. IsFiniteSet(Holders(n))
    BY <1>1, RequestAssumption, FS_Subset
  <1> QED BY <1>2, FS_CardinalityType

\* A permit taken: one more holder.
LEMMA PermitTaken ==
    ASSUME TypeOK, NEW n \in Node, PermitsOK(n), NEW r, r \notin Holders(n),
           Holders(n)' = Holders(n) \union {r}, permits'[n] = permits[n] - 1
    PROVE  PermitsOK(n)'
  <1>1. Cardinality(Holders(n) \union {r}) = Cardinality(Holders(n)) + 1
    BY HoldersFinite, FS_AddElement
  <1>2. permits[n] \in Nat /\ Cardinality(Holders(n)) \in Nat
    BY HoldersFinite DEF TypeOK
  <1>3. Cardinality(Holders(n)') = Cardinality(Holders(n)) + 1
    BY <1>1
  <1>4. MaxConcurrent[n] \in Nat
    BY LimitAssumption
  <1> QED BY <1>2, <1>3, <1>4 DEF PermitsOK

\* A permit put back: one holder less.
LEMMA PermitReturned ==
    ASSUME TypeOK, NEW n \in Node, PermitsOK(n), NEW r \in Holders(n),
           Holders(n)' = Holders(n) \ {r}, permits'[n] = permits[n] + 1
    PROVE  PermitsOK(n)'
  <1>1. Cardinality(Holders(n) \ {r}) = Cardinality(Holders(n)) - 1
    BY HoldersFinite, FS_RemoveElement
  <1>2. permits[n] \in Nat /\ Cardinality(Holders(n)) \in Nat
    BY HoldersFinite DEF TypeOK
  <1>3. Cardinality(Holders(n)') = Cardinality(Holders(n)) - 1
    BY <1>1
  <1>4. MaxConcurrent[n] \in Nat
    BY LimitAssumption
  <1> QED BY <1>2, <1>3, <1>4 DEF PermitsOK

\* A permit handed on: the waiter takes the place of the holder.
LEMMA PermitHandedOn ==
    ASSUME TypeOK, NEW n \in Node, PermitsOK(n), NEW r \in Holders(n),
           NEW h, h \notin Holders(n),
           Holders(n)' = (Holders(n) \ {r}) \union {h}, permits'[n] = permits[n]
    PROVE  PermitsOK(n)'
  <1>1. /\ Cardinality(Holders(n) \ {r}) = Cardinality(Holders(n)) - 1
        /\ IsFiniteSet(Holders(n) \ {r})
    BY HoldersFinite, FS_RemoveElement
  <1>2. h \notin Holders(n) \ {r}
    OBVIOUS
  <1>3. Cardinality((Holders(n) \ {r}) \union {h}) = Cardinality(Holders(n) \ {r}) + 1
    BY <1>1, <1>2, FS_AddElement
  <1>4. Cardinality(Holders(n)) \in Nat
    BY HoldersFinite
  <1>5. Cardinality(Holders(n)') = Cardinality(Holders(n))
    BY <1>1, <1>3, <1>4
  <1> QED BY <1>5 DEF PermitsOK

\* A request that neither takes nor gives a permit.
Unmoved(q) ==
    \/ cur'[q] = cur[q] /\ (pc'[q] \in Holding <=> pc[q] \in Holding)
    \/ pc[q] \notin Holding /\ pc'[q] \notin Holding

\* Steps that move no permit.
LEMMA PermitsStay ==
    ASSUME PermitsConserved, permits' = permits,
           \A q \in Request : Unmoved(q)
    PROVE  PermitsConserved'
  <1>1. ASSUME NEW n \in Node PROVE Holders(n)' = Holders(n)
    BY DEF Holders, Unmoved, Holding
  <1> QED BY <1>1 DEF PermitsConserved

\* TakePermit and admit_waiting: r takes a free permit of n.
LEMMA PermitsTake ==
    ASSUME TypeOK, PermitsConserved, NEW r \in Request, NEW n \in Node,
           permits' = [permits EXCEPT ![n] = @ - 1],
           pc[r] \notin Holding, pc'[r] \in Holding, cur'[r] = n,
           \A q \in Request \ {r} : Unmoved(q)
    PROVE  PermitsConserved'
  <1>1. ASSUME NEW m \in Node PROVE PermitsOK(m)'
    <2>1. PermitsOK(m)
      BY DEF PermitsConserved, PermitsOK
    <2>2. CASE m = n
      <3>1. Holders(m)' = Holders(m) \union {r} /\ r \notin Holders(m)
        BY <2>2 DEF Holders, Unmoved, Holding
      <3>2. permits'[m] = permits[m] - 1
        BY <2>2 DEF TypeOK
      <3> QED BY <2>1, <3>1, <3>2, PermitTaken
    <2>3. CASE m # n
      <3>1. Holders(m)' = Holders(m)
        BY <2>3 DEF Holders, Unmoved, Holding
      <3>2. permits'[m] = permits[m]
        BY <2>3 DEF TypeOK
      <3> QED BY <2>1, <3>1, <3>2 DEF PermitsOK
    <2> QED BY <2>2, <2>3
  <1> QED BY <1>1 DEF PermitsConserved, PermitsOK

\* Release: the permit of r goes back, or to the first waiter.
LEMMA PermitsRelease ==
    ASSUME IInv, PermitsConserved, NEW r \in Request, NEW n \in Node,
           NEW next \in Pc \ Holding,
           pc[r] \in Holding, cur[r] = n, Release(r, n, next),
           \A q \in Request \ {r} : cur'[q] = cur[q]
    PROVE  PermitsConserved'
  <1> USE DEF IInv
  <1>0. permits \in [Node -> Nat] /\ pc \in [Request -> Pc]
    BY DEF TypeOK
  <1>1. CASE queue[n] = <<>>
    <2>1. /\ permits' = [permits EXCEPT ![n] = @ + 1]
          /\ pc' = [pc EXCEPT ![r] = next]
      BY <1>1 DEF Release
    <2>2. pc'[r] = next /\ \A q \in Request \ {r} : pc'[q] = pc[q]
      BY <1>0, <2>1
    <2>3. ASSUME NEW m \in Node PROVE PermitsOK(m)'
      <3>1. PermitsOK(m)
        BY DEF PermitsConserved, PermitsOK
      <3>2. CASE m = n
        <4>1. Holders(m)' = Holders(m) \ {r} /\ r \in Holders(m)
          BY <2>2, <3>2 DEF Holders, Holding
        <4>2. permits'[m] = permits[m] + 1
          BY <1>0, <2>1, <3>2
        <4> QED BY <3>1, <4>1, <4>2, PermitReturned
      <3>3. CASE m # n
        <4>1. Holders(m)' = Holders(m)
          BY <2>2, <3>3 DEF Holders, Holding
        <4>2. permits'[m] = permits[m]
          BY <1>0, <2>1, <3>3
        <4> QED BY <3>1, <4>1, <4>2 DEF PermitsOK
      <3> QED BY <3>2, <3>3
    <2> QED BY <2>3 DEF PermitsConserved, PermitsOK
  <1>2. CASE queue[n] # <<>>
    <2> DEFINE h == Head(queue[n])
    <2>1. h \in Request /\ pc[h] = "parked" /\ cur[h] = n
      <3>1. queue[n] \in Seq(Request) /\ 1 \in DOMAIN queue[n] /\ h = queue[n][1]
        BY <1>2 DEF TypeOK
      <3> QED BY <3>1 DEF Queues, QueueOK
    <2>2. pc' = [pc EXCEPT ![r] = next, ![h] = "granted"] /\ permits' = permits
      BY <1>2 DEF Release
    <2> HIDE DEF h
    <2>3. /\ h # r /\ pc'[r] = next /\ pc'[h] = "granted" /\ cur'[h] = n
          /\ \A q \in Request \ {r, h} : pc'[q] = pc[q]
      BY <1>0, <2>1, <2>2 DEF Holding
    <2>4. ASSUME NEW m \in Node PROVE PermitsOK(m)'
      <3>1. PermitsOK(m) /\ permits'[m] = permits[m]
        BY <2>2 DEF PermitsConserved, PermitsOK
      <3>2. CASE m = n
        <4>1. r \in Holders(m) /\ h \notin Holders(m)
          BY <2>1, <3>2 DEF Holders, Holding
        <4>2. Holders(m)' = (Holders(m) \ {r}) \union {h}
          BY <2>1, <2>3, <3>2 DEF Holders, Holding
        <4> QED BY <3>1, <4>1, <4>2, PermitHandedOn
      <3>3. CASE m # n
        <4>1. Holders(m)' = Holders(m)
          BY <2>1, <2>3, <3>3 DEF Holders, Holding
        <4> QED BY <3>1, <4>1 DEF PermitsOK
      <3> QED BY <3>2, <3>3
    <2> QED BY <2>4 DEF PermitsConserved, PermitsOK
  <1> QED BY <1>1, <1>2

\* No step of a request or of the environment creates or loses a permit.
LEMMA PermitsStep ==
    ASSUME IInv, PermitsConserved, [Next]_vars
    PROVE  PermitsConserved'
  <1> USE DEF IInv
  <1>0. pc \in [Request -> Pc] /\ cur \in [Request -> Node \union {NoNode}]
    BY DEF TypeOK
  <1>1. ASSUME NEW r \in Request,
               \/ \E m \in Method : Arrive(r, m)
               \/ RejectBody(r) \/ StartRound(r) \/ SleepOnRateLimit(r) \/ Wake(r)
               \/ FailOpen(r) \/ AllNodesFailed(r)
        PROVE  PermitsConserved'
    <2>1. /\ permits' = permits
          /\ pc[r] \notin Holding /\ pc'[r] \notin Holding
      BY <1>0, <1>1 DEF Arrive, RejectBody, StartRound, SleepOnRateLimit, Wake, FailOpen,
                   AllNodesFailed, NothingToWaitFor, Walked, nodeVars, Holding
    <2>2. \A q \in Request \ {r} : pc'[q] = pc[q]
      BY <1>0, <1>1 DEF Arrive, RejectBody, StartRound, SleepOnRateLimit, Wake, FailOpen,
                   AllNodesFailed
    <2>3. \A q \in Request \ {r} : cur'[q] = cur[q]
      BY <1>0, <1>1 DEF Arrive, RejectBody, StartRound, SleepOnRateLimit, Wake, FailOpen,
                   AllNodesFailed, Close
    <2>4. \A q \in Request : Unmoved(q)
      BY <2>1, <2>2, <2>3 DEF Unmoved
    <2> QED BY <2>1, <2>4, PermitsStay
  <1>2. ASSUME NEW r \in Request,
               \/ SkipTried(r) \/ SkipPenalized(r) \/ SkipSaturated(r)
               \/ TakeToken(r) \/ BookAccepted(r) \/ AddAndSend(r) \/ Granted(r)
        PROVE  PermitsConserved'
    <2>1. /\ permits' = permits /\ cur' = cur
          /\ pc'[r] \in Holding <=> pc[r] \in Holding
      BY <1>0, <1>2 DEF SkipTried, SkipPenalized, SkipSaturated, TakeToken, BookAccepted,
                   AddAndSend, Granted, nodeVars, Holding
    <2>2. \A q \in Request \ {r} : pc'[q] = pc[q]
      BY <1>0, <1>2 DEF SkipTried, SkipPenalized, SkipSaturated, TakeToken, BookAccepted,
                   AddAndSend, Granted
    <2>3. \A q \in Request : Unmoved(q)
      BY <2>1, <2>2 DEF Unmoved
    <2> QED BY <2>1, <2>3, PermitsStay
  <1>3. ASSUME NEW r \in Request, TakePermit(r) PROVE PermitsConserved'
    <2>1. At(r) \in Node
      BY <1>3, AtIsNode DEF TakePermit
    <2>2. /\ permits' = [permits EXCEPT ![At(r)] = @ - 1]
          /\ pc[r] \notin Holding /\ pc'[r] \in Holding /\ cur'[r] = At(r)
          /\ \A q \in Request \ {r} : pc'[q] = pc[q] /\ cur'[q] = cur[q]
      BY <1>0, <1>3 DEF TakePermit, Walking, Holding
    <2>3. \A q \in Request \ {r} : Unmoved(q)
      BY <2>2 DEF Unmoved
    <2> QED BY <2>1, <2>2, <2>3, PermitsTake
  <1>4. ASSUME NEW r \in Request, AdmitWaiting(r) PROVE PermitsConserved'
    <2> DEFINE n == round[r].saturated
    <2>1. n \in Node
      BY <1>4 DEF AdmitWaiting, TypeOK, RoundLocals
    <2>2. /\ pc[r] \notin Holding /\ cur'[r] = n
          /\ \A q \in Request \ {r} : cur'[q] = cur[q]
      BY <1>0, <1>4 DEF AdmitWaiting, Walked, Holding
    <2>3. CASE permits[n] > 0
      <3>1. permits' = [permits EXCEPT ![n] = @ - 1] /\ pc' = [pc EXCEPT ![r] = "rate"]
        BY <1>4, <2>1, <2>3 DEF AdmitWaiting, TypeOK
      <3> HIDE DEF n
      <3>2. pc'[r] \in Holding /\ \A q \in Request \ {r} : Unmoved(q)
        BY <1>0, <2>2, <3>1 DEF Unmoved, Holding
      <3> QED BY <2>1, <2>2, <3>1, <3>2, PermitsTake
    <2>4. CASE ~(permits[n] > 0)
      <3>1. permits' = permits /\ pc' = [pc EXCEPT ![r] = "parked"]
        BY <1>4, <2>4 DEF AdmitWaiting
      <3>2. \A q \in Request : Unmoved(q)
        BY <1>0, <2>2, <3>1 DEF Unmoved, Holding
      <3> QED BY <3>1, <3>2, PermitsStay
    <2> QED BY <2>3, <2>4
  <1>5. ASSUME NEW r \in Request, RateLimited(r) \/ BookRefused(r) PROVE PermitsConserved'
    <2>1. cur[r] \in Node /\ pc[r] \in Holding
      BY <1>5 DEF RateLimited, BookRefused, Places, PlaceOK, OnNode, Holding
    <2>2. \E next \in {"walk", "sleep", "round"} : Release(r, cur[r], next)
      BY <1>5 DEF RateLimited, BookRefused, MoveOn
    <2>3. \A q \in Request \ {r} : cur'[q] = cur[q]
      BY <1>0, <1>5 DEF RateLimited, BookRefused
    <2>4. {"walk", "sleep", "round"} \subseteq Pc \ Holding
      BY DEF Pc, Await, Holding
    <2> QED BY <2>1, <2>2, <2>3, <2>4, PermitsRelease
  <1>6. ASSUME NEW r \in Request, NEW v \in Verdicts, AttemptEnds(r, v)
        PROVE  PermitsConserved'
    <2>1. cur[r] \in Node /\ pc[r] \in Holding
      BY <1>6 DEF AttemptEnds, Places, PlaceOK, OnNode, Holding
    <2>2. \E next \in {"done", "walk", "round"} : Release(r, cur[r], next)
      BY <1>6 DEF AttemptEnds, MoveOn
    <2>3. \A q \in Request \ {r} : cur'[q] = cur[q]
      BY <1>0, <1>6 DEF AttemptEnds, Close
    <2>4. {"done", "walk", "round"} \subseteq Pc \ Holding
      BY DEF Pc, Holding
    <2> QED BY <2>1, <2>2, <2>3, <2>4, PermitsRelease
  <1>7. ASSUME NEW r \in Request, AttemptDeadline(r) PROVE PermitsConserved'
    BY <1>6, <1>7, TransportErrorIsVerdict DEF AttemptDeadline
  <1>8. ASSUME NEW r \in Request, NEW a, Cancel(r, a) PROVE PermitsConserved'
    <2>1. \A q \in Request \ {r} : cur'[q] = cur[q]
      BY <1>0, <1>8 DEF Cancel, Close
    <2>2. CASE pc[r] \in {"attempt", "granted"}
      <3>1. cur[r] \in Node /\ pc[r] \in Holding
        BY <2>2 DEF Places, PlaceOK, OnNode, Holding
      <3>2. Release(r, cur[r], "done") /\ "done" \in Pc \ Holding
        BY <1>8, <2>2 DEF Cancel, Pc, Holding
      <3> QED BY <2>1, <3>1, <3>2, PermitsRelease
    <2>3. CASE pc[r] \in {"parked", "sleep"}
      <3>1. permits' = permits /\ pc' = [pc EXCEPT ![r] = "done"]
        BY <1>8, <2>3 DEF Cancel
      <3>2. \A q \in Request : Unmoved(q)
        BY <1>0, <2>1, <2>3, <3>1 DEF Unmoved, Holding
      <3> QED BY <3>1, <3>2, PermitsStay
    <2> QED BY <1>8, <2>2, <2>3 DEF Cancel
  <1>9. ASSUME Rerank \/ Tick \/ Horizon \/ UNCHANGED vars PROVE PermitsConserved'
    <2>1. permits' = permits /\ pc' = pc /\ cur' = cur
      BY <1>9 DEF Rerank, Tick, Horizon, vars, nodeVars, reqVars
    <2> QED BY <2>1, PermitsStay DEF Unmoved
  <1> QED
    BY <1>1, <1>2, <1>3, <1>4, <1>5, <1>6, <1>7, <1>8, <1>9
       DEF Next, Step, Timeout, Disconnect

\* Every permit is free at the start.
LEMMA PermitsInit == Init => PermitsConserved
  <1> SUFFICES ASSUME Init PROVE PermitsConserved
    OBVIOUS
  <1>1. ASSUME NEW n \in Node
        PROVE  permits[n] + Cardinality(Holders(n)) = MaxConcurrent[n]
    <2>1. Holders(n) = {}
      BY DEF Init, Holders
    <2>2. Cardinality(Holders(n)) = 0
      BY <2>1, FS_EmptySet
    <2>3. permits[n] = MaxConcurrent[n] /\ MaxConcurrent[n] \in Nat
      BY LimitAssumption DEF Init
    <2> QED BY <2>2, <2>3
  <1> QED BY <1>1 DEF PermitsConserved

-----------------------------------------------------------------------------
(* Quota *)

\* The steps of request r.
Moves(r) ==
    \/ \E m \in Method : Arrive(r, m)
    \/ RejectBody(r)
    \/ Step(r)
    \/ \E v \in Verdicts : AttemptEnds(r, v)
    \/ Disconnect(r)

\* What the steps of r do to the others: a permit may be handed to a waiter.
LEMMA OthersLeft ==
    ASSUME IInv, NEW r \in Request, Moves(r)
    PROVE  OthersStay(r)
  <1> USE DEF IInv
  <1>0. /\ pc \in [Request -> Pc] /\ cur \in [Request -> Node \union {NoNode}]
        /\ round \in [Request -> RoundLocals] /\ req \in [Request -> RequestLocals]
        /\ via \in [Request -> {"walk", "wait"}] /\ sent \in [Request -> [Node -> Nat]]
    BY DEF TypeOK
  <1>1. CASE \/ \E m \in Method : Arrive(r, m)
             \/ RejectBody(r) \/ StartRound(r) \/ SleepOnRateLimit(r) \/ Wake(r)
             \/ FailOpen(r) \/ AllNodesFailed(r)
    BY <1>0, <1>1 DEF Arrive, RejectBody, StartRound, SleepOnRateLimit, Wake, FailOpen,
                      AllNodesFailed, Close, OthersStay
  <1>2. CASE \/ SkipTried(r) \/ SkipPenalized(r) \/ SkipSaturated(r) \/ TakePermit(r)
             \/ TakeToken(r) \/ BookAccepted(r) \/ AddAndSend(r) \/ Granted(r)
             \/ AdmitWaiting(r)
    BY <1>0, <1>2 DEF SkipTried, SkipPenalized, SkipSaturated, TakePermit, TakeToken,
                      BookAccepted, AddAndSend, Granted, AdmitWaiting, Advance, MarkTried,
                      OthersStay
  <1>3. CASE RateLimited(r) \/ BookRefused(r)
    <2>1. cur[r] \in Node /\ pc[r] # "parked"
      BY <1>3 DEF RateLimited, BookRefused, Places, PlaceOK, OnNode
    <2>2. \E next \in {"walk", "sleep", "round"} : Release(r, cur[r], next)
      BY <1>3 DEF RateLimited, BookRefused, MoveOn
    <2>3. {"walk", "sleep", "round"} \subseteq Pc
      BY DEF Pc, Await
    <2>4. \A q \in Request \ {r} : pc'[q] = pc[q] \/ (pc[q] = "parked" /\ pc'[q] = "granted")
      BY <2>1, <2>2, <2>3, ReleaseMoves
    <2> QED BY <1>0, <1>3, <2>4 DEF RateLimited, BookRefused, Advance, MarkTried, OthersStay
  <1>4. ASSUME NEW v \in Verdicts, AttemptEnds(r, v) PROVE OthersStay(r)
    <2>1. cur[r] \in Node /\ pc[r] # "parked"
      BY <1>4 DEF AttemptEnds, Places, PlaceOK, OnNode
    <2>2. \E next \in {"done", "walk", "round"} : Release(r, cur[r], next)
      BY <1>4 DEF AttemptEnds, MoveOn
    <2>3. {"done", "walk", "round"} \subseteq Pc
      BY DEF Pc
    <2>4. \A q \in Request \ {r} : pc'[q] = pc[q] \/ (pc[q] = "parked" /\ pc'[q] = "granted")
      BY <2>1, <2>2, <2>3, ReleaseMoves
    <2> QED BY <1>0, <1>4, <2>4 DEF AttemptEnds, Close, Advance, OthersStay
  <1>5. CASE AttemptDeadline(r)
    BY <1>4, <1>5, TransportErrorIsVerdict DEF AttemptDeadline
  <1>6. ASSUME NEW a, Cancel(r, a) PROVE OthersStay(r)
    <2>1. \A q \in Request \ {r} : pc'[q] = pc[q] \/ (pc[q] = "parked" /\ pc'[q] = "granted")
      <3>1. CASE pc[r] \in {"attempt", "granted"}
        <4>1. cur[r] \in Node /\ Release(r, cur[r], "done") /\ "done" \in Pc
          BY <1>6, <3>1 DEF Cancel, Places, PlaceOK, OnNode, Pc
        <4> QED BY <3>1, <4>1, ReleaseMoves
      <3>2. CASE pc[r] \in {"parked", "sleep"}
        BY <1>0, <1>6, <3>2 DEF Cancel
      <3> QED BY <1>6, <3>1, <3>2 DEF Cancel
    <2> QED BY <1>0, <1>6, <2>1 DEF Cancel, Close, OthersStay
  <1> QED
    BY <1>1, <1>2, <1>3, <1>4, <1>5, <1>6 DEF Moves, Step, Timeout, Disconnect

\* Only book comes between the read of a counter and the addition to it.
LEMMA BookingSteps ==
    ASSUME IInv, NEW r \in Request, Moves(r)
    PROVE  /\ pc'[r] = "add" => BookAccepted(r)
           /\ pc[r] = "add" => AddAndSend(r)
           /\ pc'[r] = "attempt" => AddAndSend(r)
           /\ usage' = usage \/ AddAndSend(r)
  <1> USE DEF IInv
  <1>0. pc \in [Request -> Pc]
    BY DEF TypeOK
  <1> DEFINE Elsewhere == /\ pc[r] # "add" /\ pc'[r] \notin {"add", "attempt"}
                          /\ usage' = usage
  <1>1. CASE \/ \E m \in Method : Arrive(r, m)
             \/ RejectBody(r) \/ StartRound(r) \/ SleepOnRateLimit(r) \/ Wake(r)
             \/ FailOpen(r) \/ AllNodesFailed(r)
    <2>1. Elsewhere
      BY <1>0, <1>1 DEF Arrive, RejectBody, StartRound, SleepOnRateLimit, Wake, FailOpen,
                      AllNodesFailed, NothingToWaitFor, Walked, nodeVars
    <2> QED BY <2>1
  <1>2. CASE \/ SkipTried(r) \/ SkipPenalized(r) \/ SkipSaturated(r) \/ TakePermit(r)
             \/ TakeToken(r) \/ Granted(r) \/ AdmitWaiting(r)
    <2>1. Elsewhere
      BY <1>0, <1>2 DEF SkipTried, SkipPenalized, SkipSaturated, TakePermit, TakeToken,
                      Granted, AdmitWaiting, Walking, Walked, nodeVars
    <2> QED BY <2>1
  <1>3. CASE BookAccepted(r)
    <2>1. pc[r] = "book" /\ pc'[r] = "add" /\ usage' = usage
      BY <1>0, <1>3 DEF BookAccepted, nodeVars
    <2> QED BY <1>3, <2>1
  <1>4. CASE AddAndSend(r)
    <2>1. pc[r] = "add" /\ pc'[r] = "attempt"
      BY <1>0, <1>4 DEF AddAndSend
    <2> QED BY <1>4, <2>1
  <1>5. CASE RateLimited(r) \/ BookRefused(r)
    <2>1. cur[r] \in Node /\ pc[r] \notin {"parked", "add"} /\ usage' = usage
      BY <1>5 DEF RateLimited, BookRefused, Places, PlaceOK, OnNode
    <2>2. \E next \in {"walk", "sleep", "round"} : Release(r, cur[r], next)
      BY <1>5 DEF RateLimited, BookRefused, MoveOn
    <2>3. {"walk", "sleep", "round"} \subseteq Pc
      BY DEF Pc, Await
    <2>4. pc'[r] \in {"walk", "sleep", "round"}
      BY <2>1, <2>2, <2>3, ReleaseMoves
    <2> QED BY <2>1, <2>4
  <1>6. ASSUME NEW v \in Verdicts, AttemptEnds(r, v) PROVE Elsewhere
    <2>1. cur[r] \in Node /\ pc[r] \notin {"parked", "add"} /\ usage' = usage
      BY <1>6 DEF AttemptEnds, Places, PlaceOK, OnNode
    <2>2. \E next \in {"done", "walk", "round"} : Release(r, cur[r], next)
      BY <1>6 DEF AttemptEnds, MoveOn
    <2>3. {"done", "walk", "round"} \subseteq Pc
      BY DEF Pc
    <2>4. pc'[r] \in {"done", "walk", "round"}
      BY <2>1, <2>2, <2>3, ReleaseMoves
    <2> QED BY <2>1, <2>4
  <1>7. CASE AttemptDeadline(r)
    BY <1>6, <1>7, TransportErrorIsVerdict DEF AttemptDeadline
  <1>8. ASSUME NEW a, Cancel(r, a) PROVE Elsewhere
    <2>1. pc'[r] = "done"
      <3>1. CASE pc[r] \in {"attempt", "granted"}
        <4>1. cur[r] \in Node /\ Release(r, cur[r], "done") /\ "done" \in Pc
          BY <1>8, <3>1 DEF Cancel, Places, PlaceOK, OnNode, Pc
        <4> QED BY <3>1, <4>1, ReleaseMoves
      <3>2. CASE pc[r] \in {"parked", "sleep"}
        BY <1>0, <1>8, <3>2 DEF Cancel
      <3> QED BY <1>8, <3>1, <3>2 DEF Cancel
    <2> QED BY <1>8, <2>1 DEF Cancel
  <1> QED
    BY <1>1, <1>2, <1>3, <1>4, <1>5, <1>6, <1>7, <1>8 DEF Moves, Step, Timeout, Disconnect

\* The environment moves no request and books nothing.
LEMMA EnvironmentStays ==
    ASSUME Rerank \/ Tick \/ Horizon \/ UNCHANGED vars
    PROVE  UNCHANGED <<pc, req, round, cur, via, answer, usage, permits>>
  BY DEF Rerank, Tick, Horizon, vars, nodeVars, reqVars

\* Every step is a step of one request or of the environment.
LEMMA StepsSplit ==
    ASSUME [Next]_vars
    PROVE  (\E r \in Request : Moves(r)) \/ Rerank \/ Tick \/ Horizon \/ UNCHANGED vars
  BY DEF Next, Moves

\* A request is charged only where it was priced, and is tried where it is sent.
LEMMA BookedStep ==
    ASSUME IInv, Booked, [Next]_vars
    PROVE  Booked'
  <1> USE DEF IInv
  <1>1. ASSUME NEW r \in Request, Moves(r) PROVE Booked'
    <2>1. ASSUME NEW q \in Request \ {r} PROVE BookedOK(q)'
      <3>1. BookedOK(q) /\ OthersStay(r)
        BY <1>1, OthersLeft DEF Booked
      <3> QED BY <3>1 DEF BookedOK, OthersStay
    <2>2. BookedOK(r)'
      <3>1. CASE BookAccepted(r)
        BY <3>1 DEF BookAccepted, Refuses, BookedOK, TypeOK
      <3>2. CASE AddAndSend(r)
        <4>1. pc'[r] = "attempt" /\ cur'[r] = cur[r]
          BY <3>2 DEF AddAndSend, TypeOK
        <4>2. req'[r].tried = req[r].tried \union {cur[r]}
          BY <3>2 DEF AddAndSend, MarkTried, TypeOK, RequestLocals
        <4> QED BY <4>1, <4>2 DEF BookedOK
      <3>3. CASE ~BookAccepted(r) /\ ~AddAndSend(r)
        BY <1>1, <3>3, BookingSteps DEF BookedOK
      <3> QED BY <3>1, <3>2, <3>3
    <2> QED BY <2>1, <2>2 DEF Booked
  <1>2. CASE Rerank \/ Tick \/ Horizon \/ UNCHANGED vars
    BY <1>2, EnvironmentStays DEF Booked, BookedOK
  <1> QED BY <1>1, <1>2, StepsSplit

AddersWithin ==
    \A n \in Node : /\ IsFiniteSet(Adders(n)) /\ Cardinality(Adders(n)) \in Nat
                    /\ Cardinality(Adders(n)) <= MaxConcurrent[n]

\* The requests between the two steps of book hold a permit each.
LEMMA AddersHold == TypeOK /\ PermitsConserved => AddersWithin
  <1> SUFFICES ASSUME TypeOK, PermitsConserved, NEW n \in Node
               PROVE  /\ IsFiniteSet(Adders(n)) /\ Cardinality(Adders(n)) \in Nat
                      /\ Cardinality(Adders(n)) <= MaxConcurrent[n]
    BY DEF AddersWithin
  <1>1. Adders(n) \subseteq Holders(n)
    BY DEF Adders, Holders
  <1>2. IsFiniteSet(Holders(n)) /\ Cardinality(Holders(n)) \in Nat
    BY HoldersFinite
  <1>3. IsFiniteSet(Adders(n)) /\ Cardinality(Adders(n)) <= Cardinality(Holders(n))
    BY <1>1, <1>2, FS_Subset
  <1>4. Cardinality(Adders(n)) \in Nat
    BY <1>3, FS_CardinalityType
  <1>5. permits[n] + Cardinality(Holders(n)) = MaxConcurrent[n]
    BY DEF PermitsConserved
  <1>6. permits[n] \in Nat /\ MaxConcurrent[n] \in Nat
    BY LimitAssumption DEF TypeOK
  <1> QED BY <1>2, <1>3, <1>4, <1>5, <1>6

\* The two facts of arithmetic behind the bound.
LEMMA ProductMonotone ==
    ASSUME NEW a \in Nat, NEW b \in Nat, NEW c \in Nat, a <= b
    PROVE  a * c <= b * c /\ a * c \in Nat /\ b * c \in Nat
  <1>1. PICK d \in Nat : b = a + d
    <2>1. b - a \in Nat /\ b = a + (b - a)
      OBVIOUS
    <2> QED BY <2>1
  <1>2. b * c = a * c + d * c
    BY <1>1
  <1>3. d * c \in Nat /\ a * c \in Nat /\ b * c \in Nat
    OBVIOUS
  <1> QED BY <1>2, <1>3

\* One adder less leaves room for one charge.
LEMMA ProductOneLess ==
    ASSUME NEW a \in Nat, NEW c \in Nat, a >= 1
    PROVE  (a - 1) * c + c = a * c
  OBVIOUS

\* What a counter may still reach stays within threshold and permits: a reader
\* that finds it at or below the threshold holds one of the permits, and an
\* addition is of a cost that was allowed for.
LEMMA BudgetStep ==
    ASSUME IInv, PermitsConserved, Booked, Budget, [Next]_vars, TypeOK', PermitsConserved'
    PROVE  Budget'
  <1> USE DEF IInv
  <1>1. ASSUME NEW r \in Request, Moves(r), NEW n \in Node PROVE SpendOK(n)'
    <2>0. SpendOK(n) /\ OthersStay(r)
      BY <1>1, OthersLeft DEF Budget
    <2>1. CASE BookAccepted(r)
      <3>1. /\ usage' = usage /\ cur'[r] = cur[r] /\ pc[r] # "add"
            /\ usage[cur[r]] <= Threshold[cur[r]]
        <4>1. cur[r] \in Node
          BY <2>1 DEF BookAccepted, Places, PlaceOK, OnNode
        <4>2. ~(usage[cur[r]] > Threshold[cur[r]]) /\ usage' = usage /\ cur' = cur /\ pc[r] = "book"
          BY <2>1 DEF BookAccepted, Refuses, nodeVars
        <4>3. usage[cur[r]] \in Nat /\ Threshold[cur[r]] \in Nat
          BY <4>1, LimitAssumption DEF TypeOK
        <4> QED BY <4>2, <4>3
      <3>2. CASE n = cur[r]
        <4> SUFFICES ASSUME NEW c \in 0 .. UnknownCost, ChargesAtMost(n, c)
                     PROVE  usage'[n] + Cardinality(Adders(n)') * c
                              <= Threshold[n] + MaxConcurrent[n] * c
          BY DEF SpendOK, ChargesAtMost
        <4>1. Cardinality(Adders(n)') \in Nat /\ Cardinality(Adders(n)') <= MaxConcurrent[n]
          <5>1. AddersWithin'
            BY AddersHold, PTL
          <5> QED BY <5>1 DEF AddersWithin
        <4>2. /\ c \in Nat /\ usage[n] \in Nat /\ Threshold[n] \in Nat
              /\ MaxConcurrent[n] \in Nat
          BY LimitAssumption DEF TypeOK
        <4> DEFINE a == Cardinality(Adders(n)')
        <4>3. a * c <= MaxConcurrent[n] * c /\ a * c \in Nat /\ MaxConcurrent[n] * c \in Nat
          BY <4>1, <4>2, ProductMonotone
        <4> HIDE DEF a
        <4>4. usage'[n] = usage[n] /\ usage[n] <= Threshold[n]
          BY <3>1, <3>2
        <4>5. usage[n] + a * c <= Threshold[n] + MaxConcurrent[n] * c
          BY <4>2, <4>3, <4>4
        <4> QED BY <4>4, <4>5 DEF a
      <3>3. CASE n # cur[r]
        <4>1. Adders(n)' = Adders(n)
          BY <2>0, <3>1, <3>3 DEF Adders, OthersStay
        <4> QED BY <2>0, <3>1, <4>1 DEF SpendOK, ChargesAtMost
      <3> QED BY <3>2, <3>3
    <2>2. CASE AddAndSend(r)
      <3>1. /\ pc[r] = "add" /\ pc'[r] = "attempt" /\ cur[r] \in Node
            /\ usage' = [usage EXCEPT ![cur[r]] = @ + Cost[cur[r]][req[r].method]]
        BY <2>2 DEF AddAndSend, TypeOK, Places, PlaceOK, OnNode
      <3>2. CASE n = cur[r]
        <4> SUFFICES ASSUME NEW c \in 0 .. UnknownCost, ChargesAtMost(n, c)
                     PROVE  usage'[n] + Cardinality(Adders(n)') * c
                              <= Threshold[n] + MaxConcurrent[n] * c
          BY DEF SpendOK, ChargesAtMost
        <4>1. r \in Adders(n) /\ Adders(n)' = Adders(n) \ {r}
          BY <2>0, <3>1, <3>2 DEF Adders, OthersStay
        <4> DEFINE a == Cardinality(Adders(n))
                   x == Cost[n][req[r].method]
        <4>2. IsFiniteSet(Adders(n)) /\ a \in Nat
          BY AddersHold DEF AddersWithin
        <4>3. Cardinality(Adders(n) \ {r}) = a - 1
          BY <4>1, <4>2, FS_RemoveElement
        <4>4. a # 0
          BY <4>1, <4>2, FS_EmptySet
        <4>5. x \in Nat /\ x <= c
          <5>1. req[r].method \in Method
            BY DEF TypeOK, RequestLocals
          <5>2. x # UnknownCost
            BY <3>1, <3>2 DEF Booked, BookedOK
          <5>3. x \in 0 .. UnknownCost
            BY <5>1, LimitAssumption
          <5> QED BY <5>1, <5>2, <5>3, LimitAssumption DEF ChargesAtMost
        <4>6. usage'[n] = usage[n] + x /\ usage[n] \in Nat
          BY <3>1, <3>2 DEF TypeOK
        <4>7. usage[n] + a * c <= Threshold[n] + MaxConcurrent[n] * c
          BY <2>0 DEF SpendOK
        <4>8. Cardinality(Adders(n)') = a - 1
          BY <4>1, <4>3
        <4>9. c \in Nat /\ Threshold[n] + MaxConcurrent[n] * c \in Nat
          <5>1. c \in Nat /\ Threshold[n] \in Nat /\ MaxConcurrent[n] \in Nat
            BY LimitAssumption
          <5> QED BY <5>1
        <4> DEFINE bound == Threshold[n] + MaxConcurrent[n] * c
        <4> HIDE DEF a, x, bound
        <4>10. (a - 1) * c + c = a * c /\ (a - 1) * c \in Nat
          BY <4>2, <4>4, <4>9, ProductOneLess
        <4>11. usage[n] + x + (a - 1) * c <= bound
          <5> DEFINE lo == (a - 1) * c
                     hi == a * c
          <5>1. lo + c = hi /\ lo \in Nat /\ usage[n] + hi <= bound /\ bound \in Nat
            BY <4>7, <4>9, <4>10 DEF bound
          <5> HIDE DEF lo, hi
          <5>2. usage[n] + x + lo <= bound
            BY <4>5, <4>6, <4>9, <5>1
          <5> QED BY <5>2 DEF lo
        <4> QED BY <4>6, <4>8, <4>11 DEF bound
      <3>3. CASE n # cur[r]
        <4>1. Adders(n)' = Adders(n)
          BY <2>0, <2>2, <3>1, <3>3 DEF Adders, OthersStay, AddAndSend
        <4>2. usage'[n] = usage[n]
          BY <3>1, <3>3 DEF TypeOK
        <4> QED BY <2>0, <4>1, <4>2 DEF SpendOK, ChargesAtMost
      <3> QED BY <3>2, <3>3
    <2>3. CASE ~BookAccepted(r) /\ ~AddAndSend(r)
      <3>1. usage' = usage /\ pc[r] # "add" /\ pc'[r] # "add"
        BY <1>1, <2>3, BookingSteps
      <3>2. Adders(n)' = Adders(n)
        BY <2>0, <3>1 DEF Adders, OthersStay
      <3> QED BY <2>0, <3>1, <3>2 DEF SpendOK, ChargesAtMost
    <2> QED BY <2>1, <2>2, <2>3
  <1>2. CASE Rerank \/ Tick \/ Horizon \/ UNCHANGED vars
    <2>1. pc' = pc /\ cur' = cur /\ usage' = usage
      BY <1>2, EnvironmentStays
    <2> QED BY <2>1 DEF Budget, SpendOK, ChargesAtMost, Adders
  <1> QED BY <1>1, <1>2, StepsSplit DEF Budget

-----------------------------------------------------------------------------
(* The walk *)

\* Nothing that accounts for a node is taken back within a round.
Grows(r) ==
    /\ round'[r].walk = round[r].walk
    /\ req[r].tried \subseteq req'[r].tried
    /\ req'[r].ignore = req[r].ignore
    /\ round[r].best # 0 => round'[r].best # 0
    /\ round[r].saturated # NoNode => round'[r].saturated # NoNode
    /\ round[r].penalized => round'[r].penalized

\* A step on the same node.
LEMMA PassedSame ==
    ASSUME NEW r \in Request, PassedOK(r), pc[r] \in OnWalk, via'[r] = via[r], Grows(r),
           round'[r].pos = round[r].pos
    PROVE  PassedOK(r)'
  BY DEF PassedOK, Grows, Accounted

\* A step past a node that is accounted for.
LEMMA PassedMore ==
    ASSUME IInv, NEW r \in Request, PassedOK(r), pc[r] \in OnWalk, via[r] = "walk", Grows(r),
           round'[r].pos = round[r].pos + 1,
           Accounted(round'[r], req'[r], At(r))
    PROVE  PassedOK(r)'
  <1>1. /\ round[r].walk \in Orders /\ round[r].pos \in Nat /\ Len(round[r].walk) \in Nat
        /\ \A i \in 1 .. Len(round[r].walk) :
              i < round[r].pos => Accounted(round[r], req[r], round[r].walk[i])
    <2>1. round[r].walk \in Orders /\ round[r].pos \in Nat
      BY DEF PassedOK, IInv, TypeOK, RoundLocals
    <2>2. Len(round[r].walk) \in Nat
      BY <2>1, OrderIsWalk
    <2> QED BY <2>1, <2>2 DEF PassedOK
  <1>2. \A i \in 1 .. Len(round[r].walk) : i < round[r].pos + 1 => i < round[r].pos \/ i = round[r].pos
    BY <1>1
  <1>3. ASSUME NEW i \in 1 .. Len(round[r].walk), i < round[r].pos + 1
        PROVE  Accounted(round'[r], req'[r], round[r].walk[i])
    <2>1. CASE i < round[r].pos
      BY <1>1, <2>1 DEF Grows, Accounted
    <2>2. CASE i = round[r].pos
      BY <2>2 DEF At
    <2> QED BY <1>2, <1>3, <2>1, <2>2
  <1>4. round'[r].walk = round[r].walk
    BY DEF Grows
  <1> QED BY <1>1, <1>3, <1>4 DEF PassedOK

\* Skips, admissions, refusals and failed attempts all account for the node they
\* leave behind.
LEMMA PassedStep ==
    ASSUME IInv, Booked, Passed, [Next]_vars
    PROVE  Passed'
  <1> USE DEF IInv
  <1>1. ASSUME NEW r \in Request, Moves(r) PROVE Passed'
    <2>0. PassedOK(r) /\ BookedOK(r) /\ OthersStay(r) /\ PlaceOK(r)
      BY <1>1, OthersLeft DEF Passed, Booked, Places
    <2>a. /\ round \in [Request -> RoundLocals] /\ req \in [Request -> RequestLocals]
          /\ pc \in [Request -> Pc] /\ via \in [Request -> {"walk", "wait"}]
          /\ round[r] \in RoundLocals /\ req[r] \in RequestLocals
      BY DEF TypeOK
    <2>1. ASSUME NEW q \in Request \ {r} PROVE PassedOK(q)'
      BY <2>0 DEF Passed, PassedOK, OthersStay, OnWalk
    <2>2. ASSUME \/ \E m \in Method : Arrive(r, m)
                 \/ RejectBody(r) \/ SleepOnRateLimit(r) \/ Wake(r)
                 \/ FailOpen(r) \/ AllNodesFailed(r)
          PROVE  PassedOK(r)'
      <3>1. pc'[r] \notin OnWalk
        BY <2>a, <2>2 DEF Arrive, RejectBody, SleepOnRateLimit, Wake, FailOpen,
                     AllNodesFailed, OnWalk
      <3> QED BY <3>1 DEF PassedOK
    <2>3. ASSUME StartRound(r) PROVE PassedOK(r)'
      <3>1. round'[r].walk = ranked /\ round'[r].pos = 1
        BY <2>a, <2>3 DEF StartRound, NoRound
      <3>2. ranked \in Orders /\ \A i \in 1 .. Len(ranked) : ~(i < 1)
        BY DEF TypeOK
      <3> QED BY <3>1, <3>2 DEF PassedOK
    <2>4. ASSUME SkipTried(r) PROVE PassedOK(r)'
      <3>1. pc[r] = "walk" /\ via[r] = "walk" /\ At(r) \in req[r].tried /\ req' = req
        BY <2>0, <2>4 DEF SkipTried, Walking, PlaceOK
      <3>2. Grows(r) /\ round'[r].pos = round[r].pos + 1
        BY <2>a, <2>4, <3>1 DEF SkipTried, Advance, Grows, RoundLocals
      <3>3. Accounted(round'[r], req'[r], At(r))
        BY <3>1 DEF Accounted
      <3> QED BY <2>0, <3>1, <3>2, <3>3, PassedMore DEF OnWalk
    <2>5. ASSUME SkipPenalized(r) PROVE PassedOK(r)'
      <3>1. pc[r] = "walk" /\ via[r] = "walk" /\ req' = req /\ ~req[r].ignore
        BY <2>0, <2>5 DEF SkipPenalized, HeldOut, Walking, PlaceOK
      <3>2. Grows(r) /\ round'[r].pos = round[r].pos + 1 /\ round'[r].penalized
        BY <2>a, <2>5, <3>1 DEF SkipPenalized, Grows, RoundLocals
      <3>3. Accounted(round'[r], req'[r], At(r))
        BY <3>1, <3>2 DEF Accounted
      <3> QED BY <2>0, <3>1, <3>2, <3>3, PassedMore DEF OnWalk
    <2>6. ASSUME SkipSaturated(r) PROVE PassedOK(r)'
      <3>1. pc[r] = "walk" /\ via[r] = "walk" /\ req' = req /\ At(r) \in Node
        BY <2>0, <2>6, AtIsNode DEF SkipSaturated, Walking, PlaceOK
      <3>2. Grows(r) /\ round'[r].pos = round[r].pos + 1 /\ round'[r].saturated # NoNode
        BY <2>a, <2>6, <3>1, NodeAssumption DEF SkipSaturated, Grows, RoundLocals
      <3>3. Accounted(round'[r], req'[r], At(r))
        BY <3>2 DEF Accounted
      <3> QED BY <2>0, <3>1, <3>2, <3>3, PassedMore DEF OnWalk
    <2>7. ASSUME TakePermit(r) \/ TakeToken(r) \/ BookAccepted(r) PROVE PassedOK(r)'
      <3>1. pc[r] \in OnWalk /\ round' = round /\ req' = req /\ via' = via
        BY <2>7 DEF TakePermit, TakeToken, BookAccepted, Walking, OnWalk
      <3>2. Grows(r)
        BY <3>1 DEF Grows
      <3> QED BY <2>0, <3>1, <3>2, PassedSame
    <2>8. ASSUME AddAndSend(r) PROVE PassedOK(r)'
      <3>1. pc[r] \in OnWalk /\ round' = round /\ via' = via
        BY <2>8 DEF AddAndSend, OnWalk
      <3>2. Grows(r)
        BY <2>a, <2>8, <3>1 DEF AddAndSend, MarkTried, Grows, RequestLocals
      <3> QED BY <2>0, <3>1, <3>2, PassedSame
    <2>9. ASSUME Granted(r) \/ AdmitWaiting(r) PROVE PassedOK(r)'
      <3>1. via'[r] = "wait"
        BY <2>0, <2>a, <2>9 DEF Granted, AdmitWaiting, PlaceOK
      <3> QED BY <3>1 DEF PassedOK
    <2>10. ASSUME RateLimited(r) PROVE PassedOK(r)'
      <3> DEFINE n == cur[r]
                 wait == debt[n] - Tolerance(n)
      <3>1. pc[r] = "rate" /\ n \in Node
        BY <2>0, <2>10 DEF RateLimited, PlaceOK, OnNode
      <3>2. wait # 0
        <4>1. Burst[n] \in Nat \ {0} /\ Interval[n] \in Nat \ {0} /\ debt[n] \in Nat
          BY <3>1, LimitAssumption DEF TypeOK
        <4>2. Tolerance(n) \in Nat
          BY <4>1 DEF Tolerance
        <4> QED BY <2>10, <4>1, <4>2 DEF RateLimited
      <3>3. CASE via[r] = "walk"
        <4> DEFINE b == IF round[r].best = 0 \/ wait < round[r].best THEN wait ELSE round[r].best
        <4>1. /\ round' = [round EXCEPT ![r].pos = @ + 1, ![r].best = b]
              /\ req' = req
          BY <2>10, <3>3 DEF RateLimited
        <4>2. b # 0
          BY <3>2
        <4> HIDE DEF b
        <4>3. Grows(r) /\ round'[r].pos = round[r].pos + 1 /\ round'[r].best # 0
          BY <2>a, <4>1, <4>2 DEF Grows, RoundLocals
        <4>4. Accounted(round'[r], req'[r], At(r))
          BY <4>3 DEF Accounted
        <4> QED BY <2>0, <3>1, <3>3, <4>3, <4>4, PassedMore DEF OnWalk
      <3>4. CASE via[r] = "wait"
        <4>1. via'[r] = "wait"
          BY <2>10, <3>4 DEF RateLimited
        <4> QED BY <4>1 DEF PassedOK
      <3> QED BY <2>a, <3>3, <3>4
    <2>11. ASSUME BookRefused(r) PROVE PassedOK(r)'
      <3>1. pc[r] = "book" /\ cur[r] \in Node /\ via' = via
        BY <2>0, <2>11 DEF BookRefused, PlaceOK, OnNode
      <3>2. /\ req'[r].tried = req[r].tried \union {cur[r]}
            /\ req'[r].ignore = req[r].ignore
        BY <2>a, <2>11 DEF BookRefused, MarkTried, RequestLocals
      <3>3. CASE via[r] = "walk"
        <4>1. cur[r] = At(r)
          BY <2>0, <3>1, <3>3 DEF PlaceOK, OnNode
        <4>2. Grows(r) /\ round'[r].pos = round[r].pos + 1
          BY <2>a, <2>11, <3>2, <3>3 DEF BookRefused, Advance, Grows, RoundLocals
        <4>3. Accounted(round'[r], req'[r], At(r))
          BY <3>2, <4>1 DEF Accounted
        <4> QED BY <2>0, <3>1, <3>3, <4>2, <4>3, PassedMore DEF OnWalk
      <3>4. CASE via[r] = "wait"
        BY <3>1, <3>4 DEF PassedOK
      <3> QED BY <2>a, <3>3, <3>4
    <2>12. ASSUME NEW v \in Verdicts, AttemptEnds(r, v) PROVE PassedOK(r)'
      <3>1. pc[r] = "attempt" /\ cur[r] \in Node /\ cur[r] \in req[r].tried
        BY <2>0, <2>12 DEF AttemptEnds, PlaceOK, OnNode, BookedOK
      <3>2. CASE v.attempt = "Done"
        <4>1. Release(r, cur[r], "done") /\ "done" \in Pc
          BY <2>12, <3>2 DEF AttemptEnds, Pc
        <4>2. pc'[r] = "done"
          BY <3>1, <4>1, ReleaseMoves
        <4> QED BY <4>2 DEF PassedOK, OnWalk
      <3>3. CASE v.attempt = "Retry"
        <4>1. Advance(r) /\ req' = req /\ via' = via
          BY <2>12, <3>3 DEF AttemptEnds
        <4>2. CASE via[r] = "walk"
          <5>1. cur[r] = At(r)
            BY <2>0, <3>1, <4>2 DEF PlaceOK, OnNode
          <5>2. Grows(r) /\ round'[r].pos = round[r].pos + 1
            BY <2>a, <4>1, <4>2 DEF Advance, Grows, RoundLocals
          <5>3. Accounted(round'[r], req'[r], At(r))
            BY <3>1, <4>1, <5>1 DEF Accounted
          <5> QED BY <2>0, <3>1, <4>2, <5>2, <5>3, PassedMore DEF OnWalk
        <4>3. CASE via[r] = "wait"
          BY <4>1, <4>3 DEF PassedOK
        <4> QED BY <2>a, <4>2, <4>3
      <3> QED BY <3>2, <3>3, VerdictsTyped
    <2>13. ASSUME AttemptDeadline(r) PROVE PassedOK(r)'
      BY <2>12, <2>13, TransportErrorIsVerdict DEF AttemptDeadline
    <2>14. ASSUME NEW a, Cancel(r, a) PROVE PassedOK(r)'
      <3>1. pc'[r] = "done"
        <4>1. CASE pc[r] \in {"attempt", "granted"}
          <5>1. cur[r] \in Node /\ Release(r, cur[r], "done") /\ "done" \in Pc
            BY <2>0, <2>14, <4>1 DEF Cancel, PlaceOK, OnNode, Pc
          <5> QED BY <4>1, <5>1, ReleaseMoves
        <4>2. CASE pc[r] \in {"parked", "sleep"}
          BY <2>a, <2>14, <4>2 DEF Cancel
        <4> QED BY <2>14, <4>1, <4>2 DEF Cancel
      <3> QED BY <3>1 DEF PassedOK, OnWalk
    <2>15. PassedOK(r)'
      BY <1>1, <2>2, <2>3, <2>4, <2>5, <2>6, <2>7, <2>8, <2>9, <2>10, <2>11, <2>12, <2>13,
         <2>14 DEF Moves, Step, Timeout, Disconnect
    <2> QED BY <2>1, <2>15 DEF Passed
  <1>2. CASE Rerank \/ Tick \/ Horizon \/ UNCHANGED vars
    BY <1>2, EnvironmentStays DEF Passed, PassedOK
  <1> QED BY <1>1, <1>2, StepsSplit

-----------------------------------------------------------------------------
(* Giving up *)

\* A published order lists every node, so a walk to its end has passed them all.
LEMMA OrderIsComplete ==
    ASSUME NEW w \in Orders, NEW n \in Node
    PROVE  \E i \in 1 .. Len(w) : w[i] = n
  <1> DEFINE k == Cardinality(Node)
  <1>1. k \in Nat
    BY NodeAssumption, FS_CardinalityType
  <1>2. w \in [1 .. k -> Node] /\ \A i, j \in 1 .. k : i < j => w[i] # w[j]
    BY DEF Orders
  <1>3. Len(w) = k
    BY <1>1, <1>2
  <1> HIDE DEF k
  <1>4. w \in Injection(1 .. k, Node)
    <2>1. ASSUME NEW i \in 1 .. k, NEW j \in 1 .. k, w[i] = w[j] PROVE i = j
      <3>1. i < j \/ j < i \/ i = j
        BY <1>1
      <3> QED BY <1>2, <2>1, <3>1
    <2> QED BY <1>2, <2>1 DEF Injection, IsInjective
  <1>5. IsFiniteSet(1 .. k) /\ Cardinality(1 .. k) = k
    BY <1>1, FS_Interval
  <1>6. w \in Surjection(1 .. k, Node)
    BY <1>4, <1>5, NodeAssumption, FS_Injection DEF k
  <1> QED BY <1>3, <1>6 DEF Surjection

\* At the end of a walk that leaves nothing to wait for and no penalty to ignore,
\* every node has been tried.
LEMMA WalkedAll ==
    ASSUME IInv, Passed, NEW r \in Request, NothingToWaitFor(r), ~OnlyPenalized(r)
    PROVE  req[r].tried = Node
  <1>1. /\ pc[r] = "walk" /\ round[r].best = 0 /\ round[r].saturated = NoNode
        /\ round[r].pos > Len(round[r].walk)
    BY DEF NothingToWaitFor, Walked
  <1>2. /\ round[r].walk \in Orders
        /\ \A i \in 1 .. Len(round[r].walk) :
              i < round[r].pos => Accounted(round[r], req[r], round[r].walk[i])
    BY <1>1 DEF Passed, PassedOK, OnWalk, IInv, Places, PlaceOK
  <1>3. round[r].pos \in Nat /\ Len(round[r].walk) \in Nat /\ req[r].tried \subseteq Node
    BY <1>2, OrderIsWalk DEF IInv, TypeOK, RoundLocals, RequestLocals
  <1>4. ASSUME NEW n \in Node PROVE n \in req[r].tried
    <2>1. PICK i \in 1 .. Len(round[r].walk) : round[r].walk[i] = n
      BY <1>2, OrderIsComplete
    <2>2. i < round[r].pos
      BY <1>1, <1>3
    <2> QED BY <1>1, <1>2, <2>1, <2>2 DEF Accounted, OnlyPenalized
  <1> QED BY <1>3, <1>4

\* Who answers what.
LEMMA AnswerSteps ==
    ASSUME TypeOK, NEW r \in Request, Moves(r)
    PROVE  /\ \A q \in Request \ {r} : answer'[q] = answer[q]
           /\ answer'[r] = "AllNodesFailed" => answer' = answer \/ AllNodesFailed(r)
  <1>0. answer \in [Request -> Answer]
    BY DEF TypeOK
  <1>1. CASE AllNodesFailed(r)
    BY <1>0, <1>1 DEF AllNodesFailed, Close
  <1>2. CASE \/ StartRound(r)
             \/ SkipTried(r) \/ SkipPenalized(r) \/ SkipSaturated(r) \/ TakePermit(r)
             \/ TakeToken(r) \/ RateLimited(r)
             \/ BookRefused(r) \/ BookAccepted(r) \/ AddAndSend(r)
             \/ SleepOnRateLimit(r) \/ Wake(r) \/ FailOpen(r)
             \/ AdmitWaiting(r) \/ Granted(r)
             \/ \E m \in Method : Arrive(r, m)
    <2>1. answer' = answer
      BY <1>2 DEF StartRound, SkipTried, SkipPenalized, SkipSaturated, TakePermit, TakeToken,
                  RateLimited, BookRefused, BookAccepted, AddAndSend, SleepOnRateLimit, Wake,
                  FailOpen, AdmitWaiting, Granted, Arrive
    <2> QED BY <2>1
  <1>3. CASE RejectBody(r)
    BY <1>0, <1>3 DEF RejectBody
  <1>4. ASSUME NEW v, AttemptEnds(r, v)
        PROVE  answer' = answer \/ answer' = [answer EXCEPT ![r] = "Forwarded"]
    BY <1>4 DEF AttemptEnds, Close
  <1>5. CASE Timeout(r) \/ Disconnect(r)
    <2>1. \/ answer' = [answer EXCEPT ![r] = "Timeout"]
          \/ answer' = [answer EXCEPT ![r] = "Dropped"]
      BY <1>5 DEF Timeout, Disconnect, Cancel, Close
    <2> QED BY <1>0, <2>1
  <1>6. CASE AttemptDeadline(r) \/ \E v \in Verdicts : AttemptEnds(r, v)
    <2>1. answer' = answer \/ answer' = [answer EXCEPT ![r] = "Forwarded"]
      BY <1>4, <1>6 DEF AttemptDeadline
    <2> QED BY <1>0, <2>1
  <1> QED BY <1>1, <1>2, <1>3, <1>5, <1>6 DEF Moves, Step

-----------------------------------------------------------------------------
(* The theorems *)

\* The invariant holds at the start.
LEMMA ServiceInit == Init => SInv
  <1> SUFFICES ASSUME Init PROVE SInv
    OBVIOUS
  <1>1. \A r \in Request : pc[r] = "new"
    BY DEF Init
  <1>2. Booked /\ Passed
    BY <1>1 DEF Booked, BookedOK, Passed, PassedOK, OnWalk
  <1>3. ASSUME NEW n \in Node, NEW c \in 0 .. UnknownCost
        PROVE  usage[n] + Cardinality(Adders(n)) * c <= Threshold[n] + MaxConcurrent[n] * c
    <2>1. Adders(n) = {}
      BY <1>1 DEF Adders
    <2>2. Cardinality(Adders(n)) = 0
      BY <2>1, FS_EmptySet
    <2>3. usage[n] = 0
      BY DEF Init, Nothing
    <2>4. c \in Nat /\ Threshold[n] \in Nat /\ MaxConcurrent[n] \in Nat
      BY LimitAssumption
    <2>5. MaxConcurrent[n] * c \in Nat /\ 0 * c = 0
      BY <2>4
    <2>6. usage[n] + Cardinality(Adders(n)) * c = 0
      BY <2>2, <2>3, <2>5
    <2> QED BY <2>4, <2>5, <2>6
  <1>4. Budget
    BY <1>3 DEF Budget, SpendOK
  <1> QED BY <1>2, <1>4, InitInv, PermitsInit DEF SInv

\* Every step preserves it.
LEMMA ServiceStep == SInv /\ [Next]_vars => SInv'
  <1> SUFFICES ASSUME SInv, [Next]_vars PROVE SInv'
    OBVIOUS
  <1>1. IInv' /\ TypeOK'
    BY StepInv DEF SInv, IInv
  <1>2. PermitsConserved'
    BY PermitsStep DEF SInv
  <1>3. Booked' /\ Passed'
    BY BookedStep, PassedStep DEF SInv
  <1>4. Budget'
    BY <1>1, <1>2, BudgetStep DEF SInv
  <1> QED BY <1>1, <1>2, <1>3, <1>4 DEF SInv

\* The counter is at most where its adders would take it.
LEMMA SpendImplies == SInv => OverspendBounded
  <1> SUFFICES ASSUME SInv, NEW n \in Node, NEW c \in 0 .. UnknownCost, ChargesAtMost(n, c)
               PROVE  usage[n] <= Threshold[n] + MaxConcurrent[n] * c
    BY DEF OverspendBounded
  <1>1. usage[n] + Cardinality(Adders(n)) * c <= Threshold[n] + MaxConcurrent[n] * c
    BY DEF SInv, Budget, SpendOK
  <1>2. Cardinality(Adders(n)) \in Nat
    BY AddersHold DEF SInv, IInv, AddersWithin
  <1>3. c \in Nat /\ Threshold[n] \in Nat /\ MaxConcurrent[n] \in Nat /\ usage[n] \in Nat
    BY LimitAssumption DEF SInv, IInv, TypeOK
  <1>4. MaxConcurrent[n] * c \in Nat /\ Cardinality(Adders(n)) * c \in Nat
    BY <1>2, <1>3
  <1> QED BY <1>1, <1>3, <1>4

\* try_acquire_owned, acquire_owned and the drop of a permit on every path out of
\* admit, admit_waiting, an attempt, a timeout or a closed connection: of a
\* node's max_concurrent permits none is lost and none is made.
THEOREM PermitsAreConserved == Spec => []PermitsConserved
  <1>1. SInv => PermitsConserved
    BY DEF SInv
  <1> QED BY <1>1, ServiceInit, ServiceStep, PTL DEF Spec

\* book reads a node's counter and adds to it in two steps, yet no interleaving
\* of any number of requests takes it further past the spillover threshold than
\* one charge for every permit of the node.
THEOREM OverspendIsBounded == Spec => []OverspendBounded
  BY ServiceInit, ServiceStep, SpendImplies, PTL DEF Spec

\* route gives up only on a request that every node was sent or refused for its
\* quota or its method, whatever the ranks, the other requests and the nodes'
\* penalties, permits and buckets did meanwhile.
THEOREM FailedAfterAll == Spec => FailedMeansExhausted
  <1>1. SInv /\ [Next]_vars
          => [\A r \in Request : answer[r] = "None" /\ answer'[r] = "AllNodesFailed"
                 => req[r].tried = Node]_vars
    <2> SUFFICES ASSUME SInv, [Next]_vars, NEW r \in Request, answer[r] = "None",
                        answer'[r] = "AllNodesFailed"
                 PROVE  req[r].tried = Node
      OBVIOUS
    <2>1. IInv /\ TypeOK /\ Passed
      BY DEF SInv, IInv
    <2>2. answer' # answer
      OBVIOUS
    <2>3. PICK q \in Request : Moves(q)
      BY <2>2, StepsSplit, EnvironmentStays
    <2>4. q = r /\ AllNodesFailed(r)
      BY <2>1, <2>2, <2>3, AnswerSteps
    <2> QED BY <2>1, <2>4, WalkedAll DEF AllNodesFailed
  <1> QED BY <1>1, ServiceInit, ServiceStep, PTL DEF Spec, FailedMeansExhausted

-----------------------------------------------------------------------------
(* Router implements Service *)

\* The state of the service, request by request.
Phase(q) == IF pc[q] \in {"new", "done"} THEN pc[q] ELSE "open"
AtNode(q) == IF pc[q] = "attempt" THEN cur[q] ELSE NoNode

\* The service sees nothing of the requests a step of r leaves alone.
Quiet(q) ==
    /\ Phase(q)' = Phase(q) /\ AtNode(q)' = AtNode(q)
    /\ req'[q].tried = req[q].tried /\ answer'[q] = answer[q]

\* A waiter that is handed a permit is as open as before.
LEMMA OthersQuiet ==
    ASSUME IInv, NEW r \in Request, Moves(r)
    PROVE  \A q \in Request \ {r} : Quiet(q)
  <1>1. OthersStay(r) /\ \A q \in Request \ {r} : answer'[q] = answer[q]
    BY OthersLeft, AnswerSteps DEF IInv
  <1> QED BY <1>1 DEF OthersStay, Quiet, Phase, AtNode

\* What the service sees of a step of r.
LEMMA PromiseMoves ==
    ASSUME TypeOK, TypeOK', NEW r \in Request, \A q \in Request \ {r} : Quiet(q)
    PROVE  /\ [q \in Request |-> IF pc[q] \in {"new", "done"} THEN pc[q] ELSE "open"]'
                = [[q \in Request |-> IF pc[q] \in {"new", "done"} THEN pc[q] ELSE "open"]
                     EXCEPT ![r] = Phase(r)']
           /\ [q \in Request |-> req[q].tried]'
                = [[q \in Request |-> req[q].tried] EXCEPT ![r] = req'[r].tried]
           /\ [q \in Request |-> IF pc[q] = "attempt" THEN cur[q] ELSE NoNode]'
                = [[q \in Request |-> IF pc[q] = "attempt" THEN cur[q] ELSE NoNode]
                     EXCEPT ![r] = AtNode(r)']
           /\ answer' = [answer EXCEPT ![r] = answer'[r]]
  <1>1. answer' = [answer EXCEPT ![r] = answer'[r]]
    BY DEF Quiet, TypeOK
  <1>2. [q \in Request |-> req[q].tried]'
          = [[q \in Request |-> req[q].tried] EXCEPT ![r] = req'[r].tried]
    BY DEF Quiet
  <1>3. [q \in Request |-> IF pc[q] \in {"new", "done"} THEN pc[q] ELSE "open"]'
          = [[q \in Request |-> IF pc[q] \in {"new", "done"} THEN pc[q] ELSE "open"]
               EXCEPT ![r] = Phase(r)']
    BY DEF Quiet, Phase
  <1>4. [q \in Request |-> IF pc[q] = "attempt" THEN cur[q] ELSE NoNode]'
          = [[q \in Request |-> IF pc[q] = "attempt" THEN cur[q] ELSE NoNode]
               EXCEPT ![r] = AtNode(r)']
    BY DEF Quiet, AtNode
  <1> QED BY <1>1, <1>2, <1>3, <1>4

\* A step the service does not see.
LEMMA PromiseStutters ==
    ASSUME TypeOK, TypeOK', \A q \in Request : Quiet(q)
    PROVE  UNCHANGED Promise!vars
  <1>1. answer' = answer
    BY DEF Quiet, TypeOK
  <1>2. /\ [q \in Request |-> IF pc[q] \in {"new", "done"} THEN pc[q] ELSE "open"]'
             = [q \in Request |-> IF pc[q] \in {"new", "done"} THEN pc[q] ELSE "open"]
        /\ [q \in Request |-> req[q].tried]' = [q \in Request |-> req[q].tried]
        /\ [q \in Request |-> IF pc[q] = "attempt" THEN cur[q] ELSE NoNode]'
             = [q \in Request |-> IF pc[q] = "attempt" THEN cur[q] ELSE NoNode]
    BY DEF Quiet, Phase, AtNode
  <1> QED BY <1>1, <1>2 DEF Promise!vars

\* The steps of the service, read off one request.
Opens(r) ==
    /\ Phase(r) = "new" /\ Phase(r)' = "open"
    /\ req'[r].tried = req[r].tried /\ AtNode(r)' = AtNode(r) /\ answer'[r] = answer[r]
Rejects(r) ==
    /\ Phase(r) = "new" /\ Phase(r)' = "done"
    /\ req'[r].tried = req[r].tried /\ AtNode(r)' = AtNode(r) /\ answer'[r] = "BadRequest"
Spends(r, n) ==
    /\ Phase(r) = "open" /\ Phase(r)' = "open" /\ AtNode(r) = NoNode
    /\ n \in Node \ req[r].tried /\ AtNode(r)' \in {n, NoNode}
    /\ req'[r].tried = req[r].tried \union {n} /\ answer'[r] = answer[r]
Fails(r) ==
    /\ Phase(r)' = Phase(r) /\ AtNode(r) # NoNode /\ AtNode(r)' = NoNode
    /\ req'[r].tried = req[r].tried /\ answer'[r] = answer[r]
Closes(r) ==
    /\ Phase(r) = "open" /\ Phase(r)' = "done"
    /\ req'[r].tried = {} /\ AtNode(r)' = NoNode
    /\ \/ answer'[r] = "Forwarded" /\ AtNode(r) # NoNode
       \/ answer'[r] = "AllNodesFailed" /\ AtNode(r) = NoNode /\ req[r].tried = Node
       \/ answer'[r] \in {"Timeout", "Dropped"}

\* Such a step of r, with the other requests quiet, is a step of the service.
LEMMA PromiseSteps ==
    ASSUME TypeOK, TypeOK', NEW r \in Request, \A q \in Request \ {r} : Quiet(q),
           \/ Opens(r) \/ Rejects(r) \/ (\E n \in Node : Spends(r, n)) \/ Fails(r)
           \/ Closes(r)
    PROVE  Promise!Next
  <1> DEFINE phase == [q \in Request |-> IF pc[q] \in {"new", "done"} THEN pc[q] ELSE "open"]
             phaseN == [q \in Request |-> IF pc[q] \in {"new", "done"} THEN pc[q] ELSE "open"]'
             spent == [q \in Request |-> req[q].tried]
             spentN == [q \in Request |-> req[q].tried]'
             inflight == [q \in Request |-> IF pc[q] = "attempt" THEN cur[q] ELSE NoNode]
             inflightN == [q \in Request |-> IF pc[q] = "attempt" THEN cur[q] ELSE NoNode]'
  <1>1. /\ phaseN = [phase EXCEPT ![r] = Phase(r)']
        /\ spentN = [spent EXCEPT ![r] = req'[r].tried]
        /\ inflightN = [inflight EXCEPT ![r] = AtNode(r)']
        /\ answer' = [answer EXCEPT ![r] = answer'[r]]
    BY PromiseMoves
  <1>2. phase[r] = Phase(r) /\ spent[r] = req[r].tried /\ inflight[r] = AtNode(r)
    BY DEF Phase, AtNode
  <1>3. /\ phase = [phase EXCEPT ![r] = phase[r]]
        /\ spent = [spent EXCEPT ![r] = spent[r]]
        /\ inflight = [inflight EXCEPT ![r] = inflight[r]]
        /\ answer = [answer EXCEPT ![r] = answer[r]]
    BY DEF TypeOK
  <1>4. ASSUME Opens(r) PROVE Promise!Next
    <2>1. /\ phase[r] = "new" /\ phaseN = [phase EXCEPT ![r] = "open"]
          /\ spentN = spent /\ inflightN = inflight /\ answer' = answer
      <3> HIDE DEF phase, phaseN, spent, spentN, inflight, inflightN
      <3> QED BY <1>1, <1>2, <1>3, <1>4 DEF Opens
    <2>2. Promise!Open(r)
      BY <2>1, Zenon DEF Promise!Open
    <2> QED BY <2>2 DEF Promise!Next
  <1>5. ASSUME Rejects(r) PROVE Promise!Next
    <2>1. /\ phase[r] = "new" /\ phaseN = [phase EXCEPT ![r] = "done"]
          /\ spentN = spent /\ inflightN = inflight
          /\ answer' = [answer EXCEPT ![r] = "BadRequest"]
      <3> HIDE DEF phase, phaseN, spent, spentN, inflight, inflightN
      <3> QED BY <1>1, <1>2, <1>3, <1>5 DEF Rejects
    <2>2. Promise!Reject(r)
      BY <2>1, Zenon DEF Promise!Reject
    <2> QED BY <2>2 DEF Promise!Next
  <1>6. ASSUME NEW n \in Node, Spends(r, n) PROVE Promise!Next
    <2>1. /\ phase[r] = "open" /\ phaseN = phase /\ inflight[r] = NoNode /\ n \notin spent[r]
          /\ spentN = [spent EXCEPT ![r] = spent[r] \union {n}] /\ answer' = answer
          /\ inflightN = [inflight EXCEPT ![r] = n] \/ inflightN = inflight
      <3> HIDE DEF phase, phaseN, spent, spentN, inflight, inflightN
      <3> QED BY <1>1, <1>2, <1>3, <1>6 DEF Spends
    <2>2. Promise!Offer(r, n) \/ Promise!RuleOut(r, n)
      BY <2>1, Zenon DEF Promise!Offer, Promise!RuleOut
    <2> QED BY <2>2 DEF Promise!Next
  <1>7. ASSUME Fails(r) PROVE Promise!Next
    <2>1. /\ inflight[r] # NoNode /\ inflightN = [inflight EXCEPT ![r] = NoNode]
          /\ phaseN = phase /\ spentN = spent /\ answer' = answer
      <3> HIDE DEF phase, phaseN, spent, spentN, inflight, inflightN
      <3> QED BY <1>1, <1>2, <1>3, <1>7 DEF Fails
    <2>2. Promise!Fail(r)
      BY <2>1, Zenon DEF Promise!Fail
    <2> QED BY <2>2 DEF Promise!Next
  <1>8. ASSUME Closes(r) PROVE Promise!Next
    <2>1. /\ phase[r] = "open" /\ phaseN = [phase EXCEPT ![r] = "done"]
          /\ spentN = [spent EXCEPT ![r] = {}] /\ inflightN = [inflight EXCEPT ![r] = NoNode]
      <3> HIDE DEF phase, phaseN, spent, spentN, inflight, inflightN
      <3> QED BY <1>1, <1>2, <1>8 DEF Closes
    <2>2. PICK o \in {"Forwarded", "AllNodesFailed", "Timeout", "Dropped"} :
             /\ answer' = [answer EXCEPT ![r] = o]
             /\ \/ o = "Forwarded" /\ inflight[r] # NoNode
                \/ o = "AllNodesFailed" /\ inflight[r] = NoNode /\ spent[r] = Node
                \/ o \in {"Timeout", "Dropped"}
      <3> HIDE DEF phase, phaseN, spent, spentN, inflight, inflightN
      <3> QED BY <1>1, <1>2, <1>8 DEF Closes
    <2>3. Promise!Warranted(r, o)
      BY <2>2, Zenon DEF Promise!Warranted
    <2>4. Promise!Close(r, o)
      BY <2>1, <2>2, <2>3, Zenon DEF Promise!Close
    <2> QED BY <2>4 DEF Promise!Next
  <1> QED BY <1>4, <1>5, <1>6, <1>7, <1>8

\* Close resets what the service sees of r.
LEMMA CloseSeen ==
    ASSUME TypeOK, NEW r \in Request, NEW a, Close(r, a), pc'[r] = "done"
    PROVE  /\ Phase(r)' = "done" /\ AtNode(r)' = NoNode
           /\ req'[r].tried = {} /\ answer'[r] = a
  <1>1. req'[r] = NoRequest /\ answer'[r] = a
    BY DEF Close, TypeOK
  <1>2. NoRequest.tried = {}
    BY Zenon DEF NoRequest
  <1> QED BY <1>1, <1>2 DEF Phase, AtNode

\* Every step of a request is a step of the service or is not seen by it.
LEMMA MovesImplement ==
    ASSUME SInv, NEW r \in Request, Moves(r)
    PROVE  \/ Quiet(r) \/ Opens(r) \/ Rejects(r) \/ (\E n \in Node : Spends(r, n))
           \/ Fails(r) \/ Closes(r)
  <1> USE DEF SInv, IInv
  <1>0. /\ pc \in [Request -> Pc] /\ req \in [Request -> RequestLocals]
        /\ cur \in [Request -> Node \union {NoNode}] /\ answer \in [Request -> Answer]
        /\ via \in [Request -> {"walk", "wait"}]
        /\ PlaceOK(r) /\ req[r] \in RequestLocals
    BY DEF TypeOK, Places
  <1>1. ASSUME NEW m \in Method, Arrive(r, m) PROVE Opens(r)
    <2>1. /\ pc[r] = "new" /\ pc'[r] = "round" /\ answer' = answer
          /\ req'[r].tried = {} /\ req[r].tried = {}
      BY <1>0, <1>1 DEF Arrive, PlaceOK
    <2> QED BY <2>1 DEF Opens, Phase, AtNode
  <1>2. ASSUME RejectBody(r) PROVE Rejects(r)
    <2>1. /\ pc[r] = "new" /\ pc'[r] = "done" /\ answer'[r] = "BadRequest" /\ req' = req
      BY <1>0, <1>2 DEF RejectBody
    <2> QED BY <2>1 DEF Rejects, Phase, AtNode
  <1>3. ASSUME \/ StartRound(r)
               \/ SkipTried(r) \/ SkipPenalized(r) \/ SkipSaturated(r) \/ TakePermit(r)
               \/ TakeToken(r) \/ BookAccepted(r)
               \/ SleepOnRateLimit(r) \/ Wake(r) \/ AdmitWaiting(r) \/ Granted(r)
        PROVE  Quiet(r)
    <2>1. req' = req /\ answer' = answer
      BY <1>3 DEF StartRound, SkipTried, SkipPenalized, SkipSaturated, TakePermit, TakeToken,
                  BookAccepted, SleepOnRateLimit, Wake, AdmitWaiting, Granted
    <2>2. pc[r] \notin {"new", "done", "attempt"} /\ pc'[r] \notin {"new", "done", "attempt"}
      BY <1>0, <1>3 DEF StartRound, SkipTried, SkipPenalized, SkipSaturated, TakePermit,
                  TakeToken, BookAccepted, SleepOnRateLimit, Wake, AdmitWaiting, Granted,
                  Walking, Walked
    <2> QED BY <2>1, <2>2 DEF Quiet, Phase, AtNode
  <1>4. ASSUME FailOpen(r) PROVE Quiet(r)
    <2>1. /\ pc[r] = "walk" /\ pc'[r] = "round" /\ answer' = answer
          /\ req'[r].tried = req[r].tried
      BY <1>0, <1>4 DEF FailOpen, NothingToWaitFor, Walked, RequestLocals
    <2> QED BY <2>1 DEF Quiet, Phase, AtNode
  <1>5. ASSUME RateLimited(r) PROVE Quiet(r)
    <2>1. pc[r] = "rate" /\ cur[r] \in Node /\ req' = req /\ answer' = answer
      BY <1>0, <1>5 DEF RateLimited, PlaceOK, OnNode
    <2>2. \E next \in {"walk", "sleep"} : Release(r, cur[r], next)
      BY <1>5 DEF RateLimited
    <2>3. {"walk", "sleep"} \subseteq Pc
      BY DEF Pc, Await
    <2>4. pc'[r] \in {"walk", "sleep"}
      BY <2>1, <2>2, <2>3, ReleaseMoves
    <2> QED BY <2>1, <2>4 DEF Quiet, Phase, AtNode
  <1>6. ASSUME BookRefused(r) PROVE Spends(r, cur[r]) /\ cur[r] \in Node
    <2>1. pc[r] = "book" /\ cur[r] \in Node /\ cur[r] \notin req[r].tried /\ answer' = answer
      BY <1>0, <1>6 DEF BookRefused, PlaceOK, OnNode
    <2>2. req'[r].tried = req[r].tried \union {cur[r]}
      BY <1>0, <1>6 DEF BookRefused, MarkTried, RequestLocals
    <2>3. Release(r, cur[r], MoveOn(r)) /\ MoveOn(r) \in {"walk", "round"}
      BY <1>6 DEF BookRefused, MoveOn
    <2>4. {"walk", "round"} \subseteq Pc
      BY DEF Pc
    <2>5. pc'[r] \in {"walk", "round"}
      BY <2>1, <2>3, <2>4, ReleaseMoves
    <2> QED BY <2>1, <2>2, <2>5 DEF Spends, Phase, AtNode
  <1>7. ASSUME AddAndSend(r) PROVE Spends(r, cur[r]) /\ cur[r] \in Node
    <2>1. /\ pc[r] = "add" /\ pc'[r] = "attempt" /\ cur[r] \in Node
          /\ cur[r] \notin req[r].tried /\ answer' = answer /\ cur' = cur
      BY <1>0, <1>7 DEF AddAndSend, PlaceOK, OnNode
    <2>2. req'[r].tried = req[r].tried \union {cur[r]}
      BY <1>0, <1>7 DEF AddAndSend, MarkTried, RequestLocals
    <2> QED BY <2>1, <2>2 DEF Spends, Phase, AtNode
  <1>8. ASSUME NEW v \in Verdicts, AttemptEnds(r, v) PROVE Fails(r) \/ Closes(r)
    <2>1. pc[r] = "attempt" /\ cur[r] \in Node /\ cur[r] # NoNode
      BY <1>0, <1>8, NodeAssumption DEF AttemptEnds, PlaceOK, OnNode
    <2>2. CASE v.attempt = "Done"
      <3>1. Release(r, cur[r], "done") /\ Close(r, "Forwarded") /\ "done" \in Pc
        BY <1>8, <2>2 DEF AttemptEnds, Pc
      <3>2. pc'[r] = "done"
        BY <2>1, <3>1, ReleaseMoves
      <3>3. /\ Phase(r)' = "done" /\ AtNode(r)' = NoNode
            /\ req'[r].tried = {} /\ answer'[r] = "Forwarded"
        BY <3>1, <3>2, CloseSeen
      <3>4. Phase(r) = "open" /\ AtNode(r) # NoNode
        BY <2>1 DEF Phase, AtNode
      <3> QED BY <3>3, <3>4 DEF Closes
    <2>3. CASE v.attempt = "Retry"
      <3>1. Release(r, cur[r], MoveOn(r)) /\ MoveOn(r) \in {"walk", "round"}
        BY <1>8, <2>3 DEF AttemptEnds, MoveOn
      <3>2. {"walk", "round"} \subseteq Pc
        BY DEF Pc
      <3>3. pc'[r] \in {"walk", "round"}
        BY <2>1, <3>1, <3>2, ReleaseMoves
      <3>4. req' = req /\ answer' = answer
        BY <1>8, <2>3 DEF AttemptEnds
      <3> QED BY <2>1, <3>3, <3>4 DEF Fails, Phase, AtNode
    <2> QED BY <2>2, <2>3, VerdictsTyped
  <1>9. ASSUME AttemptDeadline(r) PROVE Fails(r) \/ Closes(r)
    BY <1>8, <1>9, TransportErrorIsVerdict DEF AttemptDeadline
  <1>10. ASSUME AllNodesFailed(r) PROVE Closes(r)
    <2>1. req[r].tried = Node
      BY <1>10, WalkedAll DEF AllNodesFailed
    <2>2. pc[r] = "walk" /\ pc'[r] = "done" /\ Close(r, "AllNodesFailed")
      BY <1>0, <1>10 DEF AllNodesFailed, NothingToWaitFor, Walked
    <2>3. /\ Phase(r)' = "done" /\ AtNode(r)' = NoNode
          /\ req'[r].tried = {} /\ answer'[r] = "AllNodesFailed"
      BY <2>2, CloseSeen
    <2>4. Phase(r) = "open" /\ AtNode(r) = NoNode
      BY <2>2 DEF Phase, AtNode
    <2> QED BY <2>1, <2>3, <2>4 DEF Closes
  <1>11. ASSUME NEW a \in {"Timeout", "Dropped"}, Cancel(r, a) PROVE Closes(r)
    <2>1. pc'[r] = "done" /\ pc[r] \notin {"new", "done"}
      <3>1. CASE pc[r] \in {"attempt", "granted"}
        <4>1. cur[r] \in Node /\ Release(r, cur[r], "done") /\ "done" \in Pc
          BY <1>0, <1>11, <3>1 DEF Cancel, PlaceOK, OnNode, Pc
        <4> QED BY <3>1, <4>1, ReleaseMoves
      <3>2. CASE pc[r] \in {"parked", "sleep"}
        BY <1>0, <1>11, <3>2 DEF Cancel
      <3> QED BY <1>11, <3>1, <3>2 DEF Cancel
    <2>2. Close(r, a)
      BY <1>11 DEF Cancel
    <2>3. /\ Phase(r)' = "done" /\ AtNode(r)' = NoNode
          /\ req'[r].tried = {} /\ answer'[r] = a
      BY <2>1, <2>2, CloseSeen
    <2>4. Phase(r) = "open"
      BY <2>1 DEF Phase
    <2> QED BY <2>3, <2>4 DEF Closes
  <1>12. ASSUME Timeout(r) \/ Disconnect(r) PROVE Closes(r)
    BY <1>11, <1>12 DEF Timeout, Disconnect
  <1> QED
    BY <1>1, <1>2, <1>3, <1>4, <1>5, <1>6, <1>7, <1>8, <1>9, <1>10, <1>12 DEF Moves, Step

\* The steps of Router are steps of Service.
LEMMA PromiseKeptByStep == SInv /\ SInv' /\ [Next]_vars => [Promise!Next]_(Promise!vars)
  <1> SUFFICES ASSUME SInv, SInv', [Next]_vars PROVE Promise!Next \/ UNCHANGED Promise!vars
    OBVIOUS
  <1>0. IInv /\ TypeOK /\ TypeOK'
    BY DEF SInv, IInv
  <1>1. ASSUME NEW r \in Request, Moves(r) PROVE Promise!Next \/ UNCHANGED Promise!vars
    <2>1. \A q \in Request \ {r} : Quiet(q)
      BY <1>0, <1>1, OthersQuiet
    <2>2. CASE Quiet(r)
      BY <1>0, <2>1, <2>2, PromiseStutters
    <2>3. CASE ~Quiet(r)
      <3>1. \/ Opens(r) \/ Rejects(r) \/ (\E n \in Node : Spends(r, n)) \/ Fails(r)
            \/ Closes(r)
        BY <1>1, <2>3, MovesImplement
      <3>2. Promise!Next
        BY <1>0, <2>1, <3>1, PromiseSteps
      <3> QED BY <3>2
    <2> QED BY <2>2, <2>3
  <1>2. CASE Rerank \/ Tick \/ Horizon \/ UNCHANGED vars
    <2>1. \A q \in Request : Quiet(q)
      BY <1>2, EnvironmentStays DEF Quiet, Phase, AtNode
    <2> QED BY <1>0, <2>1, PromiseStutters
  <1> QED BY <1>1, <1>2, StepsSplit

\* The balancer starts as the service does.
LEMMA PromiseKeptAtStart == Init => Promise!Init
  <1> SUFFICES ASSUME Init PROVE Promise!Init
    OBVIOUS
  <1>1. /\ pc = [r \in Request |-> "new"] /\ req = [r \in Request |-> NoRequest]
        /\ answer = [r \in Request |-> "None"]
    BY DEF Init
  <1>2. NoRequest.tried = {}
    BY Zenon DEF NoRequest
  <1>3. /\ [r \in Request |-> IF pc[r] \in {"new", "done"} THEN pc[r] ELSE "open"]
             = [r \in Request |-> "new"]
        /\ [r \in Request |-> req[r].tried] = [r \in Request |-> {}]
        /\ [r \in Request |-> IF pc[r] = "attempt" THEN cur[r] ELSE NoNode]
             = [r \in Request |-> NoNode]
    BY <1>1, <1>2
  <1> QED BY <1>1, <1>3 DEF Promise!Init

\* send, dispatch and route implement the service of Service.tla for any nodes,
\* requests and limits: a request is at one node at a time and at none twice, a
\* response comes from the node the request is at, and it is failed only when
\* every node has had it or ruled itself out.
THEOREM PromiseKept == Spec => KeepsPromise
  BY ServiceInit, ServiceStep, PromiseKeptAtStart, PromiseKeptByStep, PTL
     DEF Spec, KeepsPromise, Promise!Spec
=============================================================================
