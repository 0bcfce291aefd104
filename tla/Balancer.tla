------------------------------ MODULE Balancer ------------------------------
(***************************************************************************)
(* Requests in flight while the node set is reloaded and reranked: route   *)
(* (src/core/router.rs) on top of Topology.tla.  A request loads the       *)
(* published set once per round and keeps walking its objects while a      *)
(* reload replaces them; it remembers the nodes it has tried by slot.      *)
(*                                                                         *)
(* Whether an untried node admits the request - penalty, permit, token,    *)
(* quota, price - is a choice here; Router.tla models what decides it.     *)
(***************************************************************************)
EXTENDS Topology

CONSTANT Request

VARIABLES pc,        \* where each request is in route
          tried,     \* the bitmask of slots
          snapshot,  \* topology.ranked as loaded for this round
          pos,       \* the walk's place in it
          declined,  \* did some node turn the request down for now?
          cur,       \* the object being attempted
          answer,    \* what the client got
          sends      \* history: how many attempts were sent

requestVars == <<pc, tried, snapshot, pos, declined, cur, answer, sends>>
vars == <<topologyVars, requestVars>>

NoObject == <<>>

BalancerInit ==
    /\ Init
    /\ pc = [r \in Request |-> "new"]
    /\ tried = [r \in Request |-> {}]
    /\ snapshot = [r \in Request |-> <<>>]
    /\ pos = [r \in Request |-> 1]
    /\ declined = [r \in Request |-> FALSE]
    /\ cur = [r \in Request |-> NoObject]
    /\ answer = [r \in Request |-> "None"]
    /\ sends = [r \in Request |-> 0]

At(r) == snapshot[r][pos[r]]
Walking(r) == pc[r] = "walk" /\ pos[r] <= Len(snapshot[r])
Walked(r) == pc[r] = "walk" /\ pos[r] > Len(snapshot[r])
Untried(r, o) == slot[o] \notin tried[r]

Arrive(r) ==
    /\ pc[r] = "new"
    /\ pc' = [pc EXCEPT ![r] = "round"]
    /\ UNCHANGED <<topologyVars, tried, snapshot, pos, declined, cur, answer, sends>>

\* load_full at the top of the loop.
StartRound(r) ==
    /\ pc[r] = "round"
    /\ pc' = [pc EXCEPT ![r] = "walk"]
    /\ snapshot' = [snapshot EXCEPT ![r] = topology.ranked]
    /\ pos' = [pos EXCEPT ![r] = 1]
    /\ declined' = [declined EXCEPT ![r] = FALSE]
    /\ UNCHANGED <<topologyVars, tried, cur, answer, sends>>

SkipTried(r) ==
    /\ Walking(r)
    /\ ~Untried(r, At(r))
    /\ pos' = [pos EXCEPT ![r] = @ + 1]
    /\ UNCHANGED <<topologyVars, pc, tried, snapshot, declined, cur, answer, sends>>

\* Penalized, rate-limited or saturated: not marked tried.
Decline(r) ==
    /\ Walking(r)
    /\ Untried(r, At(r))
    /\ pos' = [pos EXCEPT ![r] = @ + 1]
    /\ declined' = [declined EXCEPT ![r] = TRUE]
    /\ UNCHANGED <<topologyVars, pc, tried, snapshot, cur, answer, sends>>

\* Mutant: the bit is never set.
MarkNothing(r, o) == UNCHANGED tried

\* tried |= 1 << node.id
Mark(r, o) == tried' = [tried EXCEPT ![r] = @ \union {slot[o]}]

\* Admission::Skip, on the walk or (next = "round") after admit_waiting.
Refuse(r, o, next) ==
    /\ Untried(r, o)
    /\ Mark(r, o)
    /\ pos' = [pos EXCEPT ![r] = @ + 1]
    /\ pc' = [pc EXCEPT ![r] = next]
    /\ UNCHANGED <<topologyVars, snapshot, declined, cur, answer, sends>>

\* Admission::Ready: the cost is booked on the object's slot and the attempt
\* is sent.  pos is past the node, so a failure goes on with the walk.
Send(r, o) ==
    /\ Untried(r, o)
    /\ Book(o, 1)
    /\ Mark(r, o)
    /\ sends' = [sends EXCEPT ![r] = @ + 1]
    /\ cur' = [cur EXCEPT ![r] = o]
    /\ pos' = [pos EXCEPT ![r] = @ + 1]
    /\ pc' = [pc EXCEPT ![r] = "attempt"]
    /\ UNCHANGED <<snapshot, declined, answer>>

Admit(r) == Walking(r) /\ (Refuse(r, At(r), "walk") \/ Send(r, At(r)))

\* admit_waiting on a node that was saturated during the walk.  The walk is
\* over either way, so the request goes on with a new round.
AdmitWaiting(r) ==
    /\ Walked(r) /\ declined[r]
    /\ \E o \in Elements(snapshot[r]) : Refuse(r, o, "round") \/ Send(r, o)

\* Where a failed attempt leads: the walk's next node, or - when the attempt
\* was admit_waiting's, two past the end - a new round.
AfterFailure(r) == IF pos[r] > Len(snapshot[r]) + 1 THEN "round" ELSE "walk"

Finish(r, a) ==
    /\ pc' = [pc EXCEPT ![r] = "done"]
    /\ answer' = [answer EXCEPT ![r] = a]
    /\ cur' = [cur EXCEPT ![r] = NoObject]
    /\ snapshot' = [snapshot EXCEPT ![r] = <<>>]
    /\ pos' = [pos EXCEPT ![r] = 1]
    /\ UNCHANGED <<tried, declined, sends>>

\* The attempt settles the request: an answer is measured, a failure that is
\* forwarded penalized, a rejection says nothing of the node.
AttemptDone(r) ==
    /\ pc[r] = "attempt"
    /\ Finish(r, "Forwarded")
    /\ \/ \E latency \in Latency : Observe(cur[r], latency)
       \/ Penalize(cur[r])
       \/ UNCHANGED topologyVars

\* Mutant: a failed attempt's cost is given back, to whoever has the slot now.
Refund(o) ==
    /\ usage' = [usage EXCEPT ![slot[o]] = @ - 1]
    /\ UNCHANGED <<publishVars, slot, healthVars, own>>

\* The object the attempt was sent to is penalized, published or not.
Blame(o) == Penalize(o)

AttemptFails(r) ==
    /\ pc[r] = "attempt"
    /\ pc' = [pc EXCEPT ![r] = AfterFailure(r)]
    /\ cur' = [cur EXCEPT ![r] = NoObject]
    /\ Blame(cur[r])
    /\ UNCHANGED <<tried, snapshot, pos, declined, answer, sends>>

\* A rate-limit sleep or the fail-open round.
NextRound(r) ==
    /\ Walked(r) /\ declined[r]
    /\ pc' = [pc EXCEPT ![r] = "round"]
    /\ UNCHANGED <<topologyVars, tried, snapshot, pos, declined, cur, answer, sends>>

AllNodesFailed(r) ==
    /\ Walked(r) /\ ~declined[r]
    /\ Finish(r, "AllNodesFailed")
    /\ UNCHANGED topologyVars

\* The global budget ends in an attempt or in a wait between two rounds.
Timeout(r) ==
    /\ pc[r] = "attempt" \/ (Walked(r) /\ declined[r])
    /\ Finish(r, "Timeout")
    /\ UNCHANGED topologyVars

RequestStep(r) ==
    \/ Arrive(r) \/ StartRound(r)
    \/ SkipTried(r) \/ Decline(r) \/ Admit(r) \/ AdmitWaiting(r)
    \/ AttemptDone(r) \/ AttemptFails(r)
    \/ NextRound(r) \/ AllNodesFailed(r) \/ Timeout(r)

BalancerNext ==
    \/ \E r \in Request : RequestStep(r)
    \/ Publishers /\ UNCHANGED requestVars
    \/ (\E o \in Published : Expire(o)) /\ UNCHANGED requestVars

BalancerSpec == BalancerInit /\ [][BalancerNext]_vars

-----------------------------------------------------------------------------
(* Properties *)

\* A request ends however often the set is reloaded under it: the bitmask has
\* one bit per slot, so whatever names come and go it is attempted no more
\* often than there are slots.
AttemptsBounded == \A r \in Request : sends[r] <= MaxNodes

\* The requests change the nodes and the counters only in the ways
\* Topology.tla allows its traffic, so everything checked and proved of
\* Topology holds with requests in flight.
ImplementsTopology == Spec

\* "slots freed by removed nodes are recycled - zeroed on the way out, or
\* whoever takes one would inherit a stranger's spend" (topology.rs:121): the
\* counter of a published node holds what was booked under its name.
NoStrangersSpend ==
    \A o \in Elements(topology.all) :
        reloadPc = "idle" => usage[slot[o]] = own[slot[o]]
=============================================================================
