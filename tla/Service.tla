------------------------------- MODULE Service -------------------------------
(***************************************************************************)
(* What the balancer promises a client, with the nodes' limits, penalties  *)
(* and the ranking left out: a request is offered to nodes one at a time   *)
(* and to each of them at most once, a response is forwarded only from the *)
(* node it is at, and "all nodes failed" is only said once every node has  *)
(* had it or has ruled itself out.  Router.tla implements this.            *)
(***************************************************************************)
CONSTANTS Node, Request, NoNode

VARIABLES phase,     \* new, open or done
          spent,     \* the nodes this request will not be offered to again
          inflight,  \* the node it is at, or NoNode
          outcome    \* what the client got

vars == <<phase, spent, inflight, outcome>>

Init ==
    /\ phase = [r \in Request |-> "new"]
    /\ spent = [r \in Request |-> {}]
    /\ inflight = [r \in Request |-> NoNode]
    /\ outcome = [r \in Request |-> "None"]

Open(r) ==
    /\ phase[r] = "new"
    /\ phase' = [phase EXCEPT ![r] = "open"]
    /\ UNCHANGED <<spent, inflight, outcome>>

Reject(r) ==
    /\ phase[r] = "new"
    /\ phase' = [phase EXCEPT ![r] = "done"]
    /\ outcome' = [outcome EXCEPT ![r] = "BadRequest"]
    /\ UNCHANGED <<spent, inflight>>

\* The request goes to a node that has not had it.
Offer(r, n) ==
    /\ phase[r] = "open" /\ inflight[r] = NoNode /\ n \notin spent[r]
    /\ spent' = [spent EXCEPT ![r] = @ \union {n}]
    /\ inflight' = [inflight EXCEPT ![r] = n]
    /\ UNCHANGED <<phase, outcome>>

\* A node without quota or without a price for the method.
RuleOut(r, n) ==
    /\ phase[r] = "open" /\ inflight[r] = NoNode /\ n \notin spent[r]
    /\ spent' = [spent EXCEPT ![r] = @ \union {n}]
    /\ UNCHANGED <<phase, inflight, outcome>>

Fail(r) ==
    /\ inflight[r] # NoNode
    /\ inflight' = [inflight EXCEPT ![r] = NoNode]
    /\ UNCHANGED <<phase, spent, outcome>>

\* What each answer asserts of the request it ends.
Warranted(r, o) ==
    \/ o = "Forwarded" /\ inflight[r] # NoNode
    \/ o = "AllNodesFailed" /\ inflight[r] = NoNode /\ spent[r] = Node
    \/ o \in {"Timeout", "Dropped"}

Close(r, o) ==
    /\ phase[r] = "open"
    /\ Warranted(r, o)
    /\ phase' = [phase EXCEPT ![r] = "done"]
    /\ outcome' = [outcome EXCEPT ![r] = o]
    /\ spent' = [spent EXCEPT ![r] = {}]
    /\ inflight' = [inflight EXCEPT ![r] = NoNode]

Next ==
    \E r \in Request :
        \/ Open(r) \/ Reject(r)
        \/ \E n \in Node : Offer(r, n) \/ RuleOut(r, n)
        \/ Fail(r)
        \/ \E o \in {"Forwarded", "AllNodesFailed", "Timeout", "Dropped"} : Close(r, o)

Spec == Init /\ [][Next]_vars
=============================================================================
