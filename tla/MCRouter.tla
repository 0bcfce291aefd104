------------------------------ MODULE MCRouter ------------------------------
(***************************************************************************)
(* Two nodes of two tiers and two requests.  One node serves two attempts  *)
(* at once from a bucket of one, the other one attempt from a bucket of    *)
(* two; the second method has no price on the first node.  In the crowd of *)
(* three the first node's bucket holds a cell for everyone, so only its    *)
(* permits keep requests apart between the read of its counter and the     *)
(* addition, and the second's holds one, so it limits whoever comes next.  *)
(***************************************************************************)
EXTENDS Router, TLC

CONSTANTS n1, n2, r1, r2, r3, m1, m2

MCNode == {n1, n2}
MCRequest == {r1, r2}
Crowd == {r1, r2, r3}
MCMethod == {m1, m2}
OneMethod == {m1}
MCTier == n1 :> 1 @@ n2 :> 2
FlatTier == n1 :> 1 @@ n2 :> 1
MCMaxConcurrent == n1 :> 2 @@ n2 :> 1
Narrow == n1 :> 1 @@ n2 :> 1
MCBurst == n1 :> 1 @@ n2 :> 2
CrowdBurst == n1 :> 3 @@ n2 :> 1
MCInterval == n1 :> 1 @@ n2 :> 1
MCThreshold == n1 :> 0 @@ n2 :> 1
CrowdCost == [n \in MCNode |-> [m \in OneMethod |-> 1]]
MCCost == n1 :> (m1 :> 1 @@ m2 :> 9) @@ n2 :> (m1 :> 2 @@ m2 :> 1)

Plain(json, error, code) ==
    [small |-> TRUE, mentions |-> error, json |-> json,
     error |-> error, code |-> code]

\* An answer, a rejection, a failure that is forwarded, and a rate limit that
\* asks for two seconds.
MCResponse ==
    {[status |-> 200, header |-> 0, body |-> Plain(TRUE, FALSE, 0)],
     [status |-> 404, header |-> 0, body |-> Plain(FALSE, FALSE, 0)],
     [status |-> 503, header |-> 0, body |-> Plain(TRUE, FALSE, 0)],
     [status |-> 429, header |-> 2, body |-> Plain(TRUE, TRUE, -32005)]}

\* An answer and a rate limit: with the failures of transport, one response
\* of each kind the router tells apart.
TwoResponses == {x \in MCResponse : x.status \in {200, 429}}

\* An answer alone, beside the failures of transport.
OneResponse == {x \in MCResponse : x.status = 200}

Symmetry == Permutations(MCRequest)
CrowdSymmetry == Permutations(Crowd)
=============================================================================
