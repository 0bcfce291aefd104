----------------------------- MODULE MCBalancer -----------------------------
(* Three names over two slots, so a replaced node's slot is always recycled,
   with a request in flight; two of the configs are rejected. *)
EXTENDS Balancer, TLC

CONSTANTS a, b, c, r1

MCName == {a, b, c}
MCConfig == {<<a, b>>, <<b, c>>, <<c, a>>, <<c>>, <<a, a>>, <<a, b, c>>}
MCStartConfig == <<a, b>>
MCTier == a :> 1 @@ b :> 1 @@ c :> 2
MCLatency == {1}
MCRequest == {r1}
=============================================================================
