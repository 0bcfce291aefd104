------------------------------ MODULE MCBilling ------------------------------
(* Two nodes that trade one slot; their periods turn on different days. *)
EXTENDS Billing, TLC

CONSTANTS a, b

MCName == {a, b}
OneSlot == {0}
Swap == {{a}, {b}}
MCPeriodStart == a :> [d \in Day |-> IF d >= 1 THEN 1 ELSE 0]
              @@ b :> [d \in Day |-> IF d >= 2 THEN 2 ELSE 0]
=============================================================================
