----------------------------- MODULE MCPricing -----------------------------
(***************************************************************************)
(* Two nodes with a price list each, one built-in method and two others    *)
(* whose hashes collide.  The lists: one with a fallback, a typo and a     *)
(* built-in name under [custom]; one without [limits] that declares a      *)
(* custom method; one that declares both; one whose spillover is out of    *)
(* range.                                                                  *)
(* The configs: both orders, a duplicate name, and nodes that fail to load *)
(* and to build.                                                           *)
(* The bodies: the method first, last after a nested one, twice, first in a*)
(* body cut short, spelled with an escape - alone or before another - and a*)
(* batch.                                                                  *)
(***************************************************************************)
EXTENDS Pricing, TLC

CONSTANTS get, foo, bar, p1, p2, r1

MCBuiltin == {get}
MCOther == {foo, bar}
MCStandardId == get :> 1
MCHash == get :> 0 @@ foo :> 1 @@ bar :> 1
MCPath == {p1, p2}
MCPrice == 0 .. 9
MCRequest == {r1}

Has(depth, key, value) == [depth |-> depth, key |-> key, value |-> value]
MCBody == [object : {TRUE}, whole : {TRUE},
           members : {<<Has(1, "method", foo), Has(2, "method", get)>>,
                      <<Has(1, "params", NoMethod), Has(2, "method", foo),
                        Has(1, "method", bar)>>,
                      <<Has(1, "method", foo), Has(1, "method", get)>>,
                      <<Has(1, "method", NoMethod)>>,
                      <<Has(1, "method", NoMethod), Has(1, "method", get)>>}]
          \union {[object |-> TRUE, whole |-> FALSE,
                   members |-> <<Has(1, "method", get)>>],
                  [object |-> FALSE, whole |-> TRUE,
                   members |-> <<Has(2, "method", get)>>]}

List(routing, custom, limits) == [routing |-> routing, custom |-> custom, limits |-> limits]
Limits(spillover, unknown) == [spillover |-> spillover, unknown |-> unknown]

Typo == List(get :> 1 @@ foo :> 8, get :> 7, Limits(80, 5))
Foo == List(get :> 0, foo :> 3, NoLimits)
Both == List(get :> 2, foo :> 4 @@ bar :> 6, Limits(100, Absent))
Reserve == List(get :> 1, bar :> 2, Limits(0, 5))

MCFile == {Typo, Foo, Both, Reserve}

Entry(name, path, url, rps, limit, day) ==
    [name |-> name, path |-> path, url |-> url, rps |-> rps, limit |-> limit,
     resetDay |-> day]

A == Entry("a", p1, "plain", 1, 0, 1)
B == Entry("b", p2, "set", 1, 100, 31)

MCConfig == {<<A, B>>, <<B, A>>, <<A, [B EXCEPT !.name = "a"]>>,
             <<A, [B EXCEPT !.resetDay = 0]>>, <<A, [B EXCEPT !.rps = 0]>>}

MCStart == {[config |-> <<A, B>>, prices |-> p1 :> Typo @@ p2 :> Foo]}
=============================================================================
