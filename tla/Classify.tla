------------------------------ MODULE Classify ------------------------------
(***************************************************************************)
(* What one upstream response means (src/core/upstream.rs): whether it     *)
(* settles the client's request, and what it says about the node.  Pure    *)
(* operators, used by Router.tla for every attempt of the request path.    *)
(*                                                                         *)
(* A body is abstracted to the four facts classify_response tests:         *)
(*   small     at most VALIDATE_BELOW bytes;                               *)
(*   mentions  the bytes contain "error" in quotes;                        *)
(*   json      the bytes deserialize as RpcErrorOnly;                      *)
(*   error     that value has an error member, of code code.               *)
(***************************************************************************)
EXTENDS Integers

\* A body with an error member is JSON and spells the key.  An escaped
\* spelling of the key is left out.
IsBody(b) == b.error => b.json /\ b.mentions

\* upstream.rs:252 - the statuses that say something about the request.
IsFinalStatus(status) ==
    status \in {400, 402, 428, 431, 451} \union (404 .. 418) \union (421 .. 426)

\* upstream.rs:271 - every code but the four the JSON-RPC specification gives
\* to a request no node can serve.
IsRetryableJsonRpcError(code) == code \notin {-32700, -32601, -32602, -32600}

IsSuccess(status) == status \in 200 .. 299

\* upstream.rs:124 - the header is only read on a 429.
RetryAfter(status, header) == IF status = 429 THEN header ELSE 0

\* A verdict: does the attempt settle the request ("Done") or go to the next
\* node ("Retry"); the Outcome label recorded; what is done to the node
\* ("penalize", "observe" or "leave"); and the cooldown passed to penalize.
Verdict(attempt, outcome, health, cooldown) ==
    [attempt |-> attempt, outcome |-> outcome,
     health |-> health, cooldown |-> cooldown]

\* upstream.rs:97 - no response at all, the attempt deadline included.
TransportError == Verdict("Retry", "TransportError", "penalize", 0)

\* upstream.rs:132 - the response began and its body was cut short.
BodyError == Verdict("Retry", "BodyError", "penalize", 0)

\* upstream.rs:159 - is the body looked into at all?
Inspected(b) == b.small \/ b.mentions

ClassifyResponse(status, header, b) ==
    LET cooldown == RetryAfter(status, header)
    IN  CASE IsFinalStatus(status) ->
               Verdict("Done", "ForwardedHttpError", "leave", 0)
          [] ~IsFinalStatus(status) /\ Inspected(b) /\ ~b.json ->
               Verdict("Retry", "InvalidJson", "penalize", cooldown)
          [] /\ ~IsFinalStatus(status) /\ Inspected(b) /\ b.json
             /\ b.error /\ ~IsRetryableJsonRpcError(b.code) ->
               Verdict("Done", "ForwardedRpcError", "leave", 0)
          [] /\ ~IsFinalStatus(status) /\ Inspected(b) /\ b.json
             /\ b.error /\ IsRetryableJsonRpcError(b.code) ->
               Verdict("Retry", "RetryableRpcError", "penalize", cooldown)
          [] OTHER ->
               IF IsSuccess(status)
               THEN Verdict("Done", "Success", "observe", 0)
               ELSE Verdict("Done", "ForwardedHttpError", "penalize", cooldown)
=============================================================================
