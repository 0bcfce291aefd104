----------------------------- MODULE NodeHealth -----------------------------
(***************************************************************************)
(* The health of one node under concurrent attempts (src/core/node.rs).    *)
(* observe_answer and penalize touch two relaxed atomics, ema_us and       *)
(* until_s, one operation at a time and without a lock, so every atomic    *)
(* operation is a step of its own and any thread may run in between.       *)
(***************************************************************************)
EXTENDS Health

CONSTANTS Thread,       \* tasks whose attempts on this node are ending
          Unmeasured,   \* UNMEASURED, u32::MAX in the code
          MinSample, MaxSample,   \* round trips an answer can have
          Sample,       \* the round trips tried
          RetryAfters,  \* the Retry-After values tried
          MaxClock      \* bound on the model's clock

\* An answered attempt ran for less than ATTEMPT_TIMEOUT, half a second: its
\* microseconds are far below the sentinel.
ASSUME SampleAssumption == /\ Unmeasured \in Nat
                           /\ MinSample \in Nat /\ MaxSample \in Nat
                           /\ MinSample <= MaxSample
                           /\ MaxSample < Unmeasured
                           /\ Sample \subseteq MinSample .. MaxSample
ASSUME RetryAfterAssumption == RetryAfters \subseteq Nat
ASSUME ClockAssumption == MaxClock \in Nat

VARIABLES clock,      \* real time, in ticks
          emaUs,      \* NodeLatency::ema_us
          untilS,     \* NodePenalty::until_s
          pc,         \* where each thread is in observe_answer or penalize
          reg,        \* the value each thread is about to store
          readAt,     \* history: when the thread in penalize read the clock
          imposedAt   \* history: readAt of the penalty untilS holds

vars == <<clock, emaUs, untilS, pc, reg, readAt, imposedAt>>

Pc == {"idle", "store_ema", "load_until", "store_until", "swap_until"}

TypeOK ==
    /\ clock \in 0 .. MaxClock
    /\ emaUs \in 0 .. Unmeasured
    /\ untilS \in Nat
    /\ pc \in [Thread -> Pc]
    /\ reg \in [Thread -> Nat]
    /\ readAt \in [Thread -> 0 .. MaxClock]
    /\ imposedAt \in 0 .. MaxClock

\* RpcNode::new: no measurement and no penalty.
Init ==
    /\ clock = 0
    /\ emaUs = Unmeasured
    /\ untilS = 0
    /\ pc = [t \in Thread |-> "idle"]
    /\ reg = [t \in Thread |-> 0]
    /\ readAt = [t \in Thread |-> 0]
    /\ imposedAt = 0

Tick ==
    /\ clock < MaxClock
    /\ clock' = clock + 1
    /\ UNCHANGED <<emaUs, untilS, pc, reg, readAt, imposedAt>>

-----------------------------------------------------------------------------
(* observe_answer *)

ObserveLoadEma(t, sample) ==
    /\ pc[t] = "idle"
    /\ reg' = [reg EXCEPT ![t] = NextEma(emaUs, sample, Unmeasured)]
    /\ pc' = [pc EXCEPT ![t] = "store_ema"]
    /\ UNCHANGED <<clock, emaUs, untilS, readAt, imposedAt>>

ObserveStoreEma(t) ==
    /\ pc[t] = "store_ema"
    /\ emaUs' = reg[t]
    /\ reg' = [reg EXCEPT ![t] = 0]
    /\ pc' = [pc EXCEPT ![t] = "load_until"]
    /\ UNCHANGED <<clock, untilS, readAt, imposedAt>>

\* The store is guarded: a node that is not penalized is only read.
ObserveLoadUntil(t) ==
    /\ pc[t] = "load_until"
    /\ pc' = [pc EXCEPT ![t] = IF untilS = 0 THEN "idle" ELSE "store_until"]
    /\ UNCHANGED <<clock, emaUs, untilS, reg, readAt, imposedAt>>

ObserveStoreUntil(t) ==
    /\ pc[t] = "store_until"
    /\ untilS' = 0
    /\ pc' = [pc EXCEPT ![t] = "idle"]
    /\ UNCHANGED <<clock, emaUs, reg, readAt, imposedAt>>

-----------------------------------------------------------------------------
(* penalize *)

PenalizeReadClock(t, retryAfter) ==
    /\ pc[t] = "idle"
    /\ reg' = [reg EXCEPT ![t] =
                 PenaltyUntil(SecondsSinceStart(clock), retryAfter)]
    /\ readAt' = [readAt EXCEPT ![t] = clock]
    /\ pc' = [pc EXCEPT ![t] = "swap_until"]
    /\ UNCHANGED <<clock, emaUs, untilS, imposedAt>>

PenalizeSwap(t) ==
    /\ pc[t] = "swap_until"
    /\ untilS' = reg[t]
    /\ imposedAt' = readAt[t]
    /\ reg' = [reg EXCEPT ![t] = 0]
    /\ readAt' = [readAt EXCEPT ![t] = 0]
    /\ pc' = [pc EXCEPT ![t] = "idle"]
    /\ UNCHANGED <<clock, emaUs>>

-----------------------------------------------------------------------------

Next ==
    \/ Tick
    \/ \E t \in Thread :
          \/ \E sample \in Sample : ObserveLoadEma(t, sample)
          \/ ObserveStoreEma(t)
          \/ ObserveLoadUntil(t)
          \/ ObserveStoreUntil(t)
          \/ \E retryAfter \in RetryAfters : PenalizeReadClock(t, retryAfter)
          \/ PenalizeSwap(t)

Spec == Init /\ [][Next]_vars

-----------------------------------------------------------------------------
(* Properties *)

\* A standing penalty is served for PENALTY_SECS of real time, counted from
\* the failure that imposed it: the truncation of now_s and of the reader's
\* own clock never shave a fraction of a second off it (penalize's "+ 1").
PenaltyServedInFull ==
    /\ untilS # 0
    /\ clock < imposedAt + PenaltySecs * TicksPerSec
    => IsPenalized(SecondsSinceStart(clock), untilS)

\* No Retry-After keeps the node out for longer than the ceiling and the
\* rounding second, whatever the upstream wrote and however the threads
\* interleave.
PenaltyEnds ==
    clock >= imposedAt + (MaxRetryAfterSecs + 1) * TicksPerSec
    => ~IsPenalized(SecondsSinceStart(clock), untilS)

\* The average stays inside the range of the round trips it was made of, so a
\* measured node never sorts like an unmeasured one: neither the truncating
\* shifts nor an update lost to a concurrent observe_answer take it out.
EmaWithinSamples == emaUs # Unmeasured => emaUs \in MinSample .. MaxSample

\* A node that was measured is never again reported as unmeasured.
MeasuredForGood == [][emaUs # Unmeasured => emaUs' # Unmeasured]_vars
=============================================================================
