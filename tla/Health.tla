------------------------------- MODULE Health -------------------------------
(***************************************************************************)
(* The arithmetic a node's health is kept in (src/core/node.rs): penalty   *)
(* deadlines in whole seconds since process start, and the latency         *)
(* average in integer microseconds.  Pure operators, shared by             *)
(* NodeHealth.tla (one node, its atomics) and Router.tla (the request      *)
(* path).                                                                  *)
(*                                                                         *)
(* Real time is counted in ticks, TicksPerSec of them to a second, so that *)
(* the truncation to whole seconds is visible.                             *)
(***************************************************************************)
EXTENDS Integers

CONSTANTS TicksPerSec,        \* resolution of the model's clock
          PenaltySecs,        \* PENALTY_SECS, 5 in the code
          MaxRetryAfterSecs   \* MAX_RETRY_AFTER_SECS, 300 in the code

ASSUME TicksAssumption == TicksPerSec \in Nat \ {0}
ASSUME PenaltyAssumption == /\ PenaltySecs \in Nat \ {0}
                            /\ MaxRetryAfterSecs \in Nat
                            /\ PenaltySecs <= MaxRetryAfterSecs

\* seconds_since_start: a tick truncated to the second it falls in.
SecondsSinceStart(tick) == tick \div TicksPerSec

\* Mutant: the ceiling on Retry-After is dropped.
UncappedLength(retryAfter) ==
    IF retryAfter > PenaltySecs THEN retryAfter ELSE PenaltySecs

\* The number of seconds penalize asks for: the longer of the fixed penalty
\* and the capped Retry-After.
PenaltyLength(retryAfter) ==
    LET capped == IF retryAfter < MaxRetryAfterSecs
                  THEN retryAfter ELSE MaxRetryAfterSecs
    IN  IF capped > PenaltySecs THEN capped ELSE PenaltySecs

\* Mutant: nothing pays for the truncation.
TruncatedUntil(nowS, retryAfter) == nowS + PenaltyLength(retryAfter)

\* The deadline penalize stores.  The extra second pays for the truncation of
\* now_s.
PenaltyUntil(nowS, retryAfter) == nowS + 1 + PenaltyLength(retryAfter)

\* is_penalized.
IsPenalized(nowS, untilS) == nowS < untilS

\* x >> LATENCY_SHIFT, with LATENCY_SHIFT = 3.
Shift(x) == x \div 8

\* Mutants: the sentinel is averaged like a measurement; the old average does
\* not decay; the sample is added whole.
AveragedSentinel(ema, sample, unmeasured) == (ema - Shift(ema)) + Shift(sample)

UndecayedEma(ema, sample, unmeasured) ==
    IF ema = unmeasured THEN sample ELSE ema + Shift(sample)

UnweightedEma(ema, sample, unmeasured) ==
    IF ema = unmeasured THEN sample ELSE ema + sample

\* The average observe_answer stores next, given the one it read.
NextEma(ema, sample, unmeasured) ==
    IF ema = unmeasured THEN sample
    ELSE LET sum == (ema - Shift(ema)) + Shift(sample)
         IN  IF sum > unmeasured THEN unmeasured ELSE sum   \* saturating_add
=============================================================================
