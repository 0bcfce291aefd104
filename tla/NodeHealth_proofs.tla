-------------------------- MODULE NodeHealth_proofs --------------------------
(***************************************************************************)
(* Proofs about NodeHealth for every number of threads, every clock        *)
(* resolution and every penalty length.  The invariants are not inductive  *)
(* alone: a thread may hold a deadline or an average it computed long ago  *)
(* and store it at any later step, so the inductive invariant speaks of    *)
(* the registers in flight as well.                                        *)
(***************************************************************************)
EXTENDS NodeHealth, TLAPS

\* until is a deadline penalize may have computed at tick at.
DeadlineFor(until, at) ==
    /\ SecondsSinceStart(at) + 1 + PenaltySecs <= until
    /\ until <= SecondsSinceStart(at) + 1 + MaxRetryAfterSecs

RegistersOK ==
    \A t \in Thread :
        /\ pc[t] = "store_ema" => reg[t] \in MinSample .. MaxSample
        /\ pc[t] = "swap_until" => DeadlineFor(reg[t], readAt[t])

StandingPenaltyOK == untilS # 0 => DeadlineFor(untilS, imposedAt)

\* The inductive invariant.
IInv == TypeOK /\ RegistersOK /\ StandingPenaltyOK /\ EmaWithinSamples

-----------------------------------------------------------------------------
(* Arithmetic *)

\* A right shift is monotonic and never stretches a distance (ema_us >> 3).
LEMMA ShiftBetween ==
    ASSUME NEW x \in Nat, NEW y \in Nat, x <= y
    PROVE  /\ Shift(x) \in Nat
           /\ Shift(x) <= Shift(y)
           /\ Shift(y) - Shift(x) <= y - x
  BY DEF Shift

\* The average observe_answer computes lies between the one it read and the
\* sample, so the saturating addition never saturates.
LEMMA NextEmaBetween ==
    ASSUME NEW lo \in Nat, NEW hi \in Nat, hi < Unmeasured,
           NEW ema \in 0 .. Unmeasured, NEW sample \in lo .. hi,
           ema # Unmeasured => ema \in lo .. hi
    PROVE  NextEma(ema, sample, Unmeasured) \in lo .. hi
  <1>1. CASE ema = Unmeasured
    BY <1>1 DEF NextEma
  <1>2. CASE ema # Unmeasured /\ ema <= sample
    <2>1. /\ Shift(ema) \in Nat /\ Shift(sample) \in Nat
          /\ Shift(ema) <= Shift(sample)
          /\ Shift(sample) - Shift(ema) <= sample - ema
      BY <1>2, ShiftBetween, SampleAssumption DEF Shift
    <2>2. (ema - Shift(ema)) + Shift(sample) \in lo .. hi
      BY <1>2, <2>1
    <2> QED BY <1>2, <2>2, SampleAssumption DEF NextEma
  <1>3. CASE ema # Unmeasured /\ sample <= ema
    <2>1. /\ Shift(ema) \in Nat /\ Shift(sample) \in Nat
          /\ Shift(sample) <= Shift(ema)
          /\ Shift(ema) - Shift(sample) <= ema - sample
      BY <1>3, ShiftBetween, SampleAssumption DEF Shift
    <2>2. (ema - Shift(ema)) + Shift(sample) \in lo .. hi
      BY <1>3, <2>1
    <2> QED BY <1>3, <2>2, SampleAssumption DEF NextEma
  <1> QED BY <1>1, <1>2, <1>3, SampleAssumption

\* Euclidean division, in the form the second arithmetic needs it.
LEMMA DivBounds ==
    ASSUME NEW a \in Nat, NEW d \in Nat \ {0}
    PROVE  /\ a \div d \in Nat
           /\ (a \div d) * d <= a
           /\ a < (a \div d + 1) * d
  OBVIOUS

LEMMA MulCancel ==
    ASSUME NEW x \in Int, NEW y \in Int, NEW d \in Nat \ {0}, x * d < y * d
    PROVE  x < y
  OBVIOUS

\* Fewer than n seconds of ticks after at, no more than n seconds have
\* been counted since the second of at.
LEMMA SecondsWithin ==
    ASSUME NEW at \in Nat, NEW now \in Nat, NEW n \in Nat,
           now < at + n * TicksPerSec
    PROVE  SecondsSinceStart(now) < SecondsSinceStart(at) + 1 + n
  <1> DEFINE T == TicksPerSec
             p == at \div T
             q == now \div T
  <1>1. T \in Nat \ {0}
    BY TicksAssumption
  <1>2. p \in Nat /\ q \in Nat /\ q * T <= now /\ at < (p + 1) * T
    BY <1>1, DivBounds
  <1> HIDE DEF p, q, T
  <1>3. q * T < (p + 1) * T + n * T
    <2>1. q * T \in Nat /\ (p + 1) * T \in Nat /\ n * T \in Nat
      BY <1>1, <1>2
    <2> QED BY <1>2, <2>1 DEF T
  <1>4. (p + 1) * T + n * T = (p + 1 + n) * T
    BY <1>1, <1>2
  <1>5. q < p + 1 + n
    BY <1>1, <1>2, <1>3, <1>4, MulCancel
  <1> QED BY <1>5 DEF p, q, T, SecondsSinceStart

\* n seconds of ticks after at, at least n seconds have been counted.
LEMMA SecondsAfter ==
    ASSUME NEW at \in Nat, NEW now \in Nat, NEW n \in Nat,
           now >= at + n * TicksPerSec
    PROVE  SecondsSinceStart(now) >= SecondsSinceStart(at) + n
  <1> DEFINE T == TicksPerSec
             p == at \div T
             q == now \div T
  <1>1. T \in Nat \ {0}
    BY TicksAssumption
  <1>2. p \in Nat /\ q \in Nat /\ p * T <= at /\ now < (q + 1) * T
    BY <1>1, DivBounds
  <1> HIDE DEF p, q, T
  <1>3. p * T + n * T < (q + 1) * T
    <2>1. p * T \in Nat /\ (q + 1) * T \in Nat /\ n * T \in Nat
      BY <1>1, <1>2
    <2> QED BY <1>2, <2>1 DEF T
  <1>4. p * T + n * T = (p + n) * T
    BY <1>1, <1>2
  <1>5. p + n < q + 1
    BY <1>1, <1>2, <1>3, <1>4, MulCancel
  <1> QED BY <1>2, <1>5 DEF p, q, T, SecondsSinceStart

LEMMA SecondsNat ==
    ASSUME NEW at \in Nat PROVE SecondsSinceStart(at) \in Nat
  BY TicksAssumption DEF SecondsSinceStart

\* Whatever the header says, the deadline is at least PENALTY_SECS and at
\* most the ceiling away, one second of rounding included.
LEMMA UntilIsDeadline ==
    ASSUME NEW at \in Nat, NEW retryAfter \in Nat
    PROVE  /\ PenaltyUntil(SecondsSinceStart(at), retryAfter) \in Nat
           /\ DeadlineFor(PenaltyUntil(SecondsSinceStart(at), retryAfter), at)
  BY SecondsNat, PenaltyAssumption DEF PenaltyUntil, PenaltyLength, DeadlineFor

-----------------------------------------------------------------------------
(* The inductive invariant *)

LEMMA InitIInv == Init => IInv
  BY SampleAssumption, ClockAssumption
  DEF Init, IInv, TypeOK, Pc, RegistersOK, StandingPenaltyOK, EmaWithinSamples

LEMMA NextIInv == IInv /\ [Next]_vars => IInv'
  <1> SUFFICES ASSUME IInv, [Next]_vars PROVE IInv'
    OBVIOUS
  <1> USE DEF IInv, TypeOK, Pc
  <1>1. CASE Tick
    BY <1>1, ClockAssumption
    DEF Tick, RegistersOK, StandingPenaltyOK, EmaWithinSamples
  <1>2. ASSUME NEW t \in Thread, NEW sample \in Sample, ObserveLoadEma(t, sample)
        PROVE  IInv'
    <2>1. NextEma(emaUs, sample, Unmeasured) \in MinSample .. MaxSample
      BY SampleAssumption, NextEmaBetween DEF EmaWithinSamples
    <2>2. TypeOK'
      BY <1>2, <2>1, SampleAssumption DEF ObserveLoadEma
    <2>3. RegistersOK'
      BY <1>2, <2>1 DEF ObserveLoadEma, RegistersOK
    <2> QED
      BY <1>2, <2>2, <2>3 DEF ObserveLoadEma, StandingPenaltyOK, EmaWithinSamples
  <1>3. ASSUME NEW t \in Thread, ObserveStoreEma(t)
        PROVE  IInv'
    <2>1. reg[t] \in MinSample .. MaxSample
      BY <1>3 DEF ObserveStoreEma, RegistersOK
    <2> QED
      BY <1>3, <2>1, SampleAssumption
      DEF ObserveStoreEma, RegistersOK, StandingPenaltyOK, EmaWithinSamples
  <1>4. ASSUME NEW t \in Thread, ObserveLoadUntil(t)
        PROVE  IInv'
    BY <1>4
    DEF ObserveLoadUntil, RegistersOK, StandingPenaltyOK, EmaWithinSamples
  <1>5. ASSUME NEW t \in Thread, ObserveStoreUntil(t)
        PROVE  IInv'
    BY <1>5
    DEF ObserveStoreUntil, RegistersOK, StandingPenaltyOK, EmaWithinSamples
  <1>6. ASSUME NEW t \in Thread, NEW retryAfter \in RetryAfters,
               PenalizeReadClock(t, retryAfter)
        PROVE  IInv'
    <2> DEFINE until == PenaltyUntil(SecondsSinceStart(clock), retryAfter)
    <2>0. clock \in Nat /\ retryAfter \in Nat
      BY RetryAfterAssumption, ClockAssumption
    <2>1. until \in Nat /\ DeadlineFor(until, clock)
      BY <2>0, UntilIsDeadline DEF DeadlineFor
    <2> HIDE DEF until
    <2>2. /\ reg' = [reg EXCEPT ![t] = until]
          /\ readAt' = [readAt EXCEPT ![t] = clock]
          /\ pc' = [pc EXCEPT ![t] = "swap_until"]
          /\ UNCHANGED <<clock, emaUs, untilS, imposedAt>>
      BY <1>6 DEF PenalizeReadClock, until
    <2>3. TypeOK'
      BY <2>1, <2>2
    <2>4. RegistersOK'
      BY <2>1, <2>2 DEF RegistersOK
    <2> QED
      BY <2>2, <2>3, <2>4 DEF StandingPenaltyOK, EmaWithinSamples
  <1>7. ASSUME NEW t \in Thread, PenalizeSwap(t)
        PROVE  IInv'
    <2>1. DeadlineFor(reg[t], readAt[t])
      BY <1>7 DEF PenalizeSwap, RegistersOK
    <2>2. TypeOK' /\ RegistersOK' /\ EmaWithinSamples'
      BY <1>7, ClockAssumption DEF PenalizeSwap, RegistersOK, EmaWithinSamples
    <2>3. StandingPenaltyOK'
      BY <1>7, <2>1 DEF PenalizeSwap, StandingPenaltyOK
    <2> QED BY <2>2, <2>3
  <1>8. CASE UNCHANGED vars
    BY <1>8 DEF vars, RegistersOK, StandingPenaltyOK, EmaWithinSamples
  <1> QED
    BY <1>1, <1>2, <1>3, <1>4, <1>5, <1>6, <1>7, <1>8 DEF Next

THEOREM Inductive == Spec => []IInv
  BY InitIInv, NextIInv, PTL DEF Spec

-----------------------------------------------------------------------------
(* What follows from it *)

\* Types are preserved by every interleaving of observe_answer and penalize.
THEOREM TypeCorrect == Spec => []TypeOK
  <1>1. IInv => TypeOK
    BY DEF IInv
  <1> QED BY <1>1, Inductive, PTL

\* A penalty imposed by a failed attempt is served for PENALTY_SECS of real
\* time, for every clock resolution and every length of the penalty.
THEOREM FullPenalty == Spec => []PenaltyServedInFull
  <1>1. IInv => PenaltyServedInFull
    <2> SUFFICES ASSUME IInv, untilS # 0,
                        clock < imposedAt + PenaltySecs * TicksPerSec
                 PROVE  IsPenalized(SecondsSinceStart(clock), untilS)
      BY DEF PenaltyServedInFull
    <2>1. clock \in Nat /\ imposedAt \in Nat /\ untilS \in Nat
      BY ClockAssumption DEF IInv, TypeOK
    <2>2. SecondsSinceStart(clock) < SecondsSinceStart(imposedAt) + 1 + PenaltySecs
      BY <2>1, SecondsWithin, PenaltyAssumption
    <2>3. SecondsSinceStart(imposedAt) + 1 + PenaltySecs <= untilS
      BY DEF IInv, StandingPenaltyOK, DeadlineFor
    <2> QED
      BY <2>1, <2>2, <2>3, SecondsNat, PenaltyAssumption DEF IsPenalized
  <1> QED BY <1>1, Inductive, PTL

\* No header keeps a node out of rotation past the ceiling.
THEOREM PenaltyIsBounded == Spec => []PenaltyEnds
  <1>1. IInv => PenaltyEnds
    <2> SUFFICES ASSUME IInv,
                        clock >= imposedAt + (MaxRetryAfterSecs + 1) * TicksPerSec
                 PROVE  ~IsPenalized(SecondsSinceStart(clock), untilS)
      BY DEF PenaltyEnds
    <2>1. clock \in Nat /\ imposedAt \in Nat /\ untilS \in Nat
      BY ClockAssumption DEF IInv, TypeOK
    <2>2. SecondsSinceStart(clock)
            >= SecondsSinceStart(imposedAt) + (MaxRetryAfterSecs + 1)
      BY <2>1, SecondsAfter, PenaltyAssumption
    <2>3. CASE untilS = 0
      BY <2>1, <2>3, SecondsNat DEF IsPenalized
    <2>4. CASE untilS # 0
      <3>1. untilS <= SecondsSinceStart(imposedAt) + 1 + MaxRetryAfterSecs
        BY <2>4 DEF IInv, StandingPenaltyOK, DeadlineFor
      <3> QED
        BY <2>1, <2>2, <3>1, SecondsNat, PenaltyAssumption DEF IsPenalized
    <2> QED BY <2>3, <2>4
  <1> QED BY <1>1, Inductive, PTL

\* The latency average never leaves the range of the round trips it was made
\* of, whatever updates concurrent answers lose.
THEOREM EmaBounded == Spec => []EmaWithinSamples
  <1>1. IInv => EmaWithinSamples
    BY DEF IInv
  <1> QED BY <1>1, Inductive, PTL

\* A measured node is never reported as unmeasured again.
THEOREM NeverUnmeasured == Spec => MeasuredForGood
  <1>1. IInv /\ [Next]_vars => [emaUs # Unmeasured => emaUs' # Unmeasured]_vars
    <2> SUFFICES ASSUME IInv, [Next]_vars, emaUs # Unmeasured
                 PROVE  emaUs' # Unmeasured
      OBVIOUS
    <2>1. ASSUME NEW t \in Thread, ObserveStoreEma(t)
          PROVE  emaUs' # Unmeasured
      BY <2>1, SampleAssumption DEF ObserveStoreEma, IInv, RegistersOK
    <2>2. CASE emaUs' = emaUs
      BY <2>2
    <2> QED
      BY <2>1, <2>2
      DEF Next, vars, Tick, ObserveLoadEma, ObserveLoadUntil,
          ObserveStoreUntil, PenalizeReadClock, PenalizeSwap
  <1> QED BY <1>1, Inductive, PTL DEF Spec, MeasuredForGood
=============================================================================
