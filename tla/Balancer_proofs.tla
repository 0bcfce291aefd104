-------------------------- MODULE Balancer_proofs --------------------------
(***************************************************************************)
(* Requests in flight across any number of reloads, for any set of         *)
(* requests, names and slots.  The objects a request holds were published  *)
(* once, and an object that was published keeps its slot: so the bitmask   *)
(* of tried slots means the same on every snapshot, and whatever requests  *)
(* do to the nodes is traffic Topology allows.                             *)
(***************************************************************************)
EXTENDS Balancer, Topology_proofs

RequestTypes ==
    /\ tried \in [Request -> SUBSET Slot]
    /\ snapshot \in [Request -> Seq(Object)]
    /\ pos \in [Request -> Nat \ {0}]
    /\ sends \in [Request -> Nat]

\* A request walks objects that were published, now or before a reload.
Snapshots == \A r \in Request : Elements(snapshot[r]) \subseteq Published

\* So is the object an attempt was sent to.
Attempted ==
    /\ pc \in [Request -> {"new", "round", "walk", "attempt", "done"}]
    /\ cur \in [Request -> Object \union {NoObject}]
    /\ \A r \in Request : pc[r] = "attempt" => cur[r] \in Published

\* Every attempt has a slot of its own in the bitmask.
Counted == \A r \in Request : sends[r] <= Cardinality(tried[r])

\* The inductive invariant.
BInv == IInv /\ RequestTypes /\ Snapshots /\ Attempted /\ Counted

-----------------------------------------------------------------------------
(* Objects *)

\* A published object has a slot of the table.
LEMMA PublishedHasSlot ==
    ASSUME IInv, NEW o \in Published
    PROVE  o \in Object /\ slot[o] \in Slot
  BY DEF Published, IInv, TypeOK

\* The nodes a snapshot is taken of are published ones.
LEMMA RankedIsPublished ==
    ASSUME IInv
    PROVE  topology.ranked \in Seq(Object) /\ Elements(topology.ranked) \subseteq Published
  <1>1. /\ topology.ranked \in Seq(Object) /\ topology.all \in Seq(Object)
        /\ Elements(topology.ranked) = Elements(topology.all)
    BY DEF IInv, TypeOK, PublishedIsAccepted
  <1>2. ASSUME NEW o \in Elements(topology.all) PROVE o \in Published
    <2>1. PICK i \in DOMAIN topology.all : o = topology.all[i]
      BY DEF Elements
    <2>2. o \in Object /\ slot[o] \in Slot
      BY <1>1, <2>1 DEF IInv, Sets, Distinct
    <2>3. slot[o] # NoSlot
      BY <2>2, BoundAssumption DEF Slot, NoSlot
    <2> QED BY <1>2, <2>2, <2>3 DEF Published
  <1> QED BY <1>1, <1>2

\* What was published stays published, on the slot it had: a reload gives slots
\* to the objects it builds and to no other.
LEMMA PublishedStays ==
    ASSUME IInv, [Next]_topologyVars, NEW o \in Published
    PROVE  o \in Published' /\ slot'[o] = slot[o]
  <1>0. /\ o \in Object /\ slot[o] # NoSlot /\ o[1] \in 0 .. MaxReloads
        /\ o[1] < gen \/ o \in Elements(topology.all)
    BY ObjectParts DEF Published
  <1>1. gen \in Nat /\ topology.all \in Seq(Object) /\ Whole(topology.all, Current)
    BY DEF IInv, TypeOK, Sets
  <1>2. o \in Elements(topology.all) => o[1] = Current
    <2> SUFFICES ASSUME o \in Elements(topology.all) PROVE o[1] = Current
      OBVIOUS
    <2>1. PICK i \in DOMAIN topology.all : o = topology.all[i]
      BY DEF Elements
    <2> QED BY <1>1, <2>1 DEF Whole
  <1>3. ASSUME topology'.all = topology.all, slot' = slot, gen' = gen
        PROVE  o \in Published' /\ slot'[o] = slot[o]
    BY <1>0, <1>3 DEF Published
  <1>4. ASSUME NEW config \in Config, ReloadAssign(config)
        PROVE  o \in Published' /\ slot'[o] = slot[o]
    <2>1. /\ config \in Seq(Name) /\ Accepts(config) /\ gen < MaxReloads
          /\ topology' = topology /\ gen' = gen + 1
      BY <1>4, ConfigAssumption DEF ReloadAssign
    <2>2. PICK f \in Assignments(topology.all, config) :
            AssignIds(topology.all, config, gen + 1, f)
      BY <1>4 DEF ReloadAssign
    <2>3. Current = gen
      BY <1>4 DEF ReloadAssign, IInv, Locking, Current
    <2>4. \A k \in DOMAIN topology.all : topology.all[k][1] = gen
      BY <1>1, <2>3 DEF Whole
    <2>5. \A p \in Object : p[1] # gen + 1 => slot'[p] = slot[p]
      BY <1>1, <2>1, <2>2, <2>4, AssignedSlots DEF IInv
    <2>6. o[1] < gen + 1 /\ o[1] # gen + 1
      BY <1>0, <1>1, <1>2, <2>3
    <2> QED BY <1>0, <2>1, <2>5, <2>6 DEF Published
  <1>5. ASSUME ReloadPublish PROVE o \in Published' /\ slot'[o] = slot[o]
    <2>1. reloadPc = "assigned" /\ slot' = slot /\ gen' = gen
      BY <1>5 DEF ReloadPublish
    <2>2. o[1] < gen
      BY <1>0, <1>1, <1>2, <2>1 DEF Current
    <2> QED BY <1>0, <2>1, <2>2 DEF Published
  <1>6. ASSUME RerankPublish PROVE o \in Published' /\ slot'[o] = slot[o]
    <2>1. slot' = slot /\ topology'.all = topology.all /\ gen' = gen
      BY <1>6 DEF RerankPublish, IInv, Sets
    <2> QED BY <1>3, <2>1
  <1>7. ASSUME \/ UNCHANGED topologyVars
               \/ \E config \in Config : ReloadReject(config)
               \/ RerankLoad
               \/ Traffic
        PROVE  o \in Published' /\ slot'[o] = slot[o]
    <2>1. slot' = slot /\ topology' = topology /\ gen' = gen
      BY <1>7 DEF topologyVars, publishVars, ReloadReject, RerankLoad, Traffic, Book, Observe,
                  Penalize, Expire
    <2> QED BY <1>3, <2>1
  <1> QED BY <1>4, <1>5, <1>6, <1>7 DEF Next, Publishers

-----------------------------------------------------------------------------
(* Requests are traffic *)

\* The node a walk is at, or waits for, was published.
LEMMA AtIsPublished ==
    ASSUME BInv, NEW r \in Request, Walking(r)
    PROVE  At(r) \in Published
  <1>1. snapshot[r] \in Seq(Object) /\ pos[r] \in Nat \ {0} /\ pos[r] <= Len(snapshot[r])
    BY DEF BInv, RequestTypes, Walking
  <1>2. pos[r] \in DOMAIN snapshot[r]
    BY <1>1
  <1> QED BY <1>2 DEF At, Elements, BInv, Snapshots

\* An attempt books one unit on an object that was published.
LEMMA SendIsTraffic ==
    ASSUME BInv, NEW r \in Request, NEW o \in Published, Send(r, o)
    PROVE  Next
  <1>1. usage[slot[o]] \in Nat /\ Book(o, 1) /\ usage[slot[o]] + 1 <= MaxUsage
    BY PublishedHasSlot DEF BInv, IInv, TypeOK, Send, Book
  <1>2. 1 \in 1 .. MaxUsage
    BY <1>1, BoundAssumption
  <1> QED BY <1>1, <1>2 DEF Next, Traffic

\* Every step of a request is a step of Topology or leaves it alone.
LEMMA StepIsTopology ==
    ASSUME BInv, [BalancerNext]_vars
    PROVE  [Next]_topologyVars
  <1>1. ASSUME NEW r \in Request, RequestStep(r) PROVE [Next]_topologyVars
    <2>1. CASE \/ Arrive(r) \/ StartRound(r) \/ SkipTried(r) \/ Decline(r)
               \/ NextRound(r) \/ AllNodesFailed(r) \/ Timeout(r)
      BY <2>1 DEF Arrive, StartRound, SkipTried, Decline, NextRound, AllNodesFailed, Timeout
    <2>2. CASE Admit(r)
      BY <2>2, AtIsPublished, SendIsTraffic DEF Admit, Refuse
    <2>3. CASE AdmitWaiting(r)
      <3>1. PICK o \in Elements(snapshot[r]) : Refuse(r, o, "round") \/ Send(r, o)
        BY <2>3 DEF AdmitWaiting
      <3>2. o \in Published
        BY DEF BInv, Snapshots
      <3> QED BY <3>1, <3>2, SendIsTraffic DEF Refuse
    <2>4. CASE AttemptDone(r)
      <3>1. /\ cur[r] \in Published
            /\ \/ \E latency \in Latency : Observe(cur[r], latency)
               \/ Penalize(cur[r])
               \/ UNCHANGED topologyVars
        BY <2>4 DEF AttemptDone, BInv, Attempted
      <3> QED BY <3>1 DEF Next, Traffic
    <2>5. CASE AttemptFails(r)
      <3>1. cur[r] \in Published /\ Penalize(cur[r])
        BY <2>5 DEF AttemptFails, Blame, BInv, Attempted
      <3> QED BY <3>1 DEF Next, Traffic
    <2> QED BY <1>1, <2>1, <2>2, <2>3, <2>4, <2>5 DEF RequestStep
  <1>2. CASE Publishers \/ \E o \in Published : Expire(o)
    BY <1>2 DEF Next, Traffic
  <1>3. CASE UNCHANGED vars
    BY <1>3 DEF vars
  <1> QED BY <1>1, <1>2, <1>3 DEF BalancerNext

-----------------------------------------------------------------------------
(* The bitmask *)

\* The bits of a request, and one more.
LEMMA OneMoreBit ==
    ASSUME BInv, NEW r \in Request, NEW o \in Published, Untried(r, o)
    PROVE  /\ tried[r] \union {slot[o]} \in SUBSET Slot
           /\ Cardinality(tried[r]) \in Nat
           /\ Cardinality(tried[r] \union {slot[o]}) = Cardinality(tried[r]) + 1
  <1>1. slot[o] \in Slot /\ tried[r] \in SUBSET Slot /\ slot[o] \notin tried[r]
    BY PublishedHasSlot DEF BInv, RequestTypes, Untried
  <1>2. IsFiniteSet(Slot)
    BY BoundAssumption, FS_Interval DEF Slot
  <1>3. IsFiniteSet(tried[r])
    BY <1>1, <1>2, FS_Subset
  <1>4. Cardinality(tried[r]) \in Nat
    BY <1>3, FS_CardinalityType
  <1>5. Cardinality(tried[r] \union {slot[o]}) = Cardinality(tried[r]) + 1
    BY <1>1, <1>3, FS_AddElement
  <1> QED BY <1>1, <1>4, <1>5

\* A request that is refused or sent sets the bit of the node, and an attempt is
\* counted against it.
LEMMA MarkedOnce ==
    ASSUME BInv, NEW r \in Request, NEW o \in Published,
           Untried(r, o), Mark(r, o), snapshot' = snapshot,
           pos' = [pos EXCEPT ![r] = @ + 1],
           sends' = sends \/ sends' = [sends EXCEPT ![r] = @ + 1]
    PROVE  RequestTypes' /\ Counted'
  <1>1. /\ tried \in [Request -> SUBSET Slot] /\ sends \in [Request -> Nat]
        /\ pos \in [Request -> Nat \ {0}]
    BY DEF BInv, RequestTypes
  <1> DEFINE bits == tried[r] \union {slot[o]}
  <1>2. /\ bits \in SUBSET Slot /\ Cardinality(tried[r]) \in Nat
        /\ Cardinality(bits) = Cardinality(tried[r]) + 1
    BY OneMoreBit
  <1>3. tried' = [tried EXCEPT ![r] = bits]
    BY DEF Mark
  <1> HIDE DEF bits
  <1>4. tried' \in [Request -> SUBSET Slot] /\ sends' \in [Request -> Nat]
        /\ pos' \in [Request -> Nat \ {0}]
    BY <1>1, <1>2, <1>3
  <1>5. ASSUME NEW q \in Request PROVE sends'[q] <= Cardinality(tried'[q])
    <2>1. sends[q] <= Cardinality(tried[q])
      BY DEF BInv, Counted
    <2>2. CASE q = r
      <3>1. tried'[q] = bits /\ sends'[q] \in {sends[r], sends[r] + 1}
        BY <1>1, <1>3, <2>2
      <3>2. sends[r] \in Nat
        BY <1>1
      <3> QED BY <1>2, <2>1, <2>2, <3>1, <3>2
    <2>3. CASE q # r
      <3>1. tried'[q] = tried[q] /\ sends'[q] = sends[q]
        BY <1>1, <1>3, <2>3
      <3> QED BY <2>1, <3>1
    <2> QED BY <2>2, <2>3
  <1> QED BY <1>4, <1>5 DEF RequestTypes, Counted, BInv

\* What a request holds is published now or was, and every attempt has its bit.
LEMMA RequestsStep ==
    ASSUME BInv, [BalancerNext]_vars
    PROVE  RequestTypes' /\ Snapshots' /\ Counted'
  <1> DEFINE Kept == RequestTypes' /\ Counted'
                     /\ \A r \in Request : \/ snapshot'[r] = snapshot[r]
                                           \/ snapshot'[r] = <<>>
                                           \/ snapshot'[r] = topology.ranked
  <1>0. /\ IInv /\ tried \in [Request -> SUBSET Slot] /\ snapshot \in [Request -> Seq(Object)]
        /\ pos \in [Request -> Nat \ {0}] /\ sends \in [Request -> Nat]
        /\ <<>> \in Seq(Object)
    BY DEF BInv, RequestTypes
  <1>1. ASSUME NEW r \in Request, RequestStep(r) PROVE Kept
    <2>1. ASSUME Arrive(r) \/ AttemptFails(r) \/ NextRound(r) PROVE Kept
      <3>1. UNCHANGED <<tried, snapshot, pos, sends>>
        BY <2>1 DEF Arrive, AttemptFails, NextRound
      <3> QED BY <1>0, <3>1 DEF BInv, RequestTypes, Counted
    <2>2. ASSUME StartRound(r) PROVE Kept
      <3>1. /\ snapshot' = [snapshot EXCEPT ![r] = topology.ranked]
            /\ pos' = [pos EXCEPT ![r] = 1] /\ UNCHANGED <<tried, sends>>
        BY <2>2 DEF StartRound
      <3>2. topology.ranked \in Seq(Object)
        BY <1>0, RankedIsPublished
      <3> QED BY <1>0, <3>1, <3>2 DEF BInv, RequestTypes, Counted
    <2>3. ASSUME SkipTried(r) \/ Decline(r) PROVE Kept
      <3>1. pos' = [pos EXCEPT ![r] = @ + 1] /\ UNCHANGED <<tried, snapshot, sends>>
        BY <2>3 DEF SkipTried, Decline
      <3>2. pos' \in [Request -> Nat \ {0}]
        BY <1>0, <3>1
      <3> QED BY <1>0, <3>1, <3>2 DEF BInv, RequestTypes, Counted
    <2>4. ASSUME NEW o \in Published, NEW next, Refuse(r, o, next) \/ Send(r, o) PROVE Kept
      <3>1. /\ Untried(r, o) /\ Mark(r, o) /\ snapshot' = snapshot
            /\ pos' = [pos EXCEPT ![r] = @ + 1]
            /\ sends' = sends \/ sends' = [sends EXCEPT ![r] = @ + 1]
        BY <2>4 DEF Refuse, Send
      <3> QED BY <3>1, MarkedOnce
    <2>5. ASSUME Admit(r) PROVE Kept
      BY <2>4, <2>5, AtIsPublished DEF Admit
    <2>6. ASSUME AdmitWaiting(r) PROVE Kept
      <3>1. PICK o \in Elements(snapshot[r]) : Refuse(r, o, "round") \/ Send(r, o)
        BY <2>6 DEF AdmitWaiting
      <3>2. o \in Published
        BY DEF BInv, Snapshots
      <3> QED BY <2>4, <3>1, <3>2
    <2>7. ASSUME AttemptDone(r) \/ AllNodesFailed(r) \/ Timeout(r) PROVE Kept
      <3>1. /\ snapshot' = [snapshot EXCEPT ![r] = <<>>] /\ pos' = [pos EXCEPT ![r] = 1]
            /\ UNCHANGED <<tried, sends>>
        BY <2>7 DEF AttemptDone, AllNodesFailed, Timeout, Finish
      <3>2. snapshot' \in [Request -> Seq(Object)] /\ pos' \in [Request -> Nat \ {0}]
        BY <1>0, <3>1
      <3> QED BY <1>0, <3>1, <3>2 DEF BInv, RequestTypes, Counted
    <2> HIDE DEF Kept
    <2> QED BY <1>1, <2>1, <2>2, <2>3, <2>5, <2>6, <2>7 DEF RequestStep
  <1>2. ASSUME UNCHANGED requestVars PROVE Kept
    BY <1>0, <1>2 DEF requestVars, BInv, RequestTypes, Counted
  <1>3. Kept
    <2> HIDE DEF Kept
    <2> QED BY <1>1, <1>2 DEF BalancerNext, vars
  <1>4. ASSUME NEW r \in Request, NEW o \in Elements(snapshot'[r]) PROVE o \in Published'
    <2>1. o \in Published
      <3>1. Elements(<<>>) = {}
        BY DEF Elements
      <3> QED BY <1>0, <1>3, <1>4, <3>1, RankedIsPublished DEF BInv, Snapshots
    <2> QED BY <1>0, <2>1, StepIsTopology, PublishedStays
  <1> QED BY <1>3, <1>4 DEF Snapshots

\* A request attempts what it holds, and what it attempts stays published.
LEMMA AttemptedStep ==
    ASSUME BInv, [BalancerNext]_vars
    PROVE  Attempted'
  <1> DEFINE Pcs == {"new", "round", "walk", "attempt", "done"}
             Curs == Object \union {NoObject}
             Kept == /\ pc' \in [Request -> Pcs] /\ cur' \in [Request -> Curs]
                     /\ \A q \in Request : pc'[q] = "attempt" => cur'[q] \in Published
  <1>0. /\ IInv /\ pc \in [Request -> Pcs] /\ cur \in [Request -> Curs] /\ NoObject \in Curs
        /\ \A q \in Request : pc[q] = "attempt" => cur[q] \in Published
    BY DEF BInv, Attempted
  <1>1. ASSUME NEW r \in Request, RequestStep(r) PROVE Kept
    <2>0. ASSUME NEW p \in Pcs, p # "attempt", pc' = [pc EXCEPT ![r] = p],
                 cur' = cur \/ cur' = [cur EXCEPT ![r] = NoObject]
          PROVE  Kept
      <3>1. cur' \in [Request -> Curs] /\ \A q \in Request : q # r => cur'[q] = cur[q]
        BY <1>0, <2>0
      <3>2. pc' \in [Request -> Pcs] /\ pc'[r] = p /\ \A q \in Request : q # r => pc'[q] = pc[q]
        BY <1>0, <2>0
      <3> QED BY <1>0, <2>0, <3>1, <3>2
    <2>1. ASSUME NEW o \in Published, Send(r, o) PROVE Kept
      <3>1. pc' = [pc EXCEPT ![r] = "attempt"] /\ cur' = [cur EXCEPT ![r] = o] /\ o \in Curs
        BY <2>1, <1>0, PublishedHasSlot DEF Send
      <3>2. pc' \in [Request -> Pcs] /\ cur' \in [Request -> Curs] /\ cur'[r] = o
            /\ \A q \in Request : q # r => pc'[q] = pc[q] /\ cur'[q] = cur[q]
        BY <1>0, <3>1
      <3> QED BY <1>0, <2>1, <3>2
    <2>2. ASSUME NEW o \in Published, NEW next \in {"walk", "round"}, Refuse(r, o, next)
          PROVE  Kept
      <3>1. pc' = [pc EXCEPT ![r] = next] /\ cur' = cur /\ next \in Pcs /\ next # "attempt"
        BY <2>2 DEF Refuse
      <3> HIDE DEF Kept, Pcs
      <3> QED BY <2>0, <3>1
    <2>3. CASE Admit(r)
      <3>1. At(r) \in Published
        BY <2>3, AtIsPublished DEF Admit
      <3> HIDE DEF Kept
      <3> QED BY <2>1, <2>2, <2>3, <3>1 DEF Admit
    <2>4. CASE AdmitWaiting(r)
      <3>1. PICK o \in Elements(snapshot[r]) : Refuse(r, o, "round") \/ Send(r, o)
        BY <2>4 DEF AdmitWaiting
      <3>2. o \in Published
        BY DEF BInv, Snapshots
      <3> HIDE DEF Kept
      <3> QED BY <2>1, <2>2, <3>1, <3>2
    <2>5. CASE SkipTried(r) \/ Decline(r)
      <3>1. UNCHANGED <<pc, cur>>
        BY <2>5 DEF SkipTried, Decline
      <3> QED BY <1>0, <3>1
    <2>6. CASE Arrive(r) \/ StartRound(r) \/ NextRound(r)
      <3>1. \E p \in Pcs : p # "attempt" /\ pc' = [pc EXCEPT ![r] = p] /\ cur' = cur
        BY <2>6 DEF Arrive, StartRound, NextRound
      <3> HIDE DEF Kept, Pcs
      <3> QED BY <2>0, <3>1
    <2>7. CASE AttemptFails(r)
      <3>1. /\ pc' = [pc EXCEPT ![r] = AfterFailure(r)] /\ cur' = [cur EXCEPT ![r] = NoObject]
            /\ AfterFailure(r) \in Pcs /\ AfterFailure(r) # "attempt"
        BY <2>7 DEF AttemptFails, AfterFailure
      <3> HIDE DEF Kept, Pcs
      <3> QED BY <2>0, <3>1
    <2>8. CASE AttemptDone(r) \/ AllNodesFailed(r) \/ Timeout(r)
      <3>1. \E p \in Pcs : /\ p # "attempt" /\ pc' = [pc EXCEPT ![r] = p]
                            /\ cur' = [cur EXCEPT ![r] = NoObject]
        BY <2>8 DEF AttemptDone, AllNodesFailed, Timeout, Finish
      <3> HIDE DEF Kept, Pcs
      <3> QED BY <2>0, <3>1
    <2> HIDE DEF Kept
    <2> QED BY <1>1, <2>3, <2>4, <2>5, <2>6, <2>7, <2>8 DEF RequestStep
  <1>2. ASSUME UNCHANGED requestVars PROVE Kept
    BY <1>0, <1>2 DEF requestVars
  <1>3. Kept
    <2> HIDE DEF Kept
    <2> QED BY <1>1, <1>2 DEF BalancerNext, vars
  <1>4. \A q \in Request : pc'[q] = "attempt" => cur'[q] \in Published'
    BY <1>0, <1>3, StepIsTopology, PublishedStays
  <1> QED BY <1>3, <1>4 DEF Attempted

-----------------------------------------------------------------------------
(* The theorems *)

\* No request holds anything at the start.
LEMMA BalancerInitInv == BalancerInit => BInv
  <1> SUFFICES ASSUME BalancerInit PROVE BInv
    OBVIOUS
  <1>1. IInv
    BY InitIInv DEF BalancerInit
  <1>2. /\ tried = [r \in Request |-> {}] /\ snapshot = [r \in Request |-> <<>>]
        /\ pos = [r \in Request |-> 1] /\ sends = [r \in Request |-> 0]
    BY DEF BalancerInit
  <1>3. RequestTypes
    BY <1>2 DEF RequestTypes
  <1>4. Snapshots
    BY <1>2 DEF Snapshots, Elements
  <1>5. Counted
    BY <1>2, FS_EmptySet DEF Counted
  <1>6. Attempted
    BY DEF BalancerInit, Attempted
  <1> QED BY <1>1, <1>3, <1>4, <1>5, <1>6 DEF BInv

\* Reloads, ranking rounds and requests preserve the invariant.
LEMMA BalancerStepInv == BInv /\ [BalancerNext]_vars => BInv'
  <1> SUFFICES ASSUME BInv, [BalancerNext]_vars PROVE BInv'
    OBVIOUS
  <1>1. IInv'
    BY StepIsTopology, NextIInv DEF BInv
  <1> QED BY <1>1, RequestsStep, AttemptedStep DEF BInv

\* The requests of route, on snapshots of any age, do to the nodes and counters
\* only what Topology allows its traffic: BalancerSpec implements Topology's
\* specification.
THEOREM RequestsAreTraffic == BalancerSpec => ImplementsTopology
  <1>1. BalancerInit => Init
    BY DEF BalancerInit
  <1>2. BInv /\ [BalancerNext]_vars => [Next]_topologyVars
    BY StepIsTopology
  <1> QED BY <1>1, <1>2, BalancerInitInv, BalancerStepInv, PTL
          DEF BalancerSpec, ImplementsTopology, Spec

\* So what is proved of Topology holds with requests in flight.
THEOREM SetsHoldUnderLoad ==
    BalancerSpec => [](SlotsDistinct /\ PublishedIsAccepted /\ SpendSurvivesReload)
  BY RequestsAreTraffic, SlotsAreDistinct, PublishedAccepted, SpendSurvives, PTL
     DEF ImplementsTopology

\* The tried bitmask ends a request however often the node set is replaced under
\* it: there are no more attempts than slots.
THEOREM AttemptsAreBounded == BalancerSpec => []AttemptsBounded
  <1>1. BInv => AttemptsBounded
    <2> SUFFICES ASSUME BInv, NEW r \in Request PROVE sends[r] <= MaxNodes
      BY DEF AttemptsBounded
    <2>1. tried[r] \in SUBSET Slot /\ sends[r] \in Nat /\ sends[r] <= Cardinality(tried[r])
      BY DEF BInv, RequestTypes, Counted
    <2>2. MaxNodes \in Nat /\ IsFiniteSet(Slot) /\ Cardinality(Slot) = MaxNodes
      BY BoundAssumption, FS_Interval DEF Slot
    <2>3. IsFiniteSet(tried[r]) /\ Cardinality(tried[r]) <= Cardinality(Slot)
      BY <2>1, <2>2, FS_Subset
    <2>4. Cardinality(tried[r]) \in Nat
      BY <2>3, FS_CardinalityType
    <2> QED BY <2>1, <2>2, <2>3, <2>4
  <1> QED BY <1>1, BalancerInitInv, BalancerStepInv, PTL DEF BalancerSpec
=============================================================================
