------------------------------ MODULE Topology ------------------------------
(***************************************************************************)
(* The published node set (src/core/topology.rs), the reload that replaces *)
(* it (RpcClient::reload), the ranking loop that reorders it               *)
(* (RankLoop::rerank), and the quota slots the nodes book on.              *)
(*                                                                         *)
(* A reload builds new RpcNode objects for every name, so a node is a pair *)
(* <<generation, name>>: the object of a name in an older generation lives *)
(* on in the requests that loaded it.  What traffic does to the nodes is   *)
(* the environment here (Traffic); Balancer.tla puts the requests in its   *)
(* place.                                                                  *)
(***************************************************************************)
EXTENDS Integers, Sequences, FiniteSets

CONSTANTS Name,         \* names the operator may give nodes
          Config,       \* node lists the config file may hold, in its order
          StartConfig,  \* the list the process starts with
          Tier,         \* RpcNode::tier, by name
          MaxNodes,     \* MAX_NODES, 64 in the code
          Latency,      \* measured values of ema_us
          Unmeasured,   \* UNMEASURED
          MaxReloads,   \* bound on accepted reloads
          MaxUsage      \* bound on a counter

ASSUME NameAssumption == IsFiniteSet(Name) /\ Tier \in [Name -> Nat]
ASSUME ConfigAssumption == Config \subseteq Seq(Name) /\ StartConfig \in Config
ASSUME LatencyAssumption ==
    /\ Unmeasured \in Nat
    /\ Latency \subseteq Nat
    /\ \A l \in Latency : l < Unmeasured
ASSUME BoundAssumption ==
    MaxNodes \in Nat /\ MaxReloads \in Nat /\ MaxUsage \in Nat

VARIABLES topology,   \* RpcClient::topology: the lists all and ranked
          lock,       \* RpcClient::topology_lock: who holds it
          reloadPc,   \* has the reload a set assigned and not published?
          staged,     \* the node list that reload is about to publish
          rankPc,     \* has the ranking loop loaded a set and not published?
          loaded,     \* the node list the ranking loop is about to publish
          slot,       \* RpcNode::id
          ema,        \* NodeLatency::ema_us
          penalized,  \* is NodePenalty::until_s in the future?
          usage,      \* GlobalQuotaState, by slot
          gen,        \* how many node sets have been built
          accepted,   \* history: the list last published by start or reload
          own         \* history: by slot, what its present owner booked

publishVars == <<topology, lock, reloadPc, staged, rankPc, loaded, gen, accepted>>
healthVars == <<ema, penalized>>
countVars == <<usage, own>>
topologyVars == <<publishVars, slot, healthVars, countVars>>

Slot == 0 .. MaxNodes - 1
NoSlot == -1   \* of an object that is not built yet
Object == (0 .. MaxReloads) \X Name
NameOf(o) == o[2]
Elements(s) == {s[i] : i \in DOMAIN s}

\* The new objects a config builds, in its order.
Build(g, config) == [i \in DOMAIN config |-> <<g, config[i]>>]

-----------------------------------------------------------------------------
(* Topology::rank: tier, then latency, then the operator's order. *)

Before(all, e, i, j) ==
    LET tierI == Tier[NameOf(all[i])]
        tierJ == Tier[NameOf(all[j])]
    IN  \/ tierI < tierJ
        \/ tierI = tierJ /\ e[all[i]] < e[all[j]]
        \/ tierI = tierJ /\ e[all[i]] = e[all[j]] /\ i < j

\* The stable sort of all; a relation, though only one sequence satisfies it.
IsRankingOf(ranked, all, e) ==
    \E p \in [DOMAIN all -> DOMAIN all] :
        /\ \A i, j \in DOMAIN all : i < j => Before(all, e, p[i], p[j])
        /\ ranked = [i \in DOMAIN all |-> all[p[i]]]

Rankings(all, e) ==
    {ranked \in [DOMAIN all -> Elements(all)] : IsRankingOf(ranked, all, e)}

\* The keys a sort of live nodes may read.  observe_answer stores to ema_us
\* while the sort runs, so a key is the value of now or a later measurement.
RacingKeys(all) ==
    {e \in [Elements(all) -> Latency \union {Unmeasured}] :
        \A o \in Elements(all) : e[o] = ema[o] \/ e[o] \in Latency}

-----------------------------------------------------------------------------
(* assign_ids *)

\* Too many nodes, or a name used twice: rejected before anything is written.
Accepts(config) ==
    /\ Len(config) <= MaxNodes
    /\ \A i, j \in DOMAIN config : config[i] = config[j] => i = j

Survivors(prev, config) ==
    {o \in Elements(prev) : \E i \in DOMAIN config : config[i] = NameOf(o)}

Arrived(prev, config) ==
    {i \in DOMAIN config : \A o \in Elements(prev) : NameOf(o) # config[i]}

\* Mutants: slots are counted from one; the survivors' slots are handed out
\* again; the slots of removed nodes are not recycled.
FreeFromOne(prev, config) ==
    (1 .. MaxNodes) \ {slot[o] : o \in Survivors(prev, config)}
FreeAll(prev, config) == Slot
FreeNeverUsed(prev, config) == Slot \ {slot[o] : o \in Elements(prev)}

Free(prev, config) == Slot \ {slot[o] : o \in Survivors(prev, config)}

\* The slots of the arrivals: the lowest free ones, in config order.
Assignments(prev, config) ==
    {f \in [Arrived(prev, config) -> Free(prev, config)] :
        /\ \A i, j \in Arrived(prev, config) : i < j => f[i] < f[j]
        /\ \A i \in Arrived(prev, config) : \A s \in Free(prev, config) :
              s < f[i] => \E j \in Arrived(prev, config) : f[j] = s}

\* The object a surviving name had.
Old(prev, name) == CHOOSE o \in Elements(prev) : NameOf(o) = name

\* Mutant: slots follow the config's order, as at start-up.
SlotByPosition(prev, config, i) == i - 1

\* The slot of the survivor at place i of the config: the one it had.
SurvivorSlot(prev, config, i) == slot[Old(prev, config[i])]

\* Mutant: every counter is zeroed.
ZeroAll(f) == Slot

\* The counters assign_ids zeroes: those of the arrivals.
Zeroed(f) == {f[i] : i \in DOMAIN f}

\* assign_ids over the freshly built objects of generation g: survivors keep
\* slot, latency and penalty, arrivals get f's slots with the counter zeroed.
AssignIds(prev, config, g, f) ==
    LET new == Build(g, config)
        arrivals == {new[i] : i \in Arrived(prev, config)}
        survivors == Elements(new) \ arrivals
        position(o) == CHOOSE i \in DOMAIN config : config[i] = NameOf(o)
    IN  /\ slot' = [o \in Object |->
              CASE o \in arrivals -> f[position(o)]
                [] o \in survivors -> SurvivorSlot(prev, config, position(o))
                [] OTHER -> slot[o]]
        /\ ema' = [o \in Object |->
              CASE o \in arrivals -> Unmeasured
                [] o \in survivors -> ema[Old(prev, NameOf(o))]
                [] OTHER -> ema[o]]
        /\ penalized' = [o \in Object |->
              CASE o \in arrivals -> FALSE
                [] o \in survivors -> penalized[Old(prev, NameOf(o))]
                [] OTHER -> penalized[o]]
        /\ usage' = [s \in Slot |-> IF s \in Zeroed(f) THEN 0 ELSE usage[s]]
        /\ own' = [s \in Slot |-> IF \E i \in DOMAIN f : f[i] = s
                                  THEN 0 ELSE own[s]]

-----------------------------------------------------------------------------

\* RpcClient::new: slots in config order, counters at zero, nothing measured.
Init ==
    LET all == Build(0, StartConfig)
    IN  /\ Accepts(StartConfig)
        /\ slot = [o \in Object |-> IF o \in Elements(all)
                     THEN (CHOOSE i \in DOMAIN all : all[i] = o) - 1
                     ELSE NoSlot]
        /\ ema = [o \in Object |-> Unmeasured]
        /\ penalized = [o \in Object |-> FALSE]
        /\ usage = [s \in Slot |-> 0]
        /\ own = [s \in Slot |-> 0]
        /\ \E ranked \in Rankings(all, ema) :
              topology = [all |-> all, ranked |-> ranked]
        /\ lock = "free"
        /\ reloadPc = "idle" /\ staged = <<>>
        /\ rankPc = "idle" /\ loaded = <<>>
        /\ gen = 0
        /\ accepted = StartConfig

\* RpcClient::reload up to the store, under topology_lock.
ReloadAssign(config) ==
    /\ lock = "free"
    /\ gen < MaxReloads
    /\ Accepts(config)
    /\ \E f \in Assignments(topology.all, config) :
          AssignIds(topology.all, config, gen + 1, f)
    /\ lock' = "reload"
    /\ reloadPc' = "assigned"
    /\ staged' = Build(gen + 1, config)
    /\ gen' = gen + 1
    /\ UNCHANGED <<topology, rankPc, loaded, accepted>>

\* The set is rejected: the lock is dropped with nothing written.
ReloadReject(config) ==
    /\ lock = "free"
    /\ ~Accepts(config)
    /\ UNCHANGED topologyVars

\* The health of an object that goes out of the published set is read by nobody
\* but the requests that hold it, for which it is a choice in Balancer.tla; it
\* is forgotten here, to keep the states of dead objects apart no longer.
Retire ==
    /\ ema' = [o \in Object |-> IF o \in Elements(staged)
                               THEN ema[o] ELSE Unmeasured]
    /\ penalized' = [o \in Object |-> o \in Elements(staged) /\ penalized[o]]

\* The store, and the end of the critical section.  No request has seen the
\* staged objects yet, so their keys hold still while they are sorted.
ReloadPublish ==
    /\ reloadPc = "assigned"
    /\ \E ranked \in Rankings(staged, ema) :
          topology' = [all |-> staged, ranked |-> ranked]
    /\ accepted' = [i \in DOMAIN staged |-> NameOf(staged[i])]
    /\ lock' = "free"
    /\ reloadPc' = "idle"
    /\ staged' = <<>>
    /\ Retire
    /\ UNCHANGED <<rankPc, loaded, slot, gen, countVars>>

\* Mutant: the ranking loop does not take the lock.
RerankUnlocked ==
    /\ rankPc = "idle"
    /\ rankPc' = "loaded"
    /\ loaded' = topology.all
    /\ UNCHANGED <<topology, lock, reloadPc, staged, gen, accepted, slot,
                   healthVars, countVars>>

\* RankLoop::rerank: the node set is loaded under the lock ...
RerankLoad ==
    /\ lock = "free"
    /\ lock' = "rank"
    /\ rankPc' = "loaded"
    /\ loaded' = topology.all
    /\ UNCHANGED <<topology, reloadPc, staged, gen, accepted, slot, healthVars,
                   countVars>>

\* ... and published in its new order.
RerankPublish ==
    /\ rankPc = "loaded"
    /\ \E e \in RacingKeys(loaded) : \E ranked \in Rankings(loaded, e) :
          topology' = [all |-> loaded, ranked |-> ranked]
    /\ lock' = "free"
    /\ rankPc' = "idle"
    /\ loaded' = <<>>
    /\ UNCHANGED <<reloadPc, staged, gen, accepted, slot, healthVars, countVars>>

Publishers ==
    \/ \E config \in Config : ReloadAssign(config) \/ ReloadReject(config)
    \/ ReloadPublish \/ RerankLoad \/ RerankPublish

-----------------------------------------------------------------------------
(* Traffic on an object some request loaded, of this or an older generation. *)

Published ==
    {o \in Object : slot[o] # NoSlot /\ (o[1] < gen \/ o \in Elements(topology.all))}

\* Who the counter of slot s belongs to: the nodes being published, or else
\* the published ones.
Owners(s) ==
    {o \in Elements(IF reloadPc = "assigned" THEN staged ELSE topology.all) : slot[o] = s}

\* book adds a cost to the counter of the object's slot.
Book(o, cost) ==
    LET s == slot[o]
    IN  /\ usage[s] + cost <= MaxUsage
        /\ usage' = [usage EXCEPT ![s] = @ + cost]
        /\ own' = [own EXCEPT ![s] =
              IF \E w \in Owners(s) : NameOf(w) = NameOf(o) THEN @ + cost ELSE @]
        /\ UNCHANGED <<publishVars, slot, healthVars>>

\* observe_answer.  The average may become any measured value.
Observe(o, latency) ==
    /\ ema' = [ema EXCEPT ![o] = latency]
    /\ penalized' = [penalized EXCEPT ![o] = FALSE]
    /\ UNCHANGED <<publishVars, slot, countVars>>

\* penalize.
Penalize(o) ==
    /\ penalized' = [penalized EXCEPT ![o] = TRUE]
    /\ UNCHANGED <<publishVars, slot, ema, countVars>>

\* A penalty runs out.
Expire(o) ==
    /\ penalized[o]
    /\ penalized' = [penalized EXCEPT ![o] = FALSE]
    /\ UNCHANGED <<publishVars, slot, ema, countVars>>

Traffic ==
    \E o \in Published :
        \/ \E cost \in 1 .. MaxUsage : Book(o, cost)
        \/ \E latency \in Latency : Observe(o, latency)
        \/ Penalize(o)
        \/ Expire(o)

Next == Publishers \/ Traffic

Spec == Init /\ [][Next]_topologyVars

-----------------------------------------------------------------------------
(* Properties *)

TypeOK ==
    /\ topology \in [all : Seq(Object), ranked : Seq(Object)]
    /\ lock \in {"free", "reload", "rank"}
    /\ reloadPc \in {"idle", "assigned"}
    /\ staged \in Seq(Object)
    /\ rankPc \in {"idle", "loaded"}
    /\ loaded \in Seq(Object)
    /\ slot \in [Object -> Slot \union {NoSlot}]
    /\ ema \in [Object -> Nat]
    /\ penalized \in [Object -> BOOLEAN]
    /\ usage \in [Slot -> Nat]
    /\ gen \in 0 .. MaxReloads
    /\ accepted \in Seq(Name)
    /\ own \in [Slot -> Nat]

\* No two nodes of a published set share a counter, and every slot is inside
\* the table, whatever sequence of reloads freed and recycled slots.
SlotsDistinct ==
    \A o, q \in Elements(topology.all) :
        slot[o] \in Slot /\ (o # q => slot[o] # slot[q])

\* The published set is the one the last accepted config described: a ranking
\* round never undoes a reload that landed while it was sorting.  Both lists
\* of a topology hold the same nodes and the ranked one goes up in tier,
\* whatever the latencies do during the sort.
PublishedIsAccepted ==
    /\ [i \in DOMAIN topology.all |-> NameOf(topology.all[i])] = accepted
    /\ Len(topology.ranked) = Len(topology.all)
    /\ Elements(topology.ranked) = Elements(topology.all)
    /\ \A i, j \in DOMAIN topology.ranked :
          i < j => Tier[NameOf(topology.ranked[i])] <= Tier[NameOf(topology.ranked[j])]

\* "Cannot run dry" (topology.rs:211): every config assign_ids accepts finds
\* a free slot for each arrival.
SlotsNeverRunDry ==
    \A config \in Config :
        Accepts(config) => Assignments(topology.all, config) # {}

\* A name that stays in the config keeps its counter across every publication,
\* so its spend is neither moved nor read under another name.
NamesKeepSlots ==
    [][\A o \in Elements(topology.all), q \in Elements(topology'.all) :
          NameOf(o) = NameOf(q) => slot'[q] = slot[o]]_topologyVars

\* A counter never falls below what its present owner has booked on it: a
\* reload zeroes the slots of arrivals only, and a node loses no spend to it.
SpendSurvivesReload == \A s \in Slot : own[s] <= usage[s]
=============================================================================
