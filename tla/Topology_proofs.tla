-------------------------- MODULE Topology_proofs --------------------------
(***************************************************************************)
(* Proofs about Topology for every set of names, every config, any number  *)
(* of slots and any number of reloads.  A set that is assigned and not yet *)
(* published, or loaded by the ranking loop and not yet stored, is what a  *)
(* later step publishes: the inductive invariant says of the staged list   *)
(* what the properties say of the published one, and how the two differ.   *)
(***************************************************************************)
EXTENDS Topology, FiniteSetTheorems, FunctionTheorems, SequenceTheorems, TLAPS

\* The lock tells who is between its load and its store.
Locking ==
    /\ lock = "reload" <=> reloadPc = "assigned"
    /\ lock = "rank" <=> rankPc = "loaded"

\* A list of objects built at once: of one generation, no name twice, and no
\* more than there are slots.
Whole(s, g) ==
    /\ Len(s) <= MaxNodes
    /\ \A i \in DOMAIN s : s[i] = <<g, NameOf(s[i])>>
    /\ \A i, j \in DOMAIN s : NameOf(s[i]) = NameOf(s[j]) => i = j

\* Distinct slots of the table.
Distinct(s) ==
    \A i, j \in DOMAIN s : slot[s[i]] \in Slot /\ (i # j => slot[s[i]] # slot[s[j]])

\* The generation of the published objects.
Current == IF reloadPc = "assigned" THEN gen - 1 ELSE gen

Sets ==
    /\ Whole(topology.all, Current) /\ Distinct(topology.all)
    /\ reloadPc = "assigned" => gen > 0 /\ Whole(staged, gen) /\ Distinct(staged)
    /\ rankPc = "loaded" => loaded = topology.all

\* A name in both lists has one slot.
Handover ==
    reloadPc = "assigned" =>
        \A i \in DOMAIN topology.all, j \in DOMAIN staged :
            NameOf(topology.all[i]) = NameOf(staged[j])
              => slot[topology.all[i]] = slot[staged[j]]

\* The inductive invariant.
IInv ==
    TypeOK /\ Locking /\ Sets /\ Handover /\ PublishedIsAccepted /\ SpendSurvivesReload

-----------------------------------------------------------------------------
(* The operators *)

\* An object is its generation and its name.
LEMMA ObjectParts ==
    ASSUME NEW o \in Object
    PROVE  /\ o[1] \in 0 .. MaxReloads /\ NameOf(o) \in Name
           /\ o = <<o[1], NameOf(o)>>
  BY DEF Object, NameOf

\* Membership in a node list, by position.
LEMMA ElementsOf ==
    ASSUME NEW s \in Seq(Object), NEW o
    PROVE  o \in Elements(s) <=> \E i \in DOMAIN s : s[i] = o
  BY DEF Elements

\* build_nodes: one object for each entry of the config.
LEMMA BuildTyped ==
    ASSUME NEW config \in Seq(Name), NEW g \in 0 .. MaxReloads
    PROVE  /\ Build(g, config) \in Seq(Object)
           /\ DOMAIN Build(g, config) = DOMAIN config
           /\ Len(Build(g, config)) = Len(config)
           /\ \A i \in DOMAIN config :
                 Build(g, config)[i] = <<g, config[i]>> /\ NameOf(Build(g, config)[i]) = config[i]
  <1>1. DOMAIN config = 1 .. Len(config) /\ Len(config) \in Nat
    OBVIOUS
  <1>2. \A i \in 1 .. Len(config) : <<g, config[i]>> \in Object
    BY <1>1 DEF Object
  <1>3. Build(g, config) \in Seq(Object)
    BY <1>1, <1>2, IsASeq DEF Build
  <1> QED BY <1>1, <1>3 DEF Build, NameOf

\* The objects of an accepted config make a whole list.
LEMMA BuildWhole ==
    ASSUME NEW config \in Seq(Name), NEW g \in 0 .. MaxReloads, Accepts(config)
    PROVE  Whole(Build(g, config), g)
  <1> DEFINE s == Build(g, config)
  <1>1. /\ s \in Seq(Object) /\ DOMAIN s = DOMAIN config /\ Len(s) = Len(config)
        /\ \A i \in DOMAIN config : s[i] = <<g, config[i]>> /\ NameOf(s[i]) = config[i]
    BY BuildTyped
  <1> HIDE DEF s
  <1>2. Whole(s, g)
    BY <1>1 DEF Whole, Accepts
  <1> QED BY <1>2 DEF s

\* A map of a finite interval to itself that keeps the order of some relation
\* is onto.
LEMMA OrderedIsOnto ==
    ASSUME NEW n \in Nat, NEW p \in [1 .. n -> 1 .. n],
           \A i, j \in 1 .. n : i < j => p[i] # p[j]
    PROVE  \A k \in 1 .. n : \E i \in 1 .. n : p[i] = k
  <1>1. p \in Injection(1 .. n, 1 .. n)
    <2>1. \A i, j \in 1 .. n : p[i] = p[j] => i = j
      OBVIOUS
    <2> QED BY <2>1 DEF Injection, IsInjective
  <1>2. IsFiniteSet(1 .. n)
    BY FS_Interval
  <1>3. p \in Surjection(1 .. n, 1 .. n)
    BY <1>1, <1>2, FS_Injection
  <1> QED BY <1>3 DEF Surjection

\* Topology::rank, whatever keys the sort has read: the same nodes, going up
\* in tier.
LEMMA RankingKeeps ==
    ASSUME NEW all \in Seq(Object), NEW e, NEW ranked \in Rankings(all, e),
           \A i \in DOMAIN all : e[all[i]] \in Nat
    PROVE  /\ ranked \in Seq(Object)
           /\ Len(ranked) = Len(all)
           /\ Elements(ranked) = Elements(all)
           /\ \A i, j \in DOMAIN ranked :
                 i < j => Tier[NameOf(ranked[i])] <= Tier[NameOf(ranked[j])]
  <1> DEFINE n == Len(all)
  <1>1. n \in Nat /\ DOMAIN all = 1 .. n /\ \A i \in 1 .. n : all[i] \in Object
    OBVIOUS
  <1>2. PICK p \in [1 .. n -> 1 .. n] :
          /\ \A i, j \in 1 .. n : i < j => Before(all, e, p[i], p[j])
          /\ ranked = [i \in 1 .. n |-> all[p[i]]]
    BY <1>1 DEF Rankings, IsRankingOf
  <1>3. \A i \in 1 .. n : Tier[NameOf(all[i])] \in Nat
    BY <1>1, ObjectParts, NameAssumption
  <1>4. \A i, j \in 1 .. n :
          Before(all, e, i, j) => i # j /\ Tier[NameOf(all[i])] <= Tier[NameOf(all[j])]
    BY <1>1, <1>3 DEF Before
  <1>5. \A i, j \in 1 .. n : i < j => p[i] # p[j]
    BY <1>2, <1>4
  <1> HIDE DEF n
  <1>6. \A k \in 1 .. n : \E i \in 1 .. n : p[i] = k
    BY <1>1, <1>5, OrderedIsOnto
  <1>7. ranked \in Seq(Object) /\ DOMAIN ranked = 1 .. n /\ Len(ranked) = n
    <2>1. \A i \in 1 .. n : all[p[i]] \in Object
      BY <1>1, <1>2
    <2> QED BY <1>1, <1>2, <2>1, IsASeq
  <1>8. Elements(ranked) = Elements(all)
    BY <1>1, <1>2, <1>6, <1>7 DEF Elements
  <1>9. \A i, j \in 1 .. n :
          i < j => Tier[NameOf(ranked[i])] <= Tier[NameOf(ranked[j])]
    BY <1>2, <1>4
  <1> QED BY <1>7, <1>8, <1>9 DEF n

\* The name of a surviving entry has an object in the published set.
LEMMA OldExists ==
    ASSUME NEW prev \in Seq(Object), NEW config \in Seq(Name),
           NEW i \in DOMAIN config \ Arrived(prev, config)
    PROVE  /\ Old(prev, config[i]) \in Elements(prev)
           /\ NameOf(Old(prev, config[i])) = config[i]
           /\ Old(prev, config[i]) \in Object
           /\ Old(prev, config[i]) \in Survivors(prev, config)
  <1>1. \E o \in Elements(prev) : NameOf(o) = config[i]
    BY DEF Arrived
  <1>2. /\ Old(prev, config[i]) \in Elements(prev)
        /\ NameOf(Old(prev, config[i])) = config[i]
    BY <1>1 DEF Old
  <1> QED BY <1>2 DEF Survivors, Elements

\* assign_ids, entry by entry.
LEMMA AssignedSlots ==
    ASSUME TypeOK, NEW config \in Seq(Name), Accepts(config), gen < MaxReloads,
           NEW prev \in Seq(Object), \A i \in DOMAIN prev : prev[i][1] = gen,
           NEW f \in Assignments(prev, config), AssignIds(prev, config, gen + 1, f)
    PROVE  /\ \A o \in Object : o[1] # gen + 1 => slot'[o] = slot[o]
           /\ \A i \in DOMAIN config :
                 /\ i \in Arrived(prev, config) => slot'[<<gen + 1, config[i]>>] = f[i]
                 /\ i \notin Arrived(prev, config) =>
                       slot'[<<gen + 1, config[i]>>] = slot[Old(prev, config[i])]
           /\ slot' \in [Object -> Slot \union {NoSlot}]
           /\ ema' \in [Object -> Nat]
           /\ penalized' \in [Object -> BOOLEAN]
           /\ usage' \in [Slot -> Nat]
           /\ own' \in [Slot -> Nat]
           /\ SpendSurvivesReload => SpendSurvivesReload'
  <1> DEFINE g == gen + 1
             new == Build(g, config)
             arrivals == {new[i] : i \in Arrived(prev, config)}
             survivors == Elements(new) \ arrivals
             position(o) == CHOOSE i \in DOMAIN config : config[i] = NameOf(o)
  <1>1. /\ slot' = [o \in Object |->
              CASE o \in arrivals -> f[position(o)]
                [] o \in survivors -> SurvivorSlot(prev, config, position(o))
                [] OTHER -> slot[o]]
        /\ ema' = [o \in Object |->
              CASE o \in arrivals -> Unmeasured
                [] o \in survivors -> ema[Old(prev, NameOf(o))]
                [] OTHER -> ema[o]]
        /\ penalized' = [o \in Object |->
              CASE o \in arrivals -> FALSE
                [] o \in survivors -> penalized[Old(prev, NameOf(o))]
                [] OTHER -> penalized[o]]
        /\ usage' = [s \in Slot |-> IF s \in Zeroed(f) THEN 0 ELSE usage[s]]
        /\ own' = [s \in Slot |-> IF \E i \in DOMAIN f : f[i] = s THEN 0 ELSE own[s]]
    BY DEF AssignIds
  <1>2. g \in 0 .. MaxReloads /\ g # gen
    BY BoundAssumption DEF TypeOK
  <1>3. /\ new \in Seq(Object) /\ DOMAIN new = DOMAIN config
        /\ \A i \in DOMAIN config :
              new[i] = <<g, config[i]>> /\ NameOf(new[i]) = config[i] /\ new[i] \in Object
    <2> HIDE DEF g
    <2>1. /\ new \in Seq(Object) /\ DOMAIN new = DOMAIN config
          /\ \A i \in DOMAIN config : new[i] = <<g, config[i]>> /\ NameOf(new[i]) = config[i]
      BY <1>2, BuildTyped
    <2> HIDE DEF new
    <2> QED BY <2>1
  <1> HIDE DEF new, g
  <1>4. \A i \in DOMAIN config : position(new[i]) = i
    BY <1>3 DEF Accepts
  <1>5. Arrived(prev, config) \subseteq DOMAIN config
    BY DEF Arrived
  <1>6. \A i \in DOMAIN config : new[i] \in arrivals <=> i \in Arrived(prev, config)
    <2>1. \A i, j \in DOMAIN config : new[i] = new[j] => i = j
      BY <1>3 DEF Accepts
    <2> QED BY <2>1, <1>5 DEF arrivals
  <1>7. \A o \in Object : o \in arrivals \union survivors
                          <=> \E i \in DOMAIN config : o = new[i]
    BY <1>3, <1>5 DEF Elements
  <1>8. f \in [Arrived(prev, config) -> Free(prev, config)] /\ Free(prev, config) \subseteq Slot
    BY DEF Assignments, Free
  <1> HIDE DEF arrivals, survivors, position
  <1>9. \A o \in Object : o[1] # gen + 1 => slot'[o] = slot[o]
    <2> SUFFICES ASSUME NEW o \in Object, o[1] # g PROVE slot'[o] = slot[o]
      BY DEF g
    <2>1. o \notin arrivals \union survivors
      BY <1>3, <1>7
    <2> QED BY <1>1, <2>1 DEF survivors
  <1>10. \A i \in Arrived(prev, config) : slot'[new[i]] = f[i] /\ f[i] \in Slot
    <2> TAKE i \in Arrived(prev, config)
    <2>1. new[i] \in Object /\ new[i] \in arrivals /\ position(new[i]) = i
      BY <1>3, <1>4, <1>5, <1>6
    <2>2. slot'[new[i]] = f[position(new[i])]
      BY <1>1, <2>1 DEF survivors
    <2> QED BY <2>1, <2>2, <1>8
  <1>11. \A i \in DOMAIN config \ Arrived(prev, config) :
           /\ new[i] \in survivors /\ new[i] \notin arrivals
           /\ slot'[new[i]] = slot[Old(prev, config[i])]
           /\ Old(prev, config[i]) \in Object
    BY <1>1, <1>3, <1>4, <1>6, <1>7, OldExists DEF SurvivorSlot
  <1>12. slot' \in [Object -> Slot \union {NoSlot}]
    <2> SUFFICES ASSUME NEW o \in Object PROVE slot'[o] \in Slot \union {NoSlot}
      BY <1>1
    <2>1. CASE o \in arrivals \union survivors
      <3>1. PICK i \in DOMAIN config : o = new[i]
        BY <2>1, <1>7
      <3>2. CASE i \in Arrived(prev, config)
        BY <3>1, <3>2, <1>10
      <3>3. CASE i \notin Arrived(prev, config)
        BY <3>1, <3>3, <1>11 DEF TypeOK
      <3> QED BY <3>2, <3>3
    <2>2. CASE o \notin arrivals \union survivors
      BY <2>2, <1>1 DEF TypeOK
    <2> QED BY <2>1, <2>2
  <1>13. ema' \in [Object -> Nat] /\ penalized' \in [Object -> BOOLEAN]
    <2> SUFFICES ASSUME NEW o \in Object PROVE ema'[o] \in Nat /\ penalized'[o] \in BOOLEAN
      BY <1>1
    <2>1. CASE o \in arrivals
      <3>1. ema'[o] = Unmeasured /\ penalized'[o] = FALSE
        BY <2>1, <1>1 DEF survivors
      <3> QED BY <3>1, LatencyAssumption
    <2>2. CASE o \in survivors /\ o \notin arrivals
      <3>1. PICK i \in DOMAIN config : o = new[i]
        BY <2>2, <1>7
      <3>2. Old(prev, NameOf(o)) \in Object
        BY <3>1, <2>2, <1>3, <1>6, OldExists
      <3>3. /\ ema'[o] = ema[Old(prev, NameOf(o))]
            /\ penalized'[o] = penalized[Old(prev, NameOf(o))]
        BY <2>2, <1>1
      <3> QED BY <3>2, <3>3 DEF TypeOK
    <2>3. CASE o \notin arrivals \union survivors
      <3>1. ema'[o] = ema[o] /\ penalized'[o] = penalized[o]
        BY <2>3, <1>1
      <3> QED BY <3>1 DEF TypeOK
    <2> QED BY <2>1, <2>2, <2>3
  <1>14. usage' \in [Slot -> Nat] /\ own' \in [Slot -> Nat]
    BY <1>1 DEF TypeOK
  <1>15. SpendSurvivesReload => SpendSurvivesReload'
    BY <1>1 DEF SpendSurvivesReload, Zeroed, TypeOK
  <1> QED BY <1>3, <1>9, <1>10, <1>11, <1>12, <1>13, <1>14, <1>15 DEF g

-----------------------------------------------------------------------------
(* The steps *)

\* RpcClient::new establishes the invariant.
LEMMA InitIInv ==
    ASSUME Init
    PROVE  IInv
  <1> DEFINE all == Build(0, StartConfig)
  <1>1. StartConfig \in Seq(Name) /\ 0 \in 0 .. MaxReloads
    BY ConfigAssumption, BoundAssumption
  <1>2. /\ Accepts(StartConfig)
        /\ slot = [o \in Object |-> IF o \in Elements(all)
                     THEN (CHOOSE i \in DOMAIN all : all[i] = o) - 1 ELSE NoSlot]
        /\ ema = [o \in Object |-> Unmeasured]
        /\ penalized = [o \in Object |-> FALSE]
        /\ usage = [s \in Slot |-> 0]
        /\ own = [s \in Slot |-> 0]
        /\ lock = "free"
        /\ reloadPc = "idle" /\ staged = <<>>
        /\ rankPc = "idle" /\ loaded = <<>>
        /\ gen = 0
        /\ accepted = StartConfig
    BY DEF Init
  <1>3. PICK ranked \in Rankings(all, ema) : topology = [all |-> all, ranked |-> ranked]
    BY DEF Init
  <1>4. /\ all \in Seq(Object) /\ DOMAIN all = DOMAIN StartConfig
        /\ Len(all) = Len(StartConfig)
        /\ \A i \in DOMAIN StartConfig :
              all[i] = <<0, StartConfig[i]>> /\ NameOf(all[i]) = StartConfig[i]
    BY <1>1, BuildTyped
  <1>5. Whole(all, 0)
    BY <1>1, <1>2, BuildWhole
  <1> HIDE DEF all
  <1>6. \A i \in DOMAIN all : all[i] \in Object /\ ema[all[i]] \in Nat
    BY <1>2, <1>4, LatencyAssumption
  <1>7. /\ ranked \in Seq(Object) /\ Len(ranked) = Len(all)
        /\ Elements(ranked) = Elements(all)
        /\ \A i, j \in DOMAIN ranked :
              i < j => Tier[NameOf(ranked[i])] <= Tier[NameOf(ranked[j])]
    BY <1>3, <1>4, <1>6, RankingKeeps
  <1>8. \A i \in DOMAIN all : slot[all[i]] = i - 1 /\ i - 1 \in Slot
    <2> TAKE i \in DOMAIN all
    <2>1. \A j \in DOMAIN all : all[j] = all[i] => j = i
      BY <1>5 DEF Whole
    <2>2. all[i] \in Elements(all)
      BY DEF Elements
    <2>3. slot[all[i]] = i - 1
      BY <2>1, <2>2, <1>2, <1>6
    <2>4. DOMAIN all = 1 .. Len(all) /\ Len(all) \in Nat /\ Len(all) <= MaxNodes
      BY <1>4, <1>5 DEF Whole
    <2> QED BY <2>3, <2>4, BoundAssumption DEF Slot
  <1>9. TypeOK
    <2>1. slot \in [Object -> Slot \union {NoSlot}]
      <3> SUFFICES ASSUME NEW o \in Object PROVE slot[o] \in Slot \union {NoSlot}
        BY <1>2
      <3>1. CASE o \in Elements(all)
        BY <3>1, <1>8 DEF Elements
      <3>2. CASE o \notin Elements(all)
        BY <3>2, <1>2
      <3> QED BY <3>1, <3>2
    <2> QED BY <2>1, <1>1, <1>2, <1>3, <1>4, <1>7, LatencyAssumption, EmptySeq DEF TypeOK
  <1>10. Locking /\ Handover
    BY <1>2 DEF Locking, Handover
  <1>11. Sets
    <2>1. Distinct(all)
      BY <1>4, <1>8 DEF Distinct
    <2> QED BY <2>1, <1>2, <1>3, <1>5 DEF Sets, Current
  <1>12. PublishedIsAccepted
    <2>1. [i \in DOMAIN all |-> NameOf(all[i])] = StartConfig
      BY <1>1, <1>4
    <2> QED BY <2>1, <1>2, <1>3, <1>7 DEF PublishedIsAccepted
  <1>13. SpendSurvivesReload
    BY <1>2 DEF SpendSurvivesReload
  <1> QED BY <1>9, <1>10, <1>11, <1>12, <1>13 DEF IInv

\* A reload that is accepted: the staged list is whole, its slots are distinct
\* and every name that stays has the slot it had.
LEMMA ReloadAssignIInv ==
    ASSUME IInv, NEW config \in Config, ReloadAssign(config)
    PROVE  IInv'
  <1> DEFINE all == topology.all
             new == Build(gen + 1, config)
             g == gen + 1
  <1>1. config \in Seq(Name) /\ all \in Seq(Object) /\ g \in 0 .. MaxReloads
    BY ConfigAssumption, BoundAssumption DEF IInv, TypeOK, ReloadAssign
  <1>2. /\ lock = "free" /\ gen < MaxReloads /\ Accepts(config)
        /\ lock' = "reload" /\ reloadPc' = "assigned" /\ staged' = new /\ gen' = g
        /\ topology' = topology /\ rankPc' = rankPc /\ loaded' = loaded
        /\ accepted' = accepted
    BY DEF ReloadAssign
  <1>3. PICK f \in Assignments(all, config) : AssignIds(all, config, g, f)
    BY DEF ReloadAssign
  <1>4. reloadPc = "idle" /\ rankPc = "idle" /\ Whole(all, gen) /\ Distinct(all)
    BY <1>2 DEF IInv, Locking, Sets, Current, TypeOK
  <1>5. \A i \in DOMAIN all : all[i] \in Object /\ all[i][1] = gen
    BY <1>1, <1>4 DEF Whole
  <1>6. /\ \A o \in Object : o[1] # g => slot'[o] = slot[o]
        /\ \A i \in DOMAIN config :
              /\ i \in Arrived(all, config) => slot'[<<g, config[i]>>] = f[i]
              /\ i \notin Arrived(all, config) =>
                    slot'[<<g, config[i]>>] = slot[Old(all, config[i])]
        /\ slot' \in [Object -> Slot \union {NoSlot}]
        /\ ema' \in [Object -> Nat]
        /\ penalized' \in [Object -> BOOLEAN]
        /\ usage' \in [Slot -> Nat]
        /\ own' \in [Slot -> Nat]
        /\ SpendSurvivesReload'
    BY <1>1, <1>2, <1>3, <1>5, AssignedSlots DEF IInv
  <1>7. /\ new \in Seq(Object) /\ DOMAIN new = DOMAIN config
        /\ \A i \in DOMAIN config : new[i] = <<g, config[i]>> /\ NameOf(new[i]) = config[i]
    BY <1>1, BuildTyped
  <1>8. Whole(new, g)
    BY <1>1, <1>2, BuildWhole
  <1> HIDE DEF new
  <1>9. \A i \in DOMAIN all : slot'[all[i]] = slot[all[i]]
    <2>1. gen # g
      BY DEF IInv, TypeOK
    <2> QED BY <2>1, <1>5, <1>6
  <1>10. \A i \in DOMAIN config \ Arrived(all, config) :
           \E k \in DOMAIN all :
              /\ NameOf(all[k]) = config[i] /\ slot'[new[i]] = slot[all[k]]
              /\ all[k] \in Survivors(all, config)
    <2> TAKE i \in DOMAIN config \ Arrived(all, config)
    <2>1. /\ Old(all, config[i]) \in Elements(all) /\ NameOf(Old(all, config[i])) = config[i]
          /\ Old(all, config[i]) \in Survivors(all, config)
      BY <1>1, OldExists
    <2>2. PICK k \in DOMAIN all : all[k] = Old(all, config[i])
      BY <2>1 DEF Elements
    <2> QED BY <2>1, <2>2, <1>6, <1>7
  <1>11. \A i \in Arrived(all, config) :
           /\ i \in DOMAIN config /\ slot'[new[i]] = f[i] /\ f[i] \in Slot
           /\ \A o \in Survivors(all, config) : f[i] # slot[o]
           /\ \A k \in DOMAIN all : NameOf(all[k]) # config[i]
    <2>1. f \in [Arrived(all, config) -> Free(all, config)]
      BY DEF Assignments
    <2>2. Arrived(all, config) \subseteq DOMAIN config
      BY DEF Arrived
    <2>3. \A i \in Arrived(all, config) : slot'[new[i]] = f[i]
      BY <2>2, <1>6, <1>7
    <2>4. \A i \in Arrived(all, config) : f[i] \in Free(all, config)
      BY <2>1
    <2>5. \A i \in Arrived(all, config) : \A k \in DOMAIN all : NameOf(all[k]) # config[i]
      BY DEF Arrived, Elements
    <2> QED BY <2>2, <2>3, <2>4, <2>5 DEF Free
  <1>12. Handover'
    <2> SUFFICES ASSUME NEW k \in DOMAIN all, NEW j \in DOMAIN new,
                        NameOf(all[k]) = NameOf(new[j])
                 PROVE  slot'[all[k]] = slot'[new[j]]
      BY <1>2 DEF Handover
    <2>1. j \in DOMAIN config \ Arrived(all, config)
      BY <1>7, <1>11
    <2>2. PICK m \in DOMAIN all :
            NameOf(all[m]) = config[j] /\ slot'[new[j]] = slot[all[m]]
      BY <2>1, <1>10
    <2>3. m = k
      BY <2>1, <2>2, <1>4, <1>7 DEF Whole
    <2> QED BY <2>2, <2>3, <1>9
  <1>13. Distinct(all)'
    BY <1>2, <1>4, <1>9 DEF Distinct
  <1>14. Distinct(staged)'
    <2>1. \A i \in DOMAIN config : slot'[new[i]] \in Slot
      BY <1>4, <1>10, <1>11 DEF Distinct
    <2> SUFFICES ASSUME NEW i \in DOMAIN config, NEW j \in DOMAIN config, i # j
                 PROVE  slot'[new[i]] # slot'[new[j]]
      BY <2>1, <1>2, <1>7 DEF Distinct
    <2>2. config[i] # config[j]
      BY <1>2 DEF Accepts
    <2>3. CASE i \notin Arrived(all, config) /\ j \notin Arrived(all, config)
      BY <2>2, <2>3, <1>4, <1>10 DEF Distinct
    <2>4. CASE i \in Arrived(all, config) /\ j \in Arrived(all, config)
      <3>1. i < j \/ j < i
        BY <1>1
      <3>2. \A k, m \in Arrived(all, config) : k < m => f[k] < f[m]
        BY DEF Assignments
      <3>3. f[i] # f[j]
        BY <2>4, <3>1, <3>2, <1>11 DEF Slot
      <3> QED BY <3>3, <2>4, <1>11
    <2>5. CASE i \in Arrived(all, config) /\ j \notin Arrived(all, config)
      BY <2>5, <1>10, <1>11
    <2>6. CASE i \notin Arrived(all, config) /\ j \in Arrived(all, config)
      BY <2>6, <1>10, <1>11
    <2> QED BY <2>3, <2>4, <2>5, <2>6
  <1>15. TypeOK'
    BY <1>1, <1>2, <1>6, <1>7 DEF IInv, TypeOK
  <1>16. Locking'
    BY <1>2, <1>4 DEF Locking
  <1>17. Sets'
    <2>1. Current' = gen /\ gen' > 0
      BY <1>1, <1>2 DEF Current, IInv, TypeOK
    <2>2. Whole(topology.all, Current)' /\ Whole(staged, gen)'
      BY <2>1, <1>2, <1>4, <1>8 DEF Whole
    <2> QED BY <2>1, <2>2, <1>2, <1>4, <1>13, <1>14 DEF Sets
  <1>18. PublishedIsAccepted'
    BY <1>2 DEF IInv, PublishedIsAccepted
  <1> QED BY <1>6, <1>12, <1>15, <1>16, <1>17, <1>18 DEF IInv

\* The store of a published set of objects in a new order.
LEMMA RankedIsAccepted ==
    ASSUME NEW all \in Seq(Object), NEW e, NEW ranked \in Rankings(all, e),
           \A i \in DOMAIN all : e[all[i]] \in Nat,
           topology' = [all |-> all, ranked |-> ranked],
           accepted' = [i \in DOMAIN all |-> NameOf(all[i])]
    PROVE  PublishedIsAccepted' /\ topology' \in [all : Seq(Object), ranked : Seq(Object)]
  <1>1. /\ ranked \in Seq(Object) /\ Len(ranked) = Len(all)
        /\ Elements(ranked) = Elements(all)
        /\ \A i, j \in DOMAIN ranked :
              i < j => Tier[NameOf(ranked[i])] <= Tier[NameOf(ranked[j])]
    BY RankingKeeps
  <1> QED BY <1>1 DEF PublishedIsAccepted

\* The store of a reload.
LEMMA ReloadPublishIInv ==
    ASSUME IInv, ReloadPublish
    PROVE  IInv'
  <1>1. /\ reloadPc = "assigned"
        /\ accepted' = [i \in DOMAIN staged |-> NameOf(staged[i])]
        /\ lock' = "free" /\ reloadPc' = "idle" /\ staged' = <<>>
        /\ rankPc' = rankPc /\ loaded' = loaded /\ slot' = slot /\ gen' = gen
        /\ usage' = usage /\ own' = own
        /\ Retire
    BY DEF ReloadPublish, countVars
  <1>2. PICK ranked \in Rankings(staged, ema) : topology' = [all |-> staged, ranked |-> ranked]
    BY DEF ReloadPublish
  <1>3. staged \in Seq(Object) /\ rankPc = "idle" /\ Whole(staged, gen) /\ Distinct(staged)
    BY <1>1 DEF IInv, TypeOK, Sets, Locking
  <1>4. \A i \in DOMAIN staged : ema[staged[i]] \in Nat /\ NameOf(staged[i]) \in Name
    BY <1>3, ObjectParts DEF IInv, TypeOK
  <1>5. PublishedIsAccepted' /\ topology' \in [all : Seq(Object), ranked : Seq(Object)]
    BY <1>1, <1>2, <1>3, <1>4, RankedIsAccepted
  <1>6. TypeOK'
    <2>1. ema' \in [Object -> Nat]
      BY <1>1, LatencyAssumption DEF Retire, IInv, TypeOK
    <2>2. penalized' \in [Object -> BOOLEAN]
      BY <1>1 DEF Retire
    <2>3. accepted' \in Seq(Name)
      <3>1. DOMAIN staged = 1 .. Len(staged) /\ Len(staged) \in Nat
        BY <1>3
      <3> QED BY <3>1, <1>1, <1>4, IsASeq
    <2> QED BY <2>1, <2>2, <2>3, <1>1, <1>5, EmptySeq DEF IInv, TypeOK
  <1>7. Locking' /\ Handover'
    BY <1>1, <1>3 DEF Locking, Handover
  <1>8. Sets'
    <2>1. topology'.all = staged /\ Current' = gen
      BY <1>1, <1>2 DEF Current
    <2>2. Whole(topology.all, Current)'
      BY <2>1, <1>3 DEF Whole
    <2>3. Distinct(topology.all)'
      BY <2>1, <1>1, <1>3 DEF Distinct
    <2> QED BY <2>2, <2>3, <1>1, <1>3 DEF Sets
  <1>9. SpendSurvivesReload'
    BY <1>1 DEF IInv, SpendSurvivesReload
  <1> QED BY <1>5, <1>6, <1>7, <1>8, <1>9 DEF IInv

\* The ranking loop loads the set under the lock.
LEMMA RerankLoadIInv ==
    ASSUME IInv, RerankLoad
    PROVE  IInv'
  <1>1. /\ lock = "free" /\ lock' = "rank" /\ rankPc' = "loaded" /\ loaded' = topology.all
        /\ topology' = topology /\ reloadPc' = reloadPc /\ staged' = staged /\ gen' = gen
        /\ accepted' = accepted /\ slot' = slot /\ ema' = ema /\ penalized' = penalized
        /\ usage' = usage /\ own' = own
    BY DEF RerankLoad, healthVars, countVars
  <1>2. TypeOK'
    BY <1>1 DEF IInv, TypeOK
  <1>3. Locking'
    BY <1>1 DEF IInv, TypeOK, Locking
  <1>4. Sets'
    BY <1>1 DEF IInv, Sets, Current, Whole, Distinct
  <1>5. Handover' /\ PublishedIsAccepted' /\ SpendSurvivesReload'
    BY <1>1 DEF IInv, Handover, PublishedIsAccepted, SpendSurvivesReload
  <1> QED BY <1>2, <1>3, <1>4, <1>5 DEF IInv

\* The ranking loop stores the set it loaded: the lock kept every reload out.
LEMMA RerankPublishIInv ==
    ASSUME IInv, RerankPublish
    PROVE  IInv'
  <1>1. /\ rankPc = "loaded" /\ lock' = "free" /\ rankPc' = "idle" /\ loaded' = <<>>
        /\ reloadPc' = reloadPc /\ staged' = staged /\ gen' = gen
        /\ accepted' = accepted /\ slot' = slot /\ ema' = ema /\ penalized' = penalized
        /\ usage' = usage /\ own' = own
    BY DEF RerankPublish, healthVars, countVars
  <1>2. PICK e \in RacingKeys(loaded) : \E ranked \in Rankings(loaded, e) :
          topology' = [all |-> loaded, ranked |-> ranked]
    BY DEF RerankPublish
  <1>3. PICK ranked \in Rankings(loaded, e) : topology' = [all |-> loaded, ranked |-> ranked]
    BY <1>2
  <1>4. loaded \in Seq(Object) /\ loaded = topology.all /\ reloadPc = "idle"
    BY <1>1 DEF IInv, TypeOK, Sets, Locking
  <1>5. \A i \in DOMAIN loaded : e[loaded[i]] \in Nat
    BY <1>4, LatencyAssumption DEF RacingKeys, Elements
  <1>6. accepted' = [i \in DOMAIN loaded |-> NameOf(loaded[i])]
    BY <1>1, <1>4 DEF IInv, PublishedIsAccepted
  <1>7. PublishedIsAccepted' /\ topology' \in [all : Seq(Object), ranked : Seq(Object)]
    BY <1>3, <1>4, <1>5, <1>6, RankedIsAccepted
  <1>8. TypeOK'
    BY <1>1, <1>7, EmptySeq DEF IInv, TypeOK
  <1>9. Locking' /\ Handover'
    BY <1>1, <1>4 DEF IInv, TypeOK, Locking, Handover
  <1>10. Sets'
    <2>1. topology'.all = topology.all /\ Current' = Current
      BY <1>1, <1>3, <1>4 DEF Current
    <2> QED BY <2>1, <1>1, <1>4 DEF IInv, Sets, Whole, Distinct
  <1>11. SpendSurvivesReload'
    BY <1>1 DEF IInv, SpendSurvivesReload
  <1> QED BY <1>7, <1>8, <1>9, <1>10, <1>11 DEF IInv

\* A request books on the slot of an object, of any generation it may hold.
LEMMA BookIInv ==
    ASSUME IInv, NEW o \in Published, NEW cost \in 1 .. MaxUsage, Book(o, cost)
    PROVE  IInv'
  <1> DEFINE s == slot[o]
  <1>1. s \in Slot
    BY DEF Published, IInv, TypeOK
  <1>2. /\ usage' = [usage EXCEPT ![s] = @ + cost]
        /\ own' = [own EXCEPT ![s] =
              IF \E w \in Owners(s) : NameOf(w) = NameOf(o) THEN @ + cost ELSE @]
        /\ UNCHANGED <<publishVars, slot, healthVars>>
    BY DEF Book
  <1>3. cost \in Nat
    BY BoundAssumption
  <1> HIDE DEF s
  <1>4. usage' \in [Slot -> Nat] /\ own' \in [Slot -> Nat] /\ SpendSurvivesReload'
    <2>1. /\ usage \in [Slot -> Nat] /\ own \in [Slot -> Nat]
          /\ \A q \in Slot : own[q] <= usage[q]
      BY DEF IInv, TypeOK, SpendSurvivesReload
    <2>2. own' = [own EXCEPT ![s] = own[s] + cost] \/ own' = own
      <3>1. CASE \E w \in Owners(s) : NameOf(w) = NameOf(o)
        BY <1>2, <3>1
      <3>2. CASE ~ \E w \in Owners(s) : NameOf(w) = NameOf(o)
        BY <1>1, <1>2, <2>1, <3>2
      <3> QED BY <3>1, <3>2
    <2>3. usage' \in [Slot -> Nat] /\ own' \in [Slot -> Nat]
      BY <1>1, <1>2, <1>3, <2>1, <2>2
    <2>4. \A q \in Slot : own'[q] <= usage'[q]
      BY <1>1, <1>2, <1>3, <2>1, <2>2
    <2> QED BY <2>3, <2>4 DEF SpendSurvivesReload
  <1>5. /\ TypeOK' /\ Locking' /\ Handover' /\ PublishedIsAccepted'
    BY <1>2, <1>4 DEF IInv, TypeOK, Locking, Handover, PublishedIsAccepted, publishVars, healthVars
  <1>6. Sets'
    BY <1>2 DEF IInv, Sets, Current, Whole, Distinct, publishVars
  <1> QED BY <1>4, <1>5, <1>6 DEF IInv

\* A step that moves only latencies and penalties.
LEMMA HealthIInv ==
    ASSUME IInv, UNCHANGED <<publishVars, slot, countVars>>,
           ema' \in [Object -> Nat], penalized' \in [Object -> BOOLEAN]
    PROVE  IInv'
  <1>1. TypeOK' /\ Locking' /\ Handover' /\ PublishedIsAccepted' /\ SpendSurvivesReload'
    BY DEF IInv, TypeOK, Locking, Handover, PublishedIsAccepted, SpendSurvivesReload,
           publishVars, countVars
  <1>2. Sets'
    BY DEF IInv, Sets, Current, Whole, Distinct, publishVars
  <1> QED BY <1>1, <1>2 DEF IInv

\* Every step keeps the invariant.
LEMMA NextIInv ==
    ASSUME IInv, [Next]_topologyVars
    PROVE  IInv'
  <1>1. ASSUME NEW config \in Config, ReloadAssign(config) PROVE IInv'
    BY <1>1, ReloadAssignIInv
  <1>2. ASSUME UNCHANGED topologyVars PROVE IInv'
    BY <1>2, HealthIInv DEF topologyVars, healthVars, IInv, TypeOK
  <1>3. ASSUME NEW config \in Config, ReloadReject(config) PROVE IInv'
    BY <1>2, <1>3 DEF ReloadReject
  <1>4. ASSUME NEW o \in Published, NEW latency \in Latency, Observe(o, latency)
        PROVE  IInv'
    <2>1. ema' \in [Object -> Nat]
      BY <1>4, LatencyAssumption DEF Observe, IInv, TypeOK
    <2>2. penalized' \in [Object -> BOOLEAN]
      BY <1>4 DEF Observe, IInv, TypeOK
    <2> QED BY <1>4, <2>1, <2>2, HealthIInv DEF Observe
  <1>5. ASSUME NEW o \in Published, Penalize(o) \/ Expire(o) PROVE IInv'
    <2>1. ema' \in [Object -> Nat] /\ UNCHANGED <<publishVars, slot, countVars>>
      BY <1>5 DEF Penalize, Expire, IInv, TypeOK
    <2>2. penalized' \in [Object -> BOOLEAN]
      BY <1>5 DEF Penalize, Expire, IInv, TypeOK
    <2> QED BY <2>1, <2>2, HealthIInv
  <1>6. ASSUME Publishers PROVE IInv'
    BY <1>1, <1>3, <1>6, ReloadPublishIInv, RerankLoadIInv, RerankPublishIInv DEF Publishers
  <1>7. ASSUME Traffic PROVE IInv'
    BY <1>4, <1>5, <1>7, BookIInv DEF Traffic
  <1> QED BY <1>2, <1>6, <1>7 DEF Next

\* The invariant holds for ever.
LEMMA Invariance == Spec => []IInv
  <1>1. Init => IInv
    BY InitIInv
  <1>2. IInv /\ [Next]_topologyVars => IInv'
    BY NextIInv
  <1> QED BY <1>1, <1>2, PTL DEF Spec

-----------------------------------------------------------------------------
(* assign_ids finds a slot for every arrival *)

\* The least-element principle, which stands in for induction here.
LEMMA LeastElement ==
    ASSUME NEW T \in SUBSET Nat, T # {}
    PROVE  \E x \in T : \A y \in T : x <= y
  <1> DEFINE less == {ss \in Nat \X Nat : ss[1] < ss[2]}
  <1>1. IsWellFoundedOn(less, Nat)
    BY NatLessThanWellFounded DEF OpToRel
  <1> HIDE DEF less
  <1>2. PICK x \in T : \A y \in T : <<y, x>> \notin less
    BY <1>1, WFMin
  <1>3. \A y \in T : y \in Nat /\ ~ y < x
    BY <1>2 DEF less
  <1> QED BY <1>3

\* f gives the elements of A the lowest elements of F, in order.
Lowest(A, F, f) ==
    /\ f \in [A -> F]
    /\ \A i, j \in A : i < j => f[i] < f[j]
    /\ \A i \in A : \A s \in F : s < f[i] => \E j \in A : f[j] = s

\* One more element, above those that have a slot, while slots are left.
LEMMA LowestExtends ==
    ASSUME NEW A \in SUBSET Nat, NEW F \in SUBSET Nat, NEW f, Lowest(A, F, f),
           NEW k \in Nat, \A i \in A : i < k,
           IsFiniteSet(A), IsFiniteSet(F), Cardinality(A) < Cardinality(F)
    PROVE  \E h : Lowest(A \union {k}, F, h)
  <1>1. f \in Injection(A, F)
    <2>1. \A i, j \in A : f[i] \in F /\ f[i] \in Nat
      BY DEF Lowest
    <2>2. \A i, j \in A : f[i] = f[j] => i = j
      BY <2>1 DEF Lowest
    <2> QED BY <2>2 DEF Lowest, Injection, IsInjective
  <1>2. f \notin Surjection(A, F)
    <2>1. Cardinality(A) # Cardinality(F)
      BY FS_CardinalityType
    <2> QED BY <1>1, <2>1, FS_Injection
  <1> DEFINE left == {s \in F : \A i \in A : f[i] # s}
  <1>3. left # {}
    BY <1>2 DEF Surjection, Lowest
  <1>4. PICK s \in left : \A t \in left : s <= t
    BY <1>3, LeastElement
  <1> DEFINE h == [i \in A \union {k} |-> IF i = k THEN s ELSE f[i]]
  <1>5. \A i \in A : f[i] \in F /\ f[i] < s
    <2> TAKE i \in A
    <2>1. f[i] \in F /\ f[i] # s
      BY DEF Lowest
    <2>2. ~ s < f[i]
      BY <1>4 DEF Lowest
    <2>3. f[i] \in Nat /\ s \in Nat
      BY <2>1
    <2> QED BY <2>1, <2>2, <2>3
  <1>6. \A t \in F : t < s => \E j \in A : f[j] = t
    BY <1>4
  <1>7. \A i \in A : h[i] = f[i] /\ i # k
    OBVIOUS
  <1>8. h[k] = s
    OBVIOUS
  <1>9. h \in [A \union {k} -> F]
    BY <1>5
  <1> HIDE DEF h
  <1>10. \A i, j \in A \union {k} : i < j => h[i] < h[j]
    BY <1>5, <1>7, <1>8 DEF Lowest
  <1>11. \A i \in A \union {k} : \A t \in F : t < h[i] => \E j \in A \union {k} : h[j] = t
    BY <1>6, <1>7, <1>8 DEF Lowest
  <1>12. Lowest(A \union {k}, F, h)
    BY <1>9, <1>10, <1>11 DEF Lowest
  <1> QED BY <1>12

\* As many slots as entries: each entry gets one.
LEMMA LowestExists ==
    ASSUME NEW n \in Nat, NEW A \in SUBSET (1 .. n), NEW F \in SUBSET Nat,
           IsFiniteSet(F), Cardinality(A) <= Cardinality(F)
    PROVE  \E f : Lowest(A, F, f)
  <1> DEFINE below(k) == {i \in A : i <= k}
             stuck == {k \in 0 .. n : ~ \E f : Lowest(below(k), F, f)}
  <1>1. IsFiniteSet(A)
    <2>1. IsFiniteSet(1 .. n)
      BY FS_Interval
    <2> QED BY <2>1, FS_Subset
  <1>a. \A i \in A : i \in Nat /\ 1 <= i /\ i <= n
    OBVIOUS
  <1>b. \A k \in 0 .. n :
          /\ k = 0 => below(k) = {}
          /\ k # 0 => /\ k \notin A => below(k) = below(k - 1)
                      /\ k \in A => below(k) = below(k - 1) \union {k}
                      /\ below(k - 1) \in SUBSET Nat
                      /\ \A i \in below(k - 1) : i < k
                      /\ k \notin below(k - 1)
    <2> TAKE k \in 0 .. n
    <2>1. \A i \in A : ~ i <= 0
      BY <1>a
    <2>2. k \in Nat /\ ~ k <= k - 1
      OBVIOUS
    <2>3. \A i \in A : /\ i <= k <=> (i <= k - 1 \/ i = k)
                       /\ i <= k - 1 => i < k /\ i \in Nat
      BY <1>a, <2>2
    <2>4. k = 0 => below(k) = {}
      BY <2>1
    <2>5. k \notin A => below(k) = below(k - 1)
      BY <2>3
    <2>6. k \in A => below(k) = below(k - 1) \union {k}
      BY <2>3
    <2>7. /\ below(k - 1) \in SUBSET Nat
          /\ \A i \in below(k - 1) : i < k
          /\ k \notin below(k - 1)
      BY <2>2, <2>3
    <2> QED BY <2>4, <2>5, <2>6, <2>7
  <1>2. \A k \in 0 .. n : IsFiniteSet(below(k)) /\ Cardinality(below(k)) <= Cardinality(A)
                          /\ (Cardinality(below(k)) = Cardinality(A) => below(k) = A)
    <2> TAKE k \in 0 .. n
    <2>1. below(k) \in SUBSET A
      OBVIOUS
    <2> HIDE DEF below
    <2> QED BY <1>1, <2>1, FS_Subset
  <1>3. stuck = {}
    <2> SUFFICES ASSUME stuck # {} PROVE FALSE
      OBVIOUS
    <2>0. stuck \in SUBSET Nat
      OBVIOUS
    <2>1. PICK k \in stuck : \A m \in stuck : k <= m
      <3> HIDE DEF stuck
      <3> QED BY <2>0, LeastElement
    <2>2. k \in 0 .. n /\ ~ \E f : Lowest(below(k), F, f)
      OBVIOUS
    <2>3. CASE k = 0
      <3>1. below(k) = {}
        BY <2>2, <2>3, <1>b
      <3> DEFINE f == [i \in {} |-> 0]
      <3>2. Lowest({}, F, f)
        BY DEF Lowest
      <3> QED BY <2>2, <3>1, <3>2
    <2>4. CASE k # 0
      <3>1. k - 1 \in 0 .. n /\ k - 1 \notin stuck
        <4>1. k \in Nat /\ k <= n /\ ~ k <= k - 1
          BY <2>2
        <4>2. k - 1 \in 0 .. n
          BY <2>4, <4>1
        <4> HIDE DEF stuck
        <4> QED BY <2>1, <4>1, <4>2
      <3>2. PICK f : Lowest(below(k - 1), F, f)
        BY <3>1
      <3>3. CASE k \notin A
        <4>1. below(k) = below(k - 1)
          BY <1>b, <2>2, <2>4, <3>3
        <4> HIDE DEF below
        <4> QED BY <2>2, <3>2, <4>1
      <3>4. CASE k \in A
        <4>1. /\ below(k) = below(k - 1) \union {k}
              /\ below(k - 1) \in SUBSET Nat
              /\ \A i \in below(k - 1) : i < k
              /\ k \notin below(k - 1)
          BY <1>b, <2>2, <2>4, <3>4
        <4>2. /\ Cardinality(below(k - 1)) < Cardinality(F)
              /\ IsFiniteSet(below(k - 1))
          <5> HIDE DEF below
          <5>1. below(k - 1) # A
            BY <3>4, <4>1
          <5>2. Cardinality(A) \in Nat /\ Cardinality(F) \in Nat
            BY <1>1, FS_CardinalityType
          <5>3. IsFiniteSet(below(k - 1)) /\ Cardinality(below(k - 1)) \in Nat
            BY <1>2, <3>1, FS_CardinalityType
          <5> QED BY <1>2, <3>1, <5>1, <5>2, <5>3
        <4> HIDE DEF below
        <4>3. \E h : Lowest(below(k - 1) \union {k}, F, h)
          <5>1. k \in Nat
            BY <2>2
          <5> HIDE DEF stuck
          <5> QED BY <5>1, <3>2, <4>1, <4>2, LowestExtends
        <4> QED BY <2>2, <4>1, <4>3
      <3> QED BY <3>3, <3>4
    <2> QED BY <2>3, <2>4
  <1>4. below(n) = A
    BY <1>a
  <1>5. n \in 0 .. n
    OBVIOUS
  <1> HIDE DEF below
  <1> QED BY <1>3, <1>4, <1>5

\* The removed nodes' slots are free again, so there are as many free slots as
\* there are arrivals.
LEMMA EnoughFree ==
    ASSUME NEW prev \in Seq(Object), NEW g, Whole(prev, g), Distinct(prev),
           NEW config \in Seq(Name), Accepts(config)
    PROVE  /\ IsFiniteSet(Free(prev, config))
           /\ Cardinality(Arrived(prev, config)) <= Cardinality(Free(prev, config))
  <1> DEFINE A == Arrived(prev, config)
             n == Len(config)
             stay == (1 .. n) \ A
             kept == {slot[o] : o \in Survivors(prev, config)}
             h == [i \in stay |-> slot[Old(prev, config[i])]]
  <1>1. n \in Nat /\ DOMAIN config = 1 .. n /\ n <= MaxNodes /\ A \subseteq 1 .. n
    BY DEF Accepts, Arrived
  <1>2. IsFiniteSet(1 .. n) /\ Cardinality(1 .. n) = n
    <2> HIDE DEF n
    <2>1. IsFiniteSet(1 .. n) /\ Cardinality(1 .. n) = IF 1 > n THEN 0 ELSE n - 1 + 1
      BY <1>1, FS_Interval
    <2> QED BY <1>1, <2>1
  <1>3. IsFiniteSet(Slot) /\ Cardinality(Slot) = MaxNodes
    BY BoundAssumption, FS_Interval DEF Slot
  <1>4. IsFiniteSet(stay) /\ Cardinality(stay) = n - Cardinality(A) /\ Cardinality(A) \in Nat
    <2>1. (1 .. n) \cap A = A /\ A \in SUBSET (1 .. n)
      BY <1>1
    <2>2. IsFiniteSet(A)
      BY <1>2, <2>1, FS_Subset
    <2> HIDE DEF A, n
    <2>3. Cardinality(A) \in Nat
      BY <2>2, FS_CardinalityType
    <2>4. IsFiniteSet(stay) /\ Cardinality(stay) = Cardinality(1 .. n) - Cardinality((1 .. n) \cap A)
      BY <1>2, FS_Difference
    <2> QED BY <1>2, <2>1, <2>3, <2>4
  <1>5. h \in Surjection(stay, kept)
    <2>1. \A i \in stay : h[i] \in kept
      BY <1>1, OldExists
    <2>2. \A s \in kept : \E i \in stay : h[i] = s
      <3> SUFFICES ASSUME NEW o \in Survivors(prev, config)
                   PROVE  \E i \in stay : h[i] = slot[o]
        OBVIOUS
      <3>1. o \in Elements(prev)
        BY DEF Survivors
      <3>2. PICK i \in DOMAIN config : config[i] = NameOf(o)
        BY DEF Survivors
      <3>3. i \in stay
        BY <1>1, <3>1, <3>2 DEF Arrived
      <3>4. Old(prev, config[i]) \in Elements(prev) /\ NameOf(Old(prev, config[i])) = NameOf(o)
        BY <1>1, <3>2, <3>3, OldExists
      <3>5. Old(prev, config[i]) = o
        BY <3>1, <3>4 DEF Whole, Elements
      <3> QED BY <3>3, <3>5
    <2> HIDE DEF kept, stay
    <2> QED BY <2>1, <2>2 DEF Surjection
  <1> HIDE DEF h, stay
  <1>6. IsFiniteSet(kept) /\ Cardinality(kept) <= Cardinality(stay) /\ Cardinality(kept) \in Nat
    <2> HIDE DEF kept
    <2> QED BY <1>4, <1>5, FS_Surjection, FS_CardinalityType
  <1>7. /\ IsFiniteSet(Slot \ kept)
        /\ Cardinality(Slot \ kept) = MaxNodes - Cardinality(Slot \cap kept)
        /\ Cardinality(Slot \cap kept) <= Cardinality(kept)
        /\ Cardinality(Slot \cap kept) \in Nat
    <2> HIDE DEF kept
    <2> QED BY <1>3, <1>6, FS_Difference, FS_Intersection, FS_CardinalityType
  <1>8. Free(prev, config) = Slot \ kept
    BY DEF Free
  <1> HIDE DEF kept, A, n
  <1>9. Cardinality(A) <= Cardinality(Slot \ kept)
    BY <1>1, <1>4, <1>6, <1>7, BoundAssumption
  <1> QED BY <1>7, <1>8, <1>9 DEF A

\* A step that publishes changes no slot, and publishes the names of before or
\* those of a set whose slots were handed over; no other step moves a slot of
\* a published object.
LEMMA StepKeepsSlots ==
    ASSUME IInv, [Next]_topologyVars,
           NEW o \in Elements(topology.all), NEW q \in Elements(topology'.all),
           NameOf(o) = NameOf(q)
    PROVE  slot'[q] = slot[o]
  <1>0. topology.all \in Seq(Object)
    BY DEF IInv, TypeOK
  <1>1. PICK i \in DOMAIN topology.all : o = topology.all[i]
    BY DEF Elements
  <1>2. PICK j \in DOMAIN topology'.all : q = topology'.all[j]
    BY DEF Elements
  <1>3. Whole(topology.all, Current)
    BY DEF IInv, Sets
  <1>4. ASSUME topology'.all = topology.all, slot' = slot PROVE slot'[q] = slot[o]
    BY <1>1, <1>2, <1>3, <1>4 DEF Whole
  <1>5. ASSUME NEW config \in Config, ReloadAssign(config) PROVE slot'[q] = slot[o]
    <2>1. config \in Seq(Name) /\ Accepts(config) /\ gen < MaxReloads /\ topology' = topology
      BY <1>5, ConfigAssumption DEF ReloadAssign
    <2>2. PICK f \in Assignments(topology.all, config) :
            AssignIds(topology.all, config, gen + 1, f)
      BY <1>5 DEF ReloadAssign
    <2>3. Current = gen /\ gen # gen + 1
      BY <1>5 DEF ReloadAssign, IInv, Locking, Current, TypeOK
    <2>4. \A k \in DOMAIN topology.all : topology.all[k][1] = gen
      BY <1>3, <2>3 DEF Whole
    <2>5. \A p \in Object : p[1] # gen + 1 => slot'[p] = slot[p]
      BY <1>0, <2>1, <2>2, <2>4, AssignedSlots DEF IInv
    <2>6. slot'[o] = slot[o]
      BY <1>0, <1>1, <2>3, <2>4, <2>5
    <2>7. q = o
      BY <1>1, <1>2, <1>3, <2>1 DEF Whole
    <2> QED BY <2>6, <2>7
  <1>6. ASSUME ReloadPublish PROVE slot'[q] = slot[o]
    <2>1. reloadPc = "assigned" /\ slot' = slot /\ topology'.all = staged
      BY <1>6 DEF ReloadPublish
    <2> QED BY <1>1, <1>2, <2>1 DEF IInv, Handover
  <1>7. ASSUME RerankPublish PROVE slot'[q] = slot[o]
    <2>1. slot' = slot /\ topology'.all = topology.all
      BY <1>7 DEF RerankPublish, IInv, Sets
    <2> QED BY <1>4, <2>1
  <1>8. ASSUME \/ UNCHANGED topologyVars
               \/ \E config \in Config : ReloadReject(config)
               \/ RerankLoad
               \/ Traffic
        PROVE  slot'[q] = slot[o]
    <2>1. slot' = slot /\ topology' = topology
      BY <1>8 DEF topologyVars, publishVars, ReloadReject, RerankLoad, Traffic, Book, Observe,
                  Penalize, Expire
    <2> QED BY <1>4, <2>1
  <1> QED BY <1>5, <1>6, <1>7, <1>8 DEF Next, Publishers

-----------------------------------------------------------------------------
(* The theorems *)

\* Every field of the topology, the slots and the counters keeps its type.
THEOREM TypeCorrect == Spec => []TypeOK
  <1>1. IInv => TypeOK
    BY DEF IInv
  <1> QED BY <1>1, Invariance, PTL

\* assign_ids: whatever sequence of reloads freed and recycled slots, no two
\* nodes of a published set share a counter and no slot is outside the table.
THEOREM SlotsAreDistinct == Spec => []SlotsDistinct
  <1>1. IInv => SlotsDistinct
    <2> SUFFICES ASSUME IInv,
                        NEW o \in Elements(topology.all), NEW q \in Elements(topology.all)
                 PROVE  slot[o] \in Slot /\ (o # q => slot[o] # slot[q])
      BY DEF SlotsDistinct
    <2>1. PICK i \in DOMAIN topology.all : o = topology.all[i]
      BY DEF Elements
    <2>2. PICK j \in DOMAIN topology.all : q = topology.all[j]
      BY DEF Elements
    <2> QED BY <2>1, <2>2 DEF IInv, Sets, Distinct
  <1> QED BY <1>1, Invariance, PTL

\* topology_lock: the ranking loop never publishes a set that a reload has
\* replaced, and both lists of the published topology hold the nodes of the
\* last accepted config, the ranked one by tier, whatever the sort read.
THEOREM PublishedAccepted == Spec => []PublishedIsAccepted
  <1>1. IInv => PublishedIsAccepted
    BY DEF IInv
  <1> QED BY <1>1, Invariance, PTL

\* No reload zeroes a counter that its present owner has booked on, although
\* requests of older node sets book on the same table.
THEOREM SpendSurvives == Spec => []SpendSurvivesReload
  <1>1. IInv => SpendSurvivesReload
    BY DEF IInv
  <1> QED BY <1>1, Invariance, PTL

\* A name that stays in the config keeps its slot across every publication.
THEOREM NamesKeep == Spec => NamesKeepSlots
  <1>1. IInv /\ [Next]_topologyVars
        => [\A o \in Elements(topology.all), q \in Elements(topology'.all) :
              NameOf(o) = NameOf(q) => slot'[q] = slot[o]]_topologyVars
    BY StepKeepsSlots
  <1> QED BY <1>1, Invariance, PTL DEF Spec, NamesKeepSlots

\* "Cannot run dry": every config assign_ids accepts has a slot assignment,
\* in any state reloads can lead to.
THEOREM NeverRunDry == Spec => []SlotsNeverRunDry
  <1>1. IInv => SlotsNeverRunDry
    <2> SUFFICES ASSUME IInv, NEW config \in Config, Accepts(config)
                 PROVE  Assignments(topology.all, config) # {}
      BY DEF SlotsNeverRunDry
    <2> DEFINE A == Arrived(topology.all, config)
               F == Free(topology.all, config)
    <2>1. /\ config \in Seq(Name) /\ topology.all \in Seq(Object)
          /\ Whole(topology.all, Current) /\ Distinct(topology.all)
      BY ConfigAssumption DEF IInv, TypeOK, Sets
    <2>2. IsFiniteSet(F) /\ Cardinality(A) <= Cardinality(F)
      BY <2>1, EnoughFree
    <2>3. Len(config) \in Nat /\ A \in SUBSET (1 .. Len(config)) /\ F \in SUBSET Nat
      BY <2>1 DEF Arrived, Free, Slot
    <2> HIDE DEF A, F
    <2>4. PICK f : Lowest(A, F, f)
      BY <2>2, <2>3, LowestExists
    <2>5. f \in Assignments(topology.all, config)
      BY <2>4 DEF Lowest, Assignments, A, F
    <2> QED BY <2>5
  <1> QED BY <1>1, Invariance, PTL

=============================================================================
