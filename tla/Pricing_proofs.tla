--------------------------- MODULE Pricing_proofs ---------------------------
(***************************************************************************)
(* Proofs about Pricing for any methods, hashes, price lists, configs and  *)
(* bodies, and any number of reloads and requests.  The argument: the      *)
(* registry never holds a name twice and only grows while the process      *)
(* lives, so a table, once compiled, keeps the meaning of its slots, and an*)
(* id in hand keeps its name.                                              *)
(***************************************************************************)
EXTENDS Pricing, FiniteSetTheorems, FunctionTheorems, SequenceTheorems, TLAPS

\* The names are distinct.
NoRepeat(names) == \A i, j \in DOMAIN names : names[i] = names[j] => i = j

\* Later names come after those of before.
Extends(names, old) ==
    Len(old) <= Len(names) /\ \A i \in 1 .. Len(old) : names[i] = old[i]

\* The price lists as parse_file hands them on.
PriceSpec(spec) ==
    /\ DOMAIN spec.custom \subseteq Method
    /\ spec.unknown \in Price
    /\ \A m \in DOMAIN spec.routing : spec.routing[m] \in Price
    /\ \A m \in DOMAIN spec.custom : spec.custom[m] \in Price

\* A table over the first n names means, slot by slot, what the list says, and
\* those names include the list's own.
CompiledTo(table, spec, names, n) ==
    /\ DOMAIN table = 0 .. Count + n - 1
    /\ \A m \in DOMAIN spec.custom : \E i \in 1 .. n : names[i] = m
    /\ table[Unknown] = spec.unknown
    /\ \A m \in Builtin :
          table[StandardId[m]] = IF m \in DOMAIN spec.routing THEN spec.routing[m]
                                 ELSE spec.unknown
    /\ \A i \in 1 .. n :
          table[Count - 1 + i] = IF names[i] \in DOMAIN spec.custom
                                 THEN spec.custom[names[i]] ELSE spec.unknown

\* A node whose table was compiled at some time of this process.
Compiled(node, names) ==
    /\ PriceSpec(node.spec)
    /\ \A id \in DOMAIN node.table : node.table[id] \in Price
    /\ \E n \in 0 .. Len(names) : CompiledTo(node.table, node.spec, names, n)

\* The id of a request is the fallback's, or still that of its method.
OwnId(id, m, names) ==
    \/ id = Unknown
    \/ m \in Builtin /\ id = StandardId[m]
    \/ m \in Method \ Builtin /\ \E i \in DOMAIN names : names[i] = m /\ id = Count - 1 + i

-----------------------------------------------------------------------------
(* The registry *)

\* The discriminants of RpcMethod lie between Unknown and Count.
LEMMA StandardIds ==
    /\ Count \in Nat /\ Count > 0
    /\ \A m \in Builtin : StandardId[m] \in Nat /\ StandardId[m] # Unknown /\ StandardId[m] < Count
    /\ \A m \in Method : GetStandardMethodId(m) # Unknown <=> m \in Builtin
  <1>1. IsFiniteSet(Builtin)
    BY MethodAssumption, FS_Subset DEF Method
  <1>2. Cardinality(Builtin) \in Nat
    BY <1>1, FS_CardinalityType
  <1>3. Count \in Nat /\ Count > 0
    BY <1>2 DEF Count
  <1>4. \A m \in Builtin : StandardId[m] \in 1 .. Count - 1
    BY MethodAssumption
  <1>5. \A m \in Builtin : StandardId[m] \in Nat /\ StandardId[m] # Unknown /\ StandardId[m] < Count
    BY <1>3, <1>4 DEF Unknown
  <1> QED BY <1>3, <1>5 DEF GetStandardMethodId

\* Whatever order a HashMap hands a finite set out in, all of it comes, once.
LEMMA ArrangementsHold ==
    ASSUME NEW S, IsFiniteSet(S), NEW s \in Arrangements(S)
    PROVE  /\ s \in Seq(S) /\ NoRepeat(s) /\ DOMAIN s = 1 .. Len(s)
           /\ \A x \in S : \E i \in DOMAIN s : s[i] = x
  <1> DEFINE n == Cardinality(S)
  <1>1. n \in Nat
    BY FS_CardinalityType
  <1> HIDE DEF n
  <1>2. /\ s \in [1 .. n -> S]
        /\ \A i, j \in 1 .. n : s[i] = s[j] => i = j
    BY DEF Arrangements, n
  <1>3. s \in Seq(S) /\ Len(s) = n /\ DOMAIN s = 1 .. n
    BY <1>1, <1>2, IsASeq
  <1>4. s \in Injection(1 .. n, S)
    BY <1>2 DEF Injection, IsInjective
  <1>5. Cardinality(1 .. n) = n
    BY <1>1, FS_Interval
  <1>6. s \in Surjection(1 .. n, S)
    BY <1>4, <1>5, FS_Injection DEF n
  <1> QED BY <1>2, <1>3, <1>6 DEF Surjection, NoRepeat

\* register appends the new names and repeats none.
LEMMA Registered ==
    ASSUME NEW names \in Seq(Method), NoRepeat(names), NEW new \in SUBSET Method,
           NEW reg \in Register(names, new)
    PROVE  /\ reg \in Seq(Method) /\ NoRepeat(reg) /\ Extends(reg, names)
           /\ \A m \in new : \E i \in DOMAIN reg : reg[i] = m
  <1> DEFINE S == new \ Known(names)
  <1>1. IsFiniteSet(S)
    <2>1. S \in SUBSET Method
      OBVIOUS
    <2> QED BY <2>1, MethodAssumption, FS_Subset
  <1>2. PICK s \in Arrangements(S) : reg = names \o s
    BY DEF Register
  <1> HIDE DEF S
  <1>3. /\ s \in Seq(S) /\ NoRepeat(s) /\ DOMAIN s = 1 .. Len(s)
        /\ \A x \in S : \E i \in DOMAIN s : s[i] = x
    BY <1>1, ArrangementsHold
  <1>4. s \in Seq(Method) /\ \A i \in DOMAIN s : s[i] \in S
    BY <1>3 DEF S
  <1>5. /\ reg \in Seq(Method) /\ Len(reg) = Len(names) + Len(s)
        /\ DOMAIN reg = 1 .. Len(names) + Len(s)
        /\ \A i \in 1 .. Len(names) : reg[i] = names[i]
        /\ \A i \in 1 .. Len(s) : reg[Len(names) + i] = s[i]
    BY <1>2, <1>4
  <1>6. Len(names) \in Nat /\ Len(s) \in Nat
    BY <1>4
  <1>7. Extends(reg, names)
    BY <1>5, <1>6 DEF Extends
  <1>8. \A i \in 1 .. Len(reg) :
          \/ i \in 1 .. Len(names) /\ reg[i] = names[i] /\ reg[i] \in Known(names)
          \/ i - Len(names) \in 1 .. Len(s) /\ reg[i] = s[i - Len(names)]
             /\ reg[i] \notin Known(names)
    <2> TAKE i \in 1 .. Len(reg)
    <2>1. CASE i <= Len(names)
      BY <1>5, <1>6, <2>1 DEF Known
    <2>2. CASE i > Len(names)
      <3>1. i - Len(names) \in 1 .. Len(s) /\ i = Len(names) + (i - Len(names))
        BY <1>5, <1>6, <2>2
      <3>2. reg[i] = s[i - Len(names)]
        BY <1>5, <3>1
      <3> QED BY <1>3, <1>4, <3>1, <3>2 DEF S
    <2> QED BY <2>1, <2>2, <1>5, <1>6
  <1>9. NoRepeat(reg)
    <2> SUFFICES ASSUME NEW i \in 1 .. Len(reg), NEW j \in 1 .. Len(reg), reg[i] = reg[j]
                 PROVE  i = j
      BY <1>5 DEF NoRepeat
    <2>1. CASE reg[i] \in Known(names)
      BY <1>8, <2>1 DEF NoRepeat
    <2>2. CASE reg[i] \notin Known(names)
      <3> DEFINE k == i - Len(names)
                 l == j - Len(names)
      <3>1. k \in 1 .. Len(s) /\ reg[i] = s[k] /\ l \in 1 .. Len(s) /\ reg[j] = s[l]
        BY <1>8, <2>2
      <3>2. i = k + Len(names) /\ j = l + Len(names)
        BY <1>5, <1>6
      <3> HIDE DEF k, l
      <3>3. k = l
        BY <1>3, <3>1 DEF NoRepeat
      <3> QED BY <3>2, <3>3
    <2> QED BY <2>1, <2>2
  <1>10. \A m \in new : \E i \in DOMAIN reg : reg[i] = m
    <2> TAKE m \in new
    <2>1. CASE m \in Known(names)
      <3>1. PICK i \in 1 .. Len(names) : names[i] = m
        BY <2>1 DEF Known
      <3> QED BY <1>5, <1>6, <3>1
    <2>2. CASE m \notin Known(names)
      <3>1. PICK i \in 1 .. Len(s) : s[i] = m
        BY <1>3, <2>2 DEF S
      <3>2. Len(names) + i \in DOMAIN reg
        BY <1>5, <1>6
      <3> QED BY <1>5, <3>1, <3>2
    <2> QED BY <2>1, <2>2
  <1> QED BY <1>5, <1>7, <1>9, <1>10

\* lookup finds a registered name whatever its hash collides with.
LEMMA LookupFinds ==
    ASSUME NEW names \in Seq(Method), NoRepeat(names), NEW m \in Method
    PROVE  /\ \A i \in DOMAIN names : names[i] = m => Lookup(names, m) = Count - 1 + i
           /\ (\A i \in DOMAIN names : names[i] # m) => Lookup(names, m) = Unknown
  <1>1. ASSUME NEW i \in DOMAIN names, names[i] = m PROVE Lookup(names, m) = Count - 1 + i
    <2>1. Matches(names, m) = {i}
      BY <1>1 DEF Matches, NoRepeat
    <2>2. i \in Nat
      OBVIOUS
    <2>3. (CHOOSE k \in {i} : \A j \in {i} : k <= j) = i
      BY <2>2
    <2> QED BY <2>1, <2>3 DEF Lookup
  <1>2. ASSUME \A i \in DOMAIN names : names[i] # m PROVE Lookup(names, m) = Unknown
    <2>1. Matches(names, m) = {}
      BY <1>2 DEF Matches
    <2> QED BY <2>1 DEF Lookup
  <1> QED BY <1>1, <1>2

-----------------------------------------------------------------------------
(* The cost tables *)

\* ProviderCostTable::new, slot by slot.
LEMMA TableCompiles ==
    ASSUME NEW names \in Seq(Method), NoRepeat(names), NEW spec, PriceSpec(spec),
           DOMAIN spec.routing \subseteq Method,
           \A m \in DOMAIN spec.custom : \E i \in DOMAIN names : names[i] = m
    PROVE  /\ CompiledTo(CostTable(spec, names), spec, names, Len(names))
           /\ \A id \in DOMAIN CostTable(spec, names) : CostTable(spec, names)[id] \in Price
  <1> DEFINE table == CostTable(spec, names)
             n == Len(names)
  <1>1. n \in Nat /\ DOMAIN names = 1 .. n
    OBVIOUS
  <1>2. DOMAIN table = 0 .. Count + n - 1
    <2>1. DOMAIN table = 0 .. TableSize(names) - 1
      BY Zenon DEF CostTable
    <2> HIDE DEF table
    <2> QED BY <1>1, <2>1, StandardIds DEF TableSize
  <1>3. \A id \in DOMAIN table :
          table[id] = CASE RoutingNames(spec, id) # {} ->
                             spec.routing[CHOOSE m \in RoutingNames(spec, id) : TRUE]
                        [] CustomNames(spec, names, id) # {} ->
                             spec.custom[CHOOSE m \in CustomNames(spec, names, id) : TRUE]
                        [] OTHER -> spec.unknown
    BY DEF CostTable
  <1> HIDE DEF table, n
  \* The provers need the two sections kept apart: no slot is in both.
  <1>4. \A id \in DOMAIN table : RoutingNames(spec, id) # {} => id < Count
    BY StandardIds DEF RoutingNames, GetStandardMethodId
  <1>5. \A id \in DOMAIN table : CustomNames(spec, names, id) # {} => id >= Count
    <2> SUFFICES ASSUME NEW id \in DOMAIN table, NEW m \in CustomNames(spec, names, id)
                 PROVE  id >= Count
      OBVIOUS
    <2>1. m \in DOMAIN spec.custom /\ m \in Method /\ Lookup(names, m) = id
      BY DEF CustomNames, PriceSpec
    <2>2. PICK i \in DOMAIN names : names[i] = m
      BY <2>1
    <2>3. id = Count - 1 + i /\ i \in Nat /\ i >= 1
      BY <1>1, <2>1, <2>2, LookupFinds
    <2> QED BY <2>3, StandardIds
  <1>6. \A id \in DOMAIN table :
          /\ RoutingNames(spec, id) # {} =>
                \E m \in RoutingNames(spec, id) : table[id] = spec.routing[m]
          /\ CustomNames(spec, names, id) # {} =>
                \E m \in CustomNames(spec, names, id) : table[id] = spec.custom[m]
          /\ RoutingNames(spec, id) = {} /\ CustomNames(spec, names, id) = {} =>
                table[id] = spec.unknown
    <2> TAKE id \in DOMAIN table
    <2> DEFINE R == RoutingNames(spec, id)
               C == CustomNames(spec, names, id)
    <2>1. id \in Nat /\ Count \in Nat
      BY <1>2, StandardIds
    <2>2. R = {} \/ C = {}
      BY <1>4, <1>5, <2>1
    <2>3. table[id] = CASE R # {} -> spec.routing[CHOOSE m \in R : TRUE]
                        [] C # {} -> spec.custom[CHOOSE m \in C : TRUE]
                        [] OTHER -> spec.unknown
      BY <1>3
    <2> HIDE DEF R, C
    <2>4. CASE R # {}
      <3>1. table[id] = spec.routing[CHOOSE m \in R : TRUE] /\ (CHOOSE m \in R : TRUE) \in R
        BY <2>2, <2>3, <2>4
      <3> QED BY <2>2, <2>4, <3>1 DEF R, C
    <2>5. CASE C # {}
      <3>1. table[id] = spec.custom[CHOOSE m \in C : TRUE] /\ (CHOOSE m \in C : TRUE) \in C
        BY <2>2, <2>3, <2>5
      <3> QED BY <2>2, <2>5, <3>1 DEF R, C
    <2>6. CASE R = {} /\ C = {}
      <3>1. table[id] = spec.unknown
        BY <2>3, <2>6
      <3> QED BY <2>6, <3>1 DEF R, C
    <2> QED BY <2>4, <2>5, <2>6
  <1>7. table[Unknown] = spec.unknown
    <2>1. Unknown \in DOMAIN table
      BY <1>1, <1>2, StandardIds DEF Unknown
    <2>2. RoutingNames(spec, Unknown) = {} /\ CustomNames(spec, names, Unknown) = {}
      BY DEF RoutingNames, CustomNames
    <2> QED BY <1>6, <2>1, <2>2
  <1>8. ASSUME NEW m \in Builtin
        PROVE  table[StandardId[m]] = IF m \in DOMAIN spec.routing THEN spec.routing[m]
                                      ELSE spec.unknown
    <2> DEFINE id == StandardId[m]
    <2>1. id \in DOMAIN table /\ id < Count /\ id # Unknown /\ id \in Nat
      BY <1>1, <1>2, StandardIds
    <2>2. \A x \in RoutingNames(spec, id) : x = m
      BY StandardIds, MethodAssumption DEF RoutingNames, GetStandardMethodId
    <2>3. m \in DOMAIN spec.routing => m \in RoutingNames(spec, id)
      BY <2>1 DEF RoutingNames, GetStandardMethodId
    <2>4. CustomNames(spec, names, id) = {}
      BY <1>5, <2>1, StandardIds
    <2>5. m \notin DOMAIN spec.routing => RoutingNames(spec, id) = {}
      BY <2>2 DEF RoutingNames
    <2> HIDE DEF id
    <2>6. CASE m \in DOMAIN spec.routing
      <3>1. PICK x \in RoutingNames(spec, id) : table[id] = spec.routing[x]
        BY <1>6, <2>1, <2>3, <2>6
      <3> QED BY <2>2, <2>6, <3>1 DEF id
    <2>7. CASE m \notin DOMAIN spec.routing
      <3>1. table[id] = spec.unknown
        BY <1>6, <2>1, <2>4, <2>5, <2>7
      <3> QED BY <2>7, <3>1 DEF id
    <2> QED BY <2>6, <2>7
  <1>9. ASSUME NEW i \in 1 .. n
        PROVE  table[Count - 1 + i] = IF names[i] \in DOMAIN spec.custom
                                      THEN spec.custom[names[i]] ELSE spec.unknown
    <2> DEFINE id == Count - 1 + i
    <2>1. id \in DOMAIN table /\ id >= Count /\ id \in Nat /\ id # Unknown
      BY <1>1, <1>2, StandardIds DEF Unknown
    <2>2. RoutingNames(spec, id) = {}
      BY <1>4, <2>1, StandardIds
    <2>3. names[i] \in Method /\ Lookup(names, names[i]) = id
      BY <1>1, LookupFinds
    <2>4. \A x \in CustomNames(spec, names, id) : x = names[i]
      <3> TAKE x \in CustomNames(spec, names, id)
      <3>1. x \in DOMAIN spec.custom /\ x \in Method /\ Lookup(names, x) = id
        BY DEF CustomNames, PriceSpec
      <3>2. PICK j \in DOMAIN names : names[j] = x
        BY <3>1
      <3>3. Lookup(names, x) = Count - 1 + j
        BY <3>1, <3>2, LookupFinds
      <3>4. j = i
        BY <1>1, <3>1, <3>3, StandardIds
      <3> QED BY <3>2, <3>4
    <2>5. names[i] \in DOMAIN spec.custom => names[i] \in CustomNames(spec, names, id)
      BY <2>1, <2>3 DEF CustomNames
    <2>6. names[i] \notin DOMAIN spec.custom => CustomNames(spec, names, id) = {}
      BY <2>4 DEF CustomNames
    <2> HIDE DEF id
    <2>7. CASE names[i] \in DOMAIN spec.custom
      <3>1. PICK x \in CustomNames(spec, names, id) : table[id] = spec.custom[x]
        BY <1>6, <2>1, <2>5, <2>7
      <3> QED BY <2>4, <2>7, <3>1 DEF id
    <2>8. CASE names[i] \notin DOMAIN spec.custom
      <3>1. table[id] = spec.unknown
        BY <1>6, <2>1, <2>2, <2>6, <2>8
      <3> QED BY <2>8, <3>1 DEF id
    <2> QED BY <2>7, <2>8
  <1>10. CompiledTo(table, spec, names, n)
    BY <1>1, <1>2, <1>7, <1>8, <1>9 DEF CompiledTo
  <1>11. \A id \in DOMAIN table : table[id] \in Price
    BY <1>6 DEF PriceSpec, RoutingNames, CustomNames
  <1> QED BY <1>10, <1>11 DEF table, n

\* A table keeps its meaning when names are added.
LEMMA CompiledForGood ==
    ASSUME NEW names \in Seq(Method), NEW later \in Seq(Method), Extends(later, names),
           NEW node, Compiled(node, names)
    PROVE  Compiled(node, later)
  <1>1. PICK n \in 0 .. Len(names) : CompiledTo(node.table, node.spec, names, n)
    BY DEF Compiled
  <1>2. n \in 0 .. Len(later) /\ \A i \in 1 .. n : later[i] = names[i]
    BY DEF Extends
  <1>3. CompiledTo(node.table, node.spec, later, n)
    BY <1>1, <1>2 DEF CompiledTo
  <1> QED BY <1>2, <1>3 DEF Compiled

\* An id keeps its method when names are added.
LEMMA IdForGood ==
    ASSUME NEW names \in Seq(Method), NEW later \in Seq(Method), Extends(later, names),
           NEW id, NEW m, OwnId(id, m, names)
    PROVE  OwnId(id, m, later)
  BY DEF OwnId, Extends

\* resolve gives a method its own id, or the fallback's.
LEMMA ResolveOwn ==
    ASSUME NEW names \in Seq(Method), NoRepeat(names), NEW m \in Method
    PROVE  /\ OwnId(Resolve(names, m), m, names)
           /\ Resolve(names, m) = Unknown
                => m \notin Builtin /\ \A i \in DOMAIN names : names[i] # m
           /\ Resolve(names, m) \in Nat
  <1>1. CASE m \in Builtin
    BY <1>1, StandardIds DEF Resolve, GetStandardMethodId, OwnId
  <1>2. CASE m \notin Builtin /\ \E i \in DOMAIN names : names[i] = m
    <2>1. PICK i \in DOMAIN names : names[i] = m
      BY <1>2
    <2>2. Resolve(names, m) = Count - 1 + i
      BY <1>2, <2>1, StandardIds, LookupFinds DEF Resolve
    <2>3. Count - 1 + i \in Nat /\ Count - 1 + i # Unknown
      BY StandardIds DEF Unknown
    <2> QED BY <1>2, <2>1, <2>2, <2>3 DEF OwnId
  <1>3. CASE m \notin Builtin /\ \A i \in DOMAIN names : names[i] # m
    <2>1. Resolve(names, m) = Unknown
      BY <1>3, StandardIds, LookupFinds DEF Resolve
    <2> QED BY <1>3, <2>1 DEF OwnId, Unknown
  <1> QED BY <1>1, <1>2, <1>3

\* A compiled table charges what the list says for an id that is the method's.
LEMMA ChargesOwn ==
    ASSUME NEW names \in Seq(Method), NoRepeat(names), NEW node, Compiled(node, names),
           NEW m, NEW id, OwnId(id, m, names), id # Unknown
    PROVE  \/ Cost(node.table, id) = ListPrice(node.spec, m)
           \/ ~Names(node.spec, m) /\ id \notin DOMAIN node.table
  <1>1. PICK n \in 0 .. Len(names) : CompiledTo(node.table, node.spec, names, n)
    BY DEF Compiled
  <1>2. n \in Nat /\ Count \in Nat
    BY StandardIds
  <1>3. CASE m \in Builtin /\ id = StandardId[m]
    <2>1. id \in DOMAIN node.table
      BY <1>1, <1>2, <1>3, StandardIds DEF CompiledTo
    <2>2. ListPrice(node.spec, m) = IF m \in DOMAIN node.spec.routing THEN node.spec.routing[m]
                                    ELSE node.spec.unknown
      BY <1>3 DEF ListPrice, Names
    <2> QED BY <1>1, <1>3, <2>1, <2>2 DEF CompiledTo, Cost
  <1>4. ASSUME m \notin Builtin, NEW i \in DOMAIN names, names[i] = m, id = Count - 1 + i
        PROVE  \/ Cost(node.table, id) = ListPrice(node.spec, m)
               \/ ~Names(node.spec, m) /\ id \notin DOMAIN node.table
    <2>0. i \in Nat /\ i >= 1
      OBVIOUS
    <2>1. CASE i <= n
      <3>1. id \in DOMAIN node.table /\ i \in 1 .. n
        BY <1>1, <1>2, <1>4, <2>0, <2>1 DEF CompiledTo
      <3>2. ListPrice(node.spec, m) = IF m \in DOMAIN node.spec.custom THEN node.spec.custom[m]
                                      ELSE node.spec.unknown
        BY <1>4 DEF ListPrice, Names
      <3> QED BY <1>1, <1>4, <3>1, <3>2 DEF CompiledTo, Cost
    <2>2. CASE i > n
      <3>1. id \notin DOMAIN node.table
        BY <1>1, <1>2, <1>4, <2>0, <2>2 DEF CompiledTo
      <3>2. m \notin DOMAIN node.spec.custom
        BY <1>1, <1>2, <1>4, <2>2 DEF CompiledTo, NoRepeat
      <3> QED BY <1>4, <3>1, <3>2 DEF Names
    <2> QED BY <1>2, <2>0, <2>1, <2>2
  <1> QED BY <1>3, <1>4 DEF OwnId

-----------------------------------------------------------------------------
(* The inductive invariant *)

IsSequence(s) == \E S : s \in Seq(S)

\* The records have their fields.
IsTask(t) == t = [at |-> t.at, config |-> t.config, next |-> t.next, built |-> t.built]

IsRequest(q) ==
    q = [at |-> q.at, method |-> q.method, id |-> q.id, nodes |-> q.nodes, quote |-> q.quote]

Shape ==
    /\ IsTask(task)
    /\ req = [r \in Request |-> req[r]]
    /\ \A r \in Request : IsRequest(req[r])

\* What build_nodes has so far: the nodes of the first entries of its config.
BuildsInOrder ==
    task.at = "build" =>
        /\ task.config \in Seq(ConfigNode)
        /\ \A i \in DOMAIN task.config : task.config[i].resetDay \in 1 .. 31
        /\ task.next \in 1 .. Len(task.config) + 1
        /\ IsSequence(task.built) /\ Len(task.built) = task.next - 1
        /\ \A i \in 1 .. Len(task.built) :
              /\ Compiled(task.built[i], interned)
              /\ task.built[i].name = task.config[i].name
              /\ task.built[i].resetDay = task.config[i].resetDay
              /\ NodeOk(task.config[i])

ServedCompiled ==
    \A i \in DOMAIN topology.nodes : Compiled(topology.nodes[i], interned)

\* A request in flight holds an id of this process and tables of this process.
RequestsCompiled ==
    \A r \in Request :
        /\ \A i \in DOMAIN req[r].nodes : Compiled(req[r].nodes[i], interned)
        /\ req[r].at # "new" => OwnId(req[r].id, req[r].method, interned)

IInv ==
    /\ TypeOK /\ Shape /\ NoRepeat(interned)
    /\ BuildsInOrder /\ ServedCompiled /\ RequestsCompiled
    /\ ChargedForOwnMethod /\ PublishedIsWhole

-----------------------------------------------------------------------------
(* The steps *)

\* The records of a process that has just started.
LEMMA EmptyRecords ==
    /\ IsTask(Idle) /\ IsRequest(NoRequest)
    /\ Idle.at = "idle" /\ Idle.next = 1
    /\ DOMAIN NoTopology.nodes = {}
    /\ NoRequest.at = "new" /\ NoRequest.id = Unknown /\ DOMAIN NoRequest.nodes = {}
    /\ NoRequest.quote.cost = Unpriced
    /\ <<>> \in Seq(Method) /\ NoRepeat(<<>>)
  BY DEF Idle, NoTopology, NoRequest, NoQuote, NoRepeat, IsTask, IsRequest

\* A step that leaves what is served and the requests alone keeps their parts,
\* however many names it adds.
LEMMA ServedForGood ==
    ASSUME IInv, topology' = topology, req' = req,
           interned' \in Seq(Method), Extends(interned', interned)
    PROVE  /\ ServedCompiled' /\ RequestsCompiled' /\ ChargedForOwnMethod'
           /\ phase' = phase => PublishedIsWhole'
  <1>0. interned \in Seq(Method)
    BY DEF IInv, TypeOK
  <1>1. ServedCompiled'
    BY <1>0, CompiledForGood DEF IInv, ServedCompiled
  <1>2. RequestsCompiled'
    BY <1>0, CompiledForGood, IdForGood DEF IInv, RequestsCompiled
  <1>3. ChargedForOwnMethod' /\ (phase' = phase => PublishedIsWhole')
    BY DEF IInv, ChargedForOwnMethod, PublishedIsWhole
  <1> QED BY <1>1, <1>2, <1>3

\* Types of what a step touches and what it does not.
LEMMA SameNames ==
    ASSUME NEW names \in Seq(Method)
    PROVE  Extends(names, names)
  BY DEF Extends

\* The process ends.
LEMMA GoneIInv ==
    ASSUME IInv, Gone, UNCHANGED <<disk, edits, signalled>>
    PROVE  IInv'
  <1>1. /\ phase' = "off" /\ interned' = <<>> /\ signal' = FALSE /\ task' = Idle
        /\ topology' = NoTopology /\ req' = [r \in Request |-> NoRequest]
    BY DEF Gone
  <1>2. Shape'
    BY <1>1, EmptyRecords DEF Shape
  <1>3. TypeOK'
    <2>1. \A r \in Request : req'[r].at \in {"new", "round", "walk"} /\ req'[r].id \in Nat
      BY <1>1, EmptyRecords DEF Unknown
    <2>2. task'.at = "idle" /\ task'.next \in Nat /\ DOMAIN topology'.nodes = {}
      BY <1>1, EmptyRecords
    <2> QED BY <1>1, <2>1, <2>2, EmptyRecords DEF IInv, TypeOK
  <1>4. NoRepeat(interned)' /\ BuildsInOrder' /\ ServedCompiled' /\ RequestsCompiled'
    BY <1>1, EmptyRecords DEF BuildsInOrder, ServedCompiled, RequestsCompiled
  <1>5. ChargedForOwnMethod' /\ PublishedIsWhole'
    BY <1>1, EmptyRecords DEF ChargedForOwnMethod, PublishedIsWhole
  <1> QED BY <1>2, <1>3, <1>4, <1>5 DEF IInv

\* The first start.
LEMMA InitIInv ==
    ASSUME Init
    PROVE  IInv
  <1>1. /\ phase = "off" /\ interned = <<>> /\ signal = FALSE /\ task = Idle
        /\ edits = 0 /\ signalled = 0 /\ disk \in Disk
        /\ topology = NoTopology /\ req = [r \in Request |-> NoRequest]
    BY StartAssumption DEF Init
  <1>2. Shape
    BY <1>1, EmptyRecords DEF Shape
  <1>3. TypeOK
    <2>1. \A r \in Request : req[r].at \in {"new", "round", "walk"} /\ req[r].id \in Nat
      BY <1>1, EmptyRecords DEF Unknown
    <2>2. task.at = "idle" /\ task.next \in Nat /\ DOMAIN topology.nodes = {}
      BY <1>1, EmptyRecords
    <2>3. edits \in 0 .. MaxEdits /\ signalled \in 0 .. edits
      BY <1>1, BoundAssumption
    <2> QED BY <1>1, <2>1, <2>2, <2>3, EmptyRecords DEF TypeOK
  <1>4. NoRepeat(interned) /\ BuildsInOrder /\ ServedCompiled /\ RequestsCompiled
    BY <1>1, EmptyRecords DEF BuildsInOrder, ServedCompiled, RequestsCompiled
  <1>5. ChargedForOwnMethod /\ PublishedIsWhole
    BY <1>1, EmptyRecords DEF ChargedForOwnMethod, PublishedIsWhole
  <1> QED BY <1>2, <1>3, <1>4, <1>5 DEF IInv

\* Settings::load normalizes a config that passes its checks.
LEMMA LoadTyped ==
    ASSUME NEW config \in Config, LoadOk(config)
    PROVE  /\ Load(config) \in Seq(ConfigNode)
           /\ \A i \in DOMAIN Load(config) : Load(config)[i].resetDay \in 1 .. 31
  <1>1. config \in Seq(ConfigNode)
    BY ConfigAssumption DEF LoadOk
  <1>2. DOMAIN config = 1 .. Len(config) /\ Len(config) \in Nat
    BY <1>1
  <1> DEFINE e(i) == [config[i] EXCEPT !.url = ResolveEnv(@),
                                       !.limit = IF @ = 0 THEN Unlimited ELSE @]
  <1>3. \A i \in 1 .. Len(config) : e(i) \in ConfigNode /\ e(i).resetDay \in 1 .. 31
    <2> TAKE i \in 1 .. Len(config)
    <2>1. config[i] \in ConfigNode /\ config[i].resetDay \in 1 .. 31
      <3>1. config[i] \in ConfigNode
        BY <1>1, <1>2
      <3>2. config[i].resetDay \in 1 .. 31
        BY <1>2 DEF LoadOk
      <3> QED BY <3>1, <3>2
    <2>2. ResolveEnv(config[i].url) \in {"plain", "set", "unset", "garbage"}
      BY <2>1 DEF ResolveEnv, ConfigNode
    <2>3. (IF config[i].limit = 0 THEN Unlimited ELSE config[i].limit) \in Nat
      BY <2>1, BoundAssumption DEF ConfigNode
    <2> QED BY <2>1, <2>2, <2>3 DEF ConfigNode
  <1>4. Load(config) = [i \in 1 .. Len(config) |-> e(i)]
    BY <1>2 DEF Load
  <1> HIDE DEF e
  <1>5. Load(config) \in Seq(ConfigNode)
    BY <1>2, <1>3, <1>4, IsASeq
  <1>6. \A i \in DOMAIN Load(config) : Load(config)[i].resetDay \in 1 .. 31
    BY <1>3, <1>4
  <1> QED BY <1>5, <1>6

\* The task starts on a config, at start-up or on a signal.
LEMMA BeginIInv ==
    ASSUME IInv, LoadOk(disk.config), Begin, phase' \in {phase, "booting"},
           signal' \in BOOLEAN,
           UNCHANGED <<interned, disk, edits, signalled, topology, req>>
    PROVE  IInv'
  <1>1. disk.config \in Config /\ interned \in Seq(Method)
    BY DEF IInv, TypeOK, Disk
  <1>2. /\ task' = [at |-> "build", config |-> Load(disk.config), next |-> 1, built |-> <<>>]
        /\ Load(disk.config) \in Seq(ConfigNode)
        /\ \A i \in DOMAIN Load(disk.config) : Load(disk.config)[i].resetDay \in 1 .. 31
    BY <1>1, LoadTyped DEF Begin
  <1>3. Shape'
    BY <1>2 DEF IInv, Shape, IsTask
  <1>4. TypeOK'
    BY <1>2 DEF IInv, TypeOK
  <1>5. BuildsInOrder'
    <2>1. IsSequence(<<>>) /\ Len(<<>>) = 0
      BY EmptyRecords DEF IsSequence
    <2> QED BY <1>2, <2>1 DEF BuildsInOrder
  <1>6. ServedCompiled' /\ RequestsCompiled' /\ ChargedForOwnMethod'
    BY <1>1, ServedForGood, SameNames
  <1>7. PublishedIsWhole' /\ NoRepeat(interned)'
    BY DEF IInv, PublishedIsWhole
  <1> QED BY <1>3, <1>4, <1>5, <1>6, <1>7 DEF IInv

\* A reload is given up; the names it registered stay.
LEMMA AbandonIInv ==
    ASSUME IInv, NEW names \in Seq(Method), NoRepeat(names), Extends(names, interned),
           Abandon(names), UNCHANGED <<disk, edits, signalled>>
    PROVE  IInv'
  <1>1. CASE Gone
    BY <1>1, GoneIInv
  <1>2. CASE /\ phase = "serving" /\ task' = Idle /\ interned' = names
             /\ UNCHANGED <<phase, signal, topology, req>>
    <2>1. Shape' /\ TypeOK' /\ BuildsInOrder' /\ NoRepeat(interned)'
      BY <1>2, EmptyRecords DEF IInv, Shape, TypeOK, BuildsInOrder
    <2>2. ServedCompiled' /\ RequestsCompiled' /\ ChargedForOwnMethod' /\ PublishedIsWhole'
      BY <1>2, ServedForGood
    <2> QED BY <2>1, <2>2 DEF IInv
  <1> QED BY <1>1, <1>2 DEF Abandon

\* The node of an entry whose price list parses.
LEMMA NodeCompiles ==
    ASSUME NEW file \in File, ParseOk(file), NEW node,
           NEW names \in Seq(Method), NoRepeat(names),
           \A m \in DOMAIN file.custom : \E i \in DOMAIN names : names[i] = m
    PROVE  /\ Compiled(NewNode(node, file, names), names)
           /\ NewNode(node, file, names).name = node.name
           /\ NewNode(node, file, names).resetDay = node.resetDay
  <1> DEFINE spec == CostSpec(file)
  <1>1. /\ file # Unreadable
        /\ DOMAIN file.routing \subseteq Method /\ DOMAIN file.custom \subseteq Method
        /\ \A m \in DOMAIN file.routing : file.routing[m] \in Price
        /\ \A m \in DOMAIN file.custom : file.custom[m] \in Price
        /\ file.limits # NoLimits => file.limits.unknown \in Price \union {Absent}
    BY PriceAssumption DEF ParseOk
  <1>2. spec.routing = file.routing /\ spec.custom = file.custom /\ spec.unknown \in Price
    BY <1>1, PriceAssumption DEF CostSpec
  <1> HIDE DEF spec
  <1>3. PriceSpec(spec)
    BY <1>1, <1>2 DEF PriceSpec
  <1>4. /\ CompiledTo(CostTable(spec, names), spec, names, Len(names))
        /\ \A id \in DOMAIN CostTable(spec, names) : CostTable(spec, names)[id] \in Price
    BY <1>1, <1>2, <1>3, TableCompiles
  <1>5. Len(names) \in 0 .. Len(names)
    OBVIOUS
  <1> DEFINE new == NewNode(node, file, names)
  <1>6. /\ new.table = CostTable(spec, names) /\ new.spec = spec
        /\ new.name = node.name /\ new.resetDay = node.resetDay
    BY DEF NewNode, spec
  <1> HIDE DEF new
  <1>7. Compiled(new, names)
    BY <1>3, <1>4, <1>5, <1>6 DEF Compiled
  <1> QED BY <1>6, <1>7 DEF new

\* One more element at the end.
LEMMA Appended ==
    ASSUME NEW s, IsSequence(s), NEW x
    PROVE  /\ IsSequence(Append(s, x)) /\ Len(Append(s, x)) = Len(s) + 1 /\ Len(s) \in Nat
           /\ \A i \in 1 .. Len(s) : Append(s, x)[i] = s[i]
           /\ Append(s, x)[Len(s) + 1] = x
  <1>1. PICK S : s \in Seq(S)
    BY DEF IsSequence
  <1>2. s \in Seq(S \union {x})
    BY <1>1
  <1>3. Append(s, x) \in Seq(S \union {x})
    BY <1>2
  <1> QED BY <1>2, <1>3 DEF IsSequence

\* build_nodes, one entry.
LEMMA BuildNodeIInv ==
    ASSUME IInv, BuildNode
    PROVE  IInv'
  <1> DEFINE file == disk.prices[Current.path]
  <1>1. /\ Building /\ UNCHANGED <<disk, edits, signalled>>
        /\ \/ ~ParseOk(file) /\ Abandon(interned)
           \/ /\ ParseOk(file)
              /\ \E names \in Register(interned, DOMAIN file.custom) :
                    \/ ~NodeOk(Current) /\ Abandon(names)
                    \/ /\ NodeOk(Current)
                       /\ interned' = names
                       /\ task' = [task EXCEPT
                             !.next = @ + 1,
                             !.built = Append(@, NewNode(Current, file, names))]
                       /\ UNCHANGED <<phase, signal, topology, req>>
    BY DEF BuildNode
  <1>2. interned \in Seq(Method) /\ NoRepeat(interned)
    BY DEF IInv, TypeOK
  <1>3. /\ task.at = "build" /\ task.config \in Seq(ConfigNode)
        /\ \A i \in DOMAIN task.config : task.config[i].resetDay \in 1 .. 31
        /\ task.next \in 1 .. Len(task.config) + 1 /\ task.next <= Len(task.config)
        /\ IsSequence(task.built) /\ Len(task.built) = task.next - 1
        /\ \A i \in 1 .. Len(task.built) :
              /\ Compiled(task.built[i], interned)
              /\ task.built[i].name = task.config[i].name
              /\ task.built[i].resetDay = task.config[i].resetDay
              /\ NodeOk(task.config[i])
    BY <1>1 DEF Building, IInv, BuildsInOrder
  <1>4. Current \in ConfigNode /\ file \in File
    <2>1. Current \in ConfigNode
      BY <1>3 DEF Current
    <2>2. Current.path \in Path
      BY <2>1 DEF ConfigNode
    <2>3. disk.prices \in [Path -> File]
      BY DEF IInv, TypeOK, Disk
    <2> QED BY <2>1, <2>2, <2>3
  <1> HIDE DEF file
  <1>5. CASE ~ParseOk(file) /\ Abandon(interned)
    BY <1>1, <1>2, <1>5, AbandonIInv, SameNames
  <1>6. ASSUME ParseOk(file), NEW names \in Register(interned, DOMAIN file.custom)
        PROVE  /\ names \in Seq(Method) /\ NoRepeat(names) /\ Extends(names, interned)
               /\ \A m \in DOMAIN file.custom : \E i \in DOMAIN names : names[i] = m
    <2>1. DOMAIN file.custom \in SUBSET Method
      BY <1>4, <1>6, PriceAssumption DEF ParseOk
    <2> QED BY <1>2, <1>6, <2>1, Registered
  <1>7. ASSUME ParseOk(file), NEW names \in Register(interned, DOMAIN file.custom),
               Abandon(names)
        PROVE  IInv'
    BY <1>1, <1>6, <1>7, AbandonIInv
  <1>8. ASSUME ParseOk(file), NEW names \in Register(interned, DOMAIN file.custom),
               NodeOk(Current), interned' = names,
               task' = [task EXCEPT !.next = @ + 1,
                                    !.built = Append(@, NewNode(Current, file, names))],
               UNCHANGED <<phase, signal, topology, req>>
        PROVE  IInv'
    <2> DEFINE new == NewNode(Current, file, names)
    <2>1. /\ names \in Seq(Method) /\ NoRepeat(names) /\ Extends(names, interned)
          /\ \A m \in DOMAIN file.custom : \E i \in DOMAIN names : names[i] = m
      BY <1>6, <1>8
    <2>2. Compiled(new, names) /\ new.name = Current.name /\ new.resetDay = Current.resetDay
      BY <1>4, <1>8, <2>1, NodeCompiles
    <2> HIDE DEF new
    <2>3. /\ task'.at = "build" /\ task'.config = task.config /\ task'.next = task.next + 1
          /\ task'.built = Append(task.built, new)
          /\ IsTask(task')
      BY <1>3, <1>8 DEF IInv, Shape, IsTask, new
    <2>4. /\ IsSequence(task'.built) /\ Len(task'.built) = Len(task.built) + 1
          /\ Len(task.built) \in Nat
          /\ \A i \in 1 .. Len(task.built) : task'.built[i] = task.built[i]
          /\ task'.built[Len(task.built) + 1] = new
      BY <1>3, <2>3, Appended
    <2>5. BuildsInOrder'
      <3>1. task'.next \in 1 .. Len(task.config) + 1 /\ Len(task'.built) = task'.next - 1
        BY <1>3, <2>3, <2>4
      <3>2. \A i \in 1 .. Len(task'.built) :
              /\ Compiled(task'.built[i], names)
              /\ task'.built[i].name = task.config[i].name
              /\ task'.built[i].resetDay = task.config[i].resetDay
              /\ NodeOk(task.config[i])
        <4> TAKE i \in 1 .. Len(task'.built)
        <4>1. CASE i \in 1 .. Len(task.built)
          <5>1. Compiled(task.built[i], names)
            BY <1>2, <1>3, <2>1, <4>1, CompiledForGood
          <5> QED BY <1>3, <2>4, <4>1, <5>1
        <4>2. CASE i = Len(task.built) + 1
          <5>1. i = task.next /\ task'.built[i] = new
            BY <1>3, <2>4, <4>2
          <5> QED BY <1>8, <2>2, <5>1 DEF Current
        <4> QED BY <2>4, <4>1, <4>2
      <3> QED BY <1>3, <1>8, <2>3, <2>4, <3>1, <3>2 DEF BuildsInOrder
    <2>6. Shape'
      BY <1>8, <2>3 DEF IInv, Shape
    <2>7. TypeOK'
      <3>1. task'.next \in Nat
        BY <2>3 DEF IInv, TypeOK
      <3> QED BY <1>1, <1>8, <2>1, <2>3, <3>1 DEF IInv, TypeOK
    <2>8. ServedCompiled' /\ RequestsCompiled' /\ ChargedForOwnMethod' /\ PublishedIsWhole'
      BY <1>8, <2>1, ServedForGood
    <2> QED BY <1>8, <2>1, <2>5, <2>6, <2>7, <2>8 DEF IInv
  <1> QED BY <1>1, <1>5, <1>7, <1>8

\* The whole set is published at once, or nothing is.
LEMMA PublishIInv ==
    ASSUME IInv, Publish
    PROVE  IInv'
  <1>1. Built /\ UNCHANGED <<disk, edits, signalled>>
    BY DEF Publish
  <1>2. interned \in Seq(Method) /\ NoRepeat(interned)
    BY DEF IInv, TypeOK
  <1>3. CASE Abandon(interned)
    BY <1>1, <1>2, <1>3, AbandonIInv, SameNames
  <1>4. CASE /\ Accepts(task.config)
             /\ topology' = [config |-> task.config, nodes |-> task.built]
             /\ task' = Idle /\ phase' = "serving"
             /\ UNCHANGED <<interned, signal, req>>
    <2>1. /\ task.config \in Seq(ConfigNode)
          /\ \A i \in DOMAIN task.config : task.config[i].resetDay \in 1 .. 31
          /\ task.next \in 1 .. Len(task.config) + 1 /\ task.next > Len(task.config)
          /\ IsSequence(task.built) /\ Len(task.built) = task.next - 1
          /\ \A i \in 1 .. Len(task.built) :
                /\ Compiled(task.built[i], interned)
                /\ task.built[i].name = task.config[i].name
                /\ task.built[i].resetDay = task.config[i].resetDay
                /\ NodeOk(task.config[i])
      BY <1>1 DEF Built, IInv, BuildsInOrder
    <2>2. Len(task.built) = Len(task.config) /\ DOMAIN task.built = 1 .. Len(task.config)
      BY <2>1 DEF IsSequence
    <2>3. topology'.config = task.config /\ topology'.nodes = task.built
      BY <1>4
    <2>4. PublishedIsWhole'
      <3>1. \A i \in DOMAIN task.built :
              /\ task.built[i].name = task.config[i].name
              /\ task.built[i].resetDay \in 1 .. 31
              /\ NodeOk(task.config[i])
        <4> TAKE i \in DOMAIN task.built
        <4>1. i \in 1 .. Len(task.built) /\ i \in DOMAIN task.config
          BY <2>1, <2>2
        <4> QED BY <2>1, <4>1
      <3> QED BY <1>4, <2>2, <2>3, <3>1 DEF PublishedIsWhole
    <2>5. ServedCompiled'
      BY <1>4, <2>1, <2>2, <2>3 DEF ServedCompiled
    <2>6. RequestsCompiled' /\ ChargedForOwnMethod' /\ NoRepeat(interned)'
      BY <1>4 DEF IInv, RequestsCompiled, ChargedForOwnMethod
    <2>7. Shape' /\ BuildsInOrder'
      BY <1>4, EmptyRecords DEF IInv, Shape, BuildsInOrder
    <2>8. TypeOK'
      <3>1. \A i \in DOMAIN topology'.nodes : \A id \in DOMAIN topology'.nodes[i].table :
              topology'.nodes[i].table[id] \in Price
        BY <2>5 DEF ServedCompiled, Compiled
      <3> QED BY <1>1, <1>4, <3>1, EmptyRecords DEF IInv, TypeOK
    <2> QED BY <2>4, <2>5, <2>6, <2>7, <2>8 DEF IInv
  <1> QED BY <1>3, <1>4 DEF Publish

\* extract_method finds the method the body calls first, whichever of its two
\* ways succeeds.
LEMMA ExtractsAsked ==
    ASSUME NEW body \in Body, ExtractMethod(body) # NoMethod
    PROVE  ExtractMethod(body) = Asked(body) /\ Asked(body) \in Method
  <1>1. /\ body.members \in Seq(Member)
        /\ body.object /\ body.members # <<>> => body.members[1].depth = 1
    BY BodyAssumption
  <1>2. \A i \in Calls(body) : i \in Nat /\ i >= 1 /\ body.members[i].value \in Method \union {NoMethod}
    <2> SUFFICES ASSUME NEW i \in Calls(body)
                 PROVE  i \in Nat /\ i >= 1 /\ body.members[i].value \in Method \union {NoMethod}
      OBVIOUS
    <2>1. i \in DOMAIN body.members
      BY DEF Calls
    <2>2. i \in Nat /\ i >= 1 /\ body.members[i] \in Member
      BY <1>1, <2>1
    <2> QED BY <2>2 DEF Member
  <1>3. ASSUME NEW c \in Calls(body), \A j \in Calls(body) : c <= j
        PROVE  Asked(body) = body.members[c].value
    <2> DEFINE d == CHOOSE i \in Calls(body) : \A j \in Calls(body) : i <= j
    <2>1. d \in Calls(body) /\ \A j \in Calls(body) : d <= j
      BY <1>3
    <2> HIDE DEF d
    <2>2. d = c
      BY <1>2, <1>3, <2>1
    <2> QED BY <1>3, <2>2 DEF Asked, d
  <1>4. CASE ScanLeadingMethod(body) # NoMethod
    <2>1. /\ body.object /\ body.members # <<>> /\ body.members[1].key = "method"
          /\ ExtractMethod(body) = body.members[1].value
      BY <1>4 DEF ExtractMethod, ScanLeadingMethod
    <2>2. 1 \in DOMAIN body.members
      BY <1>1, <2>1
    <2>3. 1 \in Calls(body)
      BY <1>1, <2>1, <2>2 DEF Calls
    <2>4. Asked(body) = body.members[1].value
      BY <1>2, <1>3, <2>3
    <2> QED BY <1>2, <2>1, <2>3, <2>4
  <1>5. CASE ScanLeadingMethod(body) = NoMethod
    <2>1. PICK c \in Calls(body) : Calls(body) = {c}
      BY <1>5 DEF ExtractMethod, FullParse
    <2>2. (CHOOSE i \in Calls(body) : TRUE) = c
      BY <2>1
    <2>3. ExtractMethod(body) = body.members[c].value
      BY <1>5, <2>2 DEF ExtractMethod, FullParse
    <2>4. c <= c
      BY <1>2, <2>1
    <2>5. Asked(body) = body.members[c].value
      BY <1>3, <2>1, <2>4
    <2> QED BY <1>2, <2>1, <2>3, <2>5
  <1> QED BY <1>4, <1>5

\* A step of one request: the others keep what they hold.
LEMMA RequestIInv ==
    ASSUME IInv, NEW r \in Request, NEW new,
           req' = [req EXCEPT ![r] = new],
           IsRequest(new),
           new.at \in {"new", "round", "walk"}, new.id \in Nat,
           \A i \in DOMAIN new.nodes : Compiled(new.nodes[i], interned),
           new.at # "new" => OwnId(new.id, new.method, interned),
           new.quote.cost # Unpriced
              => \/ new.quote.cost = ListPrice(new.quote.spec, new.method)
                 \/ new.id = Unknown /\ new.quote.cost = new.quote.spec.unknown,
           UNCHANGED <<phase, interned, disk, edits, signal, signalled, task, topology>>
    PROVE  IInv'
  <1>1. /\ DOMAIN req = Request /\ req'[r] = new
        /\ \A q \in Request : q # r => req'[q] = req[q]
        /\ req' = [q \in Request |-> IF q = r THEN new ELSE req[q]]
    BY DEF IInv, Shape
  <1>2. Shape'
    <2>1. \A q \in Request : IsRequest(req'[q])
      BY <1>1 DEF IInv, Shape
    <2> QED BY <1>1, <2>1 DEF IInv, Shape
  <1>3. TypeOK'
    <2>1. \A q \in Request : req'[q].at \in {"new", "round", "walk"} /\ req'[q].id \in Nat
      BY <1>1 DEF IInv, TypeOK
    <2> QED BY <2>1 DEF IInv, TypeOK
  <1>4. RequestsCompiled'
    <2> SUFFICES ASSUME NEW q \in Request
                 PROVE  /\ \A i \in DOMAIN req'[q].nodes : Compiled(req'[q].nodes[i], interned)
                        /\ req'[q].at # "new" => OwnId(req'[q].id, req'[q].method, interned)
      BY DEF RequestsCompiled
    <2> QED BY <1>1 DEF IInv, RequestsCompiled
  <1>5. ChargedForOwnMethod'
    BY <1>1 DEF IInv, ChargedForOwnMethod
  <1>6. NoRepeat(interned)' /\ BuildsInOrder' /\ ServedCompiled' /\ PublishedIsWhole'
    BY DEF IInv, BuildsInOrder, ServedCompiled, PublishedIsWhole
  <1> QED BY <1>2, <1>3, <1>4, <1>5, <1>6 DEF IInv

\* dispatch resolves the id of the method the body calls.
LEMMA DispatchIInv ==
    ASSUME IInv, NEW r \in Request, NEW body \in Body, Dispatch(r, body)
    PROVE  IInv'
  <1> DEFINE new == [NoRequest EXCEPT !.at = "round", !.method = Asked(body),
                                      !.id = Resolve(interned, ExtractMethod(body))]
  <1>1. /\ req' = [req EXCEPT ![r] = new]
        /\ UNCHANGED <<phase, interned, disk, edits, signal, signalled, task, topology>>
        /\ ExtractMethod(body) # NoMethod
    BY DEF Dispatch
  <1>2. /\ IsRequest(new)
        /\ new.at = "round" /\ new.method = Asked(body)
        /\ new.id = Resolve(interned, ExtractMethod(body))
        /\ DOMAIN new.nodes = {} /\ new.quote.cost = Unpriced
    <2> DEFINE id == Resolve(interned, ExtractMethod(body))
               m == Asked(body)
    <2>1. new = [NoRequest EXCEPT !.at = "round", !.method = m, !.id = id]
      OBVIOUS
    <2> HIDE DEF id, m, new
    <2>2. IsRequest(new)
      BY <2>1, EmptyRecords DEF IsRequest
    <2>3. /\ new.at = "round" /\ new.method = m /\ new.id = id
          /\ new.nodes = NoRequest.nodes /\ new.quote = NoRequest.quote
      BY <2>1, EmptyRecords DEF IsRequest
    <2> QED BY <2>2, <2>3, EmptyRecords DEF id, m
  <1>3. interned \in Seq(Method) /\ NoRepeat(interned)
    BY DEF IInv, TypeOK
  <1>4. ExtractMethod(body) = Asked(body) /\ Asked(body) \in Method
    BY <1>1, ExtractsAsked
  <1> HIDE DEF new
  <1>5. OwnId(new.id, new.method, interned) /\ new.id \in Nat
    BY <1>2, <1>3, <1>4, ResolveOwn
  <1> QED BY <1>1, <1>2, <1>5, RequestIInv

\* route takes the set that is published now.
LEMMA StartRoundIInv ==
    ASSUME IInv, NEW r \in Request, StartRound(r)
    PROVE  IInv'
  <1> DEFINE new == [req[r] EXCEPT !.at = "walk", !.nodes = topology.nodes]
  <1>1. /\ req[r].at = "round"
        /\ req' = [req EXCEPT ![r].at = "walk", ![r].nodes = topology.nodes]
        /\ UNCHANGED <<phase, interned, disk, edits, signal, signalled, task, topology>>
    BY DEF StartRound
  <1>2. req' = [req EXCEPT ![r] = new]
    BY <1>1 DEF IInv, Shape
  <1>3. /\ IsRequest(new)
        /\ new.at = "walk" /\ new.method = req[r].method /\ new.id = req[r].id
        /\ new.nodes = topology.nodes /\ new.quote = req[r].quote
    <2>1. new = [req[r] EXCEPT !.at = "walk", !.nodes = topology.nodes] /\ IsRequest(req[r])
      BY DEF IInv, Shape
    <2> HIDE DEF new
    <2>2. IsRequest(new)
      BY <2>1 DEF IsRequest
    <2> QED BY <2>1, <2>2 DEF IsRequest
  <1> HIDE DEF new
  <1>4. /\ \A i \in DOMAIN new.nodes : Compiled(new.nodes[i], interned)
        /\ OwnId(new.id, new.method, interned) /\ new.id \in Nat
    BY <1>1, <1>3 DEF IInv, ServedCompiled, RequestsCompiled, TypeOK
  <1>5. new.quote.cost # Unpriced
          => \/ new.quote.cost = ListPrice(new.quote.spec, new.method)
             \/ new.id = Unknown /\ new.quote.cost = new.quote.spec.unknown
    BY <1>3 DEF IInv, ChargedForOwnMethod
  <1> QED BY <1>1, <1>2, <1>3, <1>4, <1>5, RequestIInv

\* book quotes a node of the round's set.
LEMMA ConsultIInv ==
    ASSUME IInv, NEW r \in Request, NEW k \in DOMAIN req[r].nodes, Consult(r, k)
    PROVE  IInv'
  <1> DEFINE node == req[r].nodes[k]
             quote == [cost |-> Cost(node.table, req[r].id), spec |-> node.spec]
             new == [req[r] EXCEPT !.quote = quote]
  <1>1. /\ req[r].at = "walk"
        /\ req' = [req EXCEPT ![r].quote = quote]
        /\ UNCHANGED <<phase, interned, disk, edits, signal, signalled, task, topology>>
    BY DEF Consult
  <1>2. req' = [req EXCEPT ![r] = new]
    <2> HIDE DEF quote
    <2> QED BY <1>1 DEF IInv, Shape
  <1>3. /\ IsRequest(new)
        /\ new.at = req[r].at /\ new.method = req[r].method /\ new.id = req[r].id
        /\ new.nodes = req[r].nodes
        /\ new.quote.cost = Cost(node.table, new.id) /\ new.quote.spec = node.spec
    <2>1. /\ IsRequest(new)
          /\ new.at = req[r].at /\ new.method = req[r].method /\ new.id = req[r].id
          /\ new.nodes = req[r].nodes /\ new.quote = quote
      <3>1. new = [req[r] EXCEPT !.quote = quote] /\ IsRequest(req[r])
        BY DEF IInv, Shape
      <3> HIDE DEF quote, new
      <3>2. IsRequest(new)
        BY <3>1 DEF IsRequest
      <3> QED BY <3>1, <3>2 DEF IsRequest
    <2> HIDE DEF new
    <2> QED BY <2>1
  <1> HIDE DEF new, quote
  <1>4. /\ \A i \in DOMAIN new.nodes : Compiled(new.nodes[i], interned)
        /\ OwnId(new.id, new.method, interned) /\ new.id \in Nat
        /\ new.at \in {"new", "round", "walk"}
        /\ Compiled(node, interned)
    BY <1>1, <1>3 DEF IInv, RequestsCompiled, TypeOK
  <1>5. interned \in Seq(Method) /\ NoRepeat(interned)
    BY DEF IInv, TypeOK
  <1> HIDE DEF node
  <1>6. new.quote.cost # Unpriced
          => \/ new.quote.cost = ListPrice(new.quote.spec, new.method)
             \/ new.id = Unknown /\ new.quote.cost = new.quote.spec.unknown
    <2>1. CASE new.id = Unknown
      <3>1. PICK n \in 0 .. Len(interned) : CompiledTo(node.table, node.spec, interned, n)
        BY <1>4 DEF Compiled
      <3>2. Unknown \in DOMAIN node.table /\ node.table[Unknown] = node.spec.unknown
        BY <1>5, <3>1, StandardIds DEF CompiledTo, Unknown
      <3> QED BY <1>3, <2>1, <3>2 DEF Cost
    <2>2. CASE new.id # Unknown
      <3>1. \/ Cost(node.table, new.id) = ListPrice(node.spec, new.method)
            \/ new.id \notin DOMAIN node.table
        BY <1>4, <1>5, <2>2, ChargesOwn
      <3> QED BY <1>3, <3>1 DEF Cost
    <2> QED BY <2>1, <2>2
  <1> QED BY <1>1, <1>2, <1>3, <1>4, <1>6, RequestIInv

\* The round ends, or the request does.
LEMMA EndRoundIInv ==
    ASSUME IInv, NEW r \in Request, EndRound(r)
    PROVE  IInv'
  <1>1. /\ req[r].at = "walk"
        /\ UNCHANGED <<phase, interned, disk, edits, signal, signalled, task, topology>>
    BY DEF EndRound
  <1>2. CASE req' = [req EXCEPT ![r] = NoRequest]
    <2> DEFINE new == NoRequest
    <2>1. /\ IsRequest(new)
          /\ new.at = "new" /\ new.id \in Nat
          /\ DOMAIN new.nodes = {} /\ new.quote.cost = Unpriced
      BY EmptyRecords DEF Unknown
    <2>2. req' = [req EXCEPT ![r] = new]
      BY <1>2
    <2> HIDE DEF new
    <2> QED BY <1>1, <2>1, <2>2, RequestIInv
  <1>3. CASE req' = [req EXCEPT ![r].at = "round", ![r].nodes = <<>>, ![r].quote = NoQuote]
    <2> DEFINE new == [req[r] EXCEPT !.at = "round", !.nodes = <<>>, !.quote = NoQuote]
    <2>1. req' = [req EXCEPT ![r] = new]
      BY <1>3 DEF IInv, Shape
    <2>2. /\ IsRequest(new)
          /\ new.at = "round" /\ new.method = req[r].method /\ new.id = req[r].id
          /\ DOMAIN new.nodes = {} /\ new.quote.cost = Unpriced
      <3>1. /\ new = [req[r] EXCEPT !.at = "round", !.nodes = <<>>, !.quote = NoQuote]
            /\ IsRequest(req[r])
        BY DEF IInv, Shape
      <3> HIDE DEF new
      <3>2. IsRequest(new)
        BY <3>1 DEF IsRequest
      <3>3. /\ new.at = "round" /\ new.method = req[r].method /\ new.id = req[r].id
            /\ new.nodes = <<>> /\ new.quote = NoQuote
        BY <3>1 DEF IsRequest
      <3> QED BY <3>2, <3>3 DEF NoQuote
    <2> HIDE DEF new
    <2>3. OwnId(new.id, new.method, interned) /\ new.id \in Nat
      BY <1>1, <2>2 DEF IInv, RequestsCompiled, TypeOK
    <2> QED BY <1>1, <2>1, <2>2, <2>3, RequestIInv
  <1> QED BY <1>2, <1>3 DEF EndRound

\* A step of the operator, or none.
LEMMA QuietIInv ==
    ASSUME IInv, UNCHANGED <<phase, interned, task, topology, req>>,
           disk' \in Disk, edits' \in 0 .. MaxEdits, signalled' \in 0 .. edits',
           signal' \in BOOLEAN
    PROVE  IInv'
  <1>1. interned \in Seq(Method)
    BY DEF IInv, TypeOK
  <1>2. TypeOK' /\ Shape' /\ NoRepeat(interned)' /\ BuildsInOrder'
    BY DEF IInv, TypeOK, Shape, BuildsInOrder
  <1>3. ServedCompiled' /\ RequestsCompiled' /\ ChargedForOwnMethod' /\ PublishedIsWhole'
    BY <1>1, SameNames, ServedForGood
  <1> QED BY <1>2, <1>3 DEF IInv

\* Every step keeps the invariant.
LEMMA NextIInv ==
    ASSUME IInv, [Next]_vars
    PROVE  IInv'
  <1>0. /\ disk \in Disk /\ edits \in 0 .. MaxEdits /\ signalled \in 0 .. edits
        /\ signal \in BOOLEAN
    BY DEF IInv, TypeOK
  <1>1. ASSUME UNCHANGED vars PROVE IInv'
    BY <1>0, <1>1, QuietIInv DEF vars
  <1>2. ASSUME Boot PROVE IInv'
    BY <1>0, <1>2, BeginIInv DEF Boot
  <1>3. ASSUME Receive PROVE IInv'
    <2>1. /\ signal' = FALSE /\ UNCHANGED <<phase, interned, disk, edits, signalled, topology, req>>
          /\ (LoadOk(disk.config) /\ Begin) \/ UNCHANGED task
      BY <1>3 DEF Receive
    <2>2. CASE LoadOk(disk.config) /\ Begin
      BY <2>1, <2>2, BeginIInv
    <2>3. CASE UNCHANGED task
      BY <1>0, <2>1, <2>3, QuietIInv
    <2> QED BY <2>1, <2>2, <2>3
  <1>4. ASSUME Edit PROVE IInv'
    <2>1. disk' \in Disk
      BY <1>0, <1>4 DEF Edit, Disk
    <2>2. edits' \in 0 .. MaxEdits /\ signalled' \in 0 .. edits'
      BY <1>0, <1>4, BoundAssumption DEF Edit
    <2> QED BY <1>0, <1>4, <2>1, <2>2, QuietIInv DEF Edit
  <1>5. ASSUME Sighup PROVE IInv'
    <2>1. signalled' \in 0 .. edits' /\ edits' = edits /\ disk' = disk
      BY <1>0, <1>5 DEF Sighup
    <2>2. signal' \in BOOLEAN /\ UNCHANGED <<phase, interned, task, topology, req>>
      BY <1>5 DEF Sighup
    <2> QED BY <1>0, <2>1, <2>2, QuietIInv
  <1>6. ASSUME Crash PROVE IInv'
    BY <1>6, GoneIInv DEF Crash
  <1>7. ASSUME FailToStart PROVE IInv'
    BY <1>1, <1>7 DEF FailToStart
  <1>8. ASSUME NEW r \in Request,
               \/ \E body \in Body : Dispatch(r, body) \/ RejectBody(r, body)
               \/ StartRound(r)
               \/ \E i \in DOMAIN req[r].nodes : Consult(r, i)
               \/ EndRound(r)
        PROVE  IInv'
    <2>1. ASSUME NEW body \in Body, RejectBody(r, body) PROVE IInv'
      BY <1>1, <2>1 DEF RejectBody
    <2> QED BY <1>8, <2>1, DispatchIInv, StartRoundIInv, ConsultIInv, EndRoundIInv
  <1>9. ASSUME ReloadTask PROVE IInv'
    BY <1>3, <1>9, BuildNodeIInv, PublishIInv DEF ReloadTask
  <1> QED BY <1>1, <1>2, <1>4, <1>5, <1>6, <1>7, <1>8, <1>9 DEF Next

\* The invariant holds for ever.
LEMMA Invariance == Spec => []IInv
  <1>1. Init => IInv
    BY InitIInv
  <1>2. IInv /\ [Next]_vars => IInv'
    BY NextIInv
  <1> QED BY <1>1, <1>2, PTL DEF Spec

-----------------------------------------------------------------------------
(* The theorems *)

\* The registry, the files, the task, the tables and the requests keep their
\* types.
THEOREM TypeCorrect == Spec => []TypeOK
  <1>1. IInv => TypeOK
    BY DEF IInv
  <1> QED BY <1>1, Invariance, PTL

\* CustomMethods and ProviderCostTable: a published node charges every method
\* what its price list says, in whatever order this and earlier reloads, failed
\* ones included, registered their names, and whatever hashes collide.
THEOREM ListsAreFollowed == Spec => []PricesFollowLists
  <1>1. IInv => PricesFollowLists
    <2> SUFFICES ASSUME IInv, NEW i \in DOMAIN topology.nodes, NEW m \in Method
                 PROVE  LET node == topology.nodes[i]
                            id == Resolve(interned, m)
                        IN  \/ Cost(node.table, id) = ListPrice(node.spec, m)
                            \/ ~Names(node.spec, m) /\ id \notin DOMAIN node.table
      BY DEF PricesFollowLists
    <2> DEFINE node == topology.nodes[i]
               id == Resolve(interned, m)
    <2>1. interned \in Seq(Method) /\ NoRepeat(interned) /\ Compiled(node, interned)
      BY DEF IInv, TypeOK, ServedCompiled
    <2>2. /\ OwnId(id, m, interned)
          /\ id = Unknown => m \notin Builtin /\ \A k \in DOMAIN interned : interned[k] # m
      BY <2>1, ResolveOwn
    <2> HIDE DEF node, id
    <2>3. CASE id # Unknown
      <3>1. \/ Cost(node.table, id) = ListPrice(node.spec, m)
            \/ ~Names(node.spec, m) /\ id \notin DOMAIN node.table
        BY <2>1, <2>2, <2>3, ChargesOwn
      <3> QED BY <3>1 DEF node, id
    <2>4. CASE id = Unknown
      <3>1. PICK n \in 0 .. Len(interned) : CompiledTo(node.table, node.spec, interned, n)
        BY <2>1 DEF Compiled
      <3>2. Unknown \in DOMAIN node.table /\ node.table[Unknown] = node.spec.unknown
        BY <2>1, <3>1, StandardIds DEF CompiledTo, Unknown
      <3>3. m \notin DOMAIN node.spec.custom
        BY <2>1, <2>2, <2>4, <3>1 DEF CompiledTo
      <3>4. ListPrice(node.spec, m) = node.spec.unknown
        BY <2>2, <2>4, <3>3 DEF ListPrice, Names
      <3>5. Cost(node.table, id) = ListPrice(node.spec, m)
        BY <2>4, <3>2, <3>4 DEF Cost
      <3> QED BY <3>5 DEF node, id
    <2> QED BY <2>3, <2>4
  <1> QED BY <1>1, Invariance, PTL

\* "a SIGHUP landing mid-request can add names but never renumber the one
\* already in hand": a request is charged for the method its body calls.
THEOREM ChargedRight == Spec => []ChargedForOwnMethod
  <1>1. IInv => ChargedForOwnMethod
    BY DEF IInv
  <1> QED BY <1>1, Invariance, PTL

\* "Nothing is published until the whole set builds": however far a failed
\* build_nodes got, the published nodes are all those of one accepted config.
THEOREM WholeOrNothing == Spec => []PublishedIsWhole
  <1>1. IInv => PublishedIsWhole
    BY DEF IInv
  <1> QED BY <1>1, Invariance, PTL

=============================================================================
