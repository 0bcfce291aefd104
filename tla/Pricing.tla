------------------------------ MODULE Pricing ------------------------------
(***************************************************************************)
(* What a method costs on a node, over reloads: the registry of method ids *)
(* (src/protocol/registry.rs), the cost tables compiled from the providers'*)
(* price lists (src/protocol/cost_table.rs, src/provider/), the rebuild of *)
(* the node set on SIGHUP (src/core/reload.rs, build_nodes) and requests   *)
(* that resolved an id before the tables they meet were built.             *)
(*                                                                         *)
(* The operator edits the files at any time, also between two reads of one *)
(* reload.  Slots and counters are in Topology.tla; which node of a set a  *)
(* request consults next is a choice here, and Router.tla's business.      *)
(***************************************************************************)
EXTENDS Integers, Sequences, FiniteSets

CONSTANTS Builtin, Other,   \* method names RpcMethod carries, and others
          StandardId,       \* discriminants of RpcMethod, by name
          Hash,             \* hash_name: need not be injective
          Path, Price,
          Unpriced,         \* u32::MAX
          File,             \* contents a price list may have
          Config,           \* contents the config file may have
          Start,            \* contents of the files at the first start
          Unreadable,       \* a file that is missing or does not parse
          NoLimits, Absent, \* no [limits] section, no unknown_method_cost
          Unlimited,        \* u64::MAX
          MaxNodes, Request,
          Body,             \* the request bodies clients send
          NoMethod,         \* no name, or one that is no plain string
          MaxEdits          \* bound on the operator's edits

Method == Builtin \union Other
Unknown == 0                          \* RpcMethod::Unknown
Count == Cardinality(Builtin) + 1     \* RpcMethod::Count

ASSUME MethodAssumption ==
    /\ IsFiniteSet(Method) /\ Builtin \intersect Other = {}
    /\ StandardId \in [Builtin -> 1 .. Count - 1]
    /\ \A m, n \in Builtin : StandardId[m] = StandardId[n] => m = n
    /\ Hash \in [Method -> Nat]
ASSUME PriceAssumption ==
    /\ Price \subseteq Nat /\ Unpriced \in Price
    /\ \A file \in File \ {Unreadable} :
          /\ DOMAIN file.routing \union DOMAIN file.custom \subseteq Method
          /\ \A m \in DOMAIN file.routing : file.routing[m] \in Price
          /\ \A m \in DOMAIN file.custom : file.custom[m] \in Price
          /\ file.limits # NoLimits => file.limits.unknown \in Price \union {Absent}
ASSUME BoundAssumption == {Unlimited, MaxNodes, MaxEdits} \subseteq Nat

\* An entry of the config file.  Its url is one without references, one with a
\* $VAR that is set, one with a reference that fails, or no url at all.
ConfigNode == [name : STRING, path : Path, url : {"plain", "set", "unset", "garbage"},
               rps : Nat, limit : Nat, resetDay : Nat]
ASSUME ConfigAssumption == Config \ {Unreadable} \subseteq Seq(ConfigNode)

Disk == [config : Config, prices : [Path -> File]]
ASSUME StartAssumption == Start \subseteq Disk

\* A body: its members in the order of the text, nested ones too, and whether
\* it is JSON to the end.  An object may name a member twice; its first member is
\* its own.
Member == [depth : Nat, key : STRING, value : Method \union {NoMethod}]
Calls(body) ==
    {i \in DOMAIN body.members :
        body.members[i].depth = 1 /\ body.members[i].key = "method"}
ASSUME BodyAssumption ==
    \A body \in Body :
        /\ body.object \in BOOLEAN /\ body.whole \in BOOLEAN
        /\ body.members \in Seq(Member)
        /\ body.object /\ body.members # <<>> => body.members[1].depth = 1

VARIABLES phase,      \* off, booting or serving
          interned,   \* CustomMethods: the names, in the order of their ids
          disk,       \* the config file and the price lists
          edits,      \* how often the operator has changed them
          signal,     \* is a SIGHUP waiting to be received?
          signalled,  \* history: edits made when the last SIGHUP was sent
          task,       \* main at start-up, later the reload task
          topology,   \* the published nodes, and the config they are from
          req         \* the requests

vars == <<phase, interned, disk, edits, signal, signalled, task, topology, req>>

Idle == [at |-> "idle", config |-> <<>>, next |-> 1, built |-> <<>>]
NoTopology == [config |-> <<>>, nodes |-> <<>>]
NoQuote == [cost |-> Unpriced, spec |-> Absent]
NoRequest == [at |-> "new", method |-> NoMethod, id |-> Unknown, nodes |-> <<>>,
              quote |-> NoQuote]

-----------------------------------------------------------------------------
(* CustomMethods *)

\* The ways to write down a set: a HashMap hands its keys out in any order.
Arrangements(S) ==
    {s \in [1 .. Cardinality(S) -> S] : \A i, j \in DOMAIN s : s[i] = s[j] => i = j}

Known(names) == {names[i] : i \in DOMAIN names}

\* register: what is not known yet is appended.
Register(names, new) == {names \o s : s \in Arrangements(new \ Known(names))}

\* Mutant: a matching hash is taken for the name.
LookupByHash(names, m) == {i \in DOMAIN names : Hash[names[i]] = Hash[m]}

\* lookup: the slots whose hash matches and whose name does.
Matches(names, m) ==
    {i \in DOMAIN names : Hash[names[i]] = Hash[m] /\ names[i] = m}

Lookup(names, m) ==
    IF Matches(names, m) = {} THEN Unknown
    ELSE Count - 1 + CHOOSE i \in Matches(names, m) :
                        \A j \in Matches(names, m) : i <= j

TableSize(names) == Count + Len(names)

GetStandardMethodId(m) == IF m \in Builtin THEN StandardId[m] ELSE Unknown

Resolve(names, m) ==
    IF GetStandardMethodId(m) # Unknown THEN GetStandardMethodId(m)
    ELSE Lookup(names, m)

-----------------------------------------------------------------------------
(* The price list of one provider *)

SpilloverPercent(file) ==
    IF file.limits = NoLimits THEN 95 ELSE file.limits.spillover

ParseOk(file) == file # Unreadable /\ SpilloverPercent(file) \in 1 .. 100

\* parse_file: the CostSpec, with what the [limits] section leaves out.
CostSpec(file) ==
    [routing |-> file.routing, custom |-> file.custom,
     unknown |-> IF file.limits = NoLimits \/ file.limits.unknown = Absent
                 THEN Unpriced ELSE file.limits.unknown]

\* The routing names that price the slot id: none prices the fallback's.
RoutingNames(spec, id) ==
    {m \in DOMAIN spec.routing : id # Unknown /\ GetStandardMethodId(m) = id}

CustomNames(spec, names, id) ==
    {m \in DOMAIN spec.custom : id # Unknown /\ Lookup(names, m) = id}

\* ProviderCostTable::new, after its custom names were registered.
CostTable(spec, names) ==
    [id \in 0 .. TableSize(names) - 1 |->
       CASE RoutingNames(spec, id) # {} ->
              spec.routing[CHOOSE m \in RoutingNames(spec, id) : TRUE]
         [] CustomNames(spec, names, id) # {} ->
              spec.custom[CHOOSE m \in CustomNames(spec, names, id) : TRUE]
         [] OTHER -> spec.unknown]

\* ProviderCostTable::cost: an id past the end is unpriced.
Cost(table, id) == IF id \in DOMAIN table THEN table[id] ELSE Unpriced

-----------------------------------------------------------------------------
(* The config file *)

\* resolve_env: a url without references, or with a $VAR that is set, becomes
\* the url itself; a ${VAR} or a $VAR that is not set fails.
Resolves(url) == url \in {"plain", "set", "garbage"}
ResolveEnv(url) == IF url = "set" THEN "plain" ELSE url

\* Settings::load: one bad node fails it as a whole.
LoadOk(config) ==
    /\ config # Unreadable
    /\ \A i \in DOMAIN config :
          Resolves(config[i].url) /\ config[i].resetDay \in 1 .. 31

\* ... and normalizes every node.
Load(config) ==
    [i \in DOMAIN config |->
       [config[i] EXCEPT !.url = ResolveEnv(@),
                         !.limit = IF @ = 0 THEN Unlimited ELSE @]]

\* RpcNode::new refuses a rate of zero and what does not parse as a url.
NodeOk(node) == node.rps > 0 /\ node.url = "plain"

\* RpcNode::new, with the spec the table is from as history.
NewNode(node, file, names) ==
    [name |-> node.name, path |-> node.path, resetDay |-> node.resetDay,
     threshold |-> (node.limit * SpilloverPercent(file)) \div 100,
     table |-> CostTable(CostSpec(file), names),
     spec |-> CostSpec(file)]

\* assign_ids refuses a set that is too large or names a node twice.
Accepts(config) ==
    /\ Len(config) <= MaxNodes
    /\ \A i, j \in DOMAIN config : config[i].name = config[j].name => i = j

-----------------------------------------------------------------------------

Init ==
    /\ phase = "off"
    /\ interned = <<>>
    /\ disk \in Start
    /\ edits = 0
    /\ signal = FALSE /\ signalled = 0
    /\ task = Idle
    /\ topology = NoTopology
    /\ req = [r \in Request |-> NoRequest]

\* The process ends: a failed start, a kill or a crash.
Gone ==
    /\ phase' = "off"
    /\ interned' = <<>>
    /\ signal' = FALSE
    /\ task' = Idle
    /\ topology' = NoTopology
    /\ req' = [r \in Request |-> NoRequest]

\* The task reads the config file and starts on its first node.
Begin ==
    task' = [at |-> "build", config |-> Load(disk.config), next |-> 1, built |-> <<>>]

\* main: a config that does not load ends the process before it has begun.
FailToStart == phase = "off" /\ ~LoadOk(disk.config) /\ UNCHANGED vars

Boot ==
    /\ phase = "off"
    /\ LoadOk(disk.config)
    /\ phase' = "booting"
    /\ Begin
    /\ UNCHANGED <<interned, disk, edits, signal, signalled, topology, req>>

\* watch_sighup receives a signal and reload_once loads the settings.
Receive ==
    /\ phase = "serving" /\ task.at = "idle" /\ signal
    /\ signal' = FALSE
    /\ \/ LoadOk(disk.config) /\ Begin
       \/ ~LoadOk(disk.config) /\ UNCHANGED task
    /\ UNCHANGED <<phase, interned, disk, edits, signalled, topology, req>>

Building == task.at = "build" /\ task.next <= Len(task.config)
Built == task.at = "build" /\ task.next > Len(task.config)
Current == task.config[task.next]

\* Mutant: a failed reload ends the task.
AbandonForGood(names) ==
    \/ phase = "booting" /\ Gone
    \/ /\ phase = "serving"
       /\ task' = [Idle EXCEPT !.at = "failed"]
       /\ interned' = names
       /\ UNCHANGED <<phase, signal, topology, req>>

\* build_nodes fails: main exits, a reload leaves alone what runs - but the names
\* registered so far stay registered.
Abandon(names) ==
    \/ phase = "booting" /\ Gone
    \/ /\ phase = "serving"
       /\ task' = Idle
       /\ interned' = names
       /\ UNCHANGED <<phase, signal, topology, req>>

\* Mutant: a node that cannot be built is left out.
BuildNodeOrSkip ==
    LET file == disk.prices[Current.path]
        skip == /\ task' = [task EXCEPT !.next = @ + 1]
                /\ UNCHANGED <<phase, signal, topology, req>>
    IN  /\ Building
        /\ \/ ~ParseOk(file) /\ skip /\ UNCHANGED interned
           \/ /\ ParseOk(file)
              /\ interned' \in Register(interned, DOMAIN file.custom)
              /\ \/ ~NodeOk(Current) /\ skip
                 \/ /\ NodeOk(Current)
                    /\ task' = [task EXCEPT
                          !.next = @ + 1,
                          !.built = Append(@, NewNode(Current, file, interned'))]
                    /\ UNCHANGED <<phase, signal, topology, req>>
        /\ UNCHANGED <<disk, edits, signalled>>

\* One node of build_nodes: its price list is read, the custom names in it are
\* registered, the table is compiled, and only then is the node validated.
BuildNode ==
    LET file == disk.prices[Current.path]
    IN  /\ Building
        /\ \/ ~ParseOk(file) /\ Abandon(interned)
           \/ /\ ParseOk(file)
              /\ \E names \in Register(interned, DOMAIN file.custom) :
                    \/ ~NodeOk(Current) /\ Abandon(names)
                    \/ /\ NodeOk(Current)
                       /\ interned' = names
                       /\ task' = [task EXCEPT
                             !.next = @ + 1,
                             !.built = Append(@, NewNode(Current, file, names))]
                       /\ UNCHANGED <<phase, signal, topology, req>>
        /\ UNCHANGED <<disk, edits, signalled>>

\* Mutant: a signal that came during the reload is taken for the one it serves.
PublishAndForget ==
    /\ Built
    /\ Accepts(task.config)
    /\ topology' = [config |-> task.config, nodes |-> task.built]
    /\ task' = Idle
    /\ phase' = "serving"
    /\ signal' = FALSE
    /\ UNCHANGED <<interned, req, disk, edits, signalled>>

\* RpcClient::new at start-up, RpcClient::reload later.
Publish ==
    /\ Built
    /\ \/ ~Accepts(task.config) /\ Abandon(interned)
       \/ /\ Accepts(task.config)
          /\ topology' = [config |-> task.config, nodes |-> task.built]
          /\ task' = Idle
          /\ phase' = "serving"
          /\ UNCHANGED <<interned, signal, req>>
    /\ UNCHANGED <<disk, edits, signalled>>

-----------------------------------------------------------------------------
(* Requests *)

\* scan_leading_method: the first member, if that is the method; what follows
\* it is not looked at.
ScanLeadingMethod(body) ==
    IF body.object /\ body.members # <<>> /\ body.members[1].key = "method"
    THEN body.members[1].value ELSE NoMethod

\* MethodExtractor: the method of an object that parses as a whole and names it
\* once; a field that comes twice is an error to serde.
FullParse(body) ==
    IF body.object /\ body.whole /\ \E i \in Calls(body) : Calls(body) = {i}
    THEN body.members[CHOOSE i \in Calls(body) : TRUE].value ELSE NoMethod

ExtractMethod(body) ==
    IF ScanLeadingMethod(body) # NoMethod THEN ScanLeadingMethod(body)
    ELSE FullParse(body)

\* History: the method a reader of the body comes to first.
Asked(body) ==
    IF Calls(body) = {} THEN NoMethod
    ELSE body.members[CHOOSE i \in Calls(body) : \A j \in Calls(body) : i <= j].value

\* A body without a method is answered as a parse error.
RejectBody(r, body) ==
    /\ phase = "serving" /\ req[r].at = "new"
    /\ ExtractMethod(body) = NoMethod
    /\ UNCHANGED vars

\* Mutant: a name nothing declares gets the next id instead of the fallback's.
DispatchPastEnd(r, body) ==
    /\ phase = "serving" /\ req[r].at = "new"
    /\ ExtractMethod(body) # NoMethod
    /\ LET id == Resolve(interned, ExtractMethod(body))
       IN  req' = [req EXCEPT ![r] = [NoRequest EXCEPT
                     !.at = "round", !.method = Asked(body),
                     !.id = IF id = Unknown THEN TableSize(interned) ELSE id]]
    /\ UNCHANGED <<phase, interned, disk, edits, signal, signalled, task, topology>>

\* dispatch: the id is resolved once.
Dispatch(r, body) ==
    /\ phase = "serving" /\ req[r].at = "new"
    /\ ExtractMethod(body) # NoMethod
    /\ req' = [req EXCEPT ![r] = [NoRequest EXCEPT
                 !.at = "round", !.method = Asked(body),
                 !.id = Resolve(interned, ExtractMethod(body))]]
    /\ UNCHANGED <<phase, interned, disk, edits, signal, signalled, task, topology>>

\* route: the published set is loaded once per round.
StartRound(r) ==
    /\ req[r].at = "round"
    /\ req' = [req EXCEPT ![r].at = "walk", ![r].nodes = topology.nodes]
    /\ UNCHANGED <<phase, interned, disk, edits, signal, signalled, task, topology>>

\* book on a node of the round's set: what it charges, if anything.
Consult(r, i) ==
    /\ req[r].at = "walk"
    /\ req' = [req EXCEPT ![r].quote =
                 [cost |-> Cost(req[r].nodes[i].table, req[r].id),
                  spec |-> req[r].nodes[i].spec]]
    /\ UNCHANGED <<phase, interned, disk, edits, signal, signalled, task, topology>>

\* The round ends and another begins, or the request is over.
EndRound(r) ==
    /\ req[r].at = "walk"
    /\ \/ req' = [req EXCEPT ![r].at = "round", ![r].nodes = <<>>, ![r].quote = NoQuote]
       \/ req' = [req EXCEPT ![r] = NoRequest]
    /\ UNCHANGED <<phase, interned, disk, edits, signal, signalled, task, topology>>

-----------------------------------------------------------------------------
(* The operator *)

Edit ==
    /\ edits < MaxEdits
    /\ \/ \E c \in Config : c # disk.config /\ disk' = [disk EXCEPT !.config = c]
       \/ \E p \in Path, f \in File :
             f # disk.prices[p] /\ disk' = [disk EXCEPT !.prices[p] = f]
    /\ edits' = edits + 1
    /\ UNCHANGED <<phase, interned, signal, signalled, task, topology, req>>

\* Signals that come before the last one was received are merged with it.
Sighup ==
    /\ phase = "serving"
    /\ signal' = TRUE
    /\ signalled' = edits
    /\ UNCHANGED <<phase, interned, disk, edits, task, topology, req>>

Crash == phase # "off" /\ Gone /\ UNCHANGED <<disk, edits, signalled>>

ReloadTask == Receive \/ BuildNode \/ Publish

Next ==
    \/ Boot \/ FailToStart \/ ReloadTask
    \/ \E r \in Request :
          \/ \E body \in Body : Dispatch(r, body) \/ RejectBody(r, body)
          \/ StartRound(r)
          \/ \E i \in DOMAIN req[r].nodes : Consult(r, i)
          \/ EndRound(r)
    \/ Edit \/ Sighup \/ Crash

Spec == Init /\ [][Next]_vars

\* The runtime polls the reload task, and file reads end.
FairSpec == Spec /\ WF_vars(ReloadTask)

-----------------------------------------------------------------------------
(* Properties *)

TypeOK ==
    /\ phase \in {"off", "booting", "serving"}
    /\ interned \in Seq(Method)
    /\ disk \in Disk
    /\ edits \in 0 .. MaxEdits /\ signalled \in 0 .. edits
    /\ signal \in BOOLEAN
    /\ task.at \in {"idle", "build"} /\ task.next \in Nat
    /\ \A i \in DOMAIN topology.nodes :
          \A id \in DOMAIN topology.nodes[i].table :
             topology.nodes[i].table[id] \in Price
    /\ \A r \in Request : req[r].at \in {"new", "round", "walk"} /\ req[r].id \in Nat

\* Does the price list name m in the section that counts for it?
Names(spec, m) ==
    IF m \in Builtin THEN m \in DOMAIN spec.routing ELSE m \in DOMAIN spec.custom

\* The price an operator reads off the list.
ListPrice(spec, m) ==
    CASE Names(spec, m) /\ m \in Builtin -> spec.routing[m]
      [] Names(spec, m) /\ m \notin Builtin -> spec.custom[m]
      [] OTHER -> spec.unknown

\* A published node charges for every method what its price list says, in
\* whatever order the lists of this and of earlier reloads, failed ones
\* included, registered their names: no typo moves the fallback, no collision
\* and no [custom] entry reprices another method.  The only gap is a method the
\* list does not name and a later list registered: unpriced, never mispriced.
PricesFollowLists ==
    \A i \in DOMAIN topology.nodes : \A m \in Method :
        LET node == topology.nodes[i]
            id == Resolve(interned, m)
        IN  \/ Cost(node.table, id) = ListPrice(node.spec, m)
            \/ ~Names(node.spec, m) /\ id \notin DOMAIN node.table

\* "a SIGHUP landing mid-request can add names but never renumber the one
\* already in hand" (router.rs:155): a request that meets tables of any later
\* reload is charged the price of the method its body calls, wherever in the
\* body that is and however it was found, or the fallback if nothing declared the
\* method when it arrived.  A body that calls two is charged for the first: the
\* scan takes it before serde can refuse it, and forwards it to an upstream that
\* may well run the second.
ChargedForOwnMethod ==
    \A r \in Request :
        LET quote == req[r].quote
        IN  quote.cost # Unpriced
              => \/ quote.cost = ListPrice(quote.spec, req[r].method)
                 \/ req[r].id = Unknown /\ quote.cost = quote.spec.unknown

\* "Nothing is published until the whole set builds" (load_config.rs:102): the
\* published nodes are all the nodes of one config, each valid, however far a
\* failed reload got and whatever was edited while it read the files.
PublishedIsWhole ==
    phase = "serving" =>
        /\ Len(topology.nodes) = Len(topology.config)
        /\ Accepts(topology.config)
        /\ \A i \in DOMAIN topology.nodes :
              /\ topology.nodes[i].name = topology.config[i].name
              /\ topology.nodes[i].resetDay \in 1 .. 31
              /\ NodeOk(topology.config[i])

\* Would a reload of the files as they are succeed?
Sound ==
    /\ LoadOk(disk.config)
    /\ Accepts(disk.config)
    /\ \A i \in DOMAIN disk.config :
          ParseOk(disk.prices[disk.config[i].path]) /\ NodeOk(Load(disk.config)[i])

Served ==
    /\ topology.config = Load(disk.config)
    /\ \A i \in DOMAIN topology.nodes :
          topology.nodes[i].spec = CostSpec(disk.prices[topology.nodes[i].path])

\* "editing a price list and sending SIGHUP has to be enough to apply it"
\* (load_config.rs:86): files that are sound and stay as they were when the
\* last signal was sent are served in the end, also when that signal came
\* while a reload of older files was running or about to fail.
LastEditServed ==
    (phase = "serving" /\ signalled = edits /\ Sound)
      ~> (Served \/ signalled # edits \/ phase # "serving")

\* "price for a method neither table names" (README.md:173): a node that sets
\* unknown_method_cost has a price for every method.
FallbackCoversUnnamed ==
    \A i \in DOMAIN topology.nodes : \A m \in Method :
        LET node == topology.nodes[i]
        IN  node.spec.unknown # Unpriced
              => Cost(node.table, Resolve(interned, m)) # Unpriced
=============================================================================
