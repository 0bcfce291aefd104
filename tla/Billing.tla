------------------------------- MODULE Billing -------------------------------
(***************************************************************************)
(* What the nodes have spent, over reloads, crashes and restarts           *)
(* (src/quotas/, src/main.rs, RpcClient::load_quotas): the counters, the   *)
(* billing period each of them belongs to, and quotas.json.  The flusher   *)
(* rolls periods over and writes the file every minute; main writes it     *)
(* once more after a graceful shutdown, while the flusher still runs.      *)
(*                                                                         *)
(* Time is the date of the wall clock, which may be set back.  Calendar.tla*)
(* has the date arithmetic, Topology.tla the steps of a reload (one step   *)
(* here) and Router.tla what decides whether a node books.                 *)
(***************************************************************************)
EXTENDS Integers

CONSTANTS Name,
          Slot, NoSlot, \* 0 .. MAX_NODES - 1, and none
          Config,      \* sets of names the config file may hold
          MaxDay,      \* bound on the date
          PeriodStart, \* PeriodStart[n][d], the period of n that d falls in
          NoPeriod, NoEntry,
          MaxUsage     \* bound on a counter

Day == 0 .. MaxDay

ASSUME NameAssumption == Config \subseteq SUBSET Name /\ Slot \subseteq Nat /\ NoSlot \notin Slot
ASSUME DayAssumption == MaxDay \in Nat /\ MaxUsage \in Nat /\ NoPeriod \notin Day
ASSUME PeriodAssumption ==
    /\ PeriodStart \in [Name -> [Day -> Day]]
    /\ \A n \in Name : \A d, e \in Day :
          /\ PeriodStart[n][d] <= d
          /\ d <= e => PeriodStart[n][d] <= PeriodStart[n][e]

VARIABLES today,    \* the date SystemTime::now() falls on
          phase,    \* down, serving, or exiting: no request is in flight
          slotOf,   \* the published nodes and their slots
          usage,    \* the counters, by slot
          periods,  \* the PeriodMap
          disk,     \* quotas.json
          tick,     \* the flusher: where it is, the set it loaded, its snapshot
          exit,     \* main's last flush, likewise
          credit,   \* history: by slot, the periods its spend was booked under
          torn      \* history: the slots whose spend a reload has parted from
                    \* its marker, inside a round of the flusher

memory == <<slotOf, usage, periods, tick, exit>>
history == <<credit, torn>>
vars == <<today, phase, memory, disk, history>>

\* An entry of the file, with the history of the counter it was read from.
Entry == [used : 0 .. MaxUsage, start : Day, credit : SUBSET Day, torn : BOOLEAN]
File == [Name -> Entry \union {NoEntry}]
Slots == [Name -> Slot \union {NoSlot}]

NoFile == [n \in Name |-> NoEntry]
NoNodes == [n \in Name |-> NoSlot]
Idle == [at |-> "idle", nodes |-> NoNodes, data |-> NoFile]

Nodes(slots) == {n \in Name : slots[n] # NoSlot}
Empty == [s \in Slot |-> 0]
NoCredit == [s \in Slot |-> {}]

\* The process is gone, and what it held in memory with it.
Gone ==
    /\ phase' = "down"
    /\ slotOf' = NoNodes
    /\ usage' = Empty
    /\ periods' = [n \in Name |-> NoPeriod]
    /\ tick' = Idle /\ exit' = Idle
    /\ credit' = NoCredit /\ torn' = {}

Init ==
    /\ today \in Day
    /\ phase = "down"
    /\ slotOf = NoNodes
    /\ usage = Empty
    /\ periods = [n \in Name |-> NoPeriod]
    /\ tick = Idle /\ exit = Idle
    /\ disk = NoFile
    /\ credit = NoCredit /\ torn = {}

-----------------------------------------------------------------------------
(* Rollover *)

\* Mutant: any other period is a new one.
TurnedEitherWay(n, marker) == marker # NoPeriod /\ PeriodStart[n][today] # marker

\* Has the period of n moved on from the one its counter is credited to?
Turned(n, marker) == marker # NoPeriod /\ PeriodStart[n][today] > marker

\* Mutant: the marker of a turned period is not moved.
MarkedAtFirstSight(slots, marks) ==
    [n \in Name |-> CASE n \notin Nodes(slots) -> NoPeriod
                      [] n \in Nodes(slots) /\ marks[n] = NoPeriod -> PeriodStart[n][today]
                      [] OTHER -> marks[n]]

\* The markers after a rollover over the nodes given: a turned or missing one
\* becomes the current period, and names that are not among them are pruned.
Marked(slots, marks) ==
    [n \in Name |-> CASE n \notin Nodes(slots) -> NoPeriod
                      [] n \in Nodes(slots) /\ (marks[n] = NoPeriod \/ Turned(n, marks[n]))
                           -> PeriodStart[n][today]
                      [] OTHER -> marks[n]]

\* The slots whose counter it zeroes.
Reset(slots, marks) == {slots[n] : n \in {m \in Nodes(slots) : Turned(m, marks[m])}}

-----------------------------------------------------------------------------
(* main, reload and the request path *)

\* The slots of a new set: names that stay keep theirs, and the arrivals get
\* the lowest free ones, in any order.
Assigned(config) ==
    {f \in Slots :
        /\ Nodes(f) = config
        /\ \A n \in config : slotOf[n] # NoSlot => f[n] = slotOf[n]
        /\ \A n, m \in config : f[n] = f[m] => n = m
        /\ \A n \in config : \A s \in Slot :
              slotOf[n] = NoSlot /\ s < f[n] => \E m \in config : f[m] = s}

\* Mutant: usage is seeded without the period it was counted in.
SeededMarks(config) == [n \in Name |-> NoPeriod]

\* load_quotas: the markers that go in with the counters.
RestoredMarks(config) ==
    [n \in Name |-> IF n \in config /\ disk[n] # NoEntry
                    THEN disk[n].start ELSE NoPeriod]

\* From restore to the first request: nothing else runs yet.
Start(config) ==
    /\ phase = "down"
    /\ \E f \in Assigned(config) :
          LET marks == RestoredMarks(config)
              seeded(s) == {n \in config : f[n] = s /\ disk[n] # NoEntry}
              kept(s) == IF s \in Reset(f, marks) THEN {} ELSE seeded(s)
              entry(s) == disk[CHOOSE n \in kept(s) : TRUE]
          IN  /\ slotOf' = f
              /\ periods' = Marked(f, marks)
              /\ usage' = [s \in Slot |-> IF kept(s) = {} THEN 0 ELSE entry(s).used]
              /\ credit' = [s \in Slot |-> IF kept(s) = {} THEN {} ELSE entry(s).credit]
              /\ torn' = {s \in Slot : kept(s) # {} /\ entry(s).torn}
    /\ phase' = "serving"
    /\ UNCHANGED <<today, disk, tick, exit>>

\* A request on n is billed, to the period of n's marker if it has one.
Book(n) ==
    LET s == slotOf[n]
    IN  /\ phase = "serving"
        /\ s # NoSlot
        /\ usage[s] < MaxUsage
        /\ usage' = [usage EXCEPT ![s] = @ + 1]
        /\ credit' = [credit EXCEPT ![s] = @ \union ({periods[n]} \ {NoPeriod})]
        /\ UNCHANGED <<today, phase, slotOf, periods, disk, tick, exit, torn>>

\* RpcClient::reload: arrivals start from zero, the markers are left alone.
Reload(config) ==
    /\ phase # "down"
    /\ config # Nodes(slotOf)
    /\ \E f \in Assigned(config) :
          LET zeroed == {f[n] : n \in config \ Nodes(slotOf)}
          IN  /\ slotOf' = f
              /\ usage' = [s \in Slot |-> IF s \in zeroed THEN 0 ELSE usage[s]]
              /\ credit' = [s \in Slot |-> IF s \in zeroed THEN {} ELSE credit[s]]
              /\ torn' = torn \ zeroed
    /\ UNCHANGED <<today, phase, periods, disk, tick, exit>>

\* SIGINT or SIGTERM: the server drains its requests and returns to main.
Shutdown ==
    /\ phase = "serving"
    /\ phase' = "exiting"
    /\ UNCHANGED <<today, memory, disk, history>>

\* Killed, or out of power.  The rename is atomic, so a write under way has
\* either reached the file or not.
Crash == phase # "down" /\ Gone /\ UNCHANGED <<today, disk>>

-----------------------------------------------------------------------------
(* The flusher, and the last flush *)

TickLoad ==
    /\ phase # "down" /\ tick.at = "idle"
    /\ tick' = [tick EXCEPT !.at = "rolling", !.nodes = slotOf]
    /\ UNCHANGED <<today, phase, slotOf, usage, periods, disk, exit, history>>

\* rollover_if_new_period over the set loaded before, under the period lock.  A
\* node seen for the first time adopts the current period with whatever it has
\* spent.  A node that a reload has moved, or brought back, since the set was
\* loaded is parted from its marker when that moves on or is pruned: it is
\* another counter that was zeroed, or none.
TickRollOver ==
    /\ phase # "down" /\ tick.at = "rolling"
    /\ LET zeroed == Reset(tick.nodes, periods)
           parted == {n \in Nodes(slotOf) : /\ tick.nodes[n] # slotOf[n]
                                            /\ periods'[n] # periods[n]}
       IN  /\ periods' = Marked(tick.nodes, periods)
           /\ usage' = [s \in Slot |-> IF s \in zeroed THEN 0 ELSE usage[s]]
           /\ credit' = [s \in Slot |-> IF s \in zeroed THEN {} ELSE credit[s]]
           /\ torn' = (torn \union {slotOf[n] : n \in parted}) \ zeroed
    /\ tick' = [tick EXCEPT !.at = "rolled", !.nodes = NoNodes]
    /\ UNCHANGED <<today, phase, slotOf, disk, exit>>

\* Mutant: a node with no period is written all the same.
SnapshotAll(slots) ==
    [n \in Name |-> IF n \in Nodes(slots)
                    THEN [used |-> usage[slots[n]], start |-> periods[n],
                          credit |-> credit[slots[n]], torn |-> FALSE]
                    ELSE NoEntry]

\* persistence::snapshot: a node with no period yet is skipped.  A counter that
\* is not the node's any more is another one's spend under its name.
Snapshot(slots) ==
    [n \in Name |-> IF n \in Nodes(slots) /\ periods[n] # NoPeriod
                    THEN [used |-> usage[slots[n]], start |-> periods[n],
                          credit |-> credit[slots[n]],
                          torn |-> slots[n] \in torn \/ slotOf[n] # slots[n]]
                    ELSE NoEntry]

\* The steps of flush_usage from the record w of a writer to the record v: the
\* set is loaded, the snapshot taken, and the file replaced or the write failed.
Load(w, v) == v = [w EXCEPT !.at = "loaded", !.nodes = slotOf]

Read(w, v) ==
    /\ w.at = "loaded"
    /\ v = [at |-> "read", nodes |-> NoNodes, data |-> Snapshot(w.nodes)]

\* A write may also fail after the rename, when the directory is synced.
Written(w) == w.at = "read" /\ disk' = w.data
Failed(w) == w.at = "read" /\ UNCHANGED disk

TickFlush ==
    /\ phase # "down"
    /\ \/ tick.at = "rolled" /\ Load(tick, tick') /\ UNCHANGED disk
       \/ Read(tick, tick') /\ UNCHANGED disk
       \/ (Written(tick) \/ Failed(tick)) /\ tick' = Idle
    /\ UNCHANGED <<today, phase, slotOf, usage, periods, exit, history>>

ExitFlush ==
    /\ phase = "exiting"
    /\ \/ exit.at = "idle" /\ Load(exit, exit') /\ UNCHANGED disk
       \/ Read(exit, exit') /\ UNCHANGED disk
       \/ Written(exit) /\ exit' = [Idle EXCEPT !.at = "written"]
       \/ (Failed(exit) \/ Written(exit)) /\ exit' = [Idle EXCEPT !.at = "failed"]
    /\ UNCHANGED <<today, phase, slotOf, usage, periods, tick, history>>

\* main returns.  The runtime drops the flusher where it awaits, or after the
\* rename its blocking pool has already begun.
Exit ==
    /\ phase = "exiting" /\ exit.at \in {"written", "failed"}
    /\ Written(tick) \/ UNCHANGED disk
    /\ Gone
    /\ UNCHANGED today

\* Days pass, and a clock may be wrong and be set back.
DayPasses == today < MaxDay /\ today' = today + 1 /\ UNCHANGED <<phase, memory, disk, history>>
SetBack == today > 0 /\ today' = today - 1 /\ UNCHANGED <<phase, memory, disk, history>>

Flusher == TickLoad \/ TickRollOver \/ TickFlush

Next ==
    \/ \E config \in Config : Start(config) \/ Reload(config)
    \/ \E n \in Name : Book(n)
    \/ Flusher
    \/ Shutdown \/ ExitFlush \/ Exit \/ Crash
    \/ DayPasses \/ SetBack

Spec == Init /\ [][Next]_vars

\* The interval timer keeps firing and a flush ends, well or not.
FairSpec == Spec /\ WF_vars(Flusher)

-----------------------------------------------------------------------------
(* Properties *)

Writer == [at : {"idle", "rolling", "rolled", "loaded", "read", "written", "failed"},
           nodes : Slots, data : File]

TypeOK ==
    /\ today \in Day
    /\ phase \in {"down", "serving", "exiting"}
    /\ slotOf \in Slots
    /\ usage \in [Slot -> 0 .. MaxUsage]
    /\ periods \in [Name -> Day \union {NoPeriod}]
    /\ disk \in File
    /\ tick \in Writer /\ exit \in Writer
    /\ credit \in [Slot -> SUBSET Day] /\ torn \subseteq Slot

\* "the marker moves together with the counter" (period.rs:87): no spend that
\* was booked under one marker is ever held against a node under another, and a
\* node without a marker has none from under an old one - whether the period
\* turned while the process ran, while it was down, or between a crash and the
\* flush that would have recorded the reset, and whichever way the clock was set.
\* What a node spends before its first rollover was booked under no marker: the
\* period that rollover finds takes it (period.rs:133), be it yesterday's spend.
\* The exceptions are the spend that a reload parted from its marker between the
\* flusher's load of the node set and its use of it, and what a flush overtaken in
\* that way read from a slot that had changed hands.
CountersOfOnePeriod ==
    \A n \in Nodes(slotOf) :
        slotOf[n] \notin torn => credit[slotOf[n]] \subseteq {periods[n]}

\* The rollover under way has n's counter under another name.
Overtaken(n) == \E m \in Name \ {n} : tick.nodes[m] = slotOf[n]

\* "a clock that went backwards must not reset a month that was already spent"
\* (period.rs:114): what a node has spent is dropped, while the process runs or
\* when it boots from the file, only on a date past the period of its marker and
\* past every period it was booked under, however the clock was set between the
\* bookings, the flush, the crash and the boot.  Excepted as above: a counter a
\* rollover zeroes for the name that had it before the last reload.
SpentMonthKept ==
    [][\A n \in Nodes(slotOf') :
          /\ phase = "down" /\ disk[n] # NoEntry /\ ~disk[n].torn
               => \/ usage'[slotOf'[n]] >= disk[n].used
                  \/ \A p \in disk[n].credit \union {disk[n].start} :
                        PeriodStart[n][today] > p
          /\ slotOf[n] = slotOf'[n] /\ slotOf[n] \notin torn /\ ~Overtaken(n)
               => \/ usage'[slotOf'[n]] >= usage[slotOf[n]]
                  \/ /\ periods[n] # NoPeriod
                     /\ \A p \in credit[slotOf[n]] \union {periods[n]} :
                           PeriodStart[n][today] > p]_vars

\* A process that stays up notices the turn of a period on its own, however
\* the flusher's round falls between reloads and requests.
TurnNoticed ==
    \A n \in Name :
        (phase = "serving" /\ slotOf[n] # NoSlot /\ Turned(n, periods[n]))
          ~> (phase # "serving" \/ slotOf[n] = NoSlot \/ ~Turned(n, periods[n]))

\* "Every caller rolls over first, so the gap closes on the next tick"
\* (persistence.rs:77): a graceful exit whose last flush succeeded leaves every
\* node's spend in the file.
ExitKeepsSpend ==
    [][phase = "exiting" /\ phase' = "down" /\ exit.at = "written"
         => \A n \in Nodes(slotOf) :
               usage[slotOf[n]] > 0
                 => disk'[n] # NoEntry /\ disk'[n].used = usage[slotOf[n]]]_vars
=============================================================================
