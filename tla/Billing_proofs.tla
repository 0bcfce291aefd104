--------------------------- MODULE Billing_proofs ---------------------------
(***************************************************************************)
(* Proofs about Billing for any names, slots, configs and calendar.  That  *)
(* a counter holds the spend of one period needs to be known of what is on *)
(* its way to memory too: of the snapshots of the two writers and of the   *)
(* file.  The inductive invariant says it of all of them.                  *)
(***************************************************************************)
EXTENDS Billing, TLAPS

\* No two nodes share a slot.
OwnSlots == \A n, m \in Nodes(slotOf) : slotOf[n] = slotOf[m] => n = m

\* A process that is down holds nothing.
DownIsEmpty ==
    phase = "down" => slotOf = NoNodes /\ tick = Idle /\ exit = Idle

\* The entries of a file hold spend of the period they name.
FileOfOnePeriod(data) ==
    \A n \in Name : data[n] # NoEntry /\ ~data[n].torn
                      => data[n].credit \subseteq {data[n].start}

FilesOfOnePeriod ==
    FileOfOnePeriod(disk) /\ FileOfOnePeriod(tick.data) /\ FileOfOnePeriod(exit.data)

\* The inductive invariant.
IInv == TypeOK /\ OwnSlots /\ DownIsEmpty /\ CountersOfOnePeriod /\ FilesOfOnePeriod

-----------------------------------------------------------------------------
(* The operators *)

\* The records and functions a fresh process starts from.
LEMMA EmptyTyped ==
    /\ NoFile \in File /\ NoNodes \in Slots /\ Nodes(NoNodes) = {}
    /\ Idle \in Writer /\ Idle.at = "idle" /\ Idle.nodes = NoNodes /\ Idle.data = NoFile
    /\ Empty \in [Slot -> 0 .. MaxUsage]
    /\ NoCredit \in [Slot -> SUBSET Day] /\ FileOfOnePeriod(NoFile)
  <1>1. NoFile \in File /\ NoNodes \in Slots /\ Nodes(NoNodes) = {}
    BY DEF NoFile, File, NoNodes, Slots, Nodes
  <1>2. Empty \in [Slot -> 0 .. MaxUsage] /\ NoCredit \in [Slot -> SUBSET Day]
    BY DayAssumption DEF Empty, NoCredit
  <1>3. FileOfOnePeriod(NoFile)
    BY DEF FileOfOnePeriod, NoFile
  <1> QED BY <1>1, <1>2, <1>3 DEF Idle, Writer

\* rollover_if_new_period moves a marker forward only, and forgets the names
\* that are not in the set it is given.
LEMMA MarkedForward ==
    ASSUME NEW slots \in Slots, NEW marks \in [Name -> Day \union {NoPeriod}], today \in Day
    PROVE  /\ Marked(slots, marks) \in [Name -> Day \union {NoPeriod}]
           /\ \A n \in Name :
                 /\ n \notin Nodes(slots) <=> Marked(slots, marks)[n] = NoPeriod
                 /\ n \in Nodes(slots) /\ marks[n] # NoPeriod
                      => Marked(slots, marks)[n] >= marks[n]
                 /\ n \in Nodes(slots) /\ marks[n] # NoPeriod /\ ~Turned(n, marks[n])
                      => Marked(slots, marks)[n] = marks[n]
  <1> SUFFICES ASSUME NEW n \in Name
               PROVE  LET v == Marked(slots, marks)[n] IN
                      /\ v \in Day \union {NoPeriod}
                      /\ n \notin Nodes(slots) <=> v = NoPeriod
                      /\ n \in Nodes(slots) /\ marks[n] # NoPeriod => v >= marks[n]
                      /\ n \in Nodes(slots) /\ marks[n] # NoPeriod /\ ~Turned(n, marks[n])
                           => v = marks[n]
    BY DEF Marked
  <1> DEFINE v == Marked(slots, marks)[n]
  <1>1. PeriodStart[n][today] \in Day /\ PeriodStart[n][today] \in Nat
    <2>1. PeriodStart[n] \in [Day -> Day]
      BY PeriodAssumption
    <2>2. PeriodStart[n][today] \in Day
      BY <2>1
    <2> QED BY <2>2 DEF Day
  <1>2. marks[n] # NoPeriod => marks[n] \in Day /\ marks[n] \in Nat
    BY DEF Day
  <1>3. CASE n \notin Nodes(slots)
    BY <1>3 DEF Marked
  <1>4. CASE n \in Nodes(slots) /\ (marks[n] = NoPeriod \/ Turned(n, marks[n]))
    <2>1. v = PeriodStart[n][today]
      BY <1>4 DEF Marked
    <2> QED BY <1>1, <1>2, <1>4, <2>1, DayAssumption DEF Turned
  <1>5. CASE n \in Nodes(slots) /\ ~(marks[n] = NoPeriod \/ Turned(n, marks[n]))
    <2>1. v = marks[n]
      BY <1>5 DEF Marked
    <2> QED BY <1>2, <1>5, <2>1, DayAssumption
  <1> QED BY <1>3, <1>4, <1>5

\* assign_ids as Billing abstracts it: survivors stay, nobody shares.
LEMMA AssignedSlots ==
    ASSUME NEW config \in Config, NEW f \in Assigned(config)
    PROVE  /\ f \in Slots /\ Nodes(f) = config /\ config \subseteq Name
           /\ \A n \in config : f[n] \in Slot
           /\ \A n \in config : slotOf[n] # NoSlot => f[n] = slotOf[n]
           /\ \A n, m \in config : f[n] = f[m] => n = m
  BY NameAssumption DEF Assigned, Nodes, Slots

\* persistence::snapshot writes well-formed entries of one period each.
LEMMA SnapshotEntries ==
    ASSUME TypeOK, CountersOfOnePeriod, NEW slots \in Slots
    PROVE  Snapshot(slots) \in File /\ FileOfOnePeriod(Snapshot(slots))
  <1>1. Snapshot(slots) \in File
    BY DEF TypeOK, Snapshot, File, Entry, Nodes, Slots
  <1>2. FileOfOnePeriod(Snapshot(slots))
    <2> SUFFICES ASSUME NEW n \in Name, Snapshot(slots)[n] # NoEntry,
                        ~Snapshot(slots)[n].torn
                 PROVE  Snapshot(slots)[n].credit \subseteq {Snapshot(slots)[n].start}
      BY DEF FileOfOnePeriod
    <2>1. /\ n \in Nodes(slots)
          /\ Snapshot(slots)[n].credit = credit[slots[n]]
          /\ Snapshot(slots)[n].start = periods[n]
          /\ slots[n] \notin torn /\ slotOf[n] = slots[n]
      BY DEF Snapshot
    <2>2. n \in Nodes(slotOf)
      BY <2>1 DEF Nodes
    <2> QED BY <2>1, <2>2 DEF CountersOfOnePeriod
  <1> QED BY <1>1, <1>2

-----------------------------------------------------------------------------
(* The steps *)

\* A step that empties the memory.
LEMMA GoneIInv ==
    ASSUME IInv, Gone, today' = today, disk' \in File, FileOfOnePeriod(disk')
    PROVE  IInv'
  <1>1. TypeOK'
    BY EmptyTyped DEF IInv, TypeOK, Gone
  <1>2. DownIsEmpty' /\ OwnSlots' /\ CountersOfOnePeriod'
    BY EmptyTyped DEF Gone, DownIsEmpty, OwnSlots, CountersOfOnePeriod
  <1>3. FilesOfOnePeriod'
    BY EmptyTyped DEF Gone, FilesOfOnePeriod, FileOfOnePeriod
  <1> QED BY <1>1, <1>2, <1>3 DEF IInv

\* The first start finds nothing in memory and no file.
LEMMA InitIInv ==
    ASSUME Init
    PROVE  IInv
  <1>1. TypeOK
    BY EmptyTyped DEF TypeOK, Init
  <1>2. DownIsEmpty /\ OwnSlots /\ CountersOfOnePeriod /\ FilesOfOnePeriod
    BY EmptyTyped DEF Init, DownIsEmpty, OwnSlots, CountersOfOnePeriod, FilesOfOnePeriod
  <1> QED BY <1>1, <1>2 DEF IInv

\* What restore, load_quotas and the first rollover make of a node's entry: the
\* counter and its history are those of the file, or the period has turned.
LEMMA StartRestores ==
    ASSUME IInv, NEW config \in Config, Start(config)
    PROVE  /\ phase' = "serving" /\ UNCHANGED <<today, disk, tick, exit>>
           /\ slotOf' \in Assigned(config)
           /\ periods' = Marked(slotOf', RestoredMarks(config))
           /\ usage' \in [Slot -> 0 .. MaxUsage] /\ credit' \in [Slot -> SUBSET Day]
           /\ torn' \subseteq Slot
           /\ \A n \in config :
                 LET s == slotOf'[n]
                     kept == /\ disk[n] # NoEntry
                             /\ ~Turned(n, disk[n].start)
                 IN  /\ kept => /\ usage'[s] = disk[n].used
                                /\ credit'[s] = disk[n].credit
                                /\ s \in torn' <=> disk[n].torn
                     /\ ~kept => usage'[s] = 0 /\ credit'[s] = {}
  <1> DEFINE marks == RestoredMarks(config)
             seeded(f, s) == {n \in config : f[n] = s /\ disk[n] # NoEntry}
             kept(f, s) == IF s \in Reset(f, marks) THEN {} ELSE seeded(f, s)
             entry(f, s) == disk[CHOOSE n \in kept(f, s) : TRUE]
  <1>1. PICK f \in Assigned(config) :
          /\ slotOf' = f
          /\ periods' = Marked(f, marks)
          /\ usage' = [s \in Slot |-> IF kept(f, s) = {} THEN 0 ELSE entry(f, s).used]
          /\ credit' = [s \in Slot |-> IF kept(f, s) = {} THEN {} ELSE entry(f, s).credit]
          /\ torn' = {s \in Slot : kept(f, s) # {} /\ entry(f, s).torn}
    BY DEF Start
  <1>2. phase' = "serving" /\ UNCHANGED <<today, disk, tick, exit>>
    BY DEF Start
  <1>3. /\ f \in Slots /\ Nodes(f) = config /\ config \subseteq Name
        /\ \A n \in config : f[n] \in Slot
        /\ \A n, m \in config : f[n] = f[m] => n = m
    BY AssignedSlots
  <1>4. disk \in File
    BY DEF IInv, TypeOK
  <1>5. \A n \in config : marks[n] = IF disk[n] # NoEntry THEN disk[n].start ELSE NoPeriod
    BY <1>3 DEF RestoredMarks
  <1>6. \A n \in config : f[n] \in Reset(f, marks) <=> Turned(n, marks[n])
    BY <1>3 DEF Reset
  <1> HIDE DEF marks
  <1>7. \A s \in Slot : kept(f, s) # {} => entry(f, s) \in Entry
    <2> SUFFICES ASSUME NEW s \in Slot, kept(f, s) # {} PROVE entry(f, s) \in Entry
      OBVIOUS
    <2> DEFINE K == kept(f, s)
    <2>1. \A n \in K : disk[n] \in Entry
      BY <1>3, <1>4 DEF File
    <2> HIDE DEF K
    <2>2. disk[CHOOSE n \in K : TRUE] \in Entry
      BY <2>1 DEF K
    <2> QED BY <2>2 DEF K
  <1>8. ASSUME NEW n \in config, disk[n] # NoEntry, ~Turned(n, disk[n].start)
        PROVE  /\ usage'[f[n]] = disk[n].used
               /\ credit'[f[n]] = disk[n].credit
               /\ f[n] \in torn' <=> disk[n].torn
    <2>1. f[n] \in Slot /\ kept(f, f[n]) = {n}
      BY <1>3, <1>5, <1>6, <1>8
    <2>2. entry(f, f[n]) = disk[n]
      BY <2>1
    <2> HIDE DEF kept, entry
    <2> QED BY <1>1, <2>1, <2>2
  <1>9. ASSUME NEW n \in config, ~(disk[n] # NoEntry /\ ~Turned(n, disk[n].start))
        PROVE  usage'[f[n]] = 0 /\ credit'[f[n]] = {}
    <2>1. f[n] \in Slot /\ kept(f, f[n]) = {}
      BY <1>3, <1>5, <1>6, <1>9
    <2> HIDE DEF kept, entry
    <2> QED BY <1>1, <2>1
  <1> HIDE DEF kept, entry
  <1>10. usage' \in [Slot -> 0 .. MaxUsage]
    BY <1>1, <1>7, DayAssumption DEF Entry
  <1>11. credit' \in [Slot -> SUBSET Day] /\ torn' \subseteq Slot
    BY <1>1, <1>7 DEF Entry
  <1> QED BY <1>1, <1>2, <1>8, <1>9, <1>10, <1>11 DEF marks

\* restore, load_quotas and the first rollover.
LEMMA StartIInv ==
    ASSUME IInv, NEW config \in Config, Start(config)
    PROVE  IInv'
  <1> DEFINE f == slotOf'
             marks == RestoredMarks(config)
  <1>1. /\ f \in Slots /\ Nodes(f) = config /\ config \subseteq Name
        /\ \A n \in config : f[n] \in Slot
        /\ \A n, m \in config : f[n] = f[m] => n = m
    BY StartRestores, AssignedSlots
  <1>2. /\ phase' = "serving" /\ UNCHANGED <<today, disk, tick, exit>>
        /\ periods' = Marked(f, marks)
        /\ usage' \in [Slot -> 0 .. MaxUsage] /\ credit' \in [Slot -> SUBSET Day]
        /\ torn' \subseteq Slot
    BY StartRestores
  <1>3. today \in Day /\ disk \in File
    BY DEF IInv, TypeOK
  <1>4. marks \in [Name -> Day \union {NoPeriod}]
    BY <1>3 DEF RestoredMarks, File, Entry
  <1>5. \A n \in config : marks[n] = IF disk[n] # NoEntry THEN disk[n].start ELSE NoPeriod
    BY <1>1 DEF RestoredMarks
  <1> HIDE DEF f, marks
  <1>6. TypeOK'
    BY <1>1, <1>2, <1>3, <1>4, MarkedForward DEF IInv, TypeOK, f
  <1>7. OwnSlots' /\ DownIsEmpty' /\ FilesOfOnePeriod'
    BY <1>1, <1>2 DEF OwnSlots, DownIsEmpty, FilesOfOnePeriod, FileOfOnePeriod, IInv, f
  <1>8. ASSUME NEW n \in config, f[n] \notin torn' PROVE credit'[f[n]] \subseteq {periods'[n]}
    <2>1. CASE disk[n] # NoEntry /\ ~Turned(n, disk[n].start)
      <3>1. credit'[f[n]] = disk[n].credit /\ ~disk[n].torn
        BY <1>8, <2>1, StartRestores DEF f
      <3>2. disk[n].credit \subseteq {disk[n].start}
        BY <1>1, <2>1, <3>1 DEF IInv, FilesOfOnePeriod, FileOfOnePeriod
      <3>3. disk[n].start \in Day /\ disk[n].start # NoPeriod /\ marks[n] = disk[n].start
        BY <1>1, <1>3, <1>5, <2>1, DayAssumption DEF File, Entry
      <3>4. periods'[n] = disk[n].start
        BY <1>1, <1>2, <1>3, <1>4, <2>1, <3>3, MarkedForward
      <3> QED BY <3>1, <3>2, <3>4
    <2>2. CASE ~(disk[n] # NoEntry /\ ~Turned(n, disk[n].start))
      BY <2>2, StartRestores DEF f
    <2> QED BY <2>1, <2>2
  <1>9. CountersOfOnePeriod'
    BY <1>1, <1>8 DEF CountersOfOnePeriod, f
  <1> QED BY <1>6, <1>7, <1>9 DEF IInv

\* A request is billed to the period of its node's marker.
LEMMA BookIInv ==
    ASSUME IInv, NEW n \in Name, Book(n)
    PROVE  IInv'
  <1> DEFINE s == slotOf[n]
             C == {periods[n]} \ {NoPeriod}
  <1>1. /\ phase = "serving" /\ s # NoSlot /\ usage[s] < MaxUsage
        /\ usage' = [usage EXCEPT ![s] = @ + 1]
        /\ credit' = [credit EXCEPT ![s] = @ \union C]
        /\ UNCHANGED <<today, phase, slotOf, periods, disk, tick, exit, torn>>
    BY DEF Book
  <1>2. s \in Slot /\ n \in Nodes(slotOf)
    BY <1>1 DEF IInv, TypeOK, Slots, Nodes
  <1>3. C \subseteq Day /\ C \subseteq {periods[n]}
    BY DEF IInv, TypeOK
  <1> HIDE DEF s, C
  <1>5. usage' \in [Slot -> 0 .. MaxUsage] /\ credit' \in [Slot -> SUBSET Day]
    <2>1. usage[s] + 1 \in 0 .. MaxUsage
      BY <1>1, <1>2, DayAssumption DEF IInv, TypeOK
    <2>2. credit[s] \union C \in SUBSET Day
      BY <1>2, <1>3 DEF IInv, TypeOK
    <2> QED BY <1>1, <1>2, <2>1, <2>2 DEF IInv, TypeOK
  <1>6. TypeOK' /\ OwnSlots' /\ DownIsEmpty' /\ FilesOfOnePeriod'
    BY <1>1, <1>5 DEF IInv, TypeOK, OwnSlots, DownIsEmpty, FilesOfOnePeriod, FileOfOnePeriod
  <1>7. CountersOfOnePeriod'
    <2> SUFFICES ASSUME NEW m \in Nodes(slotOf), slotOf[m] \notin torn
                 PROVE  credit'[slotOf[m]] \subseteq {periods[m]}
      BY <1>1 DEF CountersOfOnePeriod
    <2>1. slotOf[m] \in Slot /\ credit[slotOf[m]] \subseteq {periods[m]}
      BY DEF IInv, TypeOK, Slots, Nodes, CountersOfOnePeriod
    <2>2. CASE m = n
      <3>1. credit'[s] = credit[s] \union C
        BY <1>1, <1>2 DEF IInv, TypeOK
      <3> QED BY <1>3, <2>1, <2>2, <3>1 DEF s
    <2>3. CASE m # n
      <3>1. slotOf[m] # s
        BY <1>2, <2>3 DEF IInv, OwnSlots, s
      <3>2. credit'[slotOf[m]] = credit[slotOf[m]]
        BY <1>1, <2>1, <3>1 DEF IInv, TypeOK
      <3> QED BY <2>1, <3>2
    <2> QED BY <2>2, <2>3
  <1> QED BY <1>6, <1>7 DEF IInv

\* A reload: an arrival starts from zero, and a survivor keeps what it has.
LEMMA ReloadIInv ==
    ASSUME IInv, NEW config \in Config, Reload(config)
    PROVE  IInv'
  <1> DEFINE zeroed(f) == {f[n] : n \in config \ Nodes(slotOf)}
  <1>1. PICK f \in Assigned(config) :
          /\ slotOf' = f
          /\ usage' = [s \in Slot |-> IF s \in zeroed(f) THEN 0 ELSE usage[s]]
          /\ credit' = [s \in Slot |-> IF s \in zeroed(f) THEN {} ELSE credit[s]]
          /\ torn' = torn \ zeroed(f)
    BY DEF Reload
  <1>2. phase # "down" /\ UNCHANGED <<today, phase, periods, disk, tick, exit>>
    BY DEF Reload
  <1>3. /\ f \in Slots /\ Nodes(f) = config /\ config \subseteq Name
        /\ \A n \in config : f[n] \in Slot
        /\ \A n \in config : slotOf[n] # NoSlot => f[n] = slotOf[n]
        /\ \A n, m \in config : f[n] = f[m] => n = m
    BY AssignedSlots
  <1>4. \A n \in config : f[n] \in zeroed(f) <=> n \notin Nodes(slotOf)
    BY <1>3
  <1> HIDE DEF zeroed
  <1>5. TypeOK'
    <2>1. usage' \in [Slot -> 0 .. MaxUsage]
      BY <1>1, DayAssumption DEF IInv, TypeOK
    <2>2. credit' \in [Slot -> SUBSET Day] /\ torn' \subseteq Slot
      BY <1>1 DEF IInv, TypeOK
    <2> QED BY <1>1, <1>2, <1>3, <2>1, <2>2 DEF IInv, TypeOK
  <1>6. OwnSlots' /\ DownIsEmpty' /\ FilesOfOnePeriod'
    BY <1>1, <1>2, <1>3 DEF IInv, OwnSlots, DownIsEmpty, FilesOfOnePeriod, FileOfOnePeriod
  <1>7. CountersOfOnePeriod'
    <2> SUFFICES ASSUME NEW n \in config, f[n] \notin torn'
                 PROVE  credit'[f[n]] \subseteq {periods[n]}
      BY <1>1, <1>2, <1>3 DEF CountersOfOnePeriod
    <2>1. f[n] \in Slot
      BY <1>3
    <2>2. CASE f[n] \in zeroed(f)
      BY <1>1, <2>1, <2>2
    <2>3. CASE f[n] \notin zeroed(f)
      <3>1. n \in Nodes(slotOf) /\ slotOf[n] = f[n] /\ f[n] \notin torn
        BY <1>1, <1>3, <1>4, <2>3 DEF Nodes
      <3>2. credit'[f[n]] = credit[f[n]]
        BY <1>1, <2>1, <2>3
      <3> QED BY <3>1, <3>2 DEF IInv, CountersOfOnePeriod
    <2> QED BY <2>2, <2>3
  <1> QED BY <1>5, <1>6, <1>7 DEF IInv

\* A step that leaves counters, slots and markers alone.
LEMMA QuietIInv ==
    ASSUME IInv, UNCHANGED <<slotOf, usage, periods, credit, torn>>, TypeOK',
           FilesOfOnePeriod',
           phase' = "down" => phase = "down",
           phase = "down" => tick' = tick /\ exit' = exit
    PROVE  IInv'
  BY DEF IInv, OwnSlots, CountersOfOnePeriod, DownIsEmpty

\* The flusher loads the published set.
LEMMA TickLoadIInv ==
    ASSUME IInv, TickLoad
    PROVE  IInv'
  <1>1. /\ phase # "down" /\ tick' = [tick EXCEPT !.at = "rolling", !.nodes = slotOf]
        /\ UNCHANGED <<today, phase, slotOf, usage, periods, disk, exit, credit, torn>>
    BY DEF TickLoad, history
  <1>2. tick' \in Writer /\ tick'.data = tick.data
    BY <1>1 DEF IInv, TypeOK, Writer
  <1>3. TypeOK'
    BY <1>1, <1>2 DEF IInv, TypeOK
  <1>4. FilesOfOnePeriod'
    BY <1>1, <1>2 DEF IInv, FilesOfOnePeriod, FileOfOnePeriod
  <1> QED BY <1>1, <1>3, <1>4, QuietIInv

\* The rollover over a set that may be older than the published one.
LEMMA TickRollOverIInv ==
    ASSUME IInv, TickRollOver
    PROVE  IInv'
  <1> DEFINE zeroed == Reset(tick.nodes, periods)
             parted == {n \in Nodes(slotOf) : /\ tick.nodes[n] # slotOf[n]
                                              /\ periods'[n] # periods[n]}
  <1>1. /\ phase # "down"
        /\ usage' = [s \in Slot |-> IF s \in zeroed THEN 0 ELSE usage[s]]
        /\ credit' = [s \in Slot |-> IF s \in zeroed THEN {} ELSE credit[s]]
        /\ torn' = (torn \union {slotOf[n] : n \in parted}) \ zeroed
        /\ periods' = Marked(tick.nodes, periods)
        /\ tick' = [tick EXCEPT !.at = "rolled", !.nodes = NoNodes]
        /\ UNCHANGED <<today, phase, slotOf, disk, exit>>
    BY DEF TickRollOver
  <1>2. tick.nodes \in Slots /\ periods \in [Name -> Day \union {NoPeriod}] /\ today \in Day
    BY DEF IInv, TypeOK, Writer
  <1>3. tick' \in Writer /\ tick'.data = tick.data
    BY <1>1, EmptyTyped DEF IInv, TypeOK, Writer
  <1>4. /\ periods' \in [Name -> Day \union {NoPeriod}]
        /\ \A n \in Nodes(tick.nodes) :
              periods[n] # NoPeriod /\ ~Turned(n, periods[n]) => periods'[n] = periods[n]
    BY <1>1, <1>2, MarkedForward DEF Nodes
  <1>5. \A n \in Nodes(slotOf) : slotOf[n] \in Slot
    BY DEF IInv, TypeOK, Slots, Nodes
  <1>6. TypeOK'
    <2>1. usage' \in [Slot -> 0 .. MaxUsage]
      BY <1>1, DayAssumption DEF IInv, TypeOK
    <2>2. credit' \in [Slot -> SUBSET Day] /\ torn' \subseteq Slot
      BY <1>1, <1>5 DEF IInv, TypeOK
    <2> QED BY <1>1, <1>3, <1>4, <2>1, <2>2 DEF IInv, TypeOK
  <1>7. OwnSlots' /\ DownIsEmpty' /\ FilesOfOnePeriod'
    BY <1>1, <1>3 DEF IInv, OwnSlots, DownIsEmpty, FilesOfOnePeriod, FileOfOnePeriod
  <1>8. CountersOfOnePeriod'
    <2> SUFFICES ASSUME NEW n \in Nodes(slotOf), slotOf[n] \notin torn'
                 PROVE  credit'[slotOf[n]] \subseteq {periods'[n]}
      BY <1>1 DEF CountersOfOnePeriod
    <2>1. slotOf[n] \in Slot
      BY <1>5
    <2>2. CASE slotOf[n] \in zeroed
      BY <1>1, <2>1, <2>2
    <2>3. CASE slotOf[n] \notin zeroed
      <3>1. slotOf[n] \notin torn /\ n \notin parted
        BY <1>1, <2>3
      <3>2. credit'[slotOf[n]] = credit[slotOf[n]] /\ credit[slotOf[n]] \subseteq {periods[n]}
        BY <1>1, <2>1, <2>3, <3>1 DEF IInv, CountersOfOnePeriod
      <3>3. CASE periods'[n] = periods[n]
        BY <3>2, <3>3
      <3>4. CASE periods'[n] # periods[n]
        <4>1. tick.nodes[n] = slotOf[n] /\ n \in Nodes(tick.nodes)
          BY <3>1, <3>4 DEF Nodes
        <4>2. ~Turned(n, periods[n])
          BY <2>3, <4>1 DEF Reset
        <4>3. periods[n] = NoPeriod
          BY <1>4, <3>4, <4>1, <4>2
        <4>4. credit[slotOf[n]] \subseteq Day
          BY <2>1 DEF IInv, TypeOK
        <4>5. credit[slotOf[n]] = {}
          BY <3>2, <4>3, <4>4, DayAssumption
        <4> QED BY <3>2, <4>5
      <3> QED BY <3>3, <3>4
    <2> QED BY <2>2, <2>3
  <1> QED BY <1>6, <1>7, <1>8 DEF IInv

\* One step of flush_usage, of either writer.
LEMMA FlushWrites ==
    ASSUME IInv, NEW w \in Writer, FileOfOnePeriod(w.data), NEW v
    PROVE  /\ Load(w, v) \/ Read(w, v) => v \in Writer /\ FileOfOnePeriod(v.data)
           /\ Written(w) \/ Failed(w) => disk' \in File /\ FileOfOnePeriod(disk')
  <1>1. Load(w, v) => v \in Writer /\ FileOfOnePeriod(v.data)
    BY DEF Load, Writer, IInv, TypeOK
  <1>2. Read(w, v) => v \in Writer /\ FileOfOnePeriod(v.data)
    <2>1. w.nodes \in Slots
      BY DEF Writer
    <2>2. Snapshot(w.nodes) \in File /\ FileOfOnePeriod(Snapshot(w.nodes))
      BY <2>1, SnapshotEntries DEF IInv
    <2> QED BY <2>2, EmptyTyped DEF Read, Writer
  <1>3. Written(w) \/ Failed(w) => disk' \in File /\ FileOfOnePeriod(disk')
    BY DEF Written, Failed, Writer, IInv, TypeOK, FilesOfOnePeriod
  <1> QED BY <1>1, <1>2, <1>3

\* The two writers of quotas.json.
LEMMA FlushIInv ==
    ASSUME IInv, TickFlush \/ ExitFlush
    PROVE  IInv'
  <1>0. /\ tick \in Writer /\ exit \in Writer /\ disk \in File
        /\ FileOfOnePeriod(disk) /\ FileOfOnePeriod(tick.data) /\ FileOfOnePeriod(exit.data)
    BY DEF IInv, TypeOK, FilesOfOnePeriod
  <1>1. CASE TickFlush
    <2>1. /\ phase # "down"
          /\ UNCHANGED <<today, phase, slotOf, usage, periods, exit, credit, torn>>
      BY <1>1 DEF TickFlush, history
    <2>2. /\ tick' \in Writer /\ disk' \in File
          /\ FileOfOnePeriod(tick'.data) /\ FileOfOnePeriod(disk')
      <3>1. CASE (Load(tick, tick') \/ Read(tick, tick')) /\ UNCHANGED disk
        BY <1>0, <3>1, FlushWrites
      <3>2. CASE (Written(tick) \/ Failed(tick)) /\ tick' = Idle
        BY <1>0, <3>2, FlushWrites, EmptyTyped
      <3> QED BY <1>1, <3>1, <3>2 DEF TickFlush
    <2>3. TypeOK'
      BY <2>1, <2>2 DEF IInv, TypeOK
    <2>4. FilesOfOnePeriod'
      BY <1>0, <2>1, <2>2 DEF FilesOfOnePeriod, FileOfOnePeriod
    <2> QED BY <2>1, <2>3, <2>4, QuietIInv
  <1>2. CASE ExitFlush
    <2>1. /\ phase = "exiting"
          /\ UNCHANGED <<today, phase, slotOf, usage, periods, tick, credit, torn>>
      BY <1>2 DEF ExitFlush, history
    <2>2. /\ exit' \in Writer /\ disk' \in File
          /\ FileOfOnePeriod(exit'.data) /\ FileOfOnePeriod(disk')
      <3>1. CASE (Load(exit, exit') \/ Read(exit, exit')) /\ UNCHANGED disk
        BY <1>0, <3>1, FlushWrites
      <3>2. CASE /\ Written(exit) \/ Failed(exit)
                 /\ \/ exit' = [Idle EXCEPT !.at = "written"]
                    \/ exit' = [Idle EXCEPT !.at = "failed"]
        <4>1. disk' \in File /\ FileOfOnePeriod(disk')
          BY <1>0, <3>2, FlushWrites
        <4>2. exit' \in Writer /\ exit'.data = NoFile
          BY <3>2, EmptyTyped DEF Writer
        <4> QED BY <4>1, <4>2, EmptyTyped
      <3> QED BY <1>2, <3>1, <3>2 DEF ExitFlush
    <2>3. TypeOK'
      BY <2>1, <2>2 DEF IInv, TypeOK
    <2>4. FilesOfOnePeriod'
      BY <1>0, <2>1, <2>2 DEF FilesOfOnePeriod, FileOfOnePeriod
    <2> QED BY <2>1, <2>3, <2>4, QuietIInv
  <1> QED BY <1>1, <1>2

\* Every step keeps the invariant.
LEMMA NextIInv ==
    ASSUME IInv, [Next]_vars
    PROVE  IInv'
  <1>0. tick \in Writer /\ disk \in File /\ FileOfOnePeriod(disk) /\ FileOfOnePeriod(tick.data)
    BY DEF IInv, TypeOK, FilesOfOnePeriod
  <1>1. ASSUME Crash \/ Exit PROVE IInv'
    <2>1. Gone /\ today' = today
      BY <1>1 DEF Crash, Exit
    <2>2. disk' \in File /\ FileOfOnePeriod(disk')
      BY <1>0, <1>1, FlushWrites DEF Crash, Exit
    <2> QED BY <2>1, <2>2, GoneIInv
  <1>2. ASSUME \/ Shutdown \/ DayPasses \/ SetBack \/ UNCHANGED vars PROVE IInv'
    <2>1. today' \in Day
      BY <1>2, DayAssumption DEF Shutdown, DayPasses, SetBack, vars, IInv, TypeOK, Day
    <2>2. /\ UNCHANGED <<slotOf, usage, periods, tick, exit, disk, credit, torn>>
          /\ phase' = phase \/ (phase = "serving" /\ phase' = "exiting")
      BY <1>2 DEF Shutdown, DayPasses, SetBack, vars, memory, history
    <2>3. TypeOK'
      BY <2>1, <2>2 DEF IInv, TypeOK
    <2>4. FilesOfOnePeriod'
      BY <2>2 DEF IInv, FilesOfOnePeriod, FileOfOnePeriod
    <2> QED BY <2>2, <2>3, <2>4, QuietIInv
  <1> QED BY <1>1, <1>2, StartIInv, ReloadIInv, BookIInv, TickLoadIInv,
             TickRollOverIInv, FlushIInv DEF Next, Flusher

\* The invariant holds for ever.
LEMMA Invariance == Spec => []IInv
  <1>1. Init => IInv
    BY InitIInv
  <1>2. IInv /\ [Next]_vars => IInv'
    BY NextIInv
  <1> QED BY <1>1, <1>2, PTL DEF Spec

-----------------------------------------------------------------------------
(* The theorems *)

\* Counters, markers and the entries of quotas.json keep their types.
THEOREM TypeCorrect == Spec => []TypeOK
  <1>1. IInv => TypeOK
    BY DEF IInv
  <1> QED BY <1>1, Invariance, PTL

\* "the marker moves together with the counter": no node is held, under one
\* marker, to spend that was booked under another, whatever the flusher's rounds,
\* reloads, crashes, restarts and the clock do, but for spend a reload parted from
\* its marker inside a round.
THEOREM OnePeriodPerCounter == Spec => []CountersOfOnePeriod
  <1>1. IInv => CountersOfOnePeriod
    BY DEF IInv
  <1> QED BY <1>1, Invariance, PTL

\* A boot from the file drops a node's spend only past its period.
LEMMA BootKeepsSpend ==
    ASSUME IInv, NEW config \in Config, Start(config), NEW n \in config,
           disk[n] # NoEntry, ~disk[n].torn
    PROVE  \/ usage'[slotOf'[n]] >= disk[n].used
           \/ \A p \in disk[n].credit \union {disk[n].start} : PeriodStart[n][today] > p
  <1>1. n \in Name /\ disk[n] \in Entry
    BY NameAssumption DEF IInv, TypeOK, File
  <1>2. CASE Turned(n, disk[n].start)
    <2>1. disk[n].credit \subseteq {disk[n].start}
      BY <1>1 DEF IInv, FilesOfOnePeriod, FileOfOnePeriod
    <2> QED BY <1>2, <2>1 DEF Turned
  <1>3. CASE ~Turned(n, disk[n].start)
    <2>1. usage'[slotOf'[n]] = disk[n].used
      BY <1>3, StartRestores
    <2> QED BY <1>1, <2>1 DEF Entry
  <1> QED BY <1>2, <1>3

\* A rollover of the running process does so too, on a counter that is still
\* known under its node's name.
LEMMA RolloverKeepsSpend ==
    ASSUME IInv, TickRollOver, NEW n \in Nodes(slotOf),
           slotOf[n] \notin torn, ~Overtaken(n)
    PROVE  \/ usage'[slotOf[n]] >= usage[slotOf[n]]
           \/ /\ periods[n] # NoPeriod
              /\ \A p \in credit[slotOf[n]] \union {periods[n]} : PeriodStart[n][today] > p
  <1> DEFINE zeroed == Reset(tick.nodes, periods)
  <1>1. usage' = [s \in Slot |-> IF s \in zeroed THEN 0 ELSE usage[s]]
    BY DEF TickRollOver
  <1>2. slotOf[n] \in Slot /\ usage[slotOf[n]] \in Nat
    <2>1. slotOf[n] \in Slot
      BY DEF IInv, TypeOK, Slots, Nodes
    <2>2. usage[slotOf[n]] \in 0 .. MaxUsage
      BY <2>1 DEF IInv, TypeOK
    <2> QED BY <2>1, <2>2, DayAssumption
  <1>3. CASE slotOf[n] \notin zeroed
    <2>1. usage'[slotOf[n]] = usage[slotOf[n]]
      BY <1>1, <1>2, <1>3
    <2> QED BY <1>2, <2>1
  <1>4. CASE slotOf[n] \in zeroed
    <2>1. PICK m \in Nodes(tick.nodes) : tick.nodes[m] = slotOf[n] /\ Turned(m, periods[m])
      BY <1>4 DEF Reset
    <2>2. m = n
      BY <2>1 DEF Overtaken, Nodes
    <2>3. credit[slotOf[n]] \subseteq {periods[n]}
      BY DEF IInv, CountersOfOnePeriod
    <2> QED BY <2>1, <2>2, <2>3 DEF Turned
  <1> QED BY <1>3, <1>4

\* No other step of a running process takes from the counter of a node that
\* keeps its slot.
LEMMA OthersKeepSpend ==
    ASSUME IInv, [Next]_vars, ~TickRollOver, NEW n \in Nodes(slotOf'),
           slotOf[n] = slotOf'[n]
    PROVE  usage'[slotOf[n]] >= usage[slotOf[n]]
  <1>1. n \in Nodes(slotOf)
    BY DEF Nodes
  <1>2. slotOf[n] \in Slot /\ usage[slotOf[n]] \in Nat
    <2>1. slotOf[n] \in Slot
      BY <1>1 DEF IInv, TypeOK, Slots, Nodes
    <2>2. usage[slotOf[n]] \in 0 .. MaxUsage
      BY <2>1 DEF IInv, TypeOK
    <2> QED BY <2>1, <2>2, DayAssumption
  <1>3. phase # "down" /\ slotOf # NoNodes
    <2>1. slotOf # NoNodes
      BY <1>1, EmptyTyped
    <2> QED BY <2>1 DEF IInv, DownIsEmpty
  <1>4. CASE usage' = usage
    BY <1>2, <1>4
  <1>5. ASSUME NEW m \in Name, Book(m) PROVE usage'[slotOf[n]] >= usage[slotOf[n]]
    <2>1. usage' = [usage EXCEPT ![slotOf[m]] = @ + 1]
      BY <1>5 DEF Book
    <2>2. usage'[slotOf[n]] \in {usage[slotOf[n]], usage[slotOf[n]] + 1}
      BY <1>2, <2>1 DEF IInv, TypeOK
    <2> QED BY <1>2, <2>2
  <1>6. ASSUME NEW config \in Config, Reload(config)
        PROVE  usage'[slotOf[n]] >= usage[slotOf[n]]
    <2>1. PICK f \in Assigned(config) :
            /\ slotOf' = f
            /\ usage' = [s \in Slot |-> IF s \in {f[m] : m \in config \ Nodes(slotOf)}
                                        THEN 0 ELSE usage[s]]
      BY <1>6 DEF Reload
    <2>2. /\ Nodes(f) = config
          /\ \A k, m \in config : f[k] = f[m] => k = m
      BY AssignedSlots
    <2>3. slotOf[n] \notin {f[m] : m \in config \ Nodes(slotOf)}
      BY <1>1, <2>1, <2>2
    <2>4. usage'[slotOf[n]] = usage[slotOf[n]]
      BY <1>2, <2>1, <2>3
    <2> QED BY <1>2, <2>4
  <1>7. ASSUME Crash \/ Exit PROVE FALSE
    BY <1>1, <1>7, EmptyTyped DEF Crash, Exit, Gone
  <1>8. ASSUME NEW config \in Config, Start(config) PROVE FALSE
    BY <1>3, <1>8 DEF Start
  <1>9. CASE \/ UNCHANGED vars \/ TickLoad \/ TickFlush \/ ExitFlush \/ Shutdown
             \/ DayPasses \/ SetBack
    <2>1. usage' = usage
      BY <1>9 DEF vars, memory, TickLoad, TickFlush, ExitFlush, Shutdown, DayPasses, SetBack
    <2> QED BY <1>4, <2>1
  <1> QED BY <1>5, <1>6, <1>7, <1>8, <1>9 DEF Next, Flusher

\* "a clock that went backwards must not reset a month that was already spent":
\* neither a rollover nor a boot drops what a node has spent before the date is
\* past the period of its marker and past those it was booked under.
THEOREM SpendOutlivesClock == Spec => SpentMonthKept
  <1> DEFINE Boots(n) ==
               phase = "down" /\ disk[n] # NoEntry /\ ~disk[n].torn
                 => \/ usage'[slotOf'[n]] >= disk[n].used
                    \/ \A p \in disk[n].credit \union {disk[n].start} :
                          PeriodStart[n][today] > p
             Runs(n) ==
               slotOf[n] = slotOf'[n] /\ slotOf[n] \notin torn /\ ~Overtaken(n)
                 => \/ usage'[slotOf'[n]] >= usage[slotOf[n]]
                    \/ /\ periods[n] # NoPeriod
                       /\ \A p \in credit[slotOf[n]] \union {periods[n]} :
                             PeriodStart[n][today] > p
             Kept ==
               \A n \in Nodes(slotOf') :
                  /\ phase = "down" /\ disk[n] # NoEntry /\ ~disk[n].torn
                       => \/ usage'[slotOf'[n]] >= disk[n].used
                          \/ \A p \in disk[n].credit \union {disk[n].start} :
                                PeriodStart[n][today] > p
                  /\ slotOf[n] = slotOf'[n] /\ slotOf[n] \notin torn /\ ~Overtaken(n)
                       => \/ usage'[slotOf'[n]] >= usage[slotOf[n]]
                          \/ /\ periods[n] # NoPeriod
                             /\ \A p \in credit[slotOf[n]] \union {periods[n]} :
                                   PeriodStart[n][today] > p
  <1>1. ASSUME IInv, [Next]_vars PROVE Kept
    <2>1. ASSUME NEW n \in Nodes(slotOf') PROVE Boots(n)
      <3>1. CASE \E config \in Config : Start(config)
        <4>1. PICK config \in Config : Start(config)
          BY <3>1
        <4>2. n \in config
          BY <1>1, <2>1, <4>1, StartRestores, AssignedSlots
        <4> QED BY <1>1, <4>1, <4>2, BootKeepsSpend
      <3>2. CASE phase # "down"
        BY <3>2
      <3>3. CASE phase = "down" /\ ~\E config \in Config : Start(config)
        <4>1. slotOf = NoNodes
          BY <1>1, <3>3 DEF IInv, DownIsEmpty
        <4>2. UNCHANGED vars \/ DayPasses \/ SetBack \/ \E m \in Name : Book(m)
          BY <1>1, <3>3 DEF Next, Flusher, Reload, TickLoad, TickRollOver, TickFlush,
                            Shutdown, ExitFlush, Exit, Crash
        <4>3. slotOf' = slotOf
          BY <4>2 DEF vars, memory, DayPasses, SetBack, Book
        <4> QED BY <2>1, <4>1, <4>3, EmptyTyped
      <3> QED BY <3>1, <3>2, <3>3
    <2>2. ASSUME NEW n \in Nodes(slotOf') PROVE Runs(n)
      <3> SUFFICES ASSUME slotOf[n] = slotOf'[n], slotOf[n] \notin torn, ~Overtaken(n)
                   PROVE  \/ usage'[slotOf[n]] >= usage[slotOf[n]]
                          \/ /\ periods[n] # NoPeriod
                             /\ \A p \in credit[slotOf[n]] \union {periods[n]} :
                                   PeriodStart[n][today] > p
        BY Zenon
      <3>1. CASE TickRollOver
        <4>1. n \in Nodes(slotOf)
          BY <2>2 DEF Nodes
        <4> QED BY <1>1, <3>1, <4>1, RolloverKeepsSpend
      <3>2. CASE ~TickRollOver
        BY <1>1, <2>2, <3>2, OthersKeepSpend
      <3> QED BY <3>1, <3>2
    <2> QED BY <2>1, <2>2
  <1>2. IInv /\ [Next]_vars => [Kept]_vars
    BY <1>1
  <1> QED BY <1>2, Invariance, PTL DEF Spec, SpentMonthKept

=============================================================================
