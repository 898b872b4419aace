# LKC-CXL-PIM: TLA+ specifications and proofs

LKC-CXL-PIM keeps the KV cache of large language models in CXL memory devices
that can compute.  The repository holds a Python host scheduler that places KV
pages on nodes, RTL prototypes of the in-memory units and of the all-reduce
between nodes, and a Ramulator 2 fork whose DRAM controller compresses KV-cache
accesses.  The fork also carries the simulator's processor front ends and its
DRAM devices, to which it adds an HBM3 with PIM commands.  This directory holds
TLA+ modules of the parts that keep state and decide things, TLC configurations
for small instances, and TLAPS proofs for all instances.

## 1. Inventory

| Component | State | Operations | Talks to |
|---|---|---|---|
| `GlobalKVPageTable` (`scripts/host_os_scheduler.py`) | page table, per-node page sets, bump pointers, free lists, next id | allocate, free, record access, migrate | called by the scheduler and the migrator |
| `LoadBalancer`, `DynamicMigrator`, `HostOSScheduler` (same file) | cached utilization, locality counts, per-request page lists, migration loop | one trace line; periodic check and migration; defragment | page table |
| `async_fifo.sv` | memory, two pointers with Gray codes, two synchronizers | write edge, read edge, both, reset | instantiated by the reduction |
| `distributed_reduce.sv` | six-state FSM, timeout and receive counters, latched word, jitter buffer | one arc of the FSM per clock edge | FIFO, CXL network, iNLU |
| `inlu_core.sv` | four-phase FSM, local and global max and sum | phases MAX, SUM, NORM | the reduction |
| `outlier_logic.sv` | a saturating counter | classify a value | memory write path |
| generic DRAM controller, FRFCFS, all-bank refresh, KV-compression plugin | read, write, active and priority buffers, pending reads, write mode; bank rows | `send`, `tick` | front end (callback), DRAM device |
| DRAM devices (`dram/impl`, `node.h`, `lambdas`) | per node: earliest cycle of each command, history; bank states and rows; queued ends of refreshes | `set_organization`, `set_timing_vals`, `issue_command`, `tick`, prerequisites | controller |
| power model (`power.h`) | per rank: power state, cycles in it, command counters | one handler per command, `finalize` | devices |
| O3 front ends (`simpleO3`, `bhO3`): cores and last-level cache | windows, trace cursors; sets in LRU order, MSHRs, waiting requests, hit and miss lists; MSHR quotas | `tick` of the cache and of each core, `send`, `receive`, `clflush` | memory system (call back), BlockHammer |
| trace front ends, translation, address mapping, row policies | cursor; page pool; none | per cycle | memory system |
| CXL fabric simulator (`scripts/cxl_fabric_simulator.py`) | switch ports, event heap | route, deliver | page placement |
| RowHammer plugins, other controllers and schedulers | counters and tables | plugin update | inherited from Ramulator 2, outside the CXL-PIM path |
| generators, plots, validation, fault model | none that lives on | file to file | |

What is hard here: two clock domains sampling each other's pointers while they
change; an FSM whose datapath registers lag it by one and two edges; messages
lost at a full buffer, early or late, and a timeout racing them; a scheduler that
works from utilizations it cached before it moved pages; allocate-before-free
migrations that may be refused; a controller that reorders by readiness over
four buffers, moves requests between them, and lets a plugin change a request
between scheduling and issue; a cache that keys call backs by address while its
lines come and go; thirteen devices whose timing tables, state machines and power
handlers are separate tables that must agree.  `PROJECT.json` lists these as hazards with lines.

## 2. Modules

    PageMap                 abstract: ids to locations, no location used twice
      ^ refines
    KVPageTable             GlobalKVPageTable
      ^ EXTENDS             KVDefragment (adds defragment)
    KVScheduler             process_trace, LoadBalancer, check_and_migrate

    BoundedQueue            abstract: a bounded FIFO queue that may be flushed
      ^ refines
    AsyncFifo               async_fifo.sv          GrayCode (its constants)
      ^ EXTENDS
    DistributedReduce       distributed_reduce.sv with its jitter buffer
      ^ EXTENDS
    ReduceRound             one round of it, with the words of the others by sender

    DramController          generic_dram_controller.cpp with FRFCFS, refresh,
                            the plugin, and the row state of DDR4 and HBM3PIM

    DramSpec                presets, timing constraints, rounding (spec.h, utils.cpp)
      ^ EXTENDS             DramDDR   DramDDR5   DramHBM   DramLPDDR5: the tables
    DramNode                node.h and the prerequisite, action and row lambdas
      ^ EXTENDS
    DramPower               power.h
      ^ EXTENDS
    DramDevice              any of the thirteen devices, initialized and run

    CacheGeometry           how an address is cut into line, index and tag
    LastLevelCache          llc.cpp, bhllc.cpp
      ^ EXTENDS
    O3FrontEnd              core.cpp, simpleO3.cpp, bhO3.cpp

`MC*.tla` give constants values for TLC, `*Proofs.tla` hold the theorems, and
`OrderLemmas.tla` the facts they share about extrema, sums and picked elements.

**KVPageTable.**  One action per method.  A frame number is popped from the
end of the free list, else the bump pointer moves; a full node refuses, and the
refusal is then the caller's: `WriteDropped` or a page that stays where it is.
`MigratePage` follows the method's order: allocate on the destination, return
the old frame, move between the page sets, assign the page.

**KVScheduler.**  The program is sequential; `pc` says where in an iteration it
is.  A trace line is one of four actions (a token within a block, one that gets
a new page, one that is refused, a read).  The periodic check is unfolded:
`StartCheck` caches utilizations and computes the lists, `MigrateNext` tries one
page, `NextSource` and `MigrationDone` close the loops, so properties see the
states inside the call.  Utilizations are page counts: the code divides every
one by the same capacity, and thresholds are given in pages.  Ties in `sorted`
and `max` over Python sets and dictionaries are left open; `min` over a list
takes the first.

**AsyncFifo.**  One action per clock edge and one for simultaneous edges.  In
the latter each changing bit of the other side's code may be sampled old or new
(`Sampled`); between edges the code is settled.  The Gray code is a constant
constrained by `GrayAssumption`: injective, one bit per increment, and two
pointers match under the flipped top bits exactly when they are a full depth
apart.  `MCAsyncFifo` evaluates that assumption for the real code (`GrayCode`)
at several widths.

**DistributedReduce.**  A step is an edge of `clk`.  Each FSM arc is an action
joined with `Datapath`, the update of every other register from the values before
the edge.  The network offers any word or none at each edge; the FIFO drops what
finds it full, as `wfull` is unconnected.  Both its clocks are `clk`, so the
synchronizers take settled values.  A word is a value with a type (`Kind`); who sent
it no register of the RTL knows.  `taken` is history, kept at the other end of the
pipeline from the counters: it counts the words of the phase's kind that leave the
FIFO's output under the read enable.

**ReduceRound.**  The same node with a network at its best: each of the other nodes
sends its maximum once and, when it has every maximum, its sum once, and a word enters
the jitter buffer at most once.  `heard` is history, the words counted in the phase.

**DramController.**  `Send` is `send()`, `Tick` all of `tick()`.  Requests are
numbers in order of acceptance, so the read and write buffers, which are only
appended to and erased from, are sets; the active buffer, which requests enter
in another order, is a sequence.  Which commands the device is ready for is chosen
afresh at each tick, within `Possible`; what holds then holds for any speed
grade.  A bank in the state `Refreshing` answers prerequisites as a closed one
does, and is one.  Rank count is one, and only the refresh manager uses the
priority buffer (the open-row policy sends nothing).  HBM3PIM has no rank level,
so `get_level_size("rank")` is -1 and no refresh is ever sent there.

**DramSpec, DramDDR, DramDDR5, DramHBM, DramLPDDR5.**  A device is a record of
what its file states as tables: levels, commands with scopes and kinds, request
translations, actions, prerequisites, row-hit and power handlers, future actions,
and the constraints as a function of its timings.  `X_set_organization` and
`X_set_timing_vals` do what the methods do, `JEDEC_rounding` and the lookups by
density, rate and DQ width included; a lookup outside a table gives `OutOfTable`,
the initialization is then `"undefined"`.  Speed and organization presets are
named by their numbers (`<<2400, "R">>` for `DDR4_2400R`).  A variant that
inherits a table in spirit (DDR4-VRR from DDR4, HBM3PIM from HBM3) is given as
what it adds.  The latency factors of the RVRR devices are percentages.

**DramNode.**  A node is its path of ids; `update_timing`, `update_states`,
`get_preq_command`, `check_ready`, `check_rowbuffer_hit` and `check_node_open` of
`DRAMNodeBase` are functions of the state of all nodes, and the handlers of
`action.h`, `preq.h`, `rowhit.h`, `rowopen.h` those they look up by name.
`update_states` walks the tree from the channel; what it does to a bank is that of the
levels whose action reaches it (`Acting`, `ActionAt`).

**DramPower.**  One operator per handler of `Power::Rank`.  Voltages and currents
only scale a count of cycles, so energies are cycles.

**DramDevice.**  `Init` chooses any preset of any device (and stops after its
initialization) or a run of `Loads`: device, presets, user's sizes and timings, the
requests outstanding and how many commands to issue.  `Issue` is `issue_command`
for the prerequisite of any outstanding request the device is ready for, at most
one a cycle; `Tick` is `tick`, which passes over the cycles in which nothing ends
and nothing becomes ready; its scan of the future actions goes from the back of the
vector and carries out and erases those that are due (`Scanned`, `Ended`); `Finalize`
closes the power statistics.  The controller
is reduced to that choice, and the refresh manager to its pace (`Paced`): it sends a
refresh every nREFI cycles, which the controller may keep for up to `RefreshLag`
cycles, so that two may be issued that much closer.  A state
for which a prerequisite handler has no case ends the program (`Exit`, `Exits`).

**LastLevelCache, O3FrontEnd.**  BHO3 is SimpleO3 with a quota of MSHRs for
blacklisted cores and a flush of what an attacker receives, so one model has both:
without `Attackers` and without `Throttle` it is SimpleO3.  `send` is one action per
way through it: `Hit`, `Merge`, `Allocate`, `Refuse`.  A tick is unfolded by `turn`:
the cache sends due misses (`CacheTick`), calls due hits back one by one
(`CacheCallsBack`, `CacheTicked`), then each core in order waits, loads or stores.
Between two ticks the memory, which is external, answers reads in any order
(`MemoryAnswers`), and BlockHammer may blacklist a core (`Throttle`).  A core's
instruction window is a sequence, its oldest instruction first.  `unsaved` and
`crossed` are history.  `bhllc.cpp` compares the result of `find_if` with `end()` in
`check_set_hit`; `llc.cpp` dereferences it, and whatever it reads there returns
`end()`, so both are one operator.

## 3. What is checked

`page_table`, `kv_scheduler`, `async_fifo`, `distributed_reduce`,
`dram_controller`, `dram_device` and `o3_front_end` pass.  In the words of the properties:

* **page table** - no frame mapped twice (`NoDoubleMapping`), none lost
  (`FramesConserved`), node sets exact (`ReverseIndexExact`), and the whole
  implements `PageMap` (`AbsSpec`).
* **scheduler** - shared-prefix pages stay on the shared node
  (`SharedPrefixPinned`); the estimate a check works from is exact after every
  page, moved or refused (`EstimatesExact`); each request's list is exactly its
  live pages (`RequestPagesExact`); no policy allocates a private page on the
  shared node (`ReservedFromAllocation`: migrations may move some there, and the
  tracker of localities, which counts pages where they were allocated, does not see
  it); a batch within the imbalance threshold does not leave the nodes more
  unbalanced (`MigrationNeverWorsens`; larger batches do overshoot).
* **FIFO** - flags err only on the safe side (`FlagsConservative`), what leaves
  a synchronizer is a pointer the other side had (`SyncedPointersReal`), it is a
  queue (`IsQueue`), words and room become visible (`WordsSeen`, `RoomSeen`).
* **reduction** - counter and latch together account for every word of the phase's
  kind that the read enable let out since the phase began, none of another kind or
  another phase (`CountsExact`); a word popped is presented in the same cycle
  (`PoppedIsPresented`); a round ends (`RoundEnds`).  That the words counted come from
  every other node is not so: see `every_node_heard` below.
* **controller** - an accepted request is in exactly one place (`InOnePlace`),
  the row opened for an active request stays open (`ActiveRowsHeld`), DDR4 writes
  to one address are issued in order (`WritesInOrder`), all buffers drain again
  and again (`BuffersDrain`).
* **devices** - every preset finds its entries in the tables, except the 1 Gb HBM
  and the 32 Gb LPDDR5 (`PresetsResolve`); the incremental bookkeeping of
  `update_timing` keeps every pair and window of commands apart by what the table
  says of them (`TimingRespected`); no two bursts overlap on a data bus
  (`BurstsDisjoint`); an access is to the row its bank was last activated for
  (`AccessHitsOpenRow`); a bank refreshes exactly while one queued action will end it
  (`RefreshHasItsEnd`); counted activations and precharges differ by the open banks
  (`ActsBalancePres`); active, idle and refresh cycles add up to the run
  (`CyclesAccounted`); prerequisites lead to each request's command in two steps,
  on LPDDR5 in four if it is to row 0, and agree with the row-hit handlers
  (`PrerequisitesLead`).
* **O3 front end** - MSHRs and lines that are not ready correspond one to one, so
  the assertion in `need_eviction` holds and no iterator dangles
  (`MshrsMatchLines`); an accepted store is in a dirty line or a pending
  write-back until the memory has it (`StoresKept`); every load that waits has an
  answer coming, and MSHRs and quotas count the outstanding reads
  (`AnswersOnTheWay`).

`AnswersOnTheWay` ends where the code's guarantee ends.  `tick` replaces the list of
requests that wait under a hit's address (`llc.cpp:44`) when the hit's latency is
over.  If its line was evicted in between, and another core missed it under that
address, that core's request is dropped from the list, the line is marked ready and
its MSHR freed before the read returns; unless the address is answered once more,
the load never becomes ready, its core never retires again.  `crossed` records
that call back, and the run reaches it; the other two properties hold after it too.

The properties of the devices leave out what the code does not promise.
`TimingRespected` omits constraints on pseudochannels for `PREA` and `REFab`
(`UncheckedByScope`): those commands are addressed to the channel, and `check_ready`
looks no deeper, so HBM2 and its successors never enforce tRAS, tRP or tRFC for
them.  `BurstsDisjoint` omits the PIM devices, which state no bus constraint, and a
write after a read of another rank, whose latency `nBL + nCS` counts from command to
command (`DDR4.cpp:456`): on DDR4-3200AA a read at cycle 22 and a write to the other
rank at 28 both have their burst in cycles 44 to 47.  What it takes for
granted of a table, that it spaces the bursts of every other pair of accesses
(`BurstsAreSpaced`), `PresetsResolve` establishes for every preset but the DDR3-800
and DDR3-1066 ones with a write latency above the read latency (`LateWrites`): there
a read of another rank comes too early after a write, as `DDR3.cpp:366` has `nCL` and
`nCWL` the wrong way round.
`AccessHitsOpenRow` and `PrerequisitesLead` omit the compressed accesses of HBM3PIM,
which have no prerequisite.  `PrerequisitesLead` also omits accesses of an LPDDR5 to
rows other than 0 (`Served`): its handlers look for row 0 whatever row is asked for
(`LPDDR5.cpp:463`, 485), so such an access is never issued, as `other_row_never_served`
shows.  And it does not look up the row hit of a bank between the two
activations of an LPDDR5, a state for which `rowhit.h:22` ends the program.  `CyclesAccounted` allows for the one cycle each refresh
is charged too much, and leaves out runs with `PREsb`, `REFsb` or `DRFMsb` in them: the
power handlers of the last two are commented out in the DDR5 devices (`DDR5.cpp:699`),
so an activation of another bank meanwhile finds banks refreshing and takes the rank to
be awake, and `PREsb` puts the rank to sleep when no other bank is open, though banks
refresh.

Five runs show the code disagreeing with what it says of itself:

| Run | What happens |
|---|---|
| `defragment_double_maps` | `defragment` renumbers frames but not the free list; the next allocation doubles a frame |
| `every_node_heard` | the registered read enable outlives the last word by a cycle; the stale word presented then is counted, and the phase ends without a node having been heard, on a network that loses nothing |
| `other_row_never_served` | LPDDR5 looks for row 0 before each access; a read of another row, alone on the device, has its bank activated and precharged in turn and is never issued |
| `compressed_read_lost` | a compressed KV read is never moved to `pending`; its callback never comes |
| `read_overtakes_write` | forwarding does not look in the active buffer; the read gets to the bank before the older write |

Each property of a passing run also has a mutant of the model (`X_Variant`
beside `X`) under which TLC reports it violated.

### Bounds

| Run | Instance | Why it is enough |
|---|---|---|
| page_table | 2 nodes x 2 frames, 1 request, 4 virtual ids, accesses capped at 1 | nodes fill, free lists reach two entries, frames are reused, refusals occur in both directions; the proofs cover the rest |
| kv_scheduler | 3 nodes (one shared) x 3 frames, 5 ids, blocks of 2 tokens, check every 3 lines, batches of 1 and 4 | overload needs three pages on a node; a batch of 4 exceeds what a source holds, one of 1 stops inside it; destinations fill. `rr_counter`, `req_tokens`, `processed` are kept modulo what the code takes them modulo |
| async_fifo | depth 4, two words | pointers go round; four is the least depth at which the two top Gray bits differ from all bits; the proofs cover every depth |
| distributed_reduce | 4 nodes, FIFO of 4, timeout 6 | a phase can complete, time out, and tie; the FIFO overflows and holds words across rounds |
| every_node_heard | the same FIFO, 3 other nodes, each word once, one round, the real timeout | the shortest counterexample ends after two of three maxima |
| dram_device | all 1,133 combinations of presets initialized; 17 runs of 4 to 9 commands, each with 2 to 4 requests that share a bank, differ in row, in bank group, in rank or in pseudochannel, most with an all-bank refresh | each pair of commands that a table constrains at a level two requests share can meet, bank conflicts, refreshes under way, rank switches and a fifth activation in a four-activation window (with the user's own `nFAW`) occur; `RefreshLag` is 2000 cycles, more than a run's other commands take and less than any nREFI by more than nRFC |
| other_row_never_served | an LPDDR5 with one read of row 1, 6 commands | row 0 takes four commands |
| o3_front_end | 2 cores (one attacker), 2 assignments of traces, windows of 2, 4 addresses in 3 lines of one set, 2 ways, 2 MSHRs, latency 2, an empty or a saved cache; `MaxReads` 2 reads in the memory, `MaxRefused` 1 request refused a tick, a quota of 1 | three lines in two ways force evictions, two addresses of one line force merges under another address, both cores run out of ways and of MSHRs, a hit outlives its line |
| dram_controller | 2 banks, 3 addresses (two rows of one bank), 3 requests, buffers of `max_size` 1 (2 requests, as `enqueue` admits one more) and an active buffer of 1 or 2 | buffers refuse, a third request waits behind two active ones, both modes and row conflicts occur; one refresh (`MaxRefresh`) may fall due at any tick |

`kv_scheduler` and `page_table` set `CHECK_DEADLOCK FALSE`: when the ids
(`MaxVirtual`) or the trace run out the program has ended.

The tables of the devices are not bounded: every number is the source's.  That index
and tag name a line exactly when the number of sets is a power of two is an
assumption `MCO3FrontEnd` evaluates for up to 8 sets (`OnlyPowersOfTwo`): with
three cores the capacity is no power of two, and `LastLevelCache` is not about that.

### Fairness

* `KVScheduler`: weak fairness of the migration actions - a call once entered
  runs.  The trace may end at any line.
* `AsyncFifo`: weak fairness of each clock; nothing of `winc` or `rinc`.
* `DistributedReduce`: weak fairness of the clock; nothing of the network.
* `DramController`: weak fairness of `ReadyTick`, a tick at which no timing
  constraint is pending.  Every constraint is finite, so such ticks come whenever
  the controller pauses; that they come infinitely often is an assumption on the
  timings.  It rules out only devices on which the controller would for ever open
  rows and close them again before a column command gets ready: in the code
  `ACT` to `PRE` (nRAS) is longer than `ACT` to `RD` or `WR` (nRCD).  `MaxReqs`
  and `MaxRefresh` bound the load, so what drains is a finite load.
* `DramDevice` and `O3FrontEnd` state none: their properties are safety.

## 4. What is proved

For every value of the constants that meets the named assumptions:

* **KVPageTableProofs.**  `IInv` is the conjunction of `TypeOK`,
  `NoDoubleMapping`, `FramesConserved` and `ReverseIndexExact`.  None is inductive
  alone: that a popped frame is not mapped needs conservation, that a freed one
  is not already listed needs both.  `CanAlloc`-guarded allocation is handled once
  (what `PhysicalFor`, `PoppedList` and `BumpedNext` do to the frames of a node)
  and used by allocate and migrate.  `ImplementsPageMap`: allocate, free and
  migrate map to `Allocate`, `Free` and `Move`, an access to a stutter.
* **KVSchedulerProofs.**  Every step is a step of the page table
  (`SchedulerUsesTable`), so its invariant carries over; on it rest the pinning of
  shared pages and the exactness of request lists.  `SharedNodeIsReserved` needs only
  that a policy never selects the shared node and that a migration touches neither the
  tracker nor a page's request and kind.  `MIInv` adds what holds inside a check: the estimates are the real page
  counts, the pages left are on the source being drained, sources and destinations
  are those of the check's reading, and no node has drifted from that reading by
  more than the pages moved, a source only downwards, a destination only upwards.
  `MigrationsNeverWorsen` follows: a source was more than the threshold ahead of
  every destination, so within a batch of that size they cannot change places.
  The counts are cardinalities; the average that separates sources from
  destinations is a sum over nodes, and of it only the order matters.
* **AsyncFifoProofs.**  `FifoInv` says that the four synchronizer registers decode
  to pointers of the recent past, in order: the write pointer as seen twice by the
  reader is between the read pointer and the write pointer, and likewise the other
  way round, all within one depth.  From one-bit changes a torn sample is the old
  or the new code, which keeps the order; the order gives the flags and, with the
  word at the read pointer, the refinement of `BoundedQueue`.
* **DistributedReduceProofs.**  `ReduceInv` joins the FIFO's invariant to the
  counters: `taken` is the counter of the running phase and the word just presented
  together, at most the number of nodes while waiting, and the timeout counter stays below its width, so no
  counter wraps while it is compared.
* **DramControllerProofs.**  Four properties, for any readiness of the device.
  `CtrlTypeCorrect` carries the buffer bound, one over `max_size`.
  `ActiveRowsAreHeld` is inductive given the types: ACT needs a closed bank, so no
  active request is in it (`ClosedAssumption` keeps `Closed` apart from the rows),
  and a PRE or PREA that would close an active row is never scheduled.  For
  `RequestsInOnePlace`, `PlaceInv` says of each request which of six places it is
  in, and each handler moves it from one to the next.  `WritesAreInOrder` rests on
  `OrderInv`: while a write was not issued, no younger write to its address is
  active or issued.  The younger one is not even scheduled: both wait for the same
  command of the same bank, so the older is ready too, and it is ahead in the write
  buffer or active - and then FRFCFS does find an active request
  (`ActiveReadyIsFound`, from the least arrival among the ready ones).
* **O3FrontEndProofs.**  `CacheInv` says of each set that it holds no more lines
  than ways and no tag twice, and that its lines that are not ready are those an
  MSHR awaits, one MSHR a line.  Every way through `send`, each call back and each
  answer takes one line out of a set and puts one at its end, so one lemma on such a
  move carries the invariant (`MovedIs`, `MovedSet`).  `StoresKept` is inductive on
  top of it, since a victim that is dirty leaves a write-back behind and what the
  memory refuses stays in the list.  `AnswersComing` needs more: `ReadInv` (each MSHR
  has exactly one read, waiting in the miss list or out in the memory, on account of
  one core, and the quotas count these) and `WindowInv` (a window entry that is not
  ready is on the hit list or among those an MSHR's answer wakes).
* **DramDeviceProofs.**  `DeviceInv` gives the state of the nodes its meaning in the
  log of commands: a history holds the cycles of the latest commands of its kind,
  newest first (`HistoryRight`), and a command's ready time is no earlier than any
  constraint from any entry of the log allows (`ReadyRight`); a window counts the
  commands since, and the entry it looks up in the history is that many commands
  back.  A command is let through when all its nodes down to its scope are ready,
  whence `TimingIsRespected`, for any tidy tables, any requests and any length of run.
  `BurstsAreDisjoint` adds that the table keeps two accesses apart by the length of
  the burst and the difference of their latencies, and that an access is issued only
  as a request's own command (`AccessIsFinal`), at an address of the device.
  Three more invariants rest on it, each on the one before:
  * `StatesInv`: the banks that refresh are those an action of the future will end, each
    one action, and the command that began the refresh is in the log.  That entry is
    what keeps other commands away: by `DeviceInv` they are issued no earlier than the
    table says, which is after the end.  What the table does not say, the prerequisite
    handlers must (a precharge is not asked for when the banks are not open), or the
    pace of the refresh manager.  Ends that fall due together are carried out one by one
    in the order of the scan; `Midway` says what holds between two of them, and the
    function `scan` keeps it (`ScanKeeps`).  `RefreshesHaveTheirEnd` and `DeviceIsTyped`
    follow.
  * `UsageInv`: an open bank holds just the row of the last command of the log that
    turned it, which was an activation; and activations less precharges are the open
    banks of the rank.  The power model counts over the banks as they are before the
    command, so the second needs `StatesInv`: what is activated or refreshed was closed,
    what is precharged alone was open, and no end of a refresh closes an open bank.
    `AccessesHitTheirRow` and `ActivationsBalance` follow.
  * `CyclesInv`: a rank that is idle or active has been charged for every cycle up to the
    one its state began in, one that refreshes for those up to the end of its refresh.
    Which of the three it is in is told by its open banks, its refreshing ones and the
    actions waiting for it (`AtRank`); the handlers read just these.
    `CyclesAreAccounted` follows at `finalize`, which charges for the last stretch.

  `LeadInv`, on `StatesInv` again, says which states a bank can be in: only LPDDR5 leaves
  one between two activations, and LPDDR5 leaves none refreshing.  So the handlers find
  states they have a case for (`KnownState`), and what they answer is a precharge, after
  which the banks they look at are closed (`ClosedLeads`), an activation, after which the
  row is there (`RowLeads`), or LPDDR5's synchronization, to row 0 (`SyncLeads`).
  `PrerequisitesAlwaysLead` follows: the number of steps is bounded by the handlers alone.

Assumptions are stated with the constants they are about, and TLC evaluates them on
every run of their module.  These deserve notice:

* `GrayAssumption`, evaluated for the real code.
* `TimeoutAssumption`: `TIMEOUT_CYCLES` fits the 16-bit counter; the RTL does not
  enforce it, and with a larger value a node would wait for ever.
* `SizesAssumption`: the addresses are finitely many (they are 64-bit integers), and
  `SavedAssumption`: a saved cache is one that a run of the same geometry could
  have written.
* `TablesAssumption`: the tables of a run are tidy - whole numbers, windows of at
  least one command, siblings below the channel.  They are literals in the source;
  `PresetsResolve` checks them for every preset of every device.
* `BusAssumption`: the tables of a run space the bursts, and its requests have
  an address for every level.  `PresetsResolve` checks the first half for every preset
  and finds exactly the slow DDR3 ones outside it; so may a user's own timings be.
* `RefreshAssumption`: what a request may come to (`Leads`) is kept off a refreshing bank
  by the table, by a prerequisite, or by the pace of all-bank refreshes.  All runs of
  `MCLoads` meet it; a run with the closed-row policy would not.  The policy's
  `close-row` has `PRE` for its own command (`basic_rowpolicies.cpp:61`),
  `RequireBankClosed` lets a command through on a refreshing bank, and DDR4 states no
  constraint from `REFab` to `PRE` (`DDR4.cpp:471`): the bank would be marked closed under its refresh.
* `RowsAssumption`: a bank is activated for a request that found it without a row, or all
  requests have one row.  The second is for LPDDR5, whose accesses look for row 0
  whatever row they are to (`LPDDR5.cpp:463`): its runs have one row.
* `PowersAssumption` and `CyclesAssumption`: a command is told to a rank's power model as
  what it does to the banks - an activation as `ACT`, all banks closed as `PREA`, a
  refresh as its begin and later its end.  A precharge as a request's own command is
  outside the first, as it would be counted for a closed bank as well.
* `PrerequisitesAssumption`: a prerequisite acts on the banks its handler looks at, and
  does there what was asked for; a device has either the handlers that know
  `Refreshing` or the one that knows `Pre-Opened`.  It admits LPDDR5 requests to any
  row; it is the property that speaks of row 0 only there.
* `RefreshLagAssumption`: the controller issues a refresh at most `RefreshLag` cycles after
  it was sent.  Where the pace is what keeps refreshes apart (`PacedApart`), nREFI less
  that must cover nRFC; a controller whose active requests held a refresh for longer
  would be outside of it.

Model-checked only:

* liveness (`WordsSeen`, `RoomSeen`, `RoundEnds`, `BuffersDrain`), as TLAPS 1.4.5 has
  no `ENABLED`;
* the Gray code itself at every width, a recursion over bits;
* `PresetsResolve`, which computes the tables of 1,133 presets.

## 5. What is not modelled, and the plan

Left out of the modelled parts: statistics, stall accounting, voltages and
currents, trace and report output, the arithmetic of max, sum, exponent and
normalisation, the reading of trace files, latency histograms.  `GDDR6.cpp` is not in
the build.  `PROJECT.json` gives a reason for each component left out; hazards
without a property say what is missing.

In order:

1. `ReadsReachCaller` and `ReadsSeeOlderWrites` fail as the code stands; the
   weaker statements that hold (plain reads only, older writes of another buffer)
   stated, run and proved in `DramControllerProofs`.
2. `InluPhases`: the four phases of `inlu_core.sv` with the width of the
   comparison at line 135, and its composition with `DistributedReduce`.
3. `ReduceNetwork`: several nodes of the reduction and several rounds over a lossy,
   delaying network, refining an abstract all-reduce; words of abandoned rounds.
4. `CxlFabric`: switch ports and event heap.
5. Random translation with its pool of pages, in front of `O3FrontEnd`; the
   starvation of a core whose quota `BlockHammer` sets to zero or less.
6. Closed-row policy and several ranks in the controller; RowHammer plugins.
