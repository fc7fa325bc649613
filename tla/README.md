# Verification of the GVSoC models for PULP

GVSoC simulates chips of the PULP family. The simulation engine, the interfaces
and the instruction-set simulator come from other repositories; this one holds
the C++ models of the PULP components (event unit, timers, DMAs, networks,
accelerators), the PULP-specific parts of the cores, and the Python that
assembles chips from them.

This project models the parts of it where the order of things matters most:

* the hardware event unit of the cluster, through which every core of a cluster
  sleeps, wakes up, meets the others and takes its interrupts, together with the
  event load (`p.elw`) of the RI5KY core that sleeps on it;
* the way of a SoC event to the fabric controller (SoC event unit and interrupt
  controller);
* the synchronisation tree of the MAGIA mesh;
* the timer;
* the third iDMA, from its registers to its AXI managers.

## 1. Inventory

### How a model runs

A component is a C++ object with ports. A call on a port (`req`, `sync`) runs to
its end before anything else happens, so each call is atomic; it may call back
into other components, and those calls are part of the same step. Delays are
clock events: `event_enqueue(e, n)` has a handler run `n` cycles later, and an
event that is pending already can only be moved to an earlier cycle. All the
concurrency is in the order of calls within a cycle (the cores issue their
accesses in an order no model may rely on) and in what happens between a call
and the clock event it enqueued.

### The event unit (`models/ips/pulp/event_unit/v3`)

| part | state | operations | interacts with |
|---|---|---|---|
| core unit (`core_event_unit.cpp`), one per core | event buffer `status`, masks `evt_mask` and `irq_mask`, `clear_evt_mask`, wait state, parked request, interrupt line, two clock events | mask and buffer registers, wait reads, `check_state`, wake-up and interrupt wake-up handlers, interrupt acknowledge | answers the parked read of its core, drives its interrupt wire |
| top (`event_unit.cpp`) | `resp_port` of each core unit | demux and shared ports, software events, input events | dispatches to all the others |
| mutexes (`mutex_unit.cpp`) | `locked`, `waiting_mask`, `value`, `elected`, `elect_cycle` | lock read, unlock write | puts core units to sleep, raises the mutex event, cancels a wake-up (`unwake`) |
| barriers (`barrier_unit.cpp`) | `core_mask`, `target_mask`, `status` | mask and status writes, triggers, trigger-and-wait reads | waits in the core unit, raises the barrier event |
| dispatch FIFO (`dispatch_unit.cpp`) | ring of items with `status_mask`, `config_mask`, `waiting_mask`; head, a tail per core | team configuration, push, pop | like the mutexes |
| SoC-event FIFO (`soc_event_unit.cpp`) | ring with head, tail, free count | push from the SoC, pop | raises its event on every push, on every pop that leaves something, and on every clear of any core unit |

### The event load (`cpu/iss_v2/src/cores/ri5ky/lsu.cpp`)

`p.elw` is a load whose answer may come much later. If the event unit parks the
request, the core stops (`retain_inc`). It goes on in one of two ways: the event
unit answers (`req_retire_hook`, `elw_wake`), or it raises the interrupt wire, and
the core frees the request, takes the interrupt and replays the load
(`irq_req_hook`, `elw_irq_unstall`).

### SoC events (`models/ips/pulp/soc_eu/soc_eu.cpp`, `pulp/itc/itc_v1_impl_v2.cpp`)

The SoC event unit hands each event that is not masked to the interrupt
controller of the fabric controller (FC). While the controller's ring is full it
keeps events in a queue, at most four of each number, and drops the rest. The
controller raises the interrupt of the ring when an event finds it empty and when
a read leaves something in it, tells the event unit when a full ring gets room,
and drives the highest pending interrupt over a wire to the core.

### FractalSync (`pulp/chips/magia_common/fractal_sync*`)

Nodes in a tree, each with four ports below (north, south, east, west) and two
above. A request carries an aggregate (the levels at which tiles are joined) and
an identifier. A node joins the requests of two opposite ports, then answers both
or asks above; requests that come while its state machine is busy are queued.
Answers go down by the identifiers the nodes remember.

### Timer (`models/ips/pulp/timer/timer_v2.cpp`)

Two counters, or one of twice the width, with compare values, prescalers and a
choice of clock. Nothing is counted cycle by cycle: each access adds the cycles
since the last one, and one clock event, shared by the counters, is enqueued for
the next match.

### iDMA v3 (`models/ips/pulp/idma_v3`)

| part | state | operations |
|---|---|---|
| register front-end (`fe/idma_fe_reg.cpp`) | registers of each port, `next_id`, `done_id`, denied launches, busy wire | launch, retry of denied launches, counting of completions |
| ND mid-end (`me/idma_me_nd.cpp`) | queue of requests, line being handed over | push, `peek_1d`, `take_1d`, `complete_1d` |
| legalizer (`be/idma_legalizer.cpp`) | what is left to cut of a line on either side | takes a line, cuts a read and a write burst per cycle |
| data path (`be/idma_be.cpp`, `be/idma_buffer.cpp`, `be/idma_fifo.hpp`) | FIFOs of bursts, buffer, tick event and remembered wakes | read beats in, write beats out, completion of bursts |
| AXI managers (`be/idma_axi_read.cpp`, `be/idma_axi_write.cpp`) | bursts in flight, denied bursts and beats, address credits | issue, retry, beats, acknowledges |

Nothing polls: the back-end moves in a tick that whatever ends a stall has to ask
for.

### What is hard here, and what makes it correct

* A wake-up may be lost between the test of a mask and the sleep, or because the
  unit and the core disagree about who is asleep: *no core sleeps for ever on an
  event that is in its buffer*.
* An event and an interrupt compete for a sleeping core: *a read the core has
  abandoned is never answered*.
* The value of a read is taken, and the events cleared, at another time than the
  one at which the core gets it: *no event is dropped unseen*.
* A mutex may be taken over in the cycle in which it was given: *one holder, no
  waiter forgotten, the word handed from the one to the other*.
* A barrier read interrupted and replayed must not count twice or not at all:
  *nobody is through before everybody has arrived*.
* Rings and queues at their limits: *a FIFO is a FIFO, in order and complete*, also
  over the two stages on the way to the FC.
* An interrupt acknowledged while its cause grows: *no event without an interrupt
  to come*.
* Requests of several teams in one tree: *a barrier for each team*.
* Counters updated late and one event for two of them: *counting late is
  counting, and no match comes late*.
* An event-driven data path: *nothing sleeps that could move*; *every word goes to
  its place, every completion is counted in its turn*.

`PROJECT.json` lists these hazards at their lines, with the properties that
cover them.

### The rest of the repository

The earlier iDMAs, MCHAN, uDMA, FlooNoC (three variants), cluster interconnect and
control, the MAGIA tile blocks, the accelerators, the other cores, peripherals,
and the Python chip descriptions. `PROJECT.json` gives the sources of each and why
it is not modelled. Most of the lines of the repository are in those:
instruction semantics, tensor arithmetic, vendored libraries, I/O.

## 2. Modules

| module | what it is |
|---|---|
| `CoreEventUnit` | the core unit: a record, and an operator for each method, so that a handler that calls several is their composition. No variables |
| `ElwCore` | the RI5KY core as the event unit sees it, and the interrupt wire between the two. No variables |
| `EventWait` (`MCEventWait`) | specification: core units, cores, both ports, peripherals |
| `EventWaitProofs` | proofs about `EventWait` |
| `HandoffLock` | abstract specification: what a mutex promises |
| `MutexUnit` (`MCMutexUnit`) | specification: mutexes and core units; implements `HandoffLock` |
| `MutexUnitProofs` | proofs about `MutexUnit` |
| `BarrierUnit` (`MCBarrierUnit`), `BarrierUnitProofs` | specification: barriers, core units, interruptible cores; its proofs |
| `DispatchUnit`, `DispatchUnitProofs` | specification: dispatch FIFO and core units; its proofs |
| `SocEventUnit`, `SocEventUnitProofs` | specification: SoC-event FIFO of the cluster and core units; its proofs |
| `Itc` | the interrupt controller of the FC: its variables and an action for each method |
| `SocEvents`, `SocEventsProofs` | specification: SoC event unit, `Itc` and the FC; its proofs |
| `TeamBarrier` | abstract specification: what a synchronisation network promises |
| `FractalSync` (`MCFractalSync`) | specification: a tree of nodes and the controllers of the tiles; implements `TeamBarrier` |
| `TimerUnit` (`MCTimerUnit`), `TimerUnitProofs` | specification: the timer; its proofs |
| `TimedFifo` | the queue between the blocks of the iDMA. No variables |
| `IdmaFront`, `IdmaBack` | the two halves of the iDMA as operators on one record. No variables |
| `Idma` (`MCIdma`), `IdmaProofs` | specification: the iDMA, its software and the bus; its proofs |

### From the code to the modules

* A 32-bit mask is a set of event, interrupt or core numbers; no arithmetic is done
  on masks, and the highest bit (`__builtin_clz`) and the lowest (`__builtin_ctz`) are
  `Highest` and `lowest`.
* An enqueued clock event is the number of cycles to it (`wakeup`, `due`, `tick`...), and
  a marker when it is not enqueued. A cycle passes once nothing is due in the
  present one, so that clock events run in their cycle and, within a cycle, in any
  order among the other accesses. Other stored cycle numbers are distances too.
* `pending_req` is `live` while the core waits for it and `freed` once the core got
  its answer or abandoned it: an answer to a freed request reaches nobody in the
  model, where in the simulator it touches a pool entry that may be in use again.
* `check_state()` is called at the end of nearly every handler and is part of each
  action. The interrupt wire is a call too: every action ends by running the
  `irq_req` hooks of the cores (`SettledUnits`, `SettledCores`).
* The cores are programs in the widest sense: at each point any access that makes
  sense is possible. `stall` is the least number of cycles before the next access;
  an access may always come later.
* The registers that only read, and the `UNIMPLEMENTED` areas, change nothing and
  have no action. In the timer every read synchronises, and `Read` is an action.
* `trigger_event` of the SoC-event FIFO re-enters itself through `clear_status`;
  `raised` is its effect once the nested calls have returned.
* The call of the interrupt controller to a SoC event unit with queued events, and
  the events that unit sends back, are part of the read of the ring (`ReadFifo`).
  The loop of `sw_event_req` has an action per turn, which nothing interrupts.
* In `FractalSync`, a request that climbs over idle nodes, and an answer that descends,
  are the recursive operators `climb` and `descend`: the calls between nodes are
  synchronous. All delays are 1, so clock events of different nodes run in any order.
* The timer is one record transformed by the functions of the code; the width of a
  register is the constant `M`. `ideal` is a history: the counters counted each cycle.
  What an access does to the timer it does to one with those counters too (`Exact`),
  so that a reconfiguration cannot hide a cycle that was lost or counted twice.
* The iDMA is one record as well. Addresses and lengths count words of the bus, so
  that the byte lanes of the buffer go together. The bus may grant, deny or delay
  each burst and each beat; it answers the bursts of one side in order.
* Operators marked `Faulty` are variants of the operator below them with one
  plausible bug, used to see that the properties notice it. No specification uses
  them.

## 3. Runs

### Passing

| run | instance | shows |
|---|---|---|
| `event_wait` | 1 core, 2 events, either of them an interrupt or not | a core that sleeps while its event is pending, interrupts enabled or not, or an enabled interrupt, has a wake-up scheduled, and leaves its sleep (`NoLostWakeup`, `EventWakes`, `IrqWakes`), with one exception (`Unheeded`, see the observations); an abandoned read is never answered (`AnswersOnlyParkedReads`); an event leaves the buffer only when the core gets it or clears it, with one exception (`NoEventDropped`, see the observations) |
| `mutex` | 3 cores, 2 mutexes, 2 words | mutual exclusion (`MutualExclusion`), election order (`ElectsFirst`), no lost lock (`NoLostLock`), waiters asleep with their unit ready to be woken, after take-overs too (`WaitersSleep`), refinement of `HandoffLock` (`HandsOff`), the lowest core is served (`LowestGetsIt`) |
| `barrier` | 3 cores, a barrier of all and one of two, programs of 2 or 3 passages without interrupts; and 2 cores, one passage, interrupts at any time | nobody is through early (`NoEarlyRelease`), no arrival is lost or counted twice, with interrupts until the first release (`StatusIsArrivals`), a release is good for one barrier (`ReleaseConsumed`, without interrupts), no wake-up is lost (`NoLostWakeup`), everybody gets through but for a core whose answer was lost (`AllPass`, `AnswerLost`: see the observations) |
| `dispatch` | 1 master, 2 readers, FIFO of 2, 4 items | each reader gets exactly the items of its teams, in order |
| `soc_fifo` | 2 cores, ring of 3, 5 events | FIFO order over two wrap-arounds and a full ring, nobody oversleeps |
| `soc_events` | ring of 2, one waiting event per number, 2 event numbers, another interrupt | order through ring and queue (`InOrder`), the queue is in use only while the ring is full (`QueuedOnlyWhenFull`), drops only when the limit is really reached (`WaitingIsCounted`), the request at the core is never stale (`WireIsCurrent`), no event without an interrupt to come (`RaisedOrServed`), each event is read (`EachTaken`) |
| `fractal_sync` | 2x2 mesh, every pair of rows, columns, diagonals and all, over both trees | the tree implements `TeamBarrier` (`IsTeamBarrier`), nodes end as they started (`NothingLeftOver`), everybody gets through |
| `timer` | registers of 3 values, both counters and the cascade, prescaler, reference clock, 4 writes | late counting is counting (`CountsEveryCycle`), the shared event is in time for each counter (`ArmedInTime`), a running counter interrupts (`MatchRaisesIrq`) |
| `idma` | 2 ports, 2 transfers out of 4 shapes, buffer of 1, pages of 2 words, raw coupling | each word is copied once, in order, to its place (`WordsInOrder`), completions are counted in order (`DoneIdTracks`), no stall without a wake (`NothingSleeps`), the busy wire covers all work (`BusyCovers`), everything ends (`AllDone`) |

Every module states its type invariant as documentation. No run checks one; where a
module has proofs, its type invariant is proved (`TypeCorrect`).

### Where the code and its documentation disagree

Each of these runs checks one property that a comment or a document of the
repository states, and ends with a counterexample. The quotations are in
`PROJECT.json`.

| run | what happens |
|---|---|
| `barrier_twice` | after an interrupt in the first passage a core passes the second one alone: the answer of `SKIP_ELW` leaves the barrier event in the buffer, or the replay leaves an arrival |
| `timer_prescaler` | every access restarts the division of the clock by the prescaler, so that a counter that is looked at often is slow |
| `idma_zero` | a transfer without length that is launched behind another is counted before it |

The passing runs keep away from these: the interrupted plan of `barrier` has one
passage, `CountsEveryCycle` is about counters without prescaler, and the transfers of
`idma` have a length. One passage is enough for an interrupt to leave a core behind;
`AllPass` names the state in which it is (next section).

### Observations

Modelling the code showed more that software or a maintainer has to know. The
modules state these as assumptions on the environment, and each can be seen by
lifting the assumption.

Event unit:
* `Event_unit::req` sets `resp_port` of a core unit on every shared-port access
  (`event_unit.cpp:71`): an access to a sleeping core redirects the answer of the read
  it parked through the demux port. In `EventWait` the shared port reaches only cores
  that are awake.
* An interrupt request for a core that sleeps with interrupts disabled makes its
  unit active (`core_event_unit.cpp:316`); the event it waits for then never wakes it.
  `EventWait` lets software disable interrupts. `NoLostWakeup` and `EventWakes` name this
  state (`Unheeded`: an active unit with an interrupt pending, and interrupts disabled)
  and show that a core with interrupts disabled is left asleep in no other.
* The last core to arrive at a barrier has its answer scheduled while it is still
  interruptible (`core_event_unit.cpp:233-245`): the unit stays active, so that an
  interrupt makes the core abandon the read, and the answer comes all the same,
  against the contract in `lsu.cpp:94-97`, and reaches nobody. The replay is one arrival
  too many. If the read was a `trigger_wait_clear`, the barrier event went with the lost
  answer, and **the core may sleep for ever**: with two cores, the first asleep, the
  second arrives last, is interrupted within two cycles, and its replay leaves it
  alone in the status of a barrier the other core has left. A core that is asleep, on a
  `wait_clear` too, meets the same fate if its release and its interrupt wake-up fall
  due in one cycle and the engine runs the interrupt first. With `trigger_wait` the
  event stays in the buffer and the replay gets through. `AllPass`
  excepts the cores in this state (`AnswerLost`: interrupted with the answer to a
  clearing read under way) and no others.
* `SKIP_ELW` answers whatever the core accesses next, not only the replay it is meant for
  (`event_unit.cpp:172-176`): an access of the interrupt handler before the replay is
  swallowed. The state is also entered while an answer is scheduled, when an interrupt
  and then an event come in the cycle before it (`core_event_unit.cpp:335-337`); the read
  is then answered normally, and the program's next access, a register write say, is
  swallowed. `EventWait` has these steps (`OwnWrite`, `TriggerSwEvent` in `skips`).
* A wait-and-clear read that is abandoned for an interrupt and whose replay is
  answered in state `SKIP_ELW` (`event_unit.cpp:172-178`) leaves `clear_evt_mask` as it
  was. A later wait that does not clear then clears those events
  (`core_event_unit.cpp:190-194`), among them one that its core never sees if the event
  mask was changed in between. `NoEventDropped` names this exception (`LeftBySkip`), and
  everything else is excluded.
* The safety of an interrupted event load rests on the refill of the pipeline. With
  `ResumeCycles` = 2, TLC finds `NoLostWakeup` of `EventWait` violated: an interrupt wake-up
  that is still enqueued reaches the core when it sleeps on its next read already.
  `pulp_open_v2` configures 3; the default of `lsu.cpp:71-80` is shorter.
* Any event of the event mask answers a parked lock or dispatch read
  (`core_event_unit.cpp:333`): in `MutexUnit` and `DispatchUnit` no other event comes.
* Writing `TARGET_MASK` of a barrier before the trigger mask releases the barrier,
  since 0 = 0 (`barrier_unit.cpp:60`): `SetTargetMask` comes second.
* A push does not look at `status_mask` (`dispatch_unit.cpp:74`): the guard of `Push`
  is the care of the master, who knows the depth of the FIFO.
* A barrier released during the handler of a waiting core leaves its unit in
  `WAITING_BARRIER` (`core_event_unit.cpp:233`), so that its next arrival is taken
  for a resumption; this, too, needs a second passage.
* A pop of the SoC-event FIFO shifts 1 by `fifo_soc_event` without the test for -1 that
  `check_state` has (`soc_event_unit.cpp:75`).

SoC events:
* Any access to `SW_EVENT`, a read too, triggers the events of its bits
  (`soc_eu.cpp:213`).
* The reset of the interrupt controller keeps what input lines have ever signalled
  in its status (`itc_v1_impl_v2.cpp:377`).

FractalSync:
* Answers are routed by identifier alone (`fractal_sync.cpp:508`): if two teams use one
  identifier in successive synchronisations that overlap (diagonals, then rows, say),
  a tile may be woken early. The runs give each kind of synchronisation its own.
* A request that leaves the queue of a node and is handed on enqueues no event
  (`fractal_sync.cpp:501-533`): what is queued behind it waits for the next request.
  This needs a tree of three levels.
* The west port tests the aggregate of the east one (`fractal_sync.cpp:329-364`); the model
  keeps this, and the run passes with it.

Timer:
* With the reference clock, the prescaler divides by PVAL, not by 1 + PVAL, and PVAL = 0
  stops the counter for 2^32 edges (`timer_v2.cpp:323-342`).
* A register write in the cycle of a match raises the interrupt again
  (`timer_v2.cpp:261`).
* In cascade with the reference clock the upper half still counts clock cycles when
  counter 1 is enabled (`timer_v2.cpp:187-190`).
* The busy wire carries the last counter changed, not whether one runs
  (`timer_v2.cpp:248-256`).

iDMA:
* With `raw_coupling`, a transfer with `decouple_rw` and without `decouple_aw` whose writes
  are cut into more bursts than its reads never ends: addresses of writes wait for
  first beats of reads (`idma_axi_write.cpp:110-186`), and the comment in
  `idma_be.cpp:308-310` that every stall is released by an event does not hold. The
  transfers of the run that decouple one decouple both.

### Bounds

* Cores: the protocol of a core unit is between the unit, its core and the
  environment, which one core exercises fully. Three cores are the least with a
  third one waiting during a take-over, and the least with two teams that overlap.
* Events: two, each of which may be masked as event, as interrupt, as both or as
  neither.
* `ResumeCycles` is the refill of the pipeline after an answer: 3 for the cluster of
  `pulp_open_v2` (`lsu_elw_resume_cycles=2`, plus one). The theorems about `EventWait` hold for every
  value above `EU_WAKEUP_LATENCY` = 2.
* `dispatch`: `MaxPush` = 4 wraps a FIFO of 2 twice. `soc_fifo`: `MaxEvents` = 5 wraps a
  ring of 3 and fills it. `barrier`: programs of 2 and 3 passages reuse a barrier, with
  another one in between.
* `soc_events`: `MaxEvents` = 4 fills the ring of 2 and puts two numbers in the queue;
  with `MaxWaiting` = 1 the next one is dropped. `MaxInputs` = 1 is one other interrupt or
  one access to `SW_EVENT`. A reset starts over, at any point.
* `fractal_sync`: two synchronisations, so that tiles of the second are in the tree with
  tiles of the first; eight identifiers, one per team of each kind.
* `timer`: `M` = 3, so counters wrap within `MaxElapsed` = 6 cycles and a cascade of 9 values
  has a carry; `MaxWrites` = 4 configures both counters and changes both. `Tick` keeps the
  cascade below M * M, as the code relies on 64 bits not to wrap.
* `idma`: `MaxLaunch` = 2 and `req_fifo_depth` = 1 deny and retry launches; `IdMod` = 4 wraps
  `next_id` (`done_id` would wrap with a third transfer, which is beyond TLC); pages of 2 words with sources and destinations apart cut the sides
  differently; 3 write contexts and 2 bursts in flight get exhausted.

### Fairness

* Weak fairness of `Tick`, `Wakeup` and `IrqWakeup` (event unit), `Tick` and `event_handler`
  (timer), `Cycle` and the events that are due (iDMA): the clock engine always advances
  and runs every enqueued event.
* `mutex`: a holder eventually unlocks (weak fairness of `Unlock`); the lock promises
  nothing if it does not. No core is assumed to ask.
* `barrier`: every core goes on with its program, which is strong fairness of `Step`:
  a step of one core is disabled for a while each time another access stalls it. A
  core takes an interrupt that stays requested. `AllPass` has as its premise that from
  some point on no core is in an interrupt handler: interrupts that never end keep
  any program from going on.
* `dispatch`: the readers keep reading. `soc_fifo`: strong fairness of `Pop`, as a core
  that sleeps now and then cannot pop in between.
* `soc_events`: the FC takes an interrupt that is requested again and again (strong
  fairness of `TakeIrq`: higher ones come in between), its handler reads the ring at
  least once and returns, and it unmasks the interrupt of the ring in the end. The
  events themselves are not fair: none has to come.
* `fractal_sync`: weak fairness of `Next`; tiles and nodes have finitely many steps to take,
  so nobody can be starved by another.
* `idma`: the bus eventually retries what it denied, answers reads and acknowledges
  writes. Weak fairness of those is written out as "again and again disabled, or again
  and again taken", for TLC's sake.
* Liveness under `MaxInputs`, `MaxWrites` and the like is about what happens after the
  last of the bounded inputs as much as between them; none of those inputs is fair.

## 4. Proofs

TLC checks small instances; the theorems hold for every value of the constants that
the assumptions admit: any number of cores, events, entries and items, any width of
a register. The assumptions are those of the modules (`CoreAssumption`,
`EventAssumption` and so on): event numbers are bits of a 32-bit word, a ring has a
slot, special values are none of the ordinary ones. The runs evaluate them.

| module | theorems, with the property of the run they generalise | further hypothesis |
|---|---|---|
| `MutexUnitProofs` | `TypeCorrect`, `MutexSafe` (`MutualExclusion`), `ElectionOrder` (`ElectsFirst`), `LocksKept` (`NoLostLock`), `WaitersAsleep` (`WaitersSleep`), `MutexRefinesLock` (`HandsOff`) | none |
| `EventWaitProofs` | `TypeCorrect`, `OnlyParkedReadsAnswered` (`AnswersOnlyParkedReads`), `NoWakeupLost` (`NoLostWakeup`), `EventsAccounted` (`NoEventDropped`, an action property) | `SlowRefill` |
| `BarrierUnitProofs` | `TypeCorrect`, `LastArrivalReleases` (`NoEarlyRelease`), `StatusCounts` (`StatusIsArrivals`), `ReleaseUsedOnce` (`ReleaseConsumed`), `ReleaseWakes` (`NoLostWakeup`) | no interrupts (`~WithIrq`, in the statements) |
| `DispatchUnitProofs` | `TypeCorrect`, `ItemsInOrder` (`InOrder`), `SleepsOnlyAtHead` (`SleepsAtHead`) | none |
| `SocEventUnitProofs` | `TypeCorrect`, `RingOrder` (`RingIsFifo`), `NoOversleep` (`NobodyOversleeps`) | none |
| `SocEventsProofs` | `TypeCorrect`, `EventsInOrder` (`InOrder`), `QueueOnlyWhenFull` (`QueuedOnlyWhenFull`), `DropsAreExact` (`WaitingIsCounted`), `WireStaysCurrent` (`WireIsCurrent`), `NoInterruptLost` (`RaisedOrServed`) | none |
| `TimerUnitProofs` | `TypeCorrect`, `LateCountIsExact` (`CountsEveryCycle`), `ClockEventInTime` (`ArmedInTime`) | none |
| `IdmaProofs` | `WordsCopiedInOrder` (`WordsInOrder`), `BusyCoversWork` (`BusyCovers`), `IdmaNeverSleeps` (`NothingSleeps`) | none |
| | `DoneIdCountsInOrder` (`DoneIdTracks`) | transfers have a length (`NonEmpty`, in the statement) |

Each module proves its inductive invariant `IInv` in `Invariance`, one lemma per
action, and the other theorems from it. `IdmaProofs` has an invariant for each of its
theorems instead, because each is about other parts of a large record.

### The core units

Five of the modules use the core units, and go about them in the same way. A unit
has a few shapes (awake, asleep with nothing scheduled and ready to be woken,
elected with its answer scheduled), and one lemma per method says how it moves a
unit between shapes. The lemmas about the component then speak of shapes only.

### Mutexes

That two cores do not hold the same mutex depends on which cores are about to be
answered, and that on the state of their units. `IInv` relates shapes and mutexes: a
core that asks for nothing is awake (`CoreInv`); the waiting mask is the set of the
cores asleep on the mutex (`WaitInv`); a mutex is locked exactly when the core in
`elected` holds it or is elected for it, with the word of the mutex in its request
(`OwnerInv`); in the cycle of an election the elected core has not been answered and
is lower than all waiting ones (`CycleInv`), which is what makes the take-over safe.

The refinement maps the word of a mutex to `value` and what a core got to the data
of its request while it holds the mutex: a lock read is an `Ask`, the wake-up an
`Acquire`, an unlock write a `Release`, a cycle a stutter.

### Waits and interrupts

`IInv` lists the joint states of a unit and its core (`Shape`): `Running`, `Asleep`,
`IrqWaking` (an interrupt wake-up is under way), `Elected` (the answer is under way,
and comes before an interrupt wake-up that is under way too), and `Stuck`, the state
of a core with interrupts disabled whose unit takes it for active and has an
interrupt for it, which `NoLostWakeup` calls `Unheeded`. What the pairs
have to agree on is who is parked, whether the request is live, and what the irq
wire says (`WireKnown`).

`Running` holds a fact about time: while an interrupt wake-up is enqueued for a core
that runs, the core will not issue an access before it (`stall > irq_wakeup`). This
is where `SlowRefill`, `ResumeCycles > EU_WAKEUP_LATENCY`, is needed, and it cannot be
dropped: see the observations. `pulp_open_v2` satisfies it.

`EventsAccounted` takes the same case distinction for the events that leave a buffer
in a step, each method saying what it removes.

### Barriers

The properties are false for plans with interrupts and several passages
(`barrier_twice`), so the theorems are about plans without interrupts: any number of
cores and barriers, any teams, programs of any length, any mix of the three reads and
of triggers by the core itself or by another.

A core that has arrived is anywhere between its trigger and its answer, and a release
reaches it running or asleep. `CoreInv` says that it waits (`Waits`) as long as its bit is
in the status of its barrier and goes on (`Goes`) from then on; between two barriers its
buffer holds what its software has still to clear and nothing else. `Masks` and `Bits` say
that a barrier is set up before anybody arrives, that its status is of cores that have
come and not left, and that it is never the whole team: `check_barrier()` has run by
then. `Counted` says that the team has arrived in the same number of rounds, the cores of
the status once more. `LastArrivalReleases` and `StatusCounts` follow by counting: nobody
has passed in more rounds than the slowest has arrived in. The proof has one lemma for
an arrival (`ArrivalStep`), which both the trigger write and the trigger-and-wait read
come down to, and one for a passage (`PassStep`), for the answer and the wait read.

### Dispatch FIFO

Tails and status bits do not say how far a reader has come: a tail at the head means
that everything is read, or nothing of a full turn. `IInv` says that *there are*
positions, at most a turn behind the head, which explain the tails (`Placed`), the
entries and their status bits (`Stored`), the sleepers (`Parked`) and what was read
(`Given`). A push moves the positions of the sleepers, a read moves its own position
past the items it bypasses; that the bypass stops where it should is `BypassEnd`, and
that no two of the last `size` items share an entry is `ModInjective`. `InOrder` and
`SleepsAtHead` say by sets, not by a recursive filter, which items a core has to get
(`due`, `Lists`), so that they can be proved.

### SoC-event FIFO of the cluster

The ring keeps head, tail and free count apart; `RingInv` says that the head is where
the tail and the count put it, and the content is what lies between (`Words`). While
the ring holds something the event is in the buffer of every core (`Signalled`), in
spite of the clears, each of which raises it again: this is the strengthening that
`NobodyOversleeps` needs.

### SoC events and interrupt controller

The properties of the run are inductive together: the order needs the queue to be
empty while the ring has room, that needs the refill of a whole call to be exact,
the refill counts down what it sends, and an acknowledge leaves events behind only
to a handler that has still to read. Most of the proof is about `ReadFifo`, a read with
the refill it causes (`ReadFifoWay`).

### Timer

`CountsEveryCycle` and `ArmedInTime` are inductive together with the type invariant and
`NoWrap`, that the cascade stays within two registers. By the first the exact timer is
the synchronised one (`ExactIs`), so that each access, which begins by synchronising,
makes the same of both. The work is in arithmetic: remainders of sums (the counters
wrap), quotients (the cascade carries), an edge of the reference clock counted before
or after the cycles of the clock (`EdgesLate`), and the distance to a compare value.

### iDMA

The iDMA is one record, and its actions are compositions of the operators of
`IdmaFront` and `IdmaBack`. The proof follows that: for each operator a lemma on what it
leaves alone (`SameCopy`, `SameBus`, `SameSlots`, `SameTimers`...) and one on what it does to
the rest, and for each action their composition. The parts that are not touched are
most of the record, so an invariant per theorem keeps each lemma to the fields it is
about.

*Data* (`DataInv`). All words of all transfers launched, line after line, are one stream;
`WordsBefore` says where a transfer starts in it and `Place` where a word is. The words
handed to the legalizer are a prefix of the stream (`Handed`, `Queued`), and on either side
of the back-end what is cut and waits in the queue of bursts are consecutive parts
of it, without gap or overlap, that end where the legalizer has stopped cutting
(`Stream`). The read side has come as far as the words written and buffered, the write
side as far as the words written. So the first word of the buffer is the one the next
write beat is for, although the two sides are cut at different pages and served at
different times. The sums over transfers (`WordsBefore`) and the retries of all ports
(`stream_ready`) are recursive functions on an initial part of the numbers. Most lemmas need one
unfolding of them; what holds for every argument is proved from a smallest
counterexample (`NatHasMin`), which takes the place of induction.

*Busy wire* (`BusyInv`). The wire goes low in a completion that finds `is_busy` false. That
it stays truthful needs more than `is_busy` looks at: no read is under way, no burst is
denied and no acknowledge is due either (`Idle`), or a late answer of the bus would start
work behind a low wire.

*Completions* (`DoneInv`). `wlast` has a slot for each write burst that is not acknowledged: first
those whose data has left (`Unacked`, a last beat that is held included), then those of `w_fifo`
(`Owed`). The transfers of the slots go up one by one from the first that is not counted
to the one whose writes are being cut (`Counted`, `Acks`). `NonEmpty` cannot be dropped: a
line without words completes without a slot, ahead of those that wait, which is the
violation that `idma_zero` shows.

*Wake-ups* (`WakeInv`). The tick is never later than a remembered wake (`Timers`), an entry of the
mid-end that is not yet visible has a wake remembered for the cycle it becomes so
(`Waits`), what the next cycle changes for the back-end, a freed slot or a delayed push,
has a wake for the next cycle (`Unsettled`), and without a tick the back-end cannot move
(`Stuck`). Transfers without length are included.

### Only model-checked

* Liveness: `EventWakes`, `IrqWakes`, `LowestGetsIt`, `AllPass`, `EachDelivered`, `EachPopped`,
  `EachTaken`, `MatchRaisesIrq`, `AllDone`. Fairness and `ENABLED` are out of the prover's reach.
* `FractalSync` (`NothingLeftOver`, and `IsTeamBarrier`, its refinement of `TeamBarrier`): `climb` and
  `descend` are recursive operators, which the prover cannot use.
* `BarrierUnit` with interrupts. `NoEarlyRelease` and `StatusIsArrivals` then depend on how
  often a plan passes a barrier (`barrier_twice`); `NoLostWakeup` with interrupts is
  checked on one passage of two cores.

## 5. Not modelled

* Event unit: a reset of a running cluster (`reset()` does not cancel clock events, and
  what the engine does with them is decided elsewhere); interrupts during mutex and
  dispatch reads; wait reads through the shared port, and shared-port accesses to
  sleeping cores.
* SoC event unit: the targets other than the FC, which no event can reach.
* FractalSync: the error answer to a request that names only levels below its node;
  the wires between neighbouring tiles (`fractal_sync_mm_ctrl.cpp:265-281`); trees of more
  than two levels.
* iDMA: the OBI managers and port groups, the Snitch front-end, bytes within a word
  and error answers, a read burst answered within the call (`IO_REQ_DONE`,
  `idma_axi_read.cpp:175-180`), the completion wires (`idma_fe_reg.cpp:439-453`), several
  streams, resets. A word is known by its place in its line, and the strides from line
  to line are taken as the mid-end computes them: `WordsInOrder` would not notice a
  wrong stride.
* The timing of the simulator beyond clock events and the refill; decoding of
  offsets and sizes.
* The components listed as such in `PROJECT.json`: instruction semantics, tensor
  arithmetic, serial protocols and I/O are data, on which a model checker says
  little; FlooNoC, MCHAN and uDMA have control worth modelling and are in the plan.

## 6. Plan

1. Proofs: `BarrierUnit` with interrupts, for plans of a single passage, and its
   `NoLostWakeup` for all plans; the safety of `FractalSync` after a restatement of
   `climb` and `descend` without recursion.
2. More of the system: routers of FlooNoC with bounded queues and back-pressure, the
   OBI side of the iDMA, MCHAN, the channels of uDMA, `obi_cut` and `l2_port`.
3. More of the event unit: mutexes and dispatch with interruptible cores and with
   other events in the mask; the CV32E40P variant of `ElwCore`.
