# A TLA+ verification project for accel

accel is a Go library for GPU compute and rendering: a device hands out memory,
a caller records a *command graph* over it, `Build` turns the recording into a
plan, and queues run built graphs on a backend (a CPU device, Metal). Buffers,
pools, graphs and fences are used from many goroutines. This directory models
the parts whose correctness is a matter of order and concurrency, checks them
with TLC on small instances, and proves some of them with TLAPS for every
instance. Paths below are relative to `src/`; `map` in `PROJECT.json` gives the
lines behind every definition.

## 1. Inventory

| Component | State it keeps | Operations | What is hard | What makes it correct |
|---|---|---|---|---|
| Recording (`record.go`, `compute.go`, `pass.go`, `transfer.go`) | nodes in record order, the accesses and ranges each declared, slots, first and last users | `Dispatch`, `Copy`, passes, `Build` | validation spread over many entry points | what Build consumes is what was declared |
| Edge inference (`infer.go`) | per resource: pending writer and reader spans; edges; reachability rows | `inferEdges`, `reachability`, `assertAcyclic` | spans are dropped when covered, partial overlap | every conflict ends up ordered, and nothing else is linked |
| Barrier planning (`barrier.go`) | per exact range: written and read since the last barrier; barriers before nodes | `planBarriers`, `planSerialBarriers` | one barrier serves all of a node's needs and clears every range | every conflict is separated by a barrier, no barrier is idle |
| Transient packing (`alias.go`, `build.go`) | offsets in one pool, handover barriers, memory report | `checkTransientsAreWritten`, `planTransients`, `planHandovers`, `BuildNaive` | transients may share bytes when one is wholly ordered before the other | aliasing never changes what a node reads |
| Suballocators (`internal/alloc`) | blocks, free lists and bitmaps, counters; a cursor | `Alloc`, `Free`, `Reset`, `Stats` | splits, merges and alignment padding in any order | live ranges disjoint and aligned; free memory not lost |
| Queues (`transfer.go`, `graph.go`, `fence.go`) | pending staged writes, the last unit, goroutine per unit, fences | `WriteBuffer`, `ReadBuffer`, `Flush`, `Submit`, `SubmitAfter`, `Wait`, `Done` | several callers per queue, fences across queues, writes that fail, failed units | one unit at a time, writes are on the device before the fence that promises them or the fence says otherwise, every fence signals |
| Resources and pools (`resource.go`, `buffer.go`, `pool.go`) | holds and closed flag per resource; a pool's children, block and flag | `AllocBuffer`, `Close`, `Reset`, `Pool.Close` | close and reset racing staged writes and allocations | memory goes back exactly once, and only when nothing holds it |
| Built graphs (`graph.go`, `submit.go`, `transientpool.go`) | in-flight and closed flags, bindings, the pool's claim and block, device loss | `Build`, `Bind`, `Submit`, `run`, `Close`, `NewTransientPool` | checks made at submission and used when the queue gets there; loss in the middle | a graph and its pool run once at a time, every claim is given back |
| Device (`device.go`, `open.go`) | children, implicit block sets, `lifecycle` lock | `New*`, `Close` | creation racing close, a cap read before it is used | a closed device has no children and its books match the backend |
| Surfaces (`surface.go`) | images in rotation, frames out, drawables lent | `Acquire`, `Present`, `Discard`, `Resize` | frames back out of order, failed resizes, a wait with the lock held | an image has one holder, a frame keeps its image, drawables go back |
| Kernel runtime (`internal/kernel`) | chunk cursor, epochs, shared-access tracker, cyclic barriers, subgroup slots | `runGrid`, the epoch scheduler, `RunAuthored` | early stops, leaving invocations, divergent arrivals | the serial loop's report; reports and results independent of order |
| Backends (`internal/cpu`, `internal/metal`) | submission counts, sticky loss; per Metal executable the current fence, its command buffer, who is inside `Wait`, the fault words | `Compile`, `Submit`, `Rebind`, `Close`, `Wait`, `Done` | the next submission releases a command buffer while goroutines are inside its fence's `Wait`, and reuses the words they read | a waiter reads its own submission, loss stays reported, nobody waits for the GPU with a lock others need |
| Tensor layer (`tensor/`) | plan instances and their fences, the runtime's plan count, plan cache; free pages of a KV pool; versions of caller-owned state | `Compile`, `Submit`, `Close`; `Grow`, `Free`; `ReadState`, `LayerState` and the operators that write | instance reuse while in flight, close racing submit; pages freed twice; writes through windows of other versions | a submission runs as it was bound; a page has one owner; an operator reads the version it was given |
| Kernel compiler (`internal/kernelc`) | none across calls | the uniformity analysis, the acceptance of barriers, the split into a resumable function | escapes before and after barriers, loops whose levels rise, states numbered back to front | barriers it accepts are met by all in scope; the lowering does what the kernel does |
| Formats, quantisation, numerics | none | arithmetic and layout | — | golden and conformance tests |

How they interact: `Recorder.Build` runs inference, the transient check, the
barrier walk, packing and handovers in that order and hands the backend, per
node, one bit: does a barrier precede it (`build.go`, `lower`). Queues take the
writes of `WriteBuffer` along with a submission; each write is a hold on its
destination, released when it lands. A submission's unit, on its queue's chain,
enters the graph, claims the graph's transient pool, has the backend run it,
and signals its fence. Pools get their memory from the device in blocks and hand
out ranges of it through a suballocator.

The hazards, each at its line, with the properties that cover it, are in
`PROJECT.json` under `hazards`; those without a property say why.

## 2. Modules

Composition is by `EXTENDS` upwards, by `INSTANCE` where a component is
instantiated beside another, and by refinement (`<=`) where an abstract
specification states what callers may rely on.

```
RecordedGraph ── DependencyGraph ── DependencyGraph_proofs
       ├──────── Rebind ── Rebind_proofs
       └──────── BarrierPlan ── TransientPlan ── GraphExecution ── GraphExecution_proofs

PoolRequests ── RangeAllocator (abstract) <= TLSF, Bump ── Memory_proofs (and PoolLifetime)
                                    Bump + TLSF ── Suballocators
Registry (abstract) <= DeviceLifecycle

Kernel ── Workgroup ─┐
     └─── Authored ──┴ Differential ── MCKernels ── Kernels_proofs
                       GridWalk ───────────┘

KernelIR ── Uniformity ── Cooperative

QueueStream ── QueueStream_proofs (QueueStream, GraphSubmission)
TensorPlan ── TensorPlan_proofs (TensorPlan, BlockPool, VersionedState)
MetalExecutable ── Device_proofs (MetalExecutable, DeviceLifecycle, Surface)
PoolLifetime   GraphSubmission   Surface   BlockPool   VersionedState
```

The `MC` modules hold the values of the constants. Some put components that share
nothing side by side, by `INSTANCE`: **MCMemory** the allocators and PoolLifetime,
**MCDevice** DeviceLifecycle and Surface, **MCKernels** GridWalk and Differential,
**MCTensor** TensorPlan, BlockPool and VersionedState. There a variable chosen
initially (`component`, `level`) says which one moves and the others stay where
they started: the state spaces add up instead of multiplying, and every property is
about the component it names. QueueStream and MetalExecutable are checked directly;
**MCGraphSubmission** is an instance although it stands alone, for the proofs
(section 6).
`MCCooperative_skip.cfg` is the run that expects a violation.

**Building a plan**

* **RecordedGraph** is the data: nodes, accesses, half-open overlap, cover, and
  the reference notion of *conflict* every plan is judged by.
* **DependencyGraph** is `inferEdges` and `reachability`. `writers` and
  `readers` are the two lists of `pendingSpans`; `Classify`, `StartCommit`,
  `Commit`, `NextNode` are the two inner loops over a node's accesses; `ReachRow`
  is one iteration of the backward pass.
* **BarrierPlan** is `planBarriers`: `Need` folds one access into the batch,
  `Emit` places the batched barrier and clears every range, `CommitRange` is
  `update`. Stage masks and reasons are left out, since no backend is given them.
* **TransientPlan** goes on with the rest of `Build`: the uninitialised-read
  check per byte, both barrier plans, packing in its order with its first-fit
  scan, the pool budget (V20), and handovers. Its `reach` is closed row by row from
  the last node back (`CloseRow`: the node's later conflicts and all that those
  reach), in one step; that the edges of DependencyGraph, which are fewer, have the
  same closure and that its backward pass computes it is `ConflictsAreOrdered`,
  `EdgesAreForwardConflicts` and `ReachIsTheClosure`.
* **GraphExecution** runs a built plan on a backend that promises only the
  driver's contract: nodes between two barriers may overlap. Memory records per
  byte which node wrote it, and the reference is record order.

**Memory**

* **PoolRequests** holds the extent and a request's rounding;
  **RangeAllocator** is the abstract promise (place a free aligned range,
  release one, release all). **TLSF** has physical blocks, class lists and
  counters; **Bump** a cursor. The two-level bitmaps of TLSF are the set of
  non-empty lists. **Suballocators** is a pool with the policy its descriptor
  chose: Bump is its own, TLSF an instance.
* **PoolLifetime**: every lock section and every atomic on a buffer is a step:
  allocation's look before the lock and the work under it, the hold taken by
  compare-and-swap after the open check, the handle's mark and the release of
  its hold, freeing and forgetting, Reset, Close. Places stand for the ranges of
  the allocator. Taking a batch and chaining it are one step here, because
  QueueStream treats their order. Reset's reads of its children's holds are
  taken at one instant, and what follows them is a second step, so closes and
  writes may fall between the two. `dropped` remembers destinations whose write a
  unit gave up; no code reads it.
* **DeviceLifecycle** is the device with everything made on it. `lifecycle` is
  its read-write lock (a set of readers, a writer who keeps new readers out),
  `setMu` the lock of an implicit block set, `pools`/`graphs`/`plain` the
  registered children and `driver` what the backend really holds, which no code
  reads. A call is a caller's `pc`: `RLock`, `SetLock`, `TryBlock`, `ReadCap`,
  `Alloc`, `AddPool`, `AppendBlock`, `Lower` are the sections of `NewPool`,
  `NewBuffer` and `Build`; `MarkClosed`, `Free`, `Uncount`, `Leave` of closing a
  child; `Lock` to `CloseBackend` of `Device.Close`. **Registry** is what it
  promises: children join an open device and leave, and it closes when it has
  none.

**Running**

* **QueueStream**: `Take` is the critical section that empties the pending
  batch, `Enqueue` the later one that chains the unit; `Begin`, `AwaitAfter`,
  `Land`, `EndWrites`, `RunGraph`, `CloseDone` are the unit's goroutine. A write is
  its place in the order of `WriteBuffer` calls; `tried` are those handed to the
  device, `refused` those that failed there. `Land` is one turn of the loop of
  `runWrites`: it may fail, leaves the error with the unit, and the rest goes on;
  `EndWrites` runs the graph only if no error was left, and `RunGraph` may fail too.
  A unit's `failed` is read by others only once its fence has signalled. `SubmitAfter`
  is given up to `MaxAfters` fences; nil ones and repeated ones add nothing, and a
  fence of `FailedFence` or of a refused submission is that of a unit that failed at
  once, which waiting for cannot tell from one of the model's. `ReadBuffer` is a
  `Flush` and a wait, so it has no action of its own. Writes to host-visible memory
  bypass the queue.
* **GraphSubmission**: reserve and compile, close and release, the check and the
  application of a Bind, and the stream's path through `Graph.run`: `Start`,
  `Enter`, `Claim`, `SubmitExecutable`, `Complete`, `End`, `Leave`. A graph has
  at most one slot. Two streams are two queues; today's devices report one, and two
  is what the API admits. A completion reads the loss and answers in one step.
* **Rebind** is what GraphSubmission leaves out of `Bind`: which spans a batch
  makes overlap. `Validate` is the check outside the lock (`CheckBinding` per
  update, `CheckOverlaps` of the prospective set against the slots and the
  buffers nodes name), `Apply` the critical section, `Start` a run that looks at
  the bound buffers once more (`CheckBoundAtSubmit`). Buffers are closed and made
  in memory given back before, so that two names may mean the same bytes.
* **Surface**: frames are in `FrameIds` hands, each somewhere in `Present` or
  `Discard`; a call that keeps `s.mu` throughout is one step, while `Present`
  drops it between looking at the generation (`CheckStale`), showing the frame
  (`Show`) and counting it out (`EndPresent`), and a windowed `Acquire` keeps it
  while it waits for a drawable. `broken`, `order` and `overtaken` are history.
* **TensorPlan**: `Submit` is `Look` at one instance's fence at a time, `Spare`
  when none is free, `Bind`, `SetUniforms`, `Enqueue`; `Close` marks the plan and
  `CloseGraph` closes one graph after the other. `Compile` counts the plan on its
  runtime and lowers it. The graphs and the goroutine of a submission (`Enter`,
  `Leave`, `Signal`) are what GraphSubmission shows them to be.
* **MetalExecutable** is the Metal executable with its fences. `eMu` and `fMu`
  are the locks. A call of Submit or Close is `LockSubmit` or `LockClose` (its
  checks), `LockFence`, `WaitGPU`, `Drain` (release the command buffer, or sleep
  on the condition variable while somebody is inside Wait, to be woken and
  `Relock`) and `Encode` or `TearDown`. Wait is `Register`, `Unblock`, `ReadErr`,
  `ReadFaults`, `Leave`, `Report`; only the first and the fifth take the lock.
  Rebind, Elapsed and Done look for a moment. `Complete` is the GPU. `knew` and
  `heard` are history.
* **BlockPool** is a KV cache's pages: `Grow`, `Free`, and `FreeAgain`, a second
  Free of a table already freed. `freed` and `stray` are history.
* **VersionedState** is the recording of tensor operators over caller-owned
  state. A version is a window of one buffer and the node that produced it.
  LayerState is a function of a version, so `Handles` closes the versions under
  it; `ReadState`, `ScatterRows`, `LinearAttention`, `Attention` and `Operator`
  record. `Slots`, `Lowers` and `Binds` are what Compile and V24 make of the
  nodes, and `Contents` what the buffer then holds when a node runs.

**Running kernels on the CPU**

* **GridWalk** is `runGrid`: the serial loop of a pool of one, and for more the
  steps of a worker, `CheckStop`, `Claim`, `Run`, `RecordError`, `RecordPanic`,
  `Stop`, and the caller's `Finish`. A workgroup's body is one of three
  outcomes, chosen initially.
* **Kernel** is one workgroup's program: each invocation's path, a sequence of
  shared accesses and rendezvous. It defines when a program is within the
  compute model's rules (`Legal`, `RaceFree`, `OneSiteAtATime`), what it
  contests, and what a read must return, from the paths alone.
* **Workgroup** is the epoch scheduler of `schedule.go` with `diag.go`'s
  tracker: a worker's workgroups one after the other, the invocations of each
  advanced in any order to their next rendezvous, subgroup operations combined,
  arrivals checked. **Authored** is `RunAuthored`: one goroutine per invocation
  and cyclic barriers that invocations retire from. **Differential** runs the
  first and, when it reports nothing, the second, as the kernel tests do.

**Compiling a kernel**

* **KernelIR** is the language cut down to values, locals, conditionals, loops,
  escapes, helper calls and barriers, and its meaning: an environment and the
  list of what is left to do, in which a running loop has its next `Test` and
  the end of its current `Pass`.
* **Uniformity** is `walkStmt`, `walkBlock`, `Of` (passes over a body until one
  changes nothing), the summaries of helpers, and `AcceptBarriers`. The lists of
  escapes are kept as their least uniform level.
* **Cooperative** compiles a kernel and runs it twice. `Split` to `PostState` are
  the splitter, `Entry` the renumbering, `Plain` the emitted loops,
  `CheckBarrierPlacement` the refusals; `StepAuthored`, `Arrive`, `EndAuthored`
  run the kernel as it was written, `RunState`, `EndState`, `EndLowered` the loop
  over a switch it becomes. Compilation is a function of the kernel, so
  `Compiled` is a table. Invocations run one after the other: nothing they read
  here depends on another.

Definitions commented `Mutant:` are plausible bugs, used to show that each
property can fail.

## 3. Runs

The passing runs explore their instance completely; a violation run stops at its
counterexample.

| Run | Question, and the instance | Result |
|---|---|---|
| `dependency_graph` | Are all conflicts ordered, and are the rows the closure? Every recording of four single-access nodes over a two-byte resource, of two nodes with up to two accesses, of three nodes over two resources. 390 342 states. | holds |
| `graph_execution` | Can an omitted or idle barrier, or shared bytes, change a result? Whole plans, then executed: four kernels over three transients of one or two units and an output; three nodes over equal, disjoint and partly overlapping ranges; a recording of five kernels whose handover makes a later barrier idle; optimised and naive plans; a pool budget that some plans exceed. 942 472 states. | holds |
| `memory` | A pool's ranges: blocks, lists, counters, refusals, and both policies as one range allocator, over every order of allocation, free and reset; sixteen units and a tail, three requests that split, pad and round. Its buffers: both policies, two callers, three handles over two places, two outstanding writes, units that give up. 238 634 states, up to symmetry. | holds |
| `queue_stream` | Two callers, two queues, three units, two writes that may fail, up to two given fences of either queue, graphs that may fail: one unit at a time, batches land or their fence says so, fences prove the chained writes, every fence signals. 1 168 375 states. | holds |
| `graph_submission` | Two graphs of one pool, the larger built under the smaller, and one without transients but with a slot; two streams, two submissions, loss at any of them; safety, and that every submission ends. 229 408 states. | holds |
| `rebind` | Two callers bind two slots of a graph with one concrete buffer to buffers of sizes 2, 2 and 1 in five bytes, in batches that bind one slot, move both, or name a slot twice; buffers are closed and made anew. 828 816 states, up to symmetry. | holds |
| `device` | Two callers making and closing pools, buffers, graphs and pipelines while either closes the device; one pool under the cap, blocks for one buffer, refused allocations and failed builds. Three frames over two images, one drawable, one resize, failed fences, failed resizes, conversions that fail, close with frames out; headless and windowed. 215 893 states. | holds |
| `kernels` | One, two and five workgroups, each succeeding, failing or panicking; up to three workers claiming two at a time. Three invocations in a full and a partly filled subgroup, each on any of eleven paths, and two workgroups on one worker: races, undefined reads, divergent barriers, early returns, subgroup operations; every order of advancing, then every interleaving of the authored run. 605 132 states. | holds |
| `tensor` | Two callers submitting one plan to two queues, two in flight, three accepted, two spares, bindings refused, lowering failing, the plan and its runtime closed meanwhile. Two sequences over three pages of two positions, each table freed once or twice. Every recording of three operators over a state of two layers of two rows, with one tensor of it held. 163 862 states. | holds |
| `metal_executable` | One caller that submits, rebinds and closes, two that wait for its fences; two submissions that end well, with a fault, or with the loss of the device. 288 006 states. | holds |
| `kernel_compiler` | Some 3 500 kernels under two values of a uniform parameter, analysed, refused or lowered, and run by three invocations as written and as lowered. 280 650 states. | holds |
| `skip_over_inner_loop` | Are accepted barriers reached by all invocations in scope? One kernel: a non-uniform continue of an outer loop before an inner loop with a barrier. | violated, section 4 |

Why the bounds are enough. The planner's facts are about pairs of conflicting
accesses and the nodes between them: four nodes give a pair, an intermediate that
covers part of it, and a second conflict; two bytes give equal, disjoint and
partly overlapping ranges. A diamond over transients needs four nodes, and a chain
of handovers through the same bytes three transients. In the allocator's
pool requests round to a higher class, are padded at their head, and leave two
free blocks of different sizes in the highest class, with a tail below the
granularity; `slBits`, four in the code, is one there, so that a pool of sixteen
units has classes that round. For queues, the races
are between two callers; three units give one with a unit ahead of it and one
behind, on one queue or across two. In PoolLifetime three
handles over two places force memory to change owners while an old write may be
outstanding. In GraphSubmission two submissions contend for a graph or for a
pool, and one loses the device under the other; what a finished one leaves behind
is compared in every state, so a leak needs no third to be seen. A device race is
between one who makes or closes a child and one who closes the device; a cap of
one is passed by two callers who read it together, and a set of blocks grows past
one because a block holds one buffer. Three frames are one more than there are
images, so rotation comes round to an image whose frame went back late. A grid of
five workgroups in claims of two has a partial last claim and a failure below,
inside and above another's claim. Three invocations with subgroups of two are
peers within a subgroup and across two, of unequal size. A plan with two in
flight has the first instance, a spare, and a third submission that finds
neither free. A command buffer is released by the next submission, so two are
enough, and two waiters so that the last one out is not the only one. The kernels
declare a local of each level, then have a conditional or a loop (counted, nested,
bare, or with an init that assigns) with escapes before and after a statement, then
a barrier or a loop around one: an escape is on either side of a barrier, within
and outside its loop. Three pages of two positions let one table be longer than the
other and let a page change owners. Two layers of two rows give windows within
windows and beside each other; three operators are two writes and a read before,
between or after them. Two outstanding writes are one of each caller, or two of
different handles for one place.

Bounds: `MaxUnits`, `MaxWrites`, `MaxAfters` (QueueStream), `MaxHeld` (PoolLifetime),
`MaxSubmissions` (GraphSubmission, TensorPlan), `MaxSpares` (TensorPlan),
`MaxPlain` and the handles (DeviceLifecycle), `FrameIds` and `MaxGen` (Surface),
`MaxWorkers` (GridWalk), `MaxSubmissions` and one Wait of a caller per fence
(MetalExecutable: an endless stream of overlapping waits could keep close from
ever finding nobody inside), `MaxPositions` (BlockPool), `MaxNodes` and `MaxTensors`
(VersionedState); each is a conjunct of the guards that create
work and of nothing else. A command buffer's own error, which is told apart from
loss only by not being sticky, is left out of the outcomes of `metal_executable`.
Symmetry is used in `memory`, over PoolLifetime's callers and handles (the run's one
temporal property is a safety property of the allocators, which have neither), and
in `rebind`, over callers.

`CHECK_DEADLOCK FALSE` stands where the system really stops: a plan is built, the
callers have used up their bounded calls and the queue is idle, every buffer is
closed, a dispatch is answered, a workgroup has its verdict, a kernel is refused
or its invocations are through, a recording ends. `device` and `metal_executable` go
on for ever and are checked for deadlock. That units and callers do not wait for
each other is the subject of the liveness properties.

## 4. What the code does otherwise than it says

The first has a run, `skip_over_inner_loop`, and `PROJECT.json` quotes its lines
under `findings`. The others were met while modelling. Where a formula shows one, it
stands in the module named, with the constants under which TLC violates it.

Compiling a kernel (Cooperative, with the `Kernels` named here, of MCCooperative):

* Entering an inner loop drops the escapes from the outer one, so a non-uniform
  continue of it is not held against the inner loop's barrier (`accept.go:120`).
  `AcceptedBarriersAreReachedByAll`, `SkipKernels`. Excepted as
  `LeavesPastAnInnerLoop`; an init of the inner loop hides it, since its declaration
  gets the level of the control flow there.
* A return is held against the barriers after it in the text, not against those the
  other invocations reach in the loop's next pass (`accept.go:133`).
  `AcceptedBarriersAreReachedByAll`, `ReturnKernels`. Excepted as
  `LeavesABarrierLoop`.
* A break in a loop that is split becomes a break of the switch, and ends the
  invocation; a continue enters its state again (`emit.go:1038`).
  `LoweringIsTheKernel`, `BreakKernels`. Excepted as `EscapesASplitLoop`.
* A loop's init that assigns, rather than declares, is printed as nothing
  (`emit.go:1102`). `LoweringIsTheKernel`, `InitKernels`. Excepted as
  `AssignsInItsInit`.
* A kernel that begins with a loop around a barrier starts in the loop's body, since
  the state added last gets number 0 and the check was added before the body
  (`coop.go:72`). `LoweringIsTheKernel`, `TestKernels`. Excepted as
  `BeginsWithATest`.
`checkNested` lets a loop with a barrier pass inside a conditional, where the
splitter does not split it; the emitter then refuses the barrier as an intrinsic it
has no lowering for, so no wrong code comes of it (`unplaced` in Cooperative).

Queues, pools and graphs:

* Handovers are planned after the barriers (`build.go:120` against `129`), where
  `specs/003:1021-1022` has the walk emit for both. A handover's barrier then makes
  one the walk put behind it idle; five kernels suffice, the recording `Late` of
  MCGraphExecution. Harmless but for the drain; `BarriersAreNeeded` says so by
  allowing handovers between the ends of the conflict.
* `Flush` and `Submit` take the batch and chain the unit in two critical
  sections of `q.mu`. A second caller's `Flush` in between finds nothing pending
  and nothing ahead, and returns a signalled fence although its own earlier
  write has not landed (`transfer.go:169` against `61-63`). `FlushProvesLanded`
  of QueueStream: one queue, two callers, two units, one write, `MaxAfters` 0,
  `WritesFail` FALSE. What does hold is `FencesProveChainedWrites`: the fence proves
  all earlier writes that no other caller had in hand, but for those that failed or
  were given up on an earlier fence.
* A write that fails on the device is reported by its own unit's fence and by no
  later one (`transfer.go:192` against `61-63`): a caller that dropped the fence of
  an earlier submission and waits on a later `Flush` gets nil, and the bytes are not
  there. `FlushProvesLanded` of QueueStream: one queue, one caller, two units, one
  write, `MaxAfters` 0, `WritesFail` TRUE; it holds there with `WritesFail` FALSE.
* A `SubmitAfter` whose given fence failed returns before `runWrites`: the batch
  it took is lost, and so are the holds of its destinations (`graph.go:720`
  against `transfer.go:107-108`). `TakenWritesLand` of QueueStream: one queue, one
  caller, two units, one write, `MaxAfters` 1, `WritesFail` FALSE.
  `BatchesLandOrFail` and `MemoryReturnsOnce` except exactly these.
* `Reset` subtracts one hold per child for the caller's handle; a child that was
  closed with a write staged has none to subtract, so Reset passes and the old
  write lands in reused bytes (`pool.go:374` against `350-351`).
  `ResetSparesHeldWrites` of PoolLifetime: one caller, the linear policy, two
  handles, one place.
* The design says Submit retains every bound resource (`specs/001:1263`,
  `specs/003:1266`); the code looks at whether they are open (`submit.go:385`),
  and a close after that frees them. `RunningGraphsKeepTheirResources` of
  GraphSubmission.
* `Bind` refuses on the in-flight flag (`submit.go:125`), which is set when the
  queue reaches the submission, so a rebind right after Submit changes work
  already submitted, against the comment at `graph.go:410`.
* `planBarriers` clears pending writes at execution-only barriers, so a plan's
  own memory flags do not deliver what `barrier.go:8-12` says of a queue-wide
  barrier. Latent: no backend is told the difference.
* `LargestFree` (`memory.go:120`, "the biggest single allocation this pool can
  still serve") is the size of a block, and a request of exactly that size is
  refused when it rounds up to the next class, as 33 units in a fresh pool of 33.
  The same happens to a block made for a request of its own size (`pool.go:238`),
  which then stays in the set with nothing in it (`FirstBuffer`).

The Metal backend:

* A fence answers for the fault its kernel recorded until the next submission closes
  it, and answers nil afterwards, because close keeps the command buffer's error and
  not what the fault words said (`exec_darwin.go:869`, against `757-760`).
  `AnswersSurviveClose` of MetalExecutable: two callers that both submit and wait
  (`Clients` and `Waiters` the same two), two submissions, `"error"` among the
  outcomes.

Surfaces:

* Frames that go back out of order let the rotation hand out an image another
  frame holds. `ImagesHaveOneHolder`, a part of `FramesKeepTheirImage`, is therefore
  conditional on `~overtaken`.
* A `Resize` that fails half way leaves images missing or of the new size under
  the old generation and extent. `Acquire` then panics on a missing image, or
  hands out one that `BindPresent` accepts for a graph recorded at another size;
  `FramesKeepTheirImage` excepts `broken`.
* `Close` does not refuse while frames are out and takes their images away, and
  `Acquire` does not report a surface out of date that a failed resize left so.

Kernels:

* `checkArrival` compares lanes epoch by epoch and holds everybody to the first
  waiting lane's barrier. A kernel whose subgroups pass different numbers of
  subgroup barriers before a workgroup barrier that all of them reach obeys the
  compute model and is refused. `CorrectKernelsAreClean` of Differential, with the
  constants of `MCKernels`.
* The comment at `schedule.go:799-801` leaves a lane at the workgroup barrier to
  a caller that does not look at it, so the same staggered kernel with the lanes
  the other way round is let through the workgroup barrier early. `BarriersAreWhole`
  of Differential excepts this: a workgroup barrier somebody waits at while an
  invocation before it waits at a subgroup barrier.
* `combineSubgroups` combines all suspended lanes of a subgroup under the first
  one's operation, whatever site they are at; the authored form folds by site.
  `AuthoredAgrees` is about kernels with one site at a time.
* A subgroup barrier closes the tracker's window for everybody, so a race between
  subgroups across a subgroup barrier of one of them is not reported
  (`specs/002:1530`, `specs/004:279`); `Contested` is defined by epochs, as the
  tracker is, and `RaceFree` by barriers.

Tensor plans:

* `Plan.Close` while a submission runs marks the plan closed, is refused by the
  graph in flight and returns the error; a second `Close` returns nil. The graph
  is never closed and the device cannot be.
* `Submit` on a closed plan whose graph is still running lowers a spare before
  it asks whether the plan is open. Nobody closes the spare, and on a closed
  runtime the call panics on a nil map (`SpareFails`).

Caches and states:

* `BlockPool.Free` notices pages that are free at the moment. A page freed twice with
  a Grow in between has two owners, which the comment at `blockpool.go:108-111` says
  is refused. `SecondFreesAreRefused` of BlockPool: two callers, two pages of two
  positions, at most three positions. `PagesHaveOneOwner` holds until then (`stray`).
* Staleness is checked when ReadState is called (`state.go:98`), not when its tensor
  is used, so an operator recorded after a write reads the new bytes as the old
  version, against `specs/007:206`. `OlderVersionsAreRefused` of VersionedState, with
  the constants of `MCTensor`. `OperatorsReadTheirVersions` is about the operators
  that take a state.

## 5. Fairness

* QueueStream: while the goroutine of some unit can run, one of them does.
  `Queue.enqueue` starts one goroutine per unit, and Go schedules every runnable
  goroutine eventually, which is more than is assumed; that a write or a graph handed
  to the backend ends is what a backend promises, failure included.
* GraphSubmission: weak fairness of each stream's goroutine, for the same reason.
* GridWalk: weak fairness of each worker and of the caller that waits for them;
  a body ends or panics.
* Differential: weak fairness of the scheduler's loop and of each invocation's
  goroutine.
* TensorPlan: weak fairness of each caller inside a call and of each submission's
  goroutine. Only the holder of `p.mu` moves, so weak fairness is enough; taking
  the lock is the start of a call and is not assumed.
* DeviceLifecycle and Surface: strong fairness of each caller inside a call,
  because the lock it waits for is taken and released by others in between. Go's
  mutex hands over to a waiter that has starved for a millisecond, and its
  read-write lock lets the readers that were waiting in after a writer and keeps
  new ones out before one. For a surface it also says that fences answer and that
  the wait for a drawable ends, by a drawable or by its deadline.
* MetalExecutable: strong fairness of each caller inside a call, for the locks, and
  none of the GPU: `CallsReturnWithoutTheGPU` is that only a Wait needs it.
* Cooperative: weak fairness of the next step; it is one sequential program.
* In `device`, `kernels` and `tensor`, the fairness is that of the component that
  moves; nothing is asked of those that stay where they started.
* Nothing is assumed of callers: no property needs a call to be made, and a
  caller that has taken a batch may stop there.
* The planner, the allocators, BlockPool and VersionedState are sequential, or one
  step per call, and have safety properties only.

## 6. Proofs

Eight modules hold theorems, each for one component or for those that work on the
same thing; each states its inductive invariant first. Where a proof module holds
two components, it extends the `MC` module that instantiates the second (as
`General`, `Handles`, `G`, `Dev`, `Frame`, `Cache`, `State`), so that what is proved of every value of
the constants is the formula the run checks; the values themselves are definitions
that only the configurations use.

* **DependencyGraph_proofs.** `TypeCorrect`, `EdgesAreSound`,
  `InferenceIsComplete` and `RowsAreTheClosure`, for every recording. Completeness
  cannot be proved from
  "pending spans are linked" alone, because a covered span is dropped. The
  invariant says that for each access already committed and each of its bytes,
  either it is still among the pending spans or a later write of that byte was
  committed by a node reachable through edges; conflicts with what was dropped
  are then ordered through the node that covered it. The backward pass adds that
  the rows above the cursor are closed (`RowsClosed`), and that whatever a row
  holds is an edge or lies behind one (`RowsAreReached`): together, the closure and
  nothing else.
* **GraphExecution_proofs.** The planner and the execution of its plan, for every
  recording, every sizes and alignment of transients, every plan and every overlap
  its barriers allow. `TypeCorrect` and `BarriersAreSound`: an access of a committed
  node is either recorded in
  the state of its exact range or followed by a barrier (`AccessesTracked`), the
  batch covers the accesses of the current node already visited (`NeedsBatched`),
  and conflicts into planned nodes are separated. `AliasingIsSafe`: while a
  transient is placed, only some of the conditions of sharing are established, so
  `PlanInv` states for every stage of `Build` what the passes before it have left
  (`PassesHold`), that the rows run forwards, and that two placed transients whose
  bytes meet have all users of one before all of the other
  (`SharersAreCompatible`); handovers then put a memory barrier at the first user.
  `PlanIsFrugal`: that no barrier is idle is not inductive, since the walk decides
  by flags of ranges, not by nodes. `WalkInv`: a flag of a range is earned by a
  committed access with no barrier after it, nothing is recorded ahead of the walk,
  and what the batch asks for names the conflict it is for. The proof failed at
  first, and rightly: a handover put in after the walk can make a barrier behind it
  idle, which takes five kernels and no run had. The property now says what the code
  does, and a recording of the run has the case (section 4). That the pool is
  between the peak and the sum of the transients needs that placements start aligned
  and end within the memory of what is placed (`Filled`), and that transients live
  at one node share no byte (`Stacked`); sums over sets are compared by the smallest
  set for which the comparison would fail.
  `ExecutionIsRecordOrder`: neither the barriers nor sharing alone says what a node
  reads. `ExecInv` adds that a node in flight has everything before its last barrier
  behind it (`BarriersHold`), and that memory holds, wherever a finished node has
  written, what the last of them in record order left (`MemoryHoldsLastWrites`).
* **Memory_proofs.** Of a linear pool: `TypeCorrect`, `RangesAreDisjoint` and
  `BumpImplementsRangeAllocator`, for every extent, granularity and request set.
  The invariant: what is used is the cursor, and live ranges lie below it,
  disjoint; hence the range at the cursor is free and each step is a step, or a
  stutter, of the abstract allocator. Of a general pool (TLSF):
  `BlocksListsAndCounters`, `GeneralRefusals` and `GeneralImplementsRangeAllocator`,
  for every extent, granularity, number of classes and request set. `GInv`: the
  blocks cover the extent one after the other and no two neighbours are free
  (`Tiled`), the lists hold exactly the free blocks, each at the class of its size
  (`Listed`), the other blocks are what callers hold (`Owned`), and the counters are
  the sums and numbers of those (`Counted`). An allocation cuts one block into up to
  three, and a free merges up to three; both replace a stretch of the blocks by
  another, and one lemma says what that leaves of a cover (`SpliceCovers`). A block
  taken from a list need not be searched, because a class at or above the rounded-up
  one holds only blocks as large as was asked (`ClassUpIsAGuarantee`, from what
  powers of two do), and rounding by the granularity leaves room to align. A refusal
  is honest because the search passes over no list (`Honest`). Of a pool's buffers
  (PoolLifetime):
  `BytesAreKept` and `LastHoldReturns`, for either policy and any number of
  callers, buffers, places, staged writes and units. A buffer's count is read by
  nobody who holds the pool's lock, and holds are in three places: in a call's
  hands, in the pending batch and in units. `MInv` counts them (`Balanced`: the
  count is the holds and the open handle, exactly so in a general pool and for what
  the pool still counts, and never less), and says of each buffer what its count
  means (`Standing`: what is held has its place, who frees it does so alone, what
  nobody holds is gone or on its way, and what each call at work knows).
* **QueueStream_proofs.** `TypeCorrect` and `UnitsRunAlone`, for any number of
  callers, queues, writes and units, and without fairness. A unit waits only for
  the one before it, so one-at-a-time is not inductive. The invariant: a unit is
  chained on an earlier one of its queue (`BehindIsEarlier`), no unfinished unit
  is later than the queue's last (`PrevIsLast`), and behind an unfinished unit
  every later one of its queue is queued, for that unit or one after it
  (`LaterUnitsWait`). A goroutine step and an addition to the chain are proved
  to keep it once each (`Moves`, `Chains`), and the actions are shown to be one
  or the other. `BatchesAreAnsweredFor` and `FencesAreProofs` say what a fence proves,
  although a call takes its batch in one critical section and chains it in another.
  `WInv` keeps track of every write: it is in one place (`HeldOnce`), pending, in a
  caller's hands or chained (`WritesAccounted`); what a unit took is left in it or
  was handed to the device, unless it gave up (`BatchesHandedOver`, `Ended`); what
  failed there fails its unit, which then has no graph running (`RefusalsShow`);
  a unit past its writes has waited for all it was given, so that an error it has
  of its own is not taken for giving up; and what a fence owes,
  but for what others had in hand, is chained at its unit or before
  (`OwedAreChained`), so that `UnitsRunAlone` does the rest.
  Of the graphs the units run (GraphSubmission): `OneSubmissionPerGraph` and
  `PoolIsAccounted`, for any graphs, streams, submissions and needs. Flags are set
  and cleared under locks of their own and tested far from where they are relied
  on. `GInv`: a graph's flag is up when one stream is inside it, and never without
  (`FlagsHaveOwners`); the claim of the pool is one stream's, who will give it
  back (`ClaimHasOwner`); and the graphs that hold the pool are counted, find it
  open and as large as each needs, and a running one has its block
  (`PoolFitsHolders`).
* **Kernels_proofs.** Of a dispatch (GridWalk): `TypeCorrect`, `ReportIsSerial` and `EveryGroupRunsOnce`,
  for every grid, number of workers and claim size. Workers stop claiming early,
  so not every workgroup runs and the report alone says nothing. The invariant
  accounts for every claimed workgroup: it has run, is still in its claimer's
  hands, or lies above a failure that ran (`ClaimedIsAccountedFor`); a failure
  that ran is recorded or about to be (`FailuresAreRecorded`); and nobody stops
  without one or before the cursor is past the end (`StopsHaveACause`). Claims
  are handed out in order, so what was never claimed is above every failure.
  Of a workgroup (Differential): `OrderNeverShows`, for every number of
  invocations, subgroup size and kernel. The scheduler picks who is advanced next,
  and the tracker keeps one access for an element and forgets by stamp. `GInv`
  says of the program's places, by the epochs their paths put them in, what that
  state stands for: whoever still runs is at the epoch that runs (`Frame`); an
  element's entry is one of the epoch's accesses, a write if there is one, and
  the reported conflicts are those of what was accessed so far (`Tracked`); an
  uncontested element holds its latest write (`Stored`); the reads found theirs, and
  the subgroup operations what their lanes' paths put at one epoch (`Found`); and
  nobody is past a barrier where the lanes of its own subgroup did not meet it, nor
  past a workgroup barrier where anybody was missing, unless an invocation before it
  was then at a subgroup barrier, the case of section 4 (`Whole`).
  Between workgroups only the stamp says that the entries are stale, and that is
  enough to start again (`GroupStarts`).
  Of the same program's authored form, run as goroutines after the scheduler found
  it clean: `AuthoredAlwaysAgrees`, for every interleaving. `AuthoredAgrees` looks
  only at the end. `DifferentialInv` says what holds on the way (`Comparing`): the
  round a barrier is in is the number of waits behind each of its participants, and one
  more than a released goroutine has that has not looked yet (`Round`). So no goroutine overtakes
  another through a barrier (`NoOvertaking`), and two clashing accesses, which a
  clean program keeps in different epochs, are executed in the order of the epochs
  (`AccessesInOrder`). The memory then holds the latest of the executed writes
  (`Remembered`), which are, at a read, the writes of the epochs before it
  (`LoadFinds`); and who folds at a site are the lanes the scheduler combined
  (`FoldersAre`). The clean verdict enters once, as what it says of the program
  (`Obeys`) and of the log (`Returned`), both taken from `GInv` (`CleanObeys`).
* **Rebind_proofs.** `TypeCorrect`, `HazardsSurvive` and `OperandsStay`, for any
  recording, slots, buffers and batches. The overlap check compares names: two spans
  clash only within one buffer. What it says of memory rests on buffers that are open
  at once being apart in memory, and on every bound buffer being open when a run
  starts. The invariant: what is bound fits its slot (`BoundFits`), a batch in a
  caller's hand fits too (`BatchesFit`), the bound set passes the check, and a
  run's resources, fixed when it started, were open together then
  (`InFlightApart`).
* **TensorPlan_proofs.** `AcceptedRunsAsBound` and `PlansKeepTheirGround`, for
  any number of callers, queues, submissions and spares. A call writes a graph's
  bindings while the queues go on, and it looked at the graph's fence earlier.
  The invariant: a graph's fence is that of its one unfinished submission, and a
  graph in a caller's hand is free and stays so, since only the holder of `p.mu`
  can give it another fence (`FencesFollow`, `Locking`); what is queued on a
  graph is what the graph is bound to (`BindingsAreTheTickets`); a graph is busy
  only with its own submission and closed only by Close (`OnlyCloseRefuses`);
  until the plan is closed every graph in use is on the list, so that unfinished
  submissions inject into it and respect its limit (`InUseIsListed`).
  Of the pages of a cache (BlockPool): `PagesAreOwned`, for any number of sequences,
  pages and positions. The property counts pages and is not inductive: `Grow` and
  `Free` move a run of pages between the end of a list and a table, so `Owned` says of
  each page in which place of which list or table it is, and that this is the only
  one. Under `stray` nothing is claimed: a second Free has then come after the page
  had a new owner (section 4).
  Of the versions of a state (VersionedState): `StaleMeansOverwritten` and
  `OperatorsReadTheirs`, for every shape, of any rank, and every recording. Versions
  are counted per window, so a number by itself says nothing of another window. `VInv`:
  a version is what its producer wrote (`VersionsAreWritten`); where windows overlap,
  numbers follow the order of the nodes (`VersionsFollow`), since only what is not
  stale is written; the latest of each window is what is noted of it
  (`VersionsAreNoted`); every write made a version (`WritesMakeVersions`); and an
  operand lies within what its producer wrote, earlier, which nobody wrote over before
  the node (`OperandsFollow`). A handle is a layer of a layer of a version: the levels
  are a recursive function and a layer's elements a fold, unfolded by the smallest
  level or set of places where the equation would fail (`HandlesAreParts`,
  `ElementsOfLayers`).
* **Device_proofs.** Of the Metal executable: `TypeCorrect`, `WaitersReadTheirs` and
  `LossStaysFinal`, for any number of goroutines, submissions and fences. Wait
  reads the command buffer and the fault words without a lock, so nothing local
  protects it. The invariant: whoever is between the checks of a Submit or Close
  and its end holds `eMu` alone (`HoldersAreAlone`); a buffer that runs, or is done
  and not released, is the current one's (`OneIsCurrent`), and how far a closer is
  says what has become of it (`ClosersKnowTheBuffer`); those inside Wait are
  registered, and a buffer with registrations is not released
  (`ReadersAreRegistered`), so the words, cleared only after the release, are still
  theirs (`WordsAreCurrent`); who knew of the loss is past no check of Submit
  (`LossIsKnown`).
  Of the device (DeviceLifecycle): `BooksAreKept` and the refinement
  `DeviceIsTheRegistry`, for any number of callers, pools and graphs and any cap.
  What the device counts differs from what the backend holds by whatever calls are
  between the one and the other, so `DInv` gives every handle an owner, the one
  call that makes or closes it or the device (`HandlesAreOwned`), balances each
  count with the calls under way (`Tallied`), says what a caller knows at each
  section (`CallFits`) and who the locks keep out (`LocksExclude`). The refinement
  needs besides that an implicit block counts nothing before it is open
  (`LiveInPlace`): each step of a call adds one child, removes one, closes an empty
  device, or is a stutter, although Close counts its children under several locks.
  Of surfaces (Surface): `FramesAreTrue` and `NoDrawableIsLost`, for any number of
  frames, images, drawables and resizes. A frame keeps the place of its image in a
  list that resizes replace. `SInv`: the frames out are as many as are counted and
  of the surface's generation (`OrderIsOut`, `FramesAreOfNow`), so no resize can
  have come between; while they go back oldest first, the frame at a place of the
  order has the image that many turns behind the next (`ImagesRotate`), so two
  frames share none; an `Acquire` that waits for a drawable keeps the lock and what
  it saw (`AcquirersKnow`).

Assumed are only the named ASSUMEs of the modules: recordings are sequences of
well-formed accesses, the granularity is a power of two within the pool, bounds
are naturals, nobody is not somebody. Those of an instance (`Dev!DeviceAssumption`,
`G!SubmissionAssumption` and so on) are hypotheses of its theorems. TLC evaluates
each of them in the runs.
The inductive invariants were checked by TLC on the instances of the runs before they
were proved. `TypeOK` is proved wherever a component has a theorem and is no property
of a run of its own; nor are
`EdgesAreSound`, `BarriersAreSound`, `RangesAreDisjoint`,
`BumpImplementsRangeAllocator`, `OperandsStay` and `EveryGroupRunsOnce`, which were
model-checked before they were proved.

Only model-checked:

* liveness (`EveryFenceSignals`, `SubmissionsEnd`, `CallsEnd`, `KernelsEnd`,
  `CallsAndFencesEnd`, `CallsReturnWithoutTheGPU`, `LoweredLanesEnd`), since
  fairness is out of the prover's reach;
* what is defined by recursive operators: `AcceptedBarriersAreReached`,
  `LevelsAreRight` and `LoweringKeepsTheKernel` (recursive over statements).

## 7. What is not modelled, and the plan

Left out for good: floating-point and quantised arithmetic, rasterisation,
formats and layouts, generated kernels, Objective-C message sends, wording of
errors. These are
most of the repository's lines; what carries state across calls or goroutines is
the part modelled here, and the share of lines the map covers is small for that
reason.

Left out of parts that are modelled:

* the recorder's validation rows, `SetUniform`
  and the submission counters of a graph;
* textures beside buffers, which take the same path;
* adapter selection and the comparison of limits;
* of the kernel runtime the epoch bound, storage barriers' class masks, the mode
  with diagnostics off, the lane diagnostics of shuffles and broadcasts; one
  subgroup operation stands for all;
* of the kernel compiler parsing and types, subgroup operations as expressions,
  memory accesses, bindings declared uniform, and the Metal emitter
  (sequential translation, covered by golden tests);
* of the Metal backend the encoding of a plan into a command buffer, pipelines,
  render and present passes, and the statistics of indirect dispatch;
* the tensor layer's plan cache (one map under one mutex around Compile and
  Close); of the block pool, pages out of range, which are accepted, and the
  caller of a `Grow` that fails, who gets no table and must keep the old one; of
  state versions, the writers of counts and penalties, which return no version.

What would come next: the recorder's validation rows as the front of RecordedGraph,
which would turn its assumptions on accesses into facts; and the kernels' analysis
with its recursion as functions over positions, so that `LevelsAreRight` could be
proved.
