--------------------------- MODULE DeviceLifecycle ---------------------------
(***************************************************************************)
(* Making and closing a device's children while the device closes          *)
(* (device.go, pool.go, build.go, transientpool.go).  Each critical        *)
(* section is a step.  `lifecycle` is a read-write lock: who makes a child *)
(* holds it for reading, Device.Close for writing, and a waiting writer    *)
(* keeps new readers out.  A device counter is the set it counts, except   *)
(* implicitBlocks, whose blocks have two kinds of owner.                   *)
(***************************************************************************)
EXTENDS Integers, FiniteSets, Sequences

CONSTANTS
  Callers,            \* goroutines using the device
  PoolIds, GraphIds,  \* handles; bound on how many are live at once
  MaxPlain,           \* bound on children that are only counted: pipelines and the like
  MaxPools,           \* the driver's cap on live allocations
  Room,               \* buffers that fit a pool
  NoOne

DeviceAssumption ==
  /\ IsFiniteSet(Callers) /\ Callers # {} /\ NoOne \notin Callers
  /\ IsFiniteSet(PoolIds) /\ IsFiniteSet(GraphIds) /\ MaxPlain \in Nat
  /\ PoolIds \cap GraphIds = {}
  /\ MaxPools \in Nat /\ Room \in Nat \ {0}

VARIABLES
  open,                 \* the device's handle
  readers, writer,      \* lifecycle: who reads, who writes or waits to
  setMu,                \* the implicit set's lock
  pools, graphs, plain, \* registered children; those only counted are a number
  blocks,               \* the implicit set's pools
  implicitBlocks,       \* device allocations that are not in pools
  handle,               \* pool or graph -> none, making, open, closed
  live,                 \* pool -> buffers out
  driver,               \* allocations the backend holds
  backendOpen,
  found,                \* the children Close has counted
  pc, call, arg, idx    \* per caller

locks == <<readers, writer, setMu>>
children == <<pools, graphs, plain, live>>
memory == <<blocks, implicitBlocks, handle, driver>>
device == <<open, backendOpen, found>>
vars == <<locks, children, memory, device, pc, call, arg, idx>>

Init ==
  /\ open = TRUE /\ backendOpen = TRUE /\ found = {}
  /\ readers = {} /\ writer = NoOne /\ setMu = NoOne
  /\ pools = {} /\ graphs = {} /\ plain = 0 /\ blocks = <<>> /\ implicitBlocks = 0
  /\ handle = [h \in PoolIds \union GraphIds |-> "none"] /\ live = [p \in PoolIds |-> 0]
  /\ driver = {}
  /\ pc = [c \in Callers |-> "idle"] /\ call = [c \in Callers |-> "none"]
  /\ arg = [c \in Callers |-> NoOne] /\ idx = [c \in Callers |-> 0]

Counted == {<<"pool", p>> : p \in pools} \union {<<"graph", g>> : g \in graphs}
             \union {<<"plain", n>> : n \in 1 .. plain}
BuffersOf(p) == {<<"buffer", <<p, n>> >> : n \in 1 .. live[p]}
InSet == {blocks[i] : i \in 1 .. Len(blocks)}

Go(c, to) == pc' = [pc EXCEPT ![c] = to]
At(c, where) == pc[c] = where

\* The deferred unlocks of a call that ends.
Return(c) ==
  /\ Go(c, "idle") /\ call' = [call EXCEPT ![c] = "none"] /\ arg' = [arg EXCEPT ![c] = NoOne]
  /\ readers' = readers \ {c}
  /\ writer' = (IF writer = c THEN NoOne ELSE writer)
  /\ setMu' = (IF setMu = c THEN NoOne ELSE setMu)
  /\ idx' = [idx EXCEPT ![c] = 0]

Continue(c, to) == Go(c, to) /\ UNCHANGED <<locks, call, arg, idx>>

-----------------------------------------------------------------------------
\* A call that makes a child; NewPool and NewBuffer look at the handle first.
Make(c, kind) ==
  /\ At(c, "idle") /\ (kind \in {"NewPool", "NewBuffer"} => open)
  /\ kind = "Register" => plain + Cardinality({d \in Callers : call[d] = "Register"}) < MaxPlain
  /\ call' = [call EXCEPT ![c] = kind] /\ Go(c, "rlock")
  /\ UNCHANGED <<locks, children, memory, device, arg, idx>>

\* What each kind of call does under the lock, and with its memory.
Registering == [NewPool |-> "cap", NewBuffer |-> "setlock", Build |-> "alloc", Register |-> "register"]
Keeping == [NewPool |-> "add", NewBuffer |-> "append", Build |-> "count"]

\* Mutant: the lock is held for the check and not for the registration.
RLockBriefly(c) ==
  /\ At(c, "rlock") /\ writer = NoOne
  /\ IF open
     THEN /\ readers' = (IF call[c] = "NewPool" THEN readers ELSE readers \union {c})
          /\ Go(c, Registering[call[c]])
          /\ UNCHANGED <<writer, setMu, call, arg, idx>>
     ELSE Return(c)
  /\ UNCHANGED <<children, memory, device>>

\* RLock and the check under it; the handle cannot change while it is held.
RLock(c) ==
  /\ At(c, "rlock") /\ writer = NoOne
  /\ IF open
     THEN /\ readers' = readers \union {c}
          /\ Go(c, Registering[call[c]])
          /\ UNCHANGED <<writer, setMu, call, arg, idx>>
     ELSE Return(c)
  /\ UNCHANGED <<children, memory, device>>

SetLock(c) ==
  /\ At(c, "setlock") /\ setMu = NoOne
  /\ setMu' = c /\ idx' = [idx EXCEPT ![c] = 1] /\ Go(c, "try")
  /\ UNCHANGED <<readers, writer, children, memory, device, call, arg>>

\* One block of the set is asked; it may be too full, or cut up, for the request.
TryBlock(c) ==
  /\ At(c, "try")
  /\ \/ /\ idx[c] =< Len(blocks) /\ live[blocks[idx[c]]] < Room
        /\ live' = [live EXCEPT ![blocks[idx[c]]] = @ + 1]
        /\ Return(c)
     \/ /\ idx[c] =< Len(blocks) /\ idx' = [idx EXCEPT ![c] = @ + 1]
        /\ UNCHANGED <<locks, live, pc, call, arg>>
     \/ idx[c] > Len(blocks) /\ Continue(c, "cap") /\ UNCHANGED live
  /\ UNCHANGED <<pools, graphs, plain, memory, device>>

\* Mutant: the cap counts the pools a caller named.
ReadCapOfPools(c) ==
  /\ At(c, "cap")
  /\ IF Cardinality(pools) >= MaxPools THEN Return(c) ELSE Continue(c, "alloc")
  /\ UNCHANGED <<children, memory, device>>

\* livePools, read in one section; the pool is registered in another.
ReadCap(c) ==
  /\ At(c, "cap")
  /\ IF Cardinality(pools) + implicitBlocks >= MaxPools THEN Return(c) ELSE Continue(c, "alloc")
  /\ UNCHANGED <<children, memory, device>>

\* Mutant: a refusal by the backend is tried again.
AllocRetries(c) ==
  /\ At(c, "alloc")
  /\ \/ Continue(c, IF call[c] = "Build" THEN "alloc" ELSE "cap") /\ UNCHANGED <<handle, driver>>
     \/ \E h \in IF call[c] = "Build" THEN GraphIds ELSE PoolIds :
          /\ handle[h] = "none"
          /\ handle' = [handle EXCEPT ![h] = "making"] /\ driver' = driver \union {h}
          /\ arg' = [arg EXCEPT ![c] = h]
          /\ Go(c, Keeping[call[c]])
          /\ UNCHANGED <<locks, call, idx>>
  /\ UNCHANGED <<children, blocks, implicitBlocks, device>>

\* The backend allocates, or refuses.
Alloc(c) ==
  /\ At(c, "alloc")
  /\ \/ Return(c) /\ UNCHANGED <<handle, driver>>
     \/ \E h \in IF call[c] = "Build" THEN GraphIds ELSE PoolIds :
          /\ handle[h] = "none"
          /\ handle' = [handle EXCEPT ![h] = "making"] /\ driver' = driver \union {h}
          /\ arg' = [arg EXCEPT ![c] = h]
          /\ Go(c, Keeping[call[c]])
          /\ UNCHANGED <<locks, call, idx>>
  /\ UNCHANGED <<children, blocks, implicitBlocks, device>>

AddPool(c) ==
  /\ At(c, "add")
  /\ pools' = pools \union {arg[c]} /\ handle' = [handle EXCEPT ![arg[c]] = "open"]
  /\ Return(c)
  /\ UNCHANGED <<graphs, plain, live, blocks, implicitBlocks, driver, device>>

\* The block joins the set, and is counted, before the request is tried on it.
AppendBlock(c) ==
  /\ At(c, "append")
  /\ blocks' = Append(blocks, arg[c]) /\ implicitBlocks' = implicitBlocks + 1
  /\ handle' = [handle EXCEPT ![arg[c]] = "open"]
  /\ Continue(c, "first")
  /\ UNCHANGED <<children, driver, device>>

\* A block of exactly the request's size can refuse it, and stays in the set.
FirstBuffer(c) ==
  /\ At(c, "first")
  /\ live' \in {live, [live EXCEPT ![arg[c]] = @ + 1]}
  /\ Return(c)
  /\ UNCHANGED <<pools, graphs, plain, memory, device>>

CountGraphBlock(c) ==
  /\ At(c, "count")
  /\ implicitBlocks' = implicitBlocks + 1
  /\ Continue(c, "lower")
  /\ UNCHANGED <<children, blocks, handle, driver, device>>

\* Mutant: a failed Build frees its transients and leaves them counted.
LowerForgets(c) ==
  /\ At(c, "lower")
  /\ \/ /\ graphs' = graphs \union {arg[c]} /\ handle' = [handle EXCEPT ![arg[c]] = "open"]
        /\ Return(c) /\ UNCHANGED driver
     \/ /\ driver' = driver \ {arg[c]} /\ handle' = [handle EXCEPT ![arg[c]] = "none"]
        /\ Return(c) /\ UNCHANGED graphs
  /\ UNCHANGED <<pools, plain, live, blocks, implicitBlocks, device>>

\* lower succeeds and the graph is counted, or it fails and its memory is freed.
Lower(c) ==
  /\ At(c, "lower")
  /\ \/ /\ graphs' = graphs \union {arg[c]} /\ handle' = [handle EXCEPT ![arg[c]] = "open"]
        /\ Return(c) /\ UNCHANGED driver
     \/ /\ driver' = driver \ {arg[c]}
        /\ Continue(c, "uncount") /\ UNCHANGED <<graphs, handle>>
  /\ UNCHANGED <<pools, plain, live, blocks, implicitBlocks, device>>

\* A graph without transients, a pipeline, an empty transient pool: a count.
Register(c) ==
  /\ At(c, "register")
  /\ plain' = plain + 1
  /\ Return(c)
  /\ UNCHANGED <<pools, graphs, live, memory, device>>

-----------------------------------------------------------------------------
\* AllocBuffer on a pool the caller named, and the close of any pool's buffer.
NewPoolBuffer(p) ==
  /\ p \in pools /\ handle[p] = "open" /\ live[p] < Room
  /\ live' = [live EXCEPT ![p] = @ + 1]
  /\ UNCHANGED <<locks, pools, graphs, plain, memory, device, pc, call, arg, idx>>

CloseBuffer(p) ==
  /\ live[p] > 0
  /\ live' = [live EXCEPT ![p] = @ - 1]
  /\ UNCHANGED <<locks, pools, graphs, plain, memory, device, pc, call, arg, idx>>

ClosePlain ==
  /\ plain > 0 /\ plain' = plain - 1
  /\ UNCHANGED <<locks, pools, graphs, live, memory, device, pc, call, arg, idx>>

\* Pool.Close and Graph.Close: one caller marks the handle, under the lock its
\* check of the children or of the flight is made in.
MarkClosed(c, h) ==
  /\ At(c, "idle") /\ handle[h] = "open"
  /\ h \in graphs \/ (h \in pools /\ live[h] = 0)
  /\ handle' = [handle EXCEPT ![h] = "closed"]
  /\ call' = [call EXCEPT ![c] = "CloseChild"] /\ arg' = [arg EXCEPT ![c] = h] /\ Go(c, "free")
  /\ UNCHANGED <<locks, children, blocks, implicitBlocks, driver, device, idx>>

\* The memory goes back before the device stops counting it.
Free(c) ==
  /\ At(c, "free")
  /\ driver' = driver \ {arg[c]}
  /\ Continue(c, IF arg[c] \in PoolIds THEN "leave" ELSE "uncount")
  /\ UNCHANGED <<children, blocks, implicitBlocks, handle, device>>

Uncount(c) ==
  /\ At(c, "uncount")
  /\ implicitBlocks' = implicitBlocks - 1
  /\ IF call[c] = "Build"
     THEN handle' = [handle EXCEPT ![arg[c]] = "none"] /\ Return(c)
     ELSE Continue(c, "leave") /\ UNCHANGED handle
  /\ UNCHANGED <<children, blocks, driver, device>>

\* removePool, and countGraphs(-1).
Leave(c) ==
  /\ At(c, "leave")
  /\ pools' = pools \ {arg[c]} /\ graphs' = graphs \ {arg[c]}
  /\ handle' = [handle EXCEPT ![arg[c]] = "none"]
  /\ Return(c)
  /\ UNCHANGED <<plain, live, blocks, implicitBlocks, driver, device>>

-----------------------------------------------------------------------------
\* Device.Close.  Lock first keeps new readers out, then waits for the old ones.
Close(c) ==
  /\ At(c, "idle") /\ call' = [call EXCEPT ![c] = "Close"] /\ Go(c, "wlock")
  /\ UNCHANGED <<locks, children, memory, device, arg, idx>>

Lock(c) ==
  /\ At(c, "wlock") /\ writer = NoOne
  /\ writer' = c /\ Go(c, "drain")
  /\ UNCHANGED <<readers, setMu, children, memory, device, call, arg, idx>>

CountChildren(c) ==
  /\ At(c, "drain") /\ readers = {}
  /\ found' = Counted
  /\ idx' = [idx EXCEPT ![c] = 1] /\ Go(c, "countset")
  /\ UNCHANGED <<locks, children, memory, open, backendOpen, call, arg>>

\* The buffers of one implicit block after the other, each under its pool's lock.
CountBuffers(c) ==
  /\ At(c, "countset")
  /\ IF idx[c] =< Len(blocks)
     THEN /\ found' = found \union BuffersOf(blocks[idx[c]]) /\ idx' = [idx EXCEPT ![c] = @ + 1]
          /\ UNCHANGED <<locks, pc, call, arg>>
     ELSE Continue(c, "decide") /\ UNCHANGED found
  /\ UNCHANGED <<children, memory, open, backendOpen>>

\* Refuses, does nothing the second time, or marks the handle.
Decide(c) ==
  /\ At(c, "decide")
  /\ IF found # {} \/ ~open THEN Return(c) /\ UNCHANGED open
                           ELSE open' = FALSE /\ Continue(c, "closeset")
  /\ found' = {}
  /\ UNCHANGED <<children, memory, backendOpen>>

\* blockSet.close: a block with a buffer refuses, and the set forgets it all the same.
CloseSet(c) ==
  /\ At(c, "closeset")
  /\ LET freed == {p \in InSet : live[p] = 0}
     IN  /\ driver' = driver \ freed
         /\ handle' = [h \in DOMAIN handle |-> IF h \in freed THEN "none" ELSE handle[h]]
         /\ IF freed = InSet THEN Continue(c, "backend") ELSE Return(c)
  /\ blocks' = <<>> /\ implicitBlocks' = implicitBlocks - Len(blocks)
  /\ UNCHANGED <<children, device>>

\* The backend refuses while an allocation is live.
CloseBackend(c) ==
  /\ At(c, "backend")
  /\ backendOpen' = (driver # {})
  /\ Return(c)
  /\ UNCHANGED <<children, memory, open, found>>
-----------------------------------------------------------------------------
Making(c) ==
  RLock(c) \/ SetLock(c) \/ TryBlock(c) \/ ReadCap(c) \/ Alloc(c) \/ AddPool(c) \/ AppendBlock(c)
    \/ FirstBuffer(c) \/ CountGraphBlock(c) \/ Lower(c) \/ Register(c)
Leaving(c) == Free(c) \/ Uncount(c) \/ Leave(c)
Closing(c) ==
  Lock(c) \/ CountChildren(c) \/ CountBuffers(c) \/ Decide(c) \/ CloseSet(c) \/ CloseBackend(c)
InCall(c) == Making(c) \/ Leaving(c) \/ Closing(c)

Begin(c) ==
  \/ \E kind \in {"NewPool", "NewBuffer", "Build", "Register"} : Make(c, kind)
  \/ \E h \in PoolIds \union GraphIds : MarkClosed(c, h)
  \/ Close(c)

Next ==
  \/ \E c \in Callers : Begin(c) \/ InCall(c)
  \/ \E p \in PoolIds : NewPoolBuffer(p) \/ CloseBuffer(p)
  \/ ClosePlain

\* A goroutine inside a call runs on, and gets a lock others keep releasing: Go's
\* mutexes hand over to whoever starves, its read-write lock alternates.
Fairness == \A c \in Callers : SF_vars(InCall(c))

Spec == Init /\ [][Next]_vars /\ Fairness

-----------------------------------------------------------------------------
Pcs == {"idle", "rlock", "setlock", "try", "cap", "alloc", "add", "append", "first", "count", "lower",
        "register", "free", "uncount", "leave", "wlock", "drain", "countset", "decide", "closeset",
        "backend"}

\* Shapes only.
TypeOK ==
  /\ open \in BOOLEAN /\ backendOpen \in BOOLEAN
  /\ readers \subseteq Callers /\ writer \in Callers \union {NoOne} /\ setMu \in Callers \union {NoOne}
  /\ pools \subseteq PoolIds /\ graphs \subseteq GraphIds /\ plain \in Nat
  /\ blocks \in Seq(PoolIds) /\ implicitBlocks \in Int
  /\ handle \in [PoolIds \union GraphIds -> {"none", "making", "open", "closed"}]
  /\ live \in [PoolIds -> Nat] /\ driver \subseteq PoolIds \union GraphIds
  /\ pc \in [Callers -> Pcs]
  /\ call \in [Callers -> {"none", "NewPool", "NewBuffer", "Build", "Register", "CloseChild", "Close"}]
  /\ arg \in [Callers -> PoolIds \union GraphIds \union {NoOne}] /\ idx \in [Callers -> Nat]

Children == Counted \union UNION {BuffersOf(p) : p \in InSet}
Device == INSTANCE Registry WITH children <- Children

\* The whole device, its locks and counts, is the registry: a child joins only
\* an open device, and the device closes only without one.
ImplementsRegistry == Device!Spec

\* "Closed to every caller and never closed" does not happen: once the call that
\* marked the handle is over, the backend is closed and nothing is allocated.
ClosedMeansReleased ==
  ~open => (driver = {} /\ ~backendOpen) \/ \E c \in Callers : pc[c] \in {"closeset", "backend"}

\* The device's counts differ from what the backend holds by exactly the
\* allocations whose owner is between the allocation and the count.
Uncounted == {c \in Callers : pc[c] \in {"add", "append", "count"}}
Overcounted == {c \in Callers : (pc[c] = "leave" /\ arg[c] \in PoolIds) \/ pc[c] = "uncount"}
CountsAreExact ==
  Cardinality(pools) + implicitBlocks + Cardinality(Uncounted)
    = Cardinality(driver) + Cardinality(Overcounted)

\* MaxPools is exceeded by no more than the callers that can have read the count
\* before one of them registered.
PoolsNearTheCap == Cardinality(pools) + Len(blocks) =< MaxPools + Cardinality(Callers) - 1

\* Every call ends, however creations and closes contend for the locks.
CallsReturn == \A c \in Callers : []<>(pc[c] = "idle")

\* What the device says and what the backend holds agree while it is open, near the
\* cap, and once it is closed (device.go, pool.go).
BooksMatchTheBackend == TypeOK /\ ClosedMeansReleased /\ CountsAreExact /\ PoolsNearTheCap
=============================================================================
