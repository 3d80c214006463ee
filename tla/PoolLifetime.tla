----------------------------- MODULE PoolLifetime -----------------------------
(***************************************************************************)
(* The life of a pool's buffers (resource.go, buffer.go, pool.go, and the  *)
(* writes of transfer.go that hold them).  A handle and every staged write *)
(* are one hold each; the last hold returns the memory.  Every critical    *)
(* section of the pool's lock and every atomic on a buffer is a step.      *)
(* Places stand for the ranges the pool's allocator hands out.             *)
(***************************************************************************)
EXTENDS Integers, FiniteSets, SequencesExt

CONSTANTS
  Callers,     \* goroutines using the pool
  Stream,      \* the queue's goroutine, which runs one unit at a time
  Buffers,     \* the handles there will ever be
  Nobody,
  Policies,    \* "general" frees one buffer at a time, "linear" by Reset
  NumPlaces,
  MaxHeld,     \* bound: staged writes that have not landed
  AfterFails   \* whether a fence given to SubmitAfter may have failed

PoolAssumption ==
  /\ Stream \notin Callers /\ Nobody \notin Buffers \union Callers
  /\ Policies \subseteq {"general", "linear"}
  /\ NumPlaces \in Nat /\ MaxHeld \in Nat /\ AfterFails \in BOOLEAN

VARIABLES
  policy,            \* the pool's, fixed when it is created
  refs, closed,      \* resourceState of each buffer
  place,             \* buffer -> its place, NoPlace before AllocBuffer
  owner,             \* place -> the buffer the allocator has it placed for
  live,              \* Pool.live
  poolMu,            \* the goroutine inside Reset's critical section
  poolClosed, blockFreed,
  pending, units,    \* staged writes by destination; a unit also knows its fate
  dropped,           \* destinations of writes a unit gave up; no code reads it
  pc, buf            \* each goroutine's place in an operation, and its buffer

pool == <<policy, place, owner, live, poolMu, poolClosed, blockFreed>>
writes == <<pending, units, dropped>>
vars == <<pool, writes, refs, closed, pc, buf>>

Procs == Callers \union {Stream}
Places == 1 .. NumPlaces
NoPlace == 0

Init ==
  /\ policy \in Policies
  /\ refs = [b \in Buffers |-> 0] /\ closed = [b \in Buffers |-> FALSE]
  /\ place = [b \in Buffers |-> NoPlace]
  /\ owner = [p \in Places |-> Nobody]
  /\ live = {} /\ poolMu = Nobody /\ poolClosed = FALSE /\ blockFreed = FALSE
  /\ pending = <<>> /\ units = <<>> /\ dropped = <<>>
  /\ pc = [t \in Procs |-> "idle"] /\ buf = [t \in Procs |-> Nobody]

Go(t, to, b) == pc' = [pc EXCEPT ![t] = to] /\ buf' = [buf EXCEPT ![t] = b]
Allocated(b) == place[b] # NoPlace

-----------------------------------------------------------------------------
\* AllocBuffer: a look at the closed flag, then everything under the lock.
StartAlloc(t, b) ==
  /\ pc[t] = "idle" /\ ~Allocated(b) /\ \A s \in Procs : buf[s] # b
  /\ ~poolClosed
  /\ Go(t, "alloc", b)
  /\ UNCHANGED <<pool, refs, closed, writes>>

\* A linear pool bumps past everything placed since the last reset.
Free == {p \in Places : owner[p] = Nobody}
Fitting == {p \in Free : policy = "linear" => \A o \in Free : p =< o}

Place(t) ==
  \E p \in Fitting :
    /\ place' = [place EXCEPT ![buf[t]] = p] /\ owner' = [owner EXCEPT ![p] = buf[t]]
    /\ refs' = [refs EXCEPT ![buf[t]] = 1] /\ live' = live \union {buf[t]}
    /\ UNCHANGED <<policy, closed, poolMu, poolClosed, blockFreed, writes>>

Alloc(t) ==
  /\ pc[t] = "alloc" /\ poolMu = Nobody
  /\ IF poolClosed \/ Fitting = {} THEN UNCHANGED <<pool, refs, closed, writes>>
                                   ELSE Place(t)
  /\ Go(t, "idle", Nobody)

-----------------------------------------------------------------------------
Staging == {t \in Callers : pc[t] \in {"retain", "append"}}
InUnits == FoldLeft(LAMBDA n, u : n + Len(u.batch), 0, units)

\* WriteBuffer on memory the device does not map: a look at the closed flag,
\* a hold on the destination, and the write on the queue.
CheckWrite(t, b) ==
  /\ pc[t] = "idle" /\ Allocated(b) /\ ~closed[b]
  /\ Cardinality(Staging) + Len(pending) + InUnits + Len(dropped) < MaxHeld
  /\ Go(t, "retain", b)
  /\ UNCHANGED <<pool, refs, closed, writes>>

\* Mutant: a destination whose last hold is gone is held again.
RetainAnyway(t) ==
  /\ pc[t] = "retain"
  /\ refs' = [refs EXCEPT ![buf[t]] = @ + 1] /\ Go(t, "append", buf[t])
  /\ UNCHANGED <<pool, closed, writes>>

Retain(t) ==
  /\ pc[t] = "retain"
  /\ IF refs[buf[t]] > 0
     THEN refs' = [refs EXCEPT ![buf[t]] = @ + 1] /\ Go(t, "append", buf[t])
     ELSE UNCHANGED refs /\ Go(t, "idle", Nobody)
  /\ UNCHANGED <<pool, closed, writes>>

Stage(t) ==
  /\ pc[t] = "append"
  /\ pending' = Append(pending, buf[t])
  /\ Go(t, "idle", Nobody)
  /\ UNCHANGED <<pool, refs, closed, units, dropped>>

\* Flush, Submit and SubmitAfter take every pending write; the order of their
\* units is QueueStream's subject.
Flush(t) ==
  /\ pc[t] = "idle" /\ pending # <<>>
  /\ \E fails \in (IF AfterFails THEN BOOLEAN ELSE {FALSE}) :
       units' = Append(units, [batch |-> pending, drops |-> fails])
  /\ pending' = <<>>
  /\ UNCHANGED <<pool, dropped, refs, closed, pc, buf>>

-----------------------------------------------------------------------------
\* Buffer.Close: only the call that marks the handle releases its hold.
BeginClose(t, b) ==
  /\ pc[t] = "idle" /\ Allocated(b) /\ ~closed[b]
  /\ closed' = [closed EXCEPT ![b] = TRUE]
  /\ Go(t, "release", b)
  /\ UNCHANGED <<pool, refs, writes>>

\* Mutant: every release returns the memory.
ReleaseAlwaysFrees(t) ==
  /\ pc[t] = "release"
  /\ refs' = [refs EXCEPT ![buf[t]] = @ - 1]
  /\ Go(t, "free", buf[t])
  /\ UNCHANGED <<pool, closed, writes>>

Release(t) ==
  /\ pc[t] = "release"
  /\ refs' = [refs EXCEPT ![buf[t]] = @ - 1]
  /\ IF refs[buf[t]] = 1 THEN Go(t, "free", buf[t]) ELSE Go(t, "idle", Nobody)
  /\ UNCHANGED <<pool, closed, writes>>

\* Buffer.free: the memory and the accounting are two critical sections.
FreeMemory(t) ==
  /\ pc[t] = "free" /\ poolMu = Nobody
  /\ owner' = IF policy = "general" THEN [owner EXCEPT ![place[buf[t]]] = Nobody] ELSE owner
  /\ Go(t, "forget", buf[t])
  /\ UNCHANGED <<policy, refs, closed, place, live, poolMu, poolClosed, blockFreed, writes>>

Forget(t) ==
  /\ pc[t] = "forget" /\ poolMu = Nobody
  /\ live' = live \ {buf[t]}
  /\ Go(t, "idle", Nobody)
  /\ UNCHANGED <<policy, refs, closed, place, owner, poolMu, poolClosed, blockFreed, writes>>

-----------------------------------------------------------------------------
\* runWrites: a write lands, or fails, and either way its hold is released after it.
Land ==
  /\ pc[Stream] = "idle" /\ units # <<>> /\ ~Head(units).drops
  /\ LET batch == Head(units).batch
     IN  /\ Go(Stream, "release", Head(batch))
         /\ units' = IF Len(batch) = 1 THEN Tail(units)
                     ELSE [units EXCEPT ![1].batch = Tail(@)]
  /\ UNCHANGED <<pool, refs, closed, pending, dropped>>

\* A given fence failed: the unit ends without its writes.
DropBatch ==
  /\ pc[Stream] = "idle" /\ units # <<>> /\ Head(units).drops
  /\ units' = Tail(units)
  /\ dropped' = dropped \o Head(units).batch
  /\ UNCHANGED <<pool, refs, closed, pending, pc, buf>>

-----------------------------------------------------------------------------
\* Pool.Reset reads every child's holds, then closes them all and rewinds.
BeginReset(t) ==
  /\ policy = "linear" /\ pc[t] = "idle" /\ poolMu = Nobody /\ ~poolClosed
  /\ \A b \in live : refs[b] - 1 =< 0
  /\ poolMu' = t
  /\ Go(t, "reset", Nobody)
  /\ UNCHANGED <<policy, refs, closed, place, owner, live, poolClosed, blockFreed, writes>>

\* Mutant: the handles stay open.
ResetLeavesHandles(t) ==
  /\ pc[t] = "reset"
  /\ owner' = [p \in Places |-> Nobody] /\ live' = {} /\ poolMu' = Nobody
  /\ Go(t, "idle", Nobody)
  /\ UNCHANGED <<policy, closed, refs, place, poolClosed, blockFreed, writes>>

FinishReset(t) ==
  /\ pc[t] = "reset"
  /\ closed' = [b \in Buffers |-> closed[b] \/ b \in live]
  /\ owner' = [p \in Places |-> Nobody] /\ live' = {} /\ poolMu' = Nobody
  /\ Go(t, "idle", Nobody)
  /\ UNCHANGED <<policy, refs, place, poolClosed, blockFreed, writes>>

\* Pool.Close marks the pool under the lock that found it empty.
ClosePool(t) ==
  /\ pc[t] = "idle" /\ poolMu = Nobody /\ ~poolClosed /\ live = {}
  /\ poolClosed' = TRUE
  /\ Go(t, "freeblock", Nobody)
  /\ UNCHANGED <<policy, refs, closed, place, owner, live, poolMu, blockFreed, writes>>

FreeBlock(t) ==
  /\ pc[t] = "freeblock"
  /\ blockFreed' = TRUE
  /\ Go(t, "idle", Nobody)
  /\ UNCHANGED <<policy, refs, closed, place, owner, live, poolMu, poolClosed, writes>>

Returning(t) == Release(t) \/ FreeMemory(t) \/ Forget(t)

Call(t) ==
  \/ \E b \in Buffers : StartAlloc(t, b) \/ CheckWrite(t, b) \/ BeginClose(t, b)
  \/ Alloc(t) \/ Retain(t) \/ Stage(t) \/ Flush(t)
  \/ BeginReset(t) \/ FinishReset(t) \/ ClosePool(t) \/ FreeBlock(t)

Next == \/ \E t \in Callers : Call(t) \/ Returning(t)
        \/ Land \/ DropBatch \/ Returning(Stream)

Spec == Init /\ [][Next]_vars
-----------------------------------------------------------------------------
\* Shapes only.
TypeOK ==
  /\ \A b \in Buffers : refs[b] \in Nat /\ closed[b] \in BOOLEAN /\ place[b] \in 0 .. NumPlaces
  /\ \A p \in Places : owner[p] \in Buffers \union {Nobody}
  /\ live \subseteq Buffers /\ poolMu \in Callers \union {Nobody}
  /\ Range(pending) \subseteq Buffers

\* The destinations of the writes that have a hold and have not landed.
Held == Range(pending) \union (UNION {Range(units[i].batch) : i \in DOMAIN units})
          \union {buf[t] : t \in {s \in Callers : pc[s] = "append"}}

Backed(b) == owner[place[b]] = b /\ ~blockFreed

\* In a general pool a destination keeps its memory until every write to it has
\* landed, whatever is closed meanwhile.
WritesAreBacked == policy = "general" => \A b \in Held : Backed(b)

\* And in a linear pool, whose Reset is documented to refuse while a resource is
\* retained (pool.go).
ResetSparesHeldWrites == policy = "linear" => \A b \in Held : Backed(b)

\* A handle that is not closed addresses its own bytes, in a pool that counts
\* it, so the pool cannot be closed or rewound under it.
OpenHandlesAreBacked ==
  \A b \in Buffers : Allocated(b) /\ ~closed[b] /\ poolMu = Nobody => Backed(b) /\ b \in live

\* When nothing is under way and no write is outstanding, a closed buffer is
\* counted nowhere and a general pool has its memory back; the exception is a
\* destination whose write was given up, which keeps its hold.
ClosedMeansReturned ==
  Held = {} /\ (\A t \in Procs : pc[t] = "idle") =>
    \A b \in Buffers \ Range(dropped) :
      closed[b] => b \notin live /\ (policy = "general" => owner[place[b]] # b)

\* No buffer's bytes are another's while its handle is open or, in a general pool,
\* a write to it is held, whatever is closed or flushed meanwhile (resource.go,
\* pool.go).
BuffersKeepTheirBytes == WritesAreBacked /\ OpenHandlesAreBacked

\* The memory of a buffer is freed by whoever dropped its last hold, once.
FreedOnce ==
  \A t \in Procs : pc[t] = "free" =>
    /\ refs[buf[t]] = 0 /\ closed[buf[t]]
    /\ \A s \in Procs \ {t} : pc[s] \in {"free", "forget"} => buf[s] # buf[t]

\* Memory goes back when its last hold does, and once (Buffer.release).
MemoryReturnsOnce == TypeOK /\ ClosedMeansReturned /\ FreedOnce
=============================================================================
