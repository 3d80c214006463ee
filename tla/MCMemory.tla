------------------------------- MODULE MCMemory -------------------------------
(* A pool of either policy: the ranges its allocator hands out, or the life of *)
(* its buffers, which takes ranges for places.  A behaviour is of one of them  *)
(* and the other stays where it started.                                       *)
(* A pool of sixteen units and a tail below the granularity; requests of two,  *)
(* three aligned to four, and five units, which round up a class, and one      *)
(* that is not a multiple of the granularity nor aligned to it.                *)
(* Two callers, and fewer places than handles so that memory is handed on.     *)
EXTENDS Suballocators, TLC

CONSTANTS Callers, Stream, Buffers, Nobody, Policies, NumPlaces, MaxHeld, AfterFails

VARIABLES
  level,
  refs, closed, place, owner, counted, poolMu, poolClosed, blockFreed,
  pending, units, dropped, pc, buf

handles == <<refs, closed, place, owner, counted, poolMu, poolClosed, blockFreed,
             pending, units, dropped, pc, buf>>

Handles == INSTANCE PoolLifetime WITH live <- counted

ASSUME Handles!PoolAssumption

MCRequests == {[size |-> 4, align |-> 1], [size |-> 5, align |-> 8], [size |-> 10, align |-> 2]}

Alike == Permutations(Callers) \union Permutations(Buffers)

MCInit == level \in {"ranges", "handles"} /\ PoolInit /\ Handles!Init

MCNext ==
  /\ \/ level = "ranges" /\ PoolNext /\ UNCHANGED handles
     \/ level = "handles" /\ Handles!Next /\ UNCHANGED <<policy, vars, general>>
  /\ UNCHANGED level

MCSpec == MCInit /\ [][MCNext]_<<level, policy, vars, general, handles>>

-----------------------------------------------------------------------------
\* The general allocator's blocks tile the pool, its lists and counters agree with
\* them (TLSF.Alloc, TLSF.Free); checked where the allocators move.
BlocksListsAndCountersAgree == level = "ranges" => GeneralIsConsistent

\* The general pool refuses only when no free block is as large as the request
\* rounded up to its class, padding included (findFit).
RefusalsAreHonest == level = "ranges" => GeneralRefusesHonestly

\* No buffer's bytes are another's while its handle is open or, in a general pool,
\* a write to it is held, whatever is closed or flushed meanwhile (resource.go,
\* pool.go).
BuffersKeepTheirBytes == Handles!BuffersKeepTheirBytes

\* Memory goes back when its last hold does, and once (Buffer.release).
MemoryReturnsOnce == Handles!MemoryReturnsOnce
=============================================================================
