---------------------------- MODULE Suballocators -----------------------------
(***************************************************************************)
(* A pool and the allocator its descriptor's policy chose for good         *)
(* (pool.go, newPool): one range allocator to its callers, whichever of    *)
(* the two it is.  The linear one is this module's own, the general one is *)
(* instantiated; the one that was not chosen never moves.                  *)
(***************************************************************************)
EXTENDS Bump

CONSTANT SlBits

ASSUME SuballocatorAssumption == SlBits \in Nat

VARIABLES
  policy,
  phys, lists, handed, inUse, count, blocks, refused  \* the general allocator's

general == <<phys, lists, handed, inUse, count, blocks, refused>>

General == INSTANCE TLSF WITH live <- handed, used <- inUse, allocations <- count

PoolInit == Init /\ General!Init /\ policy \in {"general", "linear"}

PoolNext ==
  /\ \/ policy = "linear" /\ Next /\ UNCHANGED general
     \/ policy = "general" /\ General!Next /\ UNCHANGED vars
  /\ UNCHANGED policy

PoolSpec == PoolInit /\ [][PoolNext]_<<policy, vars, general>>

-----------------------------------------------------------------------------
\* The general pool's splits and merges keep its blocks a gapless cover with no
\* two free neighbours, its size-class lists that same free memory, and the
\* counters Stats reports exact, across any order of allocations and frees.
GeneralIsConsistent ==
  /\ General!TypeOK /\ General!BlocksTileThePool
  /\ General!ListsMatchBlocks /\ General!StatsAreExact

\* The general pool refuses only when no free block is as large as the request
\* rounded up to its class, padding included (findFit).
GeneralRefusesHonestly == General!RefusalsAreHonest

\* Callers of a general pool see aligned, disjoint ranges inside it (TLSF.Alloc).
GeneralImplements == General!Implements
=============================================================================
