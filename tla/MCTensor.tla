------------------------------- MODULE MCTensor -------------------------------
(* A compiled plan, the pages of a cache, or the versions of a state: they     *)
(* share nothing here, so a behaviour is of one of them and the others stay    *)
(* where they started.                                                         *)
(* Two callers, two queues, two submissions in flight, three accepted in all;  *)
(* two sequences over three pages of two positions; a state of two layers of   *)
(* two rows.                                                                   *)
EXTENDS TensorPlan

CONSTANTS Blocks, BlockSize, MaxPositions, Shape, MaxNodes, MaxTensors

VARIABLES
  component,
  free, held, table, freed, stray,
  versions, stateVersion, nodes, tensors, refused

cacheVars == <<free, held, table, freed, stray>>
stateVars == <<versions, stateVersion, nodes, tensors, refused>>

Cache == INSTANCE BlockPool
State == INSTANCE VersionedState

ASSUME Cache!PoolAssumption /\ State!StateAssumption

MCShape == <<2, 2>>

MCInit ==
  /\ component \in {"plan", "cache", "state"}
  /\ Init /\ Cache!Init /\ State!Init

MCNext ==
  /\ \/ component = "plan" /\ Next /\ UNCHANGED <<cacheVars, stateVars>>
     \/ component = "cache" /\ Cache!Next /\ UNCHANGED <<vars, stateVars>>
     \/ component = "state" /\ State!Next /\ UNCHANGED <<vars, cacheVars>>
  /\ UNCHANGED component

\* A plan that does not move has no call and no submission, so fairness asks nothing of it.
MCSpec == MCInit /\ [][MCNext]_<<component, vars, cacheVars, stateVars>> /\ Fairness

-----------------------------------------------------------------------------
\* A page is on the free list or in one place of one sequence's table, whatever is
\* freed twice before the page has a new owner (BlockPool.Free, Grow).
PagesHaveOneOwner == Cache!PagesHaveOneOwner

\* A version is stale exactly when the bytes it names no longer hold what its
\* producer left there (supersededBy).
VersionsTellTheContents == State!VersionsTellTheContents

\* In a plan that compiles and binds, every operator that was given a state reads
\* the version it was given, through a slot it has (ReadState, lowerInto).
OperatorsReadTheirVersions == State!OperatorsReadTheirVersions
=============================================================================
