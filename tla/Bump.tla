--------------------------------- MODULE Bump ---------------------------------
(***************************************************************************)
(* The linear pool's allocator (internal/alloc/bump.go): a cursor moves    *)
(* forwards over the extent, and only a reset gives anything back.         *)
(***************************************************************************)
EXTENDS PoolRequests

VARIABLES
  cursor,
  live,               \* the allocations a caller holds: [off, size, align]
  used, allocations   \* the counters Stats reports

vars == <<cursor, live, used, allocations>>

Init == cursor = 0 /\ live = {} /\ used = 0 /\ allocations = 0

Offset(r) == RoundUp(cursor, AlignOf(r))

Fits(r) == Offset(r) + SizeOf(r) =< PoolSize

\* The padding is charged too: the pool can no longer hand it out.
Charge(r) == Offset(r) + SizeOf(r) - cursor

Alloc(r) ==
  /\ Fits(r)
  /\ cursor' = Offset(r) + SizeOf(r)
  /\ live' = live \union {[off |-> Offset(r), size |-> SizeOf(r), align |-> AlignOf(r)]}
  /\ used' = used + Charge(r)
  /\ allocations' = allocations + 1

\* Every handle is retired with the cursor; Free itself is refused.
Reset ==
  /\ cursor' = 0 /\ used' = 0 /\ allocations' = 0
  /\ live' = {}

Next == Reset \/ \E r \in Requests : Alloc(r)

Spec == Init /\ [][Next]_vars
-----------------------------------------------------------------------------
\* Shapes, and the cursor inside the extent.
TypeOK ==
  /\ cursor \in 0 .. PoolSize /\ used \in 0 .. PoolSize /\ allocations \in Nat
  /\ live \subseteq [off : 0 .. PoolSize, size : 1 .. PoolSize, align : Nat]

\* No live range reaches past the cursor and no two share a byte, also after
\* resets and with any alignments.
LiveRangesAreDisjoint ==
  /\ \A a \in live : a.off + a.size =< cursor
  /\ \A a, b \in live : a # b => Disjoint(a, b)

\* The linear pool keeps the promise of a suballocator.
Ranges == INSTANCE RangeAllocator
Implements == Ranges!Spec
=============================================================================
