----------------------------- MODULE PoolRequests -----------------------------
(***************************************************************************)
(* What both suballocators share (internal/alloc/alloc.go): the extent,    *)
(* the requests, and the rounding of a request.                            *)
(***************************************************************************)
EXTENDS Integers

CONSTANTS
  PoolSize,     \* bytes in the pool
  Granularity,  \* every offset and size is a multiple of it
  Requests      \* the [size, align] a caller may ask for

IsPowerOfTwo(n) == n \in Nat \ {0} /\ \E e \in 0 .. n : 2 ^ e = n

\* checkGranularity and checkParams refuse anything else before it matters.
ASSUME PoolAssumption ==
  /\ IsPowerOfTwo(Granularity)
  /\ PoolSize \in Nat /\ PoolSize >= Granularity
  /\ \A r \in Requests : r.size \in Nat \ {0} /\ IsPowerOfTwo(r.align)

\* Clearing the low bits below a power of two.
RoundUp(v, to) == (v + to - 1) - ((v + to - 1) % to)

\* checkParams: a size is rounded up, an alignment raised to the granularity.
SizeOf(r)  == RoundUp(r.size, Granularity)
AlignOf(r) == IF r.align < Granularity THEN Granularity ELSE r.align

Disjoint(a, b) == a.off + a.size =< b.off \/ b.off + b.size =< a.off
=============================================================================
