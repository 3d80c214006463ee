---------------------------- MODULE RangeAllocator ----------------------------
(***************************************************************************)
(* What a suballocator of one pool promises its callers: live allocations  *)
(* are aligned ranges inside the pool that never overlap; a range is       *)
(* released on its own or together with all the others.  How a place is    *)
(* found, and when none is, is left open.                                  *)
(***************************************************************************)
EXTENDS PoolRequests

VARIABLE live  \* the ranges handed out and not released, each with the alignment asked

Init == live = {}

Place ==
  \E r \in Requests : \E off \in 0 .. PoolSize - SizeOf(r) :
    LET a == [off |-> off, size |-> SizeOf(r), align |-> AlignOf(r)]
    IN  /\ off % AlignOf(r) = 0
        /\ \A b \in live : Disjoint(a, b)
        /\ live' = live \union {a}

Release == \E a \in live : live' = live \ {a}

ReleaseAll == live' = {}

Next == Place \/ Release \/ ReleaseAll

Spec == Init /\ [][Next]_live
=============================================================================
