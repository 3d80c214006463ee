---------------------------- MODULE RecordedGraph ----------------------------
(***************************************************************************)
(* The data a Recorder leaves behind for Build: nodes in record order, and *)
(* for each node the accesses it declared (record.go, compute.go).  A      *)
(* resource is a model value; a byte range is half open.                   *)
(***************************************************************************)
EXTENDS Integers, Sequences

CONSTANTS
  Resources,  \* the buffers, textures and slots a graph can name
  Programs    \* the recordings considered: sequences of nodes

Modes == {"read", "write", "readwrite"}

\* A declared access.  view range checks refuse an empty range before a node
\* exists, so size is positive.
Access == [res : Resources, off : Nat, size : Nat \ {0}, mode : Modes]

\* A node is the sequence of accesses it declared, in declaration order.
ASSUME ProgramsAssumption == Programs \subseteq Seq(Seq(Access))

Reads(a)  == a.mode \in {"read", "readwrite"}
Writes(a) == a.mode \in {"write", "readwrite"}

\* Half-open intervals of one resource share a byte.
Overlaps(a, b) ==
  /\ a.res = b.res
  /\ a.off < b.off + b.size
  /\ b.off < a.off + a.size

\* a contains every byte of b.
Covers(a, b) ==
  /\ a.res = b.res
  /\ a.off =< b.off
  /\ b.off + b.size =< a.off + a.size

\* An access together with the node that declared it (accessSpan).
SpanOf(nodes, n, k) ==
  [res  |-> nodes[n][k].res,  off  |-> nodes[n][k].off,
   size |-> nodes[n][k].size, mode |-> nodes[n][k].mode, node |-> n]

-----------------------------------------------------------------------------
(* The reference notion every plan is judged against: two accesses conflict *)
(* when they share a byte and at least one of them writes it.               *)

AccessConflict(a, b) == Overlaps(a, b) /\ (Writes(a) \/ Writes(b))

Conflict(nodes, m, n) ==
  \E k \in DOMAIN nodes[m], l \in DOMAIN nodes[n] :
     AccessConflict(nodes[m][k], nodes[n][l])
=============================================================================
