------------------------- MODULE MCDependencyGraph -------------------------
(* Small recordings for TLC: every four single-access nodes over one two-byte *)
(* resource, every two nodes of up to two accesses, and every three            *)
(* single-access nodes over two resources.                                     *)
EXTENDS DependencyGraph

CONSTANTS buf1, buf2

Ranges == {[off |-> 0, size |-> 1], [off |-> 1, size |-> 1], [off |-> 0, size |-> 2]}
Acc(rs) == {[res |-> r, off |-> g.off, size |-> g.size, mode |-> m] :
              r \in rs, g \in Ranges, m \in Modes}
One(rs) == {<<x>> : x \in Acc(rs)}
Two(rs) == {<<x, y>> : x, y \in Acc(rs)}

MCPrograms ==
  [1 .. 4 -> One({buf1})]
    \union [1 .. 2 -> One({buf1}) \union Two({buf1})]
    \union [1 .. 3 -> One({buf1, buf2})]
    \union {<<>>}
=============================================================================
