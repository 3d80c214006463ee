--------------------------- MODULE DependencyGraph ---------------------------
(***************************************************************************)
(* Edge inference (infer.go): Build walks the nodes in record order,       *)
(* classifies every access of a node against the spans earlier nodes left  *)
(* pending, then commits the node's own spans, and finally closes the edge *)
(* set backwards into the reachability rows every later pass consults.     *)
(*                                                                         *)
(* st[key] is split by role into two sets of spans; a span carries its     *)
(* resource, so the map over resources is implicit.  The order of a list   *)
(* of spans is not observable here and is dropped.                         *)
(***************************************************************************)
EXTENDS RecordedGraph

VARIABLES
  nodes,    \* the recording, fixed
  phase,    \* which loop Build is in
  i, j,     \* the node, and the access of that node, being visited
  writers,  \* writes not yet fully overwritten
  readers,  \* reads since the last write covering their range
  edges,    \* succ and pred as one relation
  reach     \* rows of the transitive closure computed so far

vars == <<nodes, phase, i, j, writers, readers, edges, reach>>

N == Len(nodes)
Node == 1 .. N
ThisSpan == SpanOf(nodes, i, j)

Init ==
  /\ nodes \in Programs
  /\ phase = "classify" /\ i = 1 /\ j = 1
  /\ writers = {} /\ readers = {} /\ edges = {} /\ reach = {}

-----------------------------------------------------------------------------
\* Read-after-write edges from every overlapping pending writer.
RAW(a) == IF Reads(a) THEN {w.node : w \in {s \in writers : Overlaps(s, a)}} ELSE {}
\* Write-after-write edges.
WAW(a) == IF Writes(a) THEN {w.node : w \in {s \in writers : Overlaps(s, a)}} ELSE {}
\* Write-after-read edges from every overlapping pending reader.
WAR(a) == IF Writes(a) THEN {r.node : r \in {s \in readers : Overlaps(s, a)}} ELSE {}

\* addEdge ignores a self edge, and a duplicate is the same edge.
EdgesInto(n, froms) == {<<m, n>> : m \in froms \ {n}}

Classify ==
  /\ phase = "classify" /\ i \in Node /\ j =< Len(nodes[i])
  /\ edges' = edges \union EdgesInto(i, RAW(ThisSpan) \union WAW(ThisSpan) \union WAR(ThisSpan))
  /\ j' = j + 1
  /\ UNCHANGED <<nodes, phase, i, writers, readers, reach>>

\* Only when every access of the node is classified are any of them committed.
StartCommit ==
  /\ phase = "classify" /\ i \in Node /\ j > Len(nodes[i])
  /\ phase' = "commit" /\ j' = 1
  /\ UNCHANGED <<nodes, i, writers, readers, edges, reach>>

\* Mutant: a partial overwrite drops the span.
KeepDisjoint(spans, by) == {s \in spans : ~Overlaps(by, s)}

KeepUncovered(spans, by) == {s \in spans : ~Covers(by, s)}

\* A write drops every pending span it fully covers, its own read included.
Commit ==
  /\ phase = "commit" /\ j =< Len(nodes[i])
  /\ LET a  == ThisSpan
         rd == IF Reads(a) THEN readers \union {a} ELSE readers
     IN  IF Writes(a)
         THEN /\ writers' = KeepUncovered(writers, a) \union {a}
              /\ readers' = KeepUncovered(rd, a)
         ELSE /\ writers' = writers
              /\ readers' = rd
  /\ j' = j + 1
  /\ UNCHANGED <<nodes, phase, i, edges, reach>>

NextNode ==
  /\ phase = "commit" /\ j > Len(nodes[i])
  /\ phase' = "classify" /\ i' = i + 1 /\ j' = 1
  /\ UNCHANGED <<nodes, writers, readers, edges, reach>>

\* Inference is over; reachability starts from the last node.
StartReach ==
  /\ phase = "classify" /\ i = N + 1
  /\ phase' = "reach" /\ i' = N
  /\ UNCHANGED <<nodes, j, writers, readers, edges, reach>>

Succ(n) == {m \in Node : <<n, m>> \in edges}

\* Mutant: successors of successors only, not their rows.
RowOfEdges(n) == Succ(n)

Row(n) == {m \in Node : <<n, m>> \in reach}

\* A node's reach is its successors and all they reach; the rows of later
\* nodes are complete because edges run forwards.
ReachRow ==
  /\ phase = "reach" /\ i \in Node
  /\ reach' = reach \union {<<i, m>> : m \in Succ(i) \union UNION {Row(s) : s \in Succ(i)}}
  /\ i' = i - 1
  /\ UNCHANGED <<nodes, phase, j, writers, readers, edges>>

Finish ==
  /\ phase = "reach" /\ i = 0
  /\ phase' = "built"
  /\ UNCHANGED <<nodes, i, j, writers, readers, edges, reach>>

Next ==
  \/ Classify \/ StartCommit \/ Commit \/ NextNode
  \/ StartReach \/ ReachRow \/ Finish

Spec == Init /\ [][Next]_vars
-----------------------------------------------------------------------------

Span == [res : Resources, off : Nat, size : Nat \ {0}, mode : Modes, node : Node]

\* Every variable keeps its shape, and the cursor stays on an access or one
\* past the end (the loop bounds of inferEdges and reachability).
TypeOK ==
  /\ nodes \in Seq(Seq(Access))
  /\ phase \in {"classify", "commit", "reach", "built"}
  /\ i \in 0 .. N + 1 /\ j \in Nat \ {0}
  /\ phase = "classify" => i > 0
  /\ phase = "commit" => i \in Node
  /\ phase = "reach" => i =< N
  /\ writers \subseteq Span /\ readers \subseteq Span
  /\ edges \subseteq Node \X Node /\ reach \subseteq Node \X Node

\* The reason inference exists (inferEdges): when Build is done, any two nodes
\* whose declared accesses conflict are ordered, although only the spans still
\* pending were linked and covered ones were dropped on the way.
ConflictsAreOrdered ==
  phase = "built" =>
    \A m, n \in Node : m < n /\ Conflict(nodes, m, n) => <<m, n>> \in reach

EdgesRunForwards  == \A m, n \in Node : <<m, n>> \in edges => m < n
EdgesAreConflicts == \A m, n \in Node : <<m, n>> \in edges => Conflict(nodes, m, n)

\* The other half: an edge only runs to a later-recorded node (V22,
\* assertAcyclic), so one backward pass closes the edge set, and none is there
\* without a conflict, so nodes over disjoint ranges stay unordered (overlaps).
EdgesAreForwardConflicts == EdgesRunForwards /\ EdgesAreConflicts

\* The rows computed in one backward pass are closed under composition and
\* reach nothing an edge does not lead to (reachability): each pair is an
\* edge, or an edge followed by a pair.
ReachIsTheClosure ==
  phase = "built" =>
    \A m, n \in Node :
      /\ <<m, n>> \in reach => \/ <<m, n>> \in edges
                               \/ \E s \in Node : <<m, s>> \in edges /\ <<s, n>> \in reach
      /\ <<m, n>> \in edges => <<m, n>> \in reach
      /\ \A p \in Node : <<m, n>> \in reach /\ <<n, p>> \in reach => <<m, p>> \in reach
=============================================================================
