----------------------------- MODULE BarrierPlan -----------------------------
(***************************************************************************)
(* Barrier insertion (barrier.go): the second walk in record order.  Every *)
(* exact range keeps whether it was written or read since the last         *)
(* barrier; the needs of one node's accesses are batched into one barrier  *)
(* before it, and because a barrier is queue-wide, emitting one clears     *)
(* every range.  Stage masks and reasons are left out: a backend is handed *)
(* only whether a barrier precedes a node (build.go, lower).               *)
(***************************************************************************)
EXTENDS RecordedGraph

VARIABLES
  nodes,     \* the recording, fixed
  phase,     \* "need" and "commit" walk a node's accesses; "planned" is the end
  i, j,      \* the node, and the access of that node, being visited
  states,    \* rangeState records: one per exact range of a resource
  batch,     \* what the current node's accesses need so far
  barrier    \* barriersBefore

vars == <<nodes, phase, i, j, states, batch, barrier>>

N == Len(nodes)
Node == 1 .. N
This == nodes[i][j]

\* "execution" is a barrier that orders without flushing (memory = false).
Kinds == {"none", "execution", "memory"}

\* The head-of-submission barrier stands before the first node from the start.
Init ==
  /\ nodes \in Programs
  /\ phase = "need" /\ i = 1 /\ j = 1
  /\ states = {} /\ batch = "none"
  /\ barrier = [n \in 1 .. Len(nodes) |-> IF n = 1 THEN "memory" ELSE "none"]

-----------------------------------------------------------------------------
\* Mutant: write-after-write forgotten.
NeedsMemoryToRead(a) == Reads(a) /\ \E rs \in states : Overlaps(rs, a) /\ rs.written

\* Read-after-write and write-after-write need visibility; every access does
\* one or the other, so a pending write it overlaps always needs it.
NeedsMemory(a)    == \E rs \in states : Overlaps(rs, a) /\ rs.written
\* Write-after-read needs ordering only.

NeedsExecution(a) == Writes(a) /\ \E rs \in states : Overlaps(rs, a) /\ rs.read

Need ==
  /\ phase = "need" /\ i \in Node /\ j =< Len(nodes[i])
  /\ batch' = CASE NeedsMemory(This) -> "memory"
                [] ~NeedsMemory(This) /\ NeedsExecution(This) /\ batch = "none" -> "execution"
                [] OTHER -> batch
  /\ j' = j + 1
  /\ UNCHANGED <<nodes, phase, i, states, barrier>>

\* Mutant: satisfied state is kept, so the next node asks for it again.
NothingCleared == states

Cleared == {[rs EXCEPT !.written = FALSE, !.read = FALSE] : rs \in states}

\* One barrier before the node for all its accesses; a head barrier already
\* there absorbs the batch.  A barrier clears the pending state of every range.
Emit ==
  /\ phase = "need" /\ i \in Node /\ j > Len(nodes[i])
  /\ barrier' = [barrier EXCEPT ![i] = IF @ = "none" THEN batch ELSE @]
  /\ states' = IF barrier'[i] = "none" THEN states ELSE Cleared
  /\ phase' = "commit" /\ j' = 1 /\ batch' = "none"
  /\ UNCHANGED <<nodes, i>>

\* Mutant: a range is found by where it starts.
SameStart(rs, a) == rs.res = a.res /\ rs.off = a.off

SameRange(rs, a) == rs.res = a.res /\ rs.off = a.off /\ rs.size = a.size

\* update: a write ends the read set it was ordered against.
Updated(rs, a) ==
  [rs EXCEPT !.written = @ \/ Writes(a), !.read = (@ \/ Reads(a)) /\ ~Writes(a)]

Fresh(a) == [res |-> a.res, off |-> a.off, size |-> a.size, written |-> FALSE, read |-> FALSE]

CommitRange ==
  /\ phase = "commit" /\ j =< Len(nodes[i])
  /\ LET a    == This
         same == {rs \in states : SameRange(rs, a)}
         old  == IF same = {} THEN {Fresh(a)} ELSE same
     IN  states' = (states \ same) \union {Updated(rs, a) : rs \in old}
  /\ j' = j + 1
  /\ UNCHANGED <<nodes, phase, i, batch, barrier>>

NextNode ==
  /\ phase = "commit" /\ j > Len(nodes[i])
  /\ phase' = "need" /\ i' = i + 1 /\ j' = 1
  /\ UNCHANGED <<nodes, states, batch, barrier>>

Finish ==
  /\ phase = "need" /\ i = N + 1
  /\ phase' = "planned"
  /\ UNCHANGED <<nodes, i, j, states, batch, barrier>>

Next == Need \/ Emit \/ CommitRange \/ NextNode \/ Finish

Spec == Init /\ [][Next]_vars
-----------------------------------------------------------------------------
RangeState == [res : Resources, off : Nat, size : Nat \ {0},
               written : BOOLEAN, read : BOOLEAN]

\* The shape of the plan and of the walk; a range has one state.
TypeOK ==
  /\ nodes \in Seq(Seq(Access))
  /\ phase \in {"need", "commit", "planned"}
  /\ i \in 1 .. N + 1 /\ j \in Nat \ {0}
  /\ phase = "commit" => i \in Node
  /\ states \subseteq RangeState
  /\ batch \in Kinds
  /\ barrier \in [Node -> Kinds]

\* Some barrier of one of the kinds stands after node m and not after node n.
Between(m, n, kinds) == \E k \in Node : m < k /\ k =< n /\ barrier[k] \in kinds

\* The walk has emitted the barrier of node n.
Planned(n) == phase = "planned" \/ n < i \/ (n = i /\ phase = "commit")

\* What the walk is for (planBarriers): although state is cleared at every
\* barrier and kept per exact range, any two conflicting nodes end up with a
\* barrier between them.
ConflictsAreSeparated ==
  \A m, n \in Node :
    m < n /\ Planned(n) /\ Conflict(nodes, m, n)
      => Between(m, n, {"execution", "memory"})
=============================================================================
