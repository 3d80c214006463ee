------------------------ MODULE DependencyGraph_proofs ------------------------
(***************************************************************************)
(* Edge inference is complete for every recording: two nodes whose         *)
(* accesses conflict are ordered in the reachability rows Build ends with, *)
(* whatever the number of nodes, resources and ranges.                     *)
(*                                                                         *)
(* The conclusion is not inductive: covered spans are dropped, so the edge *)
(* into a later node may start at a node that overwrote the one in         *)
(* question.  The invariant therefore speaks of every relation R that is   *)
(* transitive and contains the edges found so far: each byte of a          *)
(* committed access is remembered by a pending span whose node is that     *)
(* access's own or follows it in R.  At the end R is taken to be reach.    *)
(*                                                                         *)
(* The rows are exact too: those complete so far contain the edges out of  *)
(* their nodes, are transitive among themselves, and each of their pairs   *)
(* starts with an edge; edges run forwards, so one backward pass does.     *)
(***************************************************************************)
EXTENDS DependencyGraph, TLAPS

HasByte(s, r, x) == s.res = r /\ s.off =< x /\ x < s.off + s.size

\* The walk is over, or has passed access k of node n in the loop named.
Walking == phase \in {"classify", "commit"}
Linked(n, k)    == Walking => n < i \/ (n = i /\ (phase = "commit" \/ k < j))
Committed(n, k) == Walking => n < i \/ (n = i /\ phase = "commit" /\ k < j)

Closed(R) ==
  /\ edges \subseteq R
  /\ \A m, n, p \in Node : <<m, n>> \in R /\ <<n, p>> \in R => <<m, p>> \in R
Before(R, m, n) == m = n \/ <<m, n>> \in R

\* Pending spans are declared accesses of nodes already visited.
SpansDeclared ==
  /\ \A w \in writers : \E k \in DOMAIN nodes[w.node] :
       w = SpanOf(nodes, w.node, k) /\ Writes(w) /\ Committed(w.node, k)
  /\ \A r \in readers : \E k \in DOMAIN nodes[r.node] :
       r = SpanOf(nodes, r.node, k) /\ Reads(r) /\ Committed(r.node, k)

\* What the current node has classified is linked to every pending span.
SpansLinked ==
  Walking /\ i \in Node =>
    \A k \in DOMAIN nodes[i] : Linked(i, k) =>
      /\ \A w \in writers : w.node < i /\ Overlaps(w, nodes[i][k]) => <<w.node, i>> \in edges
      /\ \A r \in readers : r.node < i /\ Overlaps(r, nodes[i][k]) /\ Writes(nodes[i][k])
                              => <<r.node, i>> \in edges

WriteRemembered(R, n, a, x) ==
  \E w \in writers : HasByte(w, a.res, x) /\ Before(R, n, w.node)

ReadRemembered(R, n, a, x) ==
  \/ \E r \in readers : HasByte(r, a.res, x) /\ r.node = n
  \/ WriteRemembered(R, n, a, x)

BytesRemembered ==
  \A R \in SUBSET (Node \X Node) : Closed(R) =>
    \A n \in Node : \A k \in DOMAIN nodes[n] : Committed(n, k) =>
      \A x \in Nat : HasByte(nodes[n][k], nodes[n][k].res, x) =>
        /\ Writes(nodes[n][k]) => WriteRemembered(R, n, nodes[n][k], x)
        /\ Reads(nodes[n][k])  => ReadRemembered(R, n, nodes[n][k], x)

ConflictsLinked ==
  \A R \in SUBSET (Node \X Node) : Closed(R) =>
    \A m, n \in Node : \A k \in DOMAIN nodes[m] : \A l \in DOMAIN nodes[n] :
      m < n /\ Linked(n, l) /\ AccessConflict(nodes[m][k], nodes[n][l]) => <<m, n>> \in R

\* The rows filled in so far, from the last node down to i + 1.
RowsClosed ==
  /\ Walking => reach = {}
  /\ phase = "built" => i = 0
  /\ \A m, n \in Node : <<m, n>> \in reach => i < m /\ m < n
  /\ phase \in {"reach", "built"} =>
       \A m, n \in Node : i < m /\ <<m, n>> \in edges => <<m, n>> \in reach
  /\ \A m, n, p \in Node : <<m, n>> \in reach /\ <<n, p>> \in reach => <<m, p>> \in reach

RowsAreReached ==
  \A m, n \in Node : <<m, n>> \in reach =>
    \/ <<m, n>> \in edges
    \/ \E s \in Node : <<m, s>> \in edges /\ <<s, n>> \in reach

IInv ==
  /\ TypeOK /\ EdgesRunForwards /\ EdgesAreConflicts
  /\ SpansDeclared /\ SpansLinked /\ BytesRemembered /\ ConflictsLinked /\ RowsClosed
  /\ RowsAreReached

-----------------------------------------------------------------------------
(* What the access of a node is, as a span.                                  *)
LEMMA AccessIsTyped ==
  ASSUME TypeOK, NEW n \in Node, NEW k \in DOMAIN nodes[n]
  PROVE  /\ nodes[n][k] \in Access
         /\ SpanOf(nodes, n, k) \in Span
         /\ k \in Nat \ {0} /\ k =< Len(nodes[n])
<1>1. nodes[n] \in Seq(Access)
  BY DEF TypeOK, Node, N
<1>2. nodes[n][k] \in Access /\ k \in 1 .. Len(nodes[n])
  BY <1>1
<1>3. SpanOf(nodes, n, k) \in Span
  BY <1>2 DEF SpanOf, Span, Access
<1> QED BY <1>2, <1>3

(* The access under the cursor, seen as a span of the current node.          *)
LEMMA CursorIsTyped ==
  ASSUME TypeOK, i \in Node, j =< Len(nodes[i])
  PROVE  /\ j \in DOMAIN nodes[i]
         /\ ThisSpan \in Span
         /\ ThisSpan.node = i
         /\ ThisSpan = SpanOf(nodes, i, j)
         /\ \A s \in Span : /\ Overlaps(s, ThisSpan) <=> Overlaps(s, nodes[i][j])
                            /\ Covers(ThisSpan, s) <=> Covers(nodes[i][j], s)
         /\ Reads(ThisSpan) <=> Reads(nodes[i][j])
         /\ Writes(ThisSpan) <=> Writes(nodes[i][j])
<1>1. j \in DOMAIN nodes[i]
  BY DEF TypeOK, Node, N
<1> QED BY <1>1, AccessIsTyped DEF ThisSpan, SpanOf, Overlaps, Covers, Reads, Writes

(* Overlapping ranges share a byte, and sharing one makes them overlap.      *)
LEMMA OverlapIsASharedByte ==
  ASSUME NEW a, NEW b,
         a.off \in Nat, a.size \in Nat \ {0}, b.off \in Nat, b.size \in Nat \ {0}
  PROVE  /\ Overlaps(a, b) => \E x \in Nat : HasByte(a, a.res, x) /\ HasByte(b, a.res, x)
         /\ \A r : \A x \in Nat : HasByte(a, r, x) /\ HasByte(b, r, x) => Overlaps(a, b)
<1>1. ASSUME Overlaps(a, b)
      PROVE  \E x \in Nat : HasByte(a, a.res, x) /\ HasByte(b, a.res, x)
  <2>1. CASE a.off =< b.off
    BY <1>1, <2>1, HasByte(a, a.res, b.off) /\ HasByte(b, a.res, b.off) DEF Overlaps, HasByte
  <2>2. CASE b.off < a.off
    BY <1>1, <2>2, HasByte(a, a.res, a.off) /\ HasByte(b, a.res, a.off) DEF Overlaps, HasByte
  <2> QED BY <2>1, <2>2
<1>2. ASSUME NEW r, NEW x \in Nat, HasByte(a, r, x), HasByte(b, r, x)
      PROVE  Overlaps(a, b)
  BY <1>2 DEF Overlaps, HasByte
<1> QED BY <1>1, <1>2

LEMMA TypeInit == Init => TypeOK
BY ProgramsAssumption DEF Init, TypeOK, N, Node, Span

(* The type invariant is inductive by itself.                                *)
LEMMA TypeStep == TypeOK /\ [Next]_vars => TypeOK'
<1> SUFFICES ASSUME TypeOK, [Next]_vars PROVE TypeOK'
  OBVIOUS
<1>1. CASE Classify
  <2>1. ThisSpan \in Span /\ ThisSpan.node = i
    BY <1>1, CursorIsTyped DEF Classify
  <2>2. RAW(ThisSpan) \subseteq Node /\ WAW(ThisSpan) \subseteq Node /\ WAR(ThisSpan) \subseteq Node
    BY DEF RAW, WAW, WAR, TypeOK, Span
  <2>3. edges' \subseteq Node \X Node
    BY <1>1, <2>2 DEF Classify, EdgesInto, TypeOK
  <2>4. Node' = Node /\ N' = N /\ Span' = Span
    BY <1>1 DEF Classify, Node, N, Span
  <2>5. j' \in Nat \ {0}
    BY <1>1 DEF Classify, TypeOK
  <2> QED BY <1>1, <2>3, <2>4, <2>5 DEF Classify, TypeOK
<1>2. CASE Commit
  <2>1. ThisSpan \in Span
    BY <1>2, CursorIsTyped DEF Commit, TypeOK
  <2>2. writers' \subseteq Span /\ readers' \subseteq Span
    BY <1>2, <2>1 DEF Commit, KeepUncovered, TypeOK
  <2> QED BY <1>2, <2>2 DEF Commit, TypeOK, N, Node, Span
<1>3. CASE StartCommit
  BY <1>3 DEF StartCommit, TypeOK, N, Node, Span
<1>4. CASE NextNode
  BY <1>4 DEF NextNode, TypeOK, N, Node, Span
<1>5. CASE StartReach
  BY <1>5 DEF StartReach, TypeOK, N, Node, Span
<1>6. CASE ReachRow
  <2>1. Succ(i) \subseteq Node /\ \A s \in Succ(i) : Row(s) \subseteq Node
    BY DEF Succ, Row
  <2>2. {<<i, m>> : m \in Succ(i) \union UNION {Row(s) : s \in Succ(i)}} \subseteq Node \X Node
    BY <1>6, <2>1 DEF ReachRow
  <2>3. reach' \subseteq Node \X Node
    BY <1>6, <2>2 DEF ReachRow, TypeOK
  <2> QED BY <1>6, <2>3 DEF ReachRow, TypeOK, N, Node, Span
<1>7. CASE Finish
  BY <1>7 DEF Finish, TypeOK, N, Node, Span
<1>8. CASE UNCHANGED vars
  BY <1>8 DEF vars, TypeOK, N, Node, Span
<1> QED BY <1>1, <1>2, <1>3, <1>4, <1>5, <1>6, <1>7, <1>8 DEF Next

(* Type correctness of edge inference and reachability (infer.go) for every
   recording.                                                                *)
THEOREM TypeCorrect == Spec => []TypeOK
BY TypeInit, TypeStep, PTL DEF Spec

-----------------------------------------------------------------------------
(* A pending span belongs to a node already visited: strictly before the
   current one while the current one is being classified.                    *)
LEMMA PendingIsVisited ==
  ASSUME TypeOK, SpansDeclared, Walking, NEW s \in writers \union readers
  PROVE  /\ s \in Span /\ s.node =< i
         /\ phase = "classify" => s.node < i
         /\ \E k \in DOMAIN nodes[s.node] :
              /\ s = SpanOf(nodes, s.node, k)
              /\ \A c : Overlaps(s, c) <=> Overlaps(nodes[s.node][k], c)
              /\ Writes(s) <=> Writes(nodes[s.node][k])
<1>1. s \in Span
  BY DEF TypeOK
<1>2. PICK k \in DOMAIN nodes[s.node] : s = SpanOf(nodes, s.node, k) /\ Committed(s.node, k)
  BY DEF SpansDeclared
<1>3. s.node =< i /\ (phase = "classify" => s.node < i)
  BY <1>1, <1>2 DEF Committed, TypeOK, Span, Node, N, Walking
<1>4. /\ \A c : Overlaps(s, c) <=> Overlaps(nodes[s.node][k], c)
      /\ Writes(s) <=> Writes(nodes[s.node][k])
  BY <1>2 DEF SpanOf, Overlaps, Writes
<1> QED BY <1>1, <1>2, <1>3, <1>4

(* The edges one classification adds: from earlier nodes that conflict with
   the access, and from every pending span that does.                        *)
LEMMA ClassifyEdges ==
  ASSUME TypeOK, SpansDeclared, Classify
  PROVE  /\ edges \subseteq edges'
         /\ \A m, n \in Node : <<m, n>> \in edges' /\ <<m, n>> \notin edges
              => n = i /\ m < i /\ Conflict(nodes, m, n)
         /\ \A w \in writers : Overlaps(w, nodes[i][j]) => <<w.node, i>> \in edges'
         /\ \A r \in readers : Overlaps(r, nodes[i][j]) /\ Writes(nodes[i][j])
              => <<r.node, i>> \in edges'
<1> DEFINE a == nodes[i][j]
<1>1. i \in Node /\ j \in DOMAIN nodes[i] /\ Walking /\ phase = "classify"
  BY CursorIsTyped DEF Classify, Walking
<1>2. /\ \A s \in Span : Overlaps(s, ThisSpan) <=> Overlaps(s, a)
      /\ Reads(ThisSpan) <=> Reads(a)
      /\ Writes(ThisSpan) <=> Writes(a)
  BY <1>1, CursorIsTyped DEF Classify
<1>3. Reads(a) \/ Writes(a)
  BY <1>1, AccessIsTyped DEF Reads, Writes, Access, Modes
<1>4. ASSUME NEW m \in Node, NEW n \in Node, <<m, n>> \in edges', <<m, n>> \notin edges
      PROVE  n = i /\ m < i /\ Conflict(nodes, m, n)
  <2>1. n = i /\ m \in RAW(ThisSpan) \union WAW(ThisSpan) \union WAR(ThisSpan)
    BY <1>4 DEF Classify, EdgesInto
  <2>2. PICK s \in writers \union readers :
          m = s.node /\ Overlaps(s, ThisSpan) /\ (s \in writers \/ Writes(ThisSpan))
    BY <2>1 DEF RAW, WAW, WAR
  <2>3. PICK k \in DOMAIN nodes[m] :
          Overlaps(nodes[m][k], a) /\ (Writes(nodes[m][k]) \/ Writes(a))
    BY <2>2, <1>1, <1>2, PendingIsVisited DEF SpansDeclared
  <2>4. AccessConflict(nodes[m][k], nodes[n][j])
    BY <2>1, <2>3 DEF AccessConflict
  <2>5. m < i
    BY <2>2, <1>1, PendingIsVisited
  <2> QED BY <2>1, <2>4, <2>5, <1>1, <2>3 DEF Conflict
<1>5. ASSUME NEW w \in writers, Overlaps(w, a)
      PROVE  <<w.node, i>> \in edges'
  <2>1. w.node \in RAW(ThisSpan) \union WAW(ThisSpan)
    BY <1>2, <1>3, <1>5 DEF RAW, WAW, TypeOK
  <2>2. w.node # i
    BY <1>1, PendingIsVisited DEF TypeOK, Span, Node, N
  <2> QED BY <2>1, <2>2 DEF Classify, EdgesInto
<1>6. ASSUME NEW r \in readers, Overlaps(r, a), Writes(a)
      PROVE  <<r.node, i>> \in edges'
  <2>1. r.node \in WAR(ThisSpan)
    BY <1>2, <1>6 DEF WAR, TypeOK
  <2>2. r.node # i
    BY <1>1, PendingIsVisited DEF TypeOK, Span, Node, N
  <2> QED BY <2>1, <2>2 DEF Classify, EdgesInto
<1> QED BY <1>4, <1>5, <1>6 DEF Classify

(* Edges run forwards and only between conflicting nodes: preserved.         *)
LEMMA EdgesStep ==
  ASSUME TypeOK, SpansDeclared, EdgesRunForwards, EdgesAreConflicts, [Next]_vars
  PROVE  EdgesRunForwards' /\ EdgesAreConflicts'
<1>1. CASE Classify
  <2>1. nodes' = nodes /\ N' = N /\ Node' = Node
    BY <1>1 DEF Classify, Node, N
  <2> QED BY <1>1, <2>1, ClassifyEdges DEF EdgesRunForwards, EdgesAreConflicts
<1>2. CASE UNCHANGED <<nodes, edges>>
  BY <1>2 DEF EdgesRunForwards, EdgesAreConflicts, Node, N, Conflict
<1> QED BY <1>1, <1>2
    DEF Next, StartCommit, Commit, NextNode, StartReach, ReachRow, Finish, vars

(* Pending spans stay declared accesses of visited nodes.                    *)
LEMMA DeclaredStep ==
  ASSUME TypeOK, SpansDeclared, [Next]_vars
  PROVE  SpansDeclared'
<1>1. nodes' = nodes /\ \A n, k : SpanOf(nodes, n, k)' = SpanOf(nodes, n, k)
  BY DEF Next, Classify, StartCommit, Commit, NextNode, StartReach, ReachRow, Finish, vars, SpanOf
<1>2. ASSUME NEW n \in Node, NEW k \in DOMAIN nodes[n], Committed(n, k)
      PROVE  Committed(n, k)'
  <2>1. k \in Nat /\ k =< Len(nodes[n])
    BY AccessIsTyped
  <2> QED BY <1>2, <2>1 DEF Committed, Walking, Next, Classify, StartCommit, Commit, NextNode,
               StartReach, ReachRow, Finish, vars, TypeOK, Node, N
<1>3. CASE Commit
  <2>1. ThisSpan = SpanOf(nodes, i, j) /\ ThisSpan.node = i /\ j \in DOMAIN nodes[i] /\ i \in Node
    BY <1>3, CursorIsTyped DEF Commit, TypeOK
  <2>2. \A n, k : n = i /\ k = j => Committed(n, k)'
    BY <1>3, <2>1 DEF Commit, Committed, Walking, TypeOK, Node, N
  <2>3. \A w \in writers' : w \in writers \/ (w = ThisSpan /\ Writes(w))
    BY <1>3 DEF Commit, KeepUncovered
  <2>4. \A r \in readers' : r \in readers \/ (r = ThisSpan /\ Reads(r))
    BY <1>3 DEF Commit, KeepUncovered
  <2>5. \A s \in writers \union readers : s.node \in Node
    BY DEF TypeOK, Span
  <2> QED BY <1>1, <1>2, <2>1, <2>2, <2>3, <2>4, <2>5 DEF SpansDeclared
<1>4. CASE UNCHANGED <<writers, readers>>
  <2>1. \A s \in writers \union readers : s.node \in Node
    BY DEF TypeOK, Span
  <2> QED BY <1>1, <1>2, <1>4, <2>1 DEF SpansDeclared
<1> QED BY <1>3, <1>4
    DEF Next, Classify, StartCommit, NextNode, StartReach, ReachRow, Finish, vars

(* What the current node has classified stays linked to the pending spans;
   committing only adds spans of the current node.                           *)
LEMMA LinkedStep ==
  ASSUME TypeOK, SpansDeclared, SpansLinked, [Next]_vars
  PROVE  SpansLinked'
<1>1. CASE Classify
  <2>1. i' = i /\ nodes' = nodes /\ writers' = writers /\ readers' = readers /\ phase' = phase
        /\ i \in Node /\ Node' = Node /\ phase = "classify" /\ j' = j + 1
    BY <1>1 DEF Classify, Node, N
  <2> SUFFICES ASSUME NEW k \in DOMAIN nodes[i], Linked(i, k)'
      PROVE  /\ \A w \in writers : w.node < i /\ Overlaps(w, nodes[i][k]) => <<w.node, i>> \in edges'
             /\ \A r \in readers : r.node < i /\ Overlaps(r, nodes[i][k]) /\ Writes(nodes[i][k])
                                  => <<r.node, i>> \in edges'
    BY <2>1 DEF SpansLinked
  <2>2. k = j \/ Linked(i, k)
    BY <2>1, AccessIsTyped DEF Linked, Walking, TypeOK, Node, N
  <2>3. CASE k = j
    BY <1>1, <2>3, ClassifyEdges
  <2>4. CASE Linked(i, k)
    <3>1. edges \subseteq edges'
      BY <1>1, ClassifyEdges
    <3> QED BY <2>1, <2>4, <3>1 DEF SpansLinked, Walking
  <2> QED BY <2>2, <2>3, <2>4
<1>2. CASE StartCommit
  BY <1>2, AccessIsTyped DEF StartCommit, SpansLinked, Linked, Walking, Node, N, TypeOK
<1>3. CASE Commit
  <2>1. ThisSpan.node = i /\ i \in Node
    BY <1>3, CursorIsTyped DEF Commit, TypeOK
  <2>2. \A s \in writers' : s.node < i => s \in writers
    BY <1>3, <2>1 DEF Commit, KeepUncovered, Node
  <2>3. \A s \in readers' : s.node < i => s \in readers
    BY <1>3, <2>1 DEF Commit, KeepUncovered, Node
  <2> QED BY <1>3, <2>1, <2>2, <2>3 DEF Commit, SpansLinked, Linked, Walking
<1>4. CASE NextNode
  <2>1. \A n \in Node : \A k \in DOMAIN nodes[n] : n = i + 1 => ~Linked(n, k)'
    BY <1>4, AccessIsTyped DEF NextNode, Linked, Walking, TypeOK, Node, N
  <2> QED BY <1>4, <2>1 DEF NextNode, SpansLinked, Walking, Node, N
<1>5. CASE StartReach \/ ReachRow \/ Finish
  BY <1>5 DEF StartReach, ReachRow, Finish, SpansLinked, Walking
<1>6. CASE UNCHANGED vars
  BY <1>6 DEF vars, SpansLinked, Linked, Walking, Node, N
<1> QED BY <1>1, <1>2, <1>3, <1>4, <1>5, <1>6 DEF Next

-----------------------------------------------------------------------------
(* A relation closed over the next edge set is closed over the present one.  *)
LEMMA ClosedBackwards ==
  ASSUME TypeOK, [Next]_vars, NEW R \in SUBSET (Node \X Node), Closed(R)'
  PROVE  Closed(R) /\ nodes' = nodes /\ Node' = Node
<1>1. nodes' = nodes
  BY DEF Next, Classify, StartCommit, Commit, NextNode, StartReach, ReachRow, Finish, vars
<1>2. edges \subseteq edges'
  BY DEF Next, Classify, StartCommit, Commit, NextNode, StartReach, ReachRow, Finish, vars
<1> QED BY <1>1, <1>2 DEF Closed, Node, N

(* A span the committed write drops belongs to a node ordered before it.     *)
LEMMA DroppedIsOrdered ==
  ASSUME TypeOK, SpansDeclared, SpansLinked, Commit,
         NEW R \in SUBSET (Node \X Node), Closed(R),
         NEW s \in writers \union readers, Writes(ThisSpan), Covers(ThisSpan, s)
  PROVE  Before(R, s.node, i)
<1>1. i \in Node /\ j \in DOMAIN nodes[i] /\ Walking /\ Linked(i, j)
  BY CursorIsTyped DEF Commit, Walking, Linked, TypeOK
<1>2. s \in Span /\ ThisSpan \in Span
  BY <1>1, CursorIsTyped DEF TypeOK, Commit
<1>3. Overlaps(s, ThisSpan)
  BY <1>2 DEF Covers, Overlaps, Span
<1>4. Overlaps(s, nodes[i][j]) /\ Writes(nodes[i][j])
  BY <1>1, <1>2, <1>3, CursorIsTyped DEF Commit
<1>5. s.node = i \/ s.node < i
  <2>1. s.node =< i
    BY <1>1, PendingIsVisited
  <2> QED BY <1>1, <1>2, <2>1 DEF Span, Node
<1>6. s.node < i => <<s.node, i>> \in edges
  BY <1>1, <1>4 DEF SpansLinked
<1> QED BY <1>5, <1>6 DEF Before, Closed

(* Every byte of a committed access stays remembered.                        *)
LEMMA RememberedStep ==
  ASSUME TypeOK, SpansDeclared, SpansLinked, BytesRemembered, [Next]_vars
  PROVE  BytesRemembered'
<1> SUFFICES ASSUME NEW R \in SUBSET (Node \X Node), Closed(R)',
                    NEW n \in Node, NEW k \in DOMAIN nodes[n], Committed(n, k)',
                    NEW x \in Nat, HasByte(nodes[n][k], nodes[n][k].res, x)
    PROVE  /\ Writes(nodes[n][k]) => WriteRemembered(R, n, nodes[n][k], x)'
           /\ Reads(nodes[n][k])  => ReadRemembered(R, n, nodes[n][k], x)'
  <2>1. nodes' = nodes /\ Node' = Node
    BY DEF Next, Classify, StartCommit, Commit, NextNode, StartReach, ReachRow, Finish, vars, Node, N
  <2> QED BY <2>1 DEF BytesRemembered
<1> DEFINE c == nodes[n][k]
<1>1. Closed(R) /\ nodes' = nodes
  BY ClosedBackwards
<1>2. ASSUME Committed(n, k)
      PROVE  /\ Writes(c) => WriteRemembered(R, n, c, x)
             /\ Reads(c)  => ReadRemembered(R, n, c, x)
  BY <1>1, <1>2 DEF BytesRemembered
<1>3. CASE Commit
  <2> DEFINE a == ThisSpan
  <2>1. /\ a \in Span /\ a.node = i /\ i \in Node /\ j \in DOMAIN nodes[i]
        /\ a = SpanOf(nodes, i, j)
    BY <1>3, CursorIsTyped DEF Commit, TypeOK
  <2>2. ASSUME NEW s \in writers \union readers, HasByte(s, c.res, x), Before(R, n, s.node),
               Writes(a), Covers(a, s)
        PROVE  WriteRemembered(R, n, c, x)'
    <3>1. Before(R, s.node, i)
      BY <1>1, <1>3, <2>2, DroppedIsOrdered
    <3>2. s \in Span
      BY DEF TypeOK
    <3>3. Before(R, n, i)
      BY <1>1, <2>1, <2>2, <3>1, <3>2 DEF Before, Closed, Span
    <3>4. HasByte(a, c.res, x)
      BY <2>1, <2>2, <3>2 DEF HasByte, Covers, Span
    <3>5. a \in writers'
      BY <1>3, <2>2 DEF Commit
    <3>6. \A w \in writers' : w = a => HasByte(w, c.res, x) /\ Before(R, n, w.node)
      BY <2>1, <3>3, <3>4
    <3> QED BY <3>5, <3>6, <1>1 DEF WriteRemembered, HasByte, Before
  <2>3. ASSUME NEW w \in writers, HasByte(w, c.res, x), Before(R, n, w.node)
        PROVE  WriteRemembered(R, n, c, x)'
    <3>1. CASE w \in writers'
      BY <2>3, <3>1, <1>1 DEF WriteRemembered, HasByte, Before
    <3>2. CASE w \notin writers'
      BY <1>3, <2>2, <2>3, <3>2 DEF Commit, KeepUncovered
    <3> QED BY <3>1, <3>2
  <2>4. ASSUME Committed(n, k)
        PROVE  /\ Writes(c) => WriteRemembered(R, n, c, x)'
               /\ Reads(c)  => ReadRemembered(R, n, c, x)'
    <3>1. Writes(c) => WriteRemembered(R, n, c, x)'
      BY <1>2, <2>3, <2>4 DEF WriteRemembered
    <3>2. ASSUME NEW r \in readers, HasByte(r, c.res, x), r.node = n
          PROVE  ReadRemembered(R, n, c, x)'
      <4>1. CASE r \in readers'
        BY <3>2, <4>1, <1>1 DEF ReadRemembered, HasByte
      <4>2. CASE r \notin readers'
        <5>1. Writes(a) /\ Covers(a, r)
          BY <1>3, <4>2 DEF Commit, KeepUncovered
        <5> QED BY <2>2, <3>2, <5>1 DEF ReadRemembered, Before
      <4> QED BY <4>1, <4>2
    <3>3. Reads(c) => ReadRemembered(R, n, c, x)'
      BY <1>2, <2>3, <2>4, <3>2 DEF ReadRemembered, WriteRemembered
    <3> QED BY <3>1, <3>3
  <2>5. ASSUME n = i, k = j
        PROVE  /\ Writes(c) => WriteRemembered(R, n, c, x)'
               /\ Reads(c)  => ReadRemembered(R, n, c, x)'
    <3>1. HasByte(a, c.res, x) /\ a.node = n /\ (Writes(a) <=> Writes(c)) /\ (Reads(a) <=> Reads(c))
      BY <2>1, <2>5 DEF SpanOf, HasByte, Writes, Reads
    <3>2. Writes(a) => a \in writers'
      BY <1>3 DEF Commit
    <3>3. Reads(a) /\ ~Writes(a) => a \in readers'
      BY <1>3 DEF Commit
    <3>4. \A s : s = a => HasByte(s, c.res, x) /\ s.node = n
      BY <3>1
    <3>5. Writes(c) => WriteRemembered(R, n, c, x)'
      BY <3>1, <3>2, <3>4, <1>1 DEF WriteRemembered, HasByte, Before
    <3>6. Reads(c) => ReadRemembered(R, n, c, x)'
      BY <3>1, <3>3, <3>4, <3>5, <1>1 DEF ReadRemembered, HasByte
    <3> QED BY <3>5, <3>6
  <2>6. Committed(n, k) \/ (n = i /\ k = j)
    BY <1>3, AccessIsTyped DEF Commit, Committed, Walking, TypeOK, Node, N
  <2> QED BY <2>4, <2>5, <2>6
<1>4. ASSUME UNCHANGED <<writers, readers>>, Committed(n, k)
      PROVE  /\ Writes(c) => WriteRemembered(R, n, c, x)'
             /\ Reads(c)  => ReadRemembered(R, n, c, x)'
  BY <1>1, <1>2, <1>4 DEF WriteRemembered, ReadRemembered, HasByte, Before
<1>5. CASE Classify \/ StartCommit \/ NextNode \/ StartReach \/ ReachRow \/ Finish \/ UNCHANGED vars
  <2>1. Committed(n, k)
    BY <1>5, AccessIsTyped DEF Committed, Walking, Classify, StartCommit, NextNode, StartReach,
       ReachRow, Finish, vars, TypeOK, Node, N
  <2>2. UNCHANGED <<writers, readers>>
    BY <1>5 DEF Classify, StartCommit, NextNode, StartReach, ReachRow, Finish, vars
  <2> QED BY <1>4, <2>1, <2>2
<1> QED BY <1>3, <1>5 DEF Next

(* Conflicts with classified accesses stay ordered.                          *)
LEMMA ConflictsStep ==
  ASSUME TypeOK, SpansDeclared, BytesRemembered, ConflictsLinked, [Next]_vars
  PROVE  ConflictsLinked'
<1> SUFFICES ASSUME NEW R \in SUBSET (Node \X Node), Closed(R)',
                    NEW m \in Node, NEW n \in Node,
                    NEW k \in DOMAIN nodes[m], NEW l \in DOMAIN nodes[n],
                    m < n, Linked(n, l)', AccessConflict(nodes[m][k], nodes[n][l])
    PROVE  <<m, n>> \in R
  <2>1. nodes' = nodes /\ Node' = Node
    BY DEF Next, Classify, StartCommit, Commit, NextNode, StartReach, ReachRow, Finish, vars, Node, N
  <2> QED BY <2>1 DEF ConflictsLinked
<1>1. Closed(R)
  BY ClosedBackwards
<1>2. CASE Linked(n, l)
  BY <1>1, <1>2 DEF ConflictsLinked
<1>3. CASE ~Linked(n, l)
  <2>1. Classify /\ n = i /\ l = j
    <3>1. l \in Nat \ {0} /\ l =< Len(nodes[n]) /\ n \in Nat /\ n =< N
      <4>1. l \in Nat \ {0} /\ l =< Len(nodes[n])
        BY AccessIsTyped
      <4> QED BY <4>1 DEF Node, TypeOK, N
    <3>2. CASE Classify
      BY <1>3, <3>1, <3>2 DEF Linked, Walking, Classify, TypeOK
    <3>3. CASE StartCommit \/ Commit \/ NextNode
      BY <1>3, <3>1, <3>3 DEF Linked, Walking, StartCommit, Commit, NextNode, TypeOK
    <3>4. CASE StartReach \/ ReachRow \/ Finish \/ UNCHANGED vars
      BY <1>3, <3>1, <3>4 DEF Linked, Walking, StartReach, ReachRow, Finish, vars, TypeOK, N
    <3> QED BY <3>2, <3>3, <3>4 DEF Next
  <2> DEFINE a == nodes[i][j]
             c == nodes[m][k]
  <2>2. i \in Node /\ j \in DOMAIN nodes[i] /\ Committed(m, k) /\ c \in Access /\ a \in Access
    BY <2>1, AccessIsTyped DEF Committed, Classify
  <2>3. PICK x \in Nat : HasByte(c, c.res, x) /\ HasByte(a, c.res, x)
    BY <2>1, <2>2, OverlapIsASharedByte DEF AccessConflict, Access
  <2>4. \A s \in writers \union readers : HasByte(s, c.res, x) => Overlaps(s, a)
    <3>1. \A s \in writers \union readers : s \in Span
      BY DEF TypeOK
    <3> QED BY <2>2, <2>3, <3>1, OverlapIsASharedByte DEF Span, Access
  <2>5. ASSUME NEW w \in writers, HasByte(w, c.res, x), Before(R, m, w.node)
        PROVE  <<m, n>> \in R
    <3>1. <<w.node, i>> \in R
      BY <1>1, <2>1, <2>4, <2>5, ClassifyEdges, ClosedBackwards DEF Closed
    <3>2. w.node \in Node
      BY DEF TypeOK, Span
    <3> QED BY <1>1, <2>1, <2>2, <2>5, <3>1, <3>2 DEF Before, Closed
  <2>6. CASE Writes(c)
    BY <1>1, <2>2, <2>3, <2>5, <2>6 DEF BytesRemembered, WriteRemembered
  <2>7. CASE Reads(c) /\ Writes(a)
    <3>1. ASSUME NEW r \in readers, HasByte(r, c.res, x), r.node = m
          PROVE  <<m, n>> \in R
      BY <2>1, <2>4, <2>7, <3>1, ClassifyEdges, ClosedBackwards DEF Closed
    <3> QED BY <1>1, <2>2, <2>3, <2>5, <2>7, <3>1 DEF BytesRemembered, ReadRemembered, WriteRemembered
  <2>8. Writes(c) \/ (Reads(c) /\ Writes(a))
    BY <2>1, <2>2 DEF AccessConflict, Access, Modes, Reads, Writes
  <2> QED BY <2>6, <2>7, <2>8
<1> QED BY <1>2, <1>3

(* The pairs a row adds: the node's successors and what they reach.          *)
LEMMA ReachRowAdds ==
  ASSUME ReachRow
  PROVE  \A m, n \in Node : <<m, n>> \in reach' <=>
           \/ <<m, n>> \in reach
           \/ m = i /\ <<i, n>> \in edges
           \/ m = i /\ \E s \in Node : <<i, s>> \in edges /\ <<s, n>> \in reach
<1>1. \A q : q \in Succ(i) \union UNION {Row(s) : s \in Succ(i)} <=>
        /\ q \in Node
        /\ \/ <<i, q>> \in edges
           \/ \E s \in Node : <<i, s>> \in edges /\ <<s, q>> \in reach
  <2>1. \A q : q \in Succ(i) <=> q \in Node /\ <<i, q>> \in edges
    BY DEF Succ
  <2>2. \A q, s : q \in Row(s) <=> q \in Node /\ <<s, q>> \in reach
    BY DEF Row
  <2>3. \A q : q \in UNION {Row(s) : s \in Succ(i)} <=> \E s \in Succ(i) : q \in Row(s)
    OBVIOUS
  <2>4. \A s : s \in Succ(i) => s \in Node
    BY <2>1
  <2> QED BY <2>1, <2>2, <2>3, <2>4
<1> QED BY <1>1 DEF ReachRow

(* Every pair is an edge, or an edge followed by a pair.                     *)
LEMMA ReachedStep ==
  ASSUME TypeOK, RowsClosed, RowsAreReached, [Next]_vars
  PROVE  RowsAreReached'
<1>0. Node' = Node
  BY DEF Next, Classify, StartCommit, Commit, NextNode, StartReach, ReachRow, Finish, vars, Node, N
<1>1. CASE Classify
  BY <1>0, <1>1 DEF Classify, RowsClosed, Walking, RowsAreReached
<1>2. CASE StartCommit \/ Commit \/ NextNode \/ StartReach \/ Finish
  BY <1>0, <1>2 DEF StartCommit, Commit, NextNode, StartReach, Finish, RowsAreReached
<1>3. CASE ReachRow
  <2>1. edges' = edges
    BY <1>3 DEF ReachRow
  <2> SUFFICES ASSUME NEW m \in Node, NEW n \in Node, <<m, n>> \in reach'
               PROVE  \/ <<m, n>> \in edges
                      \/ \E s \in Node : <<m, s>> \in edges /\ <<s, n>> \in reach'
    BY <1>0, <2>1 DEF RowsAreReached
  <2>2. CASE <<m, n>> \in reach
    BY <1>3, <2>2, ReachRowAdds DEF RowsAreReached
  <2>3. CASE <<m, n>> \notin reach
    BY <1>3, <2>3, ReachRowAdds
  <2> QED BY <2>2, <2>3
<1>4. CASE UNCHANGED vars
  BY <1>0, <1>4 DEF vars, RowsAreReached
<1> QED BY <1>1, <1>2, <1>3, <1>4 DEF Next

(* The rows completed so far stay transitive and start after the cursor.     *)
LEMMA RowsStep ==
  ASSUME TypeOK, EdgesRunForwards, RowsClosed, [Next]_vars
  PROVE  RowsClosed'
<1>0. nodes' = nodes /\ Node' = Node /\ N' = N
  BY DEF Next, Classify, StartCommit, Commit, NextNode, StartReach, ReachRow, Finish, vars, Node, N
<1>1. CASE Classify \/ StartCommit \/ Commit \/ NextNode
  BY <1>0, <1>1 DEF RowsClosed, Walking, Classify, StartCommit, Commit, NextNode
<1>2. CASE StartReach
  BY <1>0, <1>2 DEF RowsClosed, Walking, StartReach, TypeOK, Node, N
<1>3. CASE ReachRow
  <2>1. i \in Node /\ i' = i - 1 /\ phase = "reach" /\ phase' = phase /\ edges' = edges
    BY <1>3 DEF ReachRow
  <2>2. \A m, n \in Node : <<m, n>> \in reach' <=>
          \/ <<m, n>> \in reach
          \/ m = i /\ <<i, n>> \in edges
          \/ m = i /\ \E s \in Node : <<i, s>> \in edges /\ <<s, n>> \in reach
    BY <1>3, ReachRowAdds
  <2>0. i \in Nat /\ Node \subseteq Nat
    BY <2>1 DEF Node
  <2>3. \A m, n \in Node : <<m, n>> \in reach' => i' < m /\ m < n
    <3> SUFFICES ASSUME NEW m \in Node, NEW n \in Node, <<m, n>> \in reach'
                 PROVE  i =< m /\ m < n
      BY <2>0, <2>1
    <3>1. CASE <<m, n>> \in reach
      BY <2>0, <3>1 DEF RowsClosed
    <3>2. CASE m = i /\ <<i, n>> \in edges
      BY <2>0, <2>1, <3>2 DEF EdgesRunForwards
    <3>3. CASE m = i /\ \E s \in Node : <<i, s>> \in edges /\ <<s, n>> \in reach
      <4>1. PICK s \in Node : i < s /\ s < n
        BY <2>1, <3>3 DEF EdgesRunForwards, RowsClosed
      <4> QED BY <2>0, <3>3, <4>1
    <3> QED BY <2>2, <3>1, <3>2, <3>3
  <2>4. \A m, n \in Node : i' < m /\ <<m, n>> \in edges => <<m, n>> \in reach'
    <3> SUFFICES ASSUME NEW m \in Node, NEW n \in Node, i - 1 < m, <<m, n>> \in edges
                 PROVE  <<m, n>> \in reach'
      BY <2>1
    <3>1. m = i \/ i < m
      BY <2>0
    <3> QED BY <2>1, <2>2, <3>1 DEF RowsClosed
  <2>5. ASSUME NEW m \in Node, NEW n \in Node, NEW p \in Node,
               <<m, n>> \in reach', <<n, p>> \in reach'
        PROVE  <<m, p>> \in reach'
    <3>1. m < n /\ i =< m
      BY <2>0, <2>1, <2>3, <2>5
    <3>2. <<n, p>> \in reach
      <4>1. n # i
        BY <2>0, <3>1
      <4> QED BY <2>2, <2>5, <4>1
    <3>3. CASE <<m, n>> \in reach
      BY <2>2, <3>2, <3>3 DEF RowsClosed
    <3>4. CASE m = i /\ <<i, n>> \in edges
      BY <2>2, <3>2, <3>4
    <3>5. CASE m = i /\ \E s \in Node : <<i, s>> \in edges /\ <<s, n>> \in reach
      BY <2>2, <3>2, <3>5 DEF RowsClosed
    <3> QED BY <2>2, <2>5, <3>3, <3>4, <3>5
  <2> QED BY <1>0, <2>1, <2>3, <2>4, <2>5 DEF RowsClosed, Walking
<1>4. CASE Finish
  BY <1>0, <1>4 DEF RowsClosed, Walking, Finish
<1>5. CASE UNCHANGED vars
  BY <1>0, <1>5 DEF RowsClosed, Walking, vars
<1> QED BY <1>1, <1>2, <1>3, <1>4, <1>5 DEF Next

LEMMA InvInit == Init => IInv
<1> SUFFICES ASSUME Init PROVE IInv
  OBVIOUS
<1>1. TypeOK
  BY TypeInit
<1>2. \A n \in Node : \A k \in DOMAIN nodes[n] : ~Linked(n, k) /\ ~Committed(n, k)
  BY <1>1, AccessIsTyped DEF Init, Linked, Committed, Walking, Node, N
<1>3. EdgesRunForwards /\ EdgesAreConflicts /\ SpansDeclared /\ RowsClosed
      /\ RowsAreReached
  BY DEF Init, RowsAreReached, EdgesRunForwards, EdgesAreConflicts, SpansDeclared, RowsClosed, Walking
<1>4. SpansLinked /\ BytesRemembered /\ ConflictsLinked
  BY <1>2 DEF SpansLinked, BytesRemembered, ConflictsLinked
<1> QED BY <1>1, <1>3, <1>4 DEF IInv

LEMMA InvStep == IInv /\ [Next]_vars => IInv'
BY TypeStep, EdgesStep, DeclaredStep, LinkedStep, RememberedStep, ConflictsStep, RowsStep,
   ReachedStep DEF IInv

LEMMA InvImplies == IInv => ConflictsAreOrdered
<1> SUFFICES ASSUME IInv, phase = "built",
                    NEW m \in Node, NEW n \in Node, m < n, Conflict(nodes, m, n)
    PROVE  <<m, n>> \in reach
  BY DEF ConflictsAreOrdered
<1>1. reach \in SUBSET (Node \X Node)
  BY DEF IInv, TypeOK
<1>2. Closed(reach)
  <2>1. i = 0 /\ \A p \in Node : i < p
    BY DEF IInv, RowsClosed, Node
  <2>2. edges \subseteq reach
    BY <2>1 DEF IInv, RowsClosed, TypeOK
  <2> QED BY <2>2 DEF Closed, IInv, RowsClosed
<1>3. PICK k \in DOMAIN nodes[m], l \in DOMAIN nodes[n] : AccessConflict(nodes[m][k], nodes[n][l])
  BY DEF Conflict
<1>4. Linked(n, l)
  BY DEF Linked, Walking
<1> QED BY <1>1, <1>2, <1>3, <1>4 DEF IInv, ConflictsLinked

LEMMA InvImpliesClosure == IInv => ReachIsTheClosure
<1> SUFFICES ASSUME IInv, phase = "built" PROVE ReachIsTheClosure
  BY DEF ReachIsTheClosure
<1>1. \A m \in Node : i < m
  BY DEF IInv, RowsClosed, Node
<1> QED BY <1>1 DEF IInv, RowsClosed, RowsAreReached, ReachIsTheClosure

(* One backward pass is enough (reachability): the rows Build ends with are the
   transitive closure of the edges, no more and no less, in every recording. *)
THEOREM RowsAreTheClosure == Spec => []ReachIsTheClosure
BY InvInit, InvStep, InvImpliesClosure, PTL DEF Spec

(* Completeness of edge inference (inferEdges and reachability): in every
   recording, conflicting nodes end up ordered.                              *)
THEOREM InferenceIsComplete == Spec => []ConflictsAreOrdered
BY InvInit, InvStep, InvImplies, PTL DEF Spec

(* Precision of edge inference: an edge is only ever drawn between two nodes
   whose accesses conflict, and it runs forwards (inferEdges, V22).          *)
THEOREM EdgesAreSound == Spec => []EdgesAreForwardConflicts
<1>1. IInv => EdgesAreForwardConflicts
  BY DEF IInv, EdgesAreForwardConflicts
<1> QED BY <1>1, InvInit, InvStep, PTL DEF Spec
=============================================================================
