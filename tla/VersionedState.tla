----------------------------- MODULE VersionedState -----------------------------
(***************************************************************************)
(* Caller-owned state in a recorded tensor graph (tensor/state.go): a      *)
(* write returns the next version of the state, a layer is a window of the *)
(* same buffer, and all versions live in it.  A builder is used by one     *)
(* goroutine; what is recorded is the list of nodes Compile lowers, which  *)
(* run in that order wherever they share bytes (GraphExecution).           *)
(***************************************************************************)
EXTENDS Integers, Sequences, FiniteSets, SequencesExt, FiniteSetsExt

CONSTANTS
  Shape,       \* the extent of the state: its layers, and what a layer is
  MaxNodes,    \* bound: the nodes a caller records
  MaxTensors   \* bound: the tensors it takes by ReadState

StateAssumption ==
  Shape \in Seq(Nat \ {0}) /\ Shape # <<>> /\ MaxNodes \in Nat /\ MaxTensors \in Nat

Elements(shape) == FoldLeft(LAMBDA x, y : x * y, 1, shape)

VARIABLES
  versions,      \* the State values NewState and the writes returned
  stateVersion,  \* window -> the latest version written to it
  nodes,
  tensors,       \* what ReadState returned
  refused        \* a diagnostic was collected: there will be no plan

vars == <<versions, stateVersion, nodes, tensors, refused>>

Window(s) == [off |-> s.off, count |-> Elements(s.shape)]

Overlap(v, w) == v.off < w.off + w.count /\ w.off < v.off + v.count

LayerState(s, layer) ==
  [s EXCEPT !.shape = Tail(@), !.off = @ + layer * Elements(Tail(s.shape))]

\* Every handle a caller can hold: LayerState checks nothing about versions and
\* records nothing, so when it was called does not matter.
Handles ==
  LET Layers(s) == IF s.shape = <<>> THEN {} ELSE {LayerState(s, i) : i \in 0 .. Head(s.shape) - 1}
      h[d \in 0 .. Len(Shape)] ==
        IF d = 0 THEN versions ELSE h[d - 1] \union UNION {Layers(s) : s \in h[d - 1]}
  IN  h[Len(Shape)]

\* Mutant: windows are compared by what they name, not by what they cover.
SupersededByName(s) ==
  Max({s.version} \union {stateVersion[w] : w \in DOMAIN stateVersion \intersect {Window(s)}})

\* The highest version written to any window that overlaps this one.
SupersededBy(s) ==
  Max({s.version} \union {stateVersion[w] : w \in {x \in DOMAIN stateVersion : Overlap(x, Window(s))}})

Stale(s) == SupersededBy(s) > s.version

\* The operand an operator makes of a state: where it lives, and what it follows.
Operand(s) == [node |-> s.producer, win |-> Window(s)]

\* A node: its state operands, the window it was given as its output port, and
\* the windows its kernel writes.
Node(op, reads, out, writes) == [op |-> op, reads |-> reads, out |-> out, writes |-> writes]

Init ==
  /\ versions = {[off |-> 0, shape |-> Shape, version |-> 0, producer |-> 0]}
  /\ stateVersion = <<>>
  /\ nodes = <<>> /\ tensors = {} /\ refused = FALSE

Recording(n) == ~refused /\ Len(nodes) + n =< MaxNodes

-----------------------------------------------------------------------------
\* The version after node n wrote the state: ScatterRows and LinearAttention
\* end this way.
NextVersion(s, n) == [s EXCEPT !.version = @ + 1, !.producer = n]

Written(sv, s) ==
  [w \in DOMAIN sv \union {Window(s)} |-> IF w = Window(s) THEN s.version ELSE sv[w]]

Refuse == refused' = TRUE /\ UNCHANGED <<versions, stateVersion, nodes, tensors>>

ReadState(s) ==
  /\ ~refused /\ Cardinality(tensors) < MaxTensors
  /\ \/ Stale(s) /\ Refuse
     \/ /\ ~Stale(s)
        /\ tensors' = tensors \union {Operand(s)}
        /\ UNCHANGED <<versions, stateVersion, nodes, refused>>

Advance(s, node) ==
  LET next == NextVersion(s, Len(nodes) + 1)
  IN  /\ nodes' = Append(nodes, node)
      /\ versions' = versions \union {next}
      /\ stateVersion' = Written(stateVersion, next)
      /\ UNCHANGED <<tensors, refused>>

\* Mutant: any version may be written.
ScatterAnyRows(s) ==
  /\ Recording(1) /\ s.shape # <<>>
  /\ Advance(s, Node("ScatterRows", {}, {Window(s)}, {Window(s)}))

ScatterRows(s) ==
  /\ Recording(1) /\ s.shape # <<>>
  /\ \/ Stale(s) /\ Refuse
     \/ ~Stale(s) /\ Advance(s, Node("ScatterRows", {}, {Window(s)}, {Window(s)}))

\* The state is an operand that the kernel also writes; the node's output is the
\* step's.
LinearAttention(s) ==
  /\ Recording(1) /\ s.shape # <<>>
  /\ \/ Stale(s) /\ Refuse
     \/ ~Stale(s) /\ Advance(s, Node("LinearAttention", {Operand(s)}, {}, {Window(s)}))

\* One of Attention's caches: each is checked and made an operand alike.
Attention(s) ==
  /\ Recording(1)
  /\ \/ Stale(s) /\ Refuse
     \/ /\ ~Stale(s)
        /\ nodes' = Append(nodes, Node("Attention", {Operand(s)}, {}, {}))
        /\ UNCHANGED <<versions, stateVersion, tensors, refused>>

\* Any other operator, over a tensor ReadState returned.
Operator(t) ==
  /\ Recording(1)
  /\ nodes' = Append(nodes, Node("Operator", {t}, {}, {}))
  /\ UNCHANGED <<versions, stateVersion, tensors, refused>>

Next ==
  \/ \E s \in Handles : ReadState(s) \/ ScatterRows(s) \/ LinearAttention(s) \/ Attention(s)
  \/ \E t \in tensors : Operator(t)

Spec == Init /\ [][Next]_vars

-----------------------------------------------------------------------------
(* Compile: a slot per window, and what a submission's Bind makes of them.   *)

Named == UNION {{r.win : r \in nodes[n].reads} \union nodes[n].out : n \in DOMAIN nodes}

\* Mutant: only output ports are declared.
OutputSlots == UNION {nodes[n].out : n \in DOMAIN nodes}

\* The windows a slot is declared for: operands no node comes before, and output
\* ports (lowerInto).
Slots ==
  UNION {{r.win : r \in {x \in nodes[n].reads : x.node = 0}} \union nodes[n].out :
           n \in DOMAIN nodes}

\* Every operand has the slot of its window (operand).
Lowers == Named \subseteq Slots

\* No two slots overlap when a node writes through either (check V24).
Binds ==
  \A v, w \in Slots :
    v # w /\ Overlap(v, w) => \A n \in DOMAIN nodes : nodes[n].writes \intersect {v, w} = {}

\* The node that wrote each element last, when node n is about to run.
Contents(n) ==
  [e \in 0 .. Elements(Shape) - 1 |->
     Max({0} \union {m \in 1 .. n - 1 : \E w \in nodes[m].writes : e \in w.off .. w.off + w.count - 1})]

\* Node n finds in window win what the version its producer p made holds.
Holds(n, p, win) ==
  \A e \in win.off .. win.off + win.count - 1 : Contents(n)[e] = Contents(p + 1)[e]

ReadTheirVersions(N) ==
  Lowers /\ Binds =>
    \A n \in N : \A r \in nodes[n].reads : Holds(n, r.node, r.win)

\* A version is stale exactly when the bytes it names no longer hold what its
\* producer left there: through layers of layers, the whole after a layer and a
\* layer after the whole (supersededBy; counting by overlap).
VersionsTellTheContents ==
  \A s \in Handles : Stale(s) <=> ~Holds(Len(nodes) + 1, s.producer, Window(s))

\* A plan whose windows are the same or apart compiles: each operand's window has
\* a slot, whichever node first named it (the comment in lowerInto, a missing slot
\* is impossible rather than merely unlikely).
OperandsHaveSlots ==
  (\A v, w \in Named : v = w \/ ~Overlap(v, w)) => Lowers

\* In a plan that compiles and binds, every operator that was given a state reads
\* the version it was given; and plans do compile.
OperatorsReadTheirVersions ==
  OperandsHaveSlots /\ ReadTheirVersions({n \in DOMAIN nodes : nodes[n].op # "Operator"})

\* No plan that runs reads a version after a write has superseded it: specs/007,
\* reading an older version after a write has been recorded is a build error.
OlderVersionsAreRefused ==
  ReadTheirVersions({n \in DOMAIN nodes : nodes[n].op = "Operator"})
=============================================================================
