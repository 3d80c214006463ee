-------------------------------- MODULE Rebind --------------------------------
(***************************************************************************)
(* Binding a built graph's slots, and the rebind overlap check V24         *)
(* (submit.go).  Hazards were inferred against the slot: two slots, or a   *)
(* slot and a buffer the nodes name, are different resources at Build      *)
(* (RecordedGraph).  Bind decides afterwards which bytes a slot is, batch  *)
(* by batch, from several callers, while buffers are closed and their      *)
(* memory handed out again.                                                *)
(***************************************************************************)
EXTENDS RecordedGraph

CONSTANTS
  Slots,
  Concretes,  \* the buffers nodes name themselves
  Others,     \* buffers only a slot can reach
  MinCount,   \* slot -> what the recorded nodes need
  Size,       \* buffer -> its bytes
  Bytes,      \* the memory buffers are placed in
  Batches,    \* the batches a caller may offer: sequences of updates
  Callers,
  None

Buffers == Concretes \union Others

\* A BufferView, and one SlotBinding of a batch.  checkRange refuses a view
\* that leaves its buffer, so none is offered.
View   == {v \in [off : Nat, size : Nat, buf : Buffers] : v.off + v.size =< Size[v.buf]}
Update == [slot : Slots, view : View]

ASSUME RebindAssumption ==
  /\ Resources = Slots \union Concretes
  /\ Slots \intersect Buffers = {} /\ Concretes \intersect Others = {}
  /\ None \notin View /\ None \notin Batches /\ None \notin Nat
  /\ MinCount \in [Slots -> Nat] /\ Size \in [Buffers -> Nat \ {0}] /\ Bytes \in Nat
  /\ Batches \subseteq Seq(Update)

VARIABLES
  nodes,     \* the recording the graph was built from
  home,      \* buffer -> where its memory begins, None before it is made
  open,      \* the buffers whose handle is open: their memory is their own
  bound,     \* slot -> the view bound to it (Graph.bound)
  table,     \* slot -> where its bytes begin, for the executable
  batch,     \* caller -> the batch it has validated and not yet applied
  inFlight

vars == <<nodes, home, open, bound, table, batch, inFlight>>

\* A byte range of memory or of a buffer.
Meets(lo, n, lo2, n2) == lo < lo2 + n2 /\ lo2 < lo + n

Apart(place, S) ==
  \A a, b \in S : a # b => ~Meets(place[a], Size[a], place[b], Size[b])

\* Slot ranges are declared within MinCount, concrete ones within the buffer.
WellRecorded(p) ==
  \A n \in DOMAIN p : \A k \in DOMAIN p[n] :
    p[n][k].off + p[n][k].size =<
      IF p[n][k].res \in Slots THEN MinCount[p[n][k].res] ELSE Size[p[n][k].res]

Init ==
  /\ nodes \in {p \in Programs : WellRecorded(p)}
  /\ home \in {h \in [Buffers -> 0 .. Bytes - 1] :
                 Apart(h, Buffers) /\ \A b \in Buffers : h[b] + Size[b] =< Bytes}
  /\ open = Buffers
  /\ bound = [s \in Slots |-> None] /\ table = [s \in Slots |-> None]
  /\ batch = [c \in Callers |-> None] /\ inFlight = FALSE

-----------------------------------------------------------------------------
\* Whether any node writes through a slot anywhere in the graph.
SlotWrites(s) ==
  \E n \in DOMAIN nodes : \E k \in DOMAIN nodes[n] : nodes[n][k].res = s /\ Writes(nodes[n][k])

\* The ranges the graph names through buffers it already holds.
ConcreteSpans ==
  {[off |-> nodes[x[1]][x[2]].off, size |-> nodes[x[1]][x[2]].size,
    buf |-> nodes[x[1]][x[2]].res, write |-> Writes(nodes[x[1]][x[2]])] :
     x \in {y \in UNION {{n} \X DOMAIN nodes[n] : n \in DOMAIN nodes} :
              nodes[y[1]][y[2]].res \in Concretes}}

\* An overlap within one buffer that at least one side writes.
Clash(a, b) ==
  a.buf = b.buf /\ (a.write \/ b.write) /\ Meets(a.off, a.size, b.off, b.size)

SpanOfSlot(s, v) == [off |-> v.off, size |-> v.size, buf |-> v.buf, write |-> SlotWrites(s)]

\* What is bound with the batch applied: the last update of a slot wins.
Prospective(us) ==
  [s \in Slots |->
     LET mine == {k \in DOMAIN us : us[k].slot = s}
     IN  IF mine = {} THEN bound[s]
         ELSE us[CHOOSE k \in mine : \A l \in mine : l =< k].view]

\* Mutant: each new binding is compared with what was bound before the batch.
FitsTheOldState(p) ==
  \A s \in {x \in Slots : p[x] # None /\ p[x] # bound[x]} :
    /\ \A t \in Slots \ {s} : bound[t] # None => ~Clash(SpanOfSlot(s, p[s]), SpanOfSlot(t, bound[t]))
    /\ \A c \in ConcreteSpans : ~Clash(SpanOfSlot(s, p[s]), c)

\* V24 over the prospective set, slots against slots and against concretes.
CheckOverlaps(p) ==
  \A s \in {x \in Slots : p[x] # None} :
    /\ \A t \in Slots \ {s} : p[t] # None => ~Clash(SpanOfSlot(s, p[s]), SpanOfSlot(t, p[t]))
    /\ \A c \in ConcreteSpans : ~Clash(SpanOfSlot(s, p[s]), c)

\* V19 and V5 of one binding.
CheckBinding(u) == u.view.buf \in open /\ MinCount[u.slot] =< u.view.size

\* The front of Bind, outside the lock.
Validate(c, us) ==
  /\ batch[c] = None
  /\ \A k \in DOMAIN us : CheckBinding(us[k])
  /\ batch' = [batch EXCEPT ![c] = us]
  /\ UNCHANGED <<nodes, home, open, bound, table, inFlight>>

\* The rest, under the graph's lock: the flag, V24, the executable's table,
\* the graph's own; or none of it.
Apply(c) ==
  /\ batch[c] # None
  /\ LET p == Prospective(batch[c])
     IN  IF ~inFlight /\ CheckOverlaps(p)
         THEN /\ bound' = p
              /\ table' = [s \in Slots |-> IF p[s] = None THEN None ELSE home[p[s].buf] + p[s].off]
         ELSE UNCHANGED <<bound, table>>
  /\ batch' = [batch EXCEPT ![c] = None]
  /\ UNCHANGED <<nodes, home, open, inFlight>>

\* Nothing a graph is bound to is held: the memory is free at once.
CloseBuffer(b) ==
  /\ b \in open
  /\ open' = open \ {b}
  /\ UNCHANGED <<nodes, home, bound, table, batch, inFlight>>

\* A closed buffer's place in the model is taken by a new one, wherever its
\* memory is free.  A name still bound or in a caller's hand is not reused.
CreateBuffer(b, at) ==
  /\ b \in Others \ open
  /\ \A s \in Slots : bound[s] # None => bound[s].buf # b
  /\ \A c \in Callers : batch[c] # None => \A k \in DOMAIN batch[c] : batch[c][k].view.buf # b
  /\ at + Size[b] =< Bytes
  /\ Apart([home EXCEPT ![b] = at], open \union {b})
  /\ home' = [home EXCEPT ![b] = at]
  /\ open' = open \union {b}
  /\ UNCHANGED <<nodes, bound, table, batch, inFlight>>

\* Mutant: a slot that was bound once is good for ever.
BoundOnce == \A s \in Slots : bound[s] # None

CheckBoundAtSubmit == \A s \in Slots : bound[s] # None /\ bound[s].buf \in open

\* Graph.run: the check and the flag are one critical section.
Start ==
  /\ ~inFlight /\ CheckBoundAtSubmit
  /\ inFlight' = TRUE
  /\ UNCHANGED <<nodes, home, open, bound, table, batch>>

Finish ==
  /\ inFlight
  /\ inFlight' = FALSE
  /\ UNCHANGED <<nodes, home, open, bound, table, batch>>

Next ==
  \/ \E c \in Callers : Apply(c) \/ \E us \in Batches : Validate(c, us)
  \/ \E b \in Buffers : CloseBuffer(b) \/ \E at \in 0 .. Bytes - 1 : CreateBuffer(b, at)
  \/ Start \/ Finish

Spec == Init /\ [][Next]_vars

-----------------------------------------------------------------------------
\* Where an access of a running graph goes, as the executable resolves it.
Address(a) == a.off + IF a.res \in Slots THEN table[a.res] ELSE home[a.res]

\* The accesses whose memory is still what it was: a buffer a node names is
\* looked at when the node is recorded and not again.
Live == {x \in UNION {{n} \X DOMAIN nodes[n] : n \in DOMAIN nodes} :
           nodes[x[1]][x[2]].res \in Slots \union open}

TypeOK ==
  /\ nodes \in Programs /\ home \in [Buffers -> Nat] /\ open \subseteq Buffers
  /\ bound \in [Slots -> View \union {None}] /\ table \in [Slots -> Nat \union {None}]
  /\ batch \in [Callers -> Batches \union {None}] /\ inFlight \in BOOLEAN

\* While a submission runs, two accesses that meet in memory and do not both
\* read were a hazard when the edges were inferred: no binding makes two
\* resources the plan took for independent share a byte (submit.go, V24).
HazardsSurviveBinding ==
  inFlight => \A x, y \in Live :
    LET a == nodes[x[1]][x[2]]
        b == nodes[y[1]][y[2]]
    IN  /\ Meets(Address(a), a.size, Address(b), b.size)
        /\ Writes(a) \/ Writes(b)
        => AccessConflict(a, b)

\* While a submission runs, an access through a slot stays inside the view the
\* slot is bound to, and the executable looks for it where that view is: the
\* recorder checked the access against MinCount, Bind checked the view.
OperandsStayInside ==
  inFlight => \A x \in Live :
    LET a == nodes[x[1]][x[2]]
        v == bound[a.res]
    IN  a.res \in Slots => /\ home[v.buf] + v.off =< Address(a)
                           /\ Address(a) + a.size =< home[v.buf] + v.off + v.size
=============================================================================
