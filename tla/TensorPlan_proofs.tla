-------------------------- MODULE TensorPlan_proofs --------------------------
(***************************************************************************)
(* For every number of callers, queues, submissions and spares: what a     *)
(* plan accepts runs as it was bound, never more than its limit at a time, *)
(* and nothing is closed under a plan.  A call may set a graph's bindings  *)
(* although the queues go on, because the graph's fence has signalled and  *)
(* only the holder of p.mu can give it another.                            *)
(*                                                                         *)
(* And for every number of sequences and pages, a page of the cache        *)
(* (BlockPool) is free or in one place of one table.                       *)
(*                                                                         *)
(* And for every shape of a state (VersionedState), its version numbers    *)
(* say which windows were written over, and operators that take a state    *)
(* read the version they were given.                                       *)
(***************************************************************************)
EXTENDS MCTensor, FiniteSetTheorems, SequenceTheorems, WellFoundedInduction, TLAPS

Places == {"idle", "lowering", "look", "spare", "bind", "scalars", "enqueue", "closing", "panicked"}
CallRec == [at : Places, todo : Seq(Nat), queue : Queues \union {Nobody}]
GraphRec == [open : BOOLEAN, inFlight : BOOLEAN, slots : Nat, scalars : Nat, fence : Nat]
SubRec == [graph : Nat, queue : Queues, stage : {"queued", "running", "left", "done"},
           ran : Seq(Nat), failed : BOOLEAN]

Shapes ==
  /\ plan \in {"none", "lowering", "open", "closed"}
  /\ runtime \in [open : BOOLEAN, plans : Int]
  /\ mu \in Callers \union {Nobody}
  /\ graphs \in Seq(GraphRec) /\ instances \in Seq(Nat) /\ subs \in Seq(SubRec)
  /\ call \in [Callers -> CallRec]

Known(s) == \A k \in DOMAIN s : s[k] \in DOMAIN graphs

References ==
  /\ Known(instances) /\ \A c \in Callers : Known(call[c].todo)
  /\ \A n \in DOMAIN subs : subs[n].graph \in DOMAIN graphs
  /\ \A g \in DOMAIN graphs : graphs[g].fence =< Len(subs)

\* Inside Submit or Close, and with a graph in hand.
Inside(c) == call[c].at \in {"look", "spare", "bind", "scalars", "enqueue", "closing"}
InHand(c) == call[c].at \in {"bind", "scalars", "enqueue"}

Locking ==
  /\ \A c \in Callers : Inside(c) => mu = c /\ plan \in {"open", "closed"}
  /\ \A c \in Callers : InHand(c) => call[c].todo # <<>>
  /\ \A c \in Callers : Inside(c) => call[c].at = "closing" \/ call[c].queue \in Queues
  /\ \A c \in Callers : call[c].at \in {"scalars", "enqueue"} => plan = "open"
  /\ \A c \in Callers : call[c].at = "closing" => plan = "closed"

\* There is nothing before the plan is lowered, and one caller lowers it.
Lowering ==
  /\ \A c \in Callers : call[c].at = "lowering" => plan = "lowering"
  /\ \A c, d \in Callers : call[c].at = "lowering" /\ call[d].at = "lowering" => c = d
  /\ plan \in {"none", "lowering"} => graphs = <<>> /\ instances = <<>> /\ subs = <<>>
  /\ plan \in {"open", "closed"} => instances # <<>>

Listed(g) == \E k \in DOMAIN instances : instances[k] = g

\* Until the plan is closed every graph in use is one freeGraph looks at.
InUseIsListed ==
  plan # "closed" =>
    /\ \A n \in Unfinished : Listed(subs[n].graph)
    /\ \A c \in Callers : Inside(c) =>
         \A k \in DOMAIN call[c].todo : Listed(call[c].todo[k])

WithinLimits ==
  /\ Len(instances) =< InFlightLimit
  /\ \A c \in Callers : call[c].at = "spare" => Len(instances) < InFlightLimit
  /\ Cardinality(Unfinished) =< InFlightLimit

\* A graph's fence is its one unfinished submission's; a graph in hand has none.
FencesFollow ==
  /\ \A n \in Unfinished : graphs[subs[n].graph].fence = n
  /\ \A c \in Callers : InHand(c) => Free(Chosen(c))

BindingsAreTheTickets ==
  /\ \A n \in DOMAIN subs : subs[n].stage = "queued" =>
       graphs[subs[n].graph].slots = n /\ graphs[subs[n].graph].scalars = n
  /\ \A c \in Callers :
       /\ call[c].at \in {"scalars", "enqueue"} => graphs[Chosen(c)].slots = Ticket
       /\ call[c].at = "enqueue" => graphs[Chosen(c)].scalars = Ticket
  /\ \A n \in DOMAIN subs : subs[n].ran # <<>> => subs[n].ran = <<n, n>>

\* Only a submission of its own keeps a graph busy, and only Close closes it.
OnlyCloseRefuses ==
  /\ \A g \in DOMAIN graphs : graphs[g].inFlight =>
       \E n \in DOMAIN subs : subs[n].stage = "running" /\ subs[n].graph = g
  /\ \A g \in DOMAIN graphs : ~graphs[g].open => plan = "closed"
  /\ \A n \in DOMAIN subs : subs[n].failed => plan = "closed"

IInv ==
  /\ Shapes /\ References /\ Locking /\ Lowering
  /\ InUseIsListed /\ WithinLimits /\ FencesFollow /\ BindingsAreTheTickets /\ OnlyCloseRefuses
  /\ NothingGoesUnderAPlan

-----------------------------------------------------------------------------
USE PlanAssumption

LEMMA Sizes ==
  ASSUME Shapes
  PROVE  /\ Len(graphs) \in Nat /\ DOMAIN graphs = 1 .. Len(graphs)
         /\ Len(instances) \in Nat /\ DOMAIN instances = 1 .. Len(instances)
         /\ Len(subs) \in Nat /\ DOMAIN subs = 1 .. Len(subs)
         /\ \A g \in DOMAIN graphs : graphs[g] \in GraphRec
         /\ \A n \in DOMAIN subs : subs[n] \in SubRec
         /\ \A c \in Callers : call[c] \in CallRec
         /\ \A c \in Callers : DOMAIN call[c].todo = 1 .. Len(call[c].todo)
                               /\ Len(call[c].todo) \in Nat
<1>1. graphs \in Seq(GraphRec) /\ instances \in Seq(Nat) /\ subs \in Seq(SubRec) BY DEF Shapes
<1>2. \A c \in Callers : call[c] \in CallRec /\ call[c].todo \in Seq(Nat) BY DEF Shapes, CallRec
<1> QED BY <1>1, <1>2

\* What a graph in hand is.
LEMMA ChosenIsKnown ==
  ASSUME Shapes, References, NEW c \in Callers, call[c].todo # <<>>
  PROVE  Chosen(c) \in DOMAIN graphs /\ Chosen(c) = call[c].todo[1] /\ 1 \in DOMAIN call[c].todo
<1>1. call[c].todo \in Seq(Nat) BY DEF Shapes, CallRec
<1> QED BY <1>1 DEF References, Known, Chosen

\* A free graph is nobody's: its fence would be its unfinished submission's.
LEMMA FreeMeansUnused ==
  ASSUME Shapes, References, FencesFollow, NEW g \in DOMAIN graphs, Free(g)
  PROVE  \A n \in Unfinished : subs[n].graph # g
<1> SUFFICES ASSUME NEW n \in Unfinished, subs[n].graph = g PROVE FALSE OBVIOUS
<1>1. graphs[g].fence = n /\ subs[n].stage # "done" /\ n \in DOMAIN subs
  BY DEF FencesFollow, Unfinished
<1>2. n # 0 BY <1>1, Sizes
<1> QED BY <1>1, <1>2 DEF Free

LEMMA UnfinishedIsFinite == ASSUME Shapes PROVE IsFiniteSet(Unfinished)
<1>0. 1 \in Int /\ Len(subs) \in Int BY Sizes
<1>1. IsFiniteSet(1 .. Len(subs)) BY <1>0, FS_Interval
<1>2. Unfinished \in SUBSET (1 .. Len(subs)) BY Sizes DEF Unfinished
<1> QED BY <1>1, <1>2, FS_Subset

LEMMA InitHolds == Init => IInv
<1> SUFFICES ASSUME Init PROVE IInv OBVIOUS
<1>1. Idle \in CallRec
  <2>1. <<>> \in Seq(Nat) OBVIOUS
  <2> QED BY <2>1 DEF Idle, CallRec, Places
<1>2. Shapes
  <2>1. <<>> \in Seq(GraphRec) /\ <<>> \in Seq(Nat) /\ <<>> \in Seq(SubRec) OBVIOUS
  <2> QED BY <1>1, <2>1 DEF Init, Shapes
<1>3. \A c \in Callers : call[c].at = "idle" /\ call[c].todo = <<>> BY DEF Init, Idle
<1>4. DOMAIN graphs = {} /\ DOMAIN instances = {} /\ DOMAIN subs = {} /\ Unfinished = {}
  BY DEF Init, Unfinished
<1>5. Cardinality(Unfinished) = 0 BY <1>4, FS_EmptySet
<1>6. References BY <1>3, <1>4 DEF References, Known
<1>7. Locking BY <1>3 DEF Locking, Inside, InHand
<1>8. Lowering BY <1>3 DEF Lowering, Init
<1>9. InUseIsListed BY <1>3, <1>4 DEF InUseIsListed, Inside
<1>10. WithinLimits BY <1>3, <1>5 DEF WithinLimits, Init
<1>11. FencesFollow BY <1>3, <1>4 DEF FencesFollow, InHand
<1>12. BindingsAreTheTickets BY <1>3, <1>4 DEF BindingsAreTheTickets
<1>13. OnlyCloseRefuses BY <1>4 DEF OnlyCloseRefuses
<1>14. NothingGoesUnderAPlan BY <1>4 DEF NothingGoesUnderAPlan, Init
<1> QED BY <1>2, <1>6, <1>7, <1>8, <1>9, <1>10, <1>11, <1>12, <1>13, <1>14 DEF IInv

-----------------------------------------------------------------------------
\* A caller that holds p.mu, or takes it, moves, and nothing else does.
LEMMA CallsOnly ==
  ASSUME IInv, NEW c \in Callers, NEW r \in CallRec, mu \in {Nobody, c}, mu' \in {Nobody, c},
         call[c].at # "lowering", r.at # "lowering",
         call' = [call EXCEPT ![c] = r], UNCHANGED <<plan, runtime, graphs, instances, subs>>,
         \A k \in DOMAIN r.todo : r.todo[k] \in DOMAIN graphs,
         r.at \in {"look", "spare", "bind", "scalars", "enqueue", "closing"} =>
           /\ mu' = c /\ plan \in {"open", "closed"} /\ (r.at = "closing" \/ r.queue \in Queues)
           /\ plan # "closed" => \A k \in DOMAIN r.todo : Listed(r.todo[k]),
         r.at \in {"bind", "scalars", "enqueue"} => r.todo # <<>> /\ Free(Head(r.todo)),
         r.at \in {"scalars", "enqueue"} => plan = "open" /\ graphs[Head(r.todo)].slots = Ticket,
         r.at = "enqueue" => graphs[Head(r.todo)].scalars = Ticket,
         r.at = "closing" => plan = "closed",
         r.at = "spare" => Len(instances) < InFlightLimit
  PROVE  IInv'
<1>1. call'[c] = r /\ \A d \in Callers : d # c => call'[d] = call[d] BY DEF IInv, Shapes
<1>2. \A d \in Callers : d # c => ~Inside(d) BY DEF IInv, Locking
<1>3. \A d \in Callers : d # c => ~Inside(d)' /\ ~InHand(d)'
  BY <1>1, <1>2 DEF Inside, InHand
<1>4. Unfinished' = Unfinished /\ Ticket' = Ticket /\ \A g : Free(g)' = Free(g) /\ Listed(g)' = Listed(g)
  BY DEF Unfinished, Ticket, Free, Listed
<1>5. Shapes' BY DEF IInv, Shapes
<1>6. References' BY <1>1 DEF IInv, References, Known
<1>7. Locking'
  <2>1. \A d \in Callers : d # c => call'[d].at \notin {"scalars", "enqueue", "closing"}
    BY <1>3 DEF Inside
  <2> QED BY <1>1, <1>3, <2>1 DEF Locking, Inside, InHand
<1>8. Lowering' BY <1>1 DEF IInv, Lowering
<1>9. InUseIsListed' BY <1>1, <1>3, <1>4 DEF IInv, InUseIsListed, Inside
<1>10. WithinLimits'
  <2>1. \A d \in Callers : d # c => call'[d].at # "spare" BY <1>3 DEF Inside
  <2> QED BY <1>1, <1>4, <2>1 DEF IInv, WithinLimits
<1>11. FencesFollow' BY <1>1, <1>3, <1>4 DEF IInv, FencesFollow, InHand, Chosen
<1>12. BindingsAreTheTickets'
  <2>1. \A d \in Callers : d # c => call'[d].at \notin {"scalars", "enqueue"} BY <1>3 DEF Inside
  <2> QED BY <1>1, <1>4, <2>1 DEF IInv, BindingsAreTheTickets, Chosen
<1>13. OnlyCloseRefuses' /\ NothingGoesUnderAPlan'
  BY DEF IInv, OnlyCloseRefuses, NothingGoesUnderAPlan
<1> QED BY <1>5, <1>6, <1>7, <1>8, <1>9, <1>10, <1>11, <1>12, <1>13 DEF IInv

\* The call returns, or unwinds.
LEMMA LeavesTheCall ==
  ASSUME IInv, NEW c \in Callers, mu = c, mu' = Nobody, call[c].at # "lowering",
         \/ call' = [call EXCEPT ![c] = Idle]
         \/ call' = [call EXCEPT ![c].at = "panicked"],
         UNCHANGED <<plan, runtime, graphs, instances, subs>>
  PROVE  IInv'
<1>1. CASE call' = [call EXCEPT ![c] = Idle]
  <2>1. Idle \in CallRec /\ Idle.at = "idle" /\ DOMAIN Idle.todo = {}
    <3>1. <<>> \in Seq(Nat) OBVIOUS
    <3> QED BY <3>1 DEF Idle, CallRec, Places
  <2> QED BY <1>1, <2>1, CallsOnly
<1>2. CASE call' = [call EXCEPT ![c].at = "panicked"]
  <2> DEFINE r == [call[c] EXCEPT !.at = "panicked"]
  <2>1. r \in CallRec /\ r.at = "panicked" /\ r.todo = call[c].todo
    <3>1. call[c] \in CallRec BY DEF IInv, Shapes
    <3> QED BY <3>1 DEF CallRec, Places
  <2>2. \A k \in DOMAIN r.todo : r.todo[k] \in DOMAIN graphs BY <2>1 DEF IInv, References, Known
  <2>3. call' = [call EXCEPT ![c] = r] BY <1>2
  <2> HIDE DEF r
  <2> QED BY <2>1, <2>2, <2>3, CallsOnly
<1> QED BY <1>1, <1>2

LEMMA SubmitKept == ASSUME IInv, NEW c \in Callers, NEW q \in Queues, Submit(c, q) PROVE IInv'
<1> DEFINE r == [at |-> "look", todo |-> instances, queue |-> q]
<1>1. r \in CallRec /\ r.at = "look" /\ r.todo = instances /\ r.queue \in Queues
  BY DEF IInv, Shapes, CallRec, Places
<1>2. \A k \in DOMAIN r.todo : r.todo[k] \in DOMAIN graphs /\ Listed(r.todo[k])
  BY <1>1 DEF IInv, References, Known, Listed
<1>3. call' = [call EXCEPT ![c] = r] /\ call[c].at # "lowering" /\ mu' = c /\ mu = Nobody
      /\ plan \in {"open", "closed"} /\ UNCHANGED <<plan, runtime, graphs, instances, subs>>
  BY DEF Submit, Idle
<1> HIDE DEF r
<1> QED BY <1>1, <1>2, <1>3, CallsOnly

LEMMA LookKept == ASSUME IInv, NEW c \in Callers, Look(c) PROVE IInv'
<1>1. /\ mu = c /\ call[c].at = "look" /\ plan \in {"open", "closed"} /\ call[c] \in CallRec
      /\ call[c].queue \in Queues /\ UNCHANGED <<plan, runtime, graphs, instances, subs>>
  BY DEF IInv, Shapes, Locking, Inside, Look
<1>2. /\ \A k \in DOMAIN call[c].todo : call[c].todo[k] \in DOMAIN graphs
      /\ plan # "closed" => \A k \in DOMAIN call[c].todo : Listed(call[c].todo[k])
  BY <1>1 DEF IInv, References, Known, InUseIsListed, Inside
<1>3. CASE call[c].todo # <<>> /\ Free(Chosen(c))
  <2> DEFINE r == [call[c] EXCEPT !.at = "bind"]
  <2>1. r \in CallRec /\ r.at = "bind" /\ r.todo = call[c].todo /\ r.queue = call[c].queue
    BY <1>1 DEF CallRec, Places
  <2>2. call' = [call EXCEPT ![c] = r] /\ mu' = c BY <1>1, <1>3 DEF Look
  <2>3. Free(Head(r.todo)) /\ r.todo # <<>> BY <1>3, <2>1 DEF Chosen
  <2> HIDE DEF r
  <2> QED BY <1>1, <1>2, <2>1, <2>2, <2>3, CallsOnly
<1>4. CASE call[c].todo # <<>> /\ ~Free(Chosen(c))
  <2> DEFINE r == [call[c] EXCEPT !.todo = Tail(@)]
  <2>1. call[c].todo \in Seq(Nat) BY <1>1 DEF CallRec
  <2>2. r \in CallRec /\ r.at = "look" /\ r.todo = Tail(call[c].todo) /\ r.queue = call[c].queue
    <3>1. Tail(call[c].todo) \in Seq(Nat) BY <1>4, <2>1
    <3> QED BY <1>1, <3>1 DEF CallRec
  <2>3. call' = [call EXCEPT ![c] = r] /\ mu' = c BY <1>1, <1>4 DEF Look
  <2>4. \A k \in DOMAIN r.todo : k + 1 \in DOMAIN call[c].todo /\ r.todo[k] = call[c].todo[k + 1]
    BY <1>4, <2>1, <2>2
  <2> HIDE DEF r
  <2> QED BY <1>1, <1>2, <2>2, <2>3, <2>4, CallsOnly
<1>5. CASE call[c].todo = <<>> /\ Len(instances) < InFlightLimit
  <2> DEFINE r == [call[c] EXCEPT !.at = "spare"]
  <2>1. r \in CallRec /\ r.at = "spare" /\ r.todo = call[c].todo /\ r.queue = call[c].queue
    BY <1>1 DEF CallRec, Places
  <2>2. call' = [call EXCEPT ![c] = r] /\ mu' = c BY <1>1, <1>5 DEF Look, Go
  <2> HIDE DEF r
  <2> QED BY <1>1, <1>2, <1>5, <2>1, <2>2, CallsOnly
<1>6. CASE call[c].todo = <<>> /\ ~(Len(instances) < InFlightLimit)
  BY <1>1, <1>6, LeavesTheCall DEF Look, Return
<1> QED BY <1>3, <1>4, <1>5, <1>6

LEMMA SpareFailsKept == ASSUME IInv, NEW c \in Callers, SpareFails(c) PROVE IInv'
<1>1. mu = c /\ call[c].at = "spare" BY DEF IInv, Locking, Inside, SpareFails
<1> QED BY <1>1, LeavesTheCall DEF SpareFails, Return, Go

-----------------------------------------------------------------------------
\* A new graph is nobody's, and every reference to the others stands.
LEMMA SpareKept == ASSUME IInv, NEW c \in Callers, Spare(c) PROVE IInv'
<1> DEFINE new == Len(graphs) + 1
           r == [call[c] EXCEPT !.at = "bind", !.todo = <<new>>]
<1>1. /\ mu = c /\ call[c].at = "spare" /\ plan \in {"open", "closed"} /\ call[c] \in CallRec
      /\ call[c].queue \in Queues
      /\ Len(instances) < InFlightLimit /\ UNCHANGED <<plan, runtime, mu, subs>>
  BY DEF IInv, Shapes, Locking, Inside, WithinLimits, Spare
<1>2. Fresh \in GraphRec BY DEF Fresh, GraphRec
<1>3. /\ graphs' \in Seq(GraphRec) /\ Len(graphs') = new /\ graphs'[new] = Fresh
      /\ \A g \in DOMAIN graphs : graphs'[g] = graphs[g]
      /\ DOMAIN graphs' = 1 .. new /\ DOMAIN graphs = 1 .. Len(graphs) /\ Len(graphs) \in Nat
  BY <1>2, AppendProperties DEF IInv, Shapes, Spare
<1>4. /\ instances' = Append(instances, new) /\ instances' \in Seq(Nat)
      /\ Len(instances') = Len(instances) + 1 /\ instances'[Len(instances')] = new
      /\ \A k \in DOMAIN instances : instances'[k] = instances[k]
      /\ DOMAIN instances' = 1 .. Len(instances) + 1 /\ DOMAIN instances = 1 .. Len(instances)
      /\ Len(instances) \in Nat
  BY <1>3, AppendProperties DEF IInv, Shapes, Spare
<1>5. /\ call' = [call EXCEPT ![c] = r] /\ call'[c] = r /\ r.at = "bind" /\ r.todo = <<new>>
      /\ r \in CallRec /\ r.todo # <<>> /\ DOMAIN r.todo = {1} /\ r.todo[1] = new
      /\ r.queue = call[c].queue
      /\ \A d \in Callers : d # c => call'[d] = call[d]
  <2>1. <<new>> \in Seq(Nat) BY <1>3
  <2>2. r \in CallRec BY <1>1, <2>1 DEF CallRec, Places
  <2>3. r.at = "bind" /\ r.todo = <<new>> /\ r.queue = call[c].queue BY <1>1 DEF CallRec
  <2>4. call' = [call EXCEPT ![c] = r] BY <1>3 DEF Spare
  <2>5. call'[c] = r /\ \A d \in Callers : d # c => call'[d] = call[d]
    BY <2>4 DEF IInv, Shapes
  <2> HIDE DEF r
  <2> QED BY <2>2, <2>3, <2>4, <2>5
<1>6. \A d \in Callers : d # c => ~Inside(d) BY <1>1 DEF IInv, Locking
<1>7. \A d \in Callers : d # c => ~Inside(d)' /\ ~InHand(d)' BY <1>5, <1>6 DEF Inside, InHand
<1> HIDE DEF r
<1>8. Unfinished' = Unfinished /\ Ticket' = Ticket BY <1>1 DEF Unfinished, Ticket
<1>9. \A g : g = new \/ Listed(g) => Listed(g)' BY <1>4 DEF Listed
<1>10. Shapes' BY <1>1, <1>3, <1>4, <1>5 DEF IInv, Shapes
<1>11. References'
  <2>1. Known(instances)' BY <1>3, <1>4 DEF IInv, References, Known
  <2>2. \A d \in Callers : Known(call[d].todo)' BY <1>3, <1>5 DEF IInv, References, Known
  <2>3. \A g \in DOMAIN graphs' : graphs'[g].fence =< Len(subs)
    <3>1. Fresh.fence = 0 /\ 0 =< Len(subs) BY Sizes DEF IInv, Fresh
    <3> QED BY <1>3, <3>1 DEF IInv, References
  <2> QED BY <1>1, <1>3, <2>1, <2>2, <2>3 DEF IInv, References
<1>12. Locking'
  <2>1. \A d \in Callers : d # c => call'[d].at \notin {"scalars", "enqueue", "closing"}
    BY <1>7 DEF Inside
  <2> QED BY <1>1, <1>5, <1>7, <2>1 DEF Locking, Inside, InHand
<1>13. Lowering' BY <1>1, <1>4, <1>5 DEF IInv, Lowering
<1>14. InUseIsListed' BY <1>1, <1>5, <1>7, <1>8, <1>9 DEF IInv, InUseIsListed
<1>15. WithinLimits'
  <2>1. \A d \in Callers : call'[d].at # "spare" BY <1>5, <1>7 DEF Inside
  <2> QED BY <1>1, <1>4, <1>8, <2>1 DEF IInv, WithinLimits
<1>16. FencesFollow'
  <2>1. \A n \in Unfinished' : graphs'[subs[n].graph].fence = n
    BY <1>3, <1>8 DEF IInv, FencesFollow, References, Unfinished
  <2>2. \A g : g = new => Free(g)' BY <1>3 DEF Free, Fresh
  <2> QED BY <1>1, <1>5, <1>7, <2>1, <2>2 DEF FencesFollow, Chosen
<1>17. BindingsAreTheTickets'
  <2>1. \A d \in Callers : call'[d].at \notin {"scalars", "enqueue"} BY <1>5, <1>7 DEF Inside
  <2> QED BY <1>1, <1>3, <2>1 DEF IInv, BindingsAreTheTickets, References
<1>18. OnlyCloseRefuses' /\ NothingGoesUnderAPlan'
  BY <1>1, <1>3 DEF IInv, OnlyCloseRefuses, NothingGoesUnderAPlan, Fresh
<1> QED BY <1>10, <1>11, <1>12, <1>13, <1>14, <1>15, <1>16, <1>17, <1>18 DEF IInv

-----------------------------------------------------------------------------
LEMMA GraphEdited ==
  ASSUME Shapes, NEW g \in DOMAIN graphs, NEW e \in GraphRec, graphs' = [graphs EXCEPT ![g] = e]
  PROVE  /\ graphs' \in Seq(GraphRec) /\ Len(graphs') = Len(graphs)
         /\ DOMAIN graphs' = DOMAIN graphs /\ graphs'[g] = e
         /\ \A h \in DOMAIN graphs : h # g => graphs'[h] = graphs[h]
<1>1. graphs \in Seq(GraphRec) /\ g \in 1 .. Len(graphs) /\ DOMAIN graphs = 1 .. Len(graphs)
  BY Sizes DEF Shapes
<1> QED BY <1>1, ExceptSeq

LEMMA SubEdited ==
  ASSUME Shapes, NEW n \in DOMAIN subs, NEW e \in SubRec, subs' = [subs EXCEPT ![n] = e]
  PROVE  /\ subs' \in Seq(SubRec) /\ Len(subs') = Len(subs)
         /\ DOMAIN subs' = DOMAIN subs /\ subs'[n] = e
         /\ \A m \in DOMAIN subs : m # n => subs'[m] = subs[m]
<1>1. subs \in Seq(SubRec) /\ n \in 1 .. Len(subs) /\ DOMAIN subs = 1 .. Len(subs)
  BY Sizes DEF Shapes
<1> QED BY <1>1, ExceptSeq

\* Setting what a free graph is bound to disturbs no submission.
LEMMA GraphBound ==
  ASSUME IInv, NEW c \in Callers, call[c].at \in {"bind", "scalars"}, plan = "open", NEW e \in GraphRec,
         graphs' = [graphs EXCEPT ![Chosen(c)] = e],
         e.open = graphs[Chosen(c)].open, e.inFlight = graphs[Chosen(c)].inFlight,
         e.fence = graphs[Chosen(c)].fence, e.slots = Ticket,
         NEW at \in {"scalars", "enqueue"}, at = "enqueue" => e.scalars = Ticket,
         call' = [call EXCEPT ![c].at = at], UNCHANGED <<plan, runtime, instances, mu, subs>>
  PROVE  IInv'
<1> DEFINE g == Chosen(c)
<1>1. /\ mu = c /\ call[c].todo # <<>> /\ Free(g) /\ call[c] \in CallRec
      /\ call[c].queue \in Queues /\ \A d \in Callers : d # c => ~Inside(d)
  BY DEF IInv, Shapes, Locking, Inside, InHand, FencesFollow
<1>2. g \in DOMAIN graphs BY <1>1, ChosenIsKnown DEF IInv
<1>3. /\ graphs' \in Seq(GraphRec) /\ Len(graphs') = Len(graphs) /\ DOMAIN graphs' = DOMAIN graphs
      /\ graphs'[g] = e /\ \A h \in DOMAIN graphs : h # g => graphs'[h] = graphs[h]
  BY <1>2, GraphEdited DEF IInv
<1>4. /\ call'[c] \in CallRec /\ call'[c].at = at /\ call'[c].todo = call[c].todo
      /\ call'[c].queue = call[c].queue
      /\ \A d \in Callers : d # c => call'[d] = call[d]
      /\ call' \in [Callers -> CallRec]
  <2>1. call \in [Callers -> CallRec] BY DEF IInv, Shapes
  <2>2. [call[c] EXCEPT !.at = at] \in CallRec /\ [call[c] EXCEPT !.at = at].at = at
        /\ [call[c] EXCEPT !.at = at].todo = call[c].todo
        /\ [call[c] EXCEPT !.at = at].queue = call[c].queue
    BY <1>1 DEF CallRec, Places
  <2>3. call' = [call EXCEPT ![c] = [call[c] EXCEPT !.at = at]] OBVIOUS
  <2> QED BY <2>1, <2>2, <2>3
<1>5. \A d \in Callers : d # c => ~Inside(d)' /\ ~InHand(d)' BY <1>1, <1>4 DEF Inside, InHand
<1>6. /\ Unfinished' = Unfinished /\ Ticket' = Ticket /\ Chosen(c)' = g
      /\ \A h : Listed(h)' = Listed(h)
  BY <1>4 DEF Unfinished, Ticket, Listed, Chosen
<1>7. \A n \in Unfinished : subs[n].graph # g /\ subs[n].graph \in DOMAIN graphs
  BY <1>1, <1>2, FreeMeansUnused DEF IInv, References, Unfinished
<1> HIDE DEF g
<1>8. Shapes' BY <1>3, <1>4 DEF IInv, Shapes
<1>9. References'
  <2>1. \A h \in DOMAIN graphs : graphs'[h].fence = graphs[h].fence BY <1>3 DEF g
  <2> QED BY <1>3, <1>4, <2>1 DEF IInv, References, Known
<1>10. Locking'
  <2>1. \A d \in Callers : d # c => call'[d].at \notin {"scalars", "enqueue", "closing"}
    BY <1>5 DEF Inside
  <2> QED BY <1>1, <1>4, <1>5, <2>1 DEF Locking
<1>11. Lowering'
  <2>1. call'[c].at # "lowering" BY <1>4
  <2> QED BY <1>4, <2>1 DEF IInv, Lowering
<1>12. InUseIsListed' BY <1>4, <1>5, <1>6 DEF IInv, InUseIsListed, Inside
<1>13. WithinLimits'
  <2>1. \A d \in Callers : call'[d].at # "spare" BY <1>4, <1>5 DEF Inside
  <2> QED BY <1>6, <2>1 DEF IInv, WithinLimits
<1>14. FencesFollow'
  <2>1. \A n \in Unfinished : graphs'[subs[n].graph].fence = n
    BY <1>3, <1>7 DEF IInv, FencesFollow
  <2>2. \A h : h = g => Free(h)' BY <1>1, <1>3 DEF Free, g
  <2> QED BY <1>5, <1>6, <2>1, <2>2 DEF FencesFollow
<1>15. BindingsAreTheTickets'
  <2>1. \A d \in Callers : d # c => call'[d].at \notin {"scalars", "enqueue"} BY <1>5 DEF Inside
  <2>2. \A n \in DOMAIN subs : subs[n].stage = "queued" => n \in Unfinished BY DEF Unfinished
  <2>3. \A n \in DOMAIN subs : subs[n].stage = "queued" =>
          graphs'[subs[n].graph].slots = n /\ graphs'[subs[n].graph].scalars = n
    BY <1>3, <1>7, <2>2 DEF IInv, BindingsAreTheTickets
  <2> QED BY <1>3, <1>4, <1>6, <2>1, <2>3 DEF IInv, BindingsAreTheTickets
<1>16. OnlyCloseRefuses' /\ NothingGoesUnderAPlan'
  <2>1. \A h \in DOMAIN graphs :
          graphs'[h].open = graphs[h].open /\ graphs'[h].inFlight = graphs[h].inFlight
    BY <1>3 DEF g
  <2> QED BY <1>3, <2>1 DEF IInv, OnlyCloseRefuses, NothingGoesUnderAPlan
<1> QED BY <1>8, <1>9, <1>10, <1>11, <1>12, <1>13, <1>14, <1>15, <1>16 DEF IInv

LEMMA BindKept == ASSUME IInv, NEW c \in Callers, NEW valid \in BOOLEAN, Bind(c, valid) PROVE IInv'
<1>1. mu = c /\ call[c].at = "bind" /\ call[c].todo # <<>>
  BY DEF IInv, Locking, Inside, InHand, Bind
<1>2. CASE valid /\ MayBind(Chosen(c))
  <2> DEFINE e == [graphs[Chosen(c)] EXCEPT !.slots = Ticket]
  <2>1. Chosen(c) \in DOMAIN graphs /\ graphs[Chosen(c)] \in GraphRec /\ Ticket \in Nat
    BY <1>1, ChosenIsKnown, Sizes DEF IInv, Ticket
  <2>2. /\ e \in GraphRec /\ e.slots = Ticket /\ e.open = graphs[Chosen(c)].open
        /\ e.inFlight = graphs[Chosen(c)].inFlight /\ e.fence = graphs[Chosen(c)].fence
    BY <2>1 DEF GraphRec
  <2>3. /\ plan = "open" /\ graphs' = [graphs EXCEPT ![Chosen(c)] = e]
        /\ call' = [call EXCEPT ![c].at = "scalars"] /\ UNCHANGED <<plan, runtime, instances, mu, subs>>
    BY <1>2 DEF Bind, MayBind, Go
  <2> HIDE DEF e
  <2> QED BY <1>1, <2>2, <2>3, GraphBound
<1>3. CASE ~(valid /\ MayBind(Chosen(c))) BY <1>1, <1>3, LeavesTheCall DEF Bind, Return
<1> QED BY <1>2, <1>3

LEMMA SetUniformsKept == ASSUME IInv, NEW c \in Callers, SetUniforms(c) PROVE IInv'
<1>1. mu = c /\ call[c].at = "scalars" /\ call[c].todo # <<>> /\ plan = "open"
  BY DEF IInv, Locking, Inside, InHand, SetUniforms
<1>2. CASE MayBind(Chosen(c))
  <2> DEFINE e == [graphs[Chosen(c)] EXCEPT !.scalars = Ticket]
  <2>1. /\ Chosen(c) \in DOMAIN graphs /\ graphs[Chosen(c)] \in GraphRec /\ Ticket \in Nat
        /\ graphs[Chosen(c)].slots = Ticket
    BY <1>1, ChosenIsKnown, Sizes DEF IInv, Ticket, BindingsAreTheTickets
  <2>2. /\ e \in GraphRec /\ e.slots = Ticket /\ e.scalars = Ticket /\ e.open = graphs[Chosen(c)].open
        /\ e.inFlight = graphs[Chosen(c)].inFlight /\ e.fence = graphs[Chosen(c)].fence
    BY <2>1 DEF GraphRec
  <2>3. /\ graphs' = [graphs EXCEPT ![Chosen(c)] = e]
        /\ call' = [call EXCEPT ![c].at = "enqueue"] /\ UNCHANGED <<plan, runtime, instances, mu, subs>>
    BY <1>2 DEF SetUniforms, Go
  <2> HIDE DEF e
  <2> QED BY <1>1, <2>2, <2>3, GraphBound
<1>3. CASE ~MayBind(Chosen(c)) BY <1>1, <1>3, LeavesTheCall DEF SetUniforms, Return
<1> QED BY <1>2, <1>3

-----------------------------------------------------------------------------
\* Submissions on graphs of their own, all on the list, fit the list.
LEMMA OwnGraphsFit ==
  ASSUME NEW U, NEW list, NEW size \in Nat, NEW graph,
         \A n \in U : \E k \in 1 .. size : list[k] = graph[n],
         \A m, n \in U : graph[m] = graph[n] => m = n
  PROVE  Cardinality(U) =< size
<1> DEFINE f == [n \in U |-> CHOOSE k \in 1 .. size : list[k] = graph[n]]
<1>1. \A n \in U : f[n] \in 1 .. size /\ list[f[n]] = graph[n] OBVIOUS
<1>2. f \in Injection(U, 1 .. size)
  <2>1. f \in [U -> 1 .. size] BY <1>1
  <2>2. \A m, n \in U : f[m] = f[n] => m = n BY <1>1
  <2> QED BY <2>1, <2>2 DEF Injection, IsInjective
<1>3. IsFiniteSet(1 .. size) /\ Cardinality(1 .. size) = size BY FS_Interval
<1> HIDE DEF f
<1> QED BY <1>2, <1>3, FS_Injection

\* The submission accepted is the one unfinished one of its graph.
LEMMA EnqueueKept == ASSUME IInv, NEW c \in Callers, Enqueue(c) PROVE IInv'
<1> DEFINE s == [graph |-> Chosen(c), queue |-> call[c].queue, stage |-> "queued", ran |-> <<>>,
                 failed |-> FALSE]
           e == [graphs[Chosen(c)] EXCEPT !.fence = Ticket]
<1>1. /\ mu = c /\ call[c].at = "enqueue" /\ call[c].todo # <<>> /\ plan = "open"
      /\ Free(Chosen(c)) /\ graphs[Chosen(c)].slots = Ticket /\ graphs[Chosen(c)].scalars = Ticket
      /\ call[c].queue \in Queues /\ \A d \in Callers : d # c => ~Inside(d)
  BY DEF IInv, Locking, Inside, InHand, FencesFollow, BindingsAreTheTickets, Enqueue
<1>2. PICK g \in DOMAIN graphs : g = Chosen(c) /\ g = call[c].todo[1] /\ 1 \in DOMAIN call[c].todo
  BY <1>1, ChosenIsKnown DEF IInv
<1>3. PICK new \in Nat : /\ new = Ticket /\ new = Len(subs) + 1 /\ Len(subs) \in Nat
                         /\ DOMAIN subs = 1 .. Len(subs)
  BY Sizes DEF IInv, Ticket
<1>4. g \in Nat /\ graphs[g] \in GraphRec BY Sizes DEF IInv
<1>5. s \in SubRec
  <2>1. <<>> \in Seq(Nat) OBVIOUS
  <2> QED BY <1>1, <1>2, <1>4, <2>1 DEF SubRec
<1>6. /\ e \in GraphRec /\ e.open = graphs[g].open /\ e.inFlight = graphs[g].inFlight
      /\ e.slots = graphs[g].slots /\ e.scalars = graphs[g].scalars /\ e.fence = new
  BY <1>2, <1>3, <1>4 DEF GraphRec
<1>7. /\ UNCHANGED <<plan, runtime, instances>> /\ mu' = Nobody /\ call' = [call EXCEPT ![c] = Idle]
      /\ subs' = Append(subs, s) /\ graphs' = [graphs EXCEPT ![g] = e]
  BY <1>2 DEF Enqueue, Return
<1>8. s.graph = g /\ s.stage = "queued" /\ s.ran = <<>> /\ s.failed = FALSE /\ s.queue \in Queues
  BY <1>1, <1>2
<1> HIDE DEF s, e
<1>9. /\ graphs' \in Seq(GraphRec) /\ Len(graphs') = Len(graphs) /\ DOMAIN graphs' = DOMAIN graphs
      /\ graphs'[g] = e /\ \A h \in DOMAIN graphs : h # g => graphs'[h] = graphs[h]
  BY <1>6, <1>7, GraphEdited DEF IInv
<1>10. /\ subs' \in Seq(SubRec) /\ Len(subs') = new /\ DOMAIN subs' = 1 .. new /\ subs'[new] = s
       /\ \A n \in DOMAIN subs : subs'[n] = subs[n]
  BY <1>3, <1>5, <1>7, AppendProperties DEF IInv, Shapes
<1>11. Idle \in CallRec /\ Idle.at = "idle" /\ DOMAIN Idle.todo = {}
  <2>1. <<>> \in Seq(Nat) OBVIOUS
  <2> QED BY <2>1 DEF Idle, CallRec, Places
<1>12. call'[c] = Idle /\ \A d \in Callers : d # c => call'[d] = call[d] BY <1>7 DEF IInv, Shapes
<1>13. \A d \in Callers : ~Inside(d)' /\ ~InHand(d)' /\ call'[d].at \notin {"spare", "scalars", "enqueue", "closing"}
  BY <1>1, <1>11, <1>12 DEF Inside, InHand
<1>14. DOMAIN subs' = DOMAIN subs \union {new} /\ new \notin DOMAIN subs BY <1>3, <1>10
<1>15. /\ Unfinished' = Unfinished \union {new} /\ new \notin Unfinished
       /\ \A h : Listed(h)' = Listed(h)
  BY <1>7, <1>8, <1>10, <1>14 DEF Unfinished, Listed
<1>16. \A n \in Unfinished : subs[n].graph # g /\ subs[n].graph \in DOMAIN graphs /\ n \in DOMAIN subs
  BY <1>1, <1>2, FreeMeansUnused DEF IInv, References, Unfinished
<1>17. Shapes' BY <1>7, <1>9, <1>10, <1>11 DEF IInv, Shapes
<1>18. References'
  <2>1. Known(instances)' /\ \A d \in Callers : Known(call[d].todo)'
    BY <1>7, <1>9, <1>11, <1>12 DEF IInv, References, Known
  <2>2. \A n \in DOMAIN subs' : subs'[n].graph \in DOMAIN graphs'
    BY <1>8, <1>9, <1>10, <1>14 DEF IInv, References
  <2>3. \A h \in DOMAIN graphs' : graphs'[h].fence =< Len(subs')
    <3> SUFFICES ASSUME NEW h \in DOMAIN graphs PROVE graphs'[h].fence =< new BY <1>9, <1>10
    <3>1. graphs[h].fence \in Nat /\ graphs[h].fence =< Len(subs)
      BY Sizes DEF IInv, References, GraphRec
    <3> QED BY <1>3, <1>6, <1>9, <3>1
  <2> QED BY <2>1, <2>2, <2>3 DEF References
<1>19. Locking' BY <1>13 DEF Locking
<1>20. Lowering' BY <1>1, <1>7, <1>11, <1>12 DEF IInv, Lowering
<1>21. InUseIsListed'
  <2>1. \A n \in Unfinished : Listed(subs[n].graph)
    BY <1>1 DEF IInv, InUseIsListed
  <2>2. \A h : h = g => Listed(h) BY <1>1, <1>2 DEF IInv, InUseIsListed, Inside
  <2> QED BY <1>8, <1>10, <1>13, <1>15, <1>16, <2>1, <2>2 DEF InUseIsListed
<1>22. FencesFollow'
  <2>1. \A n \in Unfinished : graphs'[subs'[n].graph].fence = n
    BY <1>9, <1>10, <1>16 DEF IInv, FencesFollow
  <2>2. graphs'[subs'[new].graph].fence = new BY <1>6, <1>8, <1>9, <1>10
  <2> QED BY <1>13, <1>15, <2>1, <2>2 DEF FencesFollow
<1>23. WithinLimits'
  <2> DEFINE graph == [n \in Unfinished' |-> subs'[n].graph]
  <2>1. \A n \in Unfinished' : \E k \in 1 .. Len(instances) : instances[k] = graph[n]
    BY <1>1, <1>7, <1>21, Sizes DEF IInv, InUseIsListed, Listed
  <2>2. \A m, n \in Unfinished' : graph[m] = graph[n] => m = n BY <1>22 DEF FencesFollow
  <2>3. Len(instances) \in Nat /\ DOMAIN instances = 1 .. Len(instances) BY Sizes DEF IInv
  <2> HIDE DEF graph
  <2>4. Cardinality(Unfinished') =< Len(instances) BY <2>1, <2>2, <2>3, OwnGraphsFit
  <2>5. Unfinished' \in SUBSET (1 .. new) BY <1>10 DEF Unfinished
  <2>6. Cardinality(Unfinished') \in Nat
    <3>1. new \in Int /\ 1 \in Int BY <1>3
    <3>2. IsFiniteSet(1 .. new) BY <3>1, FS_Interval
    <3>3. IsFiniteSet(Unfinished') BY <2>5, <3>2, FS_Subset
    <3> QED BY <3>3, FS_CardinalityType
  <2> QED BY <1>7, <1>13, <2>3, <2>4, <2>6, PlanAssumption DEF IInv, WithinLimits
<1>24. BindingsAreTheTickets'
  <2>1. \A n \in DOMAIN subs : subs[n].stage = "queued" => n \in Unfinished BY DEF Unfinished
  <2>2. \A n \in DOMAIN subs : subs'[n].stage = "queued" =>
          graphs'[subs'[n].graph].slots = n /\ graphs'[subs'[n].graph].scalars = n
    BY <1>9, <1>10, <1>16, <2>1 DEF IInv, BindingsAreTheTickets
  <2>3. graphs'[subs'[new].graph].slots = new /\ graphs'[subs'[new].graph].scalars = new
    BY <1>1, <1>2, <1>3, <1>6, <1>8, <1>9, <1>10
  <2>4. \A n \in DOMAIN subs' : subs'[n].ran # <<>> => subs'[n].ran = <<n, n>>
    BY <1>8, <1>10, <1>14 DEF IInv, BindingsAreTheTickets
  <2> QED BY <1>13, <1>14, <2>2, <2>3, <2>4 DEF BindingsAreTheTickets
<1>25. OnlyCloseRefuses' /\ NothingGoesUnderAPlan'
  <2>1. \A h \in DOMAIN graphs :
          graphs'[h].open = graphs[h].open /\ graphs'[h].inFlight = graphs[h].inFlight
    BY <1>6, <1>9
  <2>2. \A n \in DOMAIN subs' : subs'[n].failed => n \in DOMAIN subs /\ subs[n].failed
    BY <1>8, <1>10, <1>14
  <2> QED BY <1>7, <1>9, <1>10, <1>14, <2>1, <2>2 DEF IInv, OnlyCloseRefuses, NothingGoesUnderAPlan
<1> QED BY <1>17, <1>18, <1>19, <1>20, <1>21, <1>22, <1>23, <1>24, <1>25 DEF IInv

-----------------------------------------------------------------------------
\* Closed and uncounted at once; the graphs follow.
LEMMA CloseKept == ASSUME IInv, NEW c \in Callers, Close(c) PROVE IInv'
<1> DEFINE r == [call[c] EXCEPT !.at = "closing", !.todo = Append(Tail(instances), 1)]
<1>1. /\ plan = "open" /\ plan' = "closed" /\ mu = Nobody /\ mu' = c /\ call[c] = Idle
      /\ call' = [call EXCEPT ![c] = r] /\ UNCHANGED <<graphs, instances, subs>>
      /\ runtime' = [runtime EXCEPT !.plans = @ - 1]
  BY DEF Close
<1>2. instances # <<>> /\ instances \in Seq(Nat) BY <1>1 DEF IInv, Lowering, Shapes
<1>3. /\ Tail(instances) \in Seq(Nat)
      /\ \A k \in DOMAIN Tail(instances) : Tail(instances)[k] \in DOMAIN graphs
  <2>1. Tail(instances) \in Seq(Nat) BY <1>2
  <2>2. \A k \in DOMAIN Tail(instances) :
          k + 1 \in DOMAIN instances /\ Tail(instances)[k] = instances[k + 1]
    BY <1>2
  <2> QED BY <2>1, <2>2 DEF IInv, References, Known
<1>4. 1 \in DOMAIN graphs
  <2>1. 1 \in DOMAIN instances BY <1>2
  <2>2. instances[1] \in DOMAIN graphs BY <2>1 DEF IInv, References, Known
  <2> QED BY <2>2, Sizes DEF IInv
<1>5. /\ Append(Tail(instances), 1) \in Seq(Nat)
      /\ \A k \in DOMAIN Append(Tail(instances), 1) : Append(Tail(instances), 1)[k] \in DOMAIN graphs
  BY <1>3, <1>4
<1>6. r \in CallRec /\ r.at = "closing" /\ r.todo = Append(Tail(instances), 1)
  <2>1. call[c] \in CallRec BY DEF IInv, Shapes
  <2> QED BY <1>5, <2>1 DEF CallRec, Places
<1> HIDE DEF r
<1>7. call'[c] = r /\ \A d \in Callers : d # c => call'[d] = call[d] BY <1>1 DEF IInv, Shapes
<1>8. \A d \in Callers : ~Inside(d) BY <1>1 DEF IInv, Locking
<1>9. \A d \in Callers : d # c => ~Inside(d)' BY <1>7, <1>8 DEF Inside
<1>10. \A d \in Callers : ~InHand(d)' /\ call'[d].at \notin {"spare", "scalars", "enqueue", "lowering"}
  <2>1. \A d \in Callers : call[d].at # "lowering" BY <1>1 DEF IInv, Lowering
  <2> QED BY <1>6, <1>7, <1>9, <2>1 DEF InHand, Inside
<1>11. Shapes'
  <2>1. runtime' \in [open : BOOLEAN, plans : Int] BY <1>1 DEF IInv, Shapes
  <2> QED BY <1>1, <1>6, <2>1 DEF IInv, Shapes
<1>12. References' BY <1>1, <1>5, <1>6, <1>7 DEF IInv, References, Known
<1>13. Locking' BY <1>1, <1>6, <1>7, <1>9, <1>10 DEF Locking
<1>14. Lowering' BY <1>1, <1>2, <1>10 DEF Lowering
<1>15. Unfinished' = Unfinished /\ InUseIsListed' BY <1>1 DEF InUseIsListed, Unfinished
<1>16. WithinLimits' BY <1>1, <1>10, <1>15 DEF IInv, WithinLimits
<1>17. FencesFollow' BY <1>1, <1>10, <1>15 DEF IInv, FencesFollow
<1>18. BindingsAreTheTickets' BY <1>1, <1>10 DEF IInv, BindingsAreTheTickets
<1>19. OnlyCloseRefuses' BY <1>1 DEF IInv, OnlyCloseRefuses
<1>20. NothingGoesUnderAPlan'
  <2>1. runtime'.plans = runtime.plans - 1 /\ runtime'.open = runtime.open
    BY <1>1 DEF IInv, Shapes
  <2> QED BY <1>1, <2>1 DEF IInv, NothingGoesUnderAPlan
<1> QED BY <1>11, <1>12, <1>13, <1>14, <1>15, <1>16, <1>17, <1>18, <1>19, <1>20 DEF IInv

\* A graph is closed unless it is in flight; last, the spares are let go of.
LEMMA CloseGraphKept == ASSUME IInv, NEW c \in Callers, CloseGraph(c) PROVE IInv'
<1>1. /\ call[c].at = "closing" /\ plan = "closed" /\ mu = c /\ UNCHANGED <<plan, runtime, subs>>
      /\ call[c] \in CallRec /\ \A d \in Callers : d # c => ~Inside(d)
  BY DEF IInv, Shapes, Locking, Inside, CloseGraph
<1>2. instances # <<>> /\ 1 \in DOMAIN graphs
  <2>1. instances # <<>> /\ instances \in Seq(Nat) BY <1>1 DEF IInv, Lowering, Shapes
  <2>2. 1 \in DOMAIN instances BY <2>1
  <2>3. instances[1] \in DOMAIN graphs BY <2>2 DEF IInv, References, Known
  <2> QED BY <2>1, <2>3, Sizes DEF IInv
<1>3. \A d \in Callers : d # c => call[d].at \notin {"spare", "scalars", "enqueue", "closing", "bind", "look"}
  BY <1>1 DEF Inside
<1>4. CASE call[c].todo = <<>>
  <2>1. mu' = Nobody /\ instances' = <<1>> /\ graphs' = graphs /\ call' = [call EXCEPT ![c] = Idle]
    BY <1>4 DEF CloseGraph, Return
  <2>2. Idle \in CallRec /\ Idle.at = "idle" /\ DOMAIN Idle.todo = {}
    <3>1. <<>> \in Seq(Nat) OBVIOUS
    <3> QED BY <3>1 DEF Idle, CallRec, Places
  <2>3. call'[c] = Idle /\ \A d \in Callers : d # c => call'[d] = call[d] BY <2>1 DEF IInv, Shapes
  <2>4. \A d \in Callers : /\ ~Inside(d)' /\ ~InHand(d)'
                           /\ call'[d].at \notin {"spare", "scalars", "enqueue", "closing"}
    BY <1>1, <1>3, <2>2, <2>3 DEF Inside, InHand
  <2>5. /\ <<1>> \in Seq(Nat) /\ Len(<<1>>) = 1 /\ <<1>> # <<>>
        /\ \A k \in DOMAIN <<1>> : <<1>>[k] = 1
    OBVIOUS
  <2>6. Shapes' BY <1>1, <2>1, <2>2, <2>5 DEF IInv, Shapes
  <2>7. References' BY <1>1, <1>2, <2>1, <2>2, <2>3, <2>5 DEF IInv, References, Known
  <2>8. Locking' BY <2>4 DEF Locking
  <2>9. Lowering' BY <1>1, <2>1, <2>2, <2>3, <2>5 DEF IInv, Lowering
  <2>10. Unfinished' = Unfinished /\ InUseIsListed' BY <1>1 DEF InUseIsListed, Unfinished
  <2>11. WithinLimits' BY <2>1, <2>4, <2>5, <2>10 DEF IInv, WithinLimits
  <2>12. FencesFollow' BY <2>1, <2>4, <2>10, <1>1 DEF IInv, FencesFollow
  <2>13. BindingsAreTheTickets' BY <1>1, <2>1, <2>4 DEF IInv, BindingsAreTheTickets
  <2>14. OnlyCloseRefuses' /\ NothingGoesUnderAPlan'
    BY <1>1, <2>1 DEF IInv, OnlyCloseRefuses, NothingGoesUnderAPlan
  <2> QED BY <2>6, <2>7, <2>8, <2>9, <2>10, <2>11, <2>12, <2>13, <2>14 DEF IInv
<1>5. CASE call[c].todo # <<>>
  <2> DEFINE e == [graphs[Chosen(c)] EXCEPT !.open = @ /\ graphs[Chosen(c)].inFlight]
             r == [call[c] EXCEPT !.todo = Tail(@)]
  <2>1. /\ UNCHANGED <<mu, instances>> /\ call' = [call EXCEPT ![c] = r]
        /\ graphs' = [graphs EXCEPT ![Chosen(c)] = e]
    BY <1>5 DEF CloseGraph
  <2>2. PICK g \in DOMAIN graphs : g = Chosen(c) BY <1>5, ChosenIsKnown DEF IInv
  <2>3. graphs[g] \in GraphRec BY Sizes DEF IInv
  <2>4. /\ e \in GraphRec /\ e.open = (graphs[g].open /\ graphs[g].inFlight)
        /\ e.inFlight = graphs[g].inFlight /\ e.fence = graphs[g].fence
        /\ e.slots = graphs[g].slots /\ e.scalars = graphs[g].scalars
    BY <2>2, <2>3 DEF GraphRec
  <2>5. call[c].todo \in Seq(Nat) /\ Tail(call[c].todo) \in Seq(Nat) BY <1>1, <1>5 DEF CallRec
  <2>6. r \in CallRec /\ r.at = "closing" /\ r.todo = Tail(call[c].todo) BY <1>1, <2>5 DEF CallRec
  <2>7. \A k \in DOMAIN r.todo : r.todo[k] \in DOMAIN graphs
    <3>1. \A k \in DOMAIN r.todo : k + 1 \in DOMAIN call[c].todo /\ r.todo[k] = call[c].todo[k + 1]
      BY <1>5, <2>5, <2>6
    <3> QED BY <3>1 DEF IInv, References, Known
  <2> HIDE DEF e, r
  <2>8. call'[c] = r /\ \A d \in Callers : d # c => call'[d] = call[d] BY <2>1 DEF IInv, Shapes
  <2>9. /\ graphs' \in Seq(GraphRec) /\ Len(graphs') = Len(graphs) /\ DOMAIN graphs' = DOMAIN graphs
        /\ graphs'[g] = e /\ \A h \in DOMAIN graphs : h # g => graphs'[h] = graphs[h]
    BY <2>1, <2>2, <2>4, GraphEdited DEF IInv
  <2>10. \A d \in Callers : /\ ~InHand(d)' /\ (d # c => ~Inside(d)')
                            /\ call'[d].at \notin {"spare", "scalars", "enqueue"}
    BY <1>1, <1>3, <2>6, <2>8 DEF Inside, InHand
  <2>11. \A h \in DOMAIN graphs :
           /\ graphs'[h].fence = graphs[h].fence /\ graphs'[h].slots = graphs[h].slots
           /\ graphs'[h].scalars = graphs[h].scalars /\ graphs'[h].inFlight = graphs[h].inFlight
           /\ graphs[h].inFlight /\ graphs[h].open => graphs'[h].open
    BY <2>4, <2>9
  <2>12. Shapes' BY <1>1, <2>1, <2>6, <2>9 DEF IInv, Shapes
  <2>13. References' BY <1>1, <2>1, <2>7, <2>8, <2>9, <2>11 DEF IInv, References, Known
  <2>14. Locking' BY <1>1, <2>1, <2>6, <2>8, <2>10 DEF Locking
  <2>15. Lowering' BY <1>1, <2>1, <2>6, <2>8 DEF IInv, Lowering
  <2>16. Unfinished' = Unfinished /\ InUseIsListed' BY <1>1 DEF InUseIsListed, Unfinished
  <2>17. WithinLimits' BY <2>1, <2>10, <2>16 DEF IInv, WithinLimits
  <2>18. FencesFollow' BY <1>1, <2>10, <2>11, <2>16 DEF IInv, FencesFollow, References, Unfinished
  <2>19. BindingsAreTheTickets' BY <1>1, <2>10, <2>11 DEF IInv, BindingsAreTheTickets, References
  <2>20. OnlyCloseRefuses' /\ NothingGoesUnderAPlan'
    BY <1>1, <2>9, <2>11 DEF IInv, OnlyCloseRefuses, NothingGoesUnderAPlan
  <2> QED BY <2>12, <2>13, <2>14, <2>15, <2>16, <2>17, <2>18, <2>19, <2>20 DEF IInv
<1> QED BY <1>4, <1>5

-----------------------------------------------------------------------------
\* A graph is busy only with its own submission, once that is running.
LEMMA BusyWithItsOwn ==
  ASSUME IInv, NEW n \in Unfinished, subs[n].stage # "running"
  PROVE  graphs[subs[n].graph].inFlight = FALSE
<1> DEFINE g == subs[n].graph
<1>1. n \in DOMAIN subs /\ g \in DOMAIN graphs BY DEF IInv, References, Unfinished
<1>2. graphs[g].inFlight \in BOOLEAN BY <1>1, Sizes DEF IInv, GraphRec
<1>3. ASSUME graphs[g].inFlight PROVE FALSE
  <2>1. PICK m \in DOMAIN subs : subs[m].stage = "running" /\ subs[m].graph = g
    BY <1>1, <1>3 DEF IInv, OnlyCloseRefuses
  <2>2. m \in Unfinished BY <2>1 DEF Unfinished
  <2>3. graphs[g].fence = m /\ graphs[g].fence = n BY <2>1, <2>2 DEF IInv, FencesFollow
  <2> QED BY <2>1, <2>3
<1> QED BY <1>2, <1>3

\* A submission goes on, and its graph is busy or not.
LEMMA QueueMoves ==
  ASSUME IInv, NEW n \in Unfinished, NEW s \in SubRec, NEW e \in GraphRec, NEW g, g = subs[n].graph,
         PlanAlone, subs' = [subs EXCEPT ![n] = s], graphs' = [graphs EXCEPT ![g] = e],
         s.graph = g, s.stage # "queued", s.ran # <<>> => s.ran = <<n, n>>,
         s.failed => plan = "closed",
         e.open = graphs[g].open, e.slots = graphs[g].slots, e.scalars = graphs[g].scalars,
         e.fence = graphs[g].fence, e.inFlight => s.stage = "running" /\ e.open
  PROVE  IInv'
<1>1. n \in DOMAIN subs /\ g \in DOMAIN graphs /\ subs[n].stage # "done"
  BY DEF IInv, References, Unfinished
<1>2. /\ graphs' \in Seq(GraphRec) /\ Len(graphs') = Len(graphs) /\ DOMAIN graphs' = DOMAIN graphs
      /\ graphs'[g] = e /\ \A h \in DOMAIN graphs : h # g => graphs'[h] = graphs[h]
  BY <1>1, GraphEdited DEF IInv
<1>3. /\ subs' \in Seq(SubRec) /\ Len(subs') = Len(subs) /\ DOMAIN subs' = DOMAIN subs
      /\ subs'[n] = s /\ \A m \in DOMAIN subs : m # n => subs'[m] = subs[m]
  BY <1>1, SubEdited DEF IInv
<1>4. UNCHANGED <<plan, runtime, instances, mu, call>> BY DEF PlanAlone
<1>5. \A h \in DOMAIN graphs :
        /\ graphs'[h].fence = graphs[h].fence /\ graphs'[h].slots = graphs[h].slots
        /\ graphs'[h].scalars = graphs[h].scalars /\ graphs'[h].open = graphs[h].open
  BY <1>2
<1>6. \A m \in DOMAIN subs : subs'[m].graph = subs[m].graph BY <1>3
<1>7. Unfinished' \subseteq Unfinished BY <1>1, <1>3 DEF Unfinished
<1>8. Ticket' = Ticket /\ \A h : Listed(h)' = Listed(h) BY <1>3, <1>4 DEF Ticket, Listed
<1>9. Shapes' BY <1>2, <1>3, <1>4 DEF IInv, Shapes
<1>10. References' BY <1>2, <1>3, <1>4, <1>5, <1>6 DEF IInv, References, Known
<1>11. Locking' BY <1>4 DEF IInv, Locking, Inside, InHand
<1>12. Lowering'
  <2>1. plan \notin {"none", "lowering"} BY <1>1 DEF IInv, Lowering
  <2> QED BY <1>4, <2>1 DEF IInv, Lowering
<1>13. InUseIsListed'
  <2>1. \A m \in Unfinished' : m \in DOMAIN subs BY <1>3 DEF Unfinished
  <2> QED BY <1>4, <1>6, <1>7, <1>8, <2>1 DEF IInv, InUseIsListed, Inside
<1>14. WithinLimits'
  <2>1. IsFiniteSet(Unfinished) BY UnfinishedIsFinite DEF IInv
  <2>2. /\ Cardinality(Unfinished') =< Cardinality(Unfinished)
        /\ Cardinality(Unfinished') \in Nat /\ Cardinality(Unfinished) \in Nat
    BY <1>7, <2>1, FS_Subset, FS_CardinalityType
  <2> QED BY <1>4, <2>2, PlanAssumption DEF IInv, WithinLimits
<1>15. FencesFollow'
  <2>1. \A m \in Unfinished' : m \in DOMAIN subs /\ subs[m].graph \in DOMAIN graphs
    BY <1>3 DEF Unfinished, IInv, References
  <2>2. ASSUME NEW h \in DOMAIN graphs, Free(h) PROVE Free(h)'
    <3> SUFFICES ASSUME graphs[h].fence # 0 PROVE subs'[graphs[h].fence].stage = "done"
      BY <1>5 DEF Free
    <3>1. graphs[h].fence \in DOMAIN subs BY Sizes DEF IInv, References, GraphRec
    <3>2. subs[graphs[h].fence].stage = "done" BY <2>2 DEF Free
    <3> QED BY <1>1, <1>3, <3>1, <3>2
  <2>3. \A c \in Callers : InHand(c)' => InHand(c) /\ Chosen(c)' = Chosen(c) /\ Chosen(c) \in DOMAIN graphs
    BY <1>4, ChosenIsKnown DEF IInv, InHand, Chosen, Locking
  <2>4. \A c \in Callers : InHand(c)' => Free(Chosen(c))' BY <2>2, <2>3 DEF IInv, FencesFollow
  <2>5. \A m \in Unfinished' : graphs'[subs'[m].graph].fence = m
    BY <1>5, <1>6, <1>7, <2>1 DEF IInv, FencesFollow
  <2> QED BY <2>4, <2>5 DEF FencesFollow
<1>16. BindingsAreTheTickets'
  <2>1. \A m \in DOMAIN subs : subs[m].graph \in DOMAIN graphs BY DEF IInv, References
  <2>2. \A m \in DOMAIN subs : subs'[m].stage = "queued" => subs[m].stage = "queued" BY <1>3
  <2>3. \A m \in DOMAIN subs : subs'[m].ran # <<>> => subs'[m].ran = <<m, m>>
    BY <1>3 DEF IInv, BindingsAreTheTickets
  <2>4. \A c \in Callers : call[c].at \in {"scalars", "enqueue"} =>
          Chosen(c)' = Chosen(c) /\ Chosen(c) \in DOMAIN graphs
    BY <1>4, ChosenIsKnown DEF IInv, InHand, Chosen, Locking
  <2> QED BY <1>3, <1>4, <1>5, <1>6, <1>8, <2>1, <2>2, <2>3, <2>4 DEF IInv, BindingsAreTheTickets
<1>17. OnlyCloseRefuses'
  <2>1. ASSUME NEW h \in DOMAIN graphs, graphs'[h].inFlight
        PROVE  \E m \in DOMAIN subs : subs'[m].stage = "running" /\ subs'[m].graph = h
    <3>1. CASE h = g BY <1>1, <1>2, <1>3, <2>1, <3>1
    <3>2. CASE h # g
      <4>1. PICK m \in DOMAIN subs : subs[m].stage = "running" /\ subs[m].graph = h
        BY <1>2, <2>1, <3>2 DEF IInv, OnlyCloseRefuses
      <4> QED BY <1>3, <3>2, <4>1
    <3> QED BY <3>1, <3>2
  <2>2. \A m \in DOMAIN subs : subs'[m].failed => plan = "closed"
    BY <1>3 DEF IInv, OnlyCloseRefuses
  <2> QED BY <1>2, <1>3, <1>4, <1>5, <2>1, <2>2 DEF IInv, OnlyCloseRefuses
<1>18. NothingGoesUnderAPlan' BY <1>2, <1>4 DEF IInv, NothingGoesUnderAPlan
<1> QED BY <1>9, <1>10, <1>11, <1>12, <1>13, <1>14, <1>15, <1>16, <1>17, <1>18 DEF IInv

LEMMA GoroutineKept == ASSUME IInv, NEW n \in Nat, Goroutine(n) PROVE IInv'
<1> DEFINE g == subs[n].graph
<1>1. n \in Unfinished /\ n \in DOMAIN subs /\ PlanAlone
  BY DEF Goroutine, Enter, Leave, Signal, Unfinished
<1>2. subs[n] \in SubRec /\ g \in DOMAIN graphs /\ graphs[g] \in GraphRec
  BY <1>1, Sizes DEF IInv, References
<1>3. graphs = [graphs EXCEPT ![g] = graphs[g]]
  <2>1. graphs \in [DOMAIN graphs -> GraphRec] BY Sizes DEF IInv, Shapes
  <2> QED BY <1>2, <2>1
<1>4. subs[n].failed => plan = "closed" BY <1>1 DEF IInv, OnlyCloseRefuses
<1>5. subs[n].ran # <<>> => subs[n].ran = <<n, n>> BY <1>1 DEF IInv, BindingsAreTheTickets
<1>6. CASE Enter(n) /\ graphs[g].open /\ ~graphs[g].inFlight
  <2> DEFINE s == [subs[n] EXCEPT !.stage = "running", !.ran = <<graphs[g].slots, graphs[g].scalars>>]
             e == [graphs[g] EXCEPT !.inFlight = TRUE]
  <2>1. graphs[g].slots = n /\ graphs[g].scalars = n
    BY <1>1, <1>6 DEF Enter, IInv, BindingsAreTheTickets
  <2>2. <<n, n>> \in Seq(Nat) OBVIOUS
  <2>3. /\ s \in SubRec /\ s.graph = g /\ s.stage = "running" /\ s.ran = <<n, n>>
        /\ s.failed = subs[n].failed
    BY <1>2, <2>1, <2>2 DEF SubRec
  <2>4. /\ e \in GraphRec /\ e.open = graphs[g].open /\ e.slots = graphs[g].slots
        /\ e.scalars = graphs[g].scalars /\ e.fence = graphs[g].fence
    BY <1>2 DEF GraphRec
  <2>5. subs' = [subs EXCEPT ![n] = s] /\ graphs' = [graphs EXCEPT ![g] = e] BY <1>6 DEF Enter
  <2> HIDE DEF s, e
  <2> QED BY <1>1, <1>4, <1>6, <2>3, <2>4, <2>5, QueueMoves
<1>7. CASE Enter(n) /\ ~(graphs[g].open /\ ~graphs[g].inFlight)
  <2> DEFINE s == [subs[n] EXCEPT !.stage = "left", !.failed = TRUE]
  <2>1. graphs[g].inFlight = FALSE BY <1>1, <1>7, BusyWithItsOwn DEF Enter
  <2>2. plan = "closed" BY <1>2, <1>7, <2>1 DEF IInv, OnlyCloseRefuses
  <2>3. s \in SubRec /\ s.graph = g /\ s.stage = "left" /\ s.ran = subs[n].ran BY <1>2 DEF SubRec
  <2>4. subs' = [subs EXCEPT ![n] = s] /\ graphs' = graphs BY <1>7 DEF Enter
  <2> HIDE DEF s
  <2> QED BY <1>1, <1>2, <1>3, <1>5, <2>1, <2>2, <2>3, <2>4, QueueMoves
<1>8. CASE Leave(n)
  <2> DEFINE s == [subs[n] EXCEPT !.stage = "left"]
             e == [graphs[g] EXCEPT !.inFlight = FALSE]
  <2>1. s \in SubRec /\ s.graph = g /\ s.stage = "left" /\ s.ran = subs[n].ran
        /\ s.failed = subs[n].failed
    BY <1>2 DEF SubRec
  <2>2. /\ e \in GraphRec /\ e.open = graphs[g].open /\ e.slots = graphs[g].slots
        /\ e.scalars = graphs[g].scalars /\ e.fence = graphs[g].fence /\ e.inFlight = FALSE
    BY <1>2 DEF GraphRec
  <2>3. subs' = [subs EXCEPT ![n] = s] /\ graphs' = [graphs EXCEPT ![g] = e] BY <1>8 DEF Leave
  <2> HIDE DEF s, e
  <2> QED BY <1>1, <1>4, <1>5, <2>1, <2>2, <2>3, QueueMoves
<1>9. CASE Signal(n)
  <2> DEFINE s == [subs[n] EXCEPT !.stage = "done"]
  <2>1. graphs[g].inFlight = FALSE BY <1>1, <1>9, BusyWithItsOwn DEF Signal
  <2>2. s \in SubRec /\ s.graph = g /\ s.stage = "done" /\ s.ran = subs[n].ran
        /\ s.failed = subs[n].failed
    BY <1>2 DEF SubRec
  <2>3. subs' = [subs EXCEPT ![n] = s] BY <1>9 DEF Signal
  <2>4. graphs' = [graphs EXCEPT ![g] = graphs[g]] BY <1>3, <1>9 DEF Signal
  <2>5. s.failed => plan = "closed" BY <1>4, <2>2
  <2> HIDE DEF s, g
  <2> QED BY <1>1, <1>2, <1>5, <2>1, <2>2, <2>3, <2>4, <2>5, QueueMoves DEF g
<1> QED BY <1>6, <1>7, <1>8, <1>9 DEF Goroutine

-----------------------------------------------------------------------------
\* Compiling touches nothing a submission depends on: there is none yet.
LEMMA CompileKept == ASSUME IInv, NEW c \in Callers, Compile(c) PROVE IInv'
<1>1. /\ plan = "none" /\ plan' = "lowering" /\ call[c] = Idle /\ runtime.open
      /\ runtime' = [runtime EXCEPT !.plans = @ + 1] /\ call' = [call EXCEPT ![c].at = "lowering"]
      /\ UNCHANGED <<graphs, instances, mu, subs>>
  BY DEF Compile, Go
<1>2. /\ runtime' \in [open : BOOLEAN, plans : Int] /\ runtime'.plans = runtime.plans + 1
      /\ runtime'.open = runtime.open /\ runtime.plans = 0
  <2>1. runtime \in [open : BOOLEAN, plans : Int] BY DEF IInv, Shapes
  <2>2. runtime.plans = 0 BY <1>1 DEF IInv, NothingGoesUnderAPlan
  <2>3. runtime' = [runtime EXCEPT !.plans = @ + 1] BY <1>1
  <2>4. runtime' \in [open : BOOLEAN, plans : Int] BY <2>1, <2>3
  <2>5. runtime'.plans = runtime.plans + 1 BY <2>1, <2>3
  <2>6. runtime'.open = runtime.open BY <2>1, <2>3
  <2> QED BY <2>2, <2>4, <2>5, <2>6
<1>3. /\ call' \in [Callers -> CallRec] /\ call'[c].at = "lowering" /\ call'[c].todo = call[c].todo
      /\ \A d \in Callers : d # c => call'[d] = call[d]
  <2>1. call \in [Callers -> CallRec] /\ call[c] \in CallRec BY DEF IInv, Shapes
  <2>2. [call[c] EXCEPT !.at = "lowering"] \in CallRec /\ [call[c] EXCEPT !.at = "lowering"].at = "lowering"
        /\ [call[c] EXCEPT !.at = "lowering"].todo = call[c].todo
    BY <2>1 DEF CallRec, Places
  <2>3. call' = [call EXCEPT ![c] = [call[c] EXCEPT !.at = "lowering"]] BY <1>1
  <2> QED BY <2>1, <2>2, <2>3
<1>4. /\ graphs = <<>> /\ instances = <<>> /\ subs = <<>>
      /\ \A d \in Callers : call[d].at # "lowering" /\ ~Inside(d)
  BY <1>1 DEF IInv, Lowering, Locking
<1>5. \A d \in Callers : /\ ~Inside(d)' /\ ~InHand(d)'
                         /\ call'[d].at \notin {"spare", "scalars", "enqueue", "closing"}
  BY <1>3, <1>4 DEF Inside, InHand
<1>6. Unfinished' = Unfinished /\ Unfinished = {} BY <1>1, <1>4 DEF Unfinished
<1>7. Shapes' BY <1>1, <1>2, <1>3 DEF IInv, Shapes
<1>8. References' BY <1>1, <1>3 DEF IInv, References, Known
<1>9. Locking' BY <1>5 DEF Locking
<1>10. Lowering' BY <1>1, <1>3, <1>4 DEF Lowering
<1>11. InUseIsListed' BY <1>5, <1>6 DEF InUseIsListed
<1>12. WithinLimits' BY <1>1, <1>5, <1>6 DEF IInv, WithinLimits
<1>13. FencesFollow' BY <1>5, <1>6 DEF FencesFollow
<1>14. BindingsAreTheTickets' BY <1>1, <1>4, <1>5 DEF BindingsAreTheTickets
<1>15. OnlyCloseRefuses' /\ NothingGoesUnderAPlan'
  BY <1>1, <1>2, <1>4 DEF OnlyCloseRefuses, NothingGoesUnderAPlan
<1> QED BY <1>7, <1>8, <1>9, <1>10, <1>11, <1>12, <1>13, <1>14, <1>15 DEF IInv

LEMMA LoweringEnds ==
  ASSUME IInv, NEW c \in Callers, Lowered(c) \/ LoweringFails(c) PROVE IInv'
<1>1. call[c].at = "lowering" /\ plan = "lowering" /\ call' = [call EXCEPT ![c].at = "idle"]
      /\ UNCHANGED <<mu, subs>>
  BY DEF IInv, Lowering, Lowered, LoweringFails, Go
<1>2. /\ call' \in [Callers -> CallRec] /\ call'[c].at = "idle" /\ call'[c].todo = call[c].todo
      /\ \A d \in Callers : d # c => call'[d] = call[d]
  <2>1. call \in [Callers -> CallRec] /\ call[c] \in CallRec BY DEF IInv, Shapes
  <2>2. [call[c] EXCEPT !.at = "idle"] \in CallRec /\ [call[c] EXCEPT !.at = "idle"].at = "idle"
        /\ [call[c] EXCEPT !.at = "idle"].todo = call[c].todo
    BY <2>1 DEF CallRec, Places
  <2>3. call' = [call EXCEPT ![c] = [call[c] EXCEPT !.at = "idle"]] BY <1>1
  <2> QED BY <2>1, <2>2, <2>3
<1>3. /\ graphs = <<>> /\ instances = <<>> /\ subs = <<>>
      /\ \A d \in Callers : ~Inside(d) /\ (d # c => call[d].at # "lowering")
      /\ runtime.plans = 1 /\ runtime.open
  BY <1>1 DEF IInv, Lowering, Locking, NothingGoesUnderAPlan
<1>4. \A d \in Callers : /\ ~Inside(d)' /\ ~InHand(d)' /\ call'[d].at # "lowering"
                         /\ call'[d].at \notin {"spare", "scalars", "enqueue", "closing"}
  BY <1>2, <1>3 DEF Inside, InHand
<1>5. Unfinished' = Unfinished /\ Unfinished = {} /\ DOMAIN subs' = {} BY <1>1, <1>3 DEF Unfinished
<1>6. \A d \in Callers : DOMAIN call'[d].todo = {}
  <2>1. \A d \in Callers : DOMAIN call[d].todo = {} BY <1>3 DEF IInv, References, Known
  <2> QED BY <1>2, <2>1
<1>7. Locking' /\ FencesFollow' BY <1>4, <1>5 DEF Locking, FencesFollow
<1>8. InUseIsListed' /\ BindingsAreTheTickets' BY <1>4, <1>5 DEF InUseIsListed, BindingsAreTheTickets
<1>9. Cardinality(Unfinished) =< InFlightLimit BY DEF IInv, WithinLimits
<1>10. CASE Lowered(c)
  <2>1. plan' = "open" /\ graphs' = <<Fresh>> /\ instances' = <<1>> /\ runtime' = runtime
    BY <1>10 DEF Lowered
  <2>2. <<Fresh>> \in Seq(GraphRec) /\ <<1>> \in Seq(Nat) /\ Len(<<1>>) = 1 /\ <<1>> # <<>>
    <3>1. Fresh \in GraphRec BY DEF Fresh, GraphRec
    <3> QED BY <3>1
  <2>3. DOMAIN <<Fresh>> = {1} /\ <<Fresh>>[1] = Fresh /\ DOMAIN <<1>> = {1} /\ <<1>>[1] = 1 OBVIOUS
  <2>4. Shapes' BY <1>1, <1>2, <2>1, <2>2 DEF IInv, Shapes
  <2>5. References'
    <3>1. Fresh.fence = 0 /\ Len(subs) = 0 BY <1>3 DEF Fresh
    <3> QED BY <1>1, <1>3, <1>5, <1>6, <2>1, <2>3, <3>1 DEF References, Known
  <2>6. Lowering' BY <1>4, <2>1, <2>2 DEF Lowering
  <2>7. WithinLimits' BY <1>4, <1>5, <1>9, <2>1, <2>2, PlanAssumption DEF WithinLimits
  <2>8. OnlyCloseRefuses' /\ NothingGoesUnderAPlan'
    BY <1>3, <1>5, <2>1, <2>3 DEF OnlyCloseRefuses, NothingGoesUnderAPlan, Fresh
  <2> QED BY <1>7, <1>8, <2>4, <2>5, <2>6, <2>7, <2>8 DEF IInv
<1>11. CASE LoweringFails(c)
  <2>1. plan' = "none" /\ UNCHANGED <<graphs, instances>> /\ runtime' = [runtime EXCEPT !.plans = @ - 1]
    BY <1>11 DEF LoweringFails
  <2>2. runtime' \in [open : BOOLEAN, plans : Int] /\ runtime'.plans = 0
    BY <1>3, <2>1 DEF IInv, Shapes
  <2>3. Shapes' BY <1>1, <1>2, <2>1, <2>2 DEF IInv, Shapes
  <2>4. References' BY <1>1, <1>6, <2>1 DEF IInv, References, Known
  <2>5. Lowering' BY <1>1, <1>3, <1>4, <2>1 DEF Lowering
  <2>6. WithinLimits' BY <1>4, <1>5, <2>1 DEF IInv, WithinLimits
  <2>7. OnlyCloseRefuses' /\ NothingGoesUnderAPlan'
    BY <1>3, <1>5, <2>1, <2>2 DEF OnlyCloseRefuses, NothingGoesUnderAPlan
  <2> QED BY <1>7, <1>8, <2>3, <2>4, <2>5, <2>6, <2>7 DEF IInv
<1> QED BY <1>10, <1>11

\* A runtime that counts no plan, or nothing at all, changes.
LEMMA CloseRuntimeKept == ASSUME IInv, CloseRuntime PROVE IInv'
<1>1. /\ UNCHANGED <<plan, graphs, instances, mu, call, subs>> /\ runtime.plans = 0
      /\ runtime' = [runtime EXCEPT !.open = FALSE]
  BY DEF CloseRuntime
<1>2. runtime' \in [open : BOOLEAN, plans : Int] /\ runtime'.plans = 0 BY <1>1 DEF IInv, Shapes
<1>3. Shapes' BY <1>1, <1>2 DEF IInv, Shapes
<1>4. References' /\ Locking' /\ Lowering' /\ OnlyCloseRefuses'
  BY <1>1 DEF IInv, References, Known, Locking, Inside, InHand, Lowering, OnlyCloseRefuses
<1>5. InUseIsListed' /\ WithinLimits' /\ FencesFollow' /\ BindingsAreTheTickets'
  BY <1>1 DEF IInv, InUseIsListed, WithinLimits, FencesFollow, BindingsAreTheTickets, Unfinished,
              Listed, Inside, InHand, Free, Chosen, Ticket
<1>6. NothingGoesUnderAPlan' BY <1>1, <1>2 DEF IInv, NothingGoesUnderAPlan
<1> QED BY <1>3, <1>4, <1>5, <1>6 DEF IInv

LEMMA Unchanged == ASSUME IInv, UNCHANGED vars PROVE IInv'
<1>1. UNCHANGED <<plan, runtime, graphs, instances, mu, call, subs>> BY DEF vars
<1>2. Shapes' /\ References' /\ Locking' /\ Lowering' /\ OnlyCloseRefuses' /\ NothingGoesUnderAPlan'
  BY <1>1 DEF IInv, Shapes, References, Known, Locking, Inside, InHand, Lowering, OnlyCloseRefuses,
              NothingGoesUnderAPlan
<1>3. InUseIsListed' /\ WithinLimits' /\ FencesFollow' /\ BindingsAreTheTickets'
  BY <1>1 DEF IInv, InUseIsListed, WithinLimits, FencesFollow, BindingsAreTheTickets, Unfinished,
              Listed, Inside, InHand, Free, Chosen, Ticket
<1> QED BY <1>2, <1>3 DEF IInv

\* The invariant, from which the theorems below are read off.
LEMMA Invariance == Spec => []IInv
<1>1. ASSUME IInv, [Next]_vars PROVE IInv'
  <2>1. CASE CloseRuntime BY <1>1, <2>1, CloseRuntimeKept
  <2>2. ASSUME NEW c \in Callers, Compile(c) \/ Close(c) PROVE IInv'
    BY <1>1, <2>2, CompileKept, CloseKept
  <2>3. ASSUME NEW c \in Callers, NEW q \in Queues, Submit(c, q) PROVE IInv'
    BY <1>1, <2>3, SubmitKept
  <2>4. ASSUME NEW c \in Callers, Continue(c) PROVE IInv'
    <3>1. CASE \E valid \in BOOLEAN : Bind(c, valid) BY <1>1, <3>1, BindKept
    <3> QED BY <1>1, <2>4, <3>1, LoweringEnds, LookKept, SpareKept, SpareFailsKept, SetUniformsKept,
               EnqueueKept, CloseGraphKept DEF Continue
  <2>5. ASSUME NEW n \in 1 .. MaxSubmissions, Goroutine(n) PROVE IInv' BY <1>1, <2>5, GoroutineKept
  <2>6. CASE UNCHANGED vars BY <1>1, <2>6, Unchanged
  <2> QED BY <1>1, <2>1, <2>2, <2>3, <2>4, <2>5, <2>6 DEF Next
<1> QED BY InitHolds, <1>1, PTL DEF Spec

\* What a plan accepts runs with the bindings and scalars of its own call, on a
\* graph of its own, refused only by a close, never more than maxInFlight at a
\* time: for every number of callers, queues and submissions (Plan.Submit).
THEOREM AcceptedRunsAsBound == Spec => []SubmissionsRunAsBound
<1>1. IInv => SubmissionsRunAsBound
  <2> SUFFICES ASSUME IInv PROVE SubmissionsRunAsBound OBVIOUS
  <2>1. TypeOK
    <3>1. \A n \in DOMAIN subs : subs[n].queue \in Queues BY Sizes DEF IInv, SubRec
    <3> QED BY <3>1 DEF IInv, Shapes, References, Known, TypeOK
  <2>2. \A m, n \in Unfinished : subs[m].graph = subs[n].graph => m = n
    BY DEF IInv, FencesFollow
  <2> QED BY <2>1, <2>2 DEF IInv, BindingsAreTheTickets, OnlyCloseRefuses, WithinLimits,
             SubmissionsRunAsBound
<1> QED BY <1>1, Invariance, PTL

\* The runtime keeps its pipelines while it has a plan, and a graph is not
\* closed while it runs (Runtime.Close, Plan.Close).
THEOREM PlansKeepTheirGround == Spec => []NothingGoesUnderAPlan
<1>1. IInv => NothingGoesUnderAPlan BY DEF IInv
<1> QED BY <1>1, Invariance, PTL

-----------------------------------------------------------------------------
(***************************************************************************)
(* The pages of a cache: a page belongs to the free list or to one         *)
(* sequence.  The property is inductive; the proof is about sequences: a   *)
(* list cut in two, two joined, and the places a Free accepts in order.    *)
(***************************************************************************)

\* The pages a sequence names.
Named(s) == Cache!ToSet(s)

LEMMA CacheCardinality == \A S : Cache!Cardinality(S) = Cardinality(S)
BY Zenon DEF Cache!Cardinality, Cardinality

LEMMA NamedIs ==
  ASSUME NEW S, NEW s \in Seq(S)
  PROVE  /\ Named(s) = {s[i] : i \in 1 .. Len(s)} /\ Named(s) \subseteq S
         /\ \A p : Cache!Contains(s, p) <=> p \in Named(s)
BY DEF Named, Cache!ToSet, Cache!Contains

LEMMA Joined ==
  ASSUME NEW S, NEW s \in Seq(S), NEW t \in Seq(S)
  PROVE  /\ s \o t \in Seq(S) /\ Named(s \o t) = Named(s) \union Named(t)
         /\ Cache!IsInjective(s) /\ Cache!IsInjective(t) /\ Named(s) \intersect Named(t) = {}
              => Cache!IsInjective(s \o t)
<1>1. /\ s \o t \in Seq(S) /\ Len(s \o t) = Len(s) + Len(t)
      /\ \A i \in 1 .. Len(s) + Len(t) : (s \o t)[i] = IF i <= Len(s) THEN s[i] ELSE t[i - Len(s)]
  BY ConcatProperties
<1>2. Len(s) \in Nat /\ Len(t) \in Nat /\ DOMAIN s = 1 .. Len(s) /\ DOMAIN t = 1 .. Len(t)
  OBVIOUS
<1>3. DOMAIN (s \o t) = 1 .. Len(s) + Len(t)
  BY <1>1
<1>4. \A i \in 1 .. Len(s) : (s \o t)[i] = s[i] /\ i \in 1 .. Len(s) + Len(t)
  BY <1>1, <1>2
<1>5. \A i \in 1 .. Len(t) : (s \o t)[Len(s) + i] = t[i] /\ Len(s) + i \in 1 .. Len(s) + Len(t)
  <2>1. SUFFICES ASSUME NEW i \in 1 .. Len(t)
                 PROVE  (s \o t)[Len(s) + i] = t[i] /\ Len(s) + i \in 1 .. Len(s) + Len(t)
    OBVIOUS
  <2>2. /\ Len(s) + i \in 1 .. Len(s) + Len(t) /\ ~(Len(s) + i <= Len(s))
        /\ (Len(s) + i) - Len(s) = i
    BY <1>2
  <2>3. (s \o t)[Len(s) + i] = t[(Len(s) + i) - Len(s)]
    BY <1>1, <2>2
  <2> QED BY <2>2, <2>3
<1>6. \A i \in 1 .. Len(s) + Len(t) :
        \/ i \in 1 .. Len(s) /\ (s \o t)[i] = s[i]
        \/ i - Len(s) \in 1 .. Len(t) /\ (s \o t)[i] = t[i - Len(s)]
  BY <1>1, <1>2
<1>7. Named(s \o t) = Named(s) \union Named(t)
  <2>0. /\ Named(s) = {s[i] : i \in 1 .. Len(s)} /\ Named(t) = {t[i] : i \in 1 .. Len(t)}
        /\ Named(s \o t) = {(s \o t)[i] : i \in 1 .. Len(s) + Len(t)}
    <3>1. s \o t \in Seq(S) /\ Len(s \o t) = Len(s) + Len(t)
      BY <1>1
    <3> QED BY <3>1, NamedIs
  <2>1. Named(s) \subseteq Named(s \o t)
    BY <1>4, <2>0
  <2>2. Named(t) \subseteq Named(s \o t)
    <3>1. SUFFICES ASSUME NEW i \in 1 .. Len(t) PROVE t[i] \in Named(s \o t)
      BY <2>0
    <3>2. (s \o t)[Len(s) + i] = t[i] /\ Len(s) + i \in 1 .. Len(s) + Len(t)
      BY <1>5
    <3>3. (s \o t)[Len(s) + i] \in Named(s \o t)
      BY <2>0, <3>2
    <3> QED BY <3>2, <3>3
  <2>3. Named(s \o t) \subseteq Named(s) \union Named(t)
    <3>1. SUFFICES ASSUME NEW i \in 1 .. Len(s) + Len(t)
                   PROVE  (s \o t)[i] \in Named(s) \union Named(t)
      BY <2>0
    <3> QED BY <1>6, <2>0
  <2> QED BY <2>1, <2>2, <2>3
<1>8. ASSUME Cache!IsInjective(s), Cache!IsInjective(t), Named(s) \intersect Named(t) = {}
      PROVE  Cache!IsInjective(s \o t)
  <2>1. SUFFICES ASSUME NEW i \in 1 .. Len(s) + Len(t), NEW j \in 1 .. Len(s) + Len(t), (s \o t)[i] = (s \o t)[j]
                 PROVE  i = j
    BY <1>3 DEF Cache!IsInjective
  <2>2. /\ \A k \in 1 .. Len(s) : s[k] \in Named(s)
        /\ \A k \in 1 .. Len(t) : t[k] \in Named(t)
    BY NamedIs
  <2>3. CASE i \in 1 .. Len(s) /\ (s \o t)[i] = s[i] /\ j \in 1 .. Len(s) /\ (s \o t)[j] = s[j]
    BY <1>2, <1>8, <2>1, <2>3 DEF Cache!IsInjective
  <2>4. CASE /\ i - Len(s) \in 1 .. Len(t) /\ (s \o t)[i] = t[i - Len(s)]
             /\ j - Len(s) \in 1 .. Len(t) /\ (s \o t)[j] = t[j - Len(s)]
    <3>1. i - Len(s) = j - Len(s)
      BY <1>2, <1>8, <2>1, <2>4 DEF Cache!IsInjective
    <3> QED BY <1>2, <3>1
  <2> QED BY <1>6, <1>8, <2>1, <2>2, <2>3, <2>4
<1> QED BY <1>1, <1>7, <1>8

\* A sequence cut in two.
LEMMA Cut ==
  ASSUME NEW S, NEW s \in Seq(S), NEW k \in 0 .. Len(s)
  PROVE  LET a == SubSeq(s, 1, k)
             b == SubSeq(s, k + 1, Len(s))
         IN  /\ a \in Seq(S) /\ b \in Seq(S) /\ a \o b = s
             /\ Cache!IsInjective(s) => /\ Cache!IsInjective(a) /\ Cache!IsInjective(b)
                                        /\ Named(a) \intersect Named(b) = {}
<1> DEFINE a == SubSeq(s, 1, k)
           b == SubSeq(s, k + 1, Len(s))
<1>1. /\ Len(s) \in Nat /\ DOMAIN s = 1 .. Len(s) /\ k \in Int /\ k + 1 \in Int
      /\ \A i \in 1 .. k : s[i] \in S
      /\ \A i \in k + 1 .. Len(s) : s[i] \in S
  OBVIOUS
<1>2. /\ a \in Seq(S) /\ Len(a) = k /\ \A i \in 1 .. k : a[i] = s[i]
  <2>1. /\ a \in Seq(S) /\ Len(a) = IF 1 <= k THEN k - 1 + 1 ELSE 0
        /\ \A i \in 1 .. k - 1 + 1 : a[i] = s[1 + i - 1]
    BY <1>1, SubSeqProperties, 1 \in Int
  <2> QED BY <2>1
<1>3. b \in Seq(S) /\ Len(b) = Len(s) - k /\ \A i \in 1 .. Len(s) - k : b[i] = s[k + i]
  <2>1. /\ b \in Seq(S) /\ Len(b) = IF k + 1 <= Len(s) THEN Len(s) - (k + 1) + 1 ELSE 0
        /\ \A i \in 1 .. Len(s) - (k + 1) + 1 : b[i] = s[(k + 1) + i - 1]
    BY <1>1, SubSeqProperties
  <2>2. Len(b) = Len(s) - k
    <3>1. Len(s) \in Int /\ k \in Int /\ k <= Len(s)
      BY <1>1
    <3>2. Len(b) = IF k + 1 <= Len(s) THEN Len(s) - (k + 1) + 1 ELSE 0
      BY <2>1
    <3>3. CASE k + 1 <= Len(s)
      BY <1>1, <3>1, <3>2, <3>3
    <3>4. CASE ~(k + 1 <= Len(s))
      <4>1. k = Len(s) /\ Len(s) - k = 0
        BY <3>1, <3>4
      <4> QED BY <3>2, <3>4, <4>1
    <3> QED BY <3>3, <3>4
  <2>3. ASSUME NEW i \in 1 .. Len(s) - k
        PROVE  b[i] = s[k + i]
    <3>1. i \in 1 .. Len(s) - (k + 1) + 1 /\ (k + 1) + i - 1 = k + i
      BY <1>1
    <3>2. b[i] = s[(k + 1) + i - 1]
      BY <2>1, <3>1
    <3> QED BY <3>1, <3>2
  <2> QED BY <2>1, <2>2, <2>3
<1>4. a \o b = s
  <2>1. CASE k = 0
    <3>1. a = <<>> /\ b = SubSeq(s, 1, Len(s))
      BY <1>2, <2>1
    <3> QED BY <3>1, SubSeqFull, ConcatEmptySeq
  <2>2. CASE k # 0
    <3>1. SubSeq(s, 1, k) \o SubSeq(s, k + 1, Len(s)) = SubSeq(s, 1, Len(s))
      <4>1. 1 \in 1 .. Len(s) + 1 /\ k \in 1 - 1 .. Len(s) /\ Len(s) \in k .. Len(s)
        BY <1>1
      <4> QED BY <4>1, ConcatAdjacentSubSeq
    <3> QED BY <3>1, SubSeqFull
  <2> QED BY <2>1, <2>2
<1>5. ASSUME Cache!IsInjective(s)
      PROVE  Cache!IsInjective(a) /\ Cache!IsInjective(b) /\ Named(a) \intersect Named(b) = {}
  <2>1. \A i, j \in 1 .. Len(s) : s[i] = s[j] => i = j
    BY <1>1, <1>5 DEF Cache!IsInjective
  <2> HIDE DEF a, b
  <2>2. \A i \in 1 .. k : i \in 1 .. Len(s)
    BY <1>1
  <2>3. \A i \in 1 .. Len(s) - k : k + i \in 1 .. Len(s)
    BY <1>1
  <2>4. Cache!IsInjective(a)
    BY <1>2, <2>1, <2>2 DEF Cache!IsInjective
  <2>5. Cache!IsInjective(b)
    <3>1. SUFFICES ASSUME NEW i \in 1 .. Len(s) - k, NEW j \in 1 .. Len(s) - k, b[i] = b[j] PROVE i = j
      BY <1>3 DEF Cache!IsInjective
    <3>2. k + i = k + j
      BY <1>3, <2>1, <2>3, <3>1
    <3> QED BY <1>1, <3>2
  <2>6. ASSUME NEW i \in 1 .. k, NEW j \in 1 .. Len(s) - k PROVE a[i] # b[j]
    <3>1. i # k + j
      BY <1>1
    <3> QED BY <1>2, <1>3, <2>1, <2>2, <2>3, <3>1
  <2>7. Named(a) = {a[i] : i \in 1 .. k} /\ Named(b) = {b[i] : i \in 1 .. Len(s) - k}
    <3>1. a \in Seq(S) /\ b \in Seq(S) /\ Len(a) = k /\ Len(b) = Len(s) - k
      BY <1>2, <1>3
    <3> QED BY <3>1, NamedIs
  <2> QED BY <2>4, <2>5, <2>6, <2>7
<1> QED BY <1>2, <1>3, <1>4, <1>5

-----------------------------------------------------------------------------
(* What Free takes back.                                                     *)

\* The k-th of a set of places is one place for each k, and each place is one.
LEMMA Ranks ==
  ASSUME NEW n \in Nat, NEW A, A \subseteq 1 .. n
  PROVE  /\ Cardinality(A) \in Nat
         /\ \A k \in 1 .. Cardinality(A) : Cache!Nth(A, k) \in A
         /\ \A k, m \in 1 .. Cardinality(A) : Cache!Nth(A, k) = Cache!Nth(A, m) => k = m
         /\ \A i \in A : \E k \in 1 .. Cardinality(A) : Cache!Nth(A, k) = i
<1> DEFINE Upto(i) == {j \in A : j =< i}
           rank == [i \in A |-> Cardinality(Upto(i))]
<1>1. IsFiniteSet(1 .. n)
  BY FS_Interval, 1 \in Int, n \in Int
<1>2. IsFiniteSet(A)
  BY <1>1, FS_Subset
<1>3. Cardinality(A) \in Nat
  BY <1>2, FS_CardinalityType
<1>4. ASSUME NEW i \in A
      PROVE  /\ IsFiniteSet(Upto(i)) /\ Cardinality(Upto(i)) \in 1 .. Cardinality(A)
  <2>1. Upto(i) \subseteq A /\ i \in Upto(i)
    OBVIOUS
  <2>2. IsFiniteSet(Upto(i)) /\ Cardinality(Upto(i)) <= Cardinality(A)
    BY <1>2, <2>1, FS_Subset
  <2>3. Cardinality(Upto(i)) \in Nat /\ Cardinality(Upto(i)) # 0
    BY <2>1, <2>2, FS_CardinalityType, FS_EmptySet
  <2> QED BY <1>3, <2>2, <2>3
<1>5. ASSUME NEW i \in A, NEW j \in A, Cardinality(Upto(i)) = Cardinality(Upto(j))
      PROVE  i = j
  <2>1. ASSUME NEW x \in A, NEW y \in A, x <= y, Cardinality(Upto(y)) = Cardinality(Upto(x))
        PROVE  x = y
    <3>0. A \subseteq Int /\ x \in Int /\ y \in Int
      OBVIOUS
    <3>1. Upto(x) \subseteq Upto(y)
      <4>1. SUFFICES ASSUME NEW z \in A, z <= x PROVE z <= y
        OBVIOUS
      <4> QED BY <2>1, <3>0, <4>1
    <3>2. Upto(y) = Upto(x)
      BY <1>4, <2>1, <3>1, FS_Subset
    <3>3. y \in Upto(y)
      OBVIOUS
    <3> QED BY <2>1, <3>2, <3>3
  <2>2. i <= j \/ j <= i
    OBVIOUS
  <2> QED BY <1>5, <2>1, <2>2
<1>6. rank \in Injection(A, 1 .. Cardinality(A))
  BY <1>4, <1>5 DEF Injection, IsInjective
<1>7. IsFiniteSet(1 .. Cardinality(A)) /\ Cardinality(1 .. Cardinality(A)) = Cardinality(A)
  <2>1. /\ IsFiniteSet(1 .. Cardinality(A))
        /\ Cardinality(1 .. Cardinality(A)) = IF 1 > Cardinality(A) THEN 0 ELSE Cardinality(A) - 1 + 1
    BY <1>3, FS_Interval, 1 \in Int
  <2> QED BY <1>3, <2>1
<1>8. rank \in Surjection(A, 1 .. Cardinality(A))
  BY <1>6, <1>7, FS_Injection
<1>9. \A k \in 1 .. Cardinality(A) : \E i \in A : Cardinality(Upto(i)) = k
  BY <1>8 DEF Surjection
<1>10. ASSUME NEW k \in 1 .. Cardinality(A)
       PROVE  Cache!Nth(A, k) \in A /\ Cardinality(Upto(Cache!Nth(A, k))) = k
  <2>1. Cache!Nth(A, k) = CHOOSE i \in A : Cardinality(Upto(i)) = k
    BY CacheCardinality DEF Cache!Nth
  <2> QED BY <1>9, <2>1
<1> QED BY <1>3, <1>4, <1>5, <1>10

\* The pages accepted, in the table's order.
Given(pages) ==
  [k \in 1 .. Cardinality(Cache!Accepted(pages)) |-> pages[Cache!Nth(Cache!Accepted(pages), k)]]

LEMMA GivenIs ==
  ASSUME Cache!TypeOK, NEW pages \in Seq(Cache!Pages)
  PROVE  /\ Given(pages) \in Seq(Cache!Pages) /\ Cache!IsInjective(Given(pages))
         /\ Named(Given(pages)) = Cache!TakenBack(pages)
         /\ Cache!TakenBack(pages) \intersect Named(free) = {}
         /\ Cache!TakenBack(pages) \subseteq Named(pages)
         /\ Cardinality(Cache!Accepted(pages)) \in Nat
         /\ Cache!IsInjective(pages) /\ Named(pages) \intersect Named(free) = {}
              => Cache!TakenBack(pages) = Named(pages)
<1> DEFINE A == Cache!Accepted(pages)
           n == Cardinality(A)
<1>1. free \in Seq(Cache!Pages) /\ Len(pages) \in Nat /\ DOMAIN pages = 1 .. Len(pages)
  BY DEF Cache!TypeOK
<1>2. A = {i \in 1 .. Len(pages) : pages[i] \notin Named(free) /\ \A j \in 1 .. i - 1 : pages[j] # pages[i]}
  BY <1>1, NamedIs DEF Cache!Accepted
<1>3. /\ n \in Nat
      /\ \A k \in 1 .. n : Cache!Nth(A, k) \in A
      /\ \A k, m \in 1 .. n : Cache!Nth(A, k) = Cache!Nth(A, m) => k = m
      /\ \A i \in A : \E k \in 1 .. n : Cache!Nth(A, k) = i
  <2>1. A \subseteq 1 .. Len(pages)
    BY <1>2
  <2> HIDE DEF A
  <2> QED BY <1>1, <2>1, Ranks
<1>4. Cache!TakenBack(pages) = {pages[i] : i \in A}
  BY DEF Cache!TakenBack
<1>5. Given(pages) = [k \in 1 .. n |-> pages[Cache!Nth(A, k)]]
  BY DEF Given
<1>6. ASSUME NEW i \in A, NEW j \in A, pages[i] = pages[j]
      PROVE  i = j
  <2>1. i \in 1 .. Len(pages) /\ j \in 1 .. Len(pages)
    BY <1>2
  <2>2. ~(i < j) /\ ~(j < i)
    BY <1>2, <1>6, <2>1
  <2> QED BY <2>1, <2>2
<1>7. \A i \in A : pages[i] \in Cache!Pages /\ pages[i] \in Named(pages) /\ pages[i] \notin Named(free)
  BY <1>1, <1>2, NamedIs
<1>8. Cache!IsInjective(pages) /\ Named(pages) \intersect Named(free) = {} => A = 1 .. Len(pages)
  BY <1>1, <1>2, NamedIs DEF Cache!IsInjective
<1>9. Named(pages) = {pages[i] : i \in 1 .. Len(pages)}
  BY NamedIs
<1> HIDE DEF A, n
<1>10. Given(pages) \in Seq(Cache!Pages) /\ Len(Given(pages)) = n
  BY <1>3, <1>5, <1>7
<1>11. Cache!IsInjective(Given(pages))
  BY <1>3, <1>5, <1>6 DEF Cache!IsInjective
<1>12. Named(Given(pages)) = {pages[i] : i \in A}
  <2>1. Named(Given(pages)) = {Given(pages)[k] : k \in 1 .. n}
    BY <1>10, NamedIs
  <2>2. \A k \in 1 .. n : Given(pages)[k] = pages[Cache!Nth(A, k)]
    BY <1>5
  <2> QED BY <1>3, <2>1, <2>2
<1> QED BY <1>3, <1>4, <1>7, <1>8, <1>9, <1>10, <1>11, <1>12 DEF A, n

-----------------------------------------------------------------------------
(* Whose a page is.                                                          *)

Owned ==
  /\ Cache!IsInjective(free) /\ \A s \in Callers : Cache!IsInjective(table[s])
  /\ \A s \in Callers : Named(table[s]) \intersect Named(free) = {}
  /\ \A s, t \in Callers : s # t => Named(table[s]) \intersect Named(table[t]) = {}
  /\ \A p \in Cache!Pages : p \in Named(free) \/ \E s \in Callers : p \in Named(table[s])

LEMMA OwnedIs == Cache!TypeOK => (Cache!PagesHaveOneOwner <=> (~stray => Owned))
<1> SUFFICES ASSUME Cache!TypeOK PROVE Cache!PagesHaveOneOwner <=> (~stray => Owned)
  OBVIOUS
<1>1. \A p : Cache!Contains(free, p) <=> p \in Named(free)
  BY NamedIs DEF Cache!TypeOK
<1>2. ASSUME NEW s \in Callers
      PROVE  \A p : Cache!Contains(table[s], p) <=> p \in Named(table[s])
  <2>1. table[s] \in Seq(Cache!Pages)
    BY DEF Cache!TypeOK
  <2> QED BY <2>1, NamedIs
<1> QED BY <1>1, <1>2 DEF Cache!PagesHaveOneOwner, Owned, Named

PInv == Cache!TypeOK /\ (~stray => Owned)

\* The pages leave the end of the list for the end of the table.
LEMMA GrowOwns ==
  ASSUME Cache!PoolAssumption, PInv, NEW s \in Callers, NEW n \in 1 .. MaxPositions, Cache!Grow(s, n)
  PROVE  PInv'
<1> DEFINE need == Cache!Want(n) - Len(table[s])
           kept == Len(free) - need
           front == SubSeq(free, 1, kept)
           back == SubSeq(free, kept + 1, Len(free))
<1>1. /\ need > 0 /\ kept >= 0
      /\ table' = [table EXCEPT ![s] = @ \o back]
      /\ free' = front /\ held' = held + need /\ UNCHANGED <<freed, stray>>
  BY DEF Cache!Grow
<1>2. /\ free \in Seq(Cache!Pages) /\ Len(free) \in Nat /\ held \in Int
      /\ table \in [Callers -> Seq(Cache!Pages)] /\ table[s] \in Seq(Cache!Pages) /\ Len(table[s]) \in Nat
  BY DEF PInv, Cache!TypeOK
<1>3. Cache!Want(n) \in Int /\ need \in Int
  BY <1>2 DEF Cache!Want, Cache!PoolAssumption
<1> HIDE DEF need
<1>4. kept \in 0 .. Len(free)
  BY <1>1, <1>2, <1>3
<1> HIDE DEF kept
<1>5. /\ front \in Seq(Cache!Pages) /\ back \in Seq(Cache!Pages) /\ front \o back = free
      /\ Cache!IsInjective(free) => /\ Cache!IsInjective(front) /\ Cache!IsInjective(back)
                                    /\ Named(front) \intersect Named(back) = {}
  BY <1>2, <1>4, Cut
<1> HIDE DEF front, back
<1>6. Named(free) = Named(front) \union Named(back)
  <2>1. front \in Seq(Cache!Pages) /\ back \in Seq(Cache!Pages) /\ front \o back = free
    BY <1>5
  <2>2. /\ front \o back \in Seq(Cache!Pages)
        /\ Named(front \o back) = Named(front) \union Named(back)
        /\ Cache!IsInjective(front) /\ Cache!IsInjective(back) /\ Named(front) \intersect Named(back) = {}
             => Cache!IsInjective(front \o back)
    BY <2>1, Joined
  <2> QED BY <2>1, <2>2
<1>7. /\ table[s] \o back \in Seq(Cache!Pages)
      /\ Named(table[s] \o back) = Named(table[s]) \union Named(back)
      /\ Cache!IsInjective(table[s]) /\ Cache!IsInjective(back) /\ Named(table[s]) \intersect Named(back) = {}
           => Cache!IsInjective(table[s] \o back)
  BY <1>2, <1>5, Joined
<1>8. table'[s] = table[s] \o back /\ \A t \in Callers \ {s} : table'[t] = table[t]
  BY <1>1, <1>2
<1>9. Cache!TypeOK'
  <2>1. table' \in [Callers -> Seq(Cache!Pages)] /\ free' \in Seq(Cache!Pages) /\ held' \in Int
    BY <1>1, <1>2, <1>3, <1>5, <1>7
  <2> QED BY <1>1, <2>1 DEF PInv, Cache!TypeOK, Cache!Pages
<1>10. ASSUME ~stray
       PROVE  Owned'
  <2>1. Owned
    BY <1>10 DEF PInv
  <2>2. /\ Cache!IsInjective(front) /\ Cache!IsInjective(back) /\ Named(front) \intersect Named(back) = {}
        /\ \A t \in Callers : Named(table[t]) \intersect Named(front) = {} /\ Named(table[t]) \intersect Named(back) = {}
    BY <1>5, <1>6, <2>1 DEF Owned
  <2>3. Cache!IsInjective(table'[s]) /\ Named(table'[s]) = Named(table[s]) \union Named(back)
    BY <1>7, <1>8, <2>1, <2>2 DEF Owned
  <2>4. Cache!IsInjective(free') /\ \A t \in Callers : Cache!IsInjective(table'[t])
    BY <1>1, <1>8, <2>1, <2>2, <2>3 DEF Owned
  <2>5. \A t \in Callers : Named(table'[t]) \intersect Named(free') = {}
    BY <1>1, <1>8, <2>2, <2>3
  <2>6. \A t, u \in Callers : t # u => Named(table'[t]) \intersect Named(table'[u]) = {}
    <3>1. SUFFICES ASSUME NEW t \in Callers, NEW u \in Callers, t # u
                   PROVE  Named(table'[t]) \intersect Named(table'[u]) = {}
      OBVIOUS
    <3>2. Named(table[t]) \intersect Named(table[u]) = {}
      BY <2>1, <3>1 DEF Owned
    <3>3. CASE t = s
      BY <1>8, <2>2, <2>3, <3>1, <3>2, <3>3
    <3>4. CASE u = s
      BY <1>8, <2>2, <2>3, <3>1, <3>2, <3>4
    <3>5. CASE t # s /\ u # s
      BY <1>8, <3>2, <3>5
    <3> QED BY <3>3, <3>4, <3>5
  <2>7. \A p \in Cache!Pages : p \in Named(free') \/ \E t \in Callers : p \in Named(table'[t])
    <3>1. SUFFICES ASSUME NEW p \in Cache!Pages, p \notin Named(front)
                   PROVE  \E t \in Callers : p \in Named(table'[t])
      BY <1>1
    <3>2. CASE p \in Named(free)
      BY <1>6, <2>3, <3>1, <3>2
    <3>3. CASE p \notin Named(free)
      <4>1. PICK t \in Callers : p \in Named(table[t])
        BY <2>1, <3>3 DEF Owned
      <4> QED BY <1>8, <2>3, <4>1
    <3> QED BY <3>2, <3>3
  <2> QED BY <2>4, <2>5, <2>6, <2>7 DEF Owned, Cache!Pages
<1> QED BY <1>1, <1>9, <1>10 DEF PInv

\* What Free takes back joins the list; its caller says what becomes of the table.
LEMMA ListGrows ==
  ASSUME PInv, NEW s \in Callers, NEW pages \in Seq(Cache!Pages), Cache!GiveBack(s, pages)
  PROVE  /\ free' \in Seq(Cache!Pages) /\ held' \in Int
         /\ Named(free') = Named(free) \union Cache!TakenBack(pages)
         /\ Cache!IsInjective(free) => Cache!IsInjective(free')
<1>1. free \in Seq(Cache!Pages) /\ held \in Int
  BY DEF PInv, Cache!TypeOK
<1>2. free' = free \o Given(pages) /\ held' = held - Cardinality(Cache!Accepted(pages))
  BY CacheCardinality DEF Cache!GiveBack, Given
<1>3. /\ Given(pages) \in Seq(Cache!Pages) /\ Cache!IsInjective(Given(pages))
      /\ Named(Given(pages)) = Cache!TakenBack(pages)
      /\ Cache!TakenBack(pages) \intersect Named(free) = {}
      /\ Cardinality(Cache!Accepted(pages)) \in Nat
  BY GivenIs DEF PInv
<1>4. /\ free \o Given(pages) \in Seq(Cache!Pages)
      /\ Named(free \o Given(pages)) = Named(free) \union Named(Given(pages))
      /\ Cache!IsInjective(free) /\ Cache!IsInjective(Given(pages)) /\ Named(free) \intersect Named(Given(pages)) = {}
           => Cache!IsInjective(free \o Given(pages))
  BY <1>1, <1>3, Joined
<1> QED BY <1>1, <1>2, <1>3, <1>4

\* Every page of a table that was not freed behind its back is taken back.
LEMMA FreeOwns ==
  ASSUME PInv, NEW s \in Callers, Cache!Free(s)
  PROVE  PInv'
<1> DEFINE pages == table[s]
<1>1. /\ Cache!GiveBack(s, pages) /\ table' = [table EXCEPT ![s] = <<>>]
      /\ freed' = [freed EXCEPT ![s] = pages] /\ stray' = stray
  BY DEF Cache!Free
<1>2. /\ table \in [Callers -> Seq(Cache!Pages)] /\ freed \in [Callers -> Seq(Cache!Pages)]
      /\ pages \in Seq(Cache!Pages) /\ stray \in BOOLEAN
  BY DEF PInv, Cache!TypeOK
<1>3. table'[s] = <<>> /\ \A t \in Callers \ {s} : table'[t] = table[t]
  BY <1>1, <1>2
<1>4. Named(table'[s]) = {} /\ Cache!IsInjective(table'[s])
  BY <1>3 DEF Named, Cache!ToSet, Cache!IsInjective
<1> HIDE DEF pages
<1>5. /\ free' \in Seq(Cache!Pages) /\ held' \in Int
      /\ Named(free') = Named(free) \union Cache!TakenBack(pages)
      /\ Cache!IsInjective(free) => Cache!IsInjective(free')
  BY <1>1, <1>2, ListGrows
<1>6. Cache!TypeOK'
  <2>1. <<>> \in Seq(Cache!Pages)
    OBVIOUS
  <2>2. table' \in [Callers -> Seq(Cache!Pages)] /\ freed' \in [Callers -> Seq(Cache!Pages)]
    BY <1>1, <1>2, <2>1
  <2> QED BY <1>1, <1>2, <1>5, <2>2 DEF Cache!TypeOK, Cache!Pages
<1>7. ASSUME ~stray
      PROVE  Owned'
  <2>1. Owned
    BY <1>7 DEF PInv
  <2>2. Cache!TakenBack(pages) = Named(table[s])
    <3>1. Cache!IsInjective(pages) /\ Named(pages) \intersect Named(free) = {}
      BY <2>1 DEF Owned, pages
    <3>2. Cache!TakenBack(pages) = Named(pages)
      BY <1>2, <3>1, GivenIs DEF PInv
    <3> QED BY <3>2 DEF pages
  <2>3. Cache!IsInjective(free') /\ \A t \in Callers : Cache!IsInjective(table'[t])
    BY <1>3, <1>4, <1>5, <2>1 DEF Owned
  <2>4. \A t \in Callers : Named(table'[t]) \intersect Named(free') = {}
    <3>1. SUFFICES ASSUME NEW t \in Callers, t # s PROVE Named(table'[t]) \intersect Named(free') = {}
      BY <1>4
    <3>2. /\ Named(table[t]) \intersect Named(free) = {}
          /\ Named(table[t]) \intersect Named(table[s]) = {}
      BY <2>1, <3>1 DEF Owned
    <3> QED BY <1>3, <1>5, <2>2, <3>1, <3>2
  <2>5. \A t, u \in Callers : t # u => Named(table'[t]) \intersect Named(table'[u]) = {}
    BY <1>3, <1>4, <2>1 DEF Owned
  <2>6. \A p \in Cache!Pages : p \in Named(free') \/ \E t \in Callers : p \in Named(table'[t])
    <3>1. SUFFICES ASSUME NEW p \in Cache!Pages, p \notin Named(free), p \notin Named(table[s])
                   PROVE  \E t \in Callers : p \in Named(table'[t])
      BY <1>5, <2>2
    <3>2. PICK t \in Callers : p \in Named(table[t])
      BY <2>1, <3>1 DEF Owned
    <3> QED BY <1>3, <3>1, <3>2
  <2> QED BY <2>3, <2>4, <2>5, <2>6 DEF Owned, Cache!Pages
<1> QED BY <1>1, <1>6, <1>7 DEF PInv

\* A second Free that strays on no new owner takes back only what nobody has.
LEMMA FreeAgainOwns ==
  ASSUME PInv, NEW s \in Callers, Cache!FreeAgain(s)
  PROVE  PInv'
<1> DEFINE pages == freed[s]
           strays == \E t \in Callers : Named(table[t]) \intersect Cache!TakenBack(pages) # {}
<1>1. /\ Cache!GiveBack(s, pages) /\ table' = table
      /\ freed' = [freed EXCEPT ![s] = <<>>] /\ stray' = (stray \/ strays)
  BY DEF Cache!FreeAgain, Named
<1>2. /\ table \in [Callers -> Seq(Cache!Pages)] /\ freed \in [Callers -> Seq(Cache!Pages)]
      /\ pages \in Seq(Cache!Pages)
  BY DEF PInv, Cache!TypeOK
<1> HIDE DEF pages
<1>3. /\ free' \in Seq(Cache!Pages) /\ held' \in Int
      /\ Named(free') = Named(free) \union Cache!TakenBack(pages)
      /\ Cache!IsInjective(free) => Cache!IsInjective(free')
  BY <1>1, <1>2, ListGrows
<1>4. Cache!TypeOK'
  <2>1. <<>> \in Seq(Cache!Pages)
    OBVIOUS
  <2>2. freed' \in [Callers -> Seq(Cache!Pages)]
    BY <1>1, <1>2, <2>1
  <2>3. stray' \in BOOLEAN
    <3>1. stray \in BOOLEAN /\ strays \in BOOLEAN
      BY DEF PInv, Cache!TypeOK
    <3> HIDE DEF strays
    <3> QED BY <1>1, <3>1
  <2> QED BY <1>1, <1>2, <1>3, <2>2, <2>3 DEF Cache!TypeOK, Cache!Pages
<1>5. ASSUME ~stray'
      PROVE  Owned'
  <2>1. ~stray /\ ~strays
    BY <1>1, <1>5
  <2>2. Owned
    BY <2>1 DEF PInv
  <2>3. \A t \in Callers : Named(table[t]) \intersect Cache!TakenBack(pages) = {}
    BY <2>1
  <2> QED BY <1>1, <1>3, <2>2, <2>3 DEF Owned, Cache!Pages
<1> QED BY <1>4, <1>5 DEF PInv

\* NewBlockPool lists every page once.
LEMMA PoolInit ==
  ASSUME Cache!PoolAssumption, Cache!Init
  PROVE  PInv
<1>1. /\ free = [i \in 1 .. Blocks |-> Blocks - i] /\ held = 0 /\ ~stray /\ stray \in BOOLEAN
      /\ table = [s \in Callers |-> <<>>] /\ freed = [s \in Callers |-> <<>>]
  BY DEF Cache!Init
<1>2. Blocks \in Nat
  BY DEF Cache!PoolAssumption
<1>3. \A i \in 1 .. Blocks : Blocks - i \in Cache!Pages
  BY <1>2 DEF Cache!Pages
<1>4. free \in Seq(Cache!Pages) /\ Len(free) = Blocks
  BY <1>1, <1>2, <1>3
<1>5. <<>> \in Seq(Cache!Pages)
  OBVIOUS
<1>6. Cache!TypeOK
  BY <1>1, <1>4, <1>5 DEF Cache!TypeOK
<1>7. \A s \in Callers : Named(table[s]) = {} /\ Cache!IsInjective(table[s])
  BY <1>1 DEF Named, Cache!ToSet, Cache!IsInjective
<1>8. Cache!IsInjective(free)
  BY <1>1, <1>2 DEF Cache!IsInjective
<1>9. ASSUME NEW p \in Cache!Pages PROVE p \in Named(free)
  <2>1. Blocks - p \in 1 .. Blocks /\ Blocks - (Blocks - p) = p
    BY <1>2 DEF Cache!Pages
  <2>2. free[Blocks - p] = p
    BY <1>1, <2>1
  <2>3. Named(free) = {free[i] : i \in 1 .. Blocks}
    BY <1>4, NamedIs
  <2> QED BY <2>1, <2>2, <2>3
<1>10. Owned
  BY <1>7, <1>8, <1>9 DEF Owned
<1> QED BY <1>6, <1>10 DEF PInv

LEMMA PoolNext ==
  ASSUME Cache!PoolAssumption, PInv, [Cache!Next]_(Cache!vars)
  PROVE  PInv'
<1>1. ASSUME NEW s \in Callers, Cache!Free(s) PROVE PInv'
  BY <1>1, FreeOwns
<1>2. ASSUME NEW s \in Callers, Cache!FreeAgain(s) PROVE PInv'
  BY <1>2, FreeAgainOwns
<1>3. ASSUME NEW s \in Callers, NEW n \in 1 .. MaxPositions, Cache!Grow(s, n) PROVE PInv'
  BY <1>3, GrowOwns
<1>4. CASE UNCHANGED Cache!vars
  BY <1>4 DEF Cache!vars, PInv, Cache!TypeOK, Owned, Cache!Pages
<1> QED BY <1>1, <1>2, <1>3, <1>4 DEF Cache!Next

\* A page of the cache is on the free list or in one place of one sequence's table,
\* for every number of sequences and pages and whatever is freed twice, as long as no
\* second Free came after the page had a new owner (Grow and Free of blockpool.go).
THEOREM PagesAreOwned ==
  ASSUME Cache!PoolAssumption PROVE Cache!Spec => []PagesHaveOneOwner
<1>1. Cache!Init => PInv
  BY PoolInit
<1>2. PInv /\ [Cache!Next]_(Cache!vars) => PInv'
  BY PoolNext
<1>3. PInv => PagesHaveOneOwner
  BY OwnedIs DEF PInv, PagesHaveOneOwner
<1> QED BY <1>1, <1>2, <1>3, PTL DEF Cache!Spec
-----------------------------------------------------------------------------
(* Of the versions of a state (VersionedState).  First how many elements a     *)
(* shape has: a product, which the library defines by a fold over the places   *)
(* of the sequence, last first.  Two readings of the fold would part at a      *)
(* smallest set of places, and there is none.                                  *)

\* Numbers have a least.
LEMMA LeastOfNaturals ==
  ASSUME NEW S \in SUBSET Nat, S # {}
  PROVE  \E m \in S : \A n \in S : m =< n
<1> DEFINE T == {1 .. n : n \in S}
<1>1. \A n \in Nat : IsFiniteSet(1 .. n) /\ 1 .. n \subseteq Nat
  BY FS_Interval
<1>2. T \subseteq FiniteSubsetsOf(Nat) /\ T # {}
  <2>1. \A n \in S : 1 .. n \in FiniteSubsetsOf(Nat) BY <1>1 DEF FiniteSubsetsOf
  <2>2. \A z \in T : z \in FiniteSubsetsOf(Nat) BY <2>1
  <2>3. PICK n \in S : TRUE OBVIOUS
  <2>4. 1 .. n \in T BY <2>3
  <2> QED BY <2>2, <2>4
<1>3. \E x \in T : \A y \in T : <<y, x>> \notin StrictSubsetOrdering(Nat)
  <2>1. IsWellFoundedOn(StrictSubsetOrdering(Nat), FiniteSubsetsOf(Nat))
    BY FS_StrictSubsetOrderingWellFounded
  <2> HIDE DEF T
  <2> QED BY <1>2, <2>1, WFMin
<1>4. PICK m \in S : \A n \in S : <<1 .. n, 1 .. m>> \notin StrictSubsetOrdering(Nat)
  BY <1>3
<1>5. ASSUME NEW n \in S, ~(m =< n) PROVE FALSE
  <2>1. 1 .. n \subseteq 1 .. m /\ m \in 1 .. m /\ m \notin 1 .. n BY <1>5
  <2>2. <<1 .. n, 1 .. m>> \in StrictSubsetOrdering(Nat)
    BY <1>1, <2>1 DEF StrictSubsetOrdering
  <2> QED BY <1>4, <2>2
<1> QED BY <1>5

\* And one bounded from above a greatest.
LEMMA GreatestOfNaturals ==
  ASSUME NEW bound \in Nat, NEW S \in SUBSET Nat, S # {}, \A n \in S : n =< bound
  PROVE  \E m \in S : \A n \in S : n =< m
<1> DEFINE D == {bound - n : n \in S}
<1>1. D \in SUBSET Nat /\ D # {}
  <2>1. \A n \in S : bound - n \in Nat OBVIOUS
  <2>2. PICK n \in S : TRUE OBVIOUS
  <2>3. bound - n \in D OBVIOUS
  <2> QED BY <2>1, <2>3
<1>2. PICK d \in D : \A e \in D : d =< e
  <2> HIDE DEF D
  <2> QED BY <1>1, LeastOfNaturals
<1>3. PICK m \in S : d = bound - m
  OBVIOUS
<1>4. \A n \in S : bound - m =< bound - n
  BY <1>2, <1>3
<1> QED BY <1>4

Last(s) == State!Max(s)
Multiplies(g, q, S) == g = [s \in SUBSET S |-> IF s = {} THEN 1 ELSE g[s \ {Last(s)}] * q[Last(s)]]
Product(q, S) == CHOOSE g : Multiplies(g, q, S)

\* The fold is the chosen solution of its equation.
LEMMA ElementsIsTheProduct ==
  ASSUME NEW q
  PROVE  State!Elements(q) = Product(q, DOMAIN q)[DOMAIN q]
BY DEF State!Elements, State!FoldLeft, State!MapThenFoldSet, Multiplies, Product, Last

\* The greatest of numbers up to a bound.
LEMMA LastIs ==
  ASSUME NEW n \in Nat, NEW S \in SUBSET (0 .. n), S # {}
  PROVE  Last(S) \in S /\ \A x \in S : x =< Last(S)
<1>0. S \in SUBSET Nat /\ \A x \in S : x =< n
  OBVIOUS
<1>1. PICK m \in S : \A x \in S : x =< m
  BY <1>0, GreatestOfNaturals
<1>2. m \in S /\ \A y \in S : m >= y
  BY <1>1
<1>3. Last(S) \in S /\ \A y \in S : Last(S) >= y
  BY <1>2, Zenon DEF Last, State!Max
<1> QED BY <1>3

LEMMA SmallestPlaces ==
  ASSUME NEW n \in Nat, NEW bad \in SUBSET SUBSET (1 .. n), bad # {}
  PROVE  \E s \in bad : \A t \in SUBSET s : t # s => t \notin bad
<1> DEFINE P == 1 .. n
<1>0. IsFiniteSet(P) /\ bad \in SUBSET SUBSET P
  BY FS_Interval
<1> HIDE DEF P
<1>1. \A s \in SUBSET P : IsFiniteSet(s)
  BY <1>0, FS_Subset
<1>2. bad \subseteq FiniteSubsetsOf(P)
  BY <1>0, <1>1 DEF FiniteSubsetsOf
<1>3. IsWellFoundedOn(StrictSubsetOrdering(P), FiniteSubsetsOf(P))
  BY FS_StrictSubsetOrderingWellFounded
<1>4. PICK s \in bad : \A t \in bad : <<t, s>> \notin StrictSubsetOrdering(P)
  BY <1>2, <1>3, WFMin
<1>5. ASSUME NEW t \in SUBSET s, t # s PROVE t \notin bad
  <2>1. t \in bad => <<t, s>> \in StrictSubsetOrdering(P)
    BY <1>0, <1>5 DEF StrictSubsetOrdering
  <2> QED BY <1>4, <2>1
<1> QED BY <1>5

LEMMA LastOfPlaces ==
  ASSUME NEW n \in Nat, NEW s \in SUBSET (1 .. n), s # {}
  PROVE  Last(s) \in s /\ s \ {Last(s)} \in SUBSET s /\ s \ {Last(s)} # s
<1>1. s \in SUBSET (0 .. n)
  OBVIOUS
<1>2. Last(s) \in s
  BY <1>1, LastIs
<1> QED BY <1>2

ArePlaces(S) == \E n \in Nat : S \subseteq 1 .. n

\* Two solutions agree where both are defined.
LEMMA ProductIsUnique ==
  ASSUME NEW q, NEW S, ArePlaces(S), NEW T, T \subseteq S,
         NEW g, NEW h, Multiplies(g, q, S), Multiplies(h, q, T)
  PROVE  g[T] = h[T]
<1>0. PICK n \in Nat : S \subseteq 1 .. n
  BY DEF ArePlaces
<1> DEFINE bad == {s \in SUBSET T : g[s] # h[s]}
<1>1. ASSUME bad # {} PROVE FALSE
  <2>1. PICK s \in bad : \A t \in SUBSET s : t # s => t \notin bad
    <3>1. bad \in SUBSET SUBSET (1 .. n) BY <1>0
    <3> HIDE DEF bad
    <3> QED BY <1>1, <3>1, SmallestPlaces
  <2>2. g[s] = IF s = {} THEN 1 ELSE g[s \ {Last(s)}] * q[Last(s)]
    BY DEF Multiplies
  <2>3. h[s] = IF s = {} THEN 1 ELSE h[s \ {Last(s)}] * q[Last(s)]
    BY DEF Multiplies
  <2>4. s # {} /\ s \in SUBSET (1 .. n)
    BY <1>0, <2>2, <2>3
  <2>5. s \ {Last(s)} \in SUBSET s /\ s \ {Last(s)} # s
    BY <2>4, LastOfPlaces
  <2>6. g[s \ {Last(s)}] = h[s \ {Last(s)}]
    BY <2>1, <2>5
  <2> QED BY <2>2, <2>3, <2>4, <2>6
<1> QED BY <1>1

\* And every set of places has one.
LEMMA ProductExists ==
  ASSUME NEW n \in Nat, NEW q, NEW S \in SUBSET (1 .. n)
  PROVE  Multiplies(Product(q, S), q, S)
<1> DEFINE bad == {s \in SUBSET S : \A g : ~Multiplies(g, q, s)}
<1>1. ASSUME bad # {} PROVE FALSE
  <2>1. PICK s \in bad : \A t \in SUBSET s : t # s => t \notin bad
    <3>1. bad \in SUBSET SUBSET (1 .. n) OBVIOUS
    <3> HIDE DEF bad
    <3> QED BY <1>1, <3>1, SmallestPlaces
  <2>2. s \in SUBSET (1 .. n)
    OBVIOUS
  <2>3. \A t \in SUBSET s : t # s => Multiplies(Product(q, t), q, t)
    <3> SUFFICES ASSUME NEW t \in SUBSET s, t # s PROVE Multiplies(Product(q, t), q, t)
      OBVIOUS
    <3>1. \E g : Multiplies(g, q, t)
      BY <2>1
    <3> QED BY <3>1 DEF Product
  <2> DEFINE rest(t) == t \ {Last(t)}
             h == [t \in SUBSET s |-> IF t = {} THEN 1 ELSE Product(q, rest(t))[rest(t)] * q[Last(t)]]
  <2>4. ASSUME NEW t \in SUBSET s, t # s PROVE h[t] = Product(q, t)[t]
    <3>1. Product(q, t)[t] = IF t = {} THEN 1 ELSE Product(q, t)[rest(t)] * q[Last(t)]
      BY <2>3, <2>4 DEF Multiplies
    <3>2. CASE t = {}
      BY <3>1, <3>2
    <3>3. CASE t # {}
      <4>1. rest(t) \in SUBSET t /\ rest(t) # t
        <5>1. t \in SUBSET (1 .. n) BY <2>2
        <5> QED BY <3>3, <5>1, LastOfPlaces
      <4>2. /\ rest(t) \in SUBSET (1 .. n) /\ t \in SUBSET (1 .. n) /\ rest(t) \subseteq rest(t) /\ rest(t) \subseteq t
            /\ Multiplies(Product(q, rest(t)), q, rest(t)) /\ Multiplies(Product(q, t), q, t)
        <5>1. rest(t) \in SUBSET s /\ rest(t) # s BY <2>4, <4>1
        <5> HIDE DEF rest
        <5> QED BY <2>2, <2>3, <2>4, <4>1, <5>1
      <4>3. Product(q, t)[rest(t)] = Product(q, rest(t))[rest(t)]
        <5> DEFINE r == rest(t)
                   g == Product(q, t)
                   f == Product(q, r)
        <5>1. ArePlaces(t) /\ r \subseteq t /\ Multiplies(g, q, t) /\ Multiplies(f, q, r)
          BY <4>1, <4>2 DEF ArePlaces
        <5> HIDE DEF r, g, f, rest, h, bad
        <5>2. g[r] = f[r]
          BY <5>1, ProductIsUnique
        <5> QED BY <5>2 DEF r, g, f
      <4> QED BY <3>1, <3>3, <4>3
    <3> QED BY <3>2, <3>3
  <2>5. \A t \in SUBSET s : h[t] = IF t = {} THEN 1 ELSE h[rest(t)] * q[Last(t)]
    <3> SUFFICES ASSUME NEW t \in SUBSET s, t # {} PROVE h[t] = h[rest(t)] * q[Last(t)]
      OBVIOUS
    <3>1. t \in SUBSET (1 .. n)
      BY <2>2
    <3>2. rest(t) \in SUBSET s /\ rest(t) # s
      BY <3>1, LastOfPlaces
    <3>3. h[rest(t)] = Product(q, rest(t))[rest(t)]
      <4> HIDE DEF h, rest
      <4> QED BY <2>4, <3>2
    <3>4. h[t] = Product(q, rest(t))[rest(t)] * q[Last(t)]
      OBVIOUS
    <3> QED BY <3>3, <3>4
  <2>6. Multiplies(h, q, s)
    <3>1. h = [t \in SUBSET s |-> h[t]] OBVIOUS
    <3> HIDE DEF h
    <3> QED BY <2>5, <3>1 DEF Multiplies
  <2> QED BY <2>6
<1>2. \E g : Multiplies(g, q, S)
  BY <1>1
<1> QED BY <1>2 DEF Product

\* The product of the first k places, and how it grows.
Through(q, k) == Product(q, 1 .. k)[1 .. k]

LEMMA ThroughGrows ==
  ASSUME NEW q
  PROVE  /\ Through(q, 0) = 1
         /\ \A k \in Nat : Through(q, k + 1) = Through(q, k) * q[k + 1]
<1>1. Through(q, 0) = 1
  <2>1. 1 .. 0 = {} /\ 1 .. 0 \in SUBSET (1 .. 0) /\ 0 \in Nat OBVIOUS
  <2>2. Multiplies(Product(q, 1 .. 0), q, 1 .. 0) BY <2>1, ProductExists
  <2> QED BY <2>1, <2>2 DEF Multiplies, Through
<1>2. ASSUME NEW k \in Nat PROVE Through(q, k + 1) = Through(q, k) * q[k + 1]
  <2> DEFINE S == 1 .. k + 1
             T == 1 .. k
  <2>1. /\ k + 1 \in Nat /\ S \in SUBSET (1 .. k + 1) /\ T \in SUBSET (1 .. k + 1) /\ T \subseteq S /\ T \subseteq T
        /\ S # {} /\ S \in SUBSET (0 .. k + 1) /\ k + 1 \in S /\ T = S \ {k + 1} /\ \A x \in S : x =< k + 1 /\ x \in Nat
    OBVIOUS
  <2> HIDE DEF S, T
  <2>2. Last(S) = k + 1
    <3>1. Last(S) \in S /\ \A x \in S : x =< Last(S) BY <2>1, LastIs
    <3>2. k + 1 =< Last(S) /\ Last(S) \in Nat /\ Last(S) =< k + 1
      BY <2>1, <3>1
    <3> QED BY <3>2
  <2>3. Multiplies(Product(q, S), q, S) /\ Multiplies(Product(q, T), q, T)
    BY <2>1, ProductExists
  <2>4. Product(q, S)[S] = Product(q, S)[T] * q[k + 1]
    BY <2>1, <2>2, <2>3 DEF Multiplies
  <2>5. Product(q, S)[T] = Product(q, T)[T]
    <3> DEFINE g == Product(q, S)
               f == Product(q, T)
    <3>1. ArePlaces(S) /\ T \subseteq S /\ Multiplies(g, q, S) /\ Multiplies(f, q, T)
      BY <2>1, <2>3 DEF ArePlaces
    <3> HIDE DEF g, f
    <3>2. g[T] = f[T]
      BY <3>1, ProductIsUnique
    <3> QED BY <3>2 DEF g, f
  <2> QED BY <2>4, <2>5 DEF Through, S, T
<1> QED BY <1>1, <1>2

\* A shape of extents, all positive.
Extents == Nat \ {0}

\* A scalar has one element; a tensor has those of its first layer, that many times.
LEMMA ElementsOfLayers ==
  /\ State!Elements(<<>>) = 1
  /\ \A q \in Seq(Extents) : State!Elements(q) \in Extents
  /\ \A q \in Seq(Extents) : q # <<>> => State!Elements(q) = Head(q) * State!Elements(Tail(q))
<1>1. \A q \in Seq(Extents) : State!Elements(q) = Through(q, Len(q))
  <2> SUFFICES ASSUME NEW q \in Seq(Extents) PROVE State!Elements(q) = Through(q, Len(q))
    OBVIOUS
  <2>1. DOMAIN q = 1 .. Len(q)
    OBVIOUS
  <2> QED BY <2>1, ElementsIsTheProduct DEF Through
<1>2. State!Elements(<<>>) = 1
  <2>1. <<>> \in Seq(Extents) /\ Len(<<>>) = 0
    OBVIOUS
  <2>2. Through(<<>>, 0) = 1
    BY ThroughGrows
  <2> QED BY <1>1, <2>1, <2>2
<1>3. ASSUME NEW q \in Seq(Extents), NEW n \in Nat, n =< Len(q) PROVE Through(q, n) \in Extents
  <2> DEFINE bad == {k \in Nat : k =< Len(q) /\ Through(q, k) \notin Extents}
  <2>1. ASSUME bad # {} PROVE FALSE
    <3>1. PICK k \in bad : \A l \in bad : k =< l
      <4>1. bad \in SUBSET Nat OBVIOUS
      <4> HIDE DEF bad
      <4> QED BY <2>1, <4>1, LeastOfNaturals
    <3>2. k # 0
      BY ThroughGrows DEF Extents
    <3>3. k - 1 \in Nat /\ k - 1 < k /\ k - 1 =< Len(q) /\ k \in 1 .. Len(q) /\ (k - 1) + 1 = k
      BY <3>2
    <3>4. Through(q, k - 1) \in Extents
      BY <3>1, <3>3
    <3>5. q[k] \in Extents
      BY <3>3
    <3>6. Through(q, k) = Through(q, k - 1) * q[k]
      BY <3>3, ThroughGrows
    <3>7. \A x, y \in Extents : x * y \in Extents
      BY DEF Extents
    <3> QED BY <3>4, <3>5, <3>6, <3>7
  <2> QED BY <1>3, <2>1
<1>4. ASSUME NEW q \in Seq(Extents), q # <<>> PROVE State!Elements(q) = Head(q) * State!Elements(Tail(q))
  <2> DEFINE t == Tail(q)
             bad == {k \in Nat : k + 1 =< Len(q) /\ Through(q, k + 1) # q[1] * Through(t, k)}
  <2>1. /\ t \in Seq(Extents) /\ Len(t) = Len(q) - 1 /\ Len(q) \in Nat /\ Len(q) # 0 /\ Head(q) = q[1]
        /\ q[1] \in Extents /\ \A k \in 1 .. Len(q) - 1 : t[k] = q[k + 1] /\ t[k] \in Extents
    <3>1. Len(q) \in Nat /\ Len(q) # 0 /\ Head(q) = q[1] /\ q[1] \in Extents
      BY <1>4
    <3>2. t \in Seq(Extents) /\ Len(t) = Len(q) - 1 /\ \A k \in 1 .. Len(q) - 1 : t[k] = q[k + 1]
      BY <1>4, HeadTailProperties
    <3>3. \A k \in 1 .. Len(t) : t[k] \in Extents
      <4> HIDE DEF t
      <4> QED BY <3>2
    <3> HIDE DEF t
    <3> QED BY <3>1, <3>2, <3>3
  <2> HIDE DEF t
  <2>2. ASSUME bad # {} PROVE FALSE
    <3>1. PICK k \in bad : \A l \in bad : k =< l
      <4>1. bad \in SUBSET Nat OBVIOUS
      <4> HIDE DEF bad
      <4> QED BY <2>2, <4>1, LeastOfNaturals
    <3>2. k # 0
      <4>1. 0 \in Nat /\ 0 + 1 = 1 OBVIOUS
      <4>2. Through(q, 1) = 1 * q[1] BY <4>1, ThroughGrows
      <4>3. Through(t, 0) = 1 BY ThroughGrows
      <4>4. 1 * q[1] = q[1] * 1 BY <2>1 DEF Extents
      <4>5. ASSUME k = 0 PROVE FALSE
        BY <4>1, <4>2, <4>3, <4>4, <4>5
      <4> QED BY <4>5
    <3>3. k - 1 \in Nat /\ k \in Nat /\ (k - 1) + 1 = k /\ k =< Len(q) /\ k - 1 < k /\ k \in 1 .. Len(q) - 1 /\ k =< Len(t)
      BY <2>1, <3>2
    <3>4. Through(q, k) = q[1] * Through(t, k - 1)
      BY <3>1, <3>3
    <3>5. Through(q, k + 1) = Through(q, k) * q[k + 1]
      BY <3>3, ThroughGrows
    <3>6. Through(t, k) = Through(t, k - 1) * t[k]
      BY <3>3, ThroughGrows
    <3>7. Through(t, k - 1) \in Extents /\ t[k] \in Extents /\ q[k + 1] = t[k]
      BY <1>3, <2>1, <3>3
    <3>8. \A x, y, z \in Extents : (x * y) * z = x * (y * z)
      BY DEF Extents
    <3> QED BY <2>1, <3>4, <3>5, <3>6, <3>7, <3>8
  <2>3. Len(q) - 1 \in Nat /\ (Len(q) - 1) + 1 = Len(q) /\ Len(q) - 1 = Len(t)
    BY <2>1
  <2>4. Through(q, Len(q)) = q[1] * Through(t, Len(t))
    BY <2>2, <2>3
  <2> QED BY <1>1, <2>1, <2>4 DEF t
<1>5. ASSUME NEW q \in Seq(Extents) PROVE State!Elements(q) \in Extents
  BY <1>1, <1>3
<1> QED BY <1>2, <1>4, <1>5

-----------------------------------------------------------------------------
(* The inductive invariant of the versions.  A state is of a version; a layer  *)
(* of it shares the version and lies within its window.  Versions of windows   *)
(* that overlap are numbered in the order of the nodes that made them, since   *)
(* only what is not stale is written; so the number alone tells which came     *)
(* later, although each window is numbered on its own.                         *)

WindowRec == [off : Nat, count : Extents]
StateRec == [off : Nat, shape : Seq(Extents), version : Nat, producer : Nat]
OperandRec == [node : Nat, win : WindowRec]
NodeRec == [op : {"ScatterRows", "LinearAttention", "Attention", "Operator"},
            reads : SUBSET OperandRec, out : SUBSET WindowRec, writes : SUBSET WindowRec]

Within(w, v) == v.off =< w.off /\ w.off + w.count =< v.off + v.count
Extent == [off |-> 0, count |-> State!Elements(Shape)]

VersionsTyped ==
  /\ versions \subseteq StateRec /\ nodes \in Seq(NodeRec) /\ tensors \subseteq OperandRec
  /\ DOMAIN stateVersion \subseteq WindowRec /\ \A w \in DOMAIN stateVersion : stateVersion[w] \in Nat

\* A version is what its producer wrote, within the extent of the state.
VersionsAreWritten ==
  \A v \in versions :
    /\ Within(State!Window(v), Extent)
    /\ v.version =< v.producer /\ v.producer =< Len(nodes)
    /\ v.producer # 0 => nodes[v.producer].writes = {State!Window(v)}

\* A node makes one version, and numbers follow nodes where windows overlap.
VersionsFollow ==
  \A u, v \in versions :
    /\ u.producer = v.producer => u = v
    /\ u.producer < v.producer /\ State!Overlap(State!Window(u), State!Window(v)) => u.version < v.version

\* What is noted of a window is the latest version written to exactly it.
VersionsAreNoted ==
  /\ \A w \in DOMAIN stateVersion :
       \E v \in versions : v.producer # 0 /\ State!Window(v) = w /\ v.version = stateVersion[w]
  /\ \A v \in versions : v.producer # 0 =>
       State!Window(v) \in DOMAIN stateVersion /\ v.version =< stateVersion[State!Window(v)]

\* Every write made a version.
WritesMakeVersions ==
  \A m \in 1 .. Len(nodes) : \A w \in nodes[m].writes :
    \E v \in versions : v.producer = m /\ State!Window(v) = w

\* No node in between writes over the window.
Untouched(n, p, win) == \A m \in p + 1 .. n - 1 : \A w \in nodes[m].writes : ~State!Overlap(w, win)

\* An operand lies within what its producer wrote, which came before.
Follows(r, n) ==
  /\ r.node < n /\ Within(r.win, Extent)
  /\ r.node # 0 => \E w \in nodes[r.node].writes : Within(r.win, w)

OperandsFollow ==
  /\ \A r \in tensors : Follows(r, Len(nodes) + 1)
  /\ \A n \in 1 .. Len(nodes) :
       /\ \A r \in nodes[n].reads : /\ Follows(r, n)
                                    /\ nodes[n].op # "Operator" => Untouched(n, r.node, r.win)
       /\ \A w \in nodes[n].writes : w \in nodes[n].out \/ \E r \in nodes[n].reads : r.win = w

VInv ==
  /\ VersionsTyped /\ VersionsAreWritten /\ VersionsFollow /\ VersionsAreNoted /\ WritesMakeVersions
  /\ OperandsFollow

\* What a caller can hold of version v: v, a layer of it, a layer of a layer.
PartOf(s, v) ==
  /\ s \in StateRec /\ s.version = v.version /\ s.producer = v.producer
  /\ Within(State!Window(s), State!Window(v))

LEMMA WindowsAreTyped ==
  ASSUME NEW s \in StateRec
  PROVE  /\ State!Window(s) \in WindowRec /\ State!Window(s).off = s.off
         /\ State!Window(s).count = State!Elements(s.shape)
<1>1. State!Elements(s.shape) \in Extents
  BY ElementsOfLayers DEF StateRec
<1> HIDE DEF Extents
<1> QED BY <1>1 DEF State!Window, WindowRec, StateRec

\* A layer is within the state.
LEMMA LayersAreWithin ==
  ASSUME NEW s \in StateRec, s.shape # <<>>, NEW i \in 0 .. Head(s.shape) - 1
  PROVE  /\ State!LayerState(s, i) \in StateRec
         /\ State!LayerState(s, i).version = s.version /\ State!LayerState(s, i).producer = s.producer
         /\ Within(State!Window(State!LayerState(s, i)), State!Window(s))
<1> DEFINE l == State!LayerState(s, i)
           e == State!Elements(Tail(s.shape))
           c == State!Elements(s.shape)
           h == Head(s.shape)
<1>1. s.shape \in Seq(Extents) /\ Tail(s.shape) \in Seq(Extents) /\ h \in Extents /\ s.off \in Nat
      /\ s.version \in Nat /\ s.producer \in Nat
  <2>1. s.shape \in Seq(Extents) BY DEF StateRec
  <2>2. Tail(s.shape) \in Seq(Extents) /\ h \in Extents
    BY <2>1, HeadTailProperties
  <2> QED BY <2>1, <2>2 DEF StateRec
<1>2. e \in Extents /\ c = h * e /\ c \in Extents
  BY <1>1, ElementsOfLayers
<1>3. l = [off |-> s.off + i * e, shape |-> Tail(s.shape), version |-> s.version, producer |-> s.producer]
  <2>1. s = [off |-> s.off, shape |-> s.shape, version |-> s.version, producer |-> s.producer]
    BY DEF StateRec
  <2>2. State!LayerState(s, i) = [[s EXCEPT !.shape = Tail(s.shape)] EXCEPT !.off = s.off + i * e]
    BY <2>1 DEF State!LayerState
  <2> HIDE DEF e
  <2> QED BY <2>1, <2>2
<1>4. i * e \in Nat /\ i * e + e =< c
  <2> HIDE DEF e, c, h
  <2>1. i \in Nat /\ e \in Nat /\ h \in Nat /\ i + 1 =< h
    BY <1>1, <1>2 DEF h, Extents
  <2>2. PICK k \in Nat : h = i + 1 + k
    <3>1. h - (i + 1) \in Nat /\ h = i + 1 + (h - (i + 1)) BY <2>1
    <3> QED BY <3>1
  <2>3. (i + 1 + k) * e = i * e + e + k * e /\ k * e \in Nat /\ i * e \in Nat
    BY <2>1
  <2>4. c = i * e + e + k * e
    BY <1>2, <2>2, <2>3
  <2> QED BY <2>1, <2>3, <2>4
<1>5. l \in StateRec
  <2> HIDE DEF e, c, h
  <2>1. s.off + i * e \in Nat BY <1>1, <1>4
  <2> HIDE DEF l
  <2> QED BY <1>1, <1>3, <2>1 DEF StateRec
<1>6. /\ State!Window(l).off = s.off + i * e /\ State!Window(l).count = e
      /\ State!Window(s).off = s.off /\ State!Window(s).count = c
  <2>1. l.off = s.off + i * e /\ l.shape = Tail(s.shape) BY <1>3
  <2> HIDE DEF l
  <2> QED BY <1>5, <2>1, WindowsAreTyped
<1>7. Within(State!Window(l), State!Window(s))
  <2> HIDE DEF e, c, h, l
  <2>1. c \in Nat /\ e \in Nat BY <1>2 DEF Extents
  <2> QED BY <1>1, <1>4, <1>6, <2>1 DEF Within
<1> QED BY <1>3, <1>5, <1>7

\* The layers, one level after the other.
LayersOf(s) == IF s.shape = <<>> THEN {} ELSE {State!LayerState(s, i) : i \in 0 .. Head(s.shape) - 1}
Deepens(g, n) ==
  g = [d \in 0 .. n |-> IF d = 0 THEN versions ELSE g[d - 1] \union UNION {LayersOf(s) : s \in g[d - 1]}]

LEMMA HandlesAreLayers == State!Handles = (CHOOSE g : Deepens(g, Len(Shape)))[Len(Shape)]
BY DEF State!Handles, Deepens, LayersOf

LEMMA LevelsExist ==
  ASSUME NEW n \in Nat
  PROVE  \E g : Deepens(g, n)
<1> DEFINE bad == {k \in Nat : \A g : ~Deepens(g, k)}
<1>1. ASSUME bad # {} PROVE FALSE
  <2>1. PICK k \in bad : \A l \in bad : k =< l
    <3>1. bad \in SUBSET Nat OBVIOUS
    <3> HIDE DEF bad
    <3> QED BY <1>1, <3>1, LeastOfNaturals
  <2>2. k # 0
    <3> DEFINE g == [d \in 0 .. 0 |-> versions]
    <3>1. Deepens(g, 0) BY DEF Deepens
    <3> HIDE DEF g
    <3> QED BY <3>1
  <2>3. k - 1 \in Nat /\ k - 1 \notin bad
    BY <2>1, <2>2
  <2>4. PICK g : Deepens(g, k - 1)
    BY <2>3
  <2> DEFINE h == [d \in 0 .. k |-> IF d = k THEN g[k - 1] \union UNION {LayersOf(s) : s \in g[k - 1]} ELSE g[d]]
  <2>5. Deepens(h, k)
    <3>1. \A d \in 0 .. k : h[d] = IF d = 0 THEN versions ELSE h[d - 1] \union UNION {LayersOf(s) : s \in h[d - 1]}
      <4> SUFFICES ASSUME NEW d \in 0 .. k
                   PROVE  h[d] = IF d = 0 THEN versions ELSE h[d - 1] \union UNION {LayersOf(s) : s \in h[d - 1]}
        OBVIOUS
      <4>1. CASE d = k
        <5>1. d # 0 /\ k - 1 \in 0 .. k /\ k - 1 # k BY <2>2, <2>3, <4>1
        <5>2. h[k - 1] = g[k - 1] BY <5>1
        <5>3. h[d] = g[k - 1] \union UNION {LayersOf(s) : s \in g[k - 1]} BY <4>1
        <5> HIDE DEF h
        <5> QED BY <4>1, <5>1, <5>2, <5>3
      <4>2. CASE d # k
        <5>1. d \in 0 .. k - 1 /\ h[d] = g[d] BY <4>2
        <5>2. g[d] = IF d = 0 THEN versions ELSE g[d - 1] \union UNION {LayersOf(s) : s \in g[d - 1]}
          BY <2>4, <5>1 DEF Deepens
        <5>3. d # 0 => h[d - 1] = g[d - 1]
          BY <5>1
        <5> HIDE DEF h
        <5> QED BY <5>1, <5>2, <5>3
      <4> QED BY <4>1, <4>2
    <3>2. h = [d \in 0 .. k |-> h[d]] OBVIOUS
    <3> HIDE DEF h
    <3> QED BY <3>1, <3>2 DEF Deepens
  <2> HIDE DEF h
  <2> QED BY <2>5
<1> QED BY <1>1

\* Every handle is part of a version.
LEMMA HandlesAreParts ==
  ASSUME VersionsTyped, State!StateAssumption, NEW s \in State!Handles
  PROVE  \E v \in versions : PartOf(s, v)
<1> DEFINE N == Len(Shape)
           g == CHOOSE f : Deepens(f, N)
           bad == {d \in 0 .. N : \E x \in g[d] : \A v \in versions : ~PartOf(x, v)}
<1>0. N \in Nat
  BY DEF State!StateAssumption
<1>1. s \in g[N] /\ Deepens(g, N)
  BY <1>0, HandlesAreLayers, LevelsExist
<1> HIDE DEF g, N
<1>2. ASSUME bad # {} PROVE FALSE
  <2>1. PICK d \in bad : \A e \in bad : d =< e
    <3>1. bad \in SUBSET Nat BY <1>0
    <3> HIDE DEF bad
    <3> QED BY <1>2, <3>1, LeastOfNaturals
  <2>2. PICK x \in g[d] : \A v \in versions : ~PartOf(x, v)
    BY <2>1
  <2>3. g[d] = IF d = 0 THEN versions ELSE g[d - 1] \union UNION {LayersOf(y) : y \in g[d - 1]}
    BY <1>1, <2>1 DEF Deepens
  <2>4. CASE d = 0
    <3>1. x \in versions /\ x \in StateRec
      BY <2>2, <2>3, <2>4 DEF VersionsTyped
    <3>2. PartOf(x, x)
      <4>1. State!Window(x) \in WindowRec BY <3>1, WindowsAreTyped
      <4>2. Within(State!Window(x), State!Window(x)) BY <4>1 DEF Within, WindowRec, Extents
      <4> QED BY <3>1, <4>2 DEF PartOf
    <3> QED BY <2>2, <3>1, <3>2
  <2>5. CASE d # 0
    <3>1. d - 1 \in 0 .. N /\ d - 1 \notin bad
      BY <1>0, <2>1, <2>5
    <3>2. \A y \in g[d - 1] : \E v \in versions : PartOf(y, v)
      BY <3>1
    <3>3. PICK y \in g[d - 1] : x \in LayersOf(y)
      BY <2>2, <2>3, <2>5, <3>2
    <3>4. PICK v \in versions : PartOf(y, v)
      BY <3>2
    <3>5. y \in StateRec /\ v \in StateRec
      BY <3>4 DEF PartOf, VersionsTyped
    <3>6. PICK i \in 0 .. Head(y.shape) - 1 : y.shape # <<>> /\ x = State!LayerState(y, i)
      BY <3>3 DEF LayersOf
    <3>7. /\ x \in StateRec /\ x.version = y.version /\ x.producer = y.producer
          /\ Within(State!Window(x), State!Window(y))
      BY <3>5, <3>6, LayersAreWithin
    <3>8. State!Window(x) \in WindowRec /\ State!Window(y) \in WindowRec /\ State!Window(v) \in WindowRec
      BY <3>5, <3>7, WindowsAreTyped
    <3>9. Within(State!Window(x), State!Window(v))
      BY <3>4, <3>7, <3>8 DEF PartOf, Within, WindowRec, Extents
    <3> QED BY <2>2, <3>4, <3>7, <3>9 DEF PartOf
  <2> QED BY <2>4, <2>5
<1>3. N \in 0 .. N
  BY <1>0
<1> QED BY <1>1, <1>2, <1>3

-----------------------------------------------------------------------------
(* What staleness and contents are.                                           *)

LEMMA PartsOverlap ==
  ASSUME NEW w \in WindowRec, NEW x \in WindowRec, NEW y \in WindowRec, Within(x, y), State!Overlap(w, x)
  PROVE  State!Overlap(w, y) /\ State!Overlap(y, w)
BY DEF Within, State!Overlap, WindowRec, Extents

LEMMA WithinOverlaps ==
  ASSUME NEW x \in WindowRec, NEW y \in WindowRec, Within(x, y)
  PROVE  State!Overlap(x, y) /\ State!Overlap(y, x)
BY DEF Within, State!Overlap, WindowRec, Extents

\* A version is not above what it is noted as, nor above its producer.
LEMMA NotedVersions ==
  ASSUME VInv, NEW w \in DOMAIN stateVersion
  PROVE  /\ w \in WindowRec /\ stateVersion[w] \in 0 .. Len(nodes)
         /\ \E v \in versions : v.producer # 0 /\ State!Window(v) = w /\ v.version = stateVersion[w]
<1>1. PICK v \in versions : v.producer # 0 /\ State!Window(v) = w /\ v.version = stateVersion[w]
  BY DEF VInv, VersionsAreNoted
<1>2. v.version \in Nat /\ v.producer \in Nat /\ v.version =< v.producer /\ v.producer =< Len(nodes) /\ w \in WindowRec
      /\ Len(nodes) \in Nat
  <2>1. v \in StateRec /\ w \in WindowRec /\ nodes \in Seq(NodeRec)
    BY DEF VInv, VersionsTyped
  <2>2. v.version =< v.producer /\ v.producer =< Len(nodes)
    BY DEF VInv, VersionsAreWritten
  <2>3. v.version \in Nat /\ v.producer \in Nat
    BY <2>1 DEF StateRec
  <2>4. Len(nodes) \in Nat
    BY <2>1
  <2> QED BY <2>1, <2>2, <2>3, <2>4
<1> QED BY <1>1, <1>2

\* Stale is what a later version of an overlapping window supersedes.
LEMMA StaleIs ==
  ASSUME VInv, State!StateAssumption, NEW s \in State!Handles
  PROVE  /\ State!Stale(s) <=> \E u \in versions : s.producer < u.producer /\ State!Overlap(State!Window(u), State!Window(s))
         /\ ~State!Stale(s) =>
              \A w \in DOMAIN stateVersion : State!Overlap(w, State!Window(s)) => stateVersion[w] =< s.version
<1>0. VersionsTyped
  BY DEF VInv
<1>1. PICK v \in versions : PartOf(s, v)
  BY <1>0, HandlesAreParts
<1>2. s \in StateRec /\ v \in StateRec /\ State!Window(s) \in WindowRec /\ State!Window(v) \in WindowRec
  BY <1>0, <1>1, WindowsAreTyped DEF PartOf, VersionsTyped
<1>3. s.version = v.version /\ s.producer = v.producer /\ s.version \in Nat /\ s.producer \in Nat
  BY <1>1, <1>2 DEF PartOf, StateRec
<1>4. s.version =< Len(nodes) /\ Len(nodes) \in Nat
  <2>1. v.version =< v.producer /\ v.producer =< Len(nodes) /\ nodes \in Seq(NodeRec)
    BY DEF VInv, VersionsAreWritten, VersionsTyped
  <2>2. Len(nodes) \in Nat BY <2>1
  <2> QED BY <1>3, <2>1, <2>2
<1> DEFINE O == {w \in DOMAIN stateVersion : State!Overlap(w, State!Window(s))}
           S == {s.version} \union {stateVersion[w] : w \in O}
<1>5. S \in SUBSET (0 .. Len(nodes)) /\ S # {}
  <2>1. s.version \in 0 .. Len(nodes) BY <1>3, <1>4
  <2>2. \A w \in O : stateVersion[w] \in 0 .. Len(nodes) BY NotedVersions
  <2> HIDE DEF O
  <2> QED BY <2>1, <2>2
<1>6. State!SupersededBy(s) = Last(S)
  BY DEF State!SupersededBy, Last
<1>7. Last(S) \in S /\ \A x \in S : x =< Last(S)
  <2> HIDE DEF S
  <2> QED BY <1>4, <1>5, LastIs
<1>8. Last(S) \in Nat /\ \A w \in O : stateVersion[w] \in Nat
  <2>1. \A x \in S : x \in Nat BY <1>4, <1>5
  <2>2. \A w \in O : stateVersion[w] \in S OBVIOUS
  <2> HIDE DEF S, O
  <2> QED BY <1>7, <2>1, <2>2
<1>9. State!Stale(s) <=> \E w \in O : stateVersion[w] > s.version
  <2>1. State!Stale(s) <=> Last(S) > s.version
    BY <1>6 DEF State!Stale
  <2>2. ASSUME Last(S) > s.version PROVE \E w \in O : stateVersion[w] > s.version
    <3>1. Last(S) # s.version BY <1>3, <1>8, <2>2
    <3>2. PICK w \in O : Last(S) = stateVersion[w]
      <4>1. Last(S) \in {stateVersion[w] : w \in O} BY <1>7, <3>1
      <4> HIDE DEF S, O
      <4> QED BY <4>1
    <3> QED BY <2>2, <3>2
  <2>3. ASSUME NEW w \in O, stateVersion[w] > s.version PROVE Last(S) > s.version
    <3>1. stateVersion[w] =< Last(S)
      BY <1>7
    <3> HIDE DEF S, O
    <3> QED BY <1>3, <1>8, <2>3, <3>1
  <2> QED BY <2>1, <2>2, <2>3
<1>10. ASSUME NEW w \in O, stateVersion[w] > s.version
       PROVE  \E u \in versions : s.producer < u.producer /\ State!Overlap(State!Window(u), State!Window(s))
  <2>1. PICK u \in versions : u.producer # 0 /\ State!Window(u) = w /\ u.version = stateVersion[w]
    BY NotedVersions
  <2>2. u.version > v.version /\ u \in StateRec /\ u.version \in Nat /\ v.version \in Nat /\ u.producer \in Nat /\ v.producer \in Nat
    BY <1>0, <1>2, <1>3, <1>10, <2>1 DEF VersionsTyped, StateRec
  <2>3. State!Overlap(State!Window(u), State!Window(s)) /\ State!Window(u) \in WindowRec
    BY <2>1, <2>2, WindowsAreTyped
  <2>4. State!Overlap(State!Window(u), State!Window(v))
    BY <1>1, <1>2, <2>3, PartsOverlap DEF PartOf
  <2>5. u.producer # v.producer
    <3>1. u.producer = v.producer => u = v BY DEF VInv, VersionsFollow
    <3> QED BY <2>2, <3>1
  <2>6. ~(u.producer < v.producer)
    <3>1. u.producer < v.producer => u.version < v.version BY <2>4 DEF VInv, VersionsFollow
    <3> QED BY <2>2, <3>1
  <2> QED BY <1>3, <2>2, <2>3, <2>5, <2>6
<1>11. ASSUME NEW u \in versions, s.producer < u.producer, State!Overlap(State!Window(u), State!Window(s))
       PROVE  \E w \in O : stateVersion[w] > s.version
  <2>1. u \in StateRec /\ u.producer \in Nat /\ u.version \in Nat /\ State!Window(u) \in WindowRec
    BY <1>0, WindowsAreTyped DEF VersionsTyped, StateRec
  <2>2. u.producer # 0
    BY <1>3, <1>11, <2>1
  <2>3. State!Window(u) \in O /\ u.version =< stateVersion[State!Window(u)]
    BY <1>11, <2>2 DEF VInv, VersionsAreNoted
  <2>4. State!Overlap(State!Window(v), State!Window(u))
    BY <1>1, <1>2, <1>11, <2>1, PartsOverlap DEF PartOf
  <2>5. v.version < u.version
    BY <1>3, <1>11, <2>4 DEF VInv, VersionsFollow
  <2>6. stateVersion[State!Window(u)] \in Nat
    BY <1>8, <2>3
  <2>7. stateVersion[State!Window(u)] > s.version
    BY <1>3, <2>1, <2>3, <2>5, <2>6
  <2> QED BY <2>3, <2>7
<1>12. ASSUME ~State!Stale(s), NEW w \in DOMAIN stateVersion, State!Overlap(w, State!Window(s))
       PROVE  stateVersion[w] =< s.version
  <2>1. w \in O BY <1>12
  <2>2. ~(stateVersion[w] > s.version) BY <1>9, <1>12, <2>1
  <2> QED BY <1>3, <1>8, <2>1, <2>2
<1> QED BY <1>9, <1>10, <1>11, <1>12

\* A window holds what it held after node p if no node since wrote over it.
LEMMA HoldsIs ==
  ASSUME VInv, State!StateAssumption, NEW n \in Nat, n =< Len(nodes) + 1, NEW p \in Nat, p < n,
         NEW win \in WindowRec, Within(win, Extent)
  PROVE  State!Holds(n, p, win) <=> Untouched(n, p, win)
<1> DEFINE E == 0 .. State!Elements(Shape) - 1
           A(k, e) == {0} \union {m \in 1 .. k - 1 : \E w \in nodes[m].writes : e \in w.off .. w.off + w.count - 1}
<1>1. \A k : State!Contents(k) = [e \in E |-> Last(A(k, e))]
  BY DEF State!Contents, Last
<1>2. \A e \in win.off .. win.off + win.count - 1 : e \in E
  <2>1. win.off \in Nat /\ win.count \in Nat BY DEF WindowRec, Extents
  <2>2. 0 =< win.off /\ win.off + win.count =< 0 + State!Elements(Shape)
    BY DEF Within, Extent
  <2>3. State!Elements(Shape) \in Nat
    BY ElementsOfLayers DEF State!StateAssumption, Extents
  <2> QED BY <2>1, <2>2, <2>3
<1>3. Len(nodes) \in Nat /\ \A m \in 1 .. Len(nodes) : nodes[m].writes \subseteq WindowRec
  <2>1. nodes \in Seq(NodeRec) BY DEF VInv, VersionsTyped
  <2>2. Len(nodes) \in Nat /\ \A m \in 1 .. Len(nodes) : nodes[m] \in NodeRec BY <2>1
  <2> QED BY <2>2 DEF NodeRec
<1>4. ASSUME NEW k \in Nat, k >= 1, NEW e
      PROVE  /\ Last(A(k, e)) \in A(k, e) /\ \A x \in A(k, e) : x =< Last(A(k, e))
             /\ A(k, e) \in SUBSET (0 .. k - 1)
  <2>1. k - 1 \in Nat /\ A(k, e) \in SUBSET (0 .. k - 1) /\ A(k, e) # {}
    BY <1>4
  <2> HIDE DEF A
  <2> QED BY <2>1, LastIs
<1>5. State!Holds(n, p, win) <=> \A e \in win.off .. win.off + win.count - 1 : Last(A(n, e)) = Last(A(p + 1, e))
  <2> HIDE DEF A, E
  <2> QED BY <1>1, <1>2 DEF State!Holds
<1>6. ASSUME Untouched(n, p, win), NEW e \in win.off .. win.off + win.count - 1 PROVE A(n, e) = A(p + 1, e)
  <2>1. ASSUME NEW m \in 1 .. n - 1, NEW w \in nodes[m].writes, e \in w.off .. w.off + w.count - 1 PROVE m =< p
    <3>1. w \in WindowRec BY <1>3
    <3>2. State!Overlap(w, win) BY <2>1, <3>1 DEF State!Overlap, WindowRec, Extents
    <3>3. m \notin p + 1 .. n - 1 BY <1>6, <3>2 DEF Untouched
    <3> QED BY <3>3
  <2>2. \A m \in 1 .. n - 1 : m =< p => m \in 1 .. (p + 1) - 1
    OBVIOUS
  <2>3. \A m \in 1 .. (p + 1) - 1 : m \in 1 .. n - 1
    OBVIOUS
  <2> QED BY <2>1, <2>2, <2>3
<1>7. ASSUME NEW m \in p + 1 .. n - 1, NEW w \in nodes[m].writes, State!Overlap(w, win)
      PROVE  \E e \in win.off .. win.off + win.count - 1 : Last(A(n, e)) # Last(A(p + 1, e))
  <2>1. w \in WindowRec /\ m \in 1 .. n - 1 BY <1>3
  <2> DEFINE e == IF w.off =< win.off THEN win.off ELSE w.off
  <2>2. e \in win.off .. win.off + win.count - 1 /\ e \in w.off .. w.off + w.count - 1
    BY <1>7, <2>1 DEF State!Overlap, WindowRec, Extents
  <2>3. m \in A(n, e) BY <2>1, <2>2
  <2> HIDE DEF e, A
  <2>4. m =< Last(A(n, e)) BY <1>4, <2>3
  <2>5. Last(A(p + 1, e)) \in 0 .. (p + 1) - 1
    <3>1. p + 1 \in Nat /\ p + 1 >= 1 OBVIOUS
    <3> QED BY <1>4, <3>1
  <2>6. Last(A(n, e)) # Last(A(p + 1, e)) BY <2>4, <2>5
  <2> QED BY <2>2, <2>6
<1> HIDE DEF A
<1> QED BY <1>5, <1>6, <1>7 DEF Untouched

\* A handle's own window, and what may overlap it.
LEMMA HandleFits ==
  ASSUME VInv, State!StateAssumption, NEW s \in State!Handles
  PROVE  /\ s \in StateRec /\ State!Window(s) \in WindowRec /\ Within(State!Window(s), Extent)
         /\ s.producer =< Len(nodes) /\ s.version =< s.producer
         /\ Follows(State!Operand(s), Len(nodes) + 1)
         /\ State!Operand(s) \in OperandRec /\ State!Operand(s).node = s.producer /\ State!Operand(s).win = State!Window(s)
         /\ Len(nodes) \in Nat /\ s.producer \in Nat /\ s.version \in Nat
<1>0. VersionsTyped
  BY DEF VInv
<1>1. PICK v \in versions : PartOf(s, v)
  BY <1>0, HandlesAreParts
<1>2. s \in StateRec /\ v \in StateRec /\ State!Window(s) \in WindowRec /\ State!Window(v) \in WindowRec
  BY <1>0, <1>1, WindowsAreTyped DEF PartOf, VersionsTyped
<1>3. /\ v.version =< v.producer /\ v.producer =< Len(nodes) /\ Within(State!Window(v), Extent)
      /\ v.producer # 0 => nodes[v.producer].writes = {State!Window(v)}
  BY DEF VInv, VersionsAreWritten
<1>4. s.version = v.version /\ s.producer = v.producer /\ Within(State!Window(s), State!Window(v)) /\ s.producer \in Nat
      /\ s.version \in Nat
  BY <1>1, <1>2 DEF PartOf, StateRec
<1>5. Len(nodes) \in Nat
  <2>1. nodes \in Seq(NodeRec) BY <1>0 DEF VersionsTyped
  <2> QED BY <2>1
<1>6. Within(State!Window(s), Extent)
  <2> DEFINE c == State!Elements(Shape)
  <2>1. c \in Nat
    BY ElementsOfLayers DEF State!StateAssumption, Extents
  <2> HIDE DEF c
  <2> QED BY <1>2, <1>3, <1>4, <2>1 DEF Within, WindowRec, Extents, Extent, c
<1>7. State!Operand(s).node = s.producer /\ State!Operand(s).win = State!Window(s) /\ State!Operand(s) \in OperandRec
  BY <1>2, <1>4 DEF State!Operand, OperandRec
<1>8. Follows(State!Operand(s), Len(nodes) + 1)
  <2>1. s.producer # 0 => \E w \in nodes[s.producer].writes : Within(State!Window(s), w)
    BY <1>3, <1>4
  <2> HIDE DEF State!Operand
  <2> QED BY <1>3, <1>4, <1>5, <1>6, <1>7, <2>1 DEF Follows
<1> QED BY <1>2, <1>3, <1>4, <1>5, <1>6, <1>7, <1>8

\* A version is stale exactly when its window was written over since.
LEMMA StaleTells ==
  ASSUME VInv, State!StateAssumption, NEW s \in State!Handles
  PROVE  State!Stale(s) <=> ~Untouched(Len(nodes) + 1, s.producer, State!Window(s))
<1>0. /\ s.producer \in Nat /\ Len(nodes) \in Nat /\ State!Window(s) \in WindowRec
  BY HandleFits
<1>1. ASSUME NEW u \in versions, s.producer < u.producer, State!Overlap(State!Window(u), State!Window(s))
      PROVE  ~Untouched(Len(nodes) + 1, s.producer, State!Window(s))
  <2>1. u.producer \in Nat /\ u.producer =< Len(nodes) /\ u.producer # 0
    BY <1>0, <1>1 DEF VInv, VersionsTyped, VersionsAreWritten, StateRec
  <2>2. nodes[u.producer].writes = {State!Window(u)}
    BY <2>1 DEF VInv, VersionsAreWritten
  <2>3. u.producer \in s.producer + 1 .. (Len(nodes) + 1) - 1
    BY <1>0, <1>1, <2>1
  <2> QED BY <1>1, <2>2, <2>3 DEF Untouched
<1>2. ASSUME NEW m \in s.producer + 1 .. (Len(nodes) + 1) - 1, NEW w \in nodes[m].writes, State!Overlap(w, State!Window(s))
      PROVE  \E u \in versions : s.producer < u.producer /\ State!Overlap(State!Window(u), State!Window(s))
  <2>1. m \in 1 .. Len(nodes) /\ s.producer < m
    BY <1>0
  <2>2. PICK u \in versions : u.producer = m /\ State!Window(u) = w
    BY <2>1 DEF VInv, WritesMakeVersions
  <2> QED BY <1>2, <2>1, <2>2
<1> QED BY <1>1, <1>2, StaleIs DEF Untouched

-----------------------------------------------------------------------------
(* The steps.                                                                  *)

LEMMA VersionsStart ==
  ASSUME State!StateAssumption, State!Init
  PROVE  VInv
<1> DEFINE v == [off |-> 0, shape |-> Shape, version |-> 0, producer |-> 0]
<1>1. versions = {v} /\ stateVersion = <<>> /\ nodes = <<>> /\ tensors = {}
  BY DEF State!Init
<1>2. /\ v \in StateRec /\ v.off = 0 /\ v.shape = Shape /\ v.version = 0 /\ v.producer = 0
  BY DEF StateRec, State!StateAssumption, Extents
<1> HIDE DEF v
<1>3. State!Window(v) = Extent /\ State!Window(v) \in WindowRec
  BY <1>2, WindowsAreTyped DEF State!Window, Extent
<1>4. Len(nodes) = 0 /\ nodes \in Seq(NodeRec) /\ DOMAIN stateVersion = {}
  BY <1>1
<1>5. Within(Extent, Extent)
  BY <1>3 DEF Within, WindowRec, Extents
<1>6. VersionsTyped /\ VersionsAreWritten
  BY <1>1, <1>2, <1>3, <1>4, <1>5 DEF VersionsTyped, VersionsAreWritten
<1>7. VersionsFollow /\ VersionsAreNoted /\ WritesMakeVersions /\ OperandsFollow
  BY <1>1, <1>2, <1>4 DEF VersionsFollow, VersionsAreNoted, WritesMakeVersions, OperandsFollow
<1> QED BY <1>6, <1>7 DEF VInv

\* A node more: what stood of the others stands.
LEMMA NodesGrow ==
  ASSUME NEW S, NEW q \in Seq(S), NEW x \in S
  PROVE  /\ Append(q, x) \in Seq(S) /\ Len(Append(q, x)) = Len(q) + 1 /\ Len(q) \in Nat
         /\ Append(q, x)[Len(q) + 1] = x
         /\ \A m \in 1 .. Len(q) : Append(q, x)[m] = q[m]
OBVIOUS

Grown(x) ==
  /\ nodes' \in Seq(NodeRec) /\ Len(nodes') = Len(nodes) + 1 /\ Len(nodes) \in Nat
  /\ nodes'[Len(nodes) + 1] = x
  /\ \A m \in 1 .. Len(nodes) : nodes'[m] = nodes[m]

LEMMA OperandsStay ==
  ASSUME VInv, tensors' = tensors, NEW x \in NodeRec, Grown(x),
         \A r \in x.reads : Follows(r, Len(nodes) + 1) /\ (x.op # "Operator" => Untouched(Len(nodes) + 1, r.node, r.win)),
         \A w \in x.writes : w \in x.out \/ \E r \in x.reads : r.win = w
  PROVE  OperandsFollow'
<1>a. PICK L \in Nat : L = Len(nodes)
  BY DEF Grown
<1>0. /\ L \in Nat /\ Len(nodes') = L + 1 /\ nodes'[L + 1] = x /\ \A m \in 1 .. L : nodes'[m] = nodes[m]
      /\ nodes \in Seq(NodeRec) /\ tensors \subseteq OperandRec
  BY <1>a DEF Grown, VInv, VersionsTyped
<1>1. ASSUME NEW n \in Nat, n =< L + 1, NEW r \in OperandRec, Follows(r, n)
      PROVE  Follows(r, n)' /\ (n =< L => Follows(r, L + 1)) /\ Follows(r, L + 2)'
  <2>1. r.node \in Nat /\ r.node < n /\ Within(r.win, Extent) /\ (r.node # 0 => r.node \in 1 .. L)
    BY <1>0, <1>1 DEF Follows, OperandRec
  <2>2. r.node # 0 => \E w \in nodes[r.node].writes : Within(r.win, w)
    BY <1>1 DEF Follows
  <2>3. r.node # 0 => \E w \in nodes'[r.node].writes : Within(r.win, w)
    BY <1>0, <2>1, <2>2
  <2>4. r.node < L + 1 /\ r.node < L + 2
    BY <1>0, <1>1, <2>1
  <2>5. Extent' = Extent
    BY DEF Extent
  <2> QED BY <2>1, <2>2, <2>3, <2>4, <2>5 DEF Follows
<1>2. ASSUME NEW n \in Nat, n =< L + 1, NEW r \in OperandRec, Untouched(n, r.node, r.win) PROVE Untouched(n, r.node, r.win)'
  <2>1. \A m \in r.node + 1 .. n - 1 : m \in 1 .. L
    BY <1>0, <1>2 DEF OperandRec
  <2> QED BY <1>0, <1>2, <2>1 DEF Untouched
<1>3. ASSUME NEW r \in tensors PROVE Follows(r, L + 2)'
  <2>1. Follows(r, L + 1) /\ r \in OperandRec BY <1>0, <1>a DEF VInv, OperandsFollow
  <2>2. L + 1 \in Nat /\ L + 1 =< L + 1 BY <1>0
  <2> QED BY <1>1, <2>1, <2>2
<1>4. ASSUME NEW n \in 1 .. L + 1
      PROVE  /\ \A r \in nodes'[n].reads : Follows(r, n)' /\ (nodes'[n].op # "Operator" => Untouched(n, r.node, r.win)')
             /\ \A w \in nodes'[n].writes : w \in nodes'[n].out \/ \E r \in nodes'[n].reads : r.win = w
  <2>0. n \in Nat /\ n =< L + 1 BY <1>0
  <2>1. CASE n = L + 1
    <3>1. nodes'[n] = x BY <1>0, <2>1
    <3>2. \A r \in x.reads : r \in OperandRec BY DEF NodeRec
    <3>3. \A r \in x.reads : Follows(r, n) /\ (x.op # "Operator" => Untouched(n, r.node, r.win))
      BY <1>a, <2>1
    <3> QED BY <1>1, <1>2, <2>0, <2>1, <3>1, <3>2, <3>3
  <2>2. CASE n # L + 1
    <3>1. n \in 1 .. L BY <1>0, <2>0, <2>2
    <3>2. nodes'[n] = nodes[n] /\ nodes[n] \in NodeRec BY <1>a, <1>0, <3>1
    <3>3. \A r \in nodes[n].reads : r \in OperandRec BY <3>2 DEF NodeRec
    <3>4. /\ \A r \in nodes[n].reads : Follows(r, n) /\ (nodes[n].op # "Operator" => Untouched(n, r.node, r.win))
          /\ \A w \in nodes[n].writes : w \in nodes[n].out \/ \E r \in nodes[n].reads : r.win = w
      BY <1>a, <3>1 DEF VInv, OperandsFollow
    <3> QED BY <1>1, <1>2, <2>0, <3>2, <3>3, <3>4
  <2> QED BY <2>1, <2>2
<1>5. Len(nodes') + 1 = L + 2
  BY <1>0
<1> QED BY <1>0, <1>3, <1>4, <1>5 DEF OperandsFollow

\* An operator that writes nothing.
LEMMA ReaderRecorded ==
  ASSUME VInv, UNCHANGED <<versions, stateVersion, tensors>>, NEW x \in NodeRec, nodes' = Append(nodes, x), x.writes = {},
         \A r \in x.reads : Follows(r, Len(nodes) + 1) /\ (x.op # "Operator" => Untouched(Len(nodes) + 1, r.node, r.win))
  PROVE  VInv'
<1>0. VersionsTyped /\ nodes \in Seq(NodeRec)
  BY DEF VInv, VersionsTyped
<1>1. Grown(x)
  BY <1>0, NodesGrow DEF Grown
<1>2. OperandsFollow'
  BY <1>1, OperandsStay
<1>3. VersionsTyped'
  BY <1>0, <1>1 DEF VersionsTyped, Grown
<1>4. VersionsAreWritten'
  <2> SUFFICES ASSUME NEW v \in versions
               PROVE  /\ Within(State!Window(v), Extent)
                      /\ v.version =< v.producer /\ v.producer =< Len(nodes')
                      /\ v.producer # 0 => nodes'[v.producer].writes = {State!Window(v)}
    BY DEF VersionsAreWritten, Extent, State!Window
  <2>1. /\ Within(State!Window(v), Extent)
        /\ v.version =< v.producer /\ v.producer =< Len(nodes)
        /\ v.producer # 0 => nodes[v.producer].writes = {State!Window(v)}
        /\ v.producer \in Nat
    BY <1>0 DEF VInv, VersionsAreWritten, VersionsTyped, StateRec
  <2> QED BY <1>1, <2>1 DEF Grown
<1>5. VersionsFollow' /\ VersionsAreNoted'
  BY DEF VInv, VersionsFollow, VersionsAreNoted, State!Window, State!Overlap
<1>6. WritesMakeVersions'
  <2> SUFFICES ASSUME NEW m \in 1 .. Len(nodes'), NEW w \in nodes'[m].writes
               PROVE  \E v \in versions : v.producer = m /\ State!Window(v) = w
    BY DEF WritesMakeVersions, State!Window
  <2>1. m \in 1 .. Len(nodes) /\ nodes'[m] = nodes[m]
    BY <1>1 DEF Grown
  <2> QED BY <2>1 DEF VInv, WritesMakeVersions
<1> QED BY <1>2, <1>3, <1>4, <1>5, <1>6 DEF VInv

\* A write: the version it makes is later than all it overlaps.
LEMMA WriterRecorded ==
  ASSUME VInv, State!StateAssumption, NEW s \in State!Handles, ~State!Stale(s), NEW x \in NodeRec, State!Advance(s, x),
         x.writes = {State!Window(s)}, x.reads \subseteq {State!Operand(s)},
         State!Window(s) \in x.out \/ State!Operand(s) \in x.reads
  PROVE  VInv'
<1> DEFINE L == Len(nodes)
           next == State!NextVersion(s, L + 1)
           win == State!Window(s)
<1>0. VersionsTyped /\ nodes \in Seq(NodeRec)
  BY DEF VInv, VersionsTyped
<1>1. /\ nodes' = Append(nodes, x) /\ versions' = versions \union {next} /\ tensors' = tensors
      /\ stateVersion' = State!Written(stateVersion, next)
  BY DEF State!Advance
<1>2. /\ s \in StateRec /\ win \in WindowRec /\ Within(win, Extent) /\ s.version =< s.producer /\ s.producer =< L
      /\ s.version \in Nat /\ s.producer \in Nat /\ L \in Nat
      /\ State!Operand(s).node = s.producer /\ State!Operand(s).win = win /\ Follows(State!Operand(s), L + 1)
  BY HandleFits
<1>3. next = [off |-> s.off, shape |-> s.shape, version |-> s.version + 1, producer |-> L + 1]
  <2>1. s = [off |-> s.off, shape |-> s.shape, version |-> s.version, producer |-> s.producer]
    BY <1>2 DEF StateRec
  <2>2. next = [[s EXCEPT !.version = s.version + 1] EXCEPT !.producer = L + 1]
    BY <2>1 DEF State!NextVersion
  <2> HIDE DEF L, next
  <2> QED BY <2>1, <2>2
<1>4. next \in StateRec /\ next.version = s.version + 1 /\ next.producer = L + 1 /\ State!Window(next) = win
  BY <1>2, <1>3 DEF StateRec, State!Window
<1> HIDE DEF next
<1>5. Grown(x)
  BY <1>0, <1>1, NodesGrow DEF Grown
<1>6. Untouched(L + 1, s.producer, win)
  BY StaleTells
<1>7. OperandsFollow'
  <2>1. \A r \in x.reads : r = State!Operand(s)
    OBVIOUS
  <2>2. \A r \in x.reads : Follows(r, L + 1) /\ Untouched(L + 1, r.node, r.win)
    BY <1>2, <1>6, <2>1
  <2>3. \A w \in x.writes : w \in x.out \/ \E r \in x.reads : r.win = w
    BY <1>2
  <2> QED BY <1>1, <1>5, <2>2, <2>3, OperandsStay
<1>8. /\ DOMAIN stateVersion' = DOMAIN stateVersion \union {win} /\ stateVersion'[win] = s.version + 1
      /\ \A w \in DOMAIN stateVersion : w # win => stateVersion'[w] = stateVersion[w]
  BY <1>1, <1>4 DEF State!Written
<1>9. VersionsTyped'
  <2>1. /\ DOMAIN stateVersion' \subseteq WindowRec /\ \A w \in DOMAIN stateVersion' : stateVersion'[w] \in Nat
    BY <1>0, <1>2, <1>8 DEF VersionsTyped
  <2>2. versions' \subseteq StateRec /\ tensors' \subseteq OperandRec
    BY <1>0, <1>1, <1>4 DEF VersionsTyped
  <2>3. nodes' \in Seq(NodeRec)
    BY <1>5 DEF Grown
  <2> QED BY <2>1, <2>2, <2>3 DEF VersionsTyped
<1>10. \A v \in versions : /\ v \in StateRec /\ v.producer \in Nat /\ v.version \in Nat /\ v.version =< v.producer
                           /\ v.producer =< L /\ Within(State!Window(v), Extent)
                           /\ v.producer # 0 => nodes[v.producer].writes = {State!Window(v)}
  BY <1>0 DEF VInv, VersionsAreWritten, VersionsTyped, StateRec
<1>11. VersionsAreWritten'
  <2> SUFFICES ASSUME NEW v \in versions'
               PROVE  /\ Within(State!Window(v), Extent)
                      /\ v.version =< v.producer /\ v.producer =< Len(nodes')
                      /\ v.producer # 0 => nodes'[v.producer].writes = {State!Window(v)}
    BY DEF VersionsAreWritten, Extent, State!Window
  <2>1. CASE v = next
    <3>1. nodes'[L + 1] = x /\ Len(nodes') = L + 1 BY <1>5 DEF Grown
    <3> HIDE DEF L
    <3> QED BY <1>2, <1>4, <2>1, <3>1
  <2>2. CASE v \in versions
    <3>1. v.producer # 0 => nodes'[v.producer] = nodes[v.producer]
      BY <1>2, <1>5, <1>10, <2>2 DEF Grown
    <3>2. v.producer =< Len(nodes')
      BY <1>2, <1>5, <1>10, <2>2 DEF Grown
    <3> QED BY <1>10, <2>2, <3>1, <3>2
  <2> QED BY <1>1, <2>1, <2>2
<1>12. ASSUME NEW u \in versions, State!Overlap(State!Window(u), win) PROVE u.version < next.version
  <2>1. CASE u.producer = 0
    BY <1>2, <1>4, <1>10, <2>1
  <2>2. CASE u.producer # 0
    <3>1. State!Window(u) \in DOMAIN stateVersion /\ u.version =< stateVersion[State!Window(u)]
      BY <2>2 DEF VInv, VersionsAreNoted
    <3>2. stateVersion[State!Window(u)] =< s.version /\ stateVersion[State!Window(u)] \in Nat
      BY <1>0, <1>12, <3>1, StaleIs DEF VersionsTyped
    <3> QED BY <1>2, <1>4, <1>10, <3>1, <3>2
  <2> QED BY <2>1, <2>2
<1>13. VersionsFollow'
  <2> SUFFICES ASSUME NEW u \in versions', NEW v \in versions'
               PROVE  /\ u.producer = v.producer => u = v
                      /\ u.producer < v.producer /\ State!Overlap(State!Window(u), State!Window(v)) => u.version < v.version
    BY DEF VersionsFollow, State!Window, State!Overlap
  <2>1. CASE u \in versions /\ v \in versions
    BY <2>1 DEF VInv, VersionsFollow
  <2>2. CASE u = next /\ v = next
    BY <1>2, <1>4, <2>2
  <2>3. CASE u \in versions /\ v = next
    BY <1>2, <1>4, <1>10, <1>12, <2>3
  <2>4. CASE u = next /\ v \in versions
    BY <1>2, <1>4, <1>10, <2>4
  <2> QED BY <1>1, <2>1, <2>2, <2>3, <2>4
<1>14. VersionsAreNoted'
  <2>1. ASSUME NEW w \in DOMAIN stateVersion'
        PROVE  \E v \in versions' : v.producer # 0 /\ State!Window(v) = w /\ v.version = stateVersion'[w]
    <3>1. CASE w = win
      <4>1. next.producer # 0 /\ next \in versions' BY <1>1, <1>2, <1>4
      <4> QED BY <1>4, <1>8, <3>1, <4>1
    <3>2. CASE w # win
      <4>1. w \in DOMAIN stateVersion /\ stateVersion'[w] = stateVersion[w] BY <1>8, <2>1, <3>2
      <4>2. PICK v \in versions : v.producer # 0 /\ State!Window(v) = w /\ v.version = stateVersion[w]
        BY <4>1 DEF VInv, VersionsAreNoted
      <4> QED BY <1>1, <4>1, <4>2
    <3> QED BY <3>1, <3>2
  <2>2. ASSUME NEW v \in versions', v.producer # 0
        PROVE  State!Window(v) \in DOMAIN stateVersion' /\ v.version =< stateVersion'[State!Window(v)]
    <3>1. CASE v = next
      BY <1>2, <1>4, <1>8, <3>1
    <3>2. CASE v \in versions
      <4>1. State!Window(v) \in DOMAIN stateVersion /\ v.version =< stateVersion[State!Window(v)]
        BY <2>2, <3>2 DEF VInv, VersionsAreNoted
      <4>2. CASE State!Window(v) = win
        <5>1. State!Overlap(win, win)
          BY <1>2 DEF State!Overlap, WindowRec, Extents
        <5>2. v.version < next.version
          BY <1>12, <3>2, <4>2, <5>1
        <5> QED BY <1>2, <1>4, <1>8, <1>10, <3>2, <4>2, <5>2
      <4>3. CASE State!Window(v) # win
        BY <1>8, <4>1, <4>3
      <4> QED BY <4>2, <4>3
    <3> QED BY <1>1, <3>1, <3>2
  <2> QED BY <2>1, <2>2 DEF VersionsAreNoted, State!Window
<1>15. WritesMakeVersions'
  <2> SUFFICES ASSUME NEW m \in 1 .. Len(nodes'), NEW w \in nodes'[m].writes
               PROVE  \E v \in versions' : v.producer = m /\ State!Window(v) = w
    BY DEF WritesMakeVersions, State!Window
  <2>1. CASE m = L + 1
    <3>1. nodes'[m] = x /\ next \in versions' BY <1>1, <1>5, <2>1 DEF Grown
    <3> QED BY <1>4, <2>1, <3>1
  <2>2. CASE m # L + 1
    <3>1. m \in 1 .. L /\ nodes'[m] = nodes[m]
      BY <1>5, <2>2 DEF Grown
    <3>2. PICK v \in versions : v.producer = m /\ State!Window(v) = w
      BY <3>1 DEF VInv, WritesMakeVersions
    <3> QED BY <1>1, <3>2
  <2> QED BY <2>1, <2>2
<1> QED BY <1>7, <1>9, <1>11, <1>13, <1>14, <1>15 DEF VInv

LEMMA VersionsStep ==
  ASSUME VInv, State!StateAssumption, [State!Next]_(State!vars)
  PROVE  VInv'
<1> DEFINE L == Len(nodes)
<1>0. VersionsTyped
  BY DEF VInv
<1>1. ASSUME UNCHANGED <<versions, stateVersion, nodes, tensors>> PROVE VInv'
  BY <1>1 DEF VInv, VersionsTyped, VersionsAreWritten, VersionsFollow, VersionsAreNoted, WritesMakeVersions,
              OperandsFollow, Follows, Untouched, Extent, State!Window, State!Overlap
<1>2. ASSUME NEW s \in State!Handles, State!ReadState(s) PROVE VInv'
  <2>1. CASE UNCHANGED <<versions, stateVersion, nodes, tensors>>
    BY <1>1, <2>1
  <2>2. CASE tensors' = tensors \union {State!Operand(s)} /\ UNCHANGED <<versions, stateVersion, nodes>>
    <3>1. State!Operand(s) \in OperandRec /\ Follows(State!Operand(s), Len(nodes) + 1)
      BY HandleFits
    <3>2. VersionsTyped'
      BY <1>0, <2>2, <3>1 DEF VersionsTyped
    <3>4. OperandsFollow'
      <4>1. \A r \in tensors' : Follows(r, Len(nodes) + 1)
        BY <2>2, <3>1 DEF VInv, OperandsFollow
      <4>2. \A n \in 1 .. Len(nodes) :
              /\ \A r \in nodes[n].reads : Follows(r, n) /\ (nodes[n].op # "Operator" => Untouched(n, r.node, r.win))
              /\ \A w \in nodes[n].writes : w \in nodes[n].out \/ \E r \in nodes[n].reads : r.win = w
        BY DEF VInv, OperandsFollow
      <4>3. nodes' = nodes
        BY <2>2
      <4> QED BY <4>1, <4>2, <4>3 DEF OperandsFollow, Follows, Extent, Untouched
    <3> QED BY <2>2, <3>2, <3>4 DEF VInv, VersionsAreWritten, VersionsFollow, VersionsAreNoted, WritesMakeVersions,
              Extent, State!Window, State!Overlap
  <2> QED BY <1>2, <2>1, <2>2 DEF State!ReadState, State!Refuse
<1>3. ASSUME NEW s \in State!Handles PROVE State!Operand(s) \in OperandRec /\ State!Window(s) \in WindowRec
  BY HandleFits
<1>4. ASSUME NEW s \in State!Handles, State!ScatterRows(s) PROVE VInv'
  <2> DEFINE x == State!Node("ScatterRows", {}, {State!Window(s)}, {State!Window(s)})
  <2>1. CASE UNCHANGED <<versions, stateVersion, nodes, tensors>>
    BY <1>1, <2>1
  <2>2. CASE ~State!Stale(s) /\ State!Advance(s, x)
    <3>1. /\ x \in NodeRec /\ x.writes = {State!Window(s)} /\ x.reads = {} /\ State!Window(s) \in x.out
      BY <1>3 DEF State!Node, NodeRec
    <3> HIDE DEF x
    <3> QED BY <2>2, <3>1, WriterRecorded
  <2> QED BY <1>4, <2>1, <2>2 DEF State!ScatterRows, State!Refuse
<1>5. ASSUME NEW s \in State!Handles, State!LinearAttention(s) PROVE VInv'
  <2> DEFINE x == State!Node("LinearAttention", {State!Operand(s)}, {}, {State!Window(s)})
  <2>1. CASE UNCHANGED <<versions, stateVersion, nodes, tensors>>
    BY <1>1, <2>1
  <2>2. CASE ~State!Stale(s) /\ State!Advance(s, x)
    <3>1. /\ x \in NodeRec /\ x.writes = {State!Window(s)} /\ x.reads = {State!Operand(s)}
      BY <1>3 DEF State!Node, NodeRec
    <3> HIDE DEF x
    <3> QED BY <2>2, <3>1, WriterRecorded
  <2> QED BY <1>5, <2>1, <2>2 DEF State!LinearAttention, State!Refuse
<1>6. ASSUME NEW s \in State!Handles, State!Attention(s) PROVE VInv'
  <2> DEFINE x == State!Node("Attention", {State!Operand(s)}, {}, {})
  <2>1. CASE UNCHANGED <<versions, stateVersion, nodes, tensors>>
    BY <1>1, <2>1
  <2>2. CASE ~State!Stale(s) /\ nodes' = Append(nodes, x) /\ UNCHANGED <<versions, stateVersion, tensors>>
    <3>1. /\ x \in NodeRec /\ x.writes = {} /\ x.reads = {State!Operand(s)}
      BY <1>3 DEF State!Node, NodeRec
    <3>2. /\ Follows(State!Operand(s), L + 1) /\ State!Operand(s).node = s.producer
          /\ State!Operand(s).win = State!Window(s)
      BY HandleFits
    <3>3. Untouched(L + 1, s.producer, State!Window(s))
      BY <2>2, StaleTells
    <3> HIDE DEF x
    <3>4. \A r \in x.reads : Follows(r, L + 1) /\ Untouched(L + 1, r.node, r.win)
      BY <3>1, <3>2, <3>3
    <3> QED BY <2>2, <3>1, <3>4, ReaderRecorded
  <2> QED BY <1>6, <2>1, <2>2 DEF State!Attention, State!Refuse
<1>7. ASSUME NEW t \in tensors, State!Operator(t) PROVE VInv'
  <2> DEFINE x == State!Node("Operator", {t}, {}, {})
  <2>1. nodes' = Append(nodes, x) /\ UNCHANGED <<versions, stateVersion, tensors>>
    BY <1>7 DEF State!Operator
  <2>2. t \in OperandRec /\ Follows(t, L + 1)
    BY DEF VInv, VersionsTyped, OperandsFollow
  <2>3. /\ x \in NodeRec /\ x.writes = {} /\ x.reads = {t} /\ x.op = "Operator"
    BY <2>2 DEF State!Node, NodeRec
  <2> HIDE DEF x
  <2> QED BY <2>1, <2>2, <2>3, ReaderRecorded
<1>8. CASE UNCHANGED State!vars
  BY <1>1, <1>8 DEF State!vars
<1> QED BY <1>2, <1>4, <1>5, <1>6, <1>7, <1>8 DEF State!Next

\* Every operand names the window of a slot, where windows are the same or apart:
\* the first node that named it has no producer, or put it out.
LEMMA SlotsAreThere ==
  ASSUME VInv
  PROVE  State!OperandsHaveSlots
<1> SUFFICES ASSUME \A v, w \in State!Named : v = w \/ ~State!Overlap(v, w)
             PROVE  State!Named \subseteq State!Slots
  BY DEF State!OperandsHaveSlots, State!Lowers
<1>0. /\ DOMAIN nodes = 1 .. Len(nodes) /\ Len(nodes) \in Nat
      /\ \A n \in 1 .. Len(nodes) : /\ nodes[n].reads \subseteq OperandRec /\ nodes[n].writes \subseteq WindowRec
  <2>1. nodes \in Seq(NodeRec) BY DEF VInv, VersionsTyped
  <2>2. /\ DOMAIN nodes = 1 .. Len(nodes) /\ Len(nodes) \in Nat /\ \A n \in 1 .. Len(nodes) : nodes[n] \in NodeRec
    BY <2>1
  <2> QED BY <2>2 DEF NodeRec
<1>1. \A n \in 1 .. Len(nodes) : \A w \in nodes[n].out : w \in State!Slots /\ w \in State!Named
  BY <1>0 DEF State!Slots, State!Named
<1>2. \A n \in 1 .. Len(nodes) : \A r \in nodes[n].reads : r.win \in State!Named /\ (r.node = 0 => r.win \in State!Slots)
  BY <1>0 DEF State!Slots, State!Named
<1> DEFINE bad == {p \in Nat : \E n \in 1 .. Len(nodes) : \E r \in nodes[n].reads : r.node = p /\ r.win \notin State!Slots}
<1>3. ASSUME bad # {} PROVE FALSE
  <2>1. PICK p \in bad : \A q \in bad : p =< q
    <3>1. bad \in SUBSET Nat OBVIOUS
    <3> HIDE DEF bad
    <3> QED BY <1>3, <3>1, LeastOfNaturals
  <2>0. PICK n \in 1 .. Len(nodes) : \E r \in nodes[n].reads : r.node = p /\ r.win \notin State!Slots
    OBVIOUS
  <2>2. PICK r \in nodes[n].reads : r.node = p /\ r.win \notin State!Slots
    BY <2>0
  <2>3. r \in OperandRec /\ r.win \in WindowRec /\ p # 0 /\ n \in Nat
    BY <1>0, <1>2, <2>2 DEF OperandRec
  <2>4. /\ p < n /\ \E w \in nodes[p].writes : Within(r.win, w)
    BY <2>2, <2>3 DEF VInv, OperandsFollow, Follows
  <2>5. PICK w \in nodes[p].writes : Within(r.win, w)
    BY <2>4
  <2>6. p \in 1 .. Len(nodes)
    BY <1>0, <2>3, <2>4
  <2>7. State!Overlap(r.win, w) /\ w \in WindowRec
    BY <1>0, <2>3, <2>5, <2>6, WithinOverlaps
  <2>8. w \in nodes[p].out \/ \E x \in nodes[p].reads : x.win = w
    BY <2>6 DEF VInv, OperandsFollow
  <2>9. r.win = w
    <3>1. w \in State!Named BY <1>1, <1>2, <2>6, <2>8
    <3>2. r.win \in State!Named BY <1>2, <2>2
    <3> QED BY <2>7, <3>1, <3>2
  <2>10. PICK x \in nodes[p].reads : x.win = w
    BY <1>1, <2>2, <2>6, <2>8, <2>9
  <2>11. x.node \in Nat /\ x.node < p
    BY <1>0, <2>6 DEF VInv, OperandsFollow, Follows, OperandRec
  <2>12. x.node \in bad
    BY <2>2, <2>6, <2>9, <2>10, <2>11
  <2> QED BY <2>1, <2>11, <2>12
<1>4. \A n \in 1 .. Len(nodes) : \A r \in nodes[n].reads : r.win \in State!Slots
  BY <1>0, <1>3 DEF OperandRec
<1> QED BY <1>0, <1>1, <1>4 DEF State!Named

LEMMA VersionsTell ==
  ASSUME VInv, State!StateAssumption
  PROVE  State!VersionsTellTheContents
<1> SUFFICES ASSUME NEW s \in State!Handles
             PROVE  State!Stale(s) <=> ~State!Holds(Len(nodes) + 1, s.producer, State!Window(s))
  BY DEF State!VersionsTellTheContents
<1> DEFINE n == Len(nodes) + 1
           p == s.producer
           win == State!Window(s)
<1>1. /\ n \in Nat /\ n =< Len(nodes) + 1 /\ p \in Nat /\ p < n /\ win \in WindowRec /\ Within(win, Extent)
  BY HandleFits
<1>2. State!Stale(s) <=> ~Untouched(n, p, win)
  BY StaleTells
<1> HIDE DEF n, p, win
<1>3. State!Holds(n, p, win) <=> Untouched(n, p, win)
  BY <1>1, HoldsIs
<1> QED BY <1>2, <1>3 DEF n, p, win

LEMMA ReadersRead ==
  ASSUME VInv, State!StateAssumption
  PROVE  State!OperatorsReadTheirVersions
<1>1. ASSUME NEW n \in {m \in DOMAIN nodes : nodes[m].op # "Operator"}
      PROVE  \A r \in nodes[n].reads : State!Holds(n, r.node, r.win)
  <2> SUFFICES ASSUME NEW r \in nodes[n].reads PROVE State!Holds(n, r.node, r.win)
    OBVIOUS
  <2>1. n \in 1 .. Len(nodes) /\ Len(nodes) \in Nat /\ r \in OperandRec
    <3>1. nodes \in Seq(NodeRec) BY DEF VInv, VersionsTyped
    <3>2. n \in 1 .. Len(nodes) /\ Len(nodes) \in Nat /\ nodes[n] \in NodeRec BY <3>1
    <3> QED BY <3>2 DEF NodeRec
  <2>2. Follows(r, n) /\ Untouched(n, r.node, r.win)
    BY <2>1 DEF VInv, OperandsFollow
  <2>3. n \in Nat /\ n =< Len(nodes) + 1 /\ r.node \in Nat /\ r.node < n /\ r.win \in WindowRec /\ Within(r.win, Extent)
    BY <2>1, <2>2 DEF Follows, OperandRec
  <2> QED BY <2>2, <2>3, HoldsIs
<1>2. State!ReadTheirVersions({m \in DOMAIN nodes : nodes[m].op # "Operator"})
  BY <1>1 DEF State!ReadTheirVersions
<1> QED BY <1>2, SlotsAreThere DEF State!OperatorsReadTheirVersions

\* A version of a state is stale exactly when the bytes it names no longer hold what
\* its producer left there, for every shape and every recording of reads and writes of
\* the state, its layers and theirs (supersededBy of tensor/state.go).
THEOREM StaleMeansOverwritten ==
  ASSUME State!StateAssumption PROVE State!Spec => []VersionsTellTheContents
<1>1. State!Init => VInv
  BY VersionsStart
<1>2. VInv /\ [State!Next]_(State!vars) => VInv'
  BY VersionsStep
<1>3. VInv => VersionsTellTheContents
  BY VersionsTell DEF VersionsTellTheContents
<1> QED BY <1>1, <1>2, <1>3, PTL DEF State!Spec

\* In a plan that compiles and binds, every operator that was given a state reads the
\* version it was given; and a plan whose windows are the same or apart compiles
\* (ReadState, lowerInto), for every shape and recording.
THEOREM OperatorsReadTheirs ==
  ASSUME State!StateAssumption PROVE State!Spec => []OperatorsReadTheirVersions
<1>1. State!Init => VInv
  BY VersionsStart
<1>2. VInv /\ [State!Next]_(State!vars) => VInv'
  BY VersionsStep
<1>3. VInv => OperatorsReadTheirVersions
  BY ReadersRead DEF OperatorsReadTheirVersions
<1> QED BY <1>1, <1>2, <1>3, PTL DEF State!Spec
=============================================================================
