------------------------------ MODULE TensorPlan ------------------------------
(***************************************************************************)
(* A compiled tensor plan and the runtime it comes from (tensor/plan.go,   *)
(* compile.go, builder.go).  A plan binds when Submit is called and runs   *)
(* when the queue reaches it, so it keeps one graph per submission in      *)
(* flight: the first, and spares lowered on demand up to maxInFlight.      *)
(* Submit and Close hold p.mu throughout; the queues' goroutines do not,   *)
(* and neither does Runtime.Close.  A graph here is what GraphSubmission   *)
(* shows a graph to be: open, in flight, bound.                            *)
(***************************************************************************)
EXTENDS Integers, Sequences, FiniteSets

CONSTANTS
  Callers,         \* goroutines sharing the plan
  Queues,
  Nobody,
  InFlightLimit,   \* CompileOptions.MaxInFlight
  MaxSubmissions,  \* bound: submissions accepted
  MaxSpares        \* bound: spares lowered, those of a closed plan included

ASSUME PlanAssumption ==
  /\ InFlightLimit \in Nat \ {0} /\ MaxSubmissions \in Nat /\ MaxSpares \in Nat
  /\ Nobody \notin Callers

VARIABLES
  plan,       \* none, lowering, open or closed
  runtime,    \* Runtime: [open, plans], open while it has its pipelines
  graphs,     \* every graph lowered: [open, inFlight, slots, scalars, fence]
  instances,  \* the graphs freeGraph looks at, the first one first
  mu,         \* who holds p.mu
  call,       \* caller -> where it is inside a call
  subs        \* the submissions accepted: [graph, queue, stage, ran, failed]

vars == <<plan, runtime, graphs, instances, mu, call, subs>>

Idle == [at |-> "idle", todo |-> <<>>, queue |-> Nobody]
Fresh == [open |-> TRUE, inFlight |-> FALSE, slots |-> 0, scalars |-> 0, fence |-> 0]

Init ==
  /\ plan = "none" /\ runtime = [open |-> TRUE, plans |-> 0]
  /\ graphs = <<>> /\ instances = <<>> /\ subs = <<>>
  /\ mu = Nobody /\ call = [c \in Callers |-> Idle]

\* What a submission of this call will be; p.mu keeps the number the caller's.
Ticket == Len(subs) + 1
Chosen(c) == Head(call[c].todo)

Go(c, at) == call' = [call EXCEPT ![c].at = at]
Return(c) == call' = [call EXCEPT ![c] = Idle] /\ mu' = Nobody

-----------------------------------------------------------------------------
\* Mutant: the plan is counted only once it is lowered.
CompileUncounted(c) ==
  /\ plan = "none" /\ call[c] = Idle /\ runtime.open
  /\ plan' = "lowering" /\ Go(c, "lowering")
  /\ UNCHANGED <<runtime, graphs, instances, mu, subs>>

\* planOpened comes before lowering: the pipelines must outlive it.
Compile(c) ==
  /\ plan = "none" /\ call[c] = Idle /\ runtime.open
  /\ plan' = "lowering" /\ runtime' = [runtime EXCEPT !.plans = @ + 1]
  /\ Go(c, "lowering")
  /\ UNCHANGED <<graphs, instances, mu, subs>>

Lowered(c) ==
  /\ call[c].at = "lowering"
  /\ plan' = "open" /\ graphs' = <<Fresh>> /\ instances' = <<1>>
  /\ Go(c, "idle")
  /\ UNCHANGED <<runtime, mu, subs>>

LoweringFails(c) ==
  /\ call[c].at = "lowering"
  /\ plan' = "none" /\ runtime' = [runtime EXCEPT !.plans = @ - 1]
  /\ Go(c, "idle")
  /\ UNCHANGED <<graphs, instances, mu, subs>>

\* Runtime.Close asks the count only, and drops the map of pipelines.
CloseRuntime ==
  /\ runtime.open /\ runtime.plans = 0
  /\ runtime' = [runtime EXCEPT !.open = FALSE]
  /\ UNCHANGED <<plan, graphs, instances, mu, call, subs>>

-----------------------------------------------------------------------------
\* Plan.Submit takes the lock and looks for an instance to use.
Submit(c, q) ==
  /\ call[c] = Idle /\ mu = Nobody /\ plan \in {"open", "closed"}
  /\ Len(subs) < MaxSubmissions
  /\ mu' = c
  /\ call' = [call EXCEPT ![c] = [at |-> "look", todo |-> instances, queue |-> q]]
  /\ UNCHANGED <<plan, runtime, graphs, instances, subs>>

\* Mutant: what the graph says of itself stands in for the fence.
FreeByFlag(g) == ~graphs[g].inFlight

\* No fence yet, or one that has signalled, whatever it carries.
Free(g) == graphs[g].fence # 0 => subs[graphs[g].fence].stage = "done"

\* freeGraph: one fence after the other, while the queues go on.
Look(c) ==
  /\ call[c].at = "look"
  /\ IF call[c].todo # <<>>
     THEN /\ call' = IF Free(Chosen(c)) THEN [call EXCEPT ![c].at = "bind"]
                                        ELSE [call EXCEPT ![c].todo = Tail(@)]
          /\ UNCHANGED mu
     ELSE IF Len(instances) < InFlightLimit
          THEN Go(c, "spare") /\ UNCHANGED mu
          ELSE Return(c)
  /\ UNCHANGED <<plan, runtime, graphs, instances, subs>>

\* The plan may have been closed: that is asked only when it binds.
Spare(c) ==
  /\ call[c].at = "spare" /\ runtime.open /\ Len(graphs) =< MaxSpares
  /\ graphs' = Append(graphs, Fresh)
  /\ instances' = Append(instances, Len(graphs'))
  /\ call' = [call EXCEPT ![c].at = "bind", ![c].todo = <<Len(graphs')>>]
  /\ UNCHANGED <<plan, runtime, mu, subs>>

\* Lowering fails; or a closed runtime's map of pipelines is nil and storing
\* into it panics, which the deferred unlock survives and the call does not.
SpareFails(c) ==
  /\ call[c].at = "spare"
  /\ IF runtime.open THEN Return(c) ELSE Go(c, "panicked") /\ mu' = Nobody
  /\ UNCHANGED <<plan, runtime, graphs, instances, subs>>

MayBind(g) == plan = "open" /\ graphs[g].open /\ ~graphs[g].inFlight

\* The whole set is validated before anything is bound; it may be refused.
Bind(c, valid) ==
  /\ call[c].at = "bind"
  /\ IF valid /\ MayBind(Chosen(c))
     THEN /\ graphs' = [graphs EXCEPT ![Chosen(c)].slots = Ticket]
          /\ Go(c, "scalars") /\ UNCHANGED mu
     ELSE UNCHANGED graphs /\ Return(c)
  /\ UNCHANGED <<plan, runtime, instances, subs>>

\* By-value parameters last, and unconditionally.
SetUniforms(c) ==
  /\ call[c].at = "scalars"
  /\ IF MayBind(Chosen(c))
     THEN /\ graphs' = [graphs EXCEPT ![Chosen(c)].scalars = Ticket]
          /\ Go(c, "enqueue") /\ UNCHANGED mu
     ELSE UNCHANGED graphs /\ Return(c)
  /\ UNCHANGED <<plan, runtime, instances, subs>>

\* Queue.Submit and noteInFlight, still under p.mu.
Enqueue(c) ==
  /\ call[c].at = "enqueue"
  /\ subs' = Append(subs, [graph |-> Chosen(c), queue |-> call[c].queue, stage |-> "queued",
                           ran |-> <<>>, failed |-> FALSE])
  /\ graphs' = [graphs EXCEPT ![Chosen(c)].fence = Ticket]
  /\ Return(c)
  /\ UNCHANGED <<plan, runtime, instances>>

-----------------------------------------------------------------------------
\* Plan.Close: closed, uncounted, then the spares and the first graph.
Close(c) ==
  /\ call[c] = Idle /\ mu = Nobody /\ plan = "open"
  /\ plan' = "closed" /\ runtime' = [runtime EXCEPT !.plans = @ - 1]
  /\ mu' = c
  /\ call' = [call EXCEPT ![c].at = "closing", ![c].todo = Append(Tail(instances), 1)]
  /\ UNCHANGED <<graphs, instances, subs>>

\* A graph in flight refuses and is let go of all the same.
CloseGraph(c) ==
  /\ call[c].at = "closing"
  /\ IF call[c].todo = <<>>
     THEN Return(c) /\ instances' = <<1>> /\ UNCHANGED graphs
     ELSE /\ graphs' = [graphs EXCEPT ![Chosen(c)].open = @ /\ graphs[Chosen(c)].inFlight]
          /\ call' = [call EXCEPT ![c].todo = Tail(@)]
          /\ UNCHANGED <<instances, mu>>
  /\ UNCHANGED <<plan, runtime, subs>>

-----------------------------------------------------------------------------
\* The queue's goroutine of one submission: its turn, Graph.run, the fence.
PlanAlone == UNCHANGED <<plan, runtime, instances, mu, call>>

ItsTurn(n) == \A m \in 1 .. n - 1 : subs[m].queue = subs[n].queue => subs[m].stage = "done"

\* Mutant: a submission the graph refuses is left without an answer.
EnterOrNothing(n) ==
  /\ subs[n].stage = "queued" /\ ItsTurn(n)
  /\ LET g == graphs[subs[n].graph]
     IN  /\ g.open /\ ~g.inFlight
         /\ graphs' = [graphs EXCEPT ![subs[n].graph].inFlight = TRUE]
         /\ subs' = [subs EXCEPT ![n].stage = "running", ![n].ran = <<g.slots, g.scalars>>]
  /\ PlanAlone

\* Graph.run finds the graph open and idle, or the submission ends here.
Enter(n) ==
  /\ subs[n].stage = "queued" /\ ItsTurn(n)
  /\ LET g == graphs[subs[n].graph]
     IN  IF g.open /\ ~g.inFlight
         THEN /\ graphs' = [graphs EXCEPT ![subs[n].graph].inFlight = TRUE]
              /\ subs' = [subs EXCEPT ![n].stage = "running", ![n].ran = <<g.slots, g.scalars>>]
         ELSE UNCHANGED graphs
              /\ subs' = [subs EXCEPT ![n].stage = "left", ![n].failed = TRUE]
  /\ PlanAlone

\* The flag is down before the fence signals.
Leave(n) ==
  /\ subs[n].stage = "running"
  /\ graphs' = [graphs EXCEPT ![subs[n].graph].inFlight = FALSE]
  /\ subs' = [subs EXCEPT ![n].stage = "left"]
  /\ PlanAlone

Signal(n) ==
  /\ subs[n].stage = "left"
  /\ subs' = [subs EXCEPT ![n].stage = "done"]
  /\ UNCHANGED graphs /\ PlanAlone

Goroutine(n) == n \in DOMAIN subs /\ (Enter(n) \/ Leave(n) \/ Signal(n))

\* What goes on by itself once a caller is inside a call.
Continue(c) ==
  \/ Lowered(c) \/ LoweringFails(c) \/ Look(c) \/ Spare(c) \/ SpareFails(c)
  \/ (\E valid \in BOOLEAN : Bind(c, valid)) \/ SetUniforms(c) \/ Enqueue(c) \/ CloseGraph(c)

Next ==
  \/ CloseRuntime
  \/ \E c \in Callers : Compile(c) \/ Close(c) \/ Continue(c) \/ \E q \in Queues : Submit(c, q)
  \/ \E n \in 1 .. MaxSubmissions : Goroutine(n)

\* Goroutines are scheduled, lowering and device work end.  Nobody has to call.
Fairness ==
  /\ \A c \in Callers : WF_vars(Continue(c))
  /\ \A n \in 1 .. MaxSubmissions : WF_vars(Goroutine(n))

Spec == Init /\ [][Next]_vars /\ Fairness

-----------------------------------------------------------------------------
Unfinished == {n \in DOMAIN subs : subs[n].stage # "done"}

\* Shapes only.
TypeOK ==
  /\ plan \in {"none", "lowering", "open", "closed"} /\ runtime.plans \in Int
  /\ mu \in Callers \union {Nobody}
  /\ \A k \in DOMAIN instances : instances[k] \in DOMAIN graphs
  /\ \A n \in DOMAIN subs : subs[n].graph \in DOMAIN graphs /\ subs[n].queue \in Queues

\* Every submission the plan accepted runs with the bindings and the scalars of
\* its own call, and is refused only because the plan was closed under it;
\* every instance and every limit respected, in whatever order the queues run.
SubmissionsRunAsBound ==
  /\ TypeOK
  /\ \A n \in DOMAIN subs :
       /\ subs[n].ran # <<>> => subs[n].ran = <<n, n>>
       /\ subs[n].failed => plan = "closed"
  /\ Cardinality(Unfinished) =< InFlightLimit
  /\ \A m, n \in Unfinished : subs[m].graph = subs[n].graph => m = n

\* The runtime's count is its plans, those still lowering included: pipelines
\* are dropped under neither, and a graph is never closed while it runs.
NothingGoesUnderAPlan ==
  /\ runtime.plans = IF plan \in {"lowering", "open"} THEN 1 ELSE 0
  /\ plan \in {"lowering", "open"} => runtime.open
  /\ \A k \in DOMAIN graphs : graphs[k].inFlight => graphs[k].open

\* Every call returns, or panics on a closed runtime, and every submission
\* accepted signals, whatever the other callers do meanwhile.
CallsAndFencesEnd ==
  /\ \A c \in Callers : []<>(call[c].at \in {"idle", "panicked"})
  /\ \A n \in 1 .. MaxSubmissions : []<>(n \in DOMAIN subs => subs[n].stage = "done")
=============================================================================
