--------------------------- MODULE GraphSubmission ----------------------------
(***************************************************************************)
(* Built graphs from Build to Close (graph.go, submit.go), the transient   *)
(* pool they may share (transientpool.go), and the backend's executable    *)
(* (internal/cpu/exec.go).  A submission waits on its queue's stream; only *)
(* there is the graph entered, its pool claimed and its executable run.    *)
(* Every critical section is a step; a graph has at most one slot.                 *)
(***************************************************************************)
EXTENDS Integers, FiniteSets, Sequences

CONSTANTS
  Graphs,
  Streams,         \* the queues' serial streams
  Resources,       \* what a slot may be bound to
  Slotted,         \* the graphs that have a slot
  None,
  Need,            \* graph -> transient bytes after packing, 0 for none
  MaxSubmissions,  \* bound
  CanBeLost        \* whether a submission may lose the device

SubmissionAssumption ==
  /\ Need \in [Graphs -> Nat] /\ None \notin Resources \union Graphs
  /\ Slotted \subseteq Graphs /\ MaxSubmissions \in Nat /\ CanBeLost \in BOOLEAN

VARIABLES
  stage,      \* graph -> none, reserved, failed, built, closing, released
  inFlight,   \* graph -> Graph.inFlight
  bound,      \* graph -> what its slot is bound to
  binding,    \* graph -> what a Bind has checked and not yet applied
  open,       \* the resources whose handle is open and memory is their own
  pool,       \* the shared TransientPool; block counts its allocations
  lost,       \* the device's sticky loss
  queue,      \* stream -> the graphs submitted and not begun, in order
  run,        \* stream -> the submission its goroutine is in
  submissions

vars == <<stage, inFlight, bound, binding, open, pool, lost, queue, run, submissions>>
graphs == <<stage, inFlight, bound, binding>>

Idle == [at |-> "idle", graph |-> None, block |-> 0, uses |-> None, failed |-> FALSE]

Init ==
  /\ stage = [g \in Graphs |-> "none"] /\ inFlight = [g \in Graphs |-> FALSE]
  /\ bound = [g \in Graphs |-> None] /\ binding = [g \in Graphs |-> None]
  /\ open = Resources
  /\ pool = [bytes |-> 0, block |-> 0, graphs |-> 0, inFlight |-> FALSE, closed |-> FALSE]
  /\ lost = FALSE
  /\ queue = [s \in Streams |-> <<>>] /\ run = [s \in Streams |-> Idle]
  /\ submissions = 0

Shares(g) == Need[g] > 0

\* What Build has handed to its caller, and what gives its transients up.
Handed  == {"built", "closing", "released"}
Leaving == {"failed", "closing"}

-----------------------------------------------------------------------------
\* Mutant: growing does not ask whether a submission is in flight.
MayReserveAnytime == ~pool.closed

MayReserve == ~pool.closed /\ ~pool.inFlight

\* Build: the pool is grown to fit, then the plan is compiled.
Reserve(g) ==
  /\ stage[g] = "none"
  /\ IF Shares(g)
     THEN /\ MayReserve /\ (Need[g] > pool.bytes => ~lost)
          /\ pool' = [pool EXCEPT !.graphs = @ + 1,
                                  !.bytes = IF Need[g] > @ THEN Need[g] ELSE @,
                                  !.block = IF Need[g] > pool.bytes THEN @ + 1 ELSE @]
     ELSE UNCHANGED pool
  /\ stage' = [stage EXCEPT ![g] = "reserved"]
  /\ UNCHANGED <<inFlight, bound, binding, open, lost, queue, run, submissions>>

\* A lost device does not compile: what was reserved is given up again.
Compile(g) ==
  /\ stage[g] = "reserved"
  /\ stage' = [stage EXCEPT ![g] = IF lost THEN "failed" ELSE "built"]
  /\ UNCHANGED <<inFlight, bound, binding, open, pool, lost, queue, run, submissions>>

\* Marked closed under the lock that found it not in flight.
Close(g) ==
  /\ stage[g] = "built" /\ ~inFlight[g]
  /\ stage' = [stage EXCEPT ![g] = "closing"]
  /\ UNCHANGED <<inFlight, bound, binding, open, pool, lost, queue, run, submissions>>

ReleaseTransients(g) ==
  /\ stage[g] \in Leaving
  /\ stage' = [stage EXCEPT ![g] = IF @ = "failed" THEN "none" ELSE "released"]
  /\ pool' = IF Shares(g) THEN [pool EXCEPT !.graphs = @ - 1] ELSE pool
  /\ UNCHANGED <<inFlight, bound, binding, open, lost, queue, run, submissions>>

ClosePool ==
  /\ ~pool.closed /\ pool.graphs = 0
  /\ pool' = [pool EXCEPT !.closed = TRUE, !.bytes = 0]
  /\ UNCHANGED <<graphs, open, lost, queue, run, submissions>>

-----------------------------------------------------------------------------
\* Bind checks the resource, then applies the batch under the graph's lock.
CheckBinding(g, r) ==
  /\ g \in Slotted /\ stage[g] = "built" /\ ~lost /\ binding[g] = None /\ r \in open
  /\ binding' = [binding EXCEPT ![g] = r]
  /\ UNCHANGED <<stage, inFlight, bound, open, pool, lost, queue, run, submissions>>

Bind(g) ==
  /\ binding[g] # None
  /\ bound' = IF inFlight[g] \/ stage[g] # "built" THEN bound
              ELSE [bound EXCEPT ![g] = binding[g]]
  /\ binding' = [binding EXCEPT ![g] = None]
  /\ UNCHANGED <<stage, inFlight, open, pool, lost, queue, run, submissions>>

\* Buffer.Close: a graph takes no hold, so the memory is its pool's again.
CloseResource(r) ==
  /\ r \in open
  /\ open' = open \ {r}
  /\ UNCHANGED <<graphs, pool, lost, queue, run, submissions>>

Submit(g, s) ==
  /\ stage[g] \in Handed /\ submissions < MaxSubmissions
  /\ queue' = [queue EXCEPT ![s] = Append(@, g)]
  /\ submissions' = submissions + 1
  /\ UNCHANGED <<graphs, open, pool, lost, run>>

-----------------------------------------------------------------------------
\* The stream's goroutine, Graph.run.
StreamOnly == UNCHANGED <<stage, bound, binding, open, submissions>>

Start(s) ==
  /\ run[s].at = "idle" /\ queue[s] # <<>>
  /\ run' = [run EXCEPT ![s] = IF lost THEN Idle
                               ELSE [Idle EXCEPT !.at = "enter", !.graph = Head(queue[s])]]
  /\ queue' = [queue EXCEPT ![s] = Tail(@)]
  /\ UNCHANGED <<inFlight, pool, lost>> /\ StreamOnly

SlotIsUsable(g) == g \in Slotted => bound[g] \in open

\* Mutant: the flag is not looked at before it is set.
MayEnterTwice(g) == stage[g] = "built" /\ SlotIsUsable(g)

MayEnter(g) == stage[g] = "built" /\ ~inFlight[g] /\ SlotIsUsable(g)

\* The open, in-flight and liveness checks and the flag are one section.
Enter(s) ==
  /\ run[s].at = "enter"
  /\ LET g == run[s].graph
     IN  IF MayEnter(g)
         THEN /\ inFlight' = [inFlight EXCEPT ![g] = TRUE]
              /\ run' = [run EXCEPT ![s].at = IF Shares(g) THEN "claim" ELSE "submit"]
         ELSE UNCHANGED inFlight /\ run' = [run EXCEPT ![s] = Idle]
  /\ UNCHANGED <<pool, lost, queue>> /\ StreamOnly

MayClaim == ~pool.closed /\ ~pool.inFlight

\* A claim is refused rather than queued.
Claim(s) ==
  /\ run[s].at = "claim"
  /\ IF MayClaim
     THEN pool' = [pool EXCEPT !.inFlight = TRUE] /\ run' = [run EXCEPT ![s].at = "submit"]
     ELSE UNCHANGED pool /\ run' = [run EXCEPT ![s].at = "leave", ![s].failed = TRUE]
  /\ UNCHANGED <<inFlight, lost, queue>> /\ StreamOnly

AfterRun(s) == IF Shares(run[s].graph) THEN "end" ELSE "leave"

\* The executable resolves its operands and counts the submission, which may
\* be the one that loses the device.
SubmitExecutable(s) ==
  /\ run[s].at = "submit"
  /\ lost' \in {lost, lost \/ CanBeLost}
  /\ run' = IF lost' THEN [run EXCEPT ![s].at = AfterRun(s), ![s].failed = TRUE]
            ELSE [run EXCEPT ![s].at = "running", ![s].uses = bound[run[s].graph],
                             ![s].block = pool.block]
  /\ UNCHANGED <<inFlight, pool, queue>> /\ StreamOnly

\* Mutant: the loss leaves what was running without an answer.
CompleteUnlessLost(s) ==
  /\ run[s].at = "running" /\ ~lost
  /\ run' = [run EXCEPT ![s].at = AfterRun(s), ![s].failed = FALSE]
  /\ UNCHANGED <<inFlight, pool, lost, queue>> /\ StreamOnly

\* The loss fails what was running when it came.
Complete(s) ==
  /\ run[s].at = "running"
  /\ run' = [run EXCEPT ![s].at = AfterRun(s), ![s].failed = lost]
  /\ UNCHANGED <<inFlight, pool, lost, queue>> /\ StreamOnly

\* Mutant: the claim is only given back by a submission that succeeded.
EndOnSuccess(s) ==
  /\ run[s].at = "end"
  /\ pool' = IF run[s].failed THEN pool ELSE [pool EXCEPT !.inFlight = FALSE]
  /\ run' = [run EXCEPT ![s].at = "leave"]
  /\ UNCHANGED <<inFlight, lost, queue>> /\ StreamOnly

End(s) ==
  /\ run[s].at = "end"
  /\ pool' = [pool EXCEPT !.inFlight = FALSE]
  /\ run' = [run EXCEPT ![s].at = "leave"]
  /\ UNCHANGED <<inFlight, lost, queue>> /\ StreamOnly

Leave(s) ==
  /\ run[s].at = "leave"
  /\ inFlight' = [inFlight EXCEPT ![run[s].graph] = FALSE]
  /\ run' = [run EXCEPT ![s] = Idle]
  /\ UNCHANGED <<pool, lost, queue>> /\ StreamOnly

Stream(s) ==
  Start(s) \/ Enter(s) \/ Claim(s) \/ SubmitExecutable(s) \/ Complete(s) \/ End(s) \/ Leave(s)

Call ==
  \/ \E g \in Graphs : \/ Reserve(g) \/ Compile(g) \/ Close(g) \/ ReleaseTransients(g) \/ Bind(g)
                       \/ \E r \in Resources : CheckBinding(g, r)
                       \/ \E s \in Streams : Submit(g, s)
  \/ ClosePool
  \/ \E r \in Resources : CloseResource(r)

Next == Call \/ \E s \in Streams : Stream(s)

\* A stream's goroutine is scheduled, and work on the device ends.
Fairness == \A s \in Streams : WF_vars(Stream(s))

Spec == Init /\ [][Next]_vars /\ Fairness

-----------------------------------------------------------------------------
Stages == {"none", "reserved", "failed", "built", "closing", "released"}
Inside == {"claim", "submit", "running", "end", "leave"}
Claimed == {s \in Streams : \/ run[s].at = "end"
                            \/ run[s].at \in {"submit", "running"} /\ Shares(run[s].graph)}

\* Shapes only.
TypeOK ==
  /\ stage \in [Graphs -> Stages] /\ inFlight \in [Graphs -> BOOLEAN]
  /\ bound \in [Graphs -> Resources \union {None}] /\ binding \in [Graphs -> Resources \union {None}]
  /\ open \subseteq Resources /\ lost \in BOOLEAN /\ submissions \in 0 .. MaxSubmissions
  /\ pool \in [bytes : Nat, block : Nat, graphs : Nat, inFlight : BOOLEAN, closed : BOOLEAN]
  /\ \A s \in Streams : /\ run[s].at \in Inside \union {"idle", "enter"}
                        /\ run[s].graph \in Graphs \union {None}

\* A graph is in flight exactly while one goroutine is inside it, and it is
\* not closed there: no two submissions of a graph run together.
GraphsRunAlone ==
  \A g \in Graphs :
    LET in == {s \in Streams : run[s].graph = g /\ run[s].at \in Inside}
    IN  /\ Cardinality(in) =< 1
        /\ inFlight[g] <=> in # {}
        /\ in # {} => stage[g] = "built"

\* Graphs of one pool never run together, and the pool is claimed exactly
\* while one of them has it: no path leaks a claim.
ClaimsAreExact ==
  /\ Cardinality(Claimed) =< 1
  /\ pool.inFlight <=> Claimed # {}

\* The memory a running graph's operands resolved to is neither grown away,
\* freed nor too small until it is done.
RunningGraphsKeepTheirPool ==
  \A s \in Streams : run[s].at = "running" /\ Shares(run[s].graph) =>
    /\ run[s].block = pool.block /\ ~pool.closed
    /\ Need[run[s].graph] =< pool.bytes

\* The count that lets the pool close is the number of graphs that hold it,
\* the ones whose build failed after reserving included.
PoolCountsItsGraphs ==
  pool.graphs = Cardinality({g \in Graphs : Shares(g) /\ stage[g] \in {"reserved", "built"} \union Leaving})

\* Every submission ends, refused, failed or done, and gives back its claims.
SubmissionsEnd == \A s \in Streams : (queue[s] # <<>>) ~> (queue[s] = <<>> /\ run[s] = Idle)

\* A resource a submission was checked against stays its own until it is done
\* (specs/003-command-graph.md, specs/001-device-resources.md section 7.1).
RunningGraphsKeepTheirResources ==
  \A s \in Streams : run[s].at = "running" /\ run[s].uses # None => run[s].uses \in open

\* The pool's two accounts, the claim and the count of its graphs, are exact on
\* every path through Build, run and Close, so that what a running graph resolved
\* its operands to stays its own (transientpool.go).
AccountsAreExact ==
  TypeOK /\ ClaimsAreExact /\ PoolCountsItsGraphs /\ RunningGraphsKeepTheirPool
=============================================================================
