----------------------------- MODULE QueueStream ------------------------------
(***************************************************************************)
(* Queues as serial streams (transfer.go, graph.go).  WriteBuffer leaves a *)
(* staged write pending; Flush, Submit and SubmitAfter take every pending  *)
(* write in one critical section and chain a goroutine on the queue's last *)
(* one in another.  A goroutine waits its turn, waits the fences it was    *)
(* given, hands its writes to the device, runs its graph if none of them   *)
(* failed, and signals.                                                    *)
(***************************************************************************)
EXTENDS Integers, Sequences, FiniteSets, Functions

CONSTANTS
  Callers,    \* goroutines calling the queues
  Queues,
  MaxUnits,   \* bound: fences ever made
  MaxWrites,  \* bound: WriteBuffer calls
  MaxAfters,  \* bound: fences given to a SubmitAfter
  WritesFail  \* whether the device may fail a write

ASSUME QueueAssumption ==
  MaxUnits \in Nat /\ MaxWrites \in Nat /\ MaxAfters \in Nat /\ WritesFail \in BOOLEAN

VARIABLES
  issued,   \* the queue of every WriteBuffer call so far; a write is its place here
  pending,  \* queue -> staged writes no flush has taken
  prev,     \* queue -> the unit chained last, 0 for none
  units,    \* every fence made, in the order it was made
  tried,    \* the writes handed to the device, in that order
  refused,  \* those of them that failed there
  pc,       \* caller -> where it is inside a call
  taken     \* caller -> what its call took and has not enqueued

device == <<tried, refused>>
vars == <<issued, pending, prev, units, device, pc, taken>>

None == 0
NothingTaken ==
  [queue |-> None, batch |-> <<>>, graph |-> FALSE, after |-> <<>>, owed |-> {}, elsewhere |-> {}]

Init ==
  /\ issued = <<>>
  /\ pending = [q \in Queues |-> <<>>]
  /\ prev = [q \in Queues |-> None]
  /\ units = <<>>
  /\ tried = <<>> /\ refused = {}
  /\ pc = [c \in Callers |-> "idle"]
  /\ taken = [c \in Callers |-> NothingTaken]

-----------------------------------------------------------------------------
\* A unit's done channel is closed after its fence has signalled.
Signalled(u) == units[u].stage \in {"signalled", "closed"}
Settled(u) == u # None => units[u].stage = "closed"

\* What is left of the batch, the fences still to be waited for, and whether an
\* error has been met, which is the fence's once it signals.  owed and elsewhere
\* only serve the properties: the writes issued when the call looked at the
\* queue, and those then in the hands of other callers.
Unit(r, behind, stage) ==
  [queue |-> r.queue, behind |-> behind, batch |-> r.batch, left |-> r.batch,
   graph |-> r.graph, after |-> r.after, stage |-> stage, failed |-> FALSE,
   owed |-> r.owed, elsewhere |-> r.elsewhere]

IssuedTo(q) == {n \in DOMAIN issued : issued[n] = q}
InHands == UNION {Range(taken[c].batch) : c \in Callers}

RoomForUnit == Len(units) + Cardinality({c \in Callers : pc[c] = "taken"}) < MaxUnits

WriteBuffer(c, q) ==
  /\ pc[c] = "idle" /\ Len(issued) < MaxWrites
  /\ issued' = Append(issued, q)
  /\ pending' = [pending EXCEPT ![q] = Append(@, Len(issued'))]
  /\ UNCHANGED <<prev, units, device, pc, taken>>

Taking(q, isGraph, after) ==
  [queue |-> q, batch |-> pending[q], graph |-> isGraph, after |-> after,
   owed |-> IssuedTo(q), elsewhere |-> IssuedTo(q) \intersect InHands]

\* The queue's lock is released between taking the batch and chaining the unit.
Take(c, q, isGraph, after) ==
  /\ pc[c] = "idle" /\ RoomForUnit
  /\ pending' = [pending EXCEPT ![q] = <<>>]
  /\ taken' = [taken EXCEPT ![c] = Taking(q, isGraph, after)]
  /\ pc' = [pc EXCEPT ![c] = "taken"]
  /\ UNCHANGED <<issued, prev, units, device>>

Submit(c, q) == Take(c, q, TRUE, <<>>)

\* Fences of this queue or of another one, which may have failed.  Nil ones are
\* skipped, and to wait again for one that did not fail changes nothing.
GivenFences ==
  {f \in UNION {[1 .. n -> DOMAIN units] : n \in 1 .. MaxAfters} : IsInjective(f)}

SubmitAfter(c, q) ==
  /\ pc[c] = "idle" /\ RoomForUnit
  /\ \E after \in GivenFences : Take(c, q, TRUE, after)

\* Mutant: an empty batch is enough for a fence that has already signalled.
NothingAhead(q) == pending[q] = <<>>

NothingToWaitFor(q) == pending[q] = <<>> /\ Settled(prev[q])

\* Nothing pending and nothing ahead: a fence that has already signalled.
FlushNothing(c, q) ==
  /\ pc[c] = "idle" /\ RoomForUnit
  /\ NothingToWaitFor(q)
  /\ units' = Append(units, Unit(Taking(q, FALSE, <<>>), None, "closed"))
  /\ UNCHANGED <<issued, pending, prev, device, pc, taken>>

Flush(c, q) ==
  \/ FlushNothing(c, q)
  \/ ~NothingToWaitFor(q) /\ Take(c, q, FALSE, <<>>)

\* Mutant: the unit is not made the queue's last one.
EnqueueUnchained(c) ==
  /\ pc[c] = "taken"
  /\ units' = Append(units, Unit(taken[c], prev[taken[c].queue], "queued"))
  /\ pc' = [pc EXCEPT ![c] = "idle"]
  /\ taken' = [taken EXCEPT ![c] = NothingTaken]
  /\ UNCHANGED <<issued, pending, prev, device>>

\* Mutant: the unit waits for itself to be closed.
EnqueueOnItself(c) ==
  /\ pc[c] = "taken"
  /\ units' = Append(units, Unit(taken[c], Len(units) + 1, "queued"))
  /\ prev' = [prev EXCEPT ![taken[c].queue] = Len(units) + 1]
  /\ pc' = [pc EXCEPT ![c] = "idle"]
  /\ taken' = [taken EXCEPT ![c] = NothingTaken]
  /\ UNCHANGED <<issued, pending, device>>

Enqueue(c) ==
  /\ pc[c] = "taken"
  /\ units' = Append(units, Unit(taken[c], prev[taken[c].queue], "queued"))
  /\ prev' = [prev EXCEPT ![taken[c].queue] = Len(units) + 1]
  /\ pc' = [pc EXCEPT ![c] = "idle"]
  /\ taken' = [taken EXCEPT ![c] = NothingTaken]
  /\ UNCHANGED <<issued, pending, device>>

-----------------------------------------------------------------------------
\* The goroutine of a unit.
Unchanged == UNCHANGED <<issued, pending, prev, pc, taken>>

\* Its turn comes when the unit it is chained on has closed its channel.
Begin(u) ==
  /\ units[u].stage = "queued" /\ Settled(units[u].behind)
  /\ units' = [units EXCEPT ![u].stage = IF units[u].after = <<>> THEN "writes" ELSE "after"]
  /\ UNCHANGED device /\ Unchanged

\* The given fences are waited for in turn; the first that failed fails this unit
\* before its writes are handed to the device.
AwaitAfter(u) ==
  /\ units[u].stage = "after" /\ Signalled(Head(units[u].after))
  /\ units' =
       IF units[Head(units[u].after)].failed
       THEN [units EXCEPT ![u].stage = "signalled", ![u].failed = TRUE]
       ELSE [units EXCEPT ![u].after = Tail(@),
                          ![u].stage = IF Tail(units[u].after) = <<>> THEN "writes" ELSE "after"]
  /\ UNCHANGED device /\ Unchanged

\* Mutant: a write that lands clears the error of one before it.
LandForgets(u) ==
  /\ units[u].stage = "writes" /\ units[u].left # <<>>
  /\ \E fails \in {FALSE, WritesFail} :
       /\ refused' = IF fails THEN refused \union {Head(units[u].left)} ELSE refused
       /\ units' = [units EXCEPT ![u].left = Tail(@), ![u].failed = fails]
  /\ tried' = Append(tried, Head(units[u].left))
  /\ Unchanged

\* runWrites hands the batch over in the order it was staged.  A write that fails
\* leaves its error, and the rest is handed over all the same.
Land(u) ==
  /\ units[u].stage = "writes" /\ units[u].left # <<>>
  /\ \E fails \in {FALSE, WritesFail} :
       /\ refused' = IF fails THEN refused \union {Head(units[u].left)} ELSE refused
       /\ units' = [units EXCEPT ![u].left = Tail(@), ![u].failed = @ \/ fails]
  /\ tried' = Append(tried, Head(units[u].left))
  /\ Unchanged

\* A graph is not run after a write that failed.  The error, if any, is on the
\* fence before the fence signals.
EndWrites(u) ==
  /\ units[u].stage = "writes" /\ units[u].left = <<>>
  /\ units' = [units EXCEPT ![u].stage =
                  IF units[u].graph /\ ~units[u].failed THEN "graph" ELSE "signalled"]
  /\ UNCHANGED device /\ Unchanged

\* The graph may fail.
RunGraph(u) ==
  /\ units[u].stage = "graph"
  /\ \E fails \in BOOLEAN :
       units' = [units EXCEPT ![u].stage = "signalled", ![u].failed = fails]
  /\ UNCHANGED device /\ Unchanged

CloseDone(u) ==
  /\ units[u].stage = "signalled"
  /\ units' = [units EXCEPT ![u].stage = "closed"]
  /\ UNCHANGED device /\ Unchanged

Goroutine(u) ==
  Begin(u) \/ AwaitAfter(u) \/ Land(u) \/ EndWrites(u) \/ RunGraph(u) \/ CloseDone(u)

Call(c) ==
  \/ \E q \in Queues : WriteBuffer(c, q) \/ Submit(c, q) \/ SubmitAfter(c, q) \/ Flush(c, q)
  \/ Enqueue(c)

Next == (\E c \in Callers : Call(c)) \/ (\E u \in DOMAIN units : Goroutine(u))

\* While some goroutine can run, one of them does, and a graph that was started
\* ends; nobody promises that a caller calls.
Fairness == WF_vars(\E u \in DOMAIN units : Goroutine(u))

Spec == Init /\ [][Next]_vars /\ Fairness

-----------------------------------------------------------------------------
Stages == {"queued", "after", "writes", "graph", "signalled", "closed"}

\* Shapes, and no unit waits for one made after it.
TypeOK ==
  /\ \A n \in DOMAIN issued : n =< MaxWrites /\ issued[n] \in Queues
  /\ \A q \in Queues : prev[q] \in 0 .. Len(units)
  /\ \A u \in DOMAIN units :
       /\ units[u].stage \in Stages /\ units[u].behind \in 0 .. u - 1
       /\ Range(units[u].after) \subseteq 1 .. u - 1 /\ units[u].failed \in BOOLEAN
  /\ \A c \in Callers : pc[c] \in {"idle", "taken"}

Active(u) == units[u].stage \in {"after", "writes", "graph", "signalled"}

\* Two submissions of one queue never overlap, whichever callers made them and
\* however their critical sections interleaved.
OneUnitAtATime ==
  \A u, v \in DOMAIN units :
    units[u].queue = units[v].queue /\ Active(u) /\ Active(v) => u = v

\* The unit gave up on a fence it was given, which had failed.
GaveUp(u) ==
  Signalled(u) /\ units[u].after # <<>> /\ LET f == Head(units[u].after) IN Signalled(f) /\ units[f].failed
HasLanded(n) == n \in Range(tried) \ refused

\* No staged write is handed to the device twice.  When a unit signals that gave up
\* on no fence, every write of its batch is on the device or failed there and its
\* fence says so; and a graph runs only when its whole batch is on the device.
BatchesLandOrFail ==
  /\ \A i, j \in DOMAIN tried : tried[i] = tried[j] => i = j
  /\ \A u \in DOMAIN units : Signalled(u) /\ ~GaveUp(u) =>
       \A n \in Range(units[u].batch) : HasLanded(n) \/ (n \in refused /\ units[u].failed)
  /\ \A u \in DOMAIN units : units[u].stage = "graph" =>
       \A n \in Range(units[u].batch) : HasLanded(n)

\* Once a fence of a queue signals, of a unit that gave up on none itself, the
\* queue's earlier writes are on the device, other than those another caller had
\* taken and not chained, those that failed there, and those of units that gave up.
FencesProveChainedWrites ==
  \A u \in DOMAIN units : Signalled(u) /\ ~GaveUp(u) =>
    \A n \in units[u].owed \ units[u].elsewhere :
      \/ HasLanded(n)
      \/ \E v \in DOMAIN units :
           /\ n \in Range(units[v].batch) /\ Signalled(v) /\ units[v].failed
           /\ n \in refused \/ GaveUp(v)

\* WriteBuffer's promise: every write issued before a flush is on the device
\* once the flush's fence has signalled (transfer.go).
FlushProvesLanded ==
  \A u \in DOMAIN units : Signalled(u) /\ ~units[u].failed =>
    \A n \in units[u].owed : HasLanded(n)

\* The promise about a write whose destination is closed meanwhile, that it
\* still lands (transfer.go), for the batch of every unit that has ended.
TakenWritesLand ==
  \A u \in DOMAIN units : Signalled(u) => \A n \in Range(units[u].batch) : HasLanded(n)

\* Whatever waits on whatever, across queues: every fence signals.
EveryFenceSignals == []<>(\A u \in DOMAIN units : Signalled(u))
=============================================================================
