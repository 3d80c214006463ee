------------------------------- MODULE Authored -------------------------------
(***************************************************************************)
(* RunAuthored (internal/kernel/authored.go): the kernel as its author     *)
(* wrote it, one goroutine for each invocation, with a cyclic barrier for  *)
(* the workgroup and one for each subgroup.  It is what a lowering is      *)
(* compared with, so it must not hang where the scheduler does not.        *)
(***************************************************************************)
EXTENDS Kernel

VARIABLES
  at, part,      \* goroutine -> its step, and the part of it that comes next
  cond, seen,    \* goroutine -> running, asleep or woken; the round its wait began in
  bars,          \* cyclic barrier -> total, waiting, round
  memory,        \* element -> the place of the write it holds
  vals, active,  \* authoredSubgroup's slots, by invocation
  result         \* goroutine -> what its reads and reductions returned

goroutines == <<at, part, cond, seen>>
slots == <<vals, active>>
avars == <<goroutines, bars, memory, slots, result>>

Everybody == -1
Barriers == {Everybody} \union {Subgroup(i) : i \in Invocations}
Members(b) == IF b = Everybody THEN Invocations ELSE {i \in Invocations : Subgroup(i) = b}

AuthoredInit ==
  /\ at = [i \in Invocations |-> 1] /\ part = [i \in Invocations |-> 0]
  /\ cond = [i \in Invocations |-> "running"] /\ seen = [i \in Invocations |-> 0]
  /\ bars = [b \in Barriers |-> [total |-> Cardinality(Members(b)), waiting |-> 0, round |-> 0]]
  /\ memory = [x \in Elements |-> <<>>]
  /\ vals = [i \in Invocations |-> <<>>] /\ active = {}
  /\ result = [i \in Invocations |-> <<>>]

-----------------------------------------------------------------------------
Returned(p, i) == at[i] > Len(p[i])
Doing(p, i, op) == ~Returned(p, i) /\ p[i][at[i]].op = op /\ cond[i] = "running"

NextStep(i) == at' = [at EXCEPT ![i] = @ + 1] /\ part' = [part EXCEPT ![i] = 0]
NextPart(i) == part' = [part EXCEPT ![i] = @ + 1] /\ UNCHANGED at

Return(i, v) == result' = [result EXCEPT ![i] = Append(@, v)]

Store(p, i) ==
  /\ Doing(p, i, "write")
  /\ memory' = [memory EXCEPT ![p[i][at[i]].at] = <<i, at[i]>>] /\ NextStep(i)
  /\ UNCHANGED <<cond, seen, bars, slots, result>>

Load(p, i) ==
  /\ Doing(p, i, "read")
  /\ Return(i, memory[p[i][at[i]].at]) /\ NextStep(i)
  /\ UNCHANGED <<cond, seen, bars, memory, slots>>

-----------------------------------------------------------------------------
\* A barrier is one wait; reduce marks its slot, waits, folds, waits and clears it.
AtWait(p, i) ==
  /\ ~Returned(p, i)
  /\ \/ IsBarrier(p[i][at[i]])
     \/ p[i][at[i]].op = "combine" /\ part[i] \in {1, 3}

BarrierAt(p, i) == IF p[i][at[i]].op = "barrier" THEN Everybody ELSE Subgroup(i)

Through(p, i) == IF IsBarrier(p[i][at[i]]) THEN NextStep(i) ELSE NextPart(i)

\* cond.Broadcast: who is asleep on a barrier looks at its round again.
Woken(p, b) ==
  [j \in Invocations |->
     IF cond[j] = "asleep" /\ BarrierAt(p, j) = b THEN "woken" ELSE cond[j]]

Release(b, total) ==
  bars' = [bars EXCEPT ![b] = [total |-> total, waiting |-> 0, round |-> @.round + 1]]

\* cyclicBarrier.wait up to its release or its sleep; the caller is counted in
\* the total, which is therefore not zero.
Arrive(p, i) ==
  /\ AtWait(p, i) /\ cond[i] = "running"
  /\ LET b == BarrierAt(p, i) IN
       IF bars[b].waiting + 1 >= bars[b].total
       THEN /\ Release(b, bars[b].total) /\ cond' = Woken(p, b) /\ Through(p, i)
            /\ UNCHANGED seen
       ELSE /\ bars' = [bars EXCEPT ![b].waiting = @ + 1]
            /\ cond' = [cond EXCEPT ![i] = "asleep"]
            /\ seen' = [seen EXCEPT ![i] = bars[b].round]
            /\ UNCHANGED <<at, part>>
  /\ UNCHANGED <<memory, slots, result>>

\* The loop around cond.Wait: a goroutine whose round is still the barrier's sleeps on.
Look(p, i) ==
  /\ cond[i] = "woken"
  /\ IF bars[BarrierAt(p, i)].round = seen[i]
     THEN cond' = [cond EXCEPT ![i] = "asleep"] /\ UNCHANGED <<at, part>>
     ELSE cond' = [cond EXCEPT ![i] = "running"] /\ Through(p, i)
  /\ UNCHANGED <<seen, bars, memory, slots, result>>

Mark(p, i) ==
  /\ Doing(p, i, "combine") /\ part[i] = 0
  /\ vals' = [vals EXCEPT ![i] = <<i, at[i]>>] /\ active' = active \union {i}
  /\ NextPart(i)
  /\ UNCHANGED <<cond, seen, bars, memory, result>>

\* Every lane folds the active values itself, in lane order, by its own operation.
Fold(p, i) ==
  /\ Doing(p, i, "combine") /\ part[i] = 2
  /\ LET lanes == InLaneOrder(active \intersect Lanes(i))
     IN  Return(i, <<p[i][at[i]].at, [k \in DOMAIN lanes |-> vals[lanes[k]]]>>)
  /\ NextPart(i)
  /\ UNCHANGED <<cond, seen, bars, memory, slots>>

\* Mutant: the slot of a lane stays marked.
ClearNothing(p, i) ==
  /\ Doing(p, i, "combine") /\ part[i] = 4
  /\ NextStep(i)
  /\ UNCHANGED <<cond, seen, bars, memory, slots, result>>

Clear(p, i) ==
  /\ Doing(p, i, "combine") /\ part[i] = 4
  /\ active' = active \ {i} /\ NextStep(i)
  /\ UNCHANGED <<cond, seen, bars, memory, vals, result>>

-----------------------------------------------------------------------------
\* Mutant: a participant that leaves releases nobody.
RetireQuietly(p, i) ==
  /\ Returned(p, i) /\ part[i] < 2
  /\ LET b == IF part[i] = 0 THEN Subgroup(i) ELSE Everybody IN
       /\ bars' = [bars EXCEPT ![b].total = @ - 1]
       /\ cond' = Woken(p, b)
  /\ NextPart(i)
  /\ UNCHANGED <<seen, memory, slots, result>>

\* The deferred leaves, of the subgroup's barrier first: the last one awaited
\* may be the one that leaves.
Retire(p, i) ==
  /\ Returned(p, i) /\ part[i] < 2
  /\ LET b == IF part[i] = 0 THEN Subgroup(i) ELSE Everybody
         left == bars[b].total - 1
     IN  /\ IF left > 0 /\ bars[b].waiting >= left
            THEN Release(b, left)
            ELSE bars' = [bars EXCEPT ![b].total = left]
         /\ cond' = Woken(p, b)
  /\ NextPart(i)
  /\ UNCHANGED <<seen, memory, slots, result>>

Goroutine(p, i) ==
  \/ Store(p, i) \/ Load(p, i) \/ Arrive(p, i) \/ Look(p, i)
  \/ Mark(p, i) \/ Fold(p, i) \/ Clear(p, i) \/ Retire(p, i)

\* wg.Wait returns.
AllGone(p) == \A i \in Invocations : Returned(p, i) /\ part[i] = 2
=============================================================================
