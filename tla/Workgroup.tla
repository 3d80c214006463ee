------------------------------- MODULE Workgroup -------------------------------
(***************************************************************************)
(* The CPU backend's cooperative scheduler (internal/kernel/schedule.go)   *)
(* with the shared-memory diagnostics of diag.go.  One worker runs several *)
(* workgroups; in each it advances every invocation to its next rendezvous *)
(* in an order of its choosing, combines the subgroups, checks who arrived *)
(* where, and starts the next epoch.                                       *)
(***************************************************************************)
EXTENDS Kernel

CONSTANT Workloads  \* sequences of programs, one for each workgroup of a worker

Programs == [Invocations -> Seq(Step)]

WorkloadsAssumption == Workloads \subseteq Seq(Programs) \ {<<>>}

Poison == <<>>

VARIABLES
  work, group,              \* the worker's workgroups and the one it runs
  pos, done, turn, running, \* invocation -> next step, Done; who is still to be advanced
  shared,                   \* element -> the place of the write it holds
  defined, touched, stamp,  \* SharedTracker
  conflicts, undefined,     \* its diagnostics: elements, and reads
  log,                      \* invocation -> what its reads and operations returned
  verdict

vars == <<work, group, pos, done, turn, running, shared, defined, touched, stamp,
          conflicts, undefined, log, verdict>>
frames == <<pos, done, turn, running>>
tracker == <<defined, touched, stamp, conflicts, undefined>>

prog == work[group]
Here(i) == prog[i][pos[i]]
AtEnd(i) == pos[i] > Len(prog[i])

Untouched == [by |-> 0, wrote |-> FALSE, stamp |-> 0]

Init ==
  /\ work \in Workloads /\ group = 1
  /\ pos = [i \in Invocations |-> 1] /\ done = {} /\ turn = Invocations /\ running = {}
  /\ shared = [x \in Elements |-> Poison]
  /\ defined = {} /\ touched = [x \in Elements |-> Untouched] /\ stamp = 2
  /\ conflicts = {} /\ undefined = {}
  /\ log = [i \in Invocations |-> <<>>]
  /\ verdict = "running"

-----------------------------------------------------------------------------
\* The order within an epoch is the signature's, or any permutation by a seed.
Begin(i) ==
  /\ verdict = "running" /\ running = {} /\ i \in turn
  /\ running' = {i} /\ turn' = turn \ {i}
  /\ UNCHANGED <<work, group, pos, done, shared, tracker, log, verdict>>

\* A writer is kept in preference to a reader.
Touch(x, i, wrote) ==
  LET prev == touched[x]
      inWindow == prev.stamp = stamp
  IN  /\ touched' = IF inWindow /\ ~wrote THEN touched
                    ELSE [touched EXCEPT ![x] = [by |-> i, wrote |-> wrote, stamp |-> stamp]]
      /\ conflicts' = conflicts \union
           (IF inWindow /\ prev.by # i /\ (prev.wrote \/ wrote) THEN {x} ELSE {})

Write(i) ==
  /\ i \in running /\ ~AtEnd(i) /\ Here(i).op = "write"
  /\ LET x == Here(i).at IN
       /\ defined' = defined \union {x} /\ Touch(x, i, TRUE)
       /\ shared' = [shared EXCEPT ![x] = <<i, pos[i]>>]
  /\ pos' = [pos EXCEPT ![i] = @ + 1]
  /\ UNCHANGED <<work, group, done, turn, running, stamp, undefined, log, verdict>>

Read(i) ==
  /\ i \in running /\ ~AtEnd(i) /\ Here(i).op = "read"
  /\ LET x == Here(i).at IN
       /\ undefined' = undefined \union (IF x \in defined THEN {} ELSE {<<i, pos[i]>>})
       /\ Touch(x, i, FALSE)
       /\ log' = [log EXCEPT ![i] = Append(@, shared[x])]
  /\ pos' = [pos EXCEPT ![i] = @ + 1]
  /\ UNCHANGED <<work, group, done, turn, running, shared, defined, stamp, verdict>>

\* The invocation returned, or says which rendezvous it is suspended at.
Yield(i) ==
  /\ i \in running /\ (~AtEnd(i) => ~IsAccess(Here(i)))
  /\ running' = {}
  /\ done' = IF AtEnd(i) THEN done \union {i} ELSE done
  /\ UNCHANGED <<work, group, pos, turn, shared, tracker, log, verdict>>

-----------------------------------------------------------------------------
EpochOver == verdict = "running" /\ running = {} /\ turn = {}
Active == Invocations \ done
Combining == {i \in Active : Here(i).op = "combine"}
Waiting == Active \ Combining

\* combineSubgroups: the suspended lanes of a subgroup, in lane order, under the
\* operation of the first of them.
Combined(i) ==
  LET lanes == InLaneOrder(Combining \intersect Lanes(i))
  IN  <<Here(lanes[1]).at, [k \in DOMAIN lanes |-> <<lanes[k], pos[lanes[k]]>>]>>

\* Mutant: an invocation that returned is not waited for.
ElsewhereButDone(i, stop) == i \notin done /\ Here(i) # stop

Elsewhere(i, stop) == i \in done \/ Here(i) # stop

\* checkSubgroupArrival: each subgroup against its own first waiting lane.
SubgroupArrived ==
  \A i \in Waiting : LET first == Min(Waiting \intersect Lanes(i)) IN
     \A j \in Lanes(i) : ~Elsewhere(j, Here(first))

\* checkArrival: the first waiting invocation decides what everybody is held to.
Arrived ==
  Waiting # {} =>
    LET first == Min(Waiting) IN
      IF Here(first).op = "subgroupBarrier" THEN SubgroupArrived
      ELSE \A i \in Invocations : ~Elsewhere(i, Here(first))

\* One epoch ends: combine, check, and only then open the next window.
EndEpoch ==
  /\ EpochOver /\ Active # {}
  /\ log' = [i \in Invocations |->
               IF i \in Combining THEN Append(log[i], Combined(i)) ELSE log[i]]
  /\ IF Arrived
     THEN /\ stamp' = stamp + 1 /\ turn' = Active
          /\ pos' = [i \in Invocations |-> IF i \in Active THEN pos[i] + 1 ELSE pos[i]]
          /\ UNCHANGED verdict
     ELSE verdict' = "arrival" /\ UNCHANGED <<stamp, turn, pos>>
  /\ UNCHANGED <<work, group, done, running, shared, defined, touched, conflicts, undefined>>

Reported == conflicts # {} \/ undefined # {}

\* All returned: the workgroup's diagnostics are its error.
Finish ==
  /\ EpochOver /\ Active = {} /\ (Reported \/ group = Len(work))
  /\ verdict' = IF Reported THEN "diagnosed" ELSE "clean"
  /\ UNCHANGED <<work, group, frames, shared, tracker, log>>

\* Mutant: the tracker's window is not closed between workgroups.
NextGroupSameWindow ==
  /\ EpochOver /\ Active = {} /\ ~Reported /\ group < Len(work)
  /\ group' = group + 1
  /\ pos' = [i \in Invocations |-> 1] /\ done' = {} /\ turn' = Invocations
  /\ shared' = [x \in Elements |-> Poison] /\ log' = [i \in Invocations |-> <<>>]
  /\ defined' = {} /\ conflicts' = {} /\ undefined' = {}
  /\ UNCHANGED <<work, running, stamp, touched, verdict>>

\* Frames are zeroed, shared storage is new, and the tracker is reset: a new
\* stamp makes the previous workgroup's entries stale where they stand.
NextGroup ==
  /\ EpochOver /\ Active = {} /\ ~Reported /\ group < Len(work)
  /\ group' = group + 1
  /\ pos' = [i \in Invocations |-> 1] /\ done' = {} /\ turn' = Invocations
  /\ shared' = [x \in Elements |-> Poison] /\ log' = [i \in Invocations |-> <<>>]
  /\ defined' = {} /\ conflicts' = {} /\ undefined' = {} /\ stamp' = stamp + 1
  /\ UNCHANGED <<work, running, touched, verdict>>

Advance(i) == Begin(i) \/ Write(i) \/ Read(i) \/ Yield(i)

Next == EndEpoch \/ Finish \/ NextGroup \/ \E i \in Invocations : Advance(i)

Spec == Init /\ [][Next]_vars /\ WF_vars(Next)
=============================================================================
