------------------------------- MODULE MCKernels -------------------------------
(* A dispatch's walk over its workgroups, or the workgroups one worker runs:   *)
(* workgroups share nothing, so a behaviour is of one level and the other      *)
(* stays where it started.                                                     *)
(* Dispatches of one to five workgroups and up to three workers; claims of one *)
(* and of two workgroups, the last one cut short by the end of the grid.       *)
(* Three invocations in subgroups of two, so that the last subgroup is partly  *)
(* filled, each on any of eleven paths; and two workgroups in a row.          *)
EXTENDS GridWalk, Sequences, TLC

CONSTANTS Size, SubgroupSize, Elements, Workloads, e1, e2

VARIABLES
  level,
  work, group, pos, done, turn, running, shared, defined, touched, stamp, conflicts,
  undefined, log, verdict,
  at, part, cond, seen, bars, memory, vals, active, result

groupVars == <<work, group, pos, done, turn, running, shared, defined, touched, stamp,
                conflicts, undefined, log, verdict, at, part, cond, seen, bars, memory,
                vals, active, result>>

Group == INSTANCE Differential

ASSUME GroupAssumption == Group!KernelAssumption /\ Group!WorkloadsAssumption

W(e) == [op |-> "write", at |-> e]
R(e) == [op |-> "read", at |-> e]
B(n) == [op |-> "barrier", at |-> n]
S(n) == [op |-> "subgroupBarrier", at |-> n]
C(n) == [op |-> "combine", at |-> n]

Paths == {
  <<>>, <<W(e1)>>, <<R(e1)>>, <<W(e1), B(1), R(e1)>>, <<R(e2), B(1), W(e2)>>,
  <<W(e1), S(2), R(e1)>>, <<S(2), B(1)>>,
  <<C(3)>>, <<C(3), C(3)>>, <<C(3), C(4)>>, <<W(e1), C(3), B(1), R(e1)>> }

Short == {<<>>, <<W(e1)>>, <<R(e1)>>, <<W(e1), B(1), R(e1)>>}

First == (0 :> <<W(e1)>>) @@ (1 :> <<>>) @@ (2 :> <<>>)

MCWorkloads ==
  {<<p>> : p \in [0 .. Size - 1 -> Paths]} \union {<<First, p>> : p \in [0 .. Size - 1 -> Short]}

-----------------------------------------------------------------------------
OneGroup == total = 1 /\ body = [g \in {0} |-> "ok"] /\ pool = 1
NoSteps == work = <<[i \in 0 .. Size - 1 |-> <<>>]>>

MCInit ==
  /\ \/ level = "grid" /\ NoSteps
     \/ level = "workgroup" /\ OneGroup
  /\ Init /\ Group!DInit

MCNext ==
  /\ \/ level = "grid" /\ Next /\ UNCHANGED groupVars
     \/ level = "workgroup" /\ Group!DNext /\ UNCHANGED vars
  /\ UNCHANGED level

\* The fairness of the level that moves: what is left of it when the other stands.
InGrid(A) == level = "grid" /\ A /\ UNCHANGED groupVars
InGroup(A) == level = "workgroup" /\ A /\ UNCHANGED vars

MCFairness ==
  /\ WF_<<vars, groupVars>>(InGrid(Finish))
  /\ \A w \in Workers : WF_<<vars, groupVars>>(InGrid(Worker(w)))
  /\ WF_<<vars, groupVars>>(InGroup(Group!Schedule))
  /\ \A i \in 0 .. Size - 1 : WF_<<vars, groupVars>>(InGroup(Group!Author(i)))

MCSpec == MCInit /\ [][MCNext]_<<level, vars, groupVars>> /\ MCFairness

-----------------------------------------------------------------------------
\* Neither what the tracker says nor what a kernel computes depends on the order the
\* scheduler advances invocations in, and no barrier is passed without the lanes it is
\* held to (diag.go, schedule.go).
OrderDoesNotShow == Group!OrderDoesNotShow

\* On a kernel within the rules the authored goroutines and the scheduler read and
\* combine the same values, in any interleaving (authored.go).
AuthoredAgrees == Group!AuthoredAgrees

\* Everything ends: the dispatch's caller is answered, the scheduler has a verdict,
\* and the authored run of what it finished cleanly does not hang at a barrier.
KernelsEnd ==
  []<>(IF level = "grid" THEN report # Pending
       ELSE verdict # "running" /\ (verdict = "clean" => Group!AllGone(Group!prog)))
=============================================================================
