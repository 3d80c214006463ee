------------------------------ MODULE Differential ------------------------------
(***************************************************************************)
(* The comparison the kernel tests make: a worker runs its workgroups      *)
(* through the scheduler, and the last one, if it was reported clean, is   *)
(* run again in its authored form.                                         *)
(***************************************************************************)
EXTENDS Workgroup, Authored

dvars == <<vars, avars>>

Schedule == Next /\ UNCHANGED avars
Author(i) == verdict = "clean" /\ Goroutine(prog, i) /\ UNCHANGED vars

DInit == Init /\ AuthoredInit
DNext == Schedule \/ \E i \in Invocations : Author(i)

\* The scheduler is a loop; goroutines that can run are eventually scheduled.
DSpec ==
  /\ DInit /\ [][DNext]_dvars
  /\ WF_dvars(Schedule) /\ \A i \in Invocations : WF_dvars(Author(i))

-----------------------------------------------------------------------------
\* diag.go keeps one access for each element and forgets nothing between
\* workgroups but a stamp.  Whatever the order the invocations are advanced in,
\* an element is reported contested exactly when two invocations touch it in one
\* epoch and one of them writes; and if none is, exactly the reads that nothing
\* precedes are reported undefined.
DiagnosticsIgnoreTheOrder ==
  /\ conflicts \subseteq Contested(prog)
  /\ verdict \in {"clean", "diagnosed"} =>
       /\ conflicts = Contested(prog)
       /\ conflicts = {} => undefined = Undefined(prog)

\* In a workgroup reported clean every read returned the one write that program
\* order and the epochs put last before it, whatever the order.
CleanReadsAreDetermined ==
  verdict = "clean" =>
    \A i \in Invocations :
      \A p \in {p \in Reads(prog) : p[1] = i} :
         LET nth == Cardinality({k \in 1 .. p[2] - 1 : prog[i][k].op \in {"read", "combine"}}) + 1
         IN  WritesBefore(prog, p) # {} /\ log[i][nth] = LastWrite(prog, p)

\* checkArrival and checkSubgroupArrival: in what the scheduler runs to the end, an
\* invocation that waited at a barrier had every lane of its subgroup at the same one;
\* at a workgroup barrier it had every invocation there, unless one before it waited
\* at a subgroup barrier, which is what the code then compares by.
BarriersAreWhole ==
  verdict \in {"clean", "diagnosed"} =>
    \A e \in Epochs(prog), i \in Invocations : \A s \in Stop(prog, i, e) :
      /\ IsBarrier(s) => \A j \in Lanes(i) : Stop(prog, j, e) = {s}
      /\ s.op = "barrier" =>
           \/ \A j \in Invocations : Stop(prog, j, e) = {s}
           \/ \E j \in Invocations : j < i /\ \E t \in Stop(prog, j, e) : t.op = "subgroupBarrier"

\* Neither what the tracker says nor what a kernel computes depends on the order the
\* scheduler advances invocations in, and no barrier is passed without the lanes it is
\* held to (diag.go, schedule.go).
OrderDoesNotShow == DiagnosticsIgnoreTheOrder /\ CleanReadsAreDetermined /\ BarriersAreWhole

\* RunAuthored's reason to exist: on a kernel within the rules the goroutines
\* and the scheduler read and combine the same values, in any interleaving.
AuthoredAgrees ==
  verdict = "clean" /\ AllGone(prog)
    /\ Legal(prog) /\ RaceFree(prog) /\ OneSiteAtATime(prog) => result = log

\* The authored run of what the scheduler finishes does not hang: an invocation
\* that returns retires from the barriers its peers wait at.
AuthoredEnds == (verdict = "clean") ~> AllGone(prog)

\* A correct cooperative kernel produces no diagnostic: one that obeys the
\* barrier rule and has no race and no undefined read.
CorrectKernelsAreClean ==
  Legal(prog) /\ RaceFree(prog) /\ Contested(prog) = {} /\ Undefined(prog) = {}
    => verdict # "arrival"
=============================================================================
