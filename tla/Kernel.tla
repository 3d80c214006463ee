-------------------------------- MODULE Kernel --------------------------------
(***************************************************************************)
(* What one workgroup of a cooperative kernel does, as far as the          *)
(* scheduler and the authored runner can tell: every invocation's path     *)
(* through the kernel, a sequence of accesses to shared elements and of    *)
(* rendezvous.  A rendezvous is a barrier of the workgroup, a barrier of   *)
(* the subgroup, or a subgroup operation, each at a site of the source.    *)
(***************************************************************************)
EXTENDS Integers, SequencesExt

CONSTANTS
  Size,          \* invocations of a workgroup
  SubgroupSize,  \* lanes of a subgroup, the last one partly filled; zero for one subgroup
  Elements       \* elements of the shared arrays

KernelAssumption == Size \in Nat \ {0} /\ SubgroupSize \in Nat

Invocations == 0 .. Size - 1
Subgroup(i) == IF SubgroupSize = 0 THEN 0 ELSE i \div SubgroupSize
Lanes(i) == {j \in Invocations : Subgroup(j) = Subgroup(i)}

\* The order both runners fold a subgroup's values in.
InLaneOrder(lanes) ==
  CHOOSE s \in [1 .. Cardinality(lanes) -> lanes] :
    \A k, l \in 1 .. Cardinality(lanes) : k < l => s[k] < s[l]

Step == [op : {"read", "write"}, at : Elements]
          \union [op : {"barrier", "subgroupBarrier", "combine"}, at : Nat]

IsAccess(s) == s.op \in {"read", "write"}
IsBarrier(s) == s.op \in {"barrier", "subgroupBarrier"}

-----------------------------------------------------------------------------
\* What a program says of itself, whatever order its invocations run in.  A
\* place is an invocation and a position on its path.
Places(prog) == UNION {{i} \X DOMAIN prog[i] : i \in Invocations}
At(prog, p) == prog[p[1]][p[2]]

\* Every rendezvous takes one epoch, so the epoch of a place is how many its
\* invocation has behind it.
EpochOf(prog, p) ==
  Cardinality({k \in 1 .. p[2] - 1 : ~IsAccess(prog[p[1]][k])})

Conflict(prog, p, q) ==
  /\ p[1] # q[1] /\ IsAccess(At(prog, p)) /\ IsAccess(At(prog, q))
  /\ At(prog, p).at = At(prog, q).at
  /\ "write" \in {At(prog, p).op, At(prog, q).op}

\* The elements two invocations touch in one epoch, one of them writing.
Contested(prog) ==
  {At(prog, p).at : p \in {p \in Places(prog) :
     \E q \in Places(prog) : Conflict(prog, p, q) /\ EpochOf(prog, p) = EpochOf(prog, q)}}

\* The writes a read comes after: its own earlier ones and those of earlier epochs.
WritesBefore(prog, p) ==
  {q \in Places(prog) :
     /\ At(prog, q) = [op |-> "write", at |-> At(prog, p).at]
     /\ \/ q[1] = p[1] /\ q[2] < p[2]
        \/ EpochOf(prog, q) < EpochOf(prog, p)}

Reads(prog) == {p \in Places(prog) : At(prog, p).op = "read"}

\* Reads of what nothing wrote before them.
Undefined(prog) == {p \in Reads(prog) : WritesBefore(prog, p) = {}}

\* What a read of an uncontested element returns: the latest write before it.
LastWrite(prog, p) ==
  CHOOSE q \in WritesBefore(prog, p) : \A r \in WritesBefore(prog, p) :
     \/ EpochOf(prog, r) < EpochOf(prog, q)
     \/ EpochOf(prog, r) = EpochOf(prog, q) /\ r[2] =< q[2]

-----------------------------------------------------------------------------
\* Where an invocation waits in an epoch, if it is not done by then.
Stop(prog, i, e) ==
  {At(prog, p) : p \in {p \in Places(prog) :
     p[1] = i /\ EpochOf(prog, p) = e /\ ~IsAccess(At(prog, p))}}

Epochs(prog) == {EpochOf(prog, p) : p \in Places(prog)}

\* Barriers passed before a place, of the workgroup and of the subgroup.
Behind(prog, p, ops) == Cardinality({k \in 1 .. p[2] - 1 : prog[p[1]][k].op \in ops})

\* A path's barriers, each under its number.
BarriersOf(prog, i, ops) ==
  {<<Behind(prog, <<i, k>>, ops), prog[i][k]>> : k \in {k \in DOMAIN prog[i] : prog[i][k].op \in ops}}

\* The compute model's rule for barriers: every invocation of a barrier's scope
\* executes the same sequence of that scope's barriers.
Legal(prog) ==
  \A i, j \in Invocations :
    /\ BarriersOf(prog, i, {"barrier"}) = BarriersOf(prog, j, {"barrier"})
    /\ Subgroup(i) = Subgroup(j) =>
         BarriersOf(prog, i, {"barrier", "subgroupBarrier"})
           = BarriersOf(prog, j, {"barrier", "subgroupBarrier"})

\* The lanes of a subgroup that combine in one epoch do so at one site.
OneSiteAtATime(prog) ==
  \A e \in Epochs(prog), i \in Invocations : \A j \in Lanes(i) :
     \A s \in Stop(prog, i, e), t \in Stop(prog, j, e) :
        s.op = "combine" /\ t.op = "combine" => s = t

\* Conflicting accesses have a barrier between them that stops both lanes; a
\* barrier of another subgroup and a subgroup operation order nothing.
Ordered(prog, p, q) ==
  \/ Behind(prog, p, {"barrier"}) # Behind(prog, q, {"barrier"})
  \/ /\ Subgroup(p[1]) = Subgroup(q[1])
     /\ Behind(prog, p, {"subgroupBarrier"}) # Behind(prog, q, {"subgroupBarrier"})

RaceFree(prog) ==
  \A p, q \in Places(prog) : Conflict(prog, p, q) => Ordered(prog, p, q)
=============================================================================
