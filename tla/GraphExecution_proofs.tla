------------------------ MODULE GraphExecution_proofs ------------------------
(***************************************************************************)
(* From the recording to its execution, for every recording, every size of *)
(* the transients and every alignment.                                     *)
(*                                                                         *)
(* The barrier walk: an access already committed either has a barrier      *)
(* behind it, or its exact range still says it was written (or read), so   *)
(* the next conflicting access finds the need and batches a barrier.       *)
(*                                                                         *)
(* The plan: reachability runs forwards, and placements that share bytes   *)
(* belong to transients all of whose users it orders, so the first user of *)
(* the later one, where the handover puts a full barrier, comes after the  *)
(* last user of the earlier one.                                           *)
(*                                                                         *)
(* Frugality: what a range says of itself is due to a committed access     *)
(* with no barrier behind it, so a barrier names the conflict it is for;   *)
(* every placement starts at an aligned place and ends within the memory   *)
(* of those placed; and transients live at one node share no byte.         *)
(*                                                                         *)
(* The execution: a node that has started has every earlier node behind a  *)
(* barrier done, so a location holds what the greatest finished writer of  *)
(* it left there, and that is the writer record order names.               *)
(***************************************************************************)
EXTENDS GraphExecution, FiniteSetTheorems, WellFoundedInduction, TLAPS

Emitted == {"execution", "memory"}

Committed(n, k) ==
  phase = "planned" \/ n < i \/ (n = i /\ phase = "commit" /\ k < j)

Tracked(a) ==
  \E rs \in states : /\ SameRange(rs, a)
                     /\ Writes(a) => rs.written
                     /\ Reads(a) => rs.read \/ rs.written

AccessesTracked ==
  \A n \in Node : \A k \in DOMAIN nodes[n] :
    Committed(n, k) => Between(n, i, Emitted) \/ Tracked(nodes[n][k])

NeedsBatched ==
  phase = "need" /\ i \in Node =>
    \A m \in Node : \A k \in DOMAIN nodes[m] : \A l \in DOMAIN nodes[i] :
      m < i /\ l < j /\ AccessConflict(nodes[m][k], nodes[i][l])
        => batch # "none" \/ Between(m, i, Emitted)

IInv == /\ TypeOK /\ (phase = "planned" => i = N + 1)
        /\ AccessesTracked /\ NeedsBatched /\ ConflictsAreSeparated

-----------------------------------------------------------------------------
LEMMA AccessIsTyped ==
  ASSUME TypeOK, NEW n \in Node, NEW k \in DOMAIN nodes[n]
  PROVE  nodes[n][k] \in Access /\ k \in Nat \ {0} /\ k =< Len(nodes[n])
<1>1. nodes[n] \in Seq(Access)
  BY DEF TypeOK, Node, N
<1> QED BY <1>1

LEMMA CursorIsTyped ==
  ASSUME TypeOK, i \in Node, j =< Len(nodes[i])
  PROVE  j \in DOMAIN nodes[i] /\ This \in Access
<1>1. j \in DOMAIN nodes[i]
  BY DEF TypeOK, Node, N
<1> QED BY <1>1, AccessIsTyped DEF This

LEMMA TypeInit == Init => TypeOK
BY ProgramsAssumption DEF Init, TypeOK, N, Node, Kinds

LEMMA TypeStep == TypeOK /\ [Next]_vars => TypeOK'
<1> SUFFICES ASSUME TypeOK, [Next]_vars PROVE TypeOK'
  OBVIOUS
<1>1. CASE Need
  <2>1. batch' \in Kinds
    BY <1>1 DEF Need, TypeOK, Kinds
  <2> QED BY <1>1, <2>1 DEF Need, TypeOK, N, Node
<1>2. CASE Emit
  <2>1. barrier' \in [Node -> Kinds]
    BY <1>2 DEF Emit, TypeOK
  <2>2. Cleared \subseteq RangeState
    BY DEF Cleared, TypeOK, RangeState
  <2> QED BY <1>2, <2>1, <2>2 DEF Emit, TypeOK, N, Node, Kinds
<1>3. CASE CommitRange
  <2>1. This \in Access
    BY <1>3, CursorIsTyped DEF CommitRange, TypeOK
  <2>2. Fresh(This) \in RangeState
    BY <2>1 DEF Fresh, RangeState, Access
  <2>3. \A rs \in RangeState : Updated(rs, This) \in RangeState
    BY DEF Updated, RangeState, Writes, Reads
  <2>4. states' \subseteq RangeState
    BY <1>3, <2>2, <2>3 DEF CommitRange, TypeOK
  <2> QED BY <1>3, <2>4 DEF CommitRange, TypeOK, N, Node
<1>4. CASE NextNode
  BY <1>4 DEF NextNode, TypeOK, N, Node
<1>5. CASE Finish
  BY <1>5 DEF Finish, TypeOK, N, Node
<1>6. CASE UNCHANGED vars
  BY <1>6 DEF vars, TypeOK, N, Node
<1> QED BY <1>1, <1>2, <1>3, <1>4, <1>5, <1>6 DEF Next

(* A step never removes a barrier and never moves the cursor back.           *)
LEMMA BarriersStay ==
  ASSUME TypeOK, [Next]_vars, NEW m \in Node, NEW n \in Nat, NEW p \in Nat, n =< p,
         Between(m, n, Emitted)
  PROVE  Between(m, p, Emitted)' /\ nodes' = nodes /\ Node' = Node
<1>1. nodes' = nodes /\ Node' = Node
  BY DEF Next, Need, Emit, CommitRange, NextNode, Finish, vars, Node, N
<1>2. PICK k \in Node : m < k /\ k =< n /\ barrier[k] \in Emitted
  BY DEF Between
<1>3. barrier'[k] = barrier[k]
  BY <1>2 DEF Next, Need, Emit, CommitRange, NextNode, Finish, vars, TypeOK, Emitted
<1>4. k =< p
  BY <1>2 DEF Node
<1> QED BY <1>1, <1>2, <1>3, <1>4 DEF Between, Emitted

LEMMA TrackedStep ==
  ASSUME IInv, [Next]_vars
  PROVE  AccessesTracked'
<1>0. TypeOK /\ nodes' = nodes /\ Node' = Node /\ N' = N /\ i \in Nat /\ i' \in Nat /\ i =< i'
  BY DEF IInv, TypeOK, Next, Need, Emit, CommitRange, NextNode, Finish, vars, Node, N
<1> SUFFICES ASSUME NEW n \in Node, NEW k \in DOMAIN nodes[n], Committed(n, k)'
             PROVE  \/ \A p : p = i' => Between(n, p, Emitted)'
                    \/ Tracked(nodes[n][k])'
  BY <1>0 DEF AccessesTracked
<1> DEFINE c == nodes[n][k]
<1>1. ASSUME Between(n, i, Emitted)
      PROVE  \A p : p = i' => Between(n, p, Emitted)'
  BY <1>0, <1>1, BarriersStay
<1>2. CASE Committed(n, k) /\ Tracked(c)
  <2>1. PICK rs \in states : SameRange(rs, c) /\ (Writes(c) => rs.written)
                             /\ (Reads(c) => rs.read \/ rs.written)
    BY <1>2 DEF Tracked
  <2>2. CASE CommitRange
    <3>1. CASE rs \in states'
      BY <1>0, <2>1, <3>1 DEF Tracked, SameRange
    <3>2. CASE rs \notin states'
      <4>1. Updated(rs, This) \in states'
        BY <2>2, <3>2 DEF CommitRange
      <4>2. rs \in RangeState
        BY <1>0 DEF TypeOK
      <4>3. LET us == Updated(rs, This)
            IN SameRange(us, c) /\ (Writes(c) => us.written) /\ (Reads(c) => us.read \/ us.written)
        BY <2>1, <4>2 DEF Updated, SameRange, RangeState, Reads, Writes
      <4> HIDE DEF c
      <4>4. \E us \in states' : SameRange(us, c) /\ (Writes(c) => us.written)
                                /\ (Reads(c) => us.read \/ us.written)
        BY <4>1, <4>3
      <4> QED BY <1>0, <4>4 DEF Tracked, SameRange, c
    <3> QED BY <3>1, <3>2
  <2>3. CASE Emit
    <3>1. CASE states' = states
      BY <1>0, <2>1, <3>1 DEF Tracked, SameRange
    <3>2. CASE states' # states
      <4>1. i \in Node /\ i' = i /\ barrier'[i] \in Emitted /\ n < i
        BY <1>0, <1>2, <2>3, <3>2 DEF Emit, Emitted, TypeOK, Kinds, Committed
      <4> QED BY <1>0, <4>1 DEF Between, Node
    <3> QED BY <3>1, <3>2
  <2>4. CASE UNCHANGED states
    BY <1>0, <2>1, <2>4 DEF Tracked, SameRange
  <2> QED BY <2>2, <2>3, <2>4 DEF Next, Need, NextNode, Finish, vars
<1>3. CASE ~Committed(n, k)
  <2>1. CommitRange /\ n = i /\ k = j
    <3>1. k \in Nat \ {0} /\ k =< Len(nodes[n]) /\ n \in Nat /\ n =< N /\ N \in Nat
      BY <1>0, AccessIsTyped DEF Node, N, TypeOK
    <3>2. CASE CommitRange
      BY <1>0, <1>3, <3>1, <3>2 DEF Committed, CommitRange, TypeOK
    <3>3. CASE NextNode \/ Emit
      BY <1>0, <1>3, <3>1, <3>3 DEF Committed, NextNode, Emit, TypeOK
    <3>4. CASE Finish
      BY <1>0, <1>3, <3>1, <3>4 DEF Committed, Finish
    <3>5. CASE Need \/ UNCHANGED vars
      BY <1>0, <1>3, <3>5 DEF Committed, Need, vars
    <3> QED BY <3>2, <3>3, <3>4, <3>5 DEF Next
  <2>2. c = This /\ c \in Access
    BY <1>0, <2>1, AccessIsTyped DEF This
  <2> DEFINE same == {rs \in states : SameRange(rs, c)}
  <2>3. PICK rs \in (IF same = {} THEN {Fresh(c)} ELSE same) : Updated(rs, c) \in states'
    BY <2>1, <2>2 DEF CommitRange
  <2>4. SameRange(rs, c) /\ rs \in RangeState
    <3>1. SameRange(Fresh(c), c) /\ Fresh(c) \in RangeState
      BY <2>2 DEF SameRange, Fresh, RangeState, Access
    <3> QED BY <1>0, <2>3, <3>1 DEF TypeOK
  <2>5. LET us == Updated(rs, c)
        IN SameRange(us, c) /\ (Writes(c) => us.written) /\ (Reads(c) => us.read \/ us.written)
    BY <2>4 DEF Updated, SameRange, RangeState, Reads, Writes
  <2>6. \E us \in states' : SameRange(us, c) /\ (Writes(c) => us.written)
                            /\ (Reads(c) => us.read \/ us.written)
    BY <2>3, <2>5
  <2> HIDE DEF c
  <2> QED BY <1>0, <2>6 DEF Tracked, SameRange, c
<1>4. Committed(n, k) => Between(n, i, Emitted) \/ Tracked(c)
  BY DEF IInv, AccessesTracked
<1> QED BY <1>1, <1>2, <1>3, <1>4

LEMMA BatchedStep ==
  ASSUME IInv, [Next]_vars
  PROVE  NeedsBatched'
<1>0. TypeOK /\ nodes' = nodes /\ Node' = Node /\ N' = N /\ i \in Nat
  BY DEF IInv, TypeOK, Next, Need, Emit, CommitRange, NextNode, Finish, vars, Node, N
<1>1. CASE Need
  <2>0. i' = i /\ phase = "need" /\ i \in Node /\ j' = j + 1 /\ barrier' = barrier
        /\ j \in DOMAIN nodes[i] /\ This \in Access
    BY <1>0, <1>1, CursorIsTyped DEF Need
  <2> SUFFICES ASSUME NEW m \in Node, NEW k \in DOMAIN nodes[m], NEW l \in DOMAIN nodes[i],
                      m < i, l < j + 1, AccessConflict(nodes[m][k], nodes[i][l]),
                      ~Between(m, i, Emitted)
               PROVE  batch' # "none"
    BY <1>0, <2>0 DEF NeedsBatched, Between
  <2>1. CASE batch # "none"
    BY <1>1, <2>1 DEF Need
  <2>2. CASE batch = "none"
    <3>1. l = j
      <4>1. l < j => batch # "none" \/ Between(m, i, Emitted)
        BY <2>0 DEF IInv, NeedsBatched
      <4>2. l \in Nat /\ j \in Nat
        BY <1>0, <2>0, AccessIsTyped DEF TypeOK
      <4> QED BY <2>2, <4>1, <4>2
    <3>2. Committed(m, k) /\ nodes[m][k] \in Access
      BY <1>0, AccessIsTyped DEF Committed
    <3>3. Tracked(nodes[m][k])
      BY <3>2 DEF IInv, AccessesTracked
    <3>4. PICK rs \in states : /\ SameRange(rs, nodes[m][k])
                               /\ Writes(nodes[m][k]) => rs.written
                               /\ Reads(nodes[m][k]) => rs.read \/ rs.written
      BY <3>3 DEF Tracked
    <3>5. Overlaps(rs, This)
      BY <3>1, <3>4 DEF AccessConflict, Overlaps, SameRange, This
    <3>6. rs.written \/ (rs.read /\ Writes(This))
      BY <3>1, <3>2, <3>4 DEF AccessConflict, This, Access, Modes, Reads, Writes
    <3>7. NeedsMemory(This) \/ NeedsExecution(This)
      BY <3>5, <3>6 DEF NeedsMemory, NeedsExecution
    <3> QED BY <1>1, <2>2, <3>7 DEF Need
  <2> QED BY <2>1, <2>2
<1>2. CASE NextNode
  <2>1. j' = 1
    BY <1>2 DEF NextNode
  <2>2. \A n \in Node : \A l \in DOMAIN nodes[n] : ~(l < j')
    BY <1>0, <2>1, AccessIsTyped
  <2> QED BY <1>0, <2>2 DEF NeedsBatched
<1>3. CASE Emit \/ CommitRange \/ Finish
  BY <1>3 DEF Emit, CommitRange, Finish, NeedsBatched
<1>4. CASE UNCHANGED vars
  BY <1>0, <1>4 DEF vars, IInv, NeedsBatched, Between
<1> QED BY <1>1, <1>2, <1>3, <1>4 DEF Next

LEMMA SeparatedStep ==
  ASSUME IInv, [Next]_vars
  PROVE  ConflictsAreSeparated'
<1>0. TypeOK /\ nodes' = nodes /\ Node' = Node /\ N' = N /\ i \in Nat
  BY DEF IInv, TypeOK, Next, Need, Emit, CommitRange, NextNode, Finish, vars, Node, N
<1> SUFFICES ASSUME NEW m \in Node, NEW n \in Node, m < n, Planned(n)', Conflict(nodes, m, n)
             PROVE  Between(m, n, Emitted)'
  BY <1>0 DEF ConflictsAreSeparated, Conflict, Emitted
<1>1. CASE Planned(n)
  <2>1. Between(m, n, Emitted)
    BY <1>1 DEF IInv, ConflictsAreSeparated, Emitted
  <2> QED BY <1>0, <2>1, BarriersStay DEF Node
<1>2. CASE ~Planned(n)
  <2>1. Emit /\ n = i
    BY <1>0, <1>2 DEF Planned, TypeOK, Next, Need, Emit, CommitRange, NextNode, Finish, vars, Node, N
  <2>2. PICK k \in DOMAIN nodes[m], l \in DOMAIN nodes[n] : AccessConflict(nodes[m][k], nodes[n][l])
    BY DEF Conflict
  <2>3. l < j
    BY <1>0, <2>1, AccessIsTyped DEF Emit, TypeOK
  <2>4. batch # "none" \/ Between(m, i, Emitted)
    BY <2>1, <2>2, <2>3 DEF IInv, NeedsBatched, Emit
  <2>5. CASE batch # "none"
    <3>1. barrier'[n] \in Emitted
      BY <1>0, <2>1, <2>5 DEF Emit, TypeOK, Kinds, Emitted
    <3> QED BY <1>0, <3>1 DEF Between, Node
  <2>6. CASE Between(m, i, Emitted)
    BY <1>0, <2>1, <2>6, BarriersStay DEF Node
  <2> QED BY <2>4, <2>5, <2>6
<1> QED BY <1>1, <1>2

LEMMA InvInit == Init => IInv
<1> SUFFICES ASSUME Init PROVE IInv
  OBVIOUS
<1>1. TypeOK
  BY TypeInit
<1>2. \A n \in Node : ~Planned(n) /\ \A k \in DOMAIN nodes[n] : ~Committed(n, k) /\ ~(k < j)
  BY <1>1, AccessIsTyped DEF Init, Committed, Planned, Node
<1>3. AccessesTracked /\ NeedsBatched /\ ConflictsAreSeparated
  BY <1>2 DEF AccessesTracked, NeedsBatched, ConflictsAreSeparated
<1> QED BY <1>1, <1>3 DEF IInv, Init

LEMMA InvStep == IInv /\ [Next]_vars => IInv'
<1> SUFFICES ASSUME IInv, [Next]_vars PROVE IInv'
  OBVIOUS
<1>1. TypeOK'
  BY TypeStep DEF IInv
<1>2. phase' = "planned" => i' = (N + 1)'
  BY DEF IInv, N, Next, Need, Emit, CommitRange, NextNode, Finish, vars
<1> QED BY <1>1, <1>2, TrackedStep, BatchedStep, SeparatedStep DEF IInv

(* Type correctness of the barrier walk (planBarriers) for every recording.  *)
THEOREM TypeCorrect == Spec => []TypeOK
BY TypeInit, TypeStep, PTL DEF Spec

(* Soundness of the barrier walk (planBarriers): in every recording, any two
   conflicting nodes have a barrier between them as soon as the second one's
   barrier is decided.                                                       *)
THEOREM BarriersAreSound == Spec => []ConflictsAreSeparated
<1>1. IInv => ConflictsAreSeparated
  BY DEF IInv
<1> QED BY <1>1, InvInit, InvStep, PTL DEF Spec
-----------------------------------------------------------------------------
(* Maxima and minima of the sets the plan takes them of.                     *)

\* A nonempty set of naturals has a least element (its down-sets are finite).
LEMMA MinOfNaturals ==
  ASSUME NEW S \in SUBSET Nat, S # {}
  PROVE  Min(S) \in S /\ \A x \in S : Min(S) =< x
<1> DEFINE T == {0 .. k : k \in S}
<1>1. \A k \in S : 0 .. k \in FiniteSubsetsOf(Nat)
  <2>1. \A k \in Nat : IsFiniteSet(0 .. k) /\ 0 .. k \subseteq Nat
    BY FS_Interval
  <2> QED BY <2>1 DEF FiniteSubsetsOf
<1>2. T \subseteq FiniteSubsetsOf(Nat) /\ T # {}
  <2>1. \A z \in T : z \in FiniteSubsetsOf(Nat) BY <1>1
  <2>2. PICK k \in S : TRUE OBVIOUS
  <2>3. 0 .. k \in T BY <2>2
  <2> QED BY <2>1, <2>3
<1>3. \E x \in T : \A y \in T : <<y, x>> \notin StrictSubsetOrdering(Nat)
  <2> HIDE DEF T
  <2> QED BY <1>2, FS_StrictSubsetOrderingWellFounded, WFMin
<1>4. PICK k \in S : \A l \in S : <<0 .. l, 0 .. k>> \notin StrictSubsetOrdering(Nat)
  BY <1>3
<1>5. ASSUME NEW l \in S, ~(k =< l) PROVE FALSE
  <2>1. 0 .. l \subseteq 0 .. k /\ k \in 0 .. k /\ k \notin 0 .. l BY <1>5
  <2>2. <<0 .. l, 0 .. k>> \in StrictSubsetOrdering(Nat)
    BY <2>1 DEF StrictSubsetOrdering
  <2> QED BY <1>4, <2>2
<1>6. \A l \in S : k =< l BY <1>5
<1> QED BY <1>6 DEF Min

\* And one bounded from above a greatest.
LEMMA MaxOfBounded ==
  ASSUME NEW B \in Nat, NEW S \in SUBSET Nat, S # {}, \A x \in S : x =< B
  PROVE  Max(S) \in S /\ \A x \in S : x =< Max(S)
<1> DEFINE D == {B - x : x \in S}
<1>1. D \subseteq Nat /\ D # {}
  <2>1. \A d \in D : d \in Nat OBVIOUS
  <2>2. PICK x \in S : TRUE OBVIOUS
  <2>3. B - x \in D OBVIOUS
  <2> QED BY <2>1, <2>3
<1>2. Min(D) \in D /\ \A d \in D : Min(D) =< d
  <2> HIDE DEF D
  <2> QED BY <1>1, MinOfNaturals
<1>3. PICK m \in S : Min(D) = B - m
  BY <1>2
<1>4. \A x \in S : B - m =< B - x
  BY <1>2, <1>3
<1>5. \A x \in S : x =< m
  BY <1>4
<1> QED BY <1>5 DEF Max
LEMMA AlignUpRounds ==
  ASSUME NEW n \in Nat
  PROVE  AlignUp(n) \in Nat /\ n =< AlignUp(n) /\ AlignUp(n) =< n + Align
<1> DEFINE x == n + Align - 1
<1>1. x \in Nat /\ Align \in Nat \ {0}
  BY TransientsAssumption
<1>2. x \div Align \in Nat /\ x % Align \in 0 .. Align - 1
      /\ x = Align * (x \div Align) + (x % Align)
  <2> HIDE DEF x
  <2> QED BY <1>1
<1>3. AlignUp(n) = Align * (x \div Align)
  <2>1. \A p, q \in Nat : p * q = q * p OBVIOUS
  <2> QED BY <1>1, <1>2, <2>1 DEF AlignUp
<1>4. AlignUp(n) = x - (x % Align)
  <2> HIDE DEF x
  <2> QED BY <1>1, <1>2, <1>3
<1> QED BY <1>1, <1>2, <1>4

-----------------------------------------------------------------------------
(* The plan.                                                                 *)

\* Reachability runs forwards in record order.
ReachRunsForwards == \A m, n \in Node : <<m, n>> \in reach => m < n

\* Pool offsets are bounded, so that the top of the pool exists.
PoolIsBounded == \E B \in Nat : \A t \in Placed : End(t) =< B

\* Only the packed plan shares bytes, and only between compatible transients.
SharersAreCompatible ==
  \A a, b \in Placed : a # b /\ ShareBytes(a, b) => ~naive /\ Compatible(a, b)

\* What each pass of Build leaves for the ones after it.
PassesHold ==
  /\ stage \in {"infer", "check", "barriers"} => IInv /\ Placed = {}
  /\ stage \in {"barriers", "place", "handover", "built"} => TransientsAreWritten
  /\ stage \in {"place", "handover", "built"} =>
       \A m, n \in Node : m < n /\ Conflict(nodes, m, n) => Between(m, n, Emitted)
  /\ stage \in {"handover", "built"} => Placed = Transients
  /\ stage = "built" /\ ~naive => \A n \in Node \intersect HandoverNodes : barrier[n] = "memory"

PlanInv ==
  /\ PlanTypeOK /\ WithinTransients(nodes, bytes)
  /\ ReachRunsForwards /\ PoolIsBounded /\ SharersAreCompatible
  /\ PassesHold

LEMMA EndsAreTyped ==
  ASSUME PlanTypeOK
  PROVE  /\ \A t \in Transients : AlignUp(bytes[t]) \in Nat \ {0} /\ bytes[t] \in Nat
                                  /\ bytes[t] =< AlignUp(bytes[t])
         /\ \A t \in Placed : t \in Transients /\ offset[t] \in Nat /\ End(t) \in Nat
                               /\ offset[t] < End(t)
<1>1. \A t \in Transients : bytes[t] \in Nat \ {0}
  BY TransientsAssumption DEF PlanTypeOK
<1>2. \A t \in Transients : AlignUp(bytes[t]) \in Nat \ {0} /\ bytes[t] =< AlignUp(bytes[t])
  BY <1>1, AlignUpRounds
<1>3. \A t \in Placed : t \in Transients /\ offset[t] \in Nat
  BY DEF Placed, PlanTypeOK
<1> QED BY <1>1, <1>2, <1>3 DEF End

LEMMA PastAllIsPast ==
  ASSUME PlanTypeOK, PoolIsBounded, NEW us \in SUBSET Placed
  PROVE  PastAll(us) \in Nat /\ \A u \in us : End(u) =< PastAll(us)
<1> DEFINE S == {0} \union {AlignUp(End(u)) : u \in us}
<1>1. PICK B \in Nat : \A u \in Placed : End(u) =< B
  BY DEF PoolIsBounded
<1>2. \A u \in us : AlignUp(End(u)) \in Nat /\ End(u) =< AlignUp(End(u))
                     /\ AlignUp(End(u)) =< B + Align
  <2> SUFFICES ASSUME NEW u \in us
               PROVE  AlignUp(End(u)) \in Nat /\ End(u) =< AlignUp(End(u))
                      /\ AlignUp(End(u)) =< B + Align
    OBVIOUS
  <2>1. End(u) \in Nat /\ End(u) =< B
    BY <1>1, EndsAreTyped
  <2>2. /\ AlignUp(End(u)) \in Nat /\ End(u) =< AlignUp(End(u))
        /\ AlignUp(End(u)) =< End(u) + Align
    BY <2>1, AlignUpRounds
  <2> QED BY <2>1, <2>2, TransientsAssumption
<1>3. S \in SUBSET Nat /\ S # {} /\ B + Align \in Nat /\ \A x \in S : x =< B + Align
  BY <1>2, TransientsAssumption
<1>4. Max(S) \in S /\ \A x \in S : x =< Max(S)
  <2> HIDE DEF S
  <2> QED BY <1>3, MaxOfBounded
<1>5. \A u \in us : AlignUp(End(u)) =< Max(S)
  BY <1>4
<1>6. Max(S) \in Nat
  BY <1>3, <1>4
<1>7. PastAll(us) = Max(S)
  BY DEF PastAll
<1> HIDE DEF S
<1>8. \A u \in us : End(u) =< Max(S)
  BY <1>2, <1>5, <1>6, EndsAreTyped
<1> QED BY <1>6, <1>7, <1>8

\* The offset the scan returns misses every interfering placement: those below
\* the stop end before it, the others start behind the gap.
LEMMA LowestFreeOffsetIsFree ==
  ASSUME PlanTypeOK, PoolIsBounded, NEW t \in Transients
  PROVE  /\ LowestFreeOffset(t) \in Nat
         /\ \A u \in Interfering(t) :
              \/ End(u) =< LowestFreeOffset(t)
              \/ LowestFreeOffset(t) + AlignUp(bytes[t]) =< offset[u]
<1> DEFINE below(o) == {u \in Interfering(t) : offset[u] < o}
           stops == {o \in {offset[u] : u \in Interfering(t)} :
                       PastAll(below(o)) + AlignUp(bytes[t]) =< o}
<1>1. Interfering(t) \subseteq Placed
  BY DEF Interfering
<1>2. LowestFreeOffset(t) = PastAll(IF stops = {} THEN Interfering(t) ELSE below(Min(stops)))
  BY DEF LowestFreeOffset
<1>3. CASE stops = {}
  <2>1. LowestFreeOffset(t) = PastAll(Interfering(t)) BY <1>2, <1>3
  <2> QED BY <2>1, <1>1, PastAllIsPast
<1>4. CASE stops # {}
  <2>1. stops \in SUBSET Nat
    BY <1>1, EndsAreTyped
  <2> DEFINE o == Min(stops)
  <2>2. o \in stops
    <3> HIDE DEF stops
    <3> QED BY <1>4, <2>1, MinOfNaturals
  <2>3. o \in Nat /\ PastAll(below(o)) + AlignUp(bytes[t]) =< o
    BY <2>1, <2>2
  <2>4. LowestFreeOffset(t) = PastAll(below(o))
    BY <1>2, <1>4
  <2> HIDE DEF o
  <2>5. \A u \in below(o) : End(u) =< PastAll(below(o))
    BY <1>1, PastAllIsPast
  <2>6. PastAll(below(o)) \in Nat
    BY <1>1, PastAllIsPast
  <2>7. ASSUME NEW u \in Interfering(t), u \notin below(o)
        PROVE  PastAll(below(o)) + AlignUp(bytes[t]) =< offset[u]
    <3>1. o =< offset[u] /\ offset[u] \in Nat
      BY <1>1, <2>3, <2>7, EndsAreTyped
    <3>2. AlignUp(bytes[t]) \in Nat BY EndsAreTyped
    <3> HIDE DEF below
    <3> QED BY <2>3, <2>6, <3>1, <3>2
  <2> QED BY <2>4, <2>5, <2>6, <2>7
<1> QED BY <1>3, <1>4

LEMMA PoolTotalIsPast ==
  ASSUME PlanTypeOK, PoolIsBounded
  PROVE  PoolTotal \in Nat /\ \A u \in Placed : End(u) =< PoolTotal
<1>1. CASE Placed = {}
  BY <1>1 DEF PoolTotal
<1>2. CASE Placed # {}
  <2> DEFINE S == {End(u) : u \in Placed}
  <2>1. PICK B \in Nat : \A u \in Placed : End(u) =< B
    BY DEF PoolIsBounded
  <2>2. S \in SUBSET Nat /\ S # {} /\ \A x \in S : x =< B
    <3>1. PICK u \in Placed : TRUE BY <1>2
    <3>2. End(u) \in S OBVIOUS
    <3> QED BY <2>1, <3>2, EndsAreTyped
  <2>3. Max(S) \in S /\ \A x \in S : x =< Max(S)
    <3> HIDE DEF S
    <3> QED BY <2>2, MaxOfBounded
  <2>4. Max(S) \in Nat /\ \A u \in Placed : End(u) =< Max(S)
    BY <2>2, <2>3
  <2>5. PoolTotal = AlignUp(Max(S))
    BY <1>2 DEF PoolTotal
  <2> HIDE DEF S
  <2>6. AlignUp(Max(S)) \in Nat /\ Max(S) =< AlignUp(Max(S))
    BY <2>4, AlignUpRounds
  <2> QED BY <2>4, <2>5, <2>6, EndsAreTyped
<1> QED BY <1>1, <1>2
\* What a pass other than the barrier walk leaves alone.
LEMMA WalkUnchanged ==
  ASSUME UNCHANGED vars
  PROVE  /\ nodes' = nodes /\ barrier' = barrier /\ Node' = Node /\ N' = N
         /\ TypeOK => TypeOK'
         /\ IInv => IInv'
<1>1. nodes' = nodes /\ barrier' = barrier /\ Node' = Node /\ N' = N
  BY DEF vars, Node, N
<1>2. TypeOK => TypeOK' BY TypeStep
<1>3. IInv => IInv' BY InvStep
<1> QED BY <1>1, <1>2, <1>3

LEMMA PlanInvInit == PlanInit => PlanInv
<1> SUFFICES ASSUME PlanInit PROVE PlanInv
  OBVIOUS
<1>1. IInv /\ TypeOK
  BY InvInit DEF PlanInit, IInv
<1>2. Len(nodes) \in Nat
  BY <1>1 DEF TypeOK
<1>3. PlanTypeOK
  BY <1>1, <1>2 DEF PlanInit, PlanTypeOK, Node, N
<1>4. Placed = {}
  BY DEF PlanInit, Placed
<1>5. PoolIsBounded
  <2>1. 0 \in Nat OBVIOUS
  <2> QED BY <1>4, <2>1 DEF PoolIsBounded
<1>6. ReachRunsForwards /\ SharersAreCompatible /\ WithinTransients(nodes, bytes)
  BY <1>4 DEF PlanInit, ReachRunsForwards, SharersAreCompatible
<1>7. PassesHold
  BY <1>1, <1>4 DEF PlanInit, PassesHold
<1> QED BY <1>3, <1>5, <1>6, <1>7 DEF PlanInv

LEMMA CloseRowKeepsPlan ==
  ASSUME PlanInv, CloseRow
  PROVE  PlanInv'
<1>1. /\ nodes' = nodes /\ barrier' = barrier /\ Node' = Node /\ N' = N
      /\ TypeOK' /\ IInv'
  BY WalkUnchanged DEF CloseRow, PlanInv, PlanTypeOK, PassesHold
<1> DEFINE succ == ConflictsAfter(row)
           new == {<<row, n>> : n \in succ \union UNION {RowOf(s) : s \in succ}}
<1>2. /\ reach' = reach \union new /\ row' = row - 1 /\ row \in Node
      /\ UNCHANGED <<naive, bytes, offset, stage>> /\ stage = "infer"
  BY DEF CloseRow
<1>3. \A n \in succ \union UNION {RowOf(s) : s \in succ} : n \in Node /\ row < n
  <2>1. \A n \in succ : n \in Node /\ row < n
    BY DEF ConflictsAfter
  <2>2. ASSUME NEW s \in succ, NEW n \in RowOf(s) PROVE n \in Node /\ row < n
    <3>1. n \in Node /\ s < n /\ row < s
      BY <2>1 DEF RowOf, PlanInv, ReachRunsForwards
    <3> QED BY <1>2, <2>1, <3>1 DEF Node
  <2> QED BY <2>1, <2>2
<1>4. ReachRunsForwards' /\ reach' \subseteq Node \X Node
  <2>1. \A e \in new : e \in Node \X Node /\ e[1] < e[2]
    BY <1>2, <1>3
  <2>2. \A m, n \in Node : <<m, n>> \in new => m < n
    <3> HIDE DEF new
    <3> SUFFICES ASSUME NEW m \in Node, NEW n \in Node, <<m, n>> \in new PROVE m < n
      OBVIOUS
    <3>1. <<m, n>>[1] < <<m, n>>[2] BY <2>1
    <3> QED BY <3>1
  <2> HIDE DEF new
  <2>3. reach' \subseteq Node \X Node
    BY <1>2, <2>1 DEF PlanInv, PlanTypeOK
  <2>4. ReachRunsForwards'
    BY <1>1, <1>2, <2>2 DEF PlanInv, ReachRunsForwards
  <2> QED BY <2>3, <2>4
<1>5. PlanTypeOK'
  <2>1. N \in Nat
    BY DEF PlanInv, PlanTypeOK, TypeOK, N
  <2>2. row' \in Node \union {0}
    BY <1>2, <2>1 DEF Node
  <2> QED BY <1>1, <1>2, <1>4, <2>2 DEF PlanInv, PlanTypeOK
<1>6. Placed = {} /\ Placed' = {}
  BY <1>2 DEF PlanInv, PassesHold, Placed
<1>7. PoolIsBounded' /\ SharersAreCompatible'
  <2>1. 0 \in Nat OBVIOUS
  <2> QED BY <1>6, <2>1 DEF PoolIsBounded, SharersAreCompatible
<1>8. PassesHold'
  BY <1>1, <1>2, <1>6 DEF PassesHold
<1> QED BY <1>1, <1>2, <1>4, <1>5, <1>7, <1>8 DEF PlanInv, WithinTransients

\* A step that leaves the rows, the sizes, the recording and the placements
\* alone, whatever it does to the barriers, keeps the rest of the invariant.
LEMMA SameLayout ==
  ASSUME PlanInv, UNCHANGED <<nodes, naive, bytes, reach, row, offset>>
  PROVE  /\ Node' = Node /\ N' = N /\ Placed' = Placed
         /\ WithinTransients(nodes, bytes)' /\ ReachRunsForwards' /\ PoolIsBounded'
         /\ SharersAreCompatible' /\ HandoverNodes' = HandoverNodes
         /\ TransientsAreWritten' = TransientsAreWritten
         /\ TypeOK' /\ stage' \in {"infer", "check", "barriers", "place",
                                  "handover", "built", "refused"} => PlanTypeOK'
<1>1. Node' = Node /\ N' = N /\ Placed' = Placed
  BY DEF Node, N, Placed
<1>2. WithinTransients(nodes, bytes)' /\ ReachRunsForwards'
  BY <1>1 DEF PlanInv, WithinTransients, ReachRunsForwards
<1>3. \A t : End(t)' = End(t) /\ (offset[t])' = offset[t]
  BY DEF End, AlignUp
<1>4. PoolIsBounded'
  BY <1>1, <1>3 DEF PlanInv, PoolIsBounded
<1>5. \A t : Users(t)' = Users(t)
  BY <1>1 DEF Users, Touches
<1>6. \A a, b : ShareBytes(a, b)' = ShareBytes(a, b) /\ Compatible(a, b)' = Compatible(a, b)
  BY <1>3, <1>5 DEF ShareBytes, Compatible, AllBefore
<1>7. SharersAreCompatible'
  BY <1>1, <1>6 DEF PlanInv, SharersAreCompatible
<1>8. HandoverNodes' = HandoverNodes
  BY <1>5, <1>6 DEF HandoverNodes, FirstUser
<1>9. TransientsAreWritten' = TransientsAreWritten
  <2>1. \A n, a : CoveredRead(n, a)' = CoveredRead(n, a)
    BY <1>5 DEF CoveredRead
  <2> QED BY <1>1, <2>1 DEF TransientsAreWritten
<1>10. TypeOK' /\ stage' \in {"infer", "check", "barriers", "place",
                              "handover", "built", "refused"} => PlanTypeOK'
  BY <1>1 DEF PlanInv, PlanTypeOK
<1> QED BY <1>1, <1>2, <1>4, <1>7, <1>8, <1>9, <1>10
LEMMA EarlyStagesKeepPlan ==
  ASSUME PlanInv, Inferred \/ Check \/ PlanBarriers
  PROVE  PlanInv'
<1>1. /\ UNCHANGED <<nodes, naive, bytes, reach, row, offset>>
      /\ stage \in {"infer", "check", "barriers"}
      /\ stage' \in {"check", "barriers", "place", "refused"}
      /\ IInv'
  <2>1. CASE Inferred
    BY <2>1, WalkUnchanged DEF Inferred, vars, PlanInv, PassesHold
  <2>2. CASE Check
    BY <2>2, WalkUnchanged DEF Check, vars, PlanInv, PassesHold
  <2>3. CASE PlanBarriers
    <3>1. nodes' = nodes
      BY <2>3 DEF PlanBarriers, Next, Need, Emit, CommitRange, NextNode, Finish
    <3>2. IInv'
      BY <2>3, InvStep DEF PlanBarriers, PlanInv, PassesHold
    <3> QED BY <2>3, <3>1, <3>2 DEF PlanBarriers
  <2> QED BY <2>1, <2>2, <2>3
<1>2. TypeOK'
  BY <1>1 DEF IInv
<1>3. /\ PlanTypeOK' /\ WithinTransients(nodes, bytes)' /\ ReachRunsForwards'
      /\ PoolIsBounded' /\ SharersAreCompatible' /\ Placed' = Placed /\ Placed = {}
      /\ Node' = Node /\ TransientsAreWritten' = TransientsAreWritten
  BY <1>1, <1>2, SameLayout DEF PlanInv, PassesHold
<1>4. stage' \in {"barriers", "place"} => TransientsAreWritten
  BY DEF Inferred, Check, PlanBarriers, PlanInv, PassesHold
<1>5. ASSUME stage' = "place", NEW m \in Node, NEW n \in Node, m < n, Conflict(nodes, m, n)
      PROVE  Between(m, n, Emitted)'
  <2>1. phase' = "planned"
    BY <1>5 DEF Inferred, Check, PlanBarriers
  <2>2. ConflictsAreSeparated' /\ Planned(n)'
    BY <1>1, <2>1 DEF IInv, Planned
  <2> QED BY <1>1, <1>3, <1>5, <2>2 DEF ConflictsAreSeparated, Conflict, Emitted
<1>6. PassesHold'
  BY <1>1, <1>3, <1>4, <1>5 DEF PassesHold, Conflict
<1> QED BY <1>3, <1>6 DEF PlanInv

LEMMA SerialBarriersKeepPlan ==
  ASSUME PlanInv, PlanSerialBarriers
  PROVE  PlanInv'
<1>1. /\ UNCHANGED <<nodes, j, states, batch, naive, bytes, reach, row, offset>>
      /\ naive /\ stage = "barriers" /\ stage' = "place"
      /\ phase' = "planned" /\ i' = N + 1 /\ barrier' = [n \in Node |-> "memory"]
  BY DEF PlanSerialBarriers
<1>2. TypeOK /\ TypeOK' /\ N \in Nat
  BY <1>1 DEF PlanInv, PlanTypeOK, TypeOK, N, Node, Kinds
<1>3. /\ PlanTypeOK' /\ WithinTransients(nodes, bytes)' /\ ReachRunsForwards'
      /\ PoolIsBounded' /\ SharersAreCompatible' /\ Node' = Node
      /\ TransientsAreWritten' = TransientsAreWritten
  BY <1>1, <1>2, SameLayout
<1>4. \A m, n \in Node : m < n => Between(m, n, Emitted)'
  <2> SUFFICES ASSUME NEW m \in Node, NEW n \in Node, m < n PROVE Between(m, n, Emitted)'
    OBVIOUS
  <2>1. barrier'[n] \in Emitted /\ n =< n
    BY <1>1 DEF Emitted, Node
  <2> QED BY <1>3, <2>1 DEF Between
<1>5. PassesHold'
  BY <1>1, <1>3, <1>4 DEF PlanInv, PassesHold, Conflict
<1> QED BY <1>3, <1>5 DEF PlanInv

LEMMA LateStagesKeepPlan ==
  ASSUME PlanInv, FinishPlacing \/ PlanHandovers
  PROVE  PlanInv'
<1>1. /\ UNCHANGED <<nodes, naive, bytes, reach, row, offset>>
      /\ stage \in {"place", "handover"} /\ stage' \in {"handover", "built", "refused"}
  BY DEF FinishPlacing, PlanHandovers, vars
<1>2. \A n \in Node : barrier[n] \in Emitted => barrier'[n] \in Emitted
  BY DEF FinishPlacing, PlanHandovers, vars, Emitted
<1>3. TypeOK'
  <2>1. barrier' \in [Node -> Kinds]
    BY DEF FinishPlacing, PlanHandovers, vars, PlanInv, PlanTypeOK, TypeOK, Kinds
  <2> QED BY <2>1 DEF FinishPlacing, PlanHandovers, vars, PlanInv, PlanTypeOK, TypeOK, N, Node
<1>4. /\ PlanTypeOK' /\ WithinTransients(nodes, bytes)' /\ ReachRunsForwards'
      /\ PoolIsBounded' /\ SharersAreCompatible' /\ Placed' = Placed /\ Node' = Node
      /\ TransientsAreWritten' = TransientsAreWritten /\ HandoverNodes' = HandoverNodes
  BY <1>1, <1>3, SameLayout
<1>5. ASSUME NEW m \in Node, NEW n \in Node, m < n, Conflict(nodes, m, n)
      PROVE  Between(m, n, Emitted)'
  <2>1. Between(m, n, Emitted)
    BY <1>1, <1>5 DEF PlanInv, PassesHold
  <2> QED BY <1>2, <1>4, <2>1 DEF Between
<1>6. stage' \in {"handover", "built"} => Placed = Transients
  BY DEF FinishPlacing, PlanHandovers, PlanInv, PassesHold
<1>7. stage' = "built" /\ ~naive => \A n \in Node \intersect HandoverNodes : barrier'[n] = "memory"
  BY DEF FinishPlacing, PlanHandovers
<1>8. TransientsAreWritten
  BY <1>1 DEF PlanInv, PassesHold
<1>9. PassesHold'
  <2>1. \A m, n \in Node : m < n /\ Conflict(nodes, m, n)' => Between(m, n, Emitted)'
    BY <1>1, <1>5 DEF Conflict
  <2>2. Transients' = Transients /\ naive' = naive
    BY <1>1
  <2> QED BY <1>1, <1>4, <1>6, <1>7, <1>8, <2>1, <2>2 DEF PassesHold
<1> QED BY <1>4, <1>9 DEF PlanInv

\* A transient put where it meets only compatible ones keeps the layout sound.
LEMMA PlacingKeepsPlan ==
  ASSUME PlanInv, stage = "place", UNCHANGED <<vars, naive, bytes, reach, row, stage>>,
         NEW t \in Transients \ Placed, NEW at \in Nat,
         offset' = [offset EXCEPT ![t] = at],
         \A u \in Placed : \/ ~naive /\ Compatible(t, u)
                           \/ End(u) =< at
                           \/ at + AlignUp(bytes[t]) =< offset[u]
  PROVE  PlanInv'
<1>1. PlanTypeOK' /\ nodes' = nodes /\ barrier' = barrier /\ Node' = Node
  <2>1. nodes' = nodes /\ barrier' = barrier /\ Node' = Node /\ N' = N /\ TypeOK'
    BY WalkUnchanged DEF PlanInv, PlanTypeOK
  <2>2. offset' \in [Transients -> Nat \union {Unplaced}]
    BY DEF PlanInv, PlanTypeOK
  <2> QED BY <2>1, <2>2 DEF PlanInv, PlanTypeOK
<1>2. WithinTransients(nodes, bytes)' /\ ReachRunsForwards'
  BY <1>1 DEF PlanInv, WithinTransients, ReachRunsForwards
<1>3. /\ \A u \in Placed : u # t /\ offset'[u] = offset[u] /\ End(u)' = End(u)
      /\ offset'[t] = at /\ End(t)' = at + AlignUp(bytes[t])
      /\ Placed' = Placed \union {t}
  BY DEF PlanInv, PlanTypeOK, Placed, End, AlignUp, Unplaced
<1>4. PlanTypeOK /\ AlignUp(bytes[t]) \in Nat
  BY EndsAreTyped DEF PlanInv
<1>5. PoolIsBounded'
  <2>1. PICK B \in Nat : \A u \in Placed : End(u) =< B
    BY DEF PlanInv, PoolIsBounded
  <2>2. \A u \in Placed : End(u)' =< B + (at + AlignUp(bytes[t]))
    BY <1>3, <1>4, <2>1, EndsAreTyped
  <2>3. End(t)' =< B + (at + AlignUp(bytes[t])) /\ B + (at + AlignUp(bytes[t])) \in Nat
    BY <1>3, <1>4
  <2> QED BY <1>3, <2>2, <2>3 DEF PoolIsBounded
<1>6. \A a, b : Compatible(a, b)' = Compatible(a, b)
  <2>1. \A a : Users(a)' = Users(a) BY <1>1 DEF Users, Touches
  <2> QED BY <2>1 DEF Compatible, AllBefore
<1>7. \A a, b : Compatible(a, b) = Compatible(b, a)
  BY DEF Compatible
<1>8. ASSUME NEW u \in Placed, ShareBytes(t, u)' \/ ShareBytes(u, t)'
      PROVE  ~naive /\ Compatible(t, u)
  <2>1. at < End(u) /\ offset[u] < at + AlignUp(bytes[t])
    BY <1>3, <1>8 DEF ShareBytes
  <2> QED BY <1>4, <2>1, EndsAreTyped
<1>9. SharersAreCompatible'
  <2> SUFFICES ASSUME NEW a \in Placed \union {t}, NEW b \in Placed \union {t},
                      a # b, ShareBytes(a, b)'
               PROVE  ~naive /\ Compatible(a, b)
    BY <1>3, <1>6 DEF SharersAreCompatible
  <2>1. CASE a \in Placed /\ b \in Placed
    <3>1. ShareBytes(a, b) BY <1>3, <2>1 DEF ShareBytes
    <3> QED BY <2>1, <3>1 DEF PlanInv, SharersAreCompatible
  <2>2. CASE a = t \/ b = t
    BY <1>7, <1>8, <2>2
  <2> QED BY <2>1, <2>2
<1>10. PassesHold'
  <2>1. TransientsAreWritten'
    <3>1. \A n, a : CoveredRead(n, a)' = CoveredRead(n, a)
      BY <1>1 DEF CoveredRead, Users, Touches
    <3> QED BY <1>1, <3>1 DEF TransientsAreWritten, PlanInv, PassesHold
  <2>2. \A m, n \in Node : m < n /\ Conflict(nodes, m, n) => Between(m, n, Emitted)'
    BY <1>1 DEF PlanInv, PassesHold, Between
  <2> QED BY <1>1, <2>1, <2>2 DEF PassesHold, Conflict
<1> QED BY <1>1, <1>2, <1>5, <1>9, <1>10 DEF PlanInv
LEMMA PackNextKeepsPlan ==
  ASSUME PlanInv, PackNext
  PROVE  PlanInv'
<1>1. PICK t \in Transients \ Placed : offset' = [offset EXCEPT ![t] = LowestFreeOffset(t)]
  BY DEF PackNext
<1>2. /\ LowestFreeOffset(t) \in Nat
      /\ \A u \in Interfering(t) : \/ End(u) =< LowestFreeOffset(t)
                                  \/ LowestFreeOffset(t) + AlignUp(bytes[t]) =< offset[u]
  BY LowestFreeOffsetIsFree DEF PlanInv
<1>3. stage = "place" /\ ~naive /\ UNCHANGED <<vars, naive, bytes, reach, row, stage>>
  BY DEF PackNext
<1>4. \A u \in Placed : ~Compatible(t, u) => u \in Interfering(t)
  BY DEF Interfering
<1> QED BY <1>1, <1>2, <1>3, <1>4, PlacingKeepsPlan

LEMMA PlaceConsecutivelyKeepsPlan ==
  ASSUME PlanInv, PlaceConsecutively
  PROVE  PlanInv'
<1> DEFINE left == {p \in DOMAIN Declared : Declared[p] \notin Placed}
           k == Min(left)
<1>1. left \in SUBSET Nat /\ left # {}
  <2>1. DOMAIN Declared \in SUBSET Nat
    BY TransientsAssumption
  <2>2. Placed # Transients /\ Placed \subseteq Transients
    BY DEF PlaceConsecutively, Placed
  <2>3. PICK t \in Transients : t \notin Placed
    BY <2>2
  <2>4. PICK p \in DOMAIN Declared : Declared[p] = t
    BY DEF Transients, Range
  <2> QED BY <2>1, <2>3, <2>4
<1>2. k \in left
  <2> HIDE DEF left
  <2> QED BY <1>1, MinOfNaturals
<1>3. Declared[k] \in Transients \ Placed
  BY <1>2 DEF Transients, Range
<1>4. offset' = [offset EXCEPT ![Declared[k]] = PoolTotal]
  BY DEF PlaceConsecutively
<1>5. PoolTotal \in Nat /\ \A u \in Placed : End(u) =< PoolTotal
  BY PoolTotalIsPast DEF PlanInv
<1>6. stage = "place" /\ UNCHANGED <<vars, naive, bytes, reach, row, stage>>
  BY DEF PlaceConsecutively
<1> HIDE DEF k
<1> QED BY <1>3, <1>4, <1>5, <1>6, PlacingKeepsPlan

LEMMA PlanInvStep == PlanInv /\ [PlanNext]_allVars => PlanInv'
<1> SUFFICES ASSUME PlanInv, [PlanNext]_allVars PROVE PlanInv'
  OBVIOUS
<1>1. CASE CloseRow
  BY <1>1, CloseRowKeepsPlan
<1>2. CASE Inferred \/ Check \/ PlanBarriers
  BY <1>2, EarlyStagesKeepPlan
<1>3. CASE PlanSerialBarriers
  BY <1>3, SerialBarriersKeepPlan
<1>4. CASE PackNext
  BY <1>4, PackNextKeepsPlan
<1>5. CASE PlaceConsecutively
  BY <1>5, PlaceConsecutivelyKeepsPlan
<1>6. CASE FinishPlacing \/ PlanHandovers
  BY <1>6, LateStagesKeepPlan
<1>7. CASE UNCHANGED allVars
  <2>1. UNCHANGED vars /\ UNCHANGED <<nodes, naive, bytes, reach, row, offset>> /\ stage' = stage
    BY <1>7 DEF allVars, planVars, vars
  <2>2. barrier' = barrier /\ (TypeOK => TypeOK') /\ (IInv => IInv')
    BY <2>1, WalkUnchanged
  <2>3. TypeOK'
    BY <2>2 DEF PlanInv, PlanTypeOK
  <2>4. /\ PlanTypeOK' /\ WithinTransients(nodes, bytes)' /\ ReachRunsForwards'
        /\ PoolIsBounded' /\ SharersAreCompatible' /\ Placed' = Placed /\ Node' = Node
        /\ TransientsAreWritten' = TransientsAreWritten /\ HandoverNodes' = HandoverNodes
    BY <2>1, <2>3, SameLayout DEF PlanInv, PlanTypeOK
  <2>5. \A m, n \in Node : /\ Conflict(nodes, m, n)' = Conflict(nodes, m, n)
                           /\ Between(m, n, Emitted)' = Between(m, n, Emitted)
    BY <2>1, <2>2, <2>4 DEF Conflict, Between
  <2>6. PassesHold'
    BY <2>1, <2>2, <2>4, <2>5 DEF PlanInv, PassesHold
  <2> QED BY <2>4, <2>6 DEF PlanInv
<1> QED BY <1>1, <1>2, <1>3, <1>4, <1>5, <1>6, <1>7 DEF PlanNext

\* The users of a transient are nodes, and the first and last are among them.
LEMMA UsersHaveEnds ==
  ASSUME PlanTypeOK, NEW t, Users(t) # {}
  PROVE  /\ Users(t) \subseteq Node
         /\ FirstUser(t) \in Users(t) /\ LastUser(t) \in Users(t)
         /\ \A n \in Users(t) : FirstUser(t) =< n /\ n =< LastUser(t)
<1>1. Users(t) \subseteq Node
  BY DEF Users
<1>2. N \in Nat
  BY DEF PlanTypeOK, TypeOK, N
<1>3. Users(t) \in SUBSET Nat /\ \A n \in Users(t) : n =< N
  BY <1>1, <1>2 DEF Node
<1>4. Min(Users(t)) \in Users(t) /\ \A n \in Users(t) : Min(Users(t)) =< n
  BY <1>3, MinOfNaturals
<1>5. Max(Users(t)) \in Users(t) /\ \A n \in Users(t) : n =< Max(Users(t))
  BY <1>2, <1>3, MaxOfBounded
<1> QED BY <1>1, <1>4, <1>5 DEF FirstUser, LastUser

\* Two transients that share bytes in a finished plan hand them over at the
\* first user of the later one, behind a full barrier.
LEMMA SharersHandOver ==
  ASSUME PlanInv, stage = "built", NEW a \in Transients, NEW b \in Transients, a # b,
         ShareBytes(a, b), Users(a) # {}, Users(b) # {}, AllBefore(a, b)
  PROVE  /\ LastUser(a) < FirstUser(b)
         /\ FirstUser(b) \in Node /\ barrier[FirstUser(b)] = "memory"
<1>1. ~naive
  BY DEF PlanInv, PassesHold, SharersAreCompatible
<1>2. /\ LastUser(a) \in Node /\ FirstUser(a) \in Node /\ FirstUser(b) \in Node
      /\ LastUser(a) \in Users(a) /\ FirstUser(b) \in Users(b) /\ FirstUser(a) =< LastUser(a)
  BY UsersHaveEnds DEF PlanInv
<1>3. LastUser(a) < FirstUser(b)
  BY <1>2 DEF AllBefore, PlanInv, ReachRunsForwards
<1>4. Max({FirstUser(a), FirstUser(b)}) = FirstUser(b)
  <2>1. FirstUser(a) \in Nat /\ FirstUser(b) \in Nat /\ FirstUser(a) < FirstUser(b)
    BY <1>2, <1>3 DEF Node
  <2>2. \A x \in {FirstUser(a), FirstUser(b)} : x =< FirstUser(b)
    BY <2>1
  <2>3. LET S == {FirstUser(a), FirstUser(b)}
        IN  Max(S) \in S /\ \A x \in S : x =< Max(S)
    BY <2>1, <2>2, MaxOfBounded
  <2> QED BY <2>1, <2>3
<1>5. FirstUser(b) \in HandoverNodes
  <2> DEFINE pairs == {q \in Transients \X Transients :
                q[1] # q[2] /\ Users(q[1]) # {} /\ Users(q[2]) # {} /\ ShareBytes(q[1], q[2])}
         later(p) == Max({FirstUser(p[1]), FirstUser(p[2])})
  <2>1. <<a, b>> \in pairs
    OBVIOUS
  <2>2. HandoverNodes = {later(p) : p \in pairs}
    BY DEF HandoverNodes
  <2>3. later(<<a, b>>) = FirstUser(b)
    BY <1>4
  <2> HIDE DEF pairs, later
  <2> QED BY <2>1, <2>2, <2>3
<1> QED BY <1>1, <1>2, <1>3, <1>5 DEF PlanInv, PassesHold

LEMMA PlanInvSuffices == PlanInv => SharingIsSafe
<1> SUFFICES ASSUME PlanInv PROVE SharingIsSafe
  OBVIOUS
<1>1. SharedBytesNeverInterfere
  BY DEF PlanInv, SharersAreCompatible, Compatible, SharedBytesNeverInterfere
<1>2. HandoversAreSeparated
  <2> SUFFICES ASSUME stage = "built", NEW a \in Transients, NEW b \in Transients,
                      a # b, ShareBytes(a, b), Users(a) # {}, Users(b) # {}, AllBefore(a, b)
               PROVE  Between(LastUser(a), FirstUser(b), {"memory"})
    BY DEF HandoversAreSeparated
  <2>1. /\ LastUser(a) < FirstUser(b)
        /\ FirstUser(b) \in Node /\ barrier[FirstUser(b)] = "memory"
    BY SharersHandOver
  <2>2. FirstUser(b) =< FirstUser(b)
    BY <2>1 DEF Node
  <2> QED BY <2>1, <2>2 DEF Between
<1> QED BY <1>1, <1>2 DEF SharingIsSafe, PlanInv

(* Aliasing is safe for every recording, size and alignment (packTransients,
   planHandovers): transients that share pool bytes have all their users ordered,
   and a full barrier stands between the last user and the next first one.   *)
THEOREM AliasingIsSafe == PlanSpec => []SharingIsSafe
BY PlanInvInit, PlanInvStep, PlanInvSuffices, PTL DEF PlanSpec
-----------------------------------------------------------------------------
(* The plan asks for nothing idle.                                           *)

\* A committed access with no barrier behind it up to the node being visited.
Pending(m, k) == Committed(m, k) /\ ~Between(m, i, Emitted)

WrittenBy(rs, m, k) == Pending(m, k) /\ SameRange(rs, nodes[m][k]) /\ Writes(nodes[m][k])
ReadBy(rs, m, k)    == Pending(m, k) /\ SameRange(rs, nodes[m][k]) /\ Reads(nodes[m][k])

\* What a range says of itself is due to such an access.
FlagsAreEarned ==
  \A rs \in states :
    /\ rs.written => \E m \in Node : \E k \in DOMAIN nodes[m] : WrittenBy(rs, m, k)
    /\ rs.read => \E m \in Node : \E k \in DOMAIN nodes[m] : ReadBy(rs, m, k)

\* Ahead of the walk only the head of the submission has a barrier.
AheadIsClear == \A n \in Node : n # 1 /\ ~Planned(n) => barrier[n] = "none"

\* A conflict that asks for a barrier of a kind before n, and has none yet.
Calls(m, n, kind) == CallsFor(m, n, kind) /\ ~Between(m, n - 1, Emitted)

BatchIsEarned == batch # "none" =>
  phase = "need" /\ i \in Node /\ \E m \in Node : Calls(m, i, batch)

WalkIsFrugal ==
  \A n \in Node : n # 1 /\ Planned(n) /\ barrier[n] # "none" => \E m \in Node : Calls(m, n, barrier[n])

WalkInv == TypeOK /\ FlagsAreEarned /\ AheadIsClear /\ BatchIsEarned /\ WalkIsFrugal

LEMMA WalkFrames ==
  ASSUME TypeOK, [Next]_vars
  PROVE  nodes' = nodes /\ Node' = Node /\ N' = N /\ N \in Nat /\ i \in Nat \ {0} /\ i' \in Nat \ {0}
         /\ j \in Nat /\ Node \subseteq Nat /\ DOMAIN barrier = Node
BY DEF TypeOK, Next, Need, Emit, CommitRange, NextNode, Finish, vars, Node, N

\* An access stays pending until a barrier is emitted.
LEMMA PendingStays ==
  ASSUME TypeOK, AheadIsClear, [Next]_vars, ~(Emit /\ barrier'[i] # "none"),
         NEW m \in Node, NEW k \in DOMAIN nodes[m], Pending(m, k)
  PROVE  Pending(m, k)'
<1>0. nodes' = nodes /\ Node' = Node /\ N' = N /\ N \in Nat /\ i \in Nat \ {0} /\ j \in Nat
      /\ m \in Nat /\ k \in Nat /\ DOMAIN barrier = Node
  BY WalkFrames, AccessIsTyped
<1>1. Committed(m, k) /\ ~Between(m, i, Emitted)
  BY DEF Pending
<1>2. CASE Emit
  <2>1. i' = i /\ i \in Node /\ phase = "need" /\ phase' = "commit" /\ barrier'[i] = "none"
        /\ \A n \in Node : barrier'[n] = barrier[n]
    BY <1>0, <1>2 DEF Emit, TypeOK
  <2>2. m < i
    BY <1>1, <2>1 DEF Committed
  <2> QED BY <1>0, <1>1, <2>1, <2>2 DEF Pending, Committed, Between
<1>3. CASE NextNode
  <2>1. i' = i + 1 /\ phase = "commit" /\ barrier' = barrier
    BY <1>3 DEF NextNode
  <2>2. m < i + 1
    BY <1>0, <1>1, <2>1 DEF Committed
  <2>3. i + 1 \in Node => barrier[i + 1] = "none"
    BY <1>0, <2>1 DEF AheadIsClear, Planned
  <2>4. ~Between(m, i + 1, Emitted)
    <3> SUFFICES ASSUME NEW n \in Node, m < n, n =< i + 1, barrier[n] \in Emitted PROVE FALSE
      BY DEF Between
    <3>1. n # i + 1
      BY <2>3 DEF Emitted
    <3>2. n =< i
      BY <1>0, <3>1 DEF Node
    <3> QED BY <1>1, <3>2 DEF Between
  <2>5. ~Between(m, i, Emitted)'
    BY <1>0, <2>1, <2>4 DEF Between
  <2> QED BY <1>0, <2>1, <2>2, <2>5 DEF Pending, Committed
<1>4. CASE Need \/ CommitRange \/ Finish \/ UNCHANGED vars
  <2>1. i' = i /\ barrier' = barrier
    BY <1>4 DEF Need, CommitRange, Finish, vars
  <2>2. Committed(m, k)'
    BY <1>0, <1>1, <1>4 DEF Need, CommitRange, Finish, vars, Committed
  <2> QED BY <1>0, <1>1, <2>1, <2>2 DEF Pending, Between
<1> QED BY <1>2, <1>3, <1>4 DEF Next

LEMMA FlagsStep ==
  ASSUME WalkInv, [Next]_vars
  PROVE  FlagsAreEarned'
<1>0. nodes' = nodes /\ Node' = Node /\ N' = N /\ N \in Nat /\ i \in Nat \ {0} /\ j \in Nat
      /\ Node \subseteq Nat /\ TypeOK /\ AheadIsClear
  BY WalkFrames DEF WalkInv
<1>1. CASE Emit /\ barrier'[i] # "none"
  <2>1. \A rs \in states' : ~rs.written /\ ~rs.read
    <3>1. states' = Cleared BY <1>1 DEF Emit
    <3>2. \A rs \in states : rs \in RangeState BY <1>0 DEF TypeOK
    <3> QED BY <3>1, <3>2 DEF Cleared, RangeState
  <2> QED BY <2>1 DEF FlagsAreEarned
<1>2. CASE ~(Emit /\ barrier'[i] # "none")
  <2>1. \A m \in Node : \A k \in DOMAIN nodes[m] : Pending(m, k) => Pending(m, k)'
    BY <1>0, <1>2, PendingStays
  <2>2. ASSUME NEW rs \in states
        PROVE  /\ rs.written => \E m \in Node : \E k \in DOMAIN nodes[m] : WrittenBy(rs, m, k)'
               /\ rs.read => \E m \in Node : \E k \in DOMAIN nodes[m] : ReadBy(rs, m, k)'
    <3>1. \A m \in Node : \A k \in DOMAIN nodes[m] : WrittenBy(rs, m, k) => WrittenBy(rs, m, k)'
      BY <1>0, <2>1 DEF WrittenBy
    <3>2. \A m \in Node : \A k \in DOMAIN nodes[m] : ReadBy(rs, m, k) => ReadBy(rs, m, k)'
      BY <1>0, <2>1 DEF ReadBy
    <3> QED BY <3>1, <3>2 DEF WalkInv, FlagsAreEarned
  <2>3. CASE states' = states
    BY <1>0, <2>2, <2>3 DEF FlagsAreEarned
  <2>4. CASE CommitRange
    <3>1. phase = "commit" /\ i' = i /\ i \in Node /\ j \in DOMAIN nodes[i] /\ This \in Access /\ j' = j + 1
          /\ barrier' = barrier
      BY <1>0, <2>4, CursorIsTyped DEF CommitRange, TypeOK
    <3>5. PICK n \in Node : n = i
      BY <3>1
    <3>6. PICK p \in DOMAIN nodes[n] : p = j
      BY <3>1, <3>5
    <3>2. Pending(n, p)'
      <4>1. Committed(n, p)' BY <1>0, <2>4, <3>1, <3>5, <3>6 DEF Committed, CommitRange
      <4>2. \A q \in Node : ~(n < q /\ q =< i')
        BY <1>0, <3>1, <3>5
      <4>3. ~Between(n, i, Emitted)' BY <1>0, <4>2 DEF Between
      <4> QED BY <4>1, <4>3 DEF Pending
    <3> SUFFICES ASSUME NEW us \in states'
                 PROVE  /\ us.written => \E m \in Node : \E k \in DOMAIN nodes[m] : WrittenBy(us, m, k)'
                        /\ us.read => \E m \in Node : \E k \in DOMAIN nodes[m] : ReadBy(us, m, k)'
      BY <1>0 DEF FlagsAreEarned
    <3>3. CASE us \in states
      BY <2>2, <3>3
    <3>4. CASE us \notin states
      <4> DEFINE same == {rs \in states : SameRange(rs, This)}
      <4>1. PICK rs \in (IF same = {} THEN {Fresh(This)} ELSE same) : us = Updated(rs, This)
        BY <2>4, <3>4 DEF CommitRange
      <4>2. SameRange(rs, This) /\ rs \in RangeState
        <5>1. SameRange(Fresh(This), This) /\ Fresh(This) \in RangeState
          BY <3>1 DEF SameRange, Fresh, RangeState, Access
        <5> QED BY <1>0, <4>1, <5>1 DEF TypeOK
      <4>3. /\ SameRange(us, This) /\ \A c : SameRange(rs, c) => SameRange(us, c)
            /\ us.written => rs.written \/ Writes(This)
            /\ us.read => rs.read \/ Reads(This)
        BY <4>1, <4>2 DEF Updated, SameRange, RangeState
      <4>4. rs.written \/ rs.read => rs \in states
        BY <4>1 DEF Fresh
      <4>5. us.written => \E m \in Node : \E k \in DOMAIN nodes[m] : WrittenBy(us, m, k)'
        <5>1. CASE Writes(This)
          <6>1. WrittenBy(us, n, p)'
            BY <1>0, <3>5, <3>6, <3>2, <4>3, <5>1 DEF WrittenBy, This
          <6> QED BY <6>1
        <5>2. CASE rs.written
          <6>1. PICK m \in Node : \E k \in DOMAIN nodes[m] : WrittenBy(rs, m, k)'
            BY <2>2, <4>4, <5>2
          <6>2. PICK k \in DOMAIN nodes[m] : WrittenBy(rs, m, k)'
            BY <6>1
          <6>3. WrittenBy(us, m, k)'
            BY <1>0, <4>3, <6>2 DEF WrittenBy
          <6> QED BY <6>3
        <5> QED BY <4>3, <5>1, <5>2
      <4>6. us.read => \E m \in Node : \E k \in DOMAIN nodes[m] : ReadBy(us, m, k)'
        <5>1. CASE Reads(This)
          <6>1. ReadBy(us, n, p)'
            BY <1>0, <3>5, <3>6, <3>2, <4>3, <5>1 DEF ReadBy, This
          <6> QED BY <6>1
        <5>2. CASE rs.read
          <6>1. PICK m \in Node : \E k \in DOMAIN nodes[m] : ReadBy(rs, m, k)'
            BY <2>2, <4>4, <5>2
          <6>2. PICK k \in DOMAIN nodes[m] : ReadBy(rs, m, k)'
            BY <6>1
          <6>3. ReadBy(us, m, k)'
            BY <1>0, <4>3, <6>2 DEF ReadBy
          <6> QED BY <6>3
        <5> QED BY <4>3, <5>1, <5>2
      <4> QED BY <4>5, <4>6
    <3> QED BY <3>3, <3>4
  <2> QED BY <1>2, <2>3, <2>4 DEF Next, Need, Emit, NextNode, Finish, vars
<1> QED BY <1>1, <1>2

\* The flags that ask for a barrier name a conflict.
LEMMA NeedIsEarned ==
  ASSUME WalkInv, Need
  PROVE  /\ NeedsMemory(This) => \E m \in Node : Calls(m, i, "memory")
         /\ NeedsExecution(This) => \E m \in Node : Calls(m, i, "execution")
<1>0. phase = "need" /\ i \in Node /\ i \in Nat \ {0} /\ j \in DOMAIN nodes[i] /\ This \in Access
      /\ Node \subseteq Nat /\ TypeOK
  BY CursorIsTyped DEF Need, WalkInv, TypeOK, Node, N
<1>1. ASSUME NEW rs \in states, Overlaps(rs, This), NEW m \in Node, NEW k \in DOMAIN nodes[m],
             Pending(m, k), SameRange(rs, nodes[m][k])
      PROVE  /\ m < i /\ ~Between(m, i - 1, Emitted) /\ Overlaps(nodes[m][k], nodes[i][j])
  <2>1. m < i /\ ~Between(m, i, Emitted)
    BY <1>0, <1>1 DEF Pending, Committed
  <2>2. ~Between(m, i - 1, Emitted)
    BY <1>0, <2>1 DEF Between, Node
  <2>3. Overlaps(nodes[m][k], nodes[i][j])
    BY <1>1 DEF Overlaps, SameRange, This
  <2> QED BY <2>1, <2>2, <2>3
<1>2. ASSUME NeedsMemory(This) PROVE \E m \in Node : Calls(m, i, "memory")
  <2>1. PICK rs \in states : Overlaps(rs, This) /\ rs.written
    BY <1>2 DEF NeedsMemory
  <2>2. PICK m \in Node : \E k \in DOMAIN nodes[m] : WrittenBy(rs, m, k)
    BY <2>1 DEF WalkInv, FlagsAreEarned
  <2>3. PICK k \in DOMAIN nodes[m] : WrittenBy(rs, m, k)
    BY <2>2
  <2>4. m < i /\ ~Between(m, i - 1, Emitted) /\ Overlaps(nodes[m][k], nodes[i][j]) /\ Writes(nodes[m][k])
    BY <1>1, <2>1, <2>3 DEF WrittenBy
  <2>5. Conflict(nodes, m, i) /\ FlowsInto(m, i)
    BY <1>0, <2>4 DEF Conflict, FlowsInto, AccessConflict
  <2> QED BY <2>4, <2>5 DEF Calls, CallsFor
<1>3. ASSUME NeedsExecution(This) PROVE \E m \in Node : Calls(m, i, "execution")
  <2>1. PICK rs \in states : Overlaps(rs, This) /\ rs.read /\ Writes(This)
    BY <1>3 DEF NeedsExecution
  <2>2. PICK m \in Node : \E k \in DOMAIN nodes[m] : ReadBy(rs, m, k)
    BY <2>1 DEF WalkInv, FlagsAreEarned
  <2>3. PICK k \in DOMAIN nodes[m] : ReadBy(rs, m, k)
    BY <2>2
  <2>4. m < i /\ ~Between(m, i - 1, Emitted) /\ Overlaps(nodes[m][k], nodes[i][j]) /\ Writes(nodes[i][j])
    BY <1>1, <2>1, <2>3 DEF ReadBy, This
  <2>5. Conflict(nodes, m, i)
    BY <1>0, <2>4 DEF Conflict, AccessConflict
  <2> QED BY <2>4, <2>5 DEF Calls, CallsFor
<1> QED BY <1>2, <1>3

LEMMA BatchStep ==
  ASSUME WalkInv, [Next]_vars
  PROVE  BatchIsEarned'
<1>0. nodes' = nodes /\ Node' = Node /\ N' = N /\ TypeOK
  BY WalkFrames DEF WalkInv
<1>1. CASE Need
  <2>1. i' = i /\ i \in Node /\ phase = "need" /\ phase' = "need" /\ barrier' = barrier
    BY <1>1 DEF Need
  <2>2. batch' # "none" => \E m \in Node : Calls(m, i, batch')
    <3>1. CASE NeedsMemory(This)
      BY <1>1, <3>1, NeedIsEarned DEF Need, WalkInv
    <3>2. CASE ~NeedsMemory(This) /\ NeedsExecution(This) /\ batch = "none"
      BY <1>1, <3>2, NeedIsEarned DEF Need, WalkInv
    <3>3. CASE ~NeedsMemory(This) /\ ~(NeedsExecution(This) /\ batch = "none")
      <4>1. batch' = batch BY <1>1, <3>3 DEF Need
      <4> QED BY <4>1 DEF WalkInv, BatchIsEarned
    <3> QED BY <3>1, <3>2, <3>3
  <2>3. \A m, kind : Calls(m, i, kind)' <=> Calls(m, i, kind)'
    OBVIOUS
  <2>4. ASSUME NEW m \in Node, Calls(m, i, batch') PROVE Calls(m, i, batch)'
    BY <1>0, <2>1, <2>4 DEF Calls, CallsFor, FlowsInto, Between
  <2> QED BY <1>0, <2>1, <2>2, <2>4 DEF BatchIsEarned
<1>2. CASE Emit
  BY <1>2 DEF Emit, BatchIsEarned
<1>3. CASE CommitRange \/ NextNode \/ Finish
  <2>1. batch' = batch /\ (phase # "need" \/ i \notin Node)
    <3>1. Finish => i \notin Node
      BY <1>0, WalkFrames DEF Finish, Node
    <3> QED BY <1>3, <3>1 DEF CommitRange, NextNode, Finish
  <2>2. batch = "none" BY <2>1 DEF WalkInv, BatchIsEarned
  <2> QED BY <2>1, <2>2 DEF BatchIsEarned
<1>4. CASE UNCHANGED vars
  <2>1. \A m : Calls(m, i, batch)' <=> Calls(m, i, batch)
    BY <1>0, <1>4 DEF Calls, CallsFor, FlowsInto, Between, vars
  <2>2. batch' = batch /\ i' = i /\ phase' = phase
    BY <1>4 DEF vars
  <2> QED BY <1>0, <2>1, <2>2 DEF BatchIsEarned, WalkInv
<1> QED BY <1>1, <1>2, <1>3, <1>4 DEF Next

LEMMA WalkStep ==
  ASSUME WalkInv, [Next]_vars
  PROVE  WalkInv'
<1>0. nodes' = nodes /\ Node' = Node /\ N' = N /\ N \in Nat /\ i \in Nat \ {0} /\ Node \subseteq Nat
      /\ DOMAIN barrier = Node /\ TypeOK
  BY WalkFrames DEF WalkInv
<1>1. TypeOK' /\ FlagsAreEarned' /\ BatchIsEarned'
  BY TypeStep, FlagsStep, BatchStep DEF WalkInv
<1>2. \A n \in Node : Planned(n) => Planned(n)'
  BY <1>0 DEF Planned, Next, Need, Emit, CommitRange, NextNode, Finish, vars, TypeOK
<1>3. \A n \in Node : \/ Emit /\ n = i
                      \/ (Planned(n)' <=> Planned(n)) /\ barrier'[n] = barrier[n]
  <2>1. CASE Emit
    <3>1. i \in Node /\ i' = i /\ phase = "need" /\ phase' = "commit"
      BY <2>1 DEF Emit
    <3>2. \A n \in Node : n # i => barrier'[n] = barrier[n]
      BY <1>0, <2>1 DEF Emit, TypeOK
    <3> QED BY <1>0, <2>1, <3>1, <3>2 DEF Planned
  <2>2. CASE ~Emit
    <3>1. barrier' = barrier
      BY <2>2 DEF Next, Need, CommitRange, NextNode, Finish, vars
    <3>2. \A n \in Node : Planned(n)' => Planned(n)
      BY <1>0, <2>2 DEF Planned, Next, Need, CommitRange, NextNode, Finish, vars, Node
    <3> QED BY <1>2, <3>1, <3>2
  <2> QED BY <2>1, <2>2
<1>4. AheadIsClear'
  <2> SUFFICES ASSUME NEW n \in Node, n # 1, ~Planned(n)' PROVE barrier'[n] = "none"
    BY <1>0 DEF AheadIsClear
  <2>1. ~(Emit /\ n = i)
    BY <1>0 DEF Emit, Planned
  <2> QED BY <1>2, <1>3, <2>1 DEF WalkInv, AheadIsClear
<1>5. WalkIsFrugal'
  <2> SUFFICES ASSUME NEW n \in Node, n # 1, Planned(n)', barrier'[n] # "none"
               PROVE  \E m \in Node : Calls(m, n, barrier[n])'
    BY <1>0 DEF WalkIsFrugal
  <2>1. ASSUME NEW m \in Node, NEW kind, Calls(m, n, kind), barrier'[n] = kind,
               \A p \in Node : p < n => barrier'[p] = barrier[p]
        PROVE  Calls(m, n, barrier[n])'
    <3>1. CallsFor(m, n, barrier[n])'
      BY <1>0, <2>1 DEF Calls, CallsFor, FlowsInto
    <3>2. ~Between(m, n - 1, Emitted)'
      BY <1>0, <2>1 DEF Calls, Between
    <3> QED BY <3>1, <3>2 DEF Calls
  <2>2. CASE Emit /\ n = i
    <3>1. phase = "need" /\ ~Planned(n)
      BY <1>0, <2>2 DEF Emit, Planned
    <3>2. barrier[n] = "none"
      BY <3>1 DEF WalkInv, AheadIsClear
    <3>3. barrier'[n] = batch /\ \A p \in Node : p < n => barrier'[p] = barrier[p]
      BY <1>0, <2>2, <3>2 DEF Emit, TypeOK
    <3>4. PICK m \in Node : Calls(m, n, batch)
      BY <2>2, <3>3 DEF WalkInv, BatchIsEarned
    <3> QED BY <2>1, <3>3, <3>4
  <2>3. CASE ~(Emit /\ n = i)
    <3>1. Planned(n) /\ barrier'[n] = barrier[n]
      BY <1>3, <2>3
    <3>2. \A p \in Node : p < n => barrier'[p] = barrier[p]
      <4> SUFFICES ASSUME NEW p \in Node, p < n PROVE barrier'[p] = barrier[p]
        OBVIOUS
      <4>1. ~(Emit /\ p = i)
        BY <1>0, <3>1 DEF Emit, Planned
      <4> QED BY <1>3, <4>1
    <3>3. PICK m \in Node : Calls(m, n, barrier[n])
      BY <3>1 DEF WalkInv, WalkIsFrugal
    <3> QED BY <2>1, <3>1, <3>2, <3>3
  <2> QED BY <2>2, <2>3
<1> QED BY <1>1, <1>4, <1>5 DEF WalkInv

LEMMA WalkBegins == Init => WalkInv
<1> SUFFICES ASSUME Init PROVE WalkInv
  OBVIOUS
<1>1. TypeOK
  BY TypeInit
<1>2. \A n \in Node : n # 1 => barrier[n] = "none"
  BY DEF Init, Node, N
<1> QED BY <1>1, <1>2 DEF Init, WalkInv, FlagsAreEarned, AheadIsClear, BatchIsEarned, WalkIsFrugal

\* A walk that asks for nothing idle is a plan that does.
LEMMA WalkSuffices == WalkInv => BarriersAreNeeded
<1> SUFFICES ASSUME WalkInv, NEW n \in Node, n # 1, barrier[n] # "none"
             PROVE  \E m \in Node : /\ CallsFor(m, n, barrier[n])
                                    /\ \A k \in m + 1 .. n - 1 : barrier[k] = "none" \/ HandoverAt(k)
  BY DEF BarriersAreNeeded
<1>1. Planned(n)
  BY DEF WalkInv, AheadIsClear
<1>2. PICK m \in Node : Calls(m, n, barrier[n])
  BY <1>1 DEF WalkInv, WalkIsFrugal
<1>3. ASSUME NEW k \in m + 1 .. n - 1 PROVE barrier[k] = "none"
  <2>1. k \in Node /\ m < k /\ k =< n - 1
    BY <1>3 DEF Node, WalkInv, TypeOK, N
  <2>2. barrier[k] \in Kinds /\ barrier[k] \notin Emitted
    BY <1>2, <2>1 DEF Calls, Between, WalkInv, TypeOK
  <2> QED BY <2>2 DEF Kinds, Emitted
<1> QED BY <1>2, <1>3 DEF Calls

LEMMA WalkSufficesNext == WalkInv' => BarriersAreNeeded'
BY WalkSuffices, PTL

\* Where barriers only change at handovers, what is needed stays so.
LEMMA StillNeeded ==
  ASSUME BarriersAreNeeded, nodes' = nodes, naive' = naive, Node' = Node, N \in Nat,
         \A n : HandoverAt(n) => HandoverAt(n)',
         \A n \in Node : HandoverAt(n)' \/ barrier'[n] = barrier[n]
  PROVE  BarriersAreNeeded'
<1> SUFFICES ASSUME ~naive, NEW n \in Node, n # 1, barrier'[n] # "none", ~HandoverAt(n)'
             PROVE  \E m \in Node : /\ CallsFor(m, n, barrier[n])'
                                    /\ \A k \in m + 1 .. n - 1 : barrier'[k] = "none" \/ HandoverAt(k)'
  BY DEF BarriersAreNeeded
<1>1. barrier'[n] = barrier[n] /\ ~HandoverAt(n)
  OBVIOUS
<1>2. PICK m \in Node : /\ CallsFor(m, n, barrier[n])
                        /\ \A k \in m + 1 .. n - 1 : barrier[k] = "none" \/ HandoverAt(k)
  BY <1>1 DEF BarriersAreNeeded
<1>3. CallsFor(m, n, barrier[n])'
  BY <1>1, <1>2 DEF CallsFor, FlowsInto
<1>4. ASSUME NEW k \in m + 1 .. n - 1 PROVE barrier'[k] = "none" \/ HandoverAt(k)'
  <2>1. n \in Nat /\ m \in Nat /\ \A x \in Nat : x > 0 /\ x =< n => x \in Node
    BY DEF Node
  <2>2. k \in Node
    BY <1>4, <2>1
  <2> QED BY <1>2, <1>4, <2>2
<1> QED BY <1>3, <1>4

WalksFrugally == stage \in {"infer", "check", "barriers"} => WalkInv

LEMMA NeededStep ==
  ASSUME PlanInv, WalksFrugally, BarriersAreNeeded, [PlanNext]_allVars
  PROVE  WalksFrugally' /\ BarriersAreNeeded'
<1>1. CASE CloseRow \/ Inferred \/ Check \/ PlanBarriers
  <2>1. WalkInv /\ [Next]_vars
    BY <1>1 DEF WalksFrugally, CloseRow, Inferred, Check, PlanBarriers
  <2>2. WalkInv'
    BY <2>1, WalkStep
  <2> QED BY <2>2, WalkSufficesNext DEF WalksFrugally
<1>2. CASE PlanSerialBarriers
  BY <1>2 DEF PlanSerialBarriers, WalksFrugally, BarriersAreNeeded
<1>3. CASE PackNext \/ PlaceConsecutively \/ FinishPlacing \/ PlanHandovers
  <2>0. N \in Nat
    BY DEF PlanInv, PlanTypeOK, TypeOK, N
  <2>1. /\ stage \in {"place", "handover"} /\ stage' \notin {"infer", "check", "barriers"}
        /\ nodes' = nodes /\ naive' = naive /\ Node' = Node
    BY <1>3 DEF PackNext, PlaceConsecutively, FinishPlacing, PlanHandovers, vars, Node, N
  <2>2. \A n : ~HandoverAt(n)
    BY <2>1 DEF HandoverAt
  <2>3. \A n \in Node : HandoverAt(n)' \/ barrier'[n] = barrier[n]
    <3>1. CASE PlanHandovers
      <4>1. HandoverNodes' = HandoverNodes
        <5>1. UNCHANGED <<nodes, naive, bytes, reach, row, offset>>
          BY <3>1 DEF PlanHandovers
        <5> QED BY <5>1, SameLayout
      <4> QED BY <3>1, <4>1 DEF PlanHandovers, HandoverAt
    <3>2. CASE PackNext \/ PlaceConsecutively \/ FinishPlacing
      BY <3>2 DEF PackNext, PlaceConsecutively, FinishPlacing, vars
    <3> QED BY <1>3, <3>1, <3>2
  <2> QED BY <2>0, <2>1, <2>2, <2>3, StillNeeded DEF WalksFrugally
<1>4. CASE UNCHANGED allVars
  <2>1. UNCHANGED vars /\ UNCHANGED <<nodes, naive, bytes, reach, row, offset>> /\ stage' = stage
    BY <1>4 DEF allVars, planVars, vars
  <2>2. WalkInv => WalkInv'
    BY <2>1, WalkStep
  <2>3. HandoverNodes' = HandoverNodes /\ Node' = Node
    BY <2>1, SameLayout
  <2>4. \A n : HandoverAt(n) => HandoverAt(n)'
    BY <2>1, <2>3 DEF HandoverAt
  <2>5. barrier' = barrier
    BY <2>1 DEF vars
  <2>7. N \in Nat
    BY DEF PlanInv, PlanTypeOK, TypeOK, N
  <2>6. BarriersAreNeeded'
    BY <2>1, <2>3, <2>4, <2>5, <2>7, StillNeeded
  <2> QED BY <2>1, <2>2, <2>6 DEF WalksFrugally
<1> QED BY <1>1, <1>2, <1>3, <1>4 DEF PlanNext

-----------------------------------------------------------------------------
(* How much memory a set of transients takes: a sum over a set, which the     *)
(* library defines by a fold.  Two readings of the fold would part at a       *)
(* smallest set, and there is none.                                           *)

Room(t) == AlignUp(bytes[t])
Pick(s) == CHOOSE x \in s : TRUE
Adds(g, S) == g = [s \in SUBSET S |-> IF s = {} THEN 0 ELSE Room(Pick(s)) + g[s \ {Pick(s)}]]
Sum(S) == CHOOSE g : Adds(g, S)

\* The fold is the chosen solution of its equation.
LEMMA FootprintIsTheSum ==
  ASSUME NEW S
  PROVE  Footprint(S) = Sum(S)[S]
BY DEF Footprint, MapThenSumSet, MapThenFoldSet, Adds, Sum, Pick, Room

\* A family of subsets of a finite set that is not empty has a smallest member.
LEMMA SmallestSubset ==
  ASSUME NEW S, IsFiniteSet(S), NEW bad \in SUBSET SUBSET S, bad # {}
  PROVE  \E s \in bad : \A t \in SUBSET s : t # s => t \notin bad
<1>1. \A s \in SUBSET S : IsFiniteSet(s)
  BY FS_Subset
<1>2. bad \subseteq FiniteSubsetsOf(S)
  BY <1>1 DEF FiniteSubsetsOf
<1>3. IsWellFoundedOn(StrictSubsetOrdering(S), FiniteSubsetsOf(S))
  BY FS_StrictSubsetOrderingWellFounded
<1>4. PICK s \in bad : \A t \in bad : <<t, s>> \notin StrictSubsetOrdering(S)
  BY <1>2, <1>3, WFMin
<1>5. ASSUME NEW t \in SUBSET s, t # s PROVE t \notin bad
  <2>1. <<t, s>> \in StrictSubsetOrdering(S)
    BY <1>5 DEF StrictSubsetOrdering
  <2> QED BY <1>4, <2>1
<1> QED BY <1>5

\* Two solutions agree where both are defined.
LEMMA SumIsUnique ==
  ASSUME NEW S, NEW T, NEW U, IsFiniteSet(U), U \subseteq S, U \subseteq T,
         NEW g, NEW h, Adds(g, S), Adds(h, T)
  PROVE  g[U] = h[U]
<1> DEFINE bad == {s \in SUBSET U : g[s] # h[s]}
<1>1. ASSUME bad # {} PROVE FALSE
  <2>1. PICK s \in bad : \A t \in SUBSET s : t # s => t \notin bad
    <3>1. bad \in SUBSET SUBSET U OBVIOUS
    <3> HIDE DEF bad
    <3> QED BY <1>1, <3>1, SmallestSubset
  <2>2. g[s] = IF s = {} THEN 0 ELSE Room(Pick(s)) + g[s \ {Pick(s)}]
    BY DEF Adds
  <2>3. h[s] = IF s = {} THEN 0 ELSE Room(Pick(s)) + h[s \ {Pick(s)}]
    BY DEF Adds
  <2>4. s # {}
    BY <2>2, <2>3
  <2>5. Pick(s) \in s
    BY <2>4 DEF Pick
  <2>6. g[s \ {Pick(s)}] = h[s \ {Pick(s)}]
    BY <2>1, <2>5
  <2> QED BY <2>2, <2>3, <2>4, <2>6
<1> QED BY <1>1

\* And every finite set has one.
LEMMA SumExists ==
  ASSUME NEW S, IsFiniteSet(S)
  PROVE  Adds(Sum(S), S)
<1> DEFINE bad == {s \in SUBSET S : \A g : ~Adds(g, s)}
<1>1. ASSUME bad # {} PROVE FALSE
  <2>0. \A s \in SUBSET S : IsFiniteSet(s)
    BY FS_Subset
  <2>1. PICK s \in bad : \A t \in SUBSET s : t # s => t \notin bad
    <3>1. bad \in SUBSET SUBSET S OBVIOUS
    <3> HIDE DEF bad
    <3> QED BY <1>1, <3>1, SmallestSubset
  <2>3. \A t \in SUBSET s : t # s => Adds(Sum(t), t)
    <3> SUFFICES ASSUME NEW t \in SUBSET s, t # s PROVE Adds(Sum(t), t)
      OBVIOUS
    <3>1. \E g : Adds(g, t)
      BY <2>1
    <3> QED BY <3>1 DEF Sum
  <2> DEFINE rest(t) == t \ {Pick(t)}
             h == [t \in SUBSET s |-> IF t = {} THEN 0 ELSE Room(Pick(t)) + Sum(rest(t))[rest(t)]]
  <2>4. ASSUME NEW t \in SUBSET s, t # s PROVE h[t] = Sum(t)[t]
    <3>1. Sum(t)[t] = IF t = {} THEN 0 ELSE Room(Pick(t)) + Sum(t)[rest(t)]
      BY <2>3, <2>4 DEF Adds
    <3>2. CASE t = {}
      BY <3>1, <3>2
    <3>3. CASE t # {}
      <4>1. Pick(t) \in t /\ rest(t) \subseteq t /\ rest(t) # s /\ rest(t) \subseteq rest(t)
        BY <3>3 DEF Pick
      <4>2. IsFiniteSet(rest(t)) /\ Adds(Sum(rest(t)), rest(t)) /\ Adds(Sum(t), t)
        BY <4>1, <2>0, <2>3, <2>4
      <4>3. Sum(t)[rest(t)] = Sum(rest(t))[rest(t)]
        <5> HIDE DEF rest
        <5> QED BY <4>1, <4>2, SumIsUnique
      <4> QED BY <3>1, <3>3, <4>3
    <3> QED BY <3>2, <3>3
  <2>5. \A t \in SUBSET s : h[t] = IF t = {} THEN 0 ELSE Room(Pick(t)) + h[rest(t)]
    <3> SUFFICES ASSUME NEW t \in SUBSET s, t # {} PROVE h[t] = Room(Pick(t)) + h[rest(t)]
      OBVIOUS
    <3>1. Pick(t) \in t
      BY DEF Pick
    <3>2. rest(t) \in SUBSET s /\ rest(t) # s
      BY <3>1
    <3>3. h[rest(t)] = Sum(rest(t))[rest(t)]
      <4> HIDE DEF h, rest
      <4> QED BY <2>4, <3>2
    <3>4. h[t] = Room(Pick(t)) + Sum(rest(t))[rest(t)]
      OBVIOUS
    <3> QED BY <3>3, <3>4
  <2>6. Adds(h, s)
    <3>1. h = [t \in SUBSET s |-> h[t]] OBVIOUS
    <3> HIDE DEF h
    <3> QED BY <2>5, <3>1 DEF Adds
  <2> QED BY <2>6
<1>2. \E g : Adds(g, S)
  BY <1>1
<1> QED BY <1>2 DEF Sum

\* The fold takes one member off.
LEMMA FootprintUnfolds ==
  ASSUME NEW S, IsFiniteSet(S)
  PROVE  /\ Footprint({}) = 0
         /\ S # {} => Footprint(S) = Room(Pick(S)) + Footprint(S \ {Pick(S)})
<1>1. Footprint({}) = 0
  <2>1. Adds(Sum({}), {}) BY FS_EmptySet, SumExists
  <2> QED BY <2>1, FootprintIsTheSum DEF Adds
<1>2. ASSUME S # {} PROVE Footprint(S) = Room(Pick(S)) + Footprint(S \ {Pick(S)})
  <2> DEFINE T == S \ {Pick(S)}
  <2>1. IsFiniteSet(T) /\ T \subseteq S
    BY FS_Subset
  <2>2. Adds(Sum(S), S) /\ Adds(Sum(T), T)
    BY <2>1, SumExists
  <2>3. Sum(S)[S] = Room(Pick(S)) + Sum(S)[T]
    BY <2>2, <1>2 DEF Adds
  <2>4. Sum(S)[T] = Sum(T)[T]
    <3> HIDE DEF T
    <3> QED BY <2>1, <2>2, SumIsUnique
  <2> QED BY <2>3, <2>4, FootprintIsTheSum
<1> QED BY <1>1, <1>2

RoomsAreCounts(S) == \A x \in S : Room(x) \in Nat
AddsUp(s) == Footprint(s) \in Nat /\ \A x \in s : Footprint(s) = Footprint(s \ {x}) + Room(x)

\* The order does not matter: any member can be taken out first.
LEMMA FootprintWithout ==
  ASSUME NEW S, IsFiniteSet(S), RoomsAreCounts(S)
  PROVE  AddsUp(S)
<1> DEFINE bad == {s \in SUBSET S : ~AddsUp(s)}
<1>1. ASSUME bad # {} PROVE FALSE
  <2>0. \A s \in SUBSET S : IsFiniteSet(s)
    BY FS_Subset
  <2>1. PICK s \in bad : \A t \in SUBSET s : t # s => t \notin bad
    <3>1. bad \in SUBSET SUBSET S OBVIOUS
    <3> HIDE DEF bad
    <3> QED BY <1>1, <3>1, SmallestSubset
  <2>3. \A t \in SUBSET s : t # s => AddsUp(t)
    BY <2>1
  <2>4. s # {}
    <3>1. 0 \in Nat OBVIOUS
    <3>2. AddsUp({})
      BY <3>1, <2>0, FootprintUnfolds DEF AddsUp
    <3> QED BY <3>2
  <2>5. PICK y \in s : Footprint(s) = Footprint(s \ {y}) + Room(y) /\ Room(y) \in Nat
                       /\ Footprint(s \ {y}) \in Nat
    <3>1. Pick(s) \in s BY <2>4 DEF Pick
    <3>2. Footprint(s) = Room(Pick(s)) + Footprint(s \ {Pick(s)})
      BY <2>0, <2>4, FootprintUnfolds
    <3>3. AddsUp(s \ {Pick(s)})
      BY <2>3, <3>1
    <3>4. Room(Pick(s)) \in Nat /\ Footprint(s \ {Pick(s)}) \in Nat
      BY <3>1, <3>3 DEF RoomsAreCounts, AddsUp
    <3>5. Footprint(s) = Footprint(s \ {Pick(s)}) + Room(Pick(s))
      BY <3>2, <3>4
    <3> QED BY <3>1, <3>4, <3>5
  <2>7. ASSUME NEW x \in s PROVE Footprint(s) = Footprint(s \ {x}) + Room(x)
    <3>1. CASE x = y
      BY <3>1, <2>5
    <3>2. CASE x # y
      <4>1. x \in s \ {y} /\ y \in s \ {x} /\ s \ {x} # s /\ s \ {y} # s
        BY <3>2
      <4> DEFINE u == (s \ {y}) \ {x}
      <4>2. u = (s \ {x}) \ {y} /\ u # s /\ u \in SUBSET s
        OBVIOUS
      <4>3. Footprint(s \ {y}) = Footprint(u) + Room(x)
        BY <4>1, <2>3 DEF AddsUp
      <4>4. Footprint(s \ {x}) = Footprint(u) + Room(y)
        BY <4>1, <4>2, <2>3 DEF AddsUp
      <4>5. Footprint(u) \in Nat
        BY <4>2, <2>3 DEF AddsUp
      <4>6. Room(x) \in Nat
        BY DEF RoomsAreCounts
      <4> HIDE DEF u
      <4> QED BY <2>5, <4>3, <4>4, <4>5, <4>6
    <3> QED BY <3>1, <3>2
  <2>8. Footprint(s) \in Nat
    BY <2>5
  <2>9. AddsUp(s)
    BY <2>7, <2>8 DEF AddsUp
  <2> QED BY <2>9
<1> QED BY <1>1

\* One member more adds its room.
LEMMA FootprintWith ==
  ASSUME NEW S, IsFiniteSet(S), NEW x, x \notin S, RoomsAreCounts(S \union {x})
  PROVE  Footprint(S \union {x}) = Footprint(S) + Room(x) /\ Footprint(S) \in Nat
<1>1. IsFiniteSet(S \union {x}) /\ RoomsAreCounts(S)
  BY FS_AddElement DEF RoomsAreCounts
<1>2. (S \union {x}) \ {x} = S
  OBVIOUS
<1>3. AddsUp(S \union {x}) /\ AddsUp(S)
  BY <1>1, FootprintWithout
<1> QED BY <1>2, <1>3 DEF AddsUp

Multiples == {Align * q : q \in Nat}

\* What is aligned stays where it is, and only aligned places are used.
LEMMA AlignUpIsAMultiple ==
  ASSUME NEW n \in Nat
  PROVE  AlignUp(n) \in Multiples
<1> DEFINE q == (n + Align - 1) \div Align
<1>1. q \in Nat
  BY TransientsAssumption
<1>2. AlignUp(n) = Align * q
  <2>1. \A a, b \in Nat : a * b = b * a OBVIOUS
  <2> QED BY <1>1, <2>1, TransientsAssumption DEF AlignUp
<1> QED BY <1>1, <1>2 DEF Multiples

LEMMA MultiplesAreAligned ==
  ASSUME NEW x \in Multiples
  PROVE  x \in Nat /\ AlignUp(x) = x
<1>1. PICK q \in Nat : x = Align * q
  BY DEF Multiples
<1>2. Align \in Nat \ {0}
  BY TransientsAssumption
<1>3. \A g \in Nat \ {0} : \A p \in Nat : g * p \in Nat /\ g * p = p * g /\ (g * p + g - 1) \div g = p
  OBVIOUS
<1>4. (x + Align - 1) \div Align = q
  BY <1>1, <1>2, <1>3
<1> QED BY <1>1, <1>2, <1>3, <1>4 DEF AlignUp

LEMMA MultiplesAdd ==
  ASSUME NEW x \in Multiples, NEW y \in Multiples
  PROVE  x + y \in Multiples
<1>1. PICK p \in Nat : x = Align * p
  BY DEF Multiples
<1>2. PICK q \in Nat : y = Align * q
  BY DEF Multiples
<1>3. \A g, a, b \in Nat : g * (a + b) = g * a + g * b
  OBVIOUS
<1>4. x + y = Align * (p + q) /\ p + q \in Nat
  BY <1>1, <1>2, <1>3, TransientsAssumption
<1> QED BY <1>4 DEF Multiples

LEMMA ZeroIsAMultiple == 0 \in Multiples
<1>1. Align * 0 = 0 /\ 0 \in Nat
  BY TransientsAssumption
<1> QED BY <1>1 DEF Multiples

LEMMA TransientsAreFinite == IsFiniteSet(Transients)
<1>1. Declared \in Seq(Resources)
  BY TransientsAssumption
<1>2. DOMAIN Declared = 1 .. Len(Declared) /\ Len(Declared) \in Nat
  BY <1>1
<1>3. IsFiniteSet(DOMAIN Declared)
  BY <1>2, FS_Interval
<1>4. Declared \in Surjection(DOMAIN Declared, Transients)
  BY <1>1 DEF Surjection, Transients, Range
<1> QED BY <1>3, <1>4, FS_Surjection

LEMMA TransientsHaveRoom ==
  ASSUME PlanTypeOK, NEW S \in SUBSET Transients
  PROVE  RoomsAreCounts(S) /\ IsFiniteSet(S) /\ Footprint(S) \in Nat
<1>1. RoomsAreCounts(S)
  BY EndsAreTyped DEF RoomsAreCounts, Room
<1>2. IsFiniteSet(S)
  BY TransientsAreFinite, FS_Subset
<1>3. AddsUp(S)
  BY <1>1, <1>2, FootprintWithout
<1> QED BY <1>1, <1>2, <1>3 DEF AddsUp

\* The placements start at aligned places, and end within the memory that they
\* would take one after another.
Filled == \A t \in Placed : offset[t] \in Multiples /\ End(t) =< Footprint(Placed)

LEMMA EndsAreMultiples ==
  ASSUME PlanTypeOK, Filled, NEW t \in Placed
  PROVE  End(t) \in Multiples /\ AlignUp(End(t)) = End(t)
<1>1. bytes[t] \in Nat /\ offset[t] \in Multiples
  BY EndsAreTyped DEF Filled
<1>2. End(t) \in Multiples
  BY <1>1, AlignUpIsAMultiple, MultiplesAdd DEF End
<1> QED BY <1>2, MultiplesAreAligned

LEMMA PlacedHaveRoom ==
  ASSUME PlanTypeOK
  PROVE  /\ Placed \in SUBSET Transients /\ Footprint(Placed) \in Nat
         /\ IsFiniteSet(Placed) /\ RoomsAreCounts(Placed)
BY TransientsHaveRoom DEF Placed

\* Both offsets that a plan takes next are aligned and within that memory.
LEMMA PastAllIsFilled ==
  ASSUME PlanTypeOK, Filled, NEW us \in SUBSET Placed
  PROVE  PastAll(us) \in Multiples /\ PastAll(us) =< Footprint(Placed)
<1> DEFINE S == {0} \union {AlignUp(End(u)) : u \in us}
           F == Footprint(Placed)
<1>1. F \in Nat
  BY PlacedHaveRoom
<1>2. \A u \in us : AlignUp(End(u)) \in Multiples /\ AlignUp(End(u)) =< F
  BY EndsAreMultiples DEF Filled
<1>3. \A x \in S : x \in Multiples /\ x =< F
  BY <1>1, <1>2, ZeroIsAMultiple
<1>4. S \in SUBSET Nat /\ S # {}
  BY <1>3, MultiplesAreAligned
<1>5. Max(S) \in S
  <2> HIDE DEF S, F
  <2> QED BY <1>1, <1>3, <1>4, MaxOfBounded
<1>6. PastAll(us) = Max(S)
  BY DEF PastAll
<1> QED BY <1>3, <1>5, <1>6

LEMMA LowestFreeOffsetIsFilled ==
  ASSUME PlanTypeOK, Filled, NEW t
  PROVE  LowestFreeOffset(t) \in Multiples /\ LowestFreeOffset(t) =< Footprint(Placed)
<1>1. Interfering(t) \subseteq Placed
  BY DEF Interfering
<1>2. PICK us \in SUBSET Interfering(t) : LowestFreeOffset(t) = PastAll(us)
  BY DEF LowestFreeOffset
<1> QED BY <1>1, <1>2, PastAllIsFilled

LEMMA PoolTotalIsFilled ==
  ASSUME PlanTypeOK, Filled
  PROVE  PoolTotal \in Multiples /\ PoolTotal =< Footprint(Placed)
<1> DEFINE S == {End(t) : t \in Placed}
           F == Footprint(Placed)
<1>1. F \in Nat
  BY PlacedHaveRoom
<1>2. CASE Placed = {}
  BY <1>1, <1>2, ZeroIsAMultiple DEF PoolTotal
<1>3. CASE Placed # {}
  <2>1. \A x \in S : x \in Multiples /\ x =< F
    BY EndsAreMultiples DEF Filled
  <2>2. S \in SUBSET Nat /\ S # {}
    <3>1. PICK t \in Placed : TRUE BY <1>3
    <3>2. End(t) \in S OBVIOUS
    <3> QED BY <2>1, <3>2, MultiplesAreAligned
  <2>3. Max(S) \in S
    <3> HIDE DEF S, F
    <3> QED BY <1>1, <2>1, <2>2, MaxOfBounded
  <2>4. PoolTotal = AlignUp(Max(S))
    BY <1>3 DEF PoolTotal
  <2> HIDE DEF S
  <2>5. AlignUp(Max(S)) = Max(S)
    BY <2>1, <2>3, MultiplesAreAligned
  <2> QED BY <2>1, <2>3, <2>4, <2>5
<1> QED BY <1>2, <1>3

\* A transient placed at such an offset leaves it so.
LEMMA PlacingFills ==
  ASSUME PlanTypeOK, Filled, NEW t \in Transients \ Placed, NEW at \in Multiples,
         at =< Footprint(Placed), offset' = [offset EXCEPT ![t] = at], bytes' = bytes
  PROVE  Filled'
<1>1. at \in Nat /\ Room(t) \in Nat /\ t \in Transients
  BY MultiplesAreAligned, EndsAreTyped DEF Room
<1>2. /\ \A u \in Placed : u # t /\ offset'[u] = offset[u] /\ End(u)' = End(u)
      /\ offset'[t] = at /\ End(t)' = at + Room(t)
      /\ Placed' = Placed \union {t}
  BY <1>1 DEF PlanTypeOK, Placed, End, AlignUp, Unplaced, Room
<1>3. Footprint(Placed \union {t}) = Footprint(Placed) + Room(t)
  <2>1. Placed \union {t} \in SUBSET Transients
    BY PlacedHaveRoom
  <2>2. RoomsAreCounts(Placed \union {t}) /\ IsFiniteSet(Placed) /\ t \notin Placed
    BY <2>1, TransientsHaveRoom, PlacedHaveRoom
  <2> QED BY <2>2, FootprintWith
<1>4. Footprint(Placed)' = Footprint(Placed \union {t})
  BY <1>2 DEF Footprint, MapThenSumSet, MapThenFoldSet, AlignUp
<1>5. Footprint(Placed) \in Nat
  BY PlacedHaveRoom
<1>6. ASSUME NEW u \in Placed PROVE End(u) =< Footprint(Placed) + Room(t) /\ offset[u] \in Multiples
  <2>1. End(u) \in Nat /\ End(u) =< Footprint(Placed) /\ offset[u] \in Multiples
    BY EndsAreTyped DEF Filled
  <2> QED BY <1>1, <1>5, <2>1
<1>7. at + Room(t) =< Footprint(Placed) + Room(t)
  BY <1>1, <1>5
<1>8. ASSUME NEW u \in Placed \union {t}
      PROVE  offset'[u] \in Multiples /\ End(u)' =< Footprint(Placed) + Room(t)
  BY <1>2, <1>6, <1>7
<1> QED BY <1>2, <1>3, <1>4, <1>8 DEF Filled

LEMMA FilledStays ==
  ASSUME Filled, offset' = offset, bytes' = bytes
  PROVE  Filled'
<1>1. Placed' = Placed
  BY DEF Placed
<1>2. Footprint(Placed)' = Footprint(Placed)
  BY <1>1 DEF Footprint, MapThenSumSet, MapThenFoldSet, AlignUp
<1>3. \A t : End(t)' = End(t)
  BY DEF End, AlignUp
<1> QED BY <1>1, <1>2, <1>3 DEF Filled

LEMMA FilledStep ==
  ASSUME PlanInv, Filled, [PlanNext]_allVars
  PROVE  Filled'
<1>0. PlanTypeOK
  BY DEF PlanInv
<1>1. CASE PackNext
  <2>1. PICK t \in Transients \ Placed : offset' = [offset EXCEPT ![t] = LowestFreeOffset(t)]
    BY <1>1 DEF PackNext
  <2>2. bytes' = bytes
    BY <1>1 DEF PackNext
  <2> QED BY <1>0, <2>1, <2>2, LowestFreeOffsetIsFilled, PlacingFills
<1>2. CASE PlaceConsecutively
  <2> DEFINE left == {p \in DOMAIN Declared : Declared[p] \notin Placed}
             k == Min(left)
  <2>1. k \in left
    <3>1. left \in SUBSET Nat /\ left # {}
      <4>1. DOMAIN Declared \in SUBSET Nat
        BY TransientsAssumption
      <4>2. PICK t \in Transients : t \notin Placed
        BY <1>2 DEF PlaceConsecutively, Placed
      <4>3. PICK p \in DOMAIN Declared : Declared[p] = t
        BY DEF Transients, Range
      <4> QED BY <4>1, <4>2, <4>3
    <3> HIDE DEF left
    <3> QED BY <3>1, MinOfNaturals
  <2>2. Declared[k] \in Transients \ Placed
    BY <2>1 DEF Transients, Range
  <2>3. offset' = [offset EXCEPT ![Declared[k]] = PoolTotal] /\ bytes' = bytes
    BY <1>2 DEF PlaceConsecutively
  <2> HIDE DEF k
  <2> QED BY <1>0, <2>2, <2>3, PoolTotalIsFilled, PlacingFills
<1>3. CASE ~PackNext /\ ~PlaceConsecutively
  <2>1. offset' = offset /\ bytes' = bytes
    BY <1>3 DEF PlanNext, CloseRow, Inferred, Check, PlanBarriers, PlanSerialBarriers,
                FinishPlacing, PlanHandovers, allVars, planVars
  <2> QED BY <2>1, FilledStays
<1> QED BY <1>1, <1>2, <1>3

\* Placements that share no byte and end below a bound take no more than it: of
\* the smallest set that would, the highest placement could be taken away.
Stacked(S, top) ==
  /\ \A t \in S : End(t) =< top
  /\ \A t, u \in S : t # u => End(t) =< offset[u] \/ End(u) =< offset[t]

LEMMA StackedFits ==
  ASSUME PlanTypeOK, NEW S \in SUBSET Placed, NEW top \in Nat, Stacked(S, top)
  PROVE  Footprint(S) =< top
<1> DEFINE bad == {s \in SUBSET S : \E h \in Nat : Stacked(s, h) /\ ~(Footprint(s) =< h)}
<1>0. \A s \in SUBSET S : RoomsAreCounts(s) /\ IsFiniteSet(s) /\ Footprint(s) \in Nat
  BY PlacedHaveRoom, TransientsHaveRoom
<1>1. ASSUME bad # {} PROVE FALSE
  <2>1. PICK s \in bad : \A t \in SUBSET s : t # s => t \notin bad
    <3>1. bad \in SUBSET SUBSET S /\ IsFiniteSet(S)
      BY <1>0
    <3> HIDE DEF bad
    <3> QED BY <1>1, <3>1, SmallestSubset
  <2>2. PICK h \in Nat : Stacked(s, h) /\ ~(Footprint(s) =< h)
    OBVIOUS
  <2>3. s # {}
    <3>1. Footprint({}) = 0
      BY FS_EmptySet, FootprintUnfolds
    <3>2. ASSUME s = {} PROVE FALSE
      <4>1. Footprint(s) = 0 BY <3>1, <3>2
      <4> QED BY <2>2, <4>1
    <3> QED BY <3>2
  <2>4. \A t \in s : t \in Placed /\ offset[t] \in Nat /\ End(t) \in Nat /\ offset[t] < End(t)
                     /\ End(t) = offset[t] + Room(t) /\ Room(t) \in Nat /\ End(t) =< h
    BY <2>2, EndsAreTyped DEF End, Room, Stacked
  <2> DEFINE places == {offset[t] : t \in s}
  <2>5. places \in SUBSET Nat /\ places # {} /\ \A x \in places : x =< h
    <3>1. PICK t \in s : TRUE BY <2>3
    <3>2. offset[t] \in places OBVIOUS
    <3> QED BY <2>4, <3>2
  <2>6. Max(places) \in places /\ \A x \in places : x =< Max(places)
    <3> HIDE DEF places
    <3> QED BY <2>5, MaxOfBounded
  <2>7. PICK t \in s : \A u \in s : offset[u] =< offset[t]
    BY <2>6
  <2> DEFINE r == s \ {t}
  <2>8. Stacked(r, offset[t])
    <3>1. \A u \in r : End(u) =< offset[t]
      <4> SUFFICES ASSUME NEW u \in r PROVE End(u) =< offset[t]
        OBVIOUS
      <4>1. End(u) =< offset[t] \/ End(t) =< offset[u]
        BY <2>2 DEF Stacked
      <4> QED BY <2>4, <2>7, <4>1
    <3> QED BY <2>2, <3>1 DEF Stacked
  <2>9. Footprint(r) =< offset[t]
    <3>1. r \in SUBSET s /\ r # s /\ r \in SUBSET S
      OBVIOUS
    <3>2. r \notin bad
      BY <2>1, <3>1
    <3> HIDE DEF r
    <3> QED BY <2>4, <2>8, <3>1, <3>2
  <2>10. Footprint(s) = Footprint(r) + Room(t) /\ Footprint(r) \in Nat
    <3>1. AddsUp(s)
      BY <1>0, FootprintWithout
    <3> QED BY <1>0, <3>1 DEF AddsUp
  <2> HIDE DEF r
  <2> QED BY <2>2, <2>4, <2>9, <2>10
<1>2. S \notin bad
  BY <1>1
<1> QED BY <1>2

\* Transients live at one node are used around it, so neither is done before the
\* other begins: they share no byte.
LEMMA LiveAreStacked ==
  ASSUME PlanInv, stage = "built", NEW n \in Node
  PROVE  LiveAt(n) \in SUBSET Placed /\ Stacked(LiveAt(n), PoolTotal)
<1>1. Placed = Transients /\ PlanTypeOK /\ PoolIsBounded
  BY DEF PlanInv, PassesHold
<1>2. LiveAt(n) \in SUBSET Placed
  BY <1>1 DEF LiveAt
<1>3. \A t \in LiveAt(n) : End(t) =< PoolTotal
  BY <1>1, <1>2, PoolTotalIsPast
<1>4. ASSUME NEW a \in LiveAt(n), NEW b \in LiveAt(n), a # b, ~(End(a) =< offset[b]), ~(End(b) =< offset[a])
      PROVE  FALSE
  <2>1. ShareBytes(a, b)
    BY <1>1, <1>2, <1>4, EndsAreTyped DEF ShareBytes
  <2>2. Compatible(a, b)
    BY <1>2, <1>4, <2>1 DEF PlanInv, SharersAreCompatible
  <2>3. /\ FirstUser(a) \in Users(a) /\ LastUser(a) \in Users(a) /\ Users(a) \subseteq Node
        /\ FirstUser(b) \in Users(b) /\ LastUser(b) \in Users(b) /\ Users(b) \subseteq Node
    BY <1>1, UsersHaveEnds DEF LiveAt
  <2>4. /\ FirstUser(a) =< n /\ n =< LastUser(a) /\ FirstUser(b) =< n /\ n =< LastUser(b)
    BY DEF LiveAt
  <2>5. LastUser(a) < FirstUser(b) \/ LastUser(b) < FirstUser(a)
    BY <2>2, <2>3 DEF Compatible, AllBefore, PlanInv, ReachRunsForwards
  <2> QED BY <2>3, <2>4, <2>5 DEF Node
<1>5. Stacked(LiveAt(n), PoolTotal)
  BY <1>3, <1>4 DEF Stacked
<1> QED BY <1>2, <1>5

FrugalInv == PlanInv /\ WalksFrugally /\ BarriersAreNeeded /\ Filled

LEMMA FrugalInvSuffices == FrugalInv => PlansAreFrugal
<1> SUFFICES ASSUME FrugalInv PROVE PlansAreFrugal
  OBVIOUS
<1>1. PlanInv /\ PlanTypeOK /\ PoolIsBounded /\ Filled /\ BarriersAreNeeded
  BY DEF FrugalInv, PlanInv
<1>2. ASSUME stage = "built", NEW n \in Node PROVE Footprint(LiveAt(n)) =< PoolTotal
  <2>1. PoolTotal \in Nat
    BY <1>1, PoolTotalIsPast
  <2> QED BY <1>1, <1>2, <2>1, LiveAreStacked, StackedFits
<1>3. ASSUME stage = "built" PROVE PoolTotal =< Footprint(Transients)
  <2>1. Placed = Transients
    BY <1>1, <1>3 DEF PlanInv, PassesHold
  <2> QED BY <1>1, <2>1, PoolTotalIsFilled
<1> QED BY <1>1, <1>2, <1>3 DEF PlansAreFrugal, PoolIsBetweenPeakAndUnaliased

LEMMA FrugalInvInit == PlanInit => FrugalInv
<1> SUFFICES ASSUME PlanInit PROVE FrugalInv
  OBVIOUS
<1>1. PlanInv /\ WalkInv
  BY PlanInvInit, WalkBegins DEF PlanInit
<1>2. BarriersAreNeeded /\ WalksFrugally
  BY <1>1, WalkSuffices DEF WalksFrugally
<1>3. Filled
  BY DEF PlanInit, Filled, Placed
<1> QED BY <1>1, <1>2, <1>3 DEF FrugalInv

LEMMA FrugalInvStep == FrugalInv /\ [PlanNext]_allVars => FrugalInv'
BY PlanInvStep, NeededStep, FilledStep DEF FrugalInv

(* The plan asks for nothing idle (planBarriers, GraphMemory), for every recording,
   size and alignment: past the head every barrier is a handover's or answers a
   conflict that nothing but handovers separates, and flushes only what an earlier
   node wrote; and the pool is no smaller than what is live at any node and no
   larger than the transients put one after another.                         *)
THEOREM PlanIsFrugal == PlanSpec => []PlansAreFrugal
BY FrugalInvInit, FrugalInvStep, FrugalInvSuffices, PTL DEF PlanSpec
-----------------------------------------------------------------------------
(* The execution.                                                            *)

\* A node that has started has everything its barriers wait for behind it.
BarriersHold == \A n \in running \union done : MayStart(n)

\* Where a finished node has written, memory holds what the greatest one wrote.
HoldsLastWrite(l) ==
  \E m \in done : \E b \in BytesWritten(m) :
    /\ Location(b[1], b[2]) = l /\ mem[l] = [node |-> m, res |-> b[1], byte |-> b[2]]
    /\ \A k \in done : l \in WriteSet(k) => k =< m

MemoryHoldsLastWrites ==
  /\ \A n \in done : WriteSet(n) \subseteq DOMAIN mem
  /\ \A l \in DOMAIN mem : HoldsLastWrite(l)

ExecInv ==
  /\ PlanInv
  /\ running \subseteq Node /\ done \subseteq Node /\ running \intersect done = {}
  /\ stage # "built" => running = {} /\ done = {} /\ mem = <<>>
  /\ BarriersHold /\ MemoryHoldsLastWrites

\* A barrier between two nodes makes the later wait for the earlier.
LEMMA BarrierOrders ==
  ASSUME ExecInv, NEW m \in Node, NEW n \in running \union done, m < n, Between(m, n, Emitted)
  PROVE  m \in done
<1>1. PICK k \in Node : m < k /\ k =< n /\ barrier[k] # "none"
  BY DEF Between, Emitted
<1>2. 1 .. (k - 1) \subseteq done
  BY <1>1 DEF ExecInv, BarriersHold, MayStart
<1> QED BY <1>1, <1>2 DEF Node

\* Byte b is one that access k of node n declares; a transient's is inside it.
AccessedAt(n, k, b) ==
  /\ k \in DOMAIN nodes[n] /\ nodes[n][k] \in Access
  /\ b = <<nodes[n][k].res, b[2]>> /\ b[2] \in BytesOf(nodes[n][k]) /\ b[2] \in Nat
  /\ b[1] \in Transients => b[2] < bytes[b[1]]

LEMMA BytesAreDeclared ==
  ASSUME PlanInv, NEW n \in Node, NEW k \in DOMAIN nodes[n], NEW x \in BytesOf(nodes[n][k])
  PROVE  AccessedAt(n, k, <<nodes[n][k].res, x>>)
<1> DEFINE a == nodes[n][k]
<1>1. a \in Access
  BY AccessIsTyped DEF PlanInv, PlanTypeOK
<1>2. a.off \in Nat /\ a.size \in Nat \ {0}
  BY <1>1 DEF Access
<1>3. x \in Nat /\ x < a.off + a.size
  <2> HIDE DEF a
  <2> QED BY <1>2 DEF BytesOf, a
<1>4. a.res \in Transients => a.off + a.size =< bytes[a.res] /\ bytes[a.res] \in Nat
  <2>1. n \in DOMAIN nodes
    BY DEF PlanInv, PlanTypeOK, TypeOK, Node, N
  <2> QED BY <2>1, EndsAreTyped DEF PlanInv, WithinTransients
<1>5. a.res \in Transients => x < bytes[a.res]
  <2> HIDE DEF a
  <2> QED BY <1>2, <1>3, <1>4
<1> QED BY <1>1, <1>3, <1>5 DEF AccessedAt

LEMMA ReadBytesAreDeclared ==
  ASSUME PlanInv, NEW n \in Node, NEW b
  PROVE  b \in BytesRead(n) <=>
           \E k \in DOMAIN nodes[n] : AccessedAt(n, k, b) /\ Reads(nodes[n][k])
<1>1. ASSUME b \in BytesRead(n)
      PROVE  \E k \in DOMAIN nodes[n] : AccessedAt(n, k, b) /\ Reads(nodes[n][k])
  <2>1. PICK k \in DOMAIN nodes[n] : Reads(nodes[n][k])
                                    /\ \E x \in BytesOf(nodes[n][k]) : b = <<nodes[n][k].res, x>>
    BY <1>1 DEF BytesRead, Accessed
  <2> QED BY <2>1, BytesAreDeclared
<1>2. ASSUME NEW k \in DOMAIN nodes[n], AccessedAt(n, k, b), Reads(nodes[n][k])
      PROVE  b \in BytesRead(n)
  BY <1>2 DEF AccessedAt, BytesRead, Accessed
<1> QED BY <1>1, <1>2

LEMMA WrittenBytesAreDeclared ==
  ASSUME PlanInv, NEW n \in Node, NEW b
  PROVE  b \in BytesWritten(n) <=>
           \E k \in DOMAIN nodes[n] : AccessedAt(n, k, b) /\ Writes(nodes[n][k])
<1>1. ASSUME b \in BytesWritten(n)
      PROVE  \E k \in DOMAIN nodes[n] : AccessedAt(n, k, b) /\ Writes(nodes[n][k])
  <2>1. PICK k \in DOMAIN nodes[n] : Writes(nodes[n][k])
                                    /\ \E x \in BytesOf(nodes[n][k]) : b = <<nodes[n][k].res, x>>
    BY <1>1 DEF BytesWritten, Accessed
  <2> QED BY <2>1, BytesAreDeclared
<1>2. ASSUME NEW k \in DOMAIN nodes[n], AccessedAt(n, k, b), Writes(nodes[n][k])
      PROVE  b \in BytesWritten(n)
  BY <1>2 DEF AccessedAt, BytesWritten, Accessed
<1> QED BY <1>1, <1>2

\* Two declared bytes at one location are one byte, or bytes of two transients
\* that share pool bytes.
LEMMA SameLocation ==
  ASSUME PlanInv, stage = "built", NEW m \in Node, NEW n \in Node,
         NEW p, NEW q, NEW b, NEW c, AccessedAt(m, p, b), AccessedAt(n, q, c),
         Location(b[1], b[2]) = Location(c[1], c[2])
  PROVE  \/ b = c
         \/ /\ b[1] # c[1] /\ b[1] \in Transients /\ c[1] \in Transients
            /\ ShareBytes(b[1], c[1]) /\ ShareBytes(c[1], b[1])
            /\ m \in Users(b[1]) /\ n \in Users(c[1])
<1>1. m \in Users(b[1]) /\ n \in Users(c[1])
  BY DEF AccessedAt, Users, Touches
<1>2. b[2] \in Nat /\ c[2] \in Nat /\ b = <<b[1], b[2]>> /\ c = <<c[1], c[2]>>
  BY DEF AccessedAt
<1>3. \A t \in Transients : offset[t] \in Nat /\ bytes[t] \in Nat
                           /\ AlignUp(bytes[t]) \in Nat /\ bytes[t] =< AlignUp(bytes[t])
  BY EndsAreTyped DEF PlanInv, PassesHold
<1>4. CASE b[1] \in Transients /\ c[1] \in Transients
  <2>1. offset[b[1]] + b[2] = offset[c[1]] + c[2]
    BY <1>4 DEF Location
  <2>2. CASE b[1] = c[1]
    <3>1. b[2] = c[2] BY <1>2, <1>3, <1>4, <2>1, <2>2
    <3> QED BY <1>2, <2>2, <3>1
  <2>3. b[2] < bytes[b[1]] /\ c[2] < bytes[c[1]]
    BY <1>4 DEF AccessedAt
  <2>4. ShareBytes(b[1], c[1]) /\ ShareBytes(c[1], b[1])
    BY <1>2, <1>3, <1>4, <2>1, <2>3 DEF ShareBytes, End
  <2> QED BY <1>1, <1>4, <2>2, <2>4
<1>5. CASE ~(b[1] \in Transients /\ c[1] \in Transients)
  <2>1. b[1] \notin Transients /\ c[1] \notin Transients
    BY <1>5 DEF Location
  <2>2. b[1] = c[1] /\ b[2] = c[2]
    BY <2>1 DEF Location
  <2> QED BY <1>2, <2>2
<1> QED BY <1>4, <1>5

\* Two nodes that meet at a location, one of them writing, have a barrier between.
LEMMA MeetingIsSeparated ==
  ASSUME PlanInv, stage = "built", NEW m \in Node, NEW n \in Node, m # n,
         NEW p, NEW q, NEW b, NEW c, AccessedAt(m, p, b), AccessedAt(n, q, c),
         Location(b[1], b[2]) = Location(c[1], c[2]),
         Writes(nodes[m][p]) \/ Writes(nodes[n][q])
  PROVE  \/ m < n /\ Between(m, n, Emitted)
         \/ n < m /\ Between(n, m, Emitted)
<1>1. m < n \/ n < m
  BY DEF Node
<1>2. CASE b = c
  <2>1. AccessConflict(nodes[m][p], nodes[n][q]) /\ AccessConflict(nodes[n][q], nodes[m][p])
    <3> DEFINE x == nodes[m][p]
               y == nodes[n][q]
    <3>1. x \in Access /\ y \in Access /\ x.res = y.res
          /\ b[2] \in BytesOf(x) /\ b[2] \in BytesOf(y) /\ b[2] \in Nat
      BY <1>2 DEF AccessedAt
    <3>2. x.off =< b[2] /\ b[2] < x.off + x.size /\ y.off =< b[2] /\ b[2] < y.off + y.size
          /\ x.off \in Nat /\ x.size \in Nat /\ y.off \in Nat /\ y.size \in Nat
      <4> HIDE DEF x, y
      <4> QED BY <3>1 DEF Access, BytesOf
    <3>3. Writes(x) \/ Writes(y)
      OBVIOUS
    <3> HIDE DEF x, y
    <3>4. AccessConflict(x, y) /\ AccessConflict(y, x)
      BY <3>1, <3>2, <3>3 DEF AccessConflict, Overlaps
    <3> QED BY <3>4 DEF x, y
  <2>2. Conflict(nodes, m, n) /\ Conflict(nodes, n, m)
    BY <2>1 DEF Conflict, AccessedAt
  <2> QED BY <1>1, <2>2 DEF PlanInv, PassesHold
<1>3. CASE b # c
  <2>1. /\ b[1] # c[1] /\ b[1] \in Transients /\ c[1] \in Transients
        /\ ShareBytes(b[1], c[1]) /\ ShareBytes(c[1], b[1])
        /\ m \in Users(b[1]) /\ n \in Users(c[1])
    BY <1>3, SameLocation
  <2>2. Compatible(b[1], c[1])
    BY <2>1 DEF PlanInv, PassesHold, SharersAreCompatible
  <2>3. /\ Users(b[1]) \subseteq Node /\ LastUser(b[1]) \in Node /\ m =< LastUser(b[1])
        /\ FirstUser(b[1]) \in Node /\ FirstUser(b[1]) =< m
    BY <2>1, UsersHaveEnds DEF PlanInv
  <2>4. /\ Users(c[1]) \subseteq Node /\ LastUser(c[1]) \in Node /\ n =< LastUser(c[1])
        /\ FirstUser(c[1]) \in Node /\ FirstUser(c[1]) =< n
    BY <2>1, UsersHaveEnds DEF PlanInv
  <2>5. CASE AllBefore(b[1], c[1])
    <3>1. LastUser(b[1]) < FirstUser(c[1]) /\ barrier[FirstUser(c[1])] = "memory"
      BY <2>1, <2>5, SharersHandOver
    <3> QED BY <2>3, <2>4, <3>1 DEF Between, Emitted, Node
  <2>6. CASE AllBefore(c[1], b[1])
    <3>1. LastUser(c[1]) < FirstUser(b[1]) /\ barrier[FirstUser(b[1])] = "memory"
      BY <2>1, <2>6, SharersHandOver
    <3> QED BY <2>3, <2>4, <3>1 DEF Between, Emitted, Node
  <2> QED BY <2>2, <2>5, <2>6 DEF Compatible
<1> QED BY <1>2, <1>3

\* So when both have started, the earlier is done.
LEMMA MeetingIsOrdered ==
  ASSUME ExecInv, NEW m \in running \union done, NEW n \in running \union done, m # n,
         NEW b \in BytesWritten(m), NEW c \in BytesRead(n) \union BytesWritten(n),
         Location(b[1], b[2]) = Location(c[1], c[2])
  PROVE  \/ m < n /\ m \in done
         \/ n < m /\ n \in done
<1>1. m \in Node /\ n \in Node /\ PlanInv /\ stage = "built"
  BY DEF ExecInv
<1>2. PICK p : AccessedAt(m, p, b) /\ Writes(nodes[m][p])
  BY <1>1, WrittenBytesAreDeclared
<1>3. PICK q : AccessedAt(n, q, c)
  BY <1>1, ReadBytesAreDeclared, WrittenBytesAreDeclared
<1>4. \/ m < n /\ Between(m, n, Emitted)
      \/ n < m /\ Between(n, m, Emitted)
  BY <1>1, <1>2, <1>3, MeetingIsSeparated
<1>5. m < n /\ Between(m, n, Emitted) => m \in done
  BY <1>1, BarrierOrders
<1>6. n < m /\ Between(n, m, Emitted) => n \in done
  BY <1>1, BarrierOrders
<1> QED BY <1>4, <1>5, <1>6
LEMMA ExecInvInit == ExecInit => ExecInv
<1> SUFFICES ASSUME ExecInit PROVE ExecInv
  OBVIOUS
<1>1. PlanInv
  BY PlanInvInit DEF ExecInit
<1>2. running = {} /\ done = {} /\ mem = <<>>
  BY DEF ExecInit
<1>3. BarriersHold /\ MemoryHoldsLastWrites
  BY <1>2 DEF BarriersHold, MemoryHoldsLastWrites
<1> QED BY <1>1, <1>2, <1>3 DEF ExecInv

\* Planning is over before anything runs.
LEMMA PlanningKeepsExec ==
  ASSUME ExecInv, PlanNext, UNCHANGED execVars
  PROVE  ExecInv'
<1>1. PlanInv'
  BY PlanInvStep DEF ExecInv
<1>2. stage # "built"
  BY DEF PlanNext, CloseRow, Inferred, Check, PlanBarriers, PlanSerialBarriers, PackNext,
         PlaceConsecutively, FinishPlacing, PlanHandovers
<1>3. running = {} /\ done = {} /\ mem = <<>> /\ running' = {} /\ done' = {} /\ mem' = <<>>
  BY <1>2 DEF ExecInv, execVars
<1>4. BarriersHold' /\ MemoryHoldsLastWrites'
  BY <1>3 DEF BarriersHold, MemoryHoldsLastWrites
<1> QED BY <1>1, <1>3, <1>4 DEF ExecInv

\* What an execution step leaves of the plan.
LEMMA PlanUnchanged ==
  ASSUME PlanInv, UNCHANGED allVars
  PROVE  /\ PlanInv' /\ Node' = Node /\ stage' = stage /\ barrier' = barrier
         /\ \A n, b : /\ (b \in BytesWritten(n))' <=> b \in BytesWritten(n)
                     /\ (b \in BytesRead(n))' <=> b \in BytesRead(n)
         /\ \A n : BytesWritten(n)' = BytesWritten(n) /\ WriteSet(n)' = WriteSet(n)
         /\ \A r, x : Location(r, x)' = Location(r, x)
<1>1. PlanInv'
  BY PlanInvStep
<1>2. Node' = Node /\ stage' = stage /\ barrier' = barrier /\ nodes' = nodes /\ offset' = offset
  BY DEF allVars, planVars, vars, Node, N
<1>3. \A r, x : Location(r, x)' = Location(r, x)
  BY <1>2 DEF Location
<1>4. \A n : BytesWritten(n)' = BytesWritten(n) /\ BytesRead(n)' = BytesRead(n)
  BY <1>2 DEF BytesWritten, BytesRead, Accessed
<1>5. \A n : WriteSet(n)' = WriteSet(n)
  BY <1>3, <1>4 DEF WriteSet
<1> QED BY <1>1, <1>2, <1>3, <1>4, <1>5

LEMMA StartKeepsExec ==
  ASSUME ExecInv, Start
  PROVE  ExecInv'
<1>1. PICK n \in Node \ (running \union done) : MayStart(n) /\ running' = running \union {n}
  BY DEF Start
<1>2. stage = "built" /\ UNCHANGED allVars /\ done' = done /\ mem' = mem
  BY DEF Start
<1>3. /\ PlanInv' /\ Node' = Node /\ stage' = stage /\ barrier' = barrier
      /\ \A k : BytesWritten(k)' = BytesWritten(k) /\ WriteSet(k)' = WriteSet(k)
      /\ \A r, x : Location(r, x)' = Location(r, x)
  BY <1>2, PlanUnchanged DEF ExecInv
<1>4. \A k : MayStart(k) => MayStart(k)'
  BY <1>2, <1>3 DEF MayStart
<1>5. BarriersHold'
  BY <1>1, <1>2, <1>4 DEF ExecInv, BarriersHold
<1>6. \A l : HoldsLastWrite(l) => HoldsLastWrite(l)'
  BY <1>2, <1>3 DEF HoldsLastWrite
<1>7. MemoryHoldsLastWrites'
  BY <1>2, <1>3, <1>6 DEF ExecInv, MemoryHoldsLastWrites
<1> QED BY <1>1, <1>2, <1>3, <1>5, <1>7 DEF ExecInv

\* A finishing node wrote every location it writes after all finished writers of
\* it, which are earlier in record order: were one later, it would have waited.
LEMMA CompleteKeepsExec ==
  ASSUME ExecInv, Complete
  PROVE  ExecInv'
<1>0. PICK n \in running :
        /\ running' = running \ {n} /\ done' = done \union {n}
        /\ mem' = [l \in WriteSet(n) \union DOMAIN mem |->
                     LET b == CHOOSE c \in BytesWritten(n) : Location(c[1], c[2]) = l
                     IN  IF l \in WriteSet(n) THEN [node |-> n, res |-> b[1], byte |-> b[2]]
                                              ELSE mem[l]]
        /\ UNCHANGED allVars
  BY DEF Complete
<1> DEFINE byteAt(l) == CHOOSE c \in BytesWritten(n) : Location(c[1], c[2]) = l
<1>1. n \in Node /\ n \notin done /\ stage = "built" /\ UNCHANGED allVars
  BY <1>0 DEF ExecInv
<1>2. /\ PlanInv' /\ Node' = Node /\ stage' = stage /\ barrier' = barrier
      /\ \A k : BytesWritten(k)' = BytesWritten(k) /\ WriteSet(k)' = WriteSet(k)
      /\ \A r, x : Location(r, x)' = Location(r, x)
  BY <1>1, PlanUnchanged DEF ExecInv
<1>3. /\ DOMAIN mem' = WriteSet(n) \union DOMAIN mem
      /\ \A l \in WriteSet(n) : mem'[l] = [node |-> n, res |-> byteAt(l)[1], byte |-> byteAt(l)[2]]
      /\ \A l \in DOMAIN mem \ WriteSet(n) : mem'[l] = mem[l]
  BY <1>0
<1>4. \A l \in WriteSet(n) : byteAt(l) \in BytesWritten(n)
                           /\ Location(byteAt(l)[1], byteAt(l)[2]) = l
  BY DEF WriteSet
<1> HIDE DEF byteAt
<1>5. BarriersHold'
  <2>1. \A k : MayStart(k) => MayStart(k)'
    BY <1>0, <1>2 DEF MayStart
  <2> QED BY <1>0, <2>1 DEF ExecInv, BarriersHold
<1>6. ASSUME NEW l \in WriteSet(n), NEW k \in done \union {n}, l \in WriteSet(k)
      PROVE  k =< n
  <2>1. CASE k = n
    BY <1>1, <2>1 DEF Node
  <2>2. CASE k # n
    <3>1. PICK c \in BytesWritten(k) : Location(c[1], c[2]) = l
      BY <1>6 DEF WriteSet
    <3>2. \/ k < n /\ k \in done
          \/ n < k /\ n \in done
      BY <1>0, <1>4, <1>6, <2>2, <3>1, MeetingIsOrdered
    <3> QED BY <1>1, <1>6, <2>2, <3>2 DEF ExecInv, Node
  <2> QED BY <2>1, <2>2
<1>7. ASSUME NEW l \in DOMAIN mem' PROVE HoldsLastWrite(l)'
  <2>1. CASE l \in WriteSet(n)
    BY <1>0, <1>2, <1>3, <1>4, <1>6, <2>1 DEF HoldsLastWrite
  <2>2. CASE l \notin WriteSet(n)
    <3>1. l \in DOMAIN mem /\ mem'[l] = mem[l] /\ HoldsLastWrite(l)
      BY <1>3, <1>7, <2>2 DEF ExecInv, MemoryHoldsLastWrites
    <3> QED BY <1>0, <1>2, <2>2, <3>1 DEF HoldsLastWrite
  <2> QED BY <2>1, <2>2
<1>8. MemoryHoldsLastWrites'
  BY <1>0, <1>2, <1>3, <1>7 DEF ExecInv, MemoryHoldsLastWrites
<1> QED BY <1>0, <1>1, <1>2, <1>5, <1>8 DEF ExecInv

LEMMA ExecInvStep == ExecInv /\ [ExecNext]_everything => ExecInv'
<1> SUFFICES ASSUME ExecInv, [ExecNext]_everything PROVE ExecInv'
  OBVIOUS
<1>1. CASE PlanNext /\ UNCHANGED execVars
  BY <1>1, PlanningKeepsExec
<1>2. CASE Start
  BY <1>2, StartKeepsExec
<1>3. CASE Complete
  BY <1>3, CompleteKeepsExec
<1>4. CASE UNCHANGED everything
  <2>1. UNCHANGED allVars /\ running' = running /\ done' = done /\ mem' = mem
    BY <1>4 DEF everything, execVars
  <2>2. /\ PlanInv' /\ Node' = Node /\ stage' = stage /\ barrier' = barrier
        /\ \A k : BytesWritten(k)' = BytesWritten(k) /\ WriteSet(k)' = WriteSet(k)
        /\ \A r, x : Location(r, x)' = Location(r, x)
    BY <2>1, PlanUnchanged DEF ExecInv
  <2>3. BarriersHold'
    BY <2>1, <2>2 DEF ExecInv, BarriersHold, MayStart
  <2>4. \A l : HoldsLastWrite(l) => HoldsLastWrite(l)'
    BY <2>1, <2>2 DEF HoldsLastWrite
  <2>5. MemoryHoldsLastWrites'
    BY <2>1, <2>2, <2>4 DEF ExecInv, MemoryHoldsLastWrites
  <2> QED BY <2>1, <2>2, <2>3, <2>5 DEF ExecInv
<1> QED BY <1>1, <1>2, <1>3, <1>4 DEF ExecNext
LEMMA RunningNeverRace == ExecInv => NoRace
<1> SUFFICES ASSUME ExecInv, NEW m \in running, NEW n \in running, m # n,
                    NEW l \in WriteSet(m), l \in ReadSet(n) \union WriteSet(n)
             PROVE  FALSE
  BY DEF NoRace
<1>1. PICK b \in BytesWritten(m) : Location(b[1], b[2]) = l
  BY DEF WriteSet
<1>2. PICK c \in BytesRead(n) \union BytesWritten(n) : Location(c[1], c[2]) = l
  BY DEF ReadSet, WriteSet
<1>3. m \in done \/ n \in done
  BY <1>1, <1>2, MeetingIsOrdered
<1> QED BY <1>3 DEF ExecInv

\* The writers record order has before a reading node are done.
LEMMA EarlierWritersAreDone ==
  ASSUME ExecInv, NEW n \in running, NEW b \in BytesRead(n),
         NEW m \in Node, m < n, b \in BytesWritten(m)
  PROVE  m \in done
<1>1. n \in Node /\ PlanInv /\ stage = "built" /\ m # n /\ ~(n < m)
  BY DEF ExecInv, Node
<1>2. PICK p : AccessedAt(m, p, b) /\ Writes(nodes[m][p])
  BY <1>1, WrittenBytesAreDeclared
<1>3. PICK q : AccessedAt(n, q, b)
  BY <1>1, ReadBytesAreDeclared
<1>4. Between(m, n, Emitted)
  BY <1>1, <1>2, <1>3, MeetingIsSeparated
<1> QED BY <1>4, BarrierOrders

\* A read of a transient is covered by an earlier write of the same byte.
LEMMA ReadsOfTransientsAreCovered ==
  ASSUME ExecInv, NEW n \in running, NEW b \in BytesRead(n), b[1] \in Transients
  PROVE  \E u \in Users(b[1]) : <<u, n>> \in reach /\ b \in BytesWritten(u)
<1>1. n \in Node /\ PlanInv /\ stage = "built" /\ TransientsAreWritten
  BY DEF ExecInv, PlanInv, PassesHold
<1>2. PICK k \in DOMAIN nodes[n] : AccessedAt(n, k, b) /\ Reads(nodes[n][k])
  BY <1>1, ReadBytesAreDeclared
<1> DEFINE a == nodes[n][k]
<1>3. a.res = b[1] /\ b = <<b[1], b[2]>> /\ b[2] \in BytesOf(a) /\ a.mode # "write"
  BY <1>2 DEF AccessedAt, Reads
<1>4. CoveredRead(n, a)
  BY <1>1, <1>3 DEF TransientsAreWritten
<1>5. PICK u \in Users(b[1]) : /\ <<u, n>> \in reach
                              /\ \E l \in DOMAIN nodes[u] : /\ nodes[u][l].res = b[1]
                                                            /\ Writes(nodes[u][l])
                                                            /\ b[2] \in BytesOf(nodes[u][l])
  BY <1>3, <1>4 DEF CoveredRead
<1>6. b \in BytesWritten(u)
  BY <1>3, <1>5 DEF BytesWritten, Accessed
<1> QED BY <1>5, <1>6

\* The writers of a byte before a node are bounded, so the last one exists.
LEMMA LastWriterExists ==
  ASSUME PlanInv, NEW b, NEW n \in Nat, NEW m \in Node, m < n, b \in BytesWritten(m),
         \A k \in Node : k < n /\ b \in BytesWritten(k) => k =< m
  PROVE  Expected(n, b) = [node |-> m, res |-> b[1], byte |-> b[2]]
<1> DEFINE ws == {k \in Node : k < n /\ b \in BytesWritten(k)}
<1>1. m \in ws /\ ws \in SUBSET Nat /\ m \in Nat /\ \A k \in ws : k =< m
  BY DEF Node
<1>2. Max(ws) \in ws /\ m =< Max(ws) /\ Max(ws) =< m
  <2> HIDE DEF ws
  <2> QED BY <1>1, MaxOfBounded
<1>3. Max(ws) = m /\ ws # {}
  BY <1>1, <1>2
<1> QED BY <1>3 DEF Expected

LEMMA ReadsSeeRecordOrder == ExecInv => ReadsMatchRecordOrder
<1> SUFFICES ASSUME ExecInv, NEW n \in running, NEW b \in BytesRead(n)
             PROVE  Found(b) = Expected(n, b)
  BY DEF ReadsMatchRecordOrder
<1> DEFINE l == Location(b[1], b[2])
<1>1. n \in Node /\ PlanInv /\ stage = "built" /\ n \notin done /\ n \in Nat
  BY DEF ExecInv, Node
<1>2. \A m \in Node : m < n /\ b \in BytesWritten(m) => m \in done /\ l \in WriteSet(m)
  BY EarlierWritersAreDone DEF WriteSet
<1> HIDE DEF l
<1>3. CASE l \notin DOMAIN mem
  <2>1. {m \in Node : m < n /\ b \in BytesWritten(m)} = {}
    BY <1>2, <1>3 DEF ExecInv, MemoryHoldsLastWrites
  <2> QED BY <1>3, <2>1 DEF Expected, Found, l
<1>4. CASE l \in DOMAIN mem
  <2>1. PICK m \in done : \E c \in BytesWritten(m) :
          /\ Location(c[1], c[2]) = l /\ mem[l] = [node |-> m, res |-> c[1], byte |-> c[2]]
          /\ \A k \in done : l \in WriteSet(k) => k =< m
    BY <1>4 DEF ExecInv, MemoryHoldsLastWrites, HoldsLastWrite
  <2>6. PICK c \in BytesWritten(m) :
          Location(c[1], c[2]) = l /\ mem[l] = [node |-> m, res |-> c[1], byte |-> c[2]]
    BY <2>1
  <2>2. m \in Node /\ m < n
    <3>1. m \in Node /\ m # n
      BY <1>1 DEF ExecInv
    <3> QED BY <1>1, <2>6, <3>1, MeetingIsOrdered DEF l
  <2>3. c = b
    <3>1. PICK p : AccessedAt(m, p, c)
      BY <1>1, <2>6, <2>2, WrittenBytesAreDeclared
    <3>2. PICK q : AccessedAt(n, q, b)
      BY <1>1, ReadBytesAreDeclared
    <3>3. SUFFICES ASSUME /\ c[1] \in Transients /\ b[1] \in Transients /\ c[1] # b[1]
                          /\ ShareBytes(c[1], b[1])
                          /\ m \in Users(c[1]) /\ n \in Users(b[1])
                   PROVE  FALSE
      BY <1>1, <2>6, <2>2, <3>1, <3>2, SameLocation DEF l
    <3>4. PICK u \in Users(b[1]) : <<u, n>> \in reach /\ b \in BytesWritten(u)
      BY <3>3, ReadsOfTransientsAreCovered
    <3>5. u \in Node /\ u < n
      BY <1>1, <3>4 DEF Users, PlanInv, ReachRunsForwards
    <3>6. u =< m
      BY <1>2, <2>1, <3>4, <3>5
    <3>7. Compatible(c[1], b[1])
      BY <1>1, <3>3 DEF PlanInv, PassesHold, SharersAreCompatible
    <3>8. m < u \/ n < m
      BY <1>1, <2>2, <3>3, <3>4, <3>5, <3>7 DEF Compatible, AllBefore, PlanInv, ReachRunsForwards
    <3> QED BY <1>1, <2>2, <3>5, <3>6, <3>8 DEF Node
  <2>4. \A k \in Node : k < n /\ b \in BytesWritten(k) => k =< m
    BY <1>2, <2>1
  <2>5. Expected(n, b) = [node |-> m, res |-> b[1], byte |-> b[2]]
    BY <1>1, <2>6, <2>2, <2>3, <2>4, LastWriterExists
  <2> QED BY <1>4, <2>6, <2>3, <2>5 DEF Found, l
<1> QED BY <1>3, <1>4

LEMMA ResultsAreRecordOrder == ExecInv => ResultsMatchRecordOrder
<1> SUFFICES ASSUME ExecInv, stage = "built", done = Node,
                    NEW n \in Node, NEW b \in BytesWritten(n), b[1] \notin Transients
             PROVE  Found(b) = Expected(N + 1, b)
  BY DEF ResultsMatchRecordOrder
<1> DEFINE l == Location(b[1], b[2])
<1>1. PlanInv /\ N \in Nat
  BY DEF ExecInv, PlanInv, PlanTypeOK, TypeOK, N
<1>2. \A m \in Node : b \in BytesWritten(m) => l \in WriteSet(m)
  BY DEF WriteSet
<1> HIDE DEF l
<1>3. l \in DOMAIN mem
  BY <1>2 DEF ExecInv, MemoryHoldsLastWrites
<1>4. PICK m \in done : \E c \in BytesWritten(m) :
        /\ Location(c[1], c[2]) = l /\ mem[l] = [node |-> m, res |-> c[1], byte |-> c[2]]
        /\ \A k \in done : l \in WriteSet(k) => k =< m
  BY <1>3 DEF ExecInv, MemoryHoldsLastWrites, HoldsLastWrite
<1>10. PICK c \in BytesWritten(m) :
         Location(c[1], c[2]) = l /\ mem[l] = [node |-> m, res |-> c[1], byte |-> c[2]]
  BY <1>4
<1>5. PICK p : AccessedAt(m, p, c)
  BY <1>1, <1>4, <1>10, WrittenBytesAreDeclared
<1>6. PICK q : AccessedAt(n, q, b)
  BY <1>1, WrittenBytesAreDeclared
<1>7. c = b
  BY <1>1, <1>4, <1>10, <1>5, <1>6, SameLocation DEF l
<1>8. m < N + 1 /\ m \in Node /\ \A k \in Node : b \in BytesWritten(k) => k =< m
  BY <1>1, <1>2, <1>4 DEF Node
<1>9. Expected(N + 1, b) = [node |-> m, res |-> b[1], byte |-> b[2]]
  BY <1>1, <1>4, <1>10, <1>7, <1>8, LastWriterExists
<1> QED BY <1>3, <1>10, <1>7, <1>9 DEF Found, l

(* A submission is record order (driver.PlanNode, BuildNaive): for every recording,
   plan and overlap the barriers allow, nodes in flight never race, and what each
   reads and what the graph leaves behind is what record order would give.   *)
THEOREM ExecutionIsRecordOrder == ExecSpec => []RunsMatchRecordOrder
<1>1. ExecInv => RunsMatchRecordOrder
  BY RunningNeverRace, ReadsSeeRecordOrder, ResultsAreRecordOrder DEF RunsMatchRecordOrder
<1> QED BY <1>1, ExecInvInit, ExecInvStep, PTL DEF ExecSpec
=============================================================================
