---------------------------- MODULE TransientPlan ----------------------------
(***************************************************************************)
(* The rest of Build's plan (build.go, alias.go): transients no node       *)
(* writes first are refused, barriers are planned, each transient gets an  *)
(* offset in one pool, and a handover barrier is required wherever two     *)
(* transients share bytes.  BuildNaive takes the conservative plan.        *)
(*                                                                         *)
(* reach is the relation DependencyGraph ends with: it contains every      *)
(* conflict, every edge in it is a conflict, and it is closed, so it is    *)
(* the closure of the conflicts.                                           *)
(***************************************************************************)
EXTENDS BarrierPlan, FiniteSetsExt, SequencesExt

CONSTANTS
  Declared,      \* the transients, in declaration order
  Sizes,         \* the byte sizes a transient may have
  Align,         \* the pool's placement alignment
  MaxPoolBytes   \* the device's reported pool budget (0 for none)

Transients == Range(Declared)

ASSUME TransientsAssumption ==
  /\ Declared \in Seq(Resources) /\ IsInjective(Declared)
  /\ Sizes \subseteq Nat \ {0} /\ Align \in Nat \ {0} /\ MaxPoolBytes \in Nat

VARIABLES
  naive,   \* Build or BuildNaive
  bytes,   \* each transient's size
  reach,   \* reachability rows
  row,     \* the row being closed, the last node's first
  offset,  \* each transient's place in the pool, Unplaced before packing
  stage    \* where Build is

planVars == <<naive, bytes, reach, row, offset, stage>>
allVars == <<vars, planVars>>

Unplaced == -1
AlignUp(n) == ((n + Align - 1) \div Align) * Align

\* A transient is recorded through views inside its own size.
WithinTransients(prog, size) ==
  \A n \in DOMAIN prog : \A k \in DOMAIN prog[n] :
    LET a == prog[n][k]
    IN  a.res \in Transients => a.off + a.size =< size[a.res]

PlanInit ==
  /\ Init
  /\ naive \in BOOLEAN
  /\ bytes \in [Transients -> Sizes]
  /\ WithinTransients(nodes, bytes)
  /\ reach = {} /\ row = Len(nodes)
  /\ offset = [t \in Transients |-> Unplaced]
  /\ stage = "infer"

ConflictsAfter(m) == {n \in Node : m < n /\ Conflict(nodes, m, n)}
RowOf(m) == {n \in Node : <<m, n>> \in reach}

\* One backward pass: a node reaches its successors and all they reach.
CloseRow ==
  /\ stage = "infer" /\ row \in Node
  /\ LET succ == ConflictsAfter(row)
     IN  reach' = reach \union {<<row, n>> : n \in succ \union UNION {RowOf(s) : s \in succ}}
  /\ row' = row - 1
  /\ UNCHANGED <<vars, naive, bytes, offset, stage>>

Inferred ==
  /\ stage = "infer" /\ row = 0
  /\ stage' = "check"
  /\ UNCHANGED <<vars, naive, bytes, reach, row, offset>>

-----------------------------------------------------------------------------
(* Users and lifetimes, as Recorder.touch leaves them.                      *)
Touches(n, t) == \E k \in DOMAIN nodes[n] : nodes[n][k].res = t
Users(t) == {n \in Node : Touches(n, t)}
FirstUser(t) == Min(Users(t))
LastUser(t)  == Max(Users(t))
WritersOf(t) == {n \in Node : \E k \in DOMAIN nodes[n] : nodes[n][k].res = t /\ Writes(nodes[n][k])}

\* The packing tie break: first writer, else first user, else the first node.
FirstWriter(t) ==
  CASE WritersOf(t) # {} -> Min(WritersOf(t))
    [] WritersOf(t) = {} /\ Users(t) # {} -> FirstUser(t)
    [] OTHER -> 1

BytesOf(a) == a.off .. a.off + a.size - 1

\* Every byte the access reads was written by a node ordered strictly before.
CoveredRead(n, a) ==
  \A x \in BytesOf(a) :
    \E u \in Users(a.res) : /\ <<u, n>> \in reach
                            /\ \E k \in DOMAIN nodes[u] : /\ nodes[u][k].res = a.res
                                                          /\ Writes(nodes[u][k])
                                                          /\ x \in BytesOf(nodes[u][k])

TransientsAreWritten ==
  \A n \in Node : \A k \in DOMAIN nodes[n] :
    LET a == nodes[n][k]
    IN  a.res \in Transients /\ a.mode # "write" => CoveredRead(n, a)

Check ==
  /\ stage = "check"
  /\ stage' = IF TransientsAreWritten THEN "barriers" ELSE "refused"
  /\ UNCHANGED <<vars, naive, bytes, reach, row, offset>>

-----------------------------------------------------------------------------
PlanBarriers ==
  /\ stage = "barriers" /\ ~naive
  /\ Next
  /\ stage' = IF phase' = "planned" THEN "place" ELSE "barriers"
  /\ UNCHANGED <<naive, bytes, reach, row, offset>>

\* planSerialBarriers: a full barrier before every node.
PlanSerialBarriers ==
  /\ stage = "barriers" /\ naive
  /\ barrier' = [n \in Node |-> "memory"]
  /\ phase' = "planned" /\ i' = N + 1
  /\ stage' = "place"
  /\ UNCHANGED <<nodes, j, states, batch, naive, bytes, reach, row, offset>>

-----------------------------------------------------------------------------
AllBefore(a, b)  == \A u \in Users(a), v \in Users(b) : <<u, v>> \in reach

\* Mutant: disjoint record-order intervals.
CompatibleByInterval(a, b) ==
  Users(a) # {} /\ Users(b) # {} =>
    LastUser(a) < FirstUser(b) \/ LastUser(b) < FirstUser(a)

Compatible(a, b) == AllBefore(a, b) \/ AllBefore(b, a)

Placed == {t \in Transients : offset[t] # Unplaced}
End(t) == offset[t] + AlignUp(bytes[t])
PoolTotal == IF Placed = {} THEN 0 ELSE AlignUp(Max({End(t) : t \in Placed}))

\* Packing order: larger first, then the earlier first writer, then
\* declaration order (the sort is stable).
PackedBefore(a, b) ==
  \/ bytes[a] > bytes[b]
  \/ bytes[a] = bytes[b] /\ FirstWriter(a) < FirstWriter(b)
  \/ /\ bytes[a] = bytes[b] /\ FirstWriter(a) = FirstWriter(b)
     /\ \E p, q \in DOMAIN Declared : p < q /\ Declared[p] = a /\ Declared[q] = b

Interfering(t) == {u \in Placed : ~Compatible(t, u)}
PastAll(us) == Max({0} \union {AlignUp(End(u)) : u \in us})

\* The scan of interfering placements in offset order moves past each in turn
\* and stops at the first that leaves a gap before it where t fits.
LowestFreeOffset(t) ==
  LET below(o) == {u \in Interfering(t) : offset[u] < o}
      stops == {o \in {offset[u] : u \in Interfering(t)} :
                  PastAll(below(o)) + AlignUp(bytes[t]) =< o}
  IN  PastAll(IF stops = {} THEN Interfering(t) ELSE below(Min(stops)))

PackNext ==
  /\ stage = "place" /\ ~naive
  /\ \E t \in Transients \ Placed :
       /\ \A u \in (Transients \ Placed) \ {t} : PackedBefore(t, u)
       /\ offset' = [offset EXCEPT ![t] = LowestFreeOffset(t)]
  /\ UNCHANGED <<vars, naive, bytes, reach, row, stage>>

\* The naive plan's consecutive placement.
PlaceConsecutively ==
  /\ stage = "place" /\ naive /\ Placed # Transients
  /\ LET k == Min({p \in DOMAIN Declared : Declared[p] \notin Placed})
     IN  offset' = [offset EXCEPT ![Declared[k]] = PoolTotal]
  /\ UNCHANGED <<vars, naive, bytes, reach, row, stage>>

\* V20 refuses a pool above the reported budget; otherwise Build goes on.
FinishPlacing ==
  /\ stage = "place" /\ Placed = Transients
  /\ stage' = CASE MaxPoolBytes > 0 /\ PoolTotal > MaxPoolBytes -> "refused"
                [] ~(MaxPoolBytes > 0 /\ PoolTotal > MaxPoolBytes) /\ naive -> "built"
                [] OTHER -> "handover"
  /\ UNCHANGED <<vars, naive, bytes, reach, row, offset>>

ShareBytes(a, b) == offset[a] < End(b) /\ offset[b] < End(a)

\* The first user of the later of two transients that share bytes.
HandoverNodes ==
  {Max({FirstUser(p[1]), FirstUser(p[2])}) :
     p \in {q \in Transients \X Transients :
              q[1] # q[2] /\ Users(q[1]) # {} /\ Users(q[2]) # {} /\ ShareBytes(q[1], q[2])}}

PlanHandovers ==
  /\ stage = "handover"
  /\ barrier' = [n \in Node |-> IF n \in HandoverNodes THEN "memory" ELSE barrier[n]]
  /\ stage' = "built"
  /\ UNCHANGED <<nodes, phase, i, j, states, batch, naive, bytes, reach, row, offset>>

PlanNext ==
  \/ CloseRow \/ Inferred \/ Check \/ PlanBarriers \/ PlanSerialBarriers
  \/ PackNext \/ PlaceConsecutively \/ FinishPlacing \/ PlanHandovers

PlanSpec == PlanInit /\ [][PlanNext]_allVars
-----------------------------------------------------------------------------
PlanTypeOK ==
  /\ TypeOK
  /\ naive \in BOOLEAN /\ bytes \in [Transients -> Sizes]
  /\ reach \subseteq Node \X Node /\ row \in Node \union {0}
  /\ offset \in [Transients -> Nat \union {Unplaced}]
  /\ stage \in {"infer", "check", "barriers", "place", "handover", "built", "refused"}

\* The diamond the design rejects intervals for (compatible): transients that
\* share bytes have every user of one ordered before every user of the other,
\* in one direction for all pairs.
SharedBytesNeverInterfere ==
  \A a, b \in Placed : a # b /\ ShareBytes(a, b) => AllBefore(a, b) \/ AllBefore(b, a)

\* An aliasing handover has a full barrier behind the last user of the transient
\* that held the bytes first (planHandovers): data flow separates the two users
\* already, but possibly by a barrier that only orders.
HandoversAreSeparated ==
  stage = "built" =>
    \A a, b \in Transients :
      a # b /\ ShareBytes(a, b) /\ Users(a) # {} /\ Users(b) # {} /\ AllBefore(a, b)
        => Between(LastUser(a), FirstUser(b), {"memory"})

\* Batching is exact in the optimised plan (planBarriers): past the head, a barrier
\* stands before a node only for a handover, or for a conflict into that node with
\* nothing but handovers between its two ends; and one that flushes memory for a
\* conflict whose first end wrote, never for a write after a read.
HandoverAt(n) == stage = "built" /\ n \in HandoverNodes
FlowsInto(m, n) == \E k \in DOMAIN nodes[m], l \in DOMAIN nodes[n] :
                     Overlaps(nodes[m][k], nodes[n][l]) /\ Writes(nodes[m][k])
CallsFor(m, n, kind) == m < n /\ Conflict(nodes, m, n) /\ (kind = "memory" => FlowsInto(m, n))

BarriersAreNeeded ==
  ~naive => \A n \in Node \ {1} : barrier[n] # "none" =>
    \/ HandoverAt(n)
    \/ \E m \in Node : /\ CallsFor(m, n, barrier[n])
                       /\ \A k \in m + 1 .. n - 1 : barrier[k] = "none" \/ HandoverAt(k)

\* peakBytes is a lower bound of every plan, and aliasing never costs memory
\* (GraphMemory): interval peak =< packed pool =< unaliased sum.
LiveAt(n) == {t \in Transients : Users(t) # {} /\ FirstUser(t) =< n /\ n =< LastUser(t)}
Footprint(ts) == MapThenSumSet(LAMBDA t : AlignUp(bytes[t]), ts)
PoolIsBetweenPeakAndUnaliased ==
  stage = "built" =>
    /\ \A n \in Node : Footprint(LiveAt(n)) =< PoolTotal
    /\ PoolTotal =< Footprint(Transients)

\* Sharing bytes is safe in both respects, the order of the users and the full
\* barrier at the handover (alias.go).
SharingIsSafe == PlanTypeOK /\ SharedBytesNeverInterfere /\ HandoversAreSeparated

\* And the plan asks for no barrier and no byte more than its rules call for
\* (planBarriers, GraphMemory).
PlansAreFrugal == BarriersAreNeeded /\ PoolIsBetweenPeakAndUnaliased
=============================================================================
