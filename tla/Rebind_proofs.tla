---------------------------- MODULE Rebind_proofs ----------------------------
(***************************************************************************)
(* For every recording, every set of slots, buffers and batches, and every *)
(* number of callers: no binding makes two resources share a byte that the *)
(* plan took for independent, and operands stay where they were bound.     *)
(* V24 compares names, and only within one buffer; what it says of memory  *)
(* rests on every bound buffer being open when the submission starts.      *)
(***************************************************************************)
EXTENDS Rebind, FiniteSetTheorems, TLAPS

BoundBuffers == {bound[s].buf : s \in {x \in Slots : bound[x] # None}}

\* What is bound fits its slot, and the executable has it where it is.
BoundFits ==
  \A s \in Slots : bound[s] # None =>
    /\ MinCount[s] =< bound[s].size
    /\ table[s] = home[bound[s].buf] + bound[s].off

BatchesFit ==
  \A c \in Callers : batch[c] # None =>
    \A k \in DOMAIN batch[c] : MinCount[batch[c][k].slot] =< batch[c][k].view.size

\* The buffers a submission uses do not meet in memory, whoever closed them
\* since it started; those that nodes name count while they are open.
InFlightApart ==
  inFlight => /\ \A s \in Slots : bound[s] # None
              /\ Apart(home, BoundBuffers \union (Concretes \intersect open))

IInv ==
  /\ TypeOK /\ WellRecorded(nodes)
  /\ Apart(home, open)
  /\ BoundFits /\ BatchesFit
  /\ CheckOverlaps(bound)
  /\ InFlightApart

USE RebindAssumption, ProgramsAssumption

-----------------------------------------------------------------------------
\* A nonempty set of positions of a sequence has a last one.
LEMMA LastPosition ==
  ASSUME NEW n \in Nat, NEW S \in SUBSET (1 .. n), S # {}
  PROVE  \E k \in S : \A l \in S : l =< k
<1> DEFINE T == {k .. n : k \in S}
<1>1. \A k \in S : IsFiniteSet(k .. n) /\ k .. n \subseteq 1 .. n
  <2>1. SUFFICES ASSUME NEW k \in S PROVE IsFiniteSet(k .. n) /\ k .. n \subseteq 1 .. n OBVIOUS
  <2>2. k \in Int /\ n \in Int /\ 1 =< k OBVIOUS
  <2> QED BY <2>2, FS_Interval
<1>2. T \subseteq FiniteSubsetsOf(1 .. n) /\ T # {}
  <2>1. \A k \in S : k .. n \in FiniteSubsetsOf(1 .. n) BY <1>1 DEF FiniteSubsetsOf
  <2>2. \A z \in T : z \in FiniteSubsetsOf(1 .. n) BY <2>1
  <2>3. PICK k \in S : TRUE OBVIOUS
  <2>4. k .. n \in T BY <2>3
  <2> QED BY <2>2, <2>4
<1>3. IsWellFoundedOn(StrictSubsetOrdering(1 .. n), FiniteSubsetsOf(1 .. n))
  BY FS_StrictSubsetOrderingWellFounded
<1>4. \E x \in T : \A y \in T : <<y, x>> \notin StrictSubsetOrdering(1 .. n)
  <2> HIDE DEF T
  <2> QED BY <1>2, <1>3, WFMin
<1>5. PICK k \in S : \A l \in S : <<l .. n, k .. n>> \notin StrictSubsetOrdering(1 .. n)
  BY <1>4
<1>6. ASSUME NEW l \in S, ~(l =< k) PROVE FALSE
  <2>1. l .. n \subseteq k .. n /\ k \in k .. n /\ k \notin l .. n BY <1>6
  <2>2. <<l .. n, k .. n>> \in StrictSubsetOrdering(1 .. n)
    BY <1>1, <2>1 DEF StrictSubsetOrdering
  <2> QED BY <1>5, <2>2
<1> QED BY <1>6

\* A batch's effect on a slot is the old view or one of the batch's own.
LEMMA ProspectiveViews ==
  ASSUME TypeOK, NEW us \in Batches, NEW s \in Slots
  PROVE  \/ Prospective(us)[s] = bound[s]
         \/ \E k \in DOMAIN us : us[k].slot = s /\ Prospective(us)[s] = us[k].view
<1> DEFINE mine == {k \in DOMAIN us : us[k].slot = s}
<1>1. CASE mine = {} BY <1>1 DEF Prospective
<1>2. CASE mine # {}
  <2>1. us \in Seq(Update) OBVIOUS
  <2>2. Len(us) \in Nat /\ DOMAIN us = 1 .. Len(us) BY <2>1
  <2>3. mine \in SUBSET (1 .. Len(us)) BY <2>2
  <2>4. \E k \in mine : \A l \in mine : l =< k
    <3> HIDE DEF mine
    <3> QED BY <1>2, <2>2, <2>3, LastPosition
  <2> DEFINE last == CHOOSE k \in mine : \A l \in mine : l =< k
  <2>5. last \in mine BY <2>4
  <2>6. Prospective(us)[s] = us[last].view BY <1>2 DEF Prospective
  <2> QED BY <2>5, <2>6
<1> QED BY <1>1, <1>2

\* Hence it is a view, and fits when the batch and what was bound do.
LEMMA ProspectiveIsTyped ==
  ASSUME TypeOK, NEW us \in Batches
  PROVE  Prospective(us) \in [Slots -> View \union {None}]
<1>1. us \in Seq(Update) OBVIOUS
<1>2. \A k \in DOMAIN us : us[k].view \in View
  <2>1. \A k \in DOMAIN us : us[k] \in Update BY <1>1
  <2> QED BY <2>1 DEF Update
<1>3. bound \in [Slots -> View \union {None}] BY DEF TypeOK
<1>4. \A s \in Slots : Prospective(us)[s] \in View \union {None}
  BY <1>2, <1>3, ProspectiveViews
<1>5. Prospective(us) = [s \in Slots |-> Prospective(us)[s]] BY DEF Prospective
<1> QED BY <1>4, <1>5

LEMMA InitHolds == Init => IInv
<1> SUFFICES ASSUME Init PROVE IInv OBVIOUS
<1>1. home \in [Buffers -> Nat]
  <2>1. 0 .. Bytes - 1 \subseteq Nat OBVIOUS
  <2> QED BY <2>1 DEF Init
<1>2. TypeOK BY <1>1 DEF Init, TypeOK
<1>3. BoundFits /\ BatchesFit /\ InFlightApart /\ CheckOverlaps(bound)
  BY DEF Init, BoundFits, BatchesFit, InFlightApart, CheckOverlaps
<1>4. WellRecorded(nodes) /\ Apart(home, open) BY DEF Init
<1> QED BY <1>2, <1>3, <1>4 DEF IInv

LEMMA ValidateHolds ==
  ASSUME IInv, NEW c \in Callers, NEW us \in Batches, Validate(c, us)
  PROVE  IInv'
<1> USE DEF IInv, Validate
<1>1. TypeOK' BY DEF TypeOK
<1>2. BatchesFit'
  <2> SUFFICES ASSUME NEW d \in Callers, batch'[d] # None, NEW k \in DOMAIN batch'[d]
               PROVE  MinCount[batch'[d][k].slot] =< batch'[d][k].view.size
    BY DEF BatchesFit
  <2>1. CASE d = c BY <2>1 DEF TypeOK, CheckBinding
  <2>2. CASE d # c BY <2>2 DEF TypeOK, BatchesFit
  <2> QED BY <2>1, <2>2
<1>3. BoundFits' /\ InFlightApart' BY DEF BoundFits, InFlightApart, BoundBuffers, Apart
<1>4. CheckOverlaps(bound)' BY DEF CheckOverlaps, SpanOfSlot, SlotWrites, ConcreteSpans
<1> QED BY <1>1, <1>2, <1>3, <1>4 DEF WellRecorded, Apart

LEMMA ApplyHolds ==
  ASSUME IInv, NEW c \in Callers, Apply(c)
  PROVE  IInv'
<1> DEFINE p == Prospective(batch[c])
<1>1. batch[c] \in Batches BY DEF IInv, TypeOK, Apply
<1>2. p \in [Slots -> View \union {None}] BY <1>1, ProspectiveIsTyped DEF IInv
<1>3. BatchesFit' BY DEF IInv, Apply, BatchesFit, TypeOK
<1>4. batch' \in [Callers -> Batches \union {None}] BY DEF IInv, TypeOK, Apply
<1>5. CASE UNCHANGED <<bound, table>>
  <2>1. TypeOK' BY <1>4, <1>5 DEF IInv, TypeOK, Apply
  <2>2. BoundFits' /\ InFlightApart' BY <1>5 DEF IInv, Apply, BoundFits, InFlightApart, BoundBuffers, Apart
  <2>3. CheckOverlaps(bound)' BY <1>5 DEF IInv, Apply, CheckOverlaps, SpanOfSlot, SlotWrites, ConcreteSpans
  <2> QED BY <1>3, <2>1, <2>2, <2>3 DEF IInv, Apply, WellRecorded, Apart
<1>6. CASE /\ ~inFlight /\ CheckOverlaps(p) /\ bound' = p
           /\ table' = [s \in Slots |-> IF p[s] = None THEN None ELSE home[p[s].buf] + p[s].off]
  <2>1. \A s \in Slots : p[s] # None => p[s].buf \in Buffers /\ p[s].off \in Nat /\ p[s].size \in Nat
    BY <1>2 DEF View
  <2>2. table' \in [Slots -> Nat \union {None}]
    <3>1. \A s \in Slots : p[s] # None => home[p[s].buf] + p[s].off \in Nat
      BY <2>1 DEF IInv, TypeOK
    <3> HIDE DEF p
    <3> QED BY <1>6, <3>1
  <2>3. TypeOK' BY <1>2, <1>4, <1>6, <2>2 DEF IInv, TypeOK, Apply
  <2>4. BoundFits'
    <3> SUFFICES ASSUME NEW s \in Slots, bound'[s] # None
                 PROVE  MinCount[s] =< bound'[s].size /\ table'[s] = home'[bound'[s].buf] + bound'[s].off
      BY DEF BoundFits
    <3>1. table'[s] = home[p[s].buf] + p[s].off BY <1>6
    <3>2. MinCount[s] =< p[s].size
      <4>1. CASE p[s] = bound[s] BY <1>6, <4>1 DEF IInv, BoundFits
      <4>2. ASSUME NEW k \in DOMAIN batch[c], batch[c][k].slot = s, p[s] = batch[c][k].view
            PROVE  MinCount[s] =< p[s].size
        BY <4>2 DEF IInv, BatchesFit, Apply
      <4> HIDE DEF p
      <4>3. \/ p[s] = bound[s]
            \/ \E k \in DOMAIN batch[c] : batch[c][k].slot = s /\ p[s] = batch[c][k].view
        BY <1>1, ProspectiveViews DEF IInv, p
      <4> QED BY <4>1, <4>2, <4>3
    <3>3. home' = home BY DEF Apply
    <3> QED BY <1>6, <3>1, <3>2, <3>3
  <2>5. InFlightApart' BY <1>6 DEF InFlightApart, Apply
  <2>6. CheckOverlaps(bound)'
    BY <1>6 DEF Apply, CheckOverlaps, SpanOfSlot, SlotWrites, ConcreteSpans
  <2> QED BY <1>3, <2>3, <2>4, <2>5, <2>6 DEF IInv, Apply, WellRecorded, Apart
<1> QED BY <1>5, <1>6 DEF Apply

LEMMA CloseBufferHolds ==
  ASSUME IInv, NEW b \in Buffers, CloseBuffer(b)
  PROVE  IInv'
<1> USE DEF IInv, CloseBuffer
<1>1. TypeOK' BY DEF TypeOK
<1>2. Apart(home, open)' BY DEF Apart
<1>3. BoundFits' /\ BatchesFit' BY DEF BoundFits, BatchesFit
<1>4. InFlightApart' BY DEF InFlightApart, BoundBuffers, Apart
<1>5. CheckOverlaps(bound)' BY DEF CheckOverlaps, SpanOfSlot, SlotWrites, ConcreteSpans
<1> QED BY <1>1, <1>2, <1>3, <1>4, <1>5 DEF WellRecorded

LEMMA CreateBufferHolds ==
  ASSUME IInv, NEW b \in Buffers, NEW at \in 0 .. Bytes - 1, CreateBuffer(b, at)
  PROVE  IInv'
<1> USE DEF IInv, CreateBuffer
<1>1. TypeOK' BY DEF TypeOK
<1>2. Apart(home, open)' BY DEF Apart
<1>3. \A s \in Slots : bound[s] # None => bound[s].buf # b /\ home'[bound[s].buf] = home[bound[s].buf]
  BY DEF TypeOK, View
<1>4. BoundFits' BY <1>3 DEF BoundFits
<1>5. BatchesFit' BY DEF BatchesFit
<1>6. InFlightApart'
  <2>1. BoundBuffers' = BoundBuffers /\ b \notin BoundBuffers BY <1>3 DEF BoundBuffers
  <2>2. (Concretes \intersect open)' = Concretes \intersect open /\ b \notin Concretes OBVIOUS
  <2>3. \A d \in BoundBuffers \union (Concretes \intersect open) : home'[d] = home[d]
    BY <1>1, <2>1, <2>2 DEF TypeOK, BoundBuffers, View
  <2> QED BY <2>1, <2>2, <2>3 DEF InFlightApart, Apart
<1>7. CheckOverlaps(bound)' BY DEF CheckOverlaps, SpanOfSlot, SlotWrites, ConcreteSpans
<1> QED BY <1>1, <1>2, <1>4, <1>5, <1>6, <1>7 DEF WellRecorded

\* Here the names become memory: every bound buffer is open, so they are apart.
LEMMA StartHolds == ASSUME IInv, Start PROVE IInv'
<1> USE DEF IInv, Start
<1>1. TypeOK' BY DEF TypeOK
<1>2. BoundBuffers \union (Concretes \intersect open) \subseteq open
  BY DEF CheckBoundAtSubmit, BoundBuffers
<1>3. InFlightApart' BY <1>2 DEF InFlightApart, Apart, BoundBuffers, CheckBoundAtSubmit
<1>4. BoundFits' /\ BatchesFit' /\ Apart(home, open)' BY DEF BoundFits, BatchesFit, Apart
<1>5. CheckOverlaps(bound)' BY DEF CheckOverlaps, SpanOfSlot, SlotWrites, ConcreteSpans
<1> QED BY <1>1, <1>3, <1>4, <1>5 DEF WellRecorded

LEMMA FinishHolds == ASSUME IInv, Finish \/ UNCHANGED vars PROVE IInv'
<1> USE DEF IInv, Finish, vars
<1>1. TypeOK' BY DEF TypeOK
<1>2. InFlightApart' BY DEF InFlightApart, Apart, BoundBuffers
<1>3. BoundFits' /\ BatchesFit' /\ Apart(home, open)' BY DEF BoundFits, BatchesFit, Apart
<1>4. CheckOverlaps(bound)' BY DEF CheckOverlaps, SpanOfSlot, SlotWrites, ConcreteSpans
<1> QED BY <1>1, <1>2, <1>3, <1>4 DEF WellRecorded

LEMMA Invariance == Spec => []IInv
<1>1. IInv /\ [Next]_vars => IInv'
  <2> SUFFICES ASSUME IInv, [Next]_vars PROVE IInv' OBVIOUS
  <2> QED BY ValidateHolds, ApplyHolds, CloseBufferHolds, CreateBufferHolds, StartHolds,
             FinishHolds DEF Next
<1> QED BY InitHolds, <1>1, PTL DEF Spec

-----------------------------------------------------------------------------
\* The accesses a submission makes are well formed.
LEMMA LiveAccess ==
  ASSUME IInv, NEW x \in Live
  PROVE  /\ nodes[x[1]][x[2]] \in Access
         /\ x[1] \in DOMAIN nodes /\ x[2] \in DOMAIN nodes[x[1]]
         /\ nodes[x[1]][x[2]].res \in Slots \/ nodes[x[1]][x[2]].res \in Concretes \intersect open
<1>1. nodes \in Seq(Seq(Access)) BY DEF IInv, TypeOK
<1>2. x[1] \in DOMAIN nodes /\ x[2] \in DOMAIN nodes[x[1]] BY DEF Live
<1>3. nodes[x[1]] \in Seq(Access) BY <1>1, <1>2
<1>4. nodes[x[1]][x[2]] \in Access BY <1>2, <1>3
<1>5. nodes[x[1]][x[2]].res \in Resources BY <1>4 DEF Access
<1>6. nodes[x[1]][x[2]].res \in Slots \union open BY DEF Live
<1> QED BY <1>2, <1>4, <1>5, <1>6 DEF Buffers

\* In flight, an access through a slot stays in the view bound to it.
LEMMA SlotAccess ==
  ASSUME IInv, inFlight, NEW x \in Live, nodes[x[1]][x[2]].res \in Slots
  PROVE  LET a == nodes[x[1]][x[2]]
             v == bound[a.res]
         IN  /\ v \in View /\ v.buf \in BoundBuffers /\ home[v.buf] \in Nat
             /\ Address(a) = home[v.buf] + v.off + a.off
             /\ a.off + a.size =< v.size
             /\ Writes(a) => SlotWrites(a.res)
<1> DEFINE a == nodes[x[1]][x[2]]
           v == bound[a.res]
<1>1. a \in Access /\ x[1] \in DOMAIN nodes /\ x[2] \in DOMAIN nodes[x[1]] /\ a.res \in Slots BY LiveAccess
<1>2. a.off \in Nat /\ a.size \in Nat BY <1>1 DEF Access
<1>3. v # None BY <1>1 DEF IInv, InFlightApart
<1>4. v \in View /\ home[v.buf] \in Nat /\ v.off \in Nat /\ v.size \in Nat
  BY <1>1, <1>3 DEF IInv, TypeOK, View
<1>5. v.buf \in BoundBuffers BY <1>1, <1>3 DEF BoundBuffers
<1>6. Address(a) = home[v.buf] + v.off + a.off
  <2>1. table[a.res] = home[v.buf] + v.off BY <1>1, <1>3 DEF IInv, BoundFits
  <2>2. Address(a) = a.off + table[a.res] BY <1>1 DEF Address
  <2> HIDE DEF a, v
  <2> QED BY <1>2, <1>4, <2>1, <2>2
<1>7. a.off + a.size =< v.size
  <2>1. a.off + a.size =< MinCount[a.res] BY <1>1 DEF IInv, WellRecorded
  <2>2. MinCount[a.res] =< v.size /\ MinCount[a.res] \in Nat BY <1>1, <1>3 DEF IInv, BoundFits
  <2> HIDE DEF a, v
  <2> QED BY <1>2, <1>4, <2>1, <2>2
<1>8. Writes(a) => SlotWrites(a.res) BY <1>1 DEF SlotWrites
<1> QED BY <1>4, <1>5, <1>6, <1>7, <1>8

\* An access to a buffer the node names stays in it, and is a concrete span.
LEMMA ConcreteAccess ==
  ASSUME IInv, NEW x \in Live, nodes[x[1]][x[2]].res \notin Slots
  PROVE  LET a == nodes[x[1]][x[2]]
         IN  /\ a.res \in Concretes \intersect open /\ home[a.res] \in Nat
             /\ Address(a) = home[a.res] + a.off
             /\ a.off + a.size =< Size[a.res] /\ Size[a.res] \in Nat
             /\ [off |-> a.off, size |-> a.size, buf |-> a.res, write |-> Writes(a)] \in ConcreteSpans
<1> DEFINE a == nodes[x[1]][x[2]]
<1>1. a \in Access /\ x[1] \in DOMAIN nodes /\ x[2] \in DOMAIN nodes[x[1]]
      /\ a.res \in Concretes \intersect open
  BY LiveAccess
<1>2. a.off \in Nat /\ a.size \in Nat BY <1>1 DEF Access
<1>3. home[a.res] \in Nat /\ Size[a.res] \in Nat BY <1>1 DEF IInv, TypeOK, Buffers
<1>4. Address(a) = home[a.res] + a.off
  <2>1. Address(a) = a.off + home[a.res] BY DEF Address
  <2> HIDE DEF a
  <2> QED BY <1>2, <1>3, <2>1
<1>5. a.off + a.size =< Size[a.res] BY <1>1 DEF IInv, WellRecorded
<1>6. x \in {y \in UNION {{n} \X DOMAIN nodes[n] : n \in DOMAIN nodes} :
               nodes[y[1]][y[2]].res \in Concretes}
  BY <1>1 DEF Live
<1>7. [off |-> a.off, size |-> a.size, buf |-> a.res, write |-> Writes(a)] \in ConcreteSpans
  BY <1>6 DEF ConcreteSpans
<1> QED BY <1>1, <1>3, <1>4, <1>5, <1>7

\* A binding keeps two accesses apart, whatever they name.
LEMMA NoNewConflict ==
  ASSUME IInv, inFlight, NEW x \in Live, NEW y \in Live,
         nodes[x[1]][x[2]].res # nodes[y[1]][y[2]].res,
         Writes(nodes[x[1]][x[2]]) \/ Writes(nodes[y[1]][y[2]])
  PROVE  ~Meets(Address(nodes[x[1]][x[2]]), nodes[x[1]][x[2]].size,
                Address(nodes[y[1]][y[2]]), nodes[y[1]][y[2]].size)
<1> DEFINE a == nodes[x[1]][x[2]]
           b == nodes[y[1]][y[2]]
           v == bound[a.res]
           w == bound[b.res]
<1>1. a \in Access /\ b \in Access BY LiveAccess
<1>2. /\ a.off \in Nat /\ a.size \in Nat \ {0} /\ Writes(a) \in BOOLEAN
      /\ b.off \in Nat /\ b.size \in Nat \ {0} /\ Writes(b) \in BOOLEAN
  BY <1>1 DEF Access, Writes
<1>3. Apart(home, BoundBuffers \union (Concretes \intersect open)) BY DEF IInv, InFlightApart
<1>4. \A z \in View : z.off \in Nat /\ z.size \in Nat /\ z.buf \in Buffers /\ Size[z.buf] \in Nat
                      /\ z.off + z.size =< Size[z.buf]
  BY DEF View
<1>5. ASSUME a.res \in Slots, b.res \in Slots
      PROVE  ~Meets(Address(a), a.size, Address(b), b.size)
  <2>1. /\ v \in View /\ v.buf \in BoundBuffers /\ home[v.buf] \in Nat
        /\ Address(a) = home[v.buf] + v.off + a.off /\ a.off + a.size =< v.size
        /\ Writes(a) => SlotWrites(a.res)
    BY <1>5, SlotAccess
  <2>2. /\ w \in View /\ w.buf \in BoundBuffers /\ home[w.buf] \in Nat
        /\ Address(b) = home[w.buf] + w.off + b.off /\ b.off + b.size =< w.size
        /\ Writes(b) => SlotWrites(b.res)
    BY <1>5, SlotAccess
  <2>5. /\ v.off \in Nat /\ v.size \in Nat /\ Size[v.buf] \in Nat /\ v.off + v.size =< Size[v.buf]
        /\ w.off \in Nat /\ w.size \in Nat /\ Size[w.buf] \in Nat /\ w.off + w.size =< Size[w.buf]
    BY <1>4, <2>1, <2>2
  <2>3. CASE v.buf = w.buf
    <3>1. v # None /\ w # None BY <2>1, <2>2
    <3>2. ~Clash(SpanOfSlot(a.res, v), SpanOfSlot(b.res, w))
      BY <1>5, <3>1 DEF IInv, CheckOverlaps
    <3>3. SlotWrites(a.res) \/ SlotWrites(b.res) BY <2>1, <2>2
    <3>4. ~Meets(v.off, v.size, w.off, w.size) BY <2>3, <3>2, <3>3 DEF Clash, SpanOfSlot
    <3> HIDE RebindAssumption, ProgramsAssumption DEF a, b, v, w
    <3> QED BY <1>2, <2>1, <2>2, <2>3, <2>5, <3>4 DEF Meets
  <2>4. CASE v.buf # w.buf
    <3>1. ~Meets(home[v.buf], Size[v.buf], home[w.buf], Size[w.buf])
      BY <1>3, <2>1, <2>2, <2>4 DEF Apart
    <3> HIDE RebindAssumption, ProgramsAssumption DEF a, b, v, w
    <3> QED BY <1>2, <2>1, <2>2, <2>5, <3>1 DEF Meets
  <2> QED BY <2>3, <2>4
<1>6. ASSUME NEW p \in Live, NEW q \in Live,
             nodes[p[1]][p[2]].res \in Slots, nodes[q[1]][q[2]].res \notin Slots,
             Writes(nodes[p[1]][p[2]]) \/ Writes(nodes[q[1]][q[2]])
      PROVE  ~Meets(Address(nodes[p[1]][p[2]]), nodes[p[1]][p[2]].size,
                    Address(nodes[q[1]][q[2]]), nodes[q[1]][q[2]].size)
  <2> DEFINE c == nodes[p[1]][p[2]]
             d == nodes[q[1]][q[2]]
             u == bound[c.res]
             span == [off |-> d.off, size |-> d.size, buf |-> d.res, write |-> Writes(d)]
  <2>0. /\ c.off \in Nat /\ c.size \in Nat \ {0} /\ d.off \in Nat /\ d.size \in Nat \ {0}
    <3>1. c \in Access /\ d \in Access BY LiveAccess
    <3> QED BY <3>1 DEF Access
  <2>1. /\ u \in View /\ u.buf \in BoundBuffers /\ home[u.buf] \in Nat
        /\ Address(c) = home[u.buf] + u.off + c.off /\ c.off + c.size =< u.size
        /\ Writes(c) => SlotWrites(c.res)
    BY <1>6, SlotAccess
  <2>2. /\ d.res \in Concretes \intersect open /\ home[d.res] \in Nat
        /\ Address(d) = home[d.res] + d.off
        /\ d.off + d.size =< Size[d.res] /\ Size[d.res] \in Nat
        /\ span \in ConcreteSpans
    BY <1>6, ConcreteAccess
  <2>5. u.off \in Nat /\ u.size \in Nat /\ Size[u.buf] \in Nat /\ u.off + u.size =< Size[u.buf]
    BY <1>4, <2>1
  <2>3. ASSUME u.buf = d.res PROVE ~Meets(Address(c), c.size, Address(d), d.size)
    <3>1. u # None BY <2>1
    <3>2. ~Clash(SpanOfSlot(c.res, u), span) BY <1>6, <2>2, <3>1 DEF IInv, CheckOverlaps
    <3>3. SlotWrites(c.res) \/ Writes(d) BY <1>6, <2>1
    <3>4. ~Meets(u.off, u.size, d.off, d.size) BY <2>3, <3>2, <3>3 DEF Clash, SpanOfSlot
    <3> HIDE RebindAssumption, ProgramsAssumption DEF c, d, u, span
    <3> QED BY <2>0, <2>1, <2>2, <2>3, <2>5, <3>4 DEF Meets
  <2>4. ASSUME u.buf # d.res PROVE ~Meets(Address(c), c.size, Address(d), d.size)
    <3>1. ~Meets(home[u.buf], Size[u.buf], home[d.res], Size[d.res])
      BY <1>3, <2>1, <2>2, <2>4 DEF Apart
    <3> HIDE RebindAssumption, ProgramsAssumption DEF c, d, u, span
    <3> QED BY <2>0, <2>1, <2>2, <2>5, <3>1 DEF Meets
  <2> QED BY <2>3, <2>4
<1>7. ASSUME a.res \notin Slots, b.res \notin Slots
      PROVE  ~Meets(Address(a), a.size, Address(b), b.size)
  <2>1. /\ a.res \in Concretes \intersect open /\ home[a.res] \in Nat
        /\ Address(a) = home[a.res] + a.off
        /\ a.off + a.size =< Size[a.res] /\ Size[a.res] \in Nat
    BY <1>7, ConcreteAccess
  <2>2. /\ b.res \in Concretes \intersect open /\ home[b.res] \in Nat
        /\ Address(b) = home[b.res] + b.off
        /\ b.off + b.size =< Size[b.res] /\ Size[b.res] \in Nat
    BY <1>7, ConcreteAccess
  <2>3. ~Meets(home[a.res], Size[a.res], home[b.res], Size[b.res])
    BY <1>3, <2>1, <2>2 DEF Apart
  <2> HIDE RebindAssumption, ProgramsAssumption DEF a, b
  <2> QED BY <1>2, <2>1, <2>2, <2>3 DEF Meets
<1>8. \A i, j, n, m : Meets(i, n, j, m) <=> Meets(j, m, i, n) BY DEF Meets
<1>9. ASSUME a.res \in Slots, b.res \notin Slots
      PROVE  ~Meets(Address(a), a.size, Address(b), b.size)
  BY <1>6, <1>9
<1>10. ASSUME a.res \notin Slots, b.res \in Slots
       PROVE  ~Meets(Address(a), a.size, Address(b), b.size)
  BY <1>6, <1>8, <1>10
<1> QED BY <1>5, <1>7, <1>9, <1>10

\* A slot and a buffer, or two slots, that the plan took for independent never
\* share a byte in a running submission that one of them writes.
THEOREM HazardsSurvive == Spec => []HazardsSurviveBinding
<1>1. IInv => HazardsSurviveBinding
  <2> SUFFICES ASSUME IInv, inFlight, NEW x \in Live, NEW y \in Live,
                      Writes(nodes[x[1]][x[2]]) \/ Writes(nodes[y[1]][y[2]]),
                      Meets(Address(nodes[x[1]][x[2]]), nodes[x[1]][x[2]].size,
                            Address(nodes[y[1]][y[2]]), nodes[y[1]][y[2]].size)
               PROVE  AccessConflict(nodes[x[1]][x[2]], nodes[y[1]][y[2]])
    BY DEF HazardsSurviveBinding
  <2> DEFINE a == nodes[x[1]][x[2]]
             b == nodes[y[1]][y[2]]
  <2>1. a.res = b.res BY NoNewConflict
  <2>2. a \in Access /\ b \in Access BY LiveAccess
  <2>3. PICK h \in Nat : Address(a) = h + a.off /\ Address(b) = h + b.off
    <3>1. CASE a.res \in Slots
      <4>1. /\ home[bound[a.res].buf] \in Nat /\ bound[a.res] \in View
            /\ Address(a) = home[bound[a.res].buf] + bound[a.res].off + a.off
        BY <3>1, SlotAccess
      <4>2. Address(b) = home[bound[a.res].buf] + bound[a.res].off + b.off
        BY <2>1, <3>1, SlotAccess
      <4>3. bound[a.res].off \in Nat BY <4>1 DEF View
      <4>4. home[bound[a.res].buf] + bound[a.res].off \in Nat
        <5> HIDE DEF a
        <5> QED BY <4>1, <4>3
      <4> QED BY <4>1, <4>2, <4>4
    <3>2. CASE a.res \notin Slots BY <2>1, <3>2, ConcreteAccess
    <3> QED BY <3>1, <3>2
  <2>4. a.off \in Nat /\ b.off \in Nat /\ a.size \in Nat /\ b.size \in Nat BY <2>2 DEF Access
  <2>5. Overlaps(a, b)
    <3>1. Meets(Address(a), a.size, Address(b), b.size) OBVIOUS
    <3> HIDE RebindAssumption, ProgramsAssumption DEF a, b
    <3> QED BY <2>1, <2>3, <2>4, <3>1 DEF Overlaps, Meets
  <2> QED BY <2>5 DEF AccessConflict
<1> QED BY Invariance, <1>1, PTL

\* An operand of a running submission stays in the view its slot is bound to.
THEOREM OperandsStay == Spec => []OperandsStayInside
<1>1. IInv => OperandsStayInside
  <2> SUFFICES ASSUME IInv, inFlight, NEW x \in Live, nodes[x[1]][x[2]].res \in Slots
               PROVE  LET a == nodes[x[1]][x[2]]
                          v == bound[a.res]
                      IN  /\ home[v.buf] + v.off =< Address(a)
                          /\ Address(a) + a.size =< home[v.buf] + v.off + v.size
    BY DEF OperandsStayInside
  <2> DEFINE a == nodes[x[1]][x[2]]
             v == bound[a.res]
  <2>1. a.off \in Nat /\ a.size \in Nat
    <3>1. a \in Access BY LiveAccess
    <3> QED BY <3>1 DEF Access
  <2>2. /\ v \in View /\ home[v.buf] \in Nat /\ a.off + a.size =< v.size
        /\ Address(a) = home[v.buf] + v.off + a.off
    BY SlotAccess
  <2>3. v.off \in Nat /\ v.size \in Nat BY <2>2 DEF View
  <2>4. home[v.buf] + v.off =< Address(a) /\ Address(a) + a.size =< home[v.buf] + v.off + v.size
    <3> HIDE DEF a, v
    <3> QED BY <2>1, <2>2, <2>3
  <2> QED BY <2>4
<1> QED BY Invariance, <1>1, PTL

\* The shapes of the state.
THEOREM TypeCorrect == Spec => []TypeOK
<1>1. IInv => TypeOK BY DEF IInv
<1> QED BY Invariance, <1>1, PTL
=============================================================================
