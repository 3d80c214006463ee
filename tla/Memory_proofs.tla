---------------------------- MODULE Memory_proofs -----------------------------
(***************************************************************************)
(* Memory, for every extent, every set of requests and any number of       *)
(* buffers, callers and staged writes.  The linear pool hands out disjoint *)
(* ranges inside its extent and implements the suballocator.  So does the  *)
(* general pool (GInv, in the second half): its blocks cover the extent,   *)
(* its lists hold the free ones, each where its size says, the ranges held *)
(* are the others, and the counters count them; a refusal is honest since  *)
(* a block of a class at or above the one a size rounds up to holds that   *)
(* size, for any number of classes (ClassUpIsAGuarantee).  A buffer of     *)
(* a pool keeps its bytes while its handle is open or a write to it is     *)
(* held, and gives them back once: Balanced says that its count is the     *)
(* number of its holds, which no action maintains on its own, since a hold *)
(* moves from a caller to the queue, to a unit and to the queue's          *)
(* goroutine before it is released.                                        *)
(***************************************************************************)
EXTENDS MCMemory, Sequences, FiniteSets, FiniteSetTheorems, WellFoundedInduction, TLAPS

\* What is free by the counters is what is ahead of the cursor.
UsedIsCursor == used = cursor

IInv == TypeOK /\ UsedIsCursor /\ LiveRangesAreDisjoint

\* An integer less its remainder is a multiple of the divisor.
LEMMA LessItsRemainder ==
  ASSUME NEW x \in Nat, NEW to \in Nat \ {0}
  PROVE  /\ x - (x % to) \in Nat
         /\ x - (x % to) > x - to
         /\ (x - (x % to)) % to = 0
<1>1. x % to \in 0 .. to - 1
  OBVIOUS
<1>2. x = to * (x \div to) + (x % to) /\ x \div to \in Nat
  OBVIOUS
<1>3. \A q \in Nat : (to * q) % to = 0
  OBVIOUS
<1>4. x - (x % to) = to * (x \div to)
  BY <1>1, <1>2
<1>5. x - (x % to) \in Nat
  <2>1. \A p, q \in Nat : p * q \in Nat
    OBVIOUS
  <2> QED
    BY <1>2, <1>4, <2>1
<1>6. (x - (x % to)) % to = 0
  BY <1>2, <1>3, <1>4
<1>7. x - (x % to) > x - to
  BY <1>1
<1> QED
  BY <1>5, <1>6, <1>7

\* roundUp returns a multiple of its second argument, at or above the first.
LEMMA RoundUpIsAMultiple ==
  ASSUME NEW v \in Nat, NEW to \in Nat \ {0}
  PROVE  RoundUp(v, to) \in Nat /\ RoundUp(v, to) >= v /\ RoundUp(v, to) % to = 0
<1>1. v + to - 1 \in Nat
  OBVIOUS
<1> DEFINE x == v + to - 1
<1>2. /\ x - (x % to) > x - to /\ x - (x % to) \in Nat
      /\ (x - (x % to)) % to = 0
  BY <1>1, LessItsRemainder
<1>4. RoundUp(v, to) = x - (x % to)
  BY DEF RoundUp
<1>3. x - (x % to) >= v
  BY <1>1, <1>2
<1> HIDE DEF x
<1> QED
  BY <1>2, <1>3, <1>4

\* A request is rounded to a positive size and a positive alignment.
LEMMA RequestsAreRounded ==
  ASSUME NEW r \in Requests
  PROVE  SizeOf(r) \in Nat \ {0} /\ AlignOf(r) \in Nat \ {0}
<1>1. r.size \in Nat \ {0} /\ r.align \in Nat \ {0} /\ Granularity \in Nat \ {0}
  BY PoolAssumption DEF IsPowerOfTwo
<1>2. SizeOf(r) \in Nat /\ SizeOf(r) >= r.size
  BY <1>1, RoundUpIsAMultiple DEF SizeOf
<1> QED
  BY <1>1, <1>2 DEF AlignOf

\* The range an allocation takes starts at or past the cursor, aligned.
LEMMA OffsetIsAhead ==
  ASSUME NEW r \in Requests, cursor \in Nat
  PROVE  /\ Offset(r) \in Nat /\ Offset(r) >= cursor
         /\ Offset(r) % AlignOf(r) = 0
BY RequestsAreRounded, RoundUpIsAMultiple DEF Offset

-----------------------------------------------------------------------------
LEMMA InitEstablishes == Init => IInv
BY PoolAssumption DEF Init, IInv, TypeOK, UsedIsCursor, LiveRangesAreDisjoint

LEMMA AllocPreserves ==
  ASSUME IInv, NEW r \in Requests, Alloc(r)
  PROVE  IInv'
<1> DEFINE a == [off |-> Offset(r), size |-> SizeOf(r), align |-> AlignOf(r)]
<1>1. cursor \in 0 .. PoolSize /\ PoolSize \in Nat /\ used = cursor
  BY PoolAssumption DEF IInv, TypeOK, UsedIsCursor
<1>2. /\ Offset(r) \in Nat /\ Offset(r) >= cursor /\ SizeOf(r) \in Nat \ {0}
      /\ Offset(r) + SizeOf(r) =< PoolSize
  BY <1>1, OffsetIsAhead, RequestsAreRounded DEF Alloc, Fits
<1>3. /\ cursor' = Offset(r) + SizeOf(r) /\ used' = used + (Offset(r) + SizeOf(r) - cursor)
      /\ live' = live \union {a} /\ allocations' = allocations + 1
  BY DEF Alloc, Charge
<1>4. a \in [off : 0 .. PoolSize, size : 1 .. PoolSize, align : Nat]
  BY <1>1, <1>2, RequestsAreRounded
<1>5. TypeOK'
  BY <1>1, <1>2, <1>3, <1>4 DEF IInv, TypeOK
<1>6. UsedIsCursor'
  BY <1>1, <1>2, <1>3 DEF UsedIsCursor
<1>7. \A b \in live : b.off \in Nat /\ b.size \in Nat /\ b.off + b.size =< cursor
  BY DEF IInv, TypeOK, LiveRangesAreDisjoint
<1>8. \A b \in live' : b.off + b.size =< cursor'
  BY <1>1, <1>2, <1>3, <1>7
<1>9. \A b \in live : Disjoint(a, b) /\ Disjoint(b, a)
  BY <1>1, <1>2, <1>7 DEF Disjoint
<1>10. \A b, c \in live' : b # c => Disjoint(b, c)
  BY <1>3, <1>9 DEF IInv, LiveRangesAreDisjoint
<1>11. LiveRangesAreDisjoint'
  BY <1>8, <1>10 DEF LiveRangesAreDisjoint, Disjoint
<1> QED
  BY <1>5, <1>6, <1>11 DEF IInv

LEMMA ResetPreserves ==
  ASSUME IInv, Reset
  PROVE  IInv'
BY PoolAssumption DEF IInv, TypeOK, UsedIsCursor, LiveRangesAreDisjoint, Reset

LEMMA StepPreserves == IInv /\ [Next]_vars => IInv'
<1> SUFFICES ASSUME IInv, [Next]_vars PROVE IInv'
  OBVIOUS
<1>1. CASE UNCHANGED vars
  BY <1>1 DEF vars, IInv, TypeOK, UsedIsCursor, LiveRangesAreDisjoint, Disjoint
<1>2. CASE Reset
  BY <1>2, ResetPreserves
<1>3. CASE \E r \in Requests : Alloc(r)
  BY <1>3, AllocPreserves
<1> QED
  BY <1>1, <1>2, <1>3 DEF Next

LEMMA IInvHolds == Spec => []IInv
BY InitEstablishes, StepPreserves, PTL DEF Spec

\* The counters and the ranges keep their types and stay inside the extent,
\* for every sequence of Alloc and Reset (bump.go).
THEOREM TypeCorrect == Spec => []TypeOK
<1>1. IInv => TypeOK
  BY DEF IInv
<1> QED
  BY <1>1, IInvHolds, PTL

\* No two live allocations of a linear pool share a byte and none reaches past
\* the cursor, whatever the sizes and alignments asked for (Bump.Alloc).
THEOREM RangesAreDisjoint == Spec => []LiveRangesAreDisjoint
<1>1. IInv => LiveRangesAreDisjoint
  BY DEF IInv
<1> QED
  BY <1>1, IInvHolds, PTL

-----------------------------------------------------------------------------
LEMMA AllocPlaces ==
  ASSUME IInv, NEW r \in Requests, Alloc(r)
  PROVE  Ranges!Place
<1> DEFINE a == [off |-> Offset(r), size |-> SizeOf(r), align |-> AlignOf(r)]
<1>1. cursor \in Nat /\ PoolSize \in Nat
  BY PoolAssumption DEF IInv, TypeOK
<1>2. /\ Offset(r) \in Nat /\ Offset(r) >= cursor /\ Offset(r) % AlignOf(r) = 0
      /\ SizeOf(r) \in Nat \ {0} /\ Offset(r) + SizeOf(r) =< PoolSize
  BY <1>1, OffsetIsAhead, RequestsAreRounded DEF Alloc, Fits
<1>3. Offset(r) \in 0 .. PoolSize - SizeOf(r)
  BY <1>1, <1>2
<1>4. \A b \in live : Disjoint(a, b)
  BY <1>1, <1>2 DEF IInv, TypeOK, LiveRangesAreDisjoint, Disjoint
<1>5. live' = live \union {a}
  BY DEF Alloc
<1> QED
  BY <1>2, <1>3, <1>4, <1>5
     DEF Ranges!Place, Ranges!SizeOf, Ranges!AlignOf, Ranges!RoundUp, Ranges!Disjoint,
         SizeOf, AlignOf, RoundUp, Disjoint

LEMMA StepRefines == IInv /\ [Next]_vars => [Ranges!Next]_live
<1> SUFFICES ASSUME IInv, [Next]_vars PROVE [Ranges!Next]_live
  OBVIOUS
<1>1. CASE UNCHANGED vars
  BY <1>1 DEF vars
<1>2. CASE Reset
  BY <1>2 DEF Reset, Ranges!Next, Ranges!ReleaseAll
<1>3. CASE \E r \in Requests : Alloc(r)
  BY <1>3, AllocPlaces DEF Ranges!Next
<1> QED
  BY <1>1, <1>2, <1>3 DEF Next

\* The linear pool implements the suballocator every caller of alloc.Allocator
\* relies on: aligned, disjoint ranges inside the extent.
THEOREM BumpImplementsRangeAllocator == Spec => Implements
<1>1. Init => Ranges!Init
  BY DEF Init, Ranges!Init
<1> QED
  BY <1>1, StepRefines, IInvHolds, PTL DEF Spec, Implements, Ranges!Spec

-----------------------------------------------------------------------------
(* The life of a pool's buffers.                                              *)
Labels == {"idle", "alloc", "retain", "append", "release", "free", "forget", "reset", "freeblock"}
HandedOn == [batch : Seq(Buffers), drops : BOOLEAN]

Typed ==
  /\ policy \in {"general", "linear"}
  /\ refs \in [Buffers -> Nat] /\ closed \in [Buffers -> BOOLEAN]
  /\ place \in [Buffers -> 0 .. NumPlaces] /\ owner \in [1 .. NumPlaces -> Buffers \union {Nobody}]
  /\ counted \subseteq Buffers /\ poolMu \in Callers \union {Nobody}
  /\ pending \in Seq(Buffers) /\ units \in Seq(HandedOn) /\ dropped \in Seq(Buffers)
  /\ \A i \in DOMAIN units : units[i].batch # <<>>
  /\ pc \in [Handles!Procs -> Labels] /\ buf \in [Handles!Procs -> Buffers \union {Nobody}]

\* The holds on b: of the goroutines that are to stage a write or to release,
\* of the writes a queue has staged, and of those its units have taken.
Holding(pcs, bufs, b) == {t \in Handles!Procs : pcs[t] \in {"append", "release"} /\ bufs[t] = b}
InPending(ps, b) == {i \in DOMAIN ps : ps[i] = b}
InUnits(us, b) ==
  {w \in Nat \X Nat : w[1] \in DOMAIN us /\ w[2] \in DOMAIN us[w[1]].batch /\ us[w[1]].batch[w[2]] = b}

HoldsAreFinite ==
  \A b \in Buffers : /\ IsFiniteSet(Holding(pc, buf, b)) /\ IsFiniteSet(InPending(pending, b))
                     /\ IsFiniteSet(InUnits(units, b))

Holds(b) == Cardinality(Holding(pc, buf, b)) + Cardinality(InPending(pending, b))
              + Cardinality(InUnits(units, b))
One(p) == IF p THEN 1 ELSE 0
IsOpen(b) == Handles!Allocated(b) /\ ~closed[b]
GivenUp(b) == \E i \in DOMAIN dropped : dropped[i] = b

\* The count is no less than the holds, and the same unless a unit gave a write
\* up or a Reset closed the handle without releasing it.
Balanced ==
  \A b \in Buffers :
    /\ refs[b] >= Holds(b) + One(IsOpen(b))
    /\ ~GivenUp(b) /\ (policy = "general" \/ ~closed[b] \/ b \in counted) =>
         refs[b] = Holds(b) + One(IsOpen(b))

\* The pool counts the buffer and its place is its own.
Placed(b) == b \in counted /\ Handles!Allocated(b) /\ owner[place[b]] = b
Freeing(t, b) == pc[t] \in {"free", "forget"} /\ buf[t] = b

HeldIsPlaced ==
  \A b \in Buffers : IsOpen(b) \/ (policy = "general" /\ refs[b] > 0) => Placed(b)

\* Whoever dropped the last hold is alone with the buffer.
FreeingAlone ==
  \A t \in Handles!Procs : \A b \in Buffers :
    Freeing(t, b) =>
      /\ refs[b] = 0 /\ closed[b] /\ Handles!Allocated(b)
      /\ \A s \in Handles!Procs : Freeing(s, b) => s = t
      /\ policy = "general" => (pc[t] = "free" => Placed(b)) /\ (pc[t] = "forget" => owner[place[b]] # b)

UnheldIsGone ==
  \A b \in Buffers : refs[b] = 0 /\ (\A t \in Handles!Procs : ~Freeing(t, b)) =>
    b \notin counted /\ (policy = "general" /\ Handles!Allocated(b) => owner[place[b]] # b)

\* A goroutine's place in an operation fits its buffer and the pool.
AtWork(t) ==
  /\ pc[t] = "alloc" => /\ buf[t] \in Buffers /\ ~Handles!Allocated(buf[t])
                        /\ \A s \in Handles!Procs : buf[s] = buf[t] => s = t
  /\ pc[t] \in {"retain", "append", "release", "free", "forget"} => buf[t] \in Buffers
  /\ pc[t] = "reset" => policy = "linear"
  /\ pc[t] = "freeblock" => poolClosed

Ground ==
  /\ \A b \in Buffers : ~Handles!Allocated(b) => refs[b] = 0 /\ ~closed[b]
  /\ \A b \in counted : Handles!Allocated(b)
  /\ poolClosed => counted = {}
  /\ blockFreed => poolClosed

Standing == HeldIsPlaced /\ FreeingAlone /\ UnheldIsGone /\ Ground /\ \A t \in Handles!Procs : AtWork(t)

MInv == Typed /\ HoldsAreFinite /\ Balanced /\ Standing
-----------------------------------------------------------------------------
\* A one-to-one map onto a set carries its size over.
LEMMA Moved ==
  ASSUME NEW S, NEW T, IsFiniteSet(S), NEW f \in [S -> T],
         \A x, y \in S : f[x] = f[y] => x = y,  \A z \in T : \E x \in S : f[x] = z
  PROVE  IsFiniteSet(T) /\ Cardinality(T) = Cardinality(S)
<1>1. f \in Bijection(S, T)
  BY DEF Bijection, Injection, Surjection, IsInjective
<1> QED BY <1>1, FS_Bijection DEF ExistsBijection

\* Adding an element that may be there, if the condition says so.
LEMMA Added ==
  ASSUME NEW S, IsFiniteSet(S), NEW x, x \notin S, NEW P \in BOOLEAN,
         NEW T, T = IF P THEN S \union {x} ELSE S
  PROVE  IsFiniteSet(T) /\ Cardinality(T) = Cardinality(S) + One(P) /\ Cardinality(S) \in Nat
BY FS_AddElement, FS_CardinalityType DEF One

\* What a goroutine at label l with buffer x has of b's account.
Share(l, x, b) == IF l \in {"append", "release"} /\ x = b THEN 1 ELSE 0

\* A goroutine that moves on takes its hold with it or gives it up.
LEMMA HoldMoves ==
  ASSUME NEW pcs \in [Handles!Procs -> Labels], NEW bufs \in [Handles!Procs -> Buffers \union {Nobody}],
         NEW t \in Handles!Procs, NEW to \in Labels, NEW x \in Buffers \union {Nobody}, NEW b \in Buffers,
         IsFiniteSet(Holding(pcs, bufs, b))
  PROVE  LET pcs2 == [pcs EXCEPT ![t] = to]
             bufs2 == [bufs EXCEPT ![t] = x]
         IN
         /\ IsFiniteSet(Holding(pcs2, bufs2, b))
         /\ Cardinality(Holding(pcs2, bufs2, b)) \in Nat /\ Cardinality(Holding(pcs, bufs, b)) \in Nat
         /\ Cardinality(Holding(pcs2, bufs2, b)) + Share(pcs[t], bufs[t], b)
              = Cardinality(Holding(pcs, bufs, b)) + Share(to, x, b)
<1> DEFINE pcs2 == [pcs EXCEPT ![t] = to]
           bufs2 == [bufs EXCEPT ![t] = x]
           others == {s \in Handles!Procs : s # t /\ pcs[s] \in {"append", "release"} /\ bufs[s] = b}
           before == pcs[t] \in {"append", "release"} /\ bufs[t] = b
           after == to \in {"append", "release"} /\ x = b
<1>1. IsFiniteSet(others) /\ t \notin others
  BY FS_Subset DEF Holding
<1>2. Holding(pcs, bufs, b) = IF before THEN others \union {t} ELSE others
  BY DEF Holding
<1>3. Holding(pcs2, bufs2, b) = IF after THEN others \union {t} ELSE others
  BY DEF Holding
<1>4. before \in BOOLEAN /\ after \in BOOLEAN
  OBVIOUS
<1> HIDE DEF pcs2, bufs2, others, before, after
<1>5. Cardinality(Holding(pcs, bufs, b)) = Cardinality(others) + One(before)
  BY <1>1, <1>2, <1>4, Added
<1>6. /\ IsFiniteSet(Holding(pcs2, bufs2, b)) /\ Cardinality(others) \in Nat
      /\ Cardinality(Holding(pcs2, bufs2, b)) = Cardinality(others) + One(after)
  BY <1>1, <1>3, <1>4, Added
<1>7. One(before) \in Nat /\ One(after) \in Nat
  BY DEF One
<1>8. Cardinality(Holding(pcs2, bufs2, b)) + One(before) = Cardinality(Holding(pcs, bufs, b)) + One(after)
  BY <1>5, <1>6, <1>7
<1>9. One(before) = Share(pcs[t], bufs[t], b) /\ One(after) = Share(to, x, b)
  BY DEF before, after, One, Share
<1> QED BY <1>5, <1>6, <1>7, <1>8, <1>9 DEF pcs2, bufs2

\* A write staged.
LEMMA PendingGrows ==
  ASSUME NEW ps \in Seq(Buffers), NEW x \in Buffers, NEW b \in Buffers, IsFiniteSet(InPending(ps, b))
  PROVE  /\ IsFiniteSet(InPending(Append(ps, x), b)) /\ Cardinality(InPending(ps, b)) \in Nat
         /\ Cardinality(InPending(Append(ps, x), b)) = Cardinality(InPending(ps, b)) + One(x = b)
<1> DEFINE n == Len(ps) + 1
<1>1. n \notin InPending(ps, b)
  BY DEF InPending
<1>2. InPending(Append(ps, x), b) = IF x = b THEN InPending(ps, b) \union {n} ELSE InPending(ps, b)
  BY DEF InPending
<1> DEFINE P == InPending(ps, b)
<1>3. IsFiniteSet(P) /\ n \notin P /\ InPending(Append(ps, x), b) = IF x = b THEN P \union {n} ELSE P
  BY <1>1, <1>2
<1> HIDE DEF n, P
<1>4. /\ Cardinality(P) \in Nat
      /\ IsFiniteSet(P \union {n}) /\ Cardinality(P \union {n}) = Cardinality(P) + 1
  BY <1>3, FS_AddElement, FS_CardinalityType
<1>5. IsFiniteSet(InPending(Append(ps, x), b)) /\ Cardinality(InPending(Append(ps, x), b)) = Cardinality(P) + One(x = b)
  BY <1>3, <1>4 DEF One
<1> QED BY <1>4, <1>5 DEF P

\* The pending writes handed to a unit.
LEMMA PendingMoves ==
  ASSUME NEW ps \in Seq(Buffers), NEW us \in Seq(HandedOn), NEW d \in BOOLEAN, NEW b \in Buffers,
         IsFiniteSet(InPending(ps, b)), IsFiniteSet(InUnits(us, b)),
         NEW us2, us2 = Append(us, [batch |-> ps, drops |-> d])
  PROVE  /\ IsFiniteSet(InUnits(us2, b)) /\ Cardinality(InPending(ps, b)) \in Nat
         /\ Cardinality(InUnits(us, b)) \in Nat
         /\ Cardinality(InUnits(us2, b)) = Cardinality(InUnits(us, b)) + Cardinality(InPending(ps, b))
<1> DEFINE n == Len(us) + 1
           added == {w \in {n} \X DOMAIN ps : ps[w[2]] = b}
           f == [i \in InPending(ps, b) |-> <<n, i>>]
<1>1. IsFiniteSet(added) /\ Cardinality(added) = Cardinality(InPending(ps, b))
  <2>1. f \in [InPending(ps, b) -> added]
    BY DEF InPending
  <2>2. \A i, j \in InPending(ps, b) : f[i] = f[j] => i = j
    OBVIOUS
  <2>3. \A w \in added : \E i \in InPending(ps, b) : f[i] = w
    <3> SUFFICES ASSUME NEW w \in added PROVE \E i \in InPending(ps, b) : f[i] = w
      OBVIOUS
    <3>1. w[2] \in InPending(ps, b) /\ w = <<n, w[2]>>
      BY DEF InPending
    <3> QED BY <3>1
  <2> HIDE DEF f, added
  <2> QED BY <2>1, <2>2, <2>3, Moved
<1>2. InUnits(us2, b) = InUnits(us, b) \union added
  <2>1. /\ us2 \in Seq(HandedOn) /\ Len(us2) = n /\ us2[n].batch = ps /\ n \in Nat
        /\ \A i \in 1 .. Len(us) : us2[i] = us[i] /\ i # n
    BY DEF HandedOn
  <2>2. DOMAIN ps \subseteq Nat /\ DOMAIN us = 1 .. Len(us) /\ DOMAIN us2 = 1 .. Len(us) \union {n}
    BY <2>1
  <2> HIDE DEF n
  <2> QED BY <2>1, <2>2 DEF InUnits
<1>3. InUnits(us, b) \intersect added = {}
  BY DEF InUnits
<1> HIDE DEF added
<1>4. /\ IsFiniteSet(InUnits(us2, b))
      /\ Cardinality(InUnits(us2, b)) = Cardinality(InUnits(us, b)) + Cardinality(added) - Cardinality({})
  <2>1. /\ IsFiniteSet(InUnits(us, b) \union added)
        /\ Cardinality(InUnits(us, b) \union added)
             = Cardinality(InUnits(us, b)) + Cardinality(added) - Cardinality(InUnits(us, b) \intersect added)
    BY <1>1, FS_Union
  <2> QED BY <1>2, <1>3, <2>1
<1>5. Cardinality(InUnits(us, b)) \in Nat /\ Cardinality(InPending(ps, b)) \in Nat /\ Cardinality({}) = 0
  BY FS_EmptySet, FS_CardinalityType
<1> QED BY <1>1, <1>4, <1>5

LEMMA HeadUnit ==
  ASSUME NEW us \in Seq(HandedOn), us # <<>>, \A i \in DOMAIN us : us[i].batch # <<>>
  PROVE  /\ Head(us) = us[1] /\ Head(us) \in HandedOn /\ 1 \in DOMAIN us
         /\ Len(us) \in Nat /\ Len(us) >= 1 /\ DOMAIN us = 1 .. Len(us)
         /\ \A i \in 1 .. Len(us) : us[i].batch \in Seq(Buffers)
         /\ Head(us).batch \in Seq(Buffers) /\ Head(us).batch # <<>>
         /\ Len(Head(us).batch) \in Nat /\ Len(Head(us).batch) >= 1
         /\ DOMAIN Head(us).batch = 1 .. Len(Head(us).batch)
<1>1. /\ Head(us) = us[1] /\ 1 \in DOMAIN us /\ Len(us) \in Nat /\ Len(us) >= 1
      /\ DOMAIN us = 1 .. Len(us) /\ \A i \in 1 .. Len(us) : us[i] \in HandedOn
  OBVIOUS
<1>2. \A u \in HandedOn : u.batch \in Seq(Buffers)
  BY DEF HandedOn
<1>3. us[1].batch \in Seq(Buffers) /\ us[1].batch # <<>>
  BY <1>1, <1>2
<1>4. Len(us[1].batch) \in Nat /\ Len(us[1].batch) >= 1 /\ DOMAIN us[1].batch = 1 .. Len(us[1].batch)
  BY <1>3
<1> QED BY <1>1, <1>2, <1>3, <1>4

\* What is left of the units once the write they start with has landed.
After(us) ==
  IF Len(Head(us).batch) = 1 THEN Tail(us) ELSE [us EXCEPT ![1].batch = Tail(@)]

LEMMA AfterIsTyped ==
  ASSUME NEW us \in Seq(HandedOn), us # <<>>, \A i \in DOMAIN us : us[i].batch # <<>>
  PROVE  /\ After(us) \in Seq(HandedOn) /\ \A i \in DOMAIN After(us) : After(us)[i].batch # <<>>
         /\ Head(Head(us).batch) \in Buffers /\ Head(us).batch \in Seq(Buffers)
<1> DEFINE u == Head(us)
<1>1. /\ u = us[1] /\ u \in HandedOn /\ u.batch \in Seq(Buffers) /\ u.batch # <<>>
      /\ 1 \in DOMAIN us
  BY HeadUnit
<1>2. CASE Len(u.batch) = 1
  BY <1>1, <1>2 DEF After
<1>3. CASE Len(u.batch) # 1
  <2> DEFINE rest == [u EXCEPT !.batch = Tail(u.batch)]
  <2>1. Tail(u.batch) \in Seq(Buffers) /\ Tail(u.batch) # <<>>
    <3> DEFINE q == u.batch
    <3>1. q \in Seq(Buffers) /\ q # <<>> /\ Len(q) # 1 /\ Len(q) \in Nat /\ Len(q) >= 1
      BY <1>1, <1>3, HeadUnit
    <3> HIDE DEF q
    <3>2. Tail(q) \in Seq(Buffers)
      BY <3>1
    <3>3. Len(Tail(q)) = Len(q) - 1
      BY <3>1
    <3>4. Tail(q) # <<>>
      <4>1. Len(Tail(q)) # Len(<<>>)
        BY <3>1, <3>3
      <4> QED BY <4>1
    <3> QED BY <3>2, <3>4 DEF q
  <2>2. rest \in HandedOn /\ rest.batch # <<>>
    BY <1>1, <2>1 DEF HandedOn
  <2> HIDE DEF rest
  <2>3. After(us) = [us EXCEPT ![1] = rest]
    BY <1>1, <1>3 DEF After, rest
  <2> QED BY <1>1, <2>2, <2>3
<1> QED BY <1>1, <1>2, <1>3

\* Where the writes that are left are after that.
LEMMA AfterMoves ==
  ASSUME NEW us \in Seq(HandedOn), us # <<>>, \A i \in DOMAIN us : us[i].batch # <<>>,
         NEW b \in Buffers, IsFiniteSet(InUnits(us, b))
  PROVE  /\ IsFiniteSet(InUnits(After(us), b)) /\ Cardinality(InUnits(After(us), b)) \in Nat
         /\ Cardinality(InUnits(us, b))
              = Cardinality(InUnits(After(us), b)) + One(Head(Head(us).batch) = b)
<1> DEFINE u == Head(us)
           left == InUnits(us, b) \ {<<1, 1>>}
           last == Len(u.batch) = 1
           f == [w \in left |-> IF last THEN <<w[1] - 1, w[2]>>
                                ELSE IF w[1] = 1 THEN <<1, w[2] - 1>> ELSE w]
<1>1. /\ u = us[1] /\ u \in HandedOn /\ u.batch \in Seq(Buffers) /\ u.batch # <<>>
      /\ Len(us) \in Nat /\ Len(us) >= 1 /\ DOMAIN us = 1 .. Len(us)
      /\ Len(u.batch) \in Nat /\ Len(u.batch) >= 1 /\ DOMAIN u.batch = 1 .. Len(u.batch)
  BY HeadUnit
<1>2. /\ \A i \in 1 .. Len(us) : us[i].batch \in Seq(Buffers)
  BY HeadUnit
<1> DEFINE oneToOne == /\ f \in [left -> InUnits(After(us), b)]
                       /\ \A v, w \in left : f[v] = f[w] => v = w
                       /\ \A z \in InUnits(After(us), b) : \E w \in left : f[w] = z
<1>3. ASSUME last PROVE oneToOne
  <2>1. After(us) = Tail(us) /\ After(us) \in Seq(HandedOn) /\ Len(After(us)) = Len(us) - 1
        /\ \A i \in 1 .. (Len(us) - 1) : After(us)[i] = us[i + 1]
    BY <1>1, <1>3 DEF After
  <2>2. DOMAIN After(us) = 1 .. (Len(us) - 1)
    BY <1>1, <2>1
  <2> HIDE DEF u
  <2>3. \A w \in left : w[1] \in 2 .. Len(us) /\ w[1] \in Nat /\ w[2] \in Nat /\ w = <<w[1], w[2]>>
    <3> SUFFICES ASSUME NEW w \in left PROVE w[1] \in 2 .. Len(us) /\ w \in Nat \X Nat
      OBVIOUS
    <3>1. w \in Nat \X Nat /\ w[1] \in 1 .. Len(us) /\ w # <<1, 1>>
      BY <1>1 DEF InUnits
    <3>2. w[1] = 1 => w[2] \in 1 .. 1
      BY <1>1, <1>3 DEF InUnits
    <3> QED BY <3>1, <3>2
  <2>4. f \in [left -> InUnits(After(us), b)]
    <3> SUFFICES ASSUME NEW w \in left PROVE <<w[1] - 1, w[2]>> \in InUnits(After(us), b)
      BY <1>3
    <3>1. /\ w[1] - 1 \in 1 .. (Len(us) - 1) /\ After(us)[w[1] - 1] = us[w[1]]
          /\ w[1] - 1 \in Nat /\ w[2] \in Nat
      BY <1>1, <2>1, <2>3
    <3>2. w[2] \in DOMAIN us[w[1]].batch /\ us[w[1]].batch[w[2]] = b
      BY DEF InUnits
    <3> QED BY <2>2, <3>1, <3>2 DEF InUnits
  <2>5. \A v, w \in left : f[v] = f[w] => v = w
    <3> SUFFICES ASSUME NEW v \in left, NEW w \in left, <<v[1] - 1, v[2]>> = <<w[1] - 1, w[2]>> PROVE v = w
      BY <1>3
    <3>1. v[1] = w[1] /\ v[2] = w[2]
      BY <2>3
    <3> QED BY <2>3, <3>1
  <2>6. \A z \in InUnits(After(us), b) : \E w \in left : f[w] = z
    <3> SUFFICES ASSUME NEW z \in InUnits(After(us), b) PROVE \E w \in left : f[w] = z
      OBVIOUS
    <3>1. /\ z[1] \in 1 .. (Len(us) - 1) /\ z[1] \in Nat /\ z[2] \in Nat /\ z = <<z[1], z[2]>>
          /\ z[2] \in DOMAIN After(us)[z[1]].batch /\ After(us)[z[1]].batch[z[2]] = b
      BY <2>2 DEF InUnits
    <3>2. z[1] + 1 \in 1 .. Len(us) /\ z[1] + 1 \in Nat /\ z[1] + 1 # 1 /\ After(us)[z[1]] = us[z[1] + 1]
      BY <1>1, <2>1, <3>1
    <3>3. z[1] + 1 - 1 = z[1]
      BY <3>1
    <3>4. <<z[1] + 1, z[2]>> \in left
      BY <1>1, <3>1, <3>2 DEF InUnits
    <3>5. f[<<z[1] + 1, z[2]>>] = z
      BY <1>3, <3>1, <3>3, <3>4
    <3> QED BY <3>4, <3>5
  <2> QED BY <2>4, <2>5, <2>6
<1>4. ASSUME ~last PROVE oneToOne
  <2> DEFINE rest == Tail(u.batch)
  <2>1. /\ rest \in Seq(Buffers) /\ Len(rest) = Len(u.batch) - 1 /\ DOMAIN rest = 1 .. (Len(u.batch) - 1)
        /\ \A j \in 1 .. (Len(u.batch) - 1) : rest[j] = u.batch[j + 1]
    BY <1>1
  <2>2. /\ DOMAIN After(us) = 1 .. Len(us) /\ After(us)[1].batch = rest
        /\ \A i \in 1 .. Len(us) : i # 1 => After(us)[i].batch = us[i].batch
    BY <1>1, <1>2, <1>4 DEF After, HandedOn
  <2> HIDE DEF u, rest
  <2>3. \A w \in left : /\ w[1] \in 1 .. Len(us) /\ w[1] \in Nat /\ w[2] \in Nat /\ w = <<w[1], w[2]>>
                        /\ w[1] = 1 => w[2] - 1 \in 1 .. (Len(u.batch) - 1)
    <3> SUFFICES ASSUME NEW w \in left
                 PROVE  w \in Nat \X Nat /\ w[1] \in 1 .. Len(us)
                        /\ (w[1] = 1 => w[2] - 1 \in 1 .. (Len(u.batch) - 1))
      OBVIOUS
    <3>1. w \in Nat \X Nat /\ w[1] \in 1 .. Len(us) /\ w # <<1, 1>>
      BY <1>1 DEF InUnits
    <3>2. w[1] = 1 => w[2] \in 1 .. Len(u.batch)
      BY <1>1 DEF InUnits
    <3> QED BY <1>1, <3>1, <3>2
  <2>4. f \in [left -> InUnits(After(us), b)]
    <3> SUFFICES ASSUME NEW w \in left
                 PROVE (IF w[1] = 1 THEN <<1, w[2] - 1>> ELSE w) \in InUnits(After(us), b)
      BY <1>4
    <3>1. w[2] \in DOMAIN us[w[1]].batch /\ us[w[1]].batch[w[2]] = b
      BY DEF InUnits
    <3>2. CASE w[1] = 1
      <4>1. /\ w[2] - 1 \in DOMAIN rest /\ rest[w[2] - 1] = b /\ w[2] - 1 \in Nat /\ 1 \in 1 .. Len(us)
        BY <1>1, <2>1, <2>3, <3>1, <3>2
      <4> QED BY <2>2, <3>2, <4>1 DEF InUnits
    <3>3. CASE w[1] # 1
      BY <2>2, <2>3, <3>1, <3>3 DEF InUnits
    <3> QED BY <3>2, <3>3
  <2>5. \A v, w \in left : f[v] = f[w] => v = w
    <3> SUFFICES ASSUME NEW v \in left, NEW w \in left,
                        (IF v[1] = 1 THEN <<1, v[2] - 1>> ELSE v) = (IF w[1] = 1 THEN <<1, w[2] - 1>> ELSE w)
                 PROVE v = w
      BY <1>4
    <3>1. v[1] = w[1] /\ v[2] = w[2]
      BY <2>3
    <3> QED BY <2>3, <3>1
  <2>6. \A z \in InUnits(After(us), b) : \E w \in left : f[w] = z
    <3> SUFFICES ASSUME NEW z \in InUnits(After(us), b) PROVE \E w \in left : f[w] = z
      OBVIOUS
    <3>1. /\ z[1] \in 1 .. Len(us) /\ z[1] \in Nat /\ z[2] \in Nat /\ z = <<z[1], z[2]>>
          /\ z[2] \in DOMAIN After(us)[z[1]].batch /\ After(us)[z[1]].batch[z[2]] = b
      BY <2>2 DEF InUnits
    <3>2. CASE z[1] = 1
      <4>0. z[2] \in 1 .. (Len(u.batch) - 1) /\ rest[z[2]] = b /\ 1 \in 1 .. Len(us)
        BY <2>1, <2>2, <3>1, <3>2
      <4>1. /\ z[2] + 1 \in 1 .. Len(u.batch) /\ z[2] + 1 \in Nat /\ z[2] + 1 # 1 /\ z[2] + 1 - 1 = z[2]
            /\ u.batch[z[2] + 1] = b /\ 1 \in 1 .. Len(us)
        <5>1. Len(u.batch) \in Nat /\ z[2] \in Nat
          BY <1>1, <3>1
        <5> QED BY <2>1, <4>0, <5>1
      <4>2. <<1, z[2] + 1>> \in left
        BY <1>1, <4>1 DEF InUnits
      <4>3. f[<<1, z[2] + 1>>] = z
        BY <1>4, <3>1, <3>2, <4>1, <4>2
      <4> QED BY <4>2, <4>3
    <3>3. CASE z[1] # 1
      <4>1. z \in left
        BY <1>1, <2>2, <3>1, <3>3 DEF InUnits
      <4> QED BY <1>4, <3>3, <4>1
    <3> QED BY <3>2, <3>3
  <2> QED BY <2>4, <2>5, <2>6
<1>5. /\ IsFiniteSet(left) /\ <<1, 1>> \notin left
      /\ InUnits(us, b) = IF Head(u.batch) = b THEN left \union {<<1, 1>>} ELSE left
  <2>1. IsFiniteSet(left)
    BY FS_Subset
  <2>2. <<1, 1>> \in InUnits(us, b) <=> Head(u.batch) = b
    BY <1>1 DEF InUnits
  <2> QED BY <2>1, <2>2
<1> DEFINE lands == Head(u.batch) = b
<1>6. /\ lands \in BOOLEAN
      /\ InUnits(us, b) = IF lands THEN left \union {<<1, 1>>} ELSE left
  BY <1>5
<1>7. oneToOne
  BY <1>3, <1>4
<1> HIDE DEF left, f, lands
<1>8. IsFiniteSet(InUnits(After(us), b)) /\ Cardinality(InUnits(After(us), b)) = Cardinality(left)
  BY <1>5, <1>7, Moved
<1>9. Cardinality(InUnits(us, b)) = Cardinality(left) + One(lands)
  BY <1>5, <1>6, Added
<1> QED BY <1>8, <1>9, FS_CardinalityType DEF lands

\* A unit that is dropped takes its own writes and no others.
LEMMA RestMoves ==
  ASSUME NEW us \in Seq(HandedOn), us # <<>>, \A i \in DOMAIN us : us[i].batch # <<>>,
         NEW b \in Buffers, IsFiniteSet(InUnits(us, b))
  PROVE  /\ IsFiniteSet(InUnits(Tail(us), b)) /\ Cardinality(InUnits(Tail(us), b)) \in Nat
         /\ Cardinality(InUnits(us, b)) \in Nat
         /\ Cardinality(InUnits(Tail(us), b)) =< Cardinality(InUnits(us, b))
         /\ (\A j \in DOMAIN Head(us).batch : Head(us).batch[j] # b) =>
              Cardinality(InUnits(Tail(us), b)) = Cardinality(InUnits(us, b))
<1> DEFINE left == {w \in InUnits(us, b) : w[1] # 1}
           f == [w \in left |-> <<w[1] - 1, w[2]>>]
<1>1. /\ Tail(us) \in Seq(HandedOn) /\ Len(us) \in Nat /\ Len(us) >= 1
      /\ DOMAIN us = 1 .. Len(us) /\ DOMAIN Tail(us) = 1 .. (Len(us) - 1)
      /\ \A i \in 1 .. (Len(us) - 1) : Tail(us)[i] = us[i + 1]
      /\ Head(us) = us[1]
  <2>1. Len(Tail(us)) = Len(us) - 1 /\ Tail(us) \in Seq(HandedOn)
    OBVIOUS
  <2> QED BY <2>1, HeadUnit
<1>2. \A w \in left : /\ w[1] \in 2 .. Len(us) /\ w[1] \in Nat /\ w[2] \in Nat /\ w = <<w[1], w[2]>>
                      /\ w[2] \in DOMAIN us[w[1]].batch /\ us[w[1]].batch[w[2]] = b
  BY <1>1 DEF InUnits
<1>3. f \in [left -> InUnits(Tail(us), b)]
  <2> SUFFICES ASSUME NEW w \in left PROVE <<w[1] - 1, w[2]>> \in InUnits(Tail(us), b)
    OBVIOUS
  <2>1. w[1] - 1 \in 1 .. (Len(us) - 1) /\ w[1] - 1 \in Nat /\ Tail(us)[w[1] - 1] = us[w[1]]
    BY <1>1, <1>2
  <2> QED BY <1>1, <1>2, <2>1 DEF InUnits
<1>4. \A v, w \in left : f[v] = f[w] => v = w
  <2> SUFFICES ASSUME NEW v \in left, NEW w \in left, <<v[1] - 1, v[2]>> = <<w[1] - 1, w[2]>> PROVE v = w
    OBVIOUS
  <2>1. v[1] = w[1] /\ v[2] = w[2]
    BY <1>2
  <2> QED BY <1>2, <2>1
<1>5. \A z \in InUnits(Tail(us), b) : \E w \in left : f[w] = z
  <2> SUFFICES ASSUME NEW z \in InUnits(Tail(us), b) PROVE \E w \in left : f[w] = z
    OBVIOUS
  <2>1. /\ z[1] \in 1 .. (Len(us) - 1) /\ z[1] \in Nat /\ z[2] \in Nat /\ z = <<z[1], z[2]>>
        /\ z[2] \in DOMAIN Tail(us)[z[1]].batch /\ Tail(us)[z[1]].batch[z[2]] = b
    BY <1>1 DEF InUnits
  <2>2. /\ z[1] + 1 \in 1 .. Len(us) /\ z[1] + 1 \in Nat /\ z[1] + 1 # 1 /\ Tail(us)[z[1]] = us[z[1] + 1]
        /\ z[1] + 1 - 1 = z[1]
    BY <1>1, <2>1
  <2>3. <<z[1] + 1, z[2]>> \in left
    BY <1>1, <2>1, <2>2 DEF InUnits
  <2>4. f[<<z[1] + 1, z[2]>>] = z
    BY <2>1, <2>2, <2>3
  <2> QED BY <2>3, <2>4
<1>6. (\A j \in DOMAIN Head(us).batch : Head(us).batch[j] # b) => left = InUnits(us, b)
  BY <1>1 DEF InUnits
<1>7. IsFiniteSet(left) /\ Cardinality(left) =< Cardinality(InUnits(us, b))
  BY FS_Subset
<1> HIDE DEF left, f
<1>8. IsFiniteSet(InUnits(Tail(us), b)) /\ Cardinality(InUnits(Tail(us), b)) = Cardinality(left)
  BY <1>3, <1>4, <1>5, <1>7, Moved
<1> QED BY <1>6, <1>7, <1>8, FS_CardinalityType

-----------------------------------------------------------------------------
\* What MInv says of the account of one buffer.
Account(b) ==
  /\ IsFiniteSet(Holding(pc, buf, b)) /\ IsFiniteSet(InPending(pending, b))
  /\ IsFiniteSet(InUnits(units, b))
  /\ refs[b] >= Holds(b) + One(IsOpen(b))
  /\ ~GivenUp(b) /\ (policy = "general" \/ ~closed[b] \/ b \in counted) =>
       refs[b] = Holds(b) + One(IsOpen(b))

LEMMA Accounts ==
  (HoldsAreFinite /\ Balanced) <=> \A b \in Buffers : Account(b)
BY DEF HoldsAreFinite, Balanced, Account

LEMMA AccountsAfter ==
  (HoldsAreFinite /\ Balanced)' <=> \A b \in Buffers : Account(b)'
BY DEF HoldsAreFinite, Balanced, Account

\* Numbers of the account.
LEMMA AccountNumbers ==
  ASSUME Typed, NEW b \in Buffers, Account(b)
  PROVE  /\ Cardinality(Holding(pc, buf, b)) \in Nat /\ Cardinality(InPending(pending, b)) \in Nat
         /\ Cardinality(InUnits(units, b)) \in Nat /\ refs[b] \in Nat
         /\ One(IsOpen(b)) \in {0, 1} /\ (\A P : One(P) \in {0, 1})
BY FS_CardinalityType DEF Account, Typed, One

\* A goroutine that holds b is on its account.
LEMMA HolderCounts ==
  ASSUME Typed, NEW b \in Buffers, Account(b), NEW t \in Handles!Procs,
         pc[t] \in {"append", "release"}, buf[t] = b
  PROVE  Cardinality(Holding(pc, buf, b)) >= 1 /\ refs[b] >= 1
<1>1. t \in Holding(pc, buf, b) /\ IsFiniteSet(Holding(pc, buf, b))
  BY DEF Holding, Account
<1>2. Cardinality(Holding(pc, buf, b)) # 0
  BY <1>1, FS_EmptySet
<1> QED BY <1>2, AccountNumbers DEF Account, Holds

\* A step of one goroutine: what it does to the places and the account.
LEMMA GoMoves ==
  ASSUME Typed, NEW t \in Handles!Procs, NEW to \in Labels, NEW x \in Buffers \union {Nobody},
         Handles!Go(t, to, x)
  PROVE  /\ pc' \in [Handles!Procs -> Labels] /\ buf' \in [Handles!Procs -> Buffers \union {Nobody}]
         /\ pc' = [pc EXCEPT ![t] = to] /\ buf' = [buf EXCEPT ![t] = x]
         /\ pc'[t] = to /\ buf'[t] = x
         /\ \A s \in Handles!Procs : s # t => pc'[s] = pc[s] /\ buf'[s] = buf[s]
BY DEF Typed, Handles!Go

LEMMA GoAccounts ==
  ASSUME Typed, NEW t \in Handles!Procs, NEW to \in Labels, NEW x \in Buffers \union {Nobody},
         Handles!Go(t, to, x), NEW b \in Buffers, Account(b)
  PROVE  /\ IsFiniteSet(Holding(pc', buf', b))
         /\ Cardinality(Holding(pc', buf', b)) \in Nat
         /\ Cardinality(Holding(pc', buf', b)) + Share(pc[t], buf[t], b)
              = Cardinality(Holding(pc, buf, b)) + Share(to, x, b)
<1>1. pc \in [Handles!Procs -> Labels] /\ buf \in [Handles!Procs -> Buffers \union {Nobody}]
      /\ IsFiniteSet(Holding(pc, buf, b))
  BY DEF Typed, Account
<1>2. pc' = [pc EXCEPT ![t] = to] /\ buf' = [buf EXCEPT ![t] = x]
  BY GoMoves
<1>3. LET pcs2 == [pc EXCEPT ![t] = to]
          bufs2 == [buf EXCEPT ![t] = x]
      IN /\ IsFiniteSet(Holding(pcs2, bufs2, b)) /\ Cardinality(Holding(pcs2, bufs2, b)) \in Nat
         /\ Cardinality(Holding(pcs2, bufs2, b)) + Share(pc[t], buf[t], b)
              = Cardinality(Holding(pc, buf, b)) + Share(to, x, b)
  BY <1>1, HoldMoves
<1> QED BY <1>2, <1>3

\* A step of one goroutine that accounts for what it does to the holds of b.
LEMMA GoBalances ==
  ASSUME Typed, NEW t \in Handles!Procs, NEW to \in Labels, NEW x \in Buffers \union {Nobody},
         Handles!Go(t, to, x), NEW b \in Buffers, Account(b),
         IsFiniteSet(InPending(pending', b)), IsFiniteSet(InUnits(units', b)), refs'[b] \in Nat,
         refs'[b] + Share(pc[t], buf[t], b) + Cardinality(InPending(pending, b))
             + Cardinality(InUnits(units, b)) + One(IsOpen(b))
           = refs[b] + Share(to, x, b) + Cardinality(InPending(pending', b))
             + Cardinality(InUnits(units', b)) + One(IsOpen(b)'),
         ~GivenUp(b)' /\ (policy' = "general" \/ ~closed'[b] \/ b \in counted') =>
           ~GivenUp(b) /\ (policy = "general" \/ ~closed[b] \/ b \in counted)
  PROVE  Account(b)'
<1> DEFINE h == Cardinality(Holding(pc, buf, b))
           h2 == Cardinality(Holding(pc', buf', b))
           p == Cardinality(InPending(pending, b))
           p2 == Cardinality(InPending(pending', b))
           u == Cardinality(InUnits(units, b))
           u2 == Cardinality(InUnits(units', b))
           o == One(IsOpen(b))
           o2 == One(IsOpen(b)')
           s == Share(pc[t], buf[t], b)
           s2 == Share(to, x, b)
<1>1. h \in Nat /\ p \in Nat /\ u \in Nat /\ o \in {0, 1} /\ o2 \in {0, 1} /\ refs[b] \in Nat
  BY AccountNumbers
<1>2. IsFiniteSet(Holding(pc', buf', b)) /\ h2 \in Nat /\ h2 + s = h + s2
  BY GoAccounts
<1>3. p2 \in Nat /\ u2 \in Nat /\ s \in {0, 1} /\ s2 \in {0, 1}
  BY FS_CardinalityType DEF Share
<1>4. /\ refs[b] >= h + p + u + o
      /\ ~GivenUp(b) /\ (policy = "general" \/ ~closed[b] \/ b \in counted) => refs[b] = h + p + u + o
  BY DEF Account, Holds
<1>5. refs'[b] + s + p + u + o = refs[b] + s2 + p2 + u2 + o2
  OBVIOUS
<1> HIDE DEF h, h2, p, p2, u, u2, o, o2, s, s2
<1>6. refs'[b] >= h2 + p2 + u2 + o2
  BY <1>1, <1>2, <1>3, <1>4, <1>5
<1>7. refs[b] = h + p + u + o => refs'[b] = h2 + p2 + u2 + o2
  BY <1>1, <1>2, <1>3, <1>5
<1>8. Holds(b)' = h2 + p2 + u2 /\ One(IsOpen(b))' = o2
  BY DEF Holds, h2, p2, u2, o2
<1>9. /\ refs'[b] >= Holds(b)' + One(IsOpen(b))'
      /\ ~GivenUp(b)' /\ (policy' = "general" \/ ~closed'[b] \/ b \in counted') =>
           refs'[b] = Holds(b)' + One(IsOpen(b))'
  BY <1>4, <1>6, <1>7, <1>8
<1> QED BY <1>2, <1>9 DEF Account

\* A step that does nothing to the holds of b or to its handle.
LEMMA GoIdly ==
  ASSUME Typed, NEW t \in Handles!Procs, NEW to \in Labels, NEW x \in Buffers \union {Nobody},
         Handles!Go(t, to, x), NEW b \in Buffers, Account(b),
         Share(pc[t], buf[t], b) = Share(to, x, b), refs'[b] = refs[b],
         place'[b] = place[b], closed'[b] = closed[b], b \in counted' => b \in counted,
         UNCHANGED <<policy, pending, units, dropped>>
  PROVE  Account(b)'
<1>1. /\ IsFiniteSet(InPending(pending', b)) /\ IsFiniteSet(InUnits(units', b)) /\ refs'[b] \in Nat
      /\ refs[b] \in Nat /\ Cardinality(InPending(pending', b)) = Cardinality(InPending(pending, b))
      /\ Cardinality(InUnits(units', b)) = Cardinality(InUnits(units, b))
      /\ Cardinality(InPending(pending, b)) \in Nat /\ Cardinality(InUnits(units, b)) \in Nat
  BY AccountNumbers DEF Account
<1>2. IsOpen(b)' <=> IsOpen(b)
  BY DEF IsOpen, Handles!Allocated
<1>3. One(IsOpen(b)') = One(IsOpen(b)) /\ One(IsOpen(b)) \in {0, 1}
  BY <1>2 DEF One
<1>4. Share(to, x, b) \in {0, 1}
  BY DEF Share
<1>5. refs'[b] + Share(pc[t], buf[t], b) + Cardinality(InPending(pending, b))
             + Cardinality(InUnits(units, b)) + One(IsOpen(b))
           = refs[b] + Share(to, x, b) + Cardinality(InPending(pending', b))
             + Cardinality(InUnits(units', b)) + One(IsOpen(b)')
  BY <1>1, <1>3, <1>4
<1>6. ~GivenUp(b)' /\ (policy' = "general" \/ ~closed'[b] \/ b \in counted') =>
           ~GivenUp(b) /\ (policy = "general" \/ ~closed[b] \/ b \in counted)
  BY DEF GivenUp
<1> QED BY <1>1, <1>5, <1>6, GoBalances

-----------------------------------------------------------------------------
\* Labels of a goroutine that frees its buffer, and of one that has none.
FreeLabels == {"free", "forget"}
PoolLabels == {"idle", "reset", "freeblock"}

\* A goroutine that moves on without freeing anything, with the pool and the
\* handles as they were.
LEMMA GoStands ==
  ASSUME Typed, Standing, NEW t \in Handles!Procs, NEW to \in Labels, NEW x \in Buffers \union {Nobody},
         Handles!Go(t, to, x), pc[t] \notin FreeLabels, to \notin FreeLabels,
         to = "alloc" => x \in Buffers /\ ~Handles!Allocated(x) /\ \A s \in Handles!Procs : buf[s] # x,
         to \in {"retain", "append", "release"} => x \in Buffers /\ Handles!Allocated(x),
         to \in PoolLabels => x = Nobody,
         to = "reset" => policy = "linear", to = "freeblock" => poolClosed',
         poolClosed => poolClosed', poolClosed' => counted = {}, blockFreed' => poolClosed',
         Nobody \notin Buffers,
         UNCHANGED <<policy, refs, closed, place, owner, counted>>
  PROVE  Standing'
<1>1. \A s \in Handles!Procs, b \in Buffers : Freeing(s, b)' <=> Freeing(s, b)
  BY GoMoves DEF Freeing, FreeLabels
<1>2. HeldIsPlaced'
  BY DEF Standing, HeldIsPlaced, IsOpen, Placed, Handles!Allocated
<1>3. FreeingAlone'
  <2> SUFFICES ASSUME NEW s \in Handles!Procs, NEW b \in Buffers, Freeing(s, b)'
               PROVE  /\ refs'[b] = 0 /\ closed'[b] /\ Handles!Allocated(b)'
                      /\ \A r \in Handles!Procs : Freeing(r, b)' => r = s
                      /\ policy' = "general" => /\ pc'[s] = "free" => Placed(b)'
                                                /\ pc'[s] = "forget" => owner'[place'[b]] # b
    BY DEF FreeingAlone
  <2>1. Freeing(s, b) /\ pc'[s] = pc[s]
    BY <1>1, GoMoves DEF Freeing, FreeLabels
  <2>2. /\ refs[b] = 0 /\ closed[b] /\ Handles!Allocated(b)
        /\ \A r \in Handles!Procs : Freeing(r, b) => r = s
        /\ policy = "general" => /\ pc[s] = "free" => Placed(b)
                                 /\ pc[s] = "forget" => owner[place[b]] # b
    BY <2>1 DEF Standing, FreeingAlone
  <2>3. Placed(b)' <=> Placed(b)
    BY DEF Placed, Handles!Allocated
  <2> QED BY <1>1, <2>1, <2>2, <2>3 DEF Handles!Allocated
<1>4. UnheldIsGone'
  BY <1>1 DEF Standing, UnheldIsGone, Handles!Allocated
<1>5. Ground'
  BY DEF Standing, Ground, Handles!Allocated
<1>6. \A s \in Handles!Procs : AtWork(s)'
  <2> SUFFICES ASSUME NEW s \in Handles!Procs PROVE AtWork(s)'
    OBVIOUS
  <2>1. AtWork(s)
    BY DEF Standing
  <2>2. CASE s = t
    BY <2>2, GoMoves DEF AtWork, FreeLabels, Labels, Handles!Allocated
  <2>3. CASE s # t
    <3>1. pc'[s] = pc[s] /\ buf'[s] = buf[s]
      BY <2>3, GoMoves
    <3>2. pc[s] = "alloc" => x # buf[s]
      BY <2>1 DEF AtWork, PoolLabels, Labels, FreeLabels
    <3>3. pc[s] = "alloc" => \A r \in Handles!Procs : buf'[r] = buf[s] => r = s
      BY <2>1, <3>1, <3>2, GoMoves DEF AtWork
    <3> QED BY <2>1, <3>1, <3>3 DEF AtWork, Handles!Allocated
  <2> QED BY <2>2, <2>3
<1> QED BY <1>2, <1>3, <1>4, <1>5, <1>6 DEF Standing

\* A goroutine that moves on leaves the others' places fitting.
LEMMA WorkStays ==
  ASSUME Typed, Standing, Nobody \notin Buffers,
         NEW t \in Handles!Procs, NEW to \in Labels, NEW x \in Buffers \union {Nobody},
         Handles!Go(t, to, x), to \notin {"alloc", "reset", "freeblock"},
         to \in {"retain", "append", "release", "free", "forget"} => x \in Buffers,
         x \in Buffers => Handles!Allocated(x),
         \A s \in Handles!Procs : s # t /\ pc[s] = "alloc" => place'[buf[s]] = place[buf[s]],
         policy' = policy, poolClosed => poolClosed'
  PROVE  \A s \in Handles!Procs : AtWork(s)'
<1> SUFFICES ASSUME NEW s \in Handles!Procs PROVE AtWork(s)'
  OBVIOUS
<1>1. AtWork(s)
  BY DEF Standing
<1>2. CASE s = t
  BY <1>2, GoMoves DEF AtWork, Labels
<1>3. CASE s # t
  <2>1. pc'[s] = pc[s] /\ buf'[s] = buf[s]
    BY <1>3, GoMoves
  <2>2. pc[s] = "alloc" => x # buf[s] /\ place'[buf[s]] = Handles!NoPlace
    BY <1>1, <1>3 DEF AtWork, Handles!Allocated
  <2>3. pc[s] = "alloc" => \A r \in Handles!Procs : buf'[r] = buf[s] => r = s
    BY <1>1, <2>1, <2>2, GoMoves DEF AtWork
  <2> QED BY <1>1, <2>1, <2>2, <2>3 DEF AtWork, Handles!Allocated
<1> QED BY <1>2, <1>3

\* A step that is only a goroutine moving on keeps the whole invariant.
LEMMA GoKeeps ==
  ASSUME MInv, Nobody \notin Buffers,
         NEW t \in Handles!Procs, NEW to \in Labels, NEW x \in Buffers \union {Nobody},
         Handles!Go(t, to, x), pc[t] \notin FreeLabels, to \notin FreeLabels,
         to = "alloc" => x \in Buffers /\ ~Handles!Allocated(x) /\ \A s \in Handles!Procs : buf[s] # x,
         to \in {"retain", "append", "release"} => x \in Buffers /\ Handles!Allocated(x),
         to \in PoolLabels => x = Nobody,
         to = "reset" => policy = "linear", to = "freeblock" => poolClosed',
         poolClosed => poolClosed', poolClosed' => counted = {}, blockFreed' => poolClosed',
         \A b \in Buffers : Share(pc[t], buf[t], b) = Share(to, x, b),
         poolMu' \in Callers \union {Nobody},
         UNCHANGED <<policy, refs, closed, place, owner, counted, pending, units, dropped>>
  PROVE  MInv'
<1>1. Typed /\ Standing /\ \A b \in Buffers : Account(b)
  BY Accounts DEF MInv
<1>2. Typed'
  BY <1>1, GoMoves DEF Typed
<1>3. Standing'
  BY <1>1, GoStands
<1>4. \A b \in Buffers : Account(b)'
  BY <1>1, GoIdly
<1> QED BY <1>2, <1>3, <1>4, AccountsAfter DEF MInv

LEMMA StartAllocKeeps ==
  ASSUME Nobody \notin Buffers, MInv, NEW t \in Callers, NEW b \in Buffers, Handles!StartAlloc(t, b)
  PROVE  MInv'
<1>1. /\ t \in Handles!Procs /\ pc[t] = "idle" /\ ~Handles!Allocated(b) /\ Handles!Go(t, "alloc", b)
      /\ \A s \in Handles!Procs : buf[s] # b
      /\ UNCHANGED <<policy, refs, closed, place, owner, counted, pending, units, dropped,
                     poolMu, poolClosed, blockFreed>>
  BY DEF Handles!StartAlloc, Handles!pool, Handles!writes, Handles!Procs
<1>2. "alloc" \in Labels /\ "alloc" \notin FreeLabels \union PoolLabels \union {"retain", "append", "release"}
      /\ pc[t] \notin FreeLabels /\ \A c \in Buffers : Share(pc[t], buf[t], c) = Share("alloc", b, c)
  BY <1>1 DEF Labels, FreeLabels, PoolLabels, Share
<1>3. poolMu \in Callers \union {Nobody} /\ (poolClosed => counted = {}) /\ (blockFreed => poolClosed)
  BY DEF MInv, Typed, Standing, Ground
<1> QED BY <1>1, <1>2, <1>3, GoKeeps

LEMMA CheckWriteKeeps ==
  ASSUME Nobody \notin Buffers, MInv, NEW t \in Callers, NEW b \in Buffers, Handles!CheckWrite(t, b)
  PROVE  MInv'
<1>1. /\ t \in Handles!Procs /\ pc[t] = "idle" /\ Handles!Allocated(b) /\ Handles!Go(t, "retain", b)
      /\ UNCHANGED <<policy, refs, closed, place, owner, counted, pending, units, dropped,
                     poolMu, poolClosed, blockFreed>>
  BY DEF Handles!CheckWrite, Handles!pool, Handles!writes, Handles!Procs
<1>2. "retain" \in Labels /\ "retain" \notin FreeLabels \union PoolLabels \union {"alloc"}
      /\ pc[t] \notin FreeLabels /\ \A c \in Buffers : Share(pc[t], buf[t], c) = Share("retain", b, c)
  BY <1>1 DEF Labels, FreeLabels, PoolLabels, Share
<1>3. poolMu \in Callers \union {Nobody} /\ (poolClosed => counted = {}) /\ (blockFreed => poolClosed)
  BY DEF MInv, Typed, Standing, Ground
<1> QED BY <1>1, <1>2, <1>3, GoKeeps

\* A goroutine that holds nothing and returns to idle.
LEMMA GivingUpKeeps ==
  ASSUME Nobody \notin Buffers, MInv, NEW t \in Handles!Procs, pc[t] \in {"alloc", "retain", "freeblock"},
         Handles!Go(t, "idle", Nobody), blockFreed' => poolClosed,
         UNCHANGED <<policy, refs, closed, place, owner, counted, pending, units, dropped,
                     poolMu, poolClosed>>
  PROVE  MInv'
<1>1. "idle" \in Labels /\ "idle" \notin FreeLabels \union {"alloc", "retain", "append", "release", "reset", "freeblock"}
      /\ pc[t] \notin FreeLabels /\ \A c \in Buffers : Share(pc[t], buf[t], c) = Share("idle", Nobody, c)
  BY DEF Labels, FreeLabels, PoolLabels, Share
<1>2. poolMu \in Callers \union {Nobody} /\ (poolClosed => counted = {})
  BY DEF MInv, Typed, Standing, Ground
<1> QED BY <1>1, <1>2, GoKeeps

LEMMA FreeBlockKeeps ==
  ASSUME Nobody \notin Buffers, MInv, NEW t \in Callers, Handles!FreeBlock(t)
  PROVE  MInv'
<1>1. /\ t \in Handles!Procs /\ pc[t] = "freeblock" /\ Handles!Go(t, "idle", Nobody)
      /\ UNCHANGED <<policy, refs, closed, place, owner, counted, pending, units, dropped,
                     poolMu, poolClosed>>
  BY DEF Handles!FreeBlock, Handles!writes, Handles!Procs
<1>2. poolClosed
  BY <1>1 DEF MInv, Standing, AtWork
<1> QED BY <1>1, <1>2, GivingUpKeeps

LEMMA ClosePoolKeeps ==
  ASSUME Nobody \notin Buffers, MInv, NEW t \in Callers, Handles!ClosePool(t)
  PROVE  MInv'
<1>1. /\ t \in Handles!Procs /\ pc[t] = "idle" /\ Handles!Go(t, "freeblock", Nobody) /\ poolClosed'
      /\ counted = {}
      /\ UNCHANGED <<policy, refs, closed, place, owner, counted, pending, units, dropped,
                     poolMu, blockFreed>>
  BY DEF Handles!ClosePool, Handles!writes, Handles!Procs
<1>2. "freeblock" \in Labels /\ "freeblock" \notin FreeLabels \union {"alloc", "retain", "append", "release", "reset"}
      /\ pc[t] \notin FreeLabels /\ \A c \in Buffers : Share(pc[t], buf[t], c) = Share("freeblock", Nobody, c)
  BY <1>1 DEF Labels, FreeLabels, Share
<1>3. poolMu \in Callers \union {Nobody}
  BY DEF MInv, Typed
<1> QED BY <1>1, <1>2, <1>3, GoKeeps

LEMMA BeginResetKeeps ==
  ASSUME Nobody \notin Buffers, MInv, NEW t \in Callers, Handles!BeginReset(t)
  PROVE  MInv'
<1>1. /\ t \in Handles!Procs /\ pc[t] = "idle" /\ Handles!Go(t, "reset", Nobody) /\ policy = "linear"
      /\ poolMu' = t
      /\ UNCHANGED <<policy, refs, closed, place, owner, counted, pending, units, dropped,
                     poolClosed, blockFreed>>
  BY DEF Handles!BeginReset, Handles!writes, Handles!Procs
<1>2. "reset" \in Labels /\ "reset" \notin FreeLabels \union {"alloc", "retain", "append", "release", "freeblock"}
      /\ pc[t] \notin FreeLabels /\ \A c \in Buffers : Share(pc[t], buf[t], c) = Share("reset", Nobody, c)
  BY <1>1 DEF Labels, FreeLabels, Share
<1>3. (poolClosed => counted = {}) /\ (blockFreed => poolClosed)
  BY DEF MInv, Standing, Ground
<1> QED BY <1>1, <1>2, <1>3, GoKeeps

LEMMA StageKeeps ==
  ASSUME Nobody \notin Buffers, MInv, NEW t \in Callers, Handles!Stage(t)
  PROVE  MInv'
<1>1. /\ t \in Handles!Procs /\ pc[t] = "append" /\ Handles!Go(t, "idle", Nobody)
      /\ pending' = Append(pending, buf[t])
      /\ UNCHANGED <<policy, refs, closed, place, owner, counted, units, dropped,
                     poolMu, poolClosed, blockFreed>>
  BY DEF Handles!Stage, Handles!pool, Handles!Procs
<1>2. /\ "idle" \in Labels /\ "idle" \notin FreeLabels \union {"alloc", "retain", "append", "release", "reset", "freeblock"}
      /\ pc[t] \notin FreeLabels
  BY <1>1 DEF Labels, FreeLabels
<1>3. /\ Typed /\ Standing /\ \A b \in Buffers : Account(b)
      /\ poolMu \in Callers \union {Nobody} /\ (poolClosed => counted = {}) /\ (blockFreed => poolClosed)
  BY Accounts DEF MInv, Typed, Standing, Ground
<1>4. buf[t] \in Buffers
  BY <1>1, <1>3 DEF Standing, AtWork
<1>5. Typed'
  BY <1>1, <1>2, <1>3, <1>4, GoMoves DEF Typed
<1>6. Standing'
  BY <1>1, <1>2, <1>3, GoStands
<1>7. ASSUME NEW b \in Buffers PROVE Account(b)'
  <2>1. /\ IsFiniteSet(InPending(pending', b)) /\ Cardinality(InPending(pending, b)) \in Nat
        /\ Cardinality(InPending(pending', b)) = Cardinality(InPending(pending, b)) + One(buf[t] = b)
    BY <1>1, <1>3, <1>4, PendingGrows DEF Typed, Account
  <2>2. /\ IsFiniteSet(InUnits(units', b)) /\ InUnits(units', b) = InUnits(units, b)
        /\ Cardinality(InUnits(units, b)) \in Nat /\ refs'[b] = refs[b] /\ refs[b] \in Nat
    BY <1>1, <1>3, AccountNumbers DEF Account
  <2>3. Share("idle", Nobody, b) = 0 /\ Share(pc[t], buf[t], b) = One(buf[t] = b)
        /\ One(buf[t] = b) \in {0, 1}
    BY <1>1 DEF Share, One
  <2>4. One(IsOpen(b)') = One(IsOpen(b)) /\ One(IsOpen(b)) \in {0, 1}
    BY <1>1 DEF IsOpen, Handles!Allocated, One
  <2>5. refs'[b] + Share(pc[t], buf[t], b) + Cardinality(InPending(pending, b))
             + Cardinality(InUnits(units, b)) + One(IsOpen(b))
           = refs[b] + Share("idle", Nobody, b) + Cardinality(InPending(pending', b))
             + Cardinality(InUnits(units', b)) + One(IsOpen(b)')
    BY <2>1, <2>2, <2>3, <2>4
  <2>6. ~GivenUp(b)' /\ (policy' = "general" \/ ~closed'[b] \/ b \in counted') =>
           ~GivenUp(b) /\ (policy = "general" \/ ~closed[b] \/ b \in counted)
    BY <1>1 DEF GivenUp
  <2> QED BY <1>1, <1>2, <1>3, <2>1, <2>2, <2>5, <2>6, GoBalances
<1> QED BY <1>5, <1>6, <1>7, AccountsAfter DEF MInv

LEMMA RetainKeeps ==
  ASSUME Nobody \notin Buffers, MInv, NEW t \in Callers, Handles!Retain(t)
  PROVE  MInv'
<1> DEFINE d == buf[t]
<1>1. /\ t \in Handles!Procs /\ pc[t] = "retain"
      /\ UNCHANGED <<policy, closed, place, owner, counted, pending, units, dropped,
                     poolMu, poolClosed, blockFreed>>
      /\ IF refs[d] > 0 THEN refs' = [refs EXCEPT ![d] = @ + 1] /\ Handles!Go(t, "append", d)
                        ELSE refs' = refs /\ Handles!Go(t, "idle", Nobody)
  BY DEF Handles!Retain, Handles!pool, Handles!writes, Handles!Procs
<1>2. /\ Typed /\ Standing /\ \A b \in Buffers : Account(b)
      /\ poolMu \in Callers \union {Nobody} /\ (poolClosed => counted = {}) /\ (blockFreed => poolClosed)
  BY Accounts DEF MInv, Typed, Standing, Ground
<1>3. d \in Buffers
  BY <1>1, <1>2 DEF Standing, AtWork
<1> HIDE DEF d
<1>4. CASE ~(refs[d] > 0)
  BY <1>1, <1>2, <1>4, GivingUpKeeps
<1>5. CASE refs[d] > 0
  <2>1. refs' = [refs EXCEPT ![d] = @ + 1] /\ Handles!Go(t, "append", d)
    BY <1>1, <1>5
  <2>2. /\ refs \in [Buffers -> Nat] /\ refs'[d] = refs[d] + 1 /\ refs' \in [Buffers -> Nat]
        /\ \A b \in Buffers : b # d => refs'[b] = refs[b]
    BY <1>2, <1>3, <2>1 DEF Typed
  <2>3. "append" \in Labels /\ "append" \notin FreeLabels \union {"alloc", "retain", "release", "idle", "reset", "freeblock"}
        /\ pc[t] \notin FreeLabels
    BY <1>1 DEF Labels, FreeLabels
  <2>4. Typed'
    BY <1>1, <1>2, <1>3, <2>1, <2>2, <2>3, GoMoves DEF Typed
  <2>5. \A s \in Handles!Procs, b \in Buffers : Freeing(s, b)' <=> Freeing(s, b)
    BY <1>1, <1>2, <1>3, <2>1, <2>3, GoMoves DEF Freeing, FreeLabels
  <2>6. HeldIsPlaced'
    BY <1>1, <1>2, <1>5, <2>2 DEF Standing, HeldIsPlaced, IsOpen, Placed, Handles!Allocated
  <2>7. FreeingAlone'
    <3> SUFFICES ASSUME NEW s \in Handles!Procs, NEW b \in Buffers, Freeing(s, b)'
                 PROVE  /\ refs'[b] = 0 /\ closed'[b] /\ Handles!Allocated(b)'
                        /\ \A r \in Handles!Procs : Freeing(r, b)' => r = s
                        /\ policy' = "general" => /\ pc'[s] = "free" => Placed(b)'
                                                  /\ pc'[s] = "forget" => owner'[place'[b]] # b
      BY DEF FreeingAlone
    <3>1. Freeing(s, b) /\ s # t
      BY <2>3, <2>5 DEF Freeing, FreeLabels
    <3>2. /\ refs[b] = 0 /\ closed[b] /\ Handles!Allocated(b)
          /\ \A r \in Handles!Procs : Freeing(r, b) => r = s
          /\ policy = "general" => /\ pc[s] = "free" => Placed(b)
                                   /\ pc[s] = "forget" => owner[place[b]] # b
      BY <1>2, <3>1 DEF Standing, FreeingAlone
    <3>3. b # d
      BY <1>5, <3>2
    <3>4. pc'[s] = pc[s]
      BY <1>1, <1>2, <1>3, <2>1, <2>3, <3>1, GoMoves
    <3> QED BY <1>1, <2>2, <2>5, <3>2, <3>3, <3>4 DEF Handles!Allocated, Placed
  <2>8. UnheldIsGone'
    BY <1>1, <1>2, <2>2, <2>5 DEF Standing, UnheldIsGone, Handles!Allocated
  <2>9. Ground'
    BY <1>1, <1>2, <1>5, <2>2 DEF Standing, Ground, Handles!Allocated
  <2>10. \A s \in Handles!Procs : AtWork(s)'
    <3>1. Handles!Allocated(d)
      BY <1>2, <1>3, <1>5 DEF Standing, Ground
    <3> QED BY <1>1, <1>2, <1>3, <2>1, <2>3, <3>1, WorkStays
  <2>11. Standing'
    BY <2>6, <2>7, <2>8, <2>9, <2>10 DEF Standing
  <2>12. ASSUME NEW b \in Buffers PROVE Account(b)'
    <3>1. /\ IsFiniteSet(InUnits(units', b)) /\ IsFiniteSet(InPending(pending', b))
          /\ Cardinality(InUnits(units', b)) = Cardinality(InUnits(units, b))
          /\ Cardinality(InPending(pending', b)) = Cardinality(InPending(pending, b))
          /\ Cardinality(InUnits(units, b)) \in Nat /\ Cardinality(InPending(pending, b)) \in Nat
          /\ refs[b] \in Nat /\ refs'[b] \in Nat
      BY <1>1, <1>2, <2>2, AccountNumbers DEF Account
    <3>2. /\ refs'[b] + Share(pc[t], buf[t], b) = refs[b] + Share("append", d, b)
          /\ Share("append", d, b) \in {0, 1} /\ Share(pc[t], buf[t], b) = 0
      BY <1>1, <2>2 DEF Share
    <3>3. One(IsOpen(b)') = One(IsOpen(b)) /\ One(IsOpen(b)) \in {0, 1}
      BY <1>1 DEF IsOpen, Handles!Allocated, One
    <3>4. refs'[b] + Share(pc[t], buf[t], b) + Cardinality(InPending(pending, b))
               + Cardinality(InUnits(units, b)) + One(IsOpen(b))
             = refs[b] + Share("append", d, b) + Cardinality(InPending(pending', b))
               + Cardinality(InUnits(units', b)) + One(IsOpen(b)')
      BY <3>1, <3>2, <3>3
    <3>5. ~GivenUp(b)' /\ (policy' = "general" \/ ~closed'[b] \/ b \in counted') =>
             ~GivenUp(b) /\ (policy = "general" \/ ~closed[b] \/ b \in counted)
      BY <1>1 DEF GivenUp
    <3> QED BY <1>1, <1>2, <1>3, <2>1, <2>3, <3>1, <3>4, <3>5, GoBalances
  <2> QED BY <2>4, <2>11, <2>12, AccountsAfter DEF MInv
<1> QED BY <1>4, <1>5

\* The buffer of a goroutine that is to release was allocated.
LEMMA HolderIsAllocated ==
  ASSUME MInv, NEW t \in Handles!Procs, pc[t] \in {"append", "release"}
  PROVE  /\ buf[t] \in Buffers /\ Handles!Allocated(buf[t]) /\ refs[buf[t]] >= 1 /\ refs[buf[t]] \in Nat
         /\ \A s \in Handles!Procs : ~Freeing(s, buf[t])
<1>1. Typed /\ Standing /\ \A b \in Buffers : Account(b)
  BY Accounts DEF MInv
<1>2. buf[t] \in Buffers
  BY <1>1 DEF Standing, AtWork
<1>3. refs[buf[t]] >= 1 /\ refs[buf[t]] \in Nat
  BY <1>1, <1>2, HolderCounts, AccountNumbers
<1>4. \A s \in Handles!Procs : ~Freeing(s, buf[t])
  BY <1>1, <1>2, <1>3 DEF Standing, FreeingAlone
<1> QED BY <1>1, <1>2, <1>3, <1>4 DEF Standing, Ground

LEMMA BeginCloseKeeps ==
  ASSUME Nobody \notin Buffers, MInv, NEW t \in Callers, NEW b \in Buffers, Handles!BeginClose(t, b)
  PROVE  MInv'
<1>1. /\ t \in Handles!Procs /\ pc[t] = "idle" /\ Handles!Allocated(b) /\ ~closed[b]
      /\ closed' = [closed EXCEPT ![b] = TRUE] /\ Handles!Go(t, "release", b)
      /\ UNCHANGED <<policy, refs, place, owner, counted, pending, units, dropped,
                     poolMu, poolClosed, blockFreed>>
  BY DEF Handles!BeginClose, Handles!pool, Handles!writes, Handles!Procs
<1>2. Typed /\ Standing /\ \A c \in Buffers : Account(c)
  BY Accounts DEF MInv
<1>3. /\ closed' \in [Buffers -> BOOLEAN] /\ closed'[b]
      /\ \A c \in Buffers : c # b => closed'[c] = closed[c]
  BY <1>1, <1>2 DEF Typed
<1>4. /\ "release" \in Labels /\ "release" \notin FreeLabels \union {"alloc", "retain", "append", "idle", "reset", "freeblock"}
      /\ pc[t] \notin FreeLabels
  BY <1>1 DEF Labels, FreeLabels
<1>5. Typed'
  BY <1>1, <1>2, <1>3, <1>4, GoMoves DEF Typed
<1>6. \A s \in Handles!Procs, c \in Buffers : Freeing(s, c)' <=> Freeing(s, c)
  BY <1>1, <1>2, <1>4, GoMoves DEF Freeing, FreeLabels
<1>7. HeldIsPlaced'
  BY <1>1, <1>2, <1>3 DEF Standing, HeldIsPlaced, IsOpen, Placed, Handles!Allocated
<1>8. FreeingAlone'
  <2> SUFFICES ASSUME NEW s \in Handles!Procs, NEW c \in Buffers, Freeing(s, c)'
               PROVE  /\ refs'[c] = 0 /\ closed'[c] /\ Handles!Allocated(c)'
                      /\ \A r \in Handles!Procs : Freeing(r, c)' => r = s
                      /\ policy' = "general" => /\ pc'[s] = "free" => Placed(c)'
                                                /\ pc'[s] = "forget" => owner'[place'[c]] # c
    BY DEF FreeingAlone
  <2>1. Freeing(s, c) /\ s # t
    BY <1>4, <1>6 DEF Freeing, FreeLabels
  <2>2. /\ refs[c] = 0 /\ closed[c] /\ Handles!Allocated(c)
        /\ \A r \in Handles!Procs : Freeing(r, c) => r = s
        /\ policy = "general" => /\ pc[s] = "free" => Placed(c)
                                 /\ pc[s] = "forget" => owner[place[c]] # c
    BY <1>2, <2>1 DEF Standing, FreeingAlone
  <2>3. pc'[s] = pc[s] /\ c # b
    BY <1>1, <1>2, <1>4, <2>1, <2>2, GoMoves
  <2> QED BY <1>1, <1>3, <1>6, <2>2, <2>3 DEF Handles!Allocated, Placed
<1>9. UnheldIsGone'
  BY <1>1, <1>2, <1>6 DEF Standing, UnheldIsGone, Handles!Allocated
<1>10. Ground'
  BY <1>1, <1>2, <1>3 DEF Standing, Ground, Handles!Allocated
<1>11. \A s \in Handles!Procs : AtWork(s)'
  BY <1>1, <1>2, <1>4, WorkStays
<1>12. ASSUME NEW c \in Buffers PROVE Account(c)'
  <2>1. /\ IsFiniteSet(InUnits(units', c)) /\ IsFiniteSet(InPending(pending', c))
        /\ Cardinality(InUnits(units', c)) = Cardinality(InUnits(units, c))
        /\ Cardinality(InPending(pending', c)) = Cardinality(InPending(pending, c))
        /\ Cardinality(InUnits(units, c)) \in Nat /\ Cardinality(InPending(pending, c)) \in Nat
        /\ refs[c] \in Nat /\ refs'[c] = refs[c]
    BY <1>1, <1>2, AccountNumbers DEF Account
  <2>2. Share(pc[t], buf[t], c) = 0 /\ Share("release", b, c) = IF c = b THEN 1 ELSE 0
    BY <1>1 DEF Share
  <2>3. One(IsOpen(c)) = One(IsOpen(c)') + (IF c = b THEN 1 ELSE 0) /\ One(IsOpen(c)') \in {0, 1}
    BY <1>1, <1>3 DEF IsOpen, Handles!Allocated, One
  <2>4. refs'[c] + Share(pc[t], buf[t], c) + Cardinality(InPending(pending, c))
             + Cardinality(InUnits(units, c)) + One(IsOpen(c))
           = refs[c] + Share("release", b, c) + Cardinality(InPending(pending', c))
             + Cardinality(InUnits(units', c)) + One(IsOpen(c)')
    BY <2>1, <2>2, <2>3
  <2>5. ~GivenUp(c)' /\ (policy' = "general" \/ ~closed'[c] \/ c \in counted') =>
           ~GivenUp(c) /\ (policy = "general" \/ ~closed[c] \/ c \in counted)
    BY <1>1, <1>3 DEF GivenUp
  <2> QED BY <1>1, <1>2, <1>4, <2>1, <2>4, <2>5, GoBalances
<1> QED BY <1>5, <1>7, <1>8, <1>9, <1>10, <1>11, <1>12, AccountsAfter DEF MInv, Standing

\* Of a buffer whose only hold is that of the goroutine that releases it.
LEMMA LastHold ==
  ASSUME MInv, NEW t \in Handles!Procs, pc[t] = "release", refs[buf[t]] = 1
  PROVE  closed[buf[t]]
<1> DEFINE d == buf[t]
<1>1. Typed /\ Standing /\ Account(d) /\ d \in Buffers /\ Handles!Allocated(d)
  BY HolderIsAllocated, Accounts DEF MInv
<1>2. Cardinality(Holding(pc, buf, d)) >= 1
  BY <1>1, HolderCounts
<1>3. 1 >= Holds(d) + One(IsOpen(d))
  BY <1>1 DEF Account
<1>4. One(IsOpen(d)) = 0
  BY <1>1, <1>2, <1>3, AccountNumbers DEF Holds
<1> QED BY <1>1, <1>4 DEF One, IsOpen, Typed

LEMMA ReleaseKeeps ==
  ASSUME Nobody \notin Buffers, MInv, NEW t \in Handles!Procs, Handles!Release(t)
  PROVE  MInv'
<1> DEFINE d == buf[t]
           last == refs[d] = 1
           to == IF last THEN "free" ELSE "idle"
           x == IF last THEN d ELSE Nobody
<1>1. /\ pc[t] = "release" /\ refs' = [refs EXCEPT ![d] = @ - 1]
      /\ Handles!Go(t, to, x)
      /\ UNCHANGED <<policy, closed, place, owner, counted, pending, units, dropped,
                     poolMu, poolClosed, blockFreed>>
  BY DEF Handles!Release, Handles!pool, Handles!writes
<1>2. Typed /\ Standing /\ \A c \in Buffers : Account(c)
  BY Accounts DEF MInv
<1>3. /\ d \in Buffers /\ Handles!Allocated(d) /\ refs[d] >= 1 /\ refs[d] \in Nat
      /\ \A s \in Handles!Procs : ~Freeing(s, d)
  BY <1>1, HolderIsAllocated
<1>4. last => closed[d]
  BY <1>1, LastHold
<1>5. /\ refs' \in [Buffers -> Nat] /\ refs'[d] = refs[d] - 1
      /\ \A c \in Buffers : c # d => refs'[c] = refs[c]
  BY <1>1, <1>2, <1>3 DEF Typed
<1>6. /\ to \in Labels /\ to \in {"free", "idle"} /\ x \in Buffers \union {Nobody}
      /\ (x \in Buffers => x = d) /\ (to = "free" <=> last) /\ (last => x = d)
  BY <1>3 DEF Labels
<1> HIDE DEF to, x
<1>7. Typed'
  BY <1>1, <1>2, <1>5, <1>6, GoMoves DEF Typed
<1>8. \A s \in Handles!Procs, c \in Buffers : Freeing(s, c)' <=> (Freeing(s, c) \/ (s = t /\ c = d /\ last))
  <2> SUFFICES ASSUME NEW s \in Handles!Procs, NEW c \in Buffers
               PROVE  Freeing(s, c)' <=> (Freeing(s, c) \/ (s = t /\ c = d /\ last))
    OBVIOUS
  <2>1. CASE s = t
    <3>1. pc'[s] = to /\ buf'[s] = x /\ ~Freeing(s, c)
      BY <1>1, <1>2, <1>6, <2>1, GoMoves DEF Freeing
    <3> QED BY <1>6, <2>1, <3>1 DEF Freeing
  <2>2. CASE s # t
    BY <1>1, <1>2, <1>6, <2>2, GoMoves DEF Freeing
  <2> QED BY <2>1, <2>2
<1>9. \A c \in Buffers : Placed(c)' <=> Placed(c)
  BY <1>1 DEF Placed, Handles!Allocated
<1>10. HeldIsPlaced'
  BY <1>1, <1>2, <1>3, <1>5, <1>9 DEF Standing, HeldIsPlaced, IsOpen, Handles!Allocated
<1>11. FreeingAlone'
  <2> SUFFICES ASSUME NEW s \in Handles!Procs, NEW c \in Buffers, Freeing(s, c)'
               PROVE  /\ refs'[c] = 0 /\ closed'[c] /\ Handles!Allocated(c)'
                      /\ \A r \in Handles!Procs : Freeing(r, c)' => r = s
                      /\ policy' = "general" => /\ pc'[s] = "free" => Placed(c)'
                                                /\ pc'[s] = "forget" => owner'[place'[c]] # c
    BY DEF FreeingAlone
  <2>1. CASE Freeing(s, c)
    <3>1. /\ refs[c] = 0 /\ closed[c] /\ Handles!Allocated(c)
          /\ \A r \in Handles!Procs : Freeing(r, c) => r = s
          /\ policy = "general" => /\ pc[s] = "free" => Placed(c)
                                   /\ pc[s] = "forget" => owner[place[c]] # c
      BY <1>2, <2>1 DEF Standing, FreeingAlone
    <3>2. c # d /\ s # t
      BY <1>1, <1>3, <2>1 DEF Freeing
    <3>3. pc'[s] = pc[s]
      BY <1>1, <1>2, <1>6, <3>2, GoMoves
    <3> QED BY <1>1, <1>5, <1>8, <1>9, <3>1, <3>2, <3>3 DEF Handles!Allocated
  <2>2. CASE ~Freeing(s, c)
    <3>1. s = t /\ c = d /\ last
      BY <1>8, <2>2
    <3>2. pc'[s] = "free" /\ refs'[c] = 0
      BY <1>1, <1>2, <1>3, <1>5, <1>6, <3>1, GoMoves
    <3>3. \A r \in Handles!Procs : Freeing(r, c)' => r = s
      BY <1>3, <1>8, <3>1
    <3>4. policy = "general" => Placed(c)
      BY <1>2, <1>3, <3>1 DEF Standing, HeldIsPlaced
    <3> QED BY <1>1, <1>3, <1>4, <1>9, <3>1, <3>2, <3>3, <3>4 DEF Handles!Allocated
  <2> QED BY <2>1, <2>2
<1>12. UnheldIsGone'
  <2> SUFFICES ASSUME NEW c \in Buffers, refs'[c] = 0, \A s \in Handles!Procs : ~Freeing(s, c)'
               PROVE  c \notin counted' /\ (policy' = "general" /\ Handles!Allocated(c)' => owner'[place'[c]] # c)
    BY DEF UnheldIsGone
  <2>1. c # d
    BY <1>3, <1>5, <1>8
  <2>2. refs[c] = 0 /\ \A s \in Handles!Procs : ~Freeing(s, c)
    BY <1>5, <1>8, <2>1
  <2> QED BY <1>1, <1>2, <2>2 DEF Standing, UnheldIsGone, Handles!Allocated
<1>13. Ground'
  BY <1>1, <1>2, <1>3, <1>5 DEF Standing, Ground, Handles!Allocated
<1>14. \A s \in Handles!Procs : AtWork(s)'
  <2>1. to \in {"retain", "append", "release", "free", "forget"} => x \in Buffers
    BY <1>3, <1>6
  <2>2. x \in Buffers => Handles!Allocated(x)
    BY <1>3, <1>6
  <2>3. to \notin {"alloc", "reset", "freeblock"}
    BY <1>6
  <2> QED BY <1>1, <1>2, <1>6, <2>1, <2>2, <2>3, WorkStays
<1>15. ASSUME NEW c \in Buffers PROVE Account(c)'
  <2>1. /\ IsFiniteSet(InUnits(units', c)) /\ IsFiniteSet(InPending(pending', c))
        /\ Cardinality(InUnits(units', c)) = Cardinality(InUnits(units, c))
        /\ Cardinality(InPending(pending', c)) = Cardinality(InPending(pending, c))
        /\ Cardinality(InUnits(units, c)) \in Nat /\ Cardinality(InPending(pending, c)) \in Nat
        /\ refs[c] \in Nat /\ refs'[c] \in Nat
    BY <1>1, <1>2, <1>5, AccountNumbers DEF Account
  <2>2. /\ Share(pc[t], buf[t], c) = (IF c = d THEN 1 ELSE 0) /\ Share(to, x, c) = 0
        /\ refs[c] = refs'[c] + IF c = d THEN 1 ELSE 0
    BY <1>1, <1>3, <1>5, <1>6, <2>1 DEF Share
  <2>3. One(IsOpen(c)) = One(IsOpen(c)') /\ One(IsOpen(c)') \in {0, 1}
    BY <1>1 DEF IsOpen, Handles!Allocated, One
  <2>4. refs'[c] + Share(pc[t], buf[t], c) + Cardinality(InPending(pending, c))
             + Cardinality(InUnits(units, c)) + One(IsOpen(c))
           = refs[c] + Share(to, x, c) + Cardinality(InPending(pending', c))
             + Cardinality(InUnits(units', c)) + One(IsOpen(c)')
    BY <2>1, <2>2, <2>3
  <2>5. ~GivenUp(c)' /\ (policy' = "general" \/ ~closed'[c] \/ c \in counted') =>
           ~GivenUp(c) /\ (policy = "general" \/ ~closed[c] \/ c \in counted)
    BY <1>1 DEF GivenUp
  <2> QED BY <1>1, <1>2, <1>6, <2>1, <2>4, <2>5, GoBalances
<1> QED BY <1>7, <1>10, <1>11, <1>12, <1>13, <1>14, <1>15, AccountsAfter DEF MInv, Standing

\* Of a goroutine that frees its buffer.
LEMMA FreerIsAlone ==
  ASSUME MInv, NEW t \in Handles!Procs, pc[t] \in FreeLabels
  PROVE  /\ buf[t] \in Buffers /\ Freeing(t, buf[t]) /\ refs[buf[t]] = 0 /\ closed[buf[t]]
         /\ Handles!Allocated(buf[t]) /\ place[buf[t]] \in 1 .. NumPlaces
         /\ \A s \in Handles!Procs : Freeing(s, buf[t]) => s = t
         /\ policy = "general" => /\ pc[t] = "free" => Placed(buf[t])
                                  /\ pc[t] = "forget" => owner[place[buf[t]]] # buf[t]
<1>1. buf[t] \in Buffers /\ Freeing(t, buf[t])
  BY DEF MInv, Standing, AtWork, Freeing, FreeLabels
<1>2. place[buf[t]] \in 0 .. NumPlaces
  BY <1>1 DEF MInv, Typed
<1>3. /\ refs[buf[t]] = 0 /\ closed[buf[t]] /\ Handles!Allocated(buf[t])
      /\ \A s \in Handles!Procs : Freeing(s, buf[t]) => s = t
      /\ policy = "general" => /\ pc[t] = "free" => Placed(buf[t])
                               /\ pc[t] = "forget" => owner[place[buf[t]]] # buf[t]
  BY <1>1 DEF MInv, Standing, FreeingAlone
<1> QED BY <1>1, <1>2, <1>3 DEF Handles!Allocated, Handles!NoPlace

LEMMA FreeMemoryKeeps ==
  ASSUME Nobody \notin Buffers, NumPlaces \in Nat, MInv, NEW t \in Handles!Procs, Handles!FreeMemory(t)
  PROVE  MInv'
<1> DEFINE d == buf[t]
<1>1. /\ pc[t] = "free" /\ Handles!Go(t, "forget", d)
      /\ owner' = IF policy = "general" THEN [owner EXCEPT ![place[d]] = Nobody] ELSE owner
      /\ UNCHANGED <<policy, refs, closed, place, counted, pending, units, dropped,
                     poolMu, poolClosed, blockFreed>>
  BY DEF Handles!FreeMemory, Handles!writes
<1>2. Typed /\ Standing /\ \A c \in Buffers : Account(c)
  BY Accounts DEF MInv
<1>3. /\ d \in Buffers /\ Freeing(t, d) /\ refs[d] = 0 /\ closed[d]
      /\ Handles!Allocated(d) /\ place[d] \in 1 .. NumPlaces
      /\ \A s \in Handles!Procs : Freeing(s, d) => s = t
      /\ policy = "general" => Placed(d)
  BY <1>1, FreerIsAlone DEF FreeLabels
<1>4. "forget" \in Labels
  BY DEF Labels
<1>5. \A p \in 1 .. NumPlaces : owner'[p] = owner[p] \/ (policy = "general" /\ p = place[d] /\ owner'[p] = Nobody)
  BY <1>1, <1>2 DEF Typed
<1>6. policy = "general" => owner'[place[d]] = Nobody
  BY <1>1, <1>2, <1>3 DEF Typed
<1> HIDE DEF d
<1>7. Typed'
  <2>1. owner' \in [1 .. NumPlaces -> Buffers \union {Nobody}]
    BY <1>1, <1>2 DEF Typed
  <2> QED BY <1>1, <1>2, <1>3, <1>4, <2>1, GoMoves DEF Typed
<1>8. \A s \in Handles!Procs, c \in Buffers : Freeing(s, c)' <=> Freeing(s, c)
  <2> SUFFICES ASSUME NEW s \in Handles!Procs, NEW c \in Buffers PROVE Freeing(s, c)' <=> Freeing(s, c)
    OBVIOUS
  <2>1. CASE s = t
    BY <1>1, <1>2, <1>3, <1>4, <2>1, GoMoves DEF Freeing, d
  <2>2. CASE s # t
    BY <1>1, <1>2, <1>3, <1>4, <2>2, GoMoves DEF Freeing
  <2> QED BY <2>1, <2>2
<1>9. ASSUME NEW c \in Buffers, c # d, Placed(c) PROVE Placed(c)'
  <2>1. place[c] \in 1 .. NumPlaces /\ owner[place[c]] = c
    BY <1>2, <1>9 DEF Typed, Placed, Handles!Allocated, Handles!NoPlace
  <2>2. owner'[place[c]] = c
    BY <1>3, <1>5, <1>9, <2>1 DEF Placed
  <2> QED BY <1>1, <1>9, <2>2 DEF Placed, Handles!Allocated
<1>10. ASSUME NEW c \in Buffers, Handles!Allocated(c), owner[place[c]] # c PROVE owner'[place[c]] # c
  <2>1. place[c] \in 1 .. NumPlaces
    BY <1>2, <1>10 DEF Typed, Handles!Allocated, Handles!NoPlace
  <2> QED BY <1>5, <1>10, <2>1
<1>11. HeldIsPlaced'
  <2>1. ASSUME NEW c \in Buffers, IsOpen(c)' \/ (policy' = "general" /\ refs'[c] > 0) PROVE Placed(c)'
    <3>1. IsOpen(c) \/ (policy = "general" /\ refs[c] > 0)
      BY <1>1, <2>1 DEF IsOpen, Handles!Allocated
    <3>2. c # d
      BY <1>3, <3>1 DEF IsOpen
    <3> QED BY <1>2, <1>9, <3>1, <3>2 DEF Standing, HeldIsPlaced
  <2> QED BY <2>1 DEF HeldIsPlaced
<1>12. FreeingAlone'
  <2> SUFFICES ASSUME NEW s \in Handles!Procs, NEW c \in Buffers, Freeing(s, c)'
               PROVE  /\ refs'[c] = 0 /\ closed'[c] /\ Handles!Allocated(c)'
                      /\ \A r \in Handles!Procs : Freeing(r, c)' => r = s
                      /\ policy' = "general" => /\ pc'[s] = "free" => Placed(c)'
                                                /\ pc'[s] = "forget" => owner'[place'[c]] # c
    BY DEF FreeingAlone
  <2>1. Freeing(s, c)
    BY <1>8
  <2>2. /\ refs[c] = 0 /\ closed[c] /\ Handles!Allocated(c)
        /\ \A r \in Handles!Procs : Freeing(r, c) => r = s
        /\ policy = "general" => /\ pc[s] = "free" => Placed(c)
                                 /\ pc[s] = "forget" => owner[place[c]] # c
    BY <1>2, <2>1 DEF Standing, FreeingAlone
  <2>3. CASE s = t
    <3>1. c = d /\ pc'[s] = "forget"
      BY <1>1, <1>2, <1>3, <1>4, <2>1, <2>3, GoMoves DEF Freeing, d
    <3> QED BY <1>1, <1>3, <1>6, <1>8, <2>2, <3>1 DEF Handles!Allocated
  <2>4. CASE s # t
    <3>1. pc'[s] = pc[s]
      BY <1>1, <1>2, <1>3, <1>4, <2>4, GoMoves
    <3>2. c # d
      BY <1>3, <2>1, <2>4
    <3>3. policy = "general" => /\ pc'[s] = "free" => Placed(c)'
                                /\ pc'[s] = "forget" => owner'[place[c]] # c
      BY <1>9, <1>10, <2>2, <3>1, <3>2
    <3> QED BY <1>1, <1>8, <2>2, <3>3 DEF Handles!Allocated
  <2> QED BY <2>3, <2>4
<1>13. UnheldIsGone'
  BY <1>1, <1>2, <1>8, <1>10 DEF Standing, UnheldIsGone, Handles!Allocated
<1>14. Ground'
  BY <1>1, <1>2 DEF Standing, Ground, Handles!Allocated
<1>15. \A s \in Handles!Procs : AtWork(s)'
  BY <1>1, <1>2, <1>3, <1>4, WorkStays
<1>16. ASSUME NEW c \in Buffers PROVE Account(c)'
  BY <1>1, <1>2, <1>3, <1>4, GoIdly DEF Share
<1> QED BY <1>7, <1>11, <1>12, <1>13, <1>14, <1>15, <1>16, AccountsAfter DEF MInv, Standing

LEMMA ForgetKeeps ==
  ASSUME Nobody \notin Buffers, MInv, NEW t \in Handles!Procs, Handles!Forget(t)
  PROVE  MInv'
<1> DEFINE d == buf[t]
<1>1. /\ pc[t] = "forget" /\ Handles!Go(t, "idle", Nobody) /\ counted' = counted \ {d}
      /\ UNCHANGED <<policy, refs, closed, place, owner, pending, units, dropped,
                     poolMu, poolClosed, blockFreed>>
  BY DEF Handles!Forget, Handles!writes
<1>2. Typed /\ Standing /\ \A c \in Buffers : Account(c)
  BY Accounts DEF MInv
<1>3. /\ d \in Buffers /\ Freeing(t, d) /\ refs[d] = 0 /\ closed[d]
      /\ Handles!Allocated(d) /\ \A s \in Handles!Procs : Freeing(s, d) => s = t
      /\ policy = "general" => owner[place[d]] # d
  BY <1>1, FreerIsAlone DEF FreeLabels
<1>4. "idle" \in Labels
  BY DEF Labels
<1> HIDE DEF d
<1>5. Typed'
  BY <1>1, <1>2, <1>4, GoMoves DEF Typed
<1>6. \A s \in Handles!Procs, c \in Buffers : Freeing(s, c)' <=> (Freeing(s, c) /\ c # d)
  <2> SUFFICES ASSUME NEW s \in Handles!Procs, NEW c \in Buffers
               PROVE Freeing(s, c)' <=> (Freeing(s, c) /\ c # d)
    OBVIOUS
  <2>1. CASE s = t
    BY <1>1, <1>2, <1>4, <2>1, GoMoves DEF Freeing, d
  <2>2. CASE s # t
    BY <1>1, <1>2, <1>3, <1>4, <2>2, GoMoves DEF Freeing
  <2> QED BY <2>1, <2>2
<1>7. \A c \in Buffers : c # d => (Placed(c)' <=> Placed(c))
  BY <1>1 DEF Placed, Handles!Allocated
<1>8. HeldIsPlaced'
  <2>1. ASSUME NEW c \in Buffers, IsOpen(c)' \/ (policy' = "general" /\ refs'[c] > 0) PROVE Placed(c)'
    <3>1. IsOpen(c) \/ (policy = "general" /\ refs[c] > 0)
      BY <1>1, <2>1 DEF IsOpen, Handles!Allocated
    <3>2. c # d
      BY <1>3, <3>1 DEF IsOpen
    <3> QED BY <1>2, <1>7, <3>1, <3>2 DEF Standing, HeldIsPlaced
  <2> QED BY <2>1 DEF HeldIsPlaced
<1>9. FreeingAlone'
  <2> SUFFICES ASSUME NEW s \in Handles!Procs, NEW c \in Buffers, Freeing(s, c)'
               PROVE  /\ refs'[c] = 0 /\ closed'[c] /\ Handles!Allocated(c)'
                      /\ \A r \in Handles!Procs : Freeing(r, c)' => r = s
                      /\ policy' = "general" => /\ pc'[s] = "free" => Placed(c)'
                                                /\ pc'[s] = "forget" => owner'[place'[c]] # c
    BY DEF FreeingAlone
  <2>1. Freeing(s, c) /\ c # d
    BY <1>6
  <2>2. /\ refs[c] = 0 /\ closed[c] /\ Handles!Allocated(c)
        /\ \A r \in Handles!Procs : Freeing(r, c) => r = s
        /\ policy = "general" => /\ pc[s] = "free" => Placed(c)
                                 /\ pc[s] = "forget" => owner[place[c]] # c
    BY <1>2, <2>1 DEF Standing, FreeingAlone
  <2>3. s # t
    BY <2>1 DEF Freeing, d
  <2>4. pc'[s] = pc[s]
    BY <1>1, <1>2, <1>4, <2>3, GoMoves
  <2> QED BY <1>1, <1>6, <1>7, <2>1, <2>2, <2>4 DEF Handles!Allocated
<1>10. UnheldIsGone'
  <2> SUFFICES ASSUME NEW c \in Buffers, refs'[c] = 0, \A s \in Handles!Procs : ~Freeing(s, c)'
               PROVE  c \notin counted' /\ (policy' = "general" /\ Handles!Allocated(c)' => owner'[place'[c]] # c)
    BY DEF UnheldIsGone
  <2>1. CASE c = d
    BY <1>1, <1>3, <2>1
  <2>2. CASE c # d
    BY <1>1, <1>2, <1>6, <2>2 DEF Standing, UnheldIsGone, Handles!Allocated
  <2> QED BY <2>1, <2>2
<1>11. Ground'
  BY <1>1, <1>2 DEF Standing, Ground, Handles!Allocated
<1>12. \A s \in Handles!Procs : AtWork(s)'
  BY <1>1, <1>2, <1>4, WorkStays
<1>13. ASSUME NEW c \in Buffers PROVE Account(c)'
  BY <1>1, <1>2, <1>3, <1>4, GoIdly DEF Share
<1> QED BY <1>5, <1>8, <1>9, <1>10, <1>11, <1>12, <1>13, AccountsAfter DEF MInv, Standing

LEMMA AllocKeeps ==
  ASSUME Nobody \notin Buffers, NumPlaces \in Nat, MInv, NEW t \in Callers, Handles!Alloc(t)
  PROVE  MInv'
<1>2. /\ Typed /\ Standing /\ \A b \in Buffers : Account(b)
      /\ (blockFreed => poolClosed)
  BY Accounts DEF MInv, Standing, Ground
<1>0. PICK d \in Buffers : d = buf[t]
  BY <1>2 DEF Handles!Alloc, Handles!Procs, Standing, AtWork
<1>1. /\ t \in Handles!Procs /\ pc[t] = "alloc" /\ Handles!Go(t, "idle", Nobody)
      /\ UNCHANGED <<policy, closed, pending, units, dropped, poolMu, poolClosed, blockFreed>>
      /\ \/ UNCHANGED <<refs, place, owner, counted>>
         \/ ~poolClosed /\ \E p \in 1 .. NumPlaces :
              /\ owner[p] = Nobody
              /\ place' = [place EXCEPT ![d] = p] /\ owner' = [owner EXCEPT ![p] = d]
              /\ refs' = [refs EXCEPT ![d] = 1] /\ counted' = counted \union {d}
  BY <1>0 DEF Handles!Alloc, Handles!Place, Handles!pool, Handles!writes, Handles!Procs, Handles!Fitting, Handles!Free, Handles!Places
<1>3. CASE UNCHANGED <<refs, place, owner, counted>>
  BY <1>1, <1>2, <1>3, GivingUpKeeps
<1>4. ASSUME ~poolClosed, NEW p \in 1 .. NumPlaces, owner[p] = Nobody,
             place' = [place EXCEPT ![d] = p], owner' = [owner EXCEPT ![p] = d],
             refs' = [refs EXCEPT ![d] = 1], counted' = counted \union {d}
      PROVE  MInv'
  <2>1. /\ d \in Buffers /\ ~Handles!Allocated(d) /\ refs[d] = 0 /\ ~closed[d] /\ p # 0
        /\ \A s \in Handles!Procs : buf[s] = d => s = t
    BY <1>0, <1>1, <1>2 DEF Standing, AtWork, Ground
  <2>2. "idle" \in Labels
    BY DEF Labels
  <2>3. /\ place' \in [Buffers -> 0 .. NumPlaces] /\ owner' \in [1 .. NumPlaces -> Buffers \union {Nobody}]
        /\ refs' \in [Buffers -> Nat] /\ counted' \subseteq Buffers
        /\ place'[d] = p /\ owner'[p] = d /\ refs'[d] = 1
        /\ \A c \in Buffers : c # d => place'[c] = place[c] /\ refs'[c] = refs[c]
        /\ \A q \in 1 .. NumPlaces : q # p => owner'[q] = owner[q]
        /\ \A c \in Buffers : c # d => (c \in counted' <=> c \in counted)
    BY <1>2, <1>4, <2>1 DEF Typed
  <2>4. Typed'
    BY <1>1, <1>2, <2>2, <2>3, GoMoves DEF Typed
  <2>5. \A s \in Handles!Procs, c \in Buffers : Freeing(s, c)' <=> Freeing(s, c)
    BY <1>1, <1>2, <2>2, GoMoves DEF Freeing
  <2>6. Handles!Allocated(d)' /\ Placed(d)' /\ IsOpen(d)'
    BY <1>1, <1>4, <2>1, <2>3 DEF Handles!Allocated, Handles!NoPlace, Placed, IsOpen
  <2>7. ASSUME NEW c \in Buffers, c # d
        PROVE  /\ Handles!Allocated(c)' <=> Handles!Allocated(c)
               /\ Placed(c) => Placed(c)'
               /\ Handles!Allocated(c) /\ owner[place[c]] # c => owner'[place'[c]] # c
    <3>1. Handles!Allocated(c)' <=> Handles!Allocated(c)
      BY <2>3, <2>7 DEF Handles!Allocated, Handles!NoPlace
    <3>2. Handles!Allocated(c) => place[c] \in 1 .. NumPlaces /\ place'[c] = place[c]
      BY <1>2, <2>3, <2>7 DEF Typed, Handles!Allocated, Handles!NoPlace
    <3>3. Handles!Allocated(c) => (owner'[place[c]] = c <=> owner[place[c]] = c)
      BY <1>4, <2>1, <2>3, <2>7, <3>2
    <3> QED BY <2>3, <2>7, <3>1, <3>2, <3>3 DEF Placed
  <2>8. HeldIsPlaced'
    <3>1. ASSUME NEW c \in Buffers, IsOpen(c)' \/ (policy' = "general" /\ refs'[c] > 0), c # d
          PROVE Placed(c)'
      <4>1. IsOpen(c) \/ (policy = "general" /\ refs[c] > 0)
        BY <1>1, <2>3, <2>7, <3>1 DEF IsOpen
      <4> QED BY <1>2, <2>7, <3>1, <4>1 DEF Standing, HeldIsPlaced
    <3> QED BY <2>6, <3>1 DEF HeldIsPlaced
  <2>9. FreeingAlone'
    <3> SUFFICES ASSUME NEW s \in Handles!Procs, NEW c \in Buffers, Freeing(s, c)'
                 PROVE  /\ refs'[c] = 0 /\ closed'[c] /\ Handles!Allocated(c)'
                        /\ \A r \in Handles!Procs : Freeing(r, c)' => r = s
                        /\ policy' = "general" => /\ pc'[s] = "free" => Placed(c)'
                                                  /\ pc'[s] = "forget" => owner'[place'[c]] # c
      BY DEF FreeingAlone
    <3>1. Freeing(s, c)
      BY <2>5
    <3>2. /\ refs[c] = 0 /\ closed[c] /\ Handles!Allocated(c)
          /\ \A r \in Handles!Procs : Freeing(r, c) => r = s
          /\ policy = "general" => /\ pc[s] = "free" => Placed(c)
                                   /\ pc[s] = "forget" => owner[place[c]] # c
      BY <1>2, <3>1 DEF Standing, FreeingAlone
    <3>3. c # d /\ s # t
      BY <1>0, <1>1, <2>1, <3>1, <3>2 DEF Freeing
    <3>4. pc'[s] = pc[s]
      BY <1>1, <1>2, <2>2, <3>3, GoMoves
    <3>5. refs'[c] = refs[c] /\ closed'[c] = closed[c]
      BY <1>1, <2>3, <3>3
    <3> QED BY <1>1, <2>5, <2>7, <3>2, <3>3, <3>4, <3>5
  <2>10. UnheldIsGone'
    <3> SUFFICES ASSUME NEW c \in Buffers, refs'[c] = 0, \A s \in Handles!Procs : ~Freeing(s, c)'
                 PROVE  c \notin counted' /\ (policy' = "general" /\ Handles!Allocated(c)' => owner'[place'[c]] # c)
      BY DEF UnheldIsGone
    <3>1. c # d /\ refs[c] = 0
      BY <2>3
    <3>2. c \notin counted /\ (policy = "general" /\ Handles!Allocated(c) => owner[place[c]] # c)
      BY <1>2, <2>5, <3>1 DEF Standing, UnheldIsGone
    <3> QED BY <1>1, <2>3, <2>7, <3>1, <3>2
  <2>11. Ground'
    <3>1. /\ \A c \in Buffers : c # d => (~Handles!Allocated(c)' => refs'[c] = 0 /\ ~closed'[c])
          /\ \A c \in counted' : c # d => Handles!Allocated(c)'
      BY <1>1, <1>2, <2>3, <2>7 DEF Standing, Ground
    <3> QED BY <1>1, <1>2, <1>4, <2>6, <3>1 DEF Ground
  <2>12. \A s \in Handles!Procs : AtWork(s)'
    <3>1. \A s \in Handles!Procs : s # t /\ pc[s] = "alloc" => buf[s] \in Buffers /\ place'[buf[s]] = place[buf[s]]
      BY <1>2, <2>1, <2>3 DEF Standing, AtWork
    <3> QED BY <1>1, <1>2, <2>2, <3>1, WorkStays
  <2>13. ASSUME NEW c \in Buffers PROVE Account(c)'
    <3>1. CASE c # d
      <4>1. place'[c] = place[c] /\ refs'[c] = refs[c] /\ closed'[c] = closed[c] /\ (c \in counted' => c \in counted)
        BY <1>1, <2>3, <3>1
      <4>2. Share(pc[t], buf[t], c) = Share("idle", Nobody, c)
        BY <1>1 DEF Share
      <4> QED BY <1>1, <1>2, <2>2, <4>1, <4>2, GoIdly
    <3>2. CASE c = d
      <4>1. /\ IsFiniteSet(InUnits(units', c)) /\ IsFiniteSet(InPending(pending', c))
            /\ Cardinality(InUnits(units', c)) = Cardinality(InUnits(units, c))
            /\ Cardinality(InPending(pending', c)) = Cardinality(InPending(pending, c))
            /\ Cardinality(InUnits(units, c)) \in Nat /\ Cardinality(InPending(pending, c)) \in Nat
        BY <1>1, <1>2, AccountNumbers DEF Account
      <4>2. Share(pc[t], buf[t], c) = 0 /\ Share("idle", Nobody, c) = 0
        BY <1>1 DEF Share
      <4>3. One(IsOpen(c)) = 0 /\ One(IsOpen(c)') = 1
        BY <2>1, <2>6, <3>2 DEF IsOpen, One
      <4>4. refs'[c] = 1 /\ refs[c] = 0
        BY <2>1, <2>3, <3>2
      <4>5. refs'[c] + Share(pc[t], buf[t], c) + Cardinality(InPending(pending, c))
                 + Cardinality(InUnits(units, c)) + One(IsOpen(c))
               = refs[c] + Share("idle", Nobody, c) + Cardinality(InPending(pending', c))
                 + Cardinality(InUnits(units', c)) + One(IsOpen(c)')
        BY <4>1, <4>2, <4>3, <4>4
      <4>6. ~GivenUp(c)' /\ (policy' = "general" \/ ~closed'[c] \/ c \in counted') =>
               ~GivenUp(c) /\ (policy = "general" \/ ~closed[c] \/ c \in counted)
        BY <1>1, <2>1, <3>2 DEF GivenUp
      <4> QED BY <1>1, <1>2, <2>2, <4>1, <4>4, <4>5, <4>6, GoBalances
    <3> QED BY <3>1, <3>2
  <2> QED BY <2>4, <2>8, <2>9, <2>10, <2>11, <2>12, <2>13, AccountsAfter DEF MInv, Standing
<1> QED BY <1>1, <1>3, <1>4

LEMMA FinishResetKeeps ==
  ASSUME Nobody \notin Buffers, MInv, NEW t \in Callers, Handles!FinishReset(t)
  PROVE  MInv'
<1>1. /\ t \in Handles!Procs /\ pc[t] = "reset" /\ Handles!Go(t, "idle", Nobody)
      /\ closed' = [b \in Buffers |-> closed[b] \/ b \in counted]
      /\ owner' = [p \in 1 .. NumPlaces |-> Nobody] /\ counted' = {} /\ poolMu' = Nobody
      /\ UNCHANGED <<policy, refs, place, pending, units, dropped, poolClosed, blockFreed>>
  BY DEF Handles!FinishReset, Handles!writes, Handles!Procs, Handles!Places
<1>2. Typed /\ Standing /\ \A b \in Buffers : Account(b)
  BY Accounts DEF MInv
<1>3. policy = "linear" /\ "idle" \in Labels
  BY <1>1, <1>2 DEF Standing, AtWork, Labels
<1>4. \A b \in Buffers : closed'[b] <=> closed[b] \/ b \in counted
  BY <1>1
<1>5. Typed'
  <2>1. closed' \in [Buffers -> BOOLEAN]
    <3>1. \A b \in Buffers : (closed[b] \/ b \in counted) \in BOOLEAN
      BY Zenon
    <3> QED BY <1>1, <3>1
  <2>2. owner' \in [1 .. NumPlaces -> Buffers \union {Nobody}]
    BY <1>1
  <2> QED BY <1>1, <1>2, <1>3, <2>1, <2>2, GoMoves DEF Typed
<1>6. \A s \in Handles!Procs, c \in Buffers : Freeing(s, c)' <=> Freeing(s, c)
  BY <1>1, <1>2, <1>3, GoMoves DEF Freeing
<1>7. \A c \in Buffers : ~IsOpen(c)'
  BY <1>1, <1>2, <1>4 DEF Standing, HeldIsPlaced, IsOpen, Placed, Handles!Allocated
<1>8. HeldIsPlaced'
  BY <1>1, <1>3, <1>7 DEF HeldIsPlaced
<1>9. FreeingAlone'
  <2> SUFFICES ASSUME NEW s \in Handles!Procs, NEW c \in Buffers, Freeing(s, c)'
               PROVE  /\ refs'[c] = 0 /\ closed'[c] /\ Handles!Allocated(c)'
                      /\ \A r \in Handles!Procs : Freeing(r, c)' => r = s
    BY <1>1, <1>3 DEF FreeingAlone
  <2>1. /\ refs[c] = 0 /\ closed[c] /\ Handles!Allocated(c)
        /\ \A r \in Handles!Procs : Freeing(r, c) => r = s
    BY <1>2, <1>6 DEF Standing, FreeingAlone
  <2> QED BY <1>1, <1>4, <1>6, <2>1 DEF Handles!Allocated
<1>10. UnheldIsGone'
  BY <1>1, <1>3 DEF UnheldIsGone
<1>11. Ground'
  BY <1>1, <1>2, <1>4 DEF Standing, Ground, Handles!Allocated
<1>12. \A s \in Handles!Procs : AtWork(s)'
  BY <1>1, <1>2, <1>3, WorkStays
<1>13. ASSUME NEW c \in Buffers PROVE Account(c)'
  <2>1. Share(pc[t], buf[t], c) = 0 /\ Share("idle", Nobody, c) = 0
    BY <1>1 DEF Share
  <2>2. CASE c \notin counted
    <3>1. closed'[c] = closed[c]
      <4>1. closed'[c] \in BOOLEAN /\ closed[c] \in BOOLEAN
        BY <1>2, <1>5 DEF Typed
      <4> QED BY <1>4, <2>2, <4>1
    <3> QED BY <1>1, <1>2, <1>3, <2>1, <3>1, GoIdly
  <2>3. CASE c \in counted
    <3>1. /\ IsFiniteSet(Holding(pc', buf', c)) /\ Cardinality(Holding(pc', buf', c)) \in Nat
          /\ Cardinality(Holding(pc', buf', c)) = Cardinality(Holding(pc, buf, c))
          /\ Cardinality(Holding(pc, buf, c)) \in Nat
      <4>1. Cardinality(Holding(pc', buf', c)) + Share(pc[t], buf[t], c)
              = Cardinality(Holding(pc, buf, c)) + Share("idle", Nobody, c)
            /\ IsFiniteSet(Holding(pc', buf', c)) /\ Cardinality(Holding(pc', buf', c)) \in Nat
        BY <1>1, <1>2, <1>3, GoAccounts
      <4> QED BY <1>2, <2>1, <4>1, AccountNumbers
    <3>2. One(IsOpen(c))' = 0 /\ One(IsOpen(c)) \in {0, 1}
      BY <1>7 DEF One
    <3>3. /\ Cardinality(InUnits(units, c)) \in Nat /\ Cardinality(InPending(pending, c)) \in Nat
          /\ refs[c] \in Nat /\ refs[c] >= Cardinality(Holding(pc, buf, c)) + Cardinality(InPending(pending, c))
              + Cardinality(InUnits(units, c)) + One(IsOpen(c))
      BY <1>2, AccountNumbers DEF Account, Holds
    <3>4. /\ IsFiniteSet(InPending(pending', c)) /\ IsFiniteSet(InUnits(units', c))
          /\ Cardinality(InPending(pending', c)) = Cardinality(InPending(pending, c))
          /\ Cardinality(InUnits(units', c)) = Cardinality(InUnits(units, c))
      BY <1>1, <1>2 DEF Account
    <3>5. refs'[c] >= Holds(c)' + One(IsOpen(c))'
      BY <1>1, <3>1, <3>2, <3>3, <3>4 DEF Holds
    <3> QED BY <1>1, <1>3, <1>4, <2>3, <3>1, <3>4, <3>5 DEF Account
  <2> QED BY <2>2, <2>3
<1> QED BY <1>5, <1>8, <1>9, <1>10, <1>11, <1>12, <1>13, AccountsAfter DEF MInv, Standing

-----------------------------------------------------------------------------
\* The queue's own steps.
LEMMA LandKeeps ==
  ASSUME Nobody \notin Buffers, MInv, Handles!Land
  PROVE  MInv'
<1>1. Stream \in Handles!Procs /\ "release" \in Labels
      /\ "release" \notin FreeLabels \union PoolLabels \union {"alloc", "retain", "append"}
  BY DEF Handles!Procs, Labels, FreeLabels, PoolLabels
<1>2. PICK x : x = Head(Head(units).batch)
  OBVIOUS
<1>3. /\ pc[Stream] = "idle" /\ units # <<>> /\ Handles!Go(Stream, "release", x)
      /\ units' = After(units)
      /\ UNCHANGED <<policy, refs, closed, place, owner, counted, pending, dropped,
                     poolMu, poolClosed, blockFreed>>
  BY <1>2 DEF Handles!Land, Handles!pool, After
<1>4. /\ Typed /\ Standing /\ \A b \in Buffers : Account(b)
      /\ units \in Seq(HandedOn) /\ \A i \in DOMAIN units : units[i].batch # <<>>
      /\ poolMu \in Callers \union {Nobody} /\ (poolClosed => counted = {}) /\ (blockFreed => poolClosed)
  BY Accounts DEF MInv, Typed, Standing, Ground
<1>5. /\ x \in Buffers /\ After(units) \in Seq(HandedOn)
      /\ \A i \in DOMAIN After(units) : After(units)[i].batch # <<>>
  BY <1>2, <1>3, <1>4, AfterIsTyped
<1>6. Typed'
  BY <1>1, <1>3, <1>4, <1>5, GoMoves DEF Typed
<1>7. ASSUME NEW b \in Buffers
      PROVE  /\ IsFiniteSet(InUnits(units', b)) /\ Cardinality(InUnits(units', b)) \in Nat
             /\ Cardinality(InUnits(units, b)) = Cardinality(InUnits(units', b)) + One(x = b)
  <2>1. IsFiniteSet(InUnits(units, b))
    BY <1>4 DEF Account
  <2>2. /\ IsFiniteSet(InUnits(After(units), b)) /\ Cardinality(InUnits(After(units), b)) \in Nat
        /\ Cardinality(InUnits(units, b))
             = Cardinality(InUnits(After(units), b)) + One(Head(Head(units).batch) = b)
    BY <1>3, <1>4, <2>1, AfterMoves
  <2> QED BY <1>2, <1>3, <2>2
<1>8. Handles!Allocated(x)
  <2>1. Cardinality(InUnits(units, x)) >= 1
    BY <1>5, <1>7 DEF One
  <2>2. refs[x] >= 1 /\ refs[x] \in Nat
    BY <1>4, <1>5, <2>1, AccountNumbers DEF Account, Holds
  <2> QED BY <1>4, <1>5, <2>2 DEF Standing, Ground
<1>9. Standing'
  BY <1>1, <1>3, <1>4, <1>5, <1>8, GoStands DEF FreeLabels
<1>10. ASSUME NEW b \in Buffers PROVE Account(b)'
  <2>1. /\ IsFiniteSet(InPending(pending', b))
        /\ Cardinality(InPending(pending', b)) = Cardinality(InPending(pending, b))
        /\ Cardinality(InPending(pending, b)) \in Nat
        /\ refs[b] \in Nat /\ refs'[b] = refs[b]
    BY <1>3, <1>4, AccountNumbers DEF Account
  <2>2. Share(pc[Stream], buf[Stream], b) = 0 /\ Share("release", x, b) = One(x = b)
        /\ One(x = b) \in {0, 1}
    BY <1>3 DEF Share, One
  <2>3. One(IsOpen(b)') = One(IsOpen(b)) /\ One(IsOpen(b)) \in {0, 1}
    BY <1>3 DEF IsOpen, Handles!Allocated, One
  <2>4. refs'[b] + Share(pc[Stream], buf[Stream], b) + Cardinality(InPending(pending, b))
             + Cardinality(InUnits(units, b)) + One(IsOpen(b))
           = refs[b] + Share("release", x, b) + Cardinality(InPending(pending', b))
             + Cardinality(InUnits(units', b)) + One(IsOpen(b)')
    BY <1>7, <2>1, <2>2, <2>3
  <2>5. ~GivenUp(b)' /\ (policy' = "general" \/ ~closed'[b] \/ b \in counted') =>
           ~GivenUp(b) /\ (policy = "general" \/ ~closed[b] \/ b \in counted)
    BY <1>3 DEF GivenUp
  <2> QED BY <1>1, <1>3, <1>4, <1>5, <1>7, <2>1, <2>4, <2>5, GoBalances
<1> QED BY <1>6, <1>9, <1>10, AccountsAfter DEF MInv

\* What stands while the writes move between the queue's lists.
LEMMA StandsStill ==
  ASSUME Standing, UNCHANGED <<policy, refs, closed, place, owner, counted, poolClosed, blockFreed, pc, buf>>
  PROVE  Standing'
BY DEF Standing, HeldIsPlaced, FreeingAlone, UnheldIsGone, Ground, AtWork, IsOpen, Placed, Freeing, Handles!Allocated

\* And the account, when only the units, the pending writes and what was given
\* up have changed.
LEMMA QueueBalances ==
  ASSUME Typed, NEW b \in Buffers, Account(b),
         UNCHANGED <<policy, refs, closed, place, counted, pc, buf>>,
         IsFiniteSet(InPending(pending', b)), IsFiniteSet(InUnits(units', b)),
         Cardinality(InPending(pending', b)) + Cardinality(InUnits(units', b))
           =< Cardinality(InPending(pending, b)) + Cardinality(InUnits(units, b)),
         ~GivenUp(b)' => ~GivenUp(b) /\
           Cardinality(InPending(pending', b)) + Cardinality(InUnits(units', b))
             = Cardinality(InPending(pending, b)) + Cardinality(InUnits(units, b))
  PROVE  Account(b)'
<1>1. /\ Cardinality(Holding(pc, buf, b)) \in Nat /\ Cardinality(InPending(pending, b)) \in Nat
      /\ Cardinality(InUnits(units, b)) \in Nat /\ refs[b] \in Nat /\ One(IsOpen(b)) \in {0, 1}
      /\ Cardinality(InPending(pending', b)) \in Nat /\ Cardinality(InUnits(units', b)) \in Nat
  BY AccountNumbers, FS_CardinalityType
<1>2. One(IsOpen(b))' = One(IsOpen(b)) /\ Holding(pc', buf', b) = Holding(pc, buf, b)
  BY DEF IsOpen, Handles!Allocated, One
<1>3. Holds(b)' = Cardinality(Holding(pc, buf, b)) + Cardinality(InPending(pending', b))
                    + Cardinality(InUnits(units', b))
  BY <1>2 DEF Holds
<1>4. refs[b] >= Holds(b)' + One(IsOpen(b))
  BY <1>1, <1>3 DEF Account, Holds
<1>5. ~GivenUp(b)' /\ (policy = "general" \/ ~closed[b] \/ b \in counted) => refs[b] = Holds(b)' + One(IsOpen(b))
  BY <1>1, <1>3 DEF Account, Holds
<1> QED BY <1>2, <1>4, <1>5 DEF Account

LEMMA DropBatchKeeps ==
  ASSUME MInv, Handles!DropBatch
  PROVE  MInv'
<1> DEFINE batch == Head(units).batch
<1>1. /\ units # <<>> /\ units' = Tail(units) /\ dropped' = dropped \o batch
      /\ UNCHANGED <<policy, refs, closed, place, owner, counted, pending,
                     poolMu, poolClosed, blockFreed, pc, buf>>
  BY DEF Handles!DropBatch, Handles!pool
<1>2. /\ Typed /\ Standing /\ \A b \in Buffers : Account(b)
      /\ units \in Seq(HandedOn) /\ \A i \in DOMAIN units : units[i].batch # <<>>
      /\ dropped \in Seq(Buffers)
  BY Accounts DEF MInv, Typed
<1>3. batch \in Seq(Buffers)
  BY <1>1, <1>2, HeadUnit
<1>4. /\ Tail(units) \in Seq(HandedOn) /\ \A i \in DOMAIN Tail(units) : Tail(units)[i].batch # <<>>
  <2>1. Tail(units) \in Seq(HandedOn) /\ Len(Tail(units)) = Len(units) - 1 /\ Len(units) \in Nat
        /\ \A i \in 1 .. (Len(units) - 1) : Tail(units)[i] = units[i + 1]
    BY <1>1, <1>2
  <2>2. \A i \in 1 .. (Len(units) - 1) : i + 1 \in DOMAIN units
    BY <1>2, <2>1
  <2>3. DOMAIN Tail(units) = 1 .. (Len(units) - 1)
    BY <2>1
  <2> QED BY <1>2, <2>1, <2>2, <2>3
<1> HIDE DEF batch
<1>5. Typed'
  <2>1. dropped' \in Seq(Buffers)
    BY <1>1, <1>2, <1>3
  <2> QED BY <1>1, <1>2, <1>4, <2>1 DEF Typed
<1>6. Standing'
  BY <1>1, <1>2, StandsStill
<1>7. ASSUME NEW b \in Buffers PROVE Account(b)'
  <2>1. ~GivenUp(b)' => ~GivenUp(b) /\ \A j \in DOMAIN batch : batch[j] # b
    <3>1. /\ DOMAIN dropped = 1 .. Len(dropped) /\ DOMAIN batch = 1 .. Len(batch)
          /\ Len(dropped) \in Nat /\ Len(batch) \in Nat
          /\ DOMAIN dropped' = 1 .. (Len(dropped) + Len(batch))
          /\ \A i \in 1 .. Len(dropped) : dropped'[i] = dropped[i]
          /\ \A j \in 1 .. Len(batch) : dropped'[Len(dropped) + j] = batch[j]
      BY <1>1, <1>2, <1>3
    <3>2. /\ \A i \in 1 .. Len(dropped) : i \in DOMAIN dropped'
          /\ \A j \in 1 .. Len(batch) : Len(dropped) + j \in DOMAIN dropped'
      BY <3>1
    <3> QED BY <3>1, <3>2 DEF GivenUp
  <2>2. /\ IsFiniteSet(InPending(pending', b)) /\ IsFiniteSet(InUnits(units, b))
        /\ Cardinality(InPending(pending', b)) = Cardinality(InPending(pending, b))
        /\ Cardinality(InPending(pending, b)) \in Nat
    BY <1>1, <1>2, AccountNumbers DEF Account
  <2>3. /\ IsFiniteSet(InUnits(units', b)) /\ Cardinality(InUnits(units', b)) \in Nat
        /\ Cardinality(InUnits(units, b)) \in Nat
        /\ Cardinality(InUnits(units', b)) =< Cardinality(InUnits(units, b))
        /\ (\A j \in DOMAIN batch : batch[j] # b) =>
             Cardinality(InUnits(units', b)) = Cardinality(InUnits(units, b))
    BY <1>1, <1>2, <2>2, RestMoves DEF batch
  <2>4. Cardinality(InPending(pending', b)) + Cardinality(InUnits(units', b))
           =< Cardinality(InPending(pending, b)) + Cardinality(InUnits(units, b))
    BY <2>2, <2>3
  <2>5. ~GivenUp(b)' => ~GivenUp(b) /\
           Cardinality(InPending(pending', b)) + Cardinality(InUnits(units', b))
             = Cardinality(InPending(pending, b)) + Cardinality(InUnits(units, b))
    BY <2>1, <2>2, <2>3
  <2> QED BY <1>1, <1>2, <2>2, <2>3, <2>4, <2>5, QueueBalances
<1> QED BY <1>5, <1>6, <1>7, AccountsAfter DEF MInv

LEMMA FlushKeeps ==
  ASSUME MInv, NEW t \in Callers, Handles!Flush(t)
  PROVE  MInv'
<1>1. PICK fails \in BOOLEAN : units' = Append(units, [batch |-> pending, drops |-> fails])
  BY DEF Handles!Flush
<1>2. /\ pending # <<>> /\ pending' = <<>>
      /\ UNCHANGED <<policy, refs, closed, place, owner, counted, dropped,
                     poolMu, poolClosed, blockFreed, pc, buf>>
  BY DEF Handles!Flush, Handles!pool
<1>3. /\ Typed /\ Standing /\ \A b \in Buffers : Account(b)
      /\ units \in Seq(HandedOn) /\ \A i \in DOMAIN units : units[i].batch # <<>>
      /\ pending \in Seq(Buffers)
  BY Accounts DEF MInv, Typed
<1> DEFINE u == [batch |-> pending, drops |-> fails]
<1>4. u \in HandedOn /\ u.batch # <<>>
  BY <1>2, <1>3 DEF HandedOn
<1> HIDE DEF u
<1>5. Typed'
  <2>1. units' \in Seq(HandedOn) /\ \A i \in DOMAIN units' : units'[i].batch # <<>>
    BY <1>1, <1>3, <1>4 DEF u
  <2>2. pending' \in Seq(Buffers)
    BY <1>2
  <2> QED BY <1>2, <1>3, <2>1, <2>2 DEF Typed
<1>6. Standing'
  BY <1>2, <1>3, StandsStill
<1>7. ASSUME NEW b \in Buffers PROVE Account(b)'
  <2>1. IsFiniteSet(InPending(pending, b)) /\ IsFiniteSet(InUnits(units, b))
    BY <1>3 DEF Account
  <2>2. InPending(pending', b) = {}
    BY <1>2 DEF InPending
  <2>3. IsFiniteSet(InPending(pending', b)) /\ Cardinality(InPending(pending', b)) = 0
    BY <2>2, FS_EmptySet
  <2>4. /\ IsFiniteSet(InUnits(units', b)) /\ Cardinality(InPending(pending, b)) \in Nat
        /\ Cardinality(InUnits(units, b)) \in Nat
        /\ Cardinality(InUnits(units', b)) = Cardinality(InUnits(units, b)) + Cardinality(InPending(pending, b))
    BY <1>1, <1>3, <2>1, PendingMoves
  <2>5. /\ Cardinality(InPending(pending', b)) + Cardinality(InUnits(units', b))
             = Cardinality(InPending(pending, b)) + Cardinality(InUnits(units, b))
        /\ Cardinality(InPending(pending', b)) + Cardinality(InUnits(units', b))
             =< Cardinality(InPending(pending, b)) + Cardinality(InUnits(units, b))
    BY <2>3, <2>4
  <2>6. GivenUp(b)' <=> GivenUp(b)
    BY <1>2 DEF GivenUp
  <2> QED BY <1>2, <1>3, <2>3, <2>4, <2>5, <2>6, QueueBalances
<1> QED BY <1>5, <1>6, <1>7, AccountsAfter DEF MInv

-----------------------------------------------------------------------------
LEMMA InitHasMInv ==
  ASSUME Handles!PoolAssumption, Handles!Init
  PROVE  MInv
<1>1. Typed
  BY DEF Handles!PoolAssumption, Handles!Init, Typed, Handles!Places, Handles!NoPlace, Labels
<1>2. \A t \in Handles!Procs : pc[t] = "idle"
  BY DEF Handles!Init
<1>3. \A b \in Buffers : /\ Holding(pc, buf, b) = {} /\ InPending(pending, b) = {} /\ InUnits(units, b) = {}
                         /\ refs[b] = 0 /\ ~IsOpen(b)
  BY <1>2 DEF Handles!Init, Holding, InPending, InUnits, IsOpen, Handles!Allocated, Handles!NoPlace
<1>4. HoldsAreFinite
  BY <1>3, FS_EmptySet DEF HoldsAreFinite
<1>5. Balanced
  BY <1>3, FS_EmptySet DEF Balanced, Holds, One
<1>6. Standing
  BY <1>2 DEF Handles!Init, Standing, HeldIsPlaced, FreeingAlone, UnheldIsGone, Ground, AtWork, IsOpen,
              Placed, Freeing, Handles!Allocated, Handles!NoPlace
<1> QED BY <1>1, <1>4, <1>5, <1>6 DEF MInv

LEMMA StillKeeps == MInv /\ UNCHANGED Handles!vars => MInv'
<1> SUFFICES ASSUME MInv, UNCHANGED Handles!vars PROVE MInv'
  OBVIOUS
<1>1. UNCHANGED <<policy, refs, closed, place, owner, counted, pending, units, dropped,
                  poolMu, poolClosed, blockFreed, pc, buf>>
  BY DEF Handles!vars, Handles!pool, Handles!writes
<1>2. Typed'
  BY <1>1 DEF MInv, Typed
<1>3. Standing'
  BY <1>1, StandsStill DEF MInv
<1>4. (HoldsAreFinite /\ Balanced)'
  BY <1>1 DEF MInv, HoldsAreFinite, Balanced, Holds, IsOpen, GivenUp, Handles!Allocated
<1> QED BY <1>2, <1>3, <1>4 DEF MInv

LEMMA StepsKeepMInv == Handles!PoolAssumption /\ MInv /\ [Handles!Next]_Handles!vars => MInv'
<1> SUFFICES ASSUME Handles!PoolAssumption, MInv, Handles!Next PROVE MInv'
  BY StillKeeps
<1>1. Nobody \notin Buffers /\ NumPlaces \in Nat
  BY DEF Handles!PoolAssumption
<1>2. ASSUME NEW t \in Handles!Procs, Handles!Returning(t) PROVE MInv'
  BY <1>1, <1>2, ReleaseKeeps, FreeMemoryKeeps, ForgetKeeps DEF Handles!Returning
<1>3. ASSUME NEW t \in Callers, Handles!Call(t) PROVE MInv'
  <2>1. CASE \E b \in Buffers : Handles!StartAlloc(t, b) \/ Handles!CheckWrite(t, b) \/ Handles!BeginClose(t, b)
    BY <1>1, <2>1, StartAllocKeeps, CheckWriteKeeps, BeginCloseKeeps
  <2>2. CASE Handles!Alloc(t) \/ Handles!Retain(t) \/ Handles!Stage(t) \/ Handles!Flush(t)
    BY <1>1, <2>2, AllocKeeps, RetainKeeps, StageKeeps, FlushKeeps
  <2>3. CASE Handles!BeginReset(t) \/ Handles!FinishReset(t) \/ Handles!ClosePool(t) \/ Handles!FreeBlock(t)
    BY <1>1, <2>3, BeginResetKeeps, FinishResetKeeps, ClosePoolKeeps, FreeBlockKeeps
  <2> QED BY <1>3, <2>1, <2>2, <2>3 DEF Handles!Call
<1>4. Callers \subseteq Handles!Procs /\ Stream \in Handles!Procs
  BY DEF Handles!Procs
<1> QED BY <1>1, <1>2, <1>3, <1>4, LandKeeps, DropBatchKeeps DEF Handles!Next

-----------------------------------------------------------------------------
\* A destination of a write that has not landed has a hold.
LEMMA HeldHasHold ==
  ASSUME MInv, NEW b \in Handles!Held
  PROVE  b \in Buffers /\ refs[b] > 0
<1>1. Typed /\ Standing /\ \A c \in Buffers : Account(c)
  BY Accounts DEF MInv
<1>2. /\ pending \in Seq(Buffers) /\ \A i \in DOMAIN units : units[i].batch \in Seq(Buffers) /\ i \in Nat
  <2>1. units \in Seq(HandedOn) /\ pending \in Seq(Buffers)
    BY <1>1 DEF Typed
  <2>2. \A i \in DOMAIN units : units[i] \in HandedOn /\ i \in Nat
    BY <2>1
  <2> QED BY <2>1, <2>2 DEF HandedOn
<1>3. \/ \E i \in DOMAIN pending : pending[i] = b
      \/ \E i \in DOMAIN units : \E j \in DOMAIN units[i].batch : units[i].batch[j] = b
      \/ \E t \in Handles!Procs : pc[t] = "append" /\ buf[t] = b
  <2>1. \/ b \in Handles!Range(pending)
        \/ b \in UNION {Handles!Range(units[i].batch) : i \in DOMAIN units}
        \/ b \in {buf[t] : t \in {s \in Callers : pc[s] = "append"}}
    BY DEF Handles!Held
  <2>2. CASE b \in Handles!Range(pending)
    BY <2>2 DEF Handles!Range
  <2>3. CASE b \in UNION {Handles!Range(units[i].batch) : i \in DOMAIN units}
    <3>1. PICK i \in DOMAIN units : b \in Handles!Range(units[i].batch)
      BY <2>3
    <3> QED BY <3>1 DEF Handles!Range
  <2>4. CASE b \in {buf[t] : t \in {s \in Callers : pc[s] = "append"}}
    BY <2>4 DEF Handles!Procs
  <2> QED BY <2>1, <2>2, <2>3, <2>4
<1>4. b \in Buffers
  <2>1. \A i \in DOMAIN pending : pending[i] \in Buffers
    BY <1>2
  <2>2. \A i \in DOMAIN units : \A j \in DOMAIN units[i].batch : units[i].batch[j] \in Buffers
    BY <1>2
  <2>3. \A t \in Handles!Procs : pc[t] = "append" => buf[t] \in Buffers
    BY <1>1 DEF Standing, AtWork
  <2> QED BY <1>3, <2>1, <2>2, <2>3
<1>5. /\ IsFiniteSet(Holding(pc, buf, b)) /\ IsFiniteSet(InPending(pending, b)) /\ IsFiniteSet(InUnits(units, b))
  BY <1>1, <1>4 DEF Account
<1>6. Holding(pc, buf, b) # {} \/ InPending(pending, b) # {} \/ InUnits(units, b) # {}
  <2>1. CASE \E i \in DOMAIN pending : pending[i] = b
    BY <2>1 DEF InPending
  <2>2. CASE \E i \in DOMAIN units : \E j \in DOMAIN units[i].batch : units[i].batch[j] = b
    <3>0. PICK i \in DOMAIN units : \E j \in DOMAIN units[i].batch : units[i].batch[j] = b
      BY <2>2
    <3>1. PICK j \in DOMAIN units[i].batch : units[i].batch[j] = b
      BY <3>0
    <3>2. i \in Nat /\ j \in Nat
      BY <1>2
    <3>3. <<i, j>> \in InUnits(units, b)
      BY <3>1, <3>2 DEF InUnits
    <3> QED BY <3>3
  <2>3. CASE \E t \in Handles!Procs : pc[t] = "append" /\ buf[t] = b
    BY <2>3 DEF Holding
  <2> QED BY <1>3, <2>1, <2>2, <2>3
<1>7. \/ Cardinality(Holding(pc, buf, b)) # 0 \/ Cardinality(InPending(pending, b)) # 0
      \/ Cardinality(InUnits(units, b)) # 0
  BY <1>5, <1>6, FS_EmptySet
<1> QED BY <1>1, <1>4, <1>7, AccountNumbers DEF Account, Holds

\* A buffer the pool counts keeps the pool open and its block.
LEMMA PlacedIsBacked ==
  ASSUME MInv, NEW b \in Buffers, Placed(b)
  PROVE  Handles!Backed(b) /\ b \in counted
BY DEF MInv, Typed, Standing, Ground, Placed, Handles!Backed

LEMMA MInvKeepsBytes == MInv => Handles!BuffersKeepTheirBytes
<1> SUFFICES ASSUME MInv PROVE Handles!BuffersKeepTheirBytes
  OBVIOUS
<1>1. Handles!WritesAreBacked
  <2> SUFFICES ASSUME policy = "general", NEW b \in Handles!Held PROVE Handles!Backed(b)
    BY DEF Handles!WritesAreBacked
  <2>1. b \in Buffers /\ refs[b] > 0
    BY HeldHasHold
  <2>2. Placed(b)
    BY <2>1 DEF MInv, Standing, HeldIsPlaced
  <2> QED BY <2>1, <2>2, PlacedIsBacked
<1>2. Handles!OpenHandlesAreBacked
  <2>1. \A b \in Buffers : IsOpen(b) => Placed(b)
    BY DEF MInv, Standing, HeldIsPlaced
  <2> QED BY <2>1, PlacedIsBacked DEF Handles!OpenHandlesAreBacked, IsOpen
<1> QED BY <1>1, <1>2 DEF Handles!BuffersKeepTheirBytes

LEMMA MInvReturnsOnce == MInv => Handles!MemoryReturnsOnce
<1> SUFFICES ASSUME MInv PROVE Handles!MemoryReturnsOnce
  OBVIOUS
<1>1. Typed /\ Standing /\ \A c \in Buffers : Account(c)
  BY Accounts DEF MInv
<1>2. Handles!TypeOK
  <2>1. Handles!Range(pending) \subseteq Buffers
    <3>1. \A i \in DOMAIN pending : pending[i] \in Buffers
      BY <1>1 DEF Typed
    <3> QED BY <3>1 DEF Handles!Range
  <2> QED BY <1>1, <2>1 DEF Typed, Handles!TypeOK, Handles!Places
<1>3. Handles!ClosedMeansReturned
  <2> SUFFICES ASSUME Handles!Held = {}, \A t \in Handles!Procs : pc[t] = "idle",
                      NEW b \in Buffers \ Handles!Range(dropped), closed[b]
               PROVE  b \notin counted /\ (policy = "general" => owner[place[b]] # b)
    BY DEF Handles!ClosedMeansReturned
  <2>1. ~GivenUp(b) /\ Handles!Allocated(b) /\ ~IsOpen(b)
    BY <1>1 DEF GivenUp, Handles!Range, Standing, Ground, IsOpen
  <2>2. Holding(pc, buf, b) = {} /\ InPending(pending, b) = {} /\ InUnits(units, b) = {}
    <3>1. Holding(pc, buf, b) = {}
      BY DEF Holding
    <3>2. \A i \in DOMAIN pending : pending[i] # b
      BY DEF Handles!Held, Handles!Range
    <3>3. ASSUME NEW i \in DOMAIN units, NEW j \in DOMAIN units[i].batch PROVE units[i].batch[j] # b
      <4>1. Handles!Range(units[i].batch) = {}
        BY DEF Handles!Held
      <4> QED BY <4>1 DEF Handles!Range
    <3> QED BY <3>1, <3>2, <3>3 DEF InPending, InUnits
  <2>3. Holds(b) = 0 /\ One(IsOpen(b)) = 0
    BY <2>1, <2>2, FS_EmptySet DEF Holds, One
  <2>4. \A t \in Handles!Procs : ~Freeing(t, b)
    BY DEF Freeing
  <2>5. policy = "general" \/ b \in counted => refs[b] = 0
    BY <1>1, <2>1, <2>3 DEF Account
  <2> QED BY <1>1, <2>1, <2>4, <2>5 DEF Standing, UnheldIsGone
<1>4. Handles!FreedOnce
  <2> SUFFICES ASSUME NEW t \in Handles!Procs, pc[t] = "free"
               PROVE  /\ refs[buf[t]] = 0 /\ closed[buf[t]]
                      /\ \A s \in Handles!Procs \ {t} : pc[s] \in {"free", "forget"} => buf[s] # buf[t]
    BY DEF Handles!FreedOnce
  <2> QED BY FreerIsAlone DEF FreeLabels, Freeing
<1> QED BY <1>2, <1>3, <1>4 DEF Handles!MemoryReturnsOnce

\* A buffer keeps its bytes while its handle is open or, in a general pool, a
\* write to it is held, for any number of callers and buffers (resource.go:37,
\* pool.go).
THEOREM BytesAreKept ==
  ASSUME Handles!PoolAssumption PROVE Handles!Spec => []BuffersKeepTheirBytes
<1>1. Handles!Init => MInv
  BY InitHasMInv
<1>2. MInv /\ [Handles!Next]_Handles!vars => MInv'
  BY StepsKeepMInv
<1>3. MInv => BuffersKeepTheirBytes
  BY MInvKeepsBytes DEF BuffersKeepTheirBytes
<1> QED BY <1>1, <1>2, <1>3, PTL DEF Handles!Spec

\* The last hold returns the memory, once, and a closed buffer is counted nowhere
\* when nothing is under way (buffer.go:204).
THEOREM LastHoldReturns ==
  ASSUME Handles!PoolAssumption PROVE Handles!Spec => []MemoryReturnsOnce
<1>1. Handles!Init => MInv
  BY InitHasMInv
<1>2. MInv /\ [Handles!Next]_Handles!vars => MInv'
  BY StepsKeepMInv
<1>3. MInv => MemoryReturnsOnce
  BY MInvReturnsOnce DEF MemoryReturnsOnce
<1> QED BY <1>1, <1>2, <1>3, PTL DEF Handles!Spec

-----------------------------------------------------------------------------
\* The general pool.  Powers of two and the position of the high bit, which TLSF
\* finds a class by.  What holds of every natural is shown of the least for which
\* it fails.

\* A non-empty set of naturals has a least element.
LEMMA LeastOfNaturals ==
  ASSUME NEW S \in SUBSET Nat, S # {}
  PROVE  \E m \in S : \A n \in S : m =< n
<1> DEFINE T == {1 .. n : n \in S}
<1>1. \A n \in Nat : IsFiniteSet(1 .. n) /\ 1 .. n \subseteq Nat
  BY FS_Interval
<1>2. T \subseteq FiniteSubsetsOf(Nat) /\ T # {}
  <2>1. \A n \in S : 1 .. n \in FiniteSubsetsOf(Nat) BY <1>1 DEF FiniteSubsetsOf
  <2>2. \A z \in T : z \in FiniteSubsetsOf(Nat) BY <2>1
  <2>3. PICK n \in S : TRUE OBVIOUS
  <2>4. 1 .. n \in T BY <2>3
  <2> QED BY <2>2, <2>4
<1>3. \E x \in T : \A y \in T : <<y, x>> \notin StrictSubsetOrdering(Nat)
  <2>1. IsWellFoundedOn(StrictSubsetOrdering(Nat), FiniteSubsetsOf(Nat))
    BY FS_StrictSubsetOrderingWellFounded
  <2> HIDE DEF T
  <2> QED BY <1>2, <2>1, WFMin
<1>4. PICK m \in S : \A n \in S : <<1 .. n, 1 .. m>> \notin StrictSubsetOrdering(Nat)
  BY <1>3
<1>5. ASSUME NEW n \in S, ~(m =< n) PROVE FALSE
  <2>1. 1 .. n \subseteq 1 .. m /\ m \in 1 .. m /\ m \notin 1 .. n BY <1>5
  <2>2. <<1 .. n, 1 .. m>> \in StrictSubsetOrdering(Nat)
    BY <1>1, <2>1 DEF StrictSubsetOrdering
  <2> QED BY <1>4, <2>2
<1> QED BY <1>5

\* And one bounded from above a greatest.
LEMMA GreatestOfNaturals ==
  ASSUME NEW bound \in Nat, NEW S \in SUBSET Nat, S # {}, \A n \in S : n =< bound
  PROVE  \E m \in S : \A n \in S : n =< m
<1> DEFINE D == {bound - n : n \in S}
<1>1. D \in SUBSET Nat /\ D # {}
  <2>1. \A n \in S : bound - n \in Nat OBVIOUS
  <2>2. PICK n \in S : TRUE OBVIOUS
  <2>3. bound - n \in D OBVIOUS
  <2> QED BY <2>1, <2>3
<1>2. PICK d \in D : \A e \in D : d =< e
  <2> HIDE DEF D
  <2> QED BY <1>1, LeastOfNaturals
<1>3. PICK m \in S : d = bound - m
  OBVIOUS
<1>4. \A n \in S : bound - m =< bound - n
  BY <1>2, <1>3
<1> QED BY <1>4

\* The powers of two, from the size of a powerset.
LEMMA PowerIsPositive ==
  ASSUME NEW n \in Nat
  PROVE  2 ^ n \in Nat \ {0} /\ n < 2 ^ n /\ 2 ^ n = Cardinality(SUBSET (1 .. n)) /\ IsFiniteSet(SUBSET (1 .. n))
<1>1. IsFiniteSet(1 .. n) /\ Cardinality(1 .. n) = n
  BY FS_Interval
<1>2. IsFiniteSet(SUBSET (1 .. n)) /\ Cardinality(SUBSET (1 .. n)) = 2 ^ n
  BY <1>1, FS_SUBSET
<1>3. 2 ^ n \in Nat
  BY <1>2, FS_CardinalityType
<1> DEFINE f == [k \in 0 .. n |-> 1 .. k]
<1>4. f \in Injection(0 .. n, SUBSET (1 .. n))
  <2>1. \A k \in 0 .. n : 1 .. k \in SUBSET (1 .. n)
    OBVIOUS
  <2>2. ASSUME NEW k \in 0 .. n, NEW l \in 0 .. n, k < l PROVE 1 .. k # 1 .. l
    <3>1. l \in 1 .. l /\ l \notin 1 .. k BY <2>2
    <3> QED BY <3>1
  <2>3. \A k, l \in 0 .. n : 1 .. k = 1 .. l => k = l
    <3> SUFFICES ASSUME NEW k \in 0 .. n, NEW l \in 0 .. n, k # l PROVE 1 .. k # 1 .. l OBVIOUS
    <3>1. k < l \/ l < k OBVIOUS
    <3> QED BY <3>1, <2>2
  <2>4. f \in [0 .. n -> SUBSET (1 .. n)]
    BY <2>1
  <2>5. \A k, l \in 0 .. n : f[k] = f[l] => k = l
    BY <2>3
  <2> QED BY <2>4, <2>5 DEF Injection, IsInjective
<1>5. Cardinality(0 .. n) =< 2 ^ n
  BY <1>2, <1>4, FS_Injection
<1>6. Cardinality(0 .. n) = n + 1
  <2>1. 0 \in Int /\ n \in Int /\ ~(0 > n) OBVIOUS
  <2>2. Cardinality(0 .. n) = n - 0 + 1 BY <2>1, FS_Interval
  <2> QED BY <2>2
<1> QED BY <1>2, <1>3, <1>5, <1>6

\* Each exponent doubles.
LEMMA PowerDoubles ==
  ASSUME NEW n \in Nat
  PROVE  2 ^ (n + 1) = 2 * 2 ^ n
<1> DEFINE A == SUBSET (1 .. n)
           B == {s \union {n + 1} : s \in A}
           f == [s \in A |-> s \union {n + 1}]
<1>1. IsFiniteSet(A) /\ Cardinality(A) = 2 ^ n /\ 2 ^ n \in Nat
  BY PowerIsPositive
<1>2. 2 ^ (n + 1) = Cardinality(SUBSET (1 .. n + 1)) /\ n + 1 \in Nat
  <2>1. n + 1 \in Nat OBVIOUS
  <2> QED BY <2>1, PowerIsPositive
<1>3. f \in Bijection(A, B)
  <2>1. \A s \in A : n + 1 \notin s
    OBVIOUS
  <2>2. \A s, t \in A : f[s] = f[t] => s = t
    BY <2>1
  <2>3. f \in [A -> B] /\ \A t \in B : \E s \in A : f[s] = t
    OBVIOUS
  <2> QED BY <2>2, <2>3 DEF Bijection, Injection, Surjection, IsInjective
<1>4. IsFiniteSet(B) /\ Cardinality(B) = 2 ^ n
  BY <1>1, <1>3, FS_Bijection DEF ExistsBijection
<1>5. SUBSET (1 .. n + 1) = A \union B
  <2>1. ASSUME NEW s \in SUBSET (1 .. n + 1) PROVE s \in A \union B
    <3>1. s \ {n + 1} \in A OBVIOUS
    <3>2. CASE n + 1 \in s
      <4>1. s = (s \ {n + 1}) \union {n + 1} BY <3>2
      <4> QED BY <3>1, <4>1
    <3>3. CASE n + 1 \notin s
      <4>1. s = s \ {n + 1} BY <3>3
      <4> QED BY <3>1, <4>1
    <3> QED BY <3>2, <3>3
  <2>2. 1 .. n \subseteq 1 .. n + 1 /\ n + 1 \in 1 .. n + 1
    OBVIOUS
  <2>3. \A s \in A : s \subseteq 1 .. n + 1 /\ s \union {n + 1} \subseteq 1 .. n + 1
    BY <2>2
  <2>4. \A s \in A \union B : s \in SUBSET (1 .. n + 1)
    BY <2>3
  <2> QED BY <2>1, <2>4
<1>6. A \intersect B = {}
  <2>1. \A s \in A : n + 1 \notin s OBVIOUS
  <2>2. \A s \in B : n + 1 \in s OBVIOUS
  <2> QED BY <2>1, <2>2
<1>7. Cardinality(A \union B) = 2 ^ n + 2 ^ n - 0
  <2> HIDE DEF A, B
  <2>1. Cardinality(A \intersect B) = 0 BY <1>6, FS_EmptySet
  <2> QED BY <1>1, <1>4, <2>1, FS_Union
<1>8. 2 ^ (n + 1) = 2 ^ n + 2 ^ n - 0
  <2> HIDE DEF A, B
  <2> QED BY <1>2, <1>5, <1>7
<1>9. \A x \in Nat : x + x - 0 = 2 * x
  OBVIOUS
<1> QED BY <1>1, <1>8, <1>9
\* Larger exponents give larger powers.
LEMMA PowerIsMonotone ==
  ASSUME NEW m \in Nat, NEW n \in Nat, m =< n
  PROVE  2 ^ m =< 2 ^ n
<1> DEFINE bad == {k \in Nat : ~(2 ^ m =< 2 ^ (m + k))}
<1>1. bad = {}
  <2> SUFFICES ASSUME bad # {} PROVE FALSE
    OBVIOUS
  <2>1. PICK k \in bad : \A l \in bad : k =< l
    <3>1. bad \in SUBSET Nat OBVIOUS
    <3> HIDE DEF bad
    <3> QED BY <3>1, LeastOfNaturals
  <2>2. k # 0
    <3>1. m + 0 = m OBVIOUS
    <3>2. 2 ^ m \in Nat BY PowerIsPositive
    <3>3. ASSUME k = 0 PROVE FALSE
      <4>1. 2 ^ (m + k) = 2 ^ m BY <3>1, <3>3
      <4> QED BY <3>2, <4>1
    <3> QED BY <3>3
  <2>3. k - 1 \in Nat /\ k - 1 \notin bad
    BY <2>1, <2>2
  <2>4. 2 ^ m =< 2 ^ (m + (k - 1))
    BY <2>3
  <2>5. 2 ^ (m + k) = 2 * 2 ^ (m + (k - 1))
    <3>1. m + (k - 1) \in Nat /\ (m + (k - 1)) + 1 = m + k BY <2>3
    <3> QED BY <3>1, PowerDoubles
  <2>6. 2 ^ m \in Nat /\ 2 ^ (m + (k - 1)) \in Nat
    <3>1. m + (k - 1) \in Nat BY <2>3
    <3> QED BY <3>1, PowerIsPositive
  <2>7. 2 ^ m =< 2 ^ (m + k)
    BY <2>4, <2>5, <2>6
  <2> QED BY <2>7
<1>2. n - m \in Nat /\ m + (n - m) = n
  OBVIOUS
<1>3. n - m \notin bad
  BY <1>1
<1>4. 2 ^ m =< 2 ^ (m + (n - m))
  BY <1>2, <1>3
<1> QED BY <1>2, <1>4

\* The power of a sum.
LEMMA PowerOfASum ==
  ASSUME NEW m \in Nat, NEW n \in Nat
  PROVE  2 ^ (m + n) = 2 ^ m * 2 ^ n
<1> DEFINE bad == {k \in Nat : 2 ^ (m + k) # 2 ^ m * 2 ^ k}
<1>1. bad = {}
  <2> SUFFICES ASSUME bad # {} PROVE FALSE
    OBVIOUS
  <2>1. PICK k \in bad : \A l \in bad : k =< l
    <3>1. bad \in SUBSET Nat OBVIOUS
    <3> HIDE DEF bad
    <3> QED BY <3>1, LeastOfNaturals
  <2>2. k # 0
    <3>1. m + 0 = m /\ 2 ^ 0 = 1 OBVIOUS
    <3>2. 2 ^ m \in Nat BY PowerIsPositive
    <3>3. ASSUME k = 0 PROVE FALSE
      <4>1. 2 ^ (m + k) = 2 ^ m /\ 2 ^ k = 1 BY <3>1, <3>3
      <4>2. 2 ^ m * 2 ^ k = 2 ^ m BY <4>1, <3>2
      <4> QED BY <4>1, <4>2
    <3> QED BY <3>3
  <2>3. k - 1 \in Nat /\ k - 1 \notin bad
    BY <2>1, <2>2
  <2>4. 2 ^ (m + (k - 1)) = 2 ^ m * 2 ^ (k - 1)
    BY <2>3
  <2>5. 2 ^ (m + k) = 2 * 2 ^ (m + (k - 1)) /\ 2 ^ k = 2 * 2 ^ (k - 1)
    <3>1. m + (k - 1) \in Nat /\ (m + (k - 1)) + 1 = m + k /\ (k - 1) + 1 = k BY <2>3
    <3> QED BY <2>3, <3>1, PowerDoubles
  <2>6. 2 ^ m \in Nat /\ 2 ^ (k - 1) \in Nat
    BY <2>3, PowerIsPositive
  <2>7. \A x, y \in Nat : 2 * (x * y) = x * (2 * y)
    OBVIOUS
  <2>8. 2 ^ (m + k) = 2 ^ m * 2 ^ k
    BY <2>4, <2>5, <2>6, <2>7
  <2> QED BY <2>8
<1> QED BY <1>1

\* Only one exponent is of the high bit.
LEMMA LogIsUnique ==
  ASSUME NEW n \in Nat, NEW d \in Nat, NEW e \in Nat,
         2 ^ d =< n, n < 2 ^ (e + 1)
  PROVE  d =< e
<1> SUFFICES ASSUME e + 1 =< d PROVE FALSE
  OBVIOUS
<1>1. 2 ^ (e + 1) =< 2 ^ d
  <2>1. e + 1 \in Nat OBVIOUS
  <2> QED BY <2>1, PowerIsMonotone
<1>2. 2 ^ (e + 1) \in Nat /\ 2 ^ d \in Nat
  <2>1. e + 1 \in Nat OBVIOUS
  <2> QED BY <2>1, PowerIsPositive
<1> QED BY <1>1, <1>2

\* The position of the highest bit: bits.Len less one.
LEMMA LogIsTheHighBit ==
  ASSUME NEW n \in Nat \ {0}
  PROVE  /\ General!Log2(n) \in 0 .. n
         /\ 2 ^ General!Log2(n) =< n /\ n < 2 ^ (General!Log2(n) + 1)
<1> DEFINE big == {e \in Nat : n < 2 ^ (e + 1)}
<1>1. n \in big
  <2>1. n + 1 \in Nat OBVIOUS
  <2>2. n + 1 < 2 ^ (n + 1) /\ 2 ^ (n + 1) \in Nat BY <2>1, PowerIsPositive
  <2> QED BY <2>2
<1>2. PICK e \in big : \A l \in big : e =< l
  <2>1. big \in SUBSET Nat OBVIOUS
  <2> HIDE DEF big
  <2> QED BY <1>1, <2>1, LeastOfNaturals
<1>3. e \in 0 .. n
  BY <1>1, <1>2
<1>4. 2 ^ e =< n
  <2>1. CASE e = 0
    <3>1. 2 ^ e = 1 BY <2>1
    <3> QED BY <3>1
  <2>2. CASE e # 0
    <3>1. e - 1 \in Nat /\ e - 1 \notin big /\ (e - 1) + 1 = e BY <2>2, <1>2
    <3>2. 2 ^ e \in Nat BY PowerIsPositive
    <3>3. ~(n < 2 ^ ((e - 1) + 1)) BY <3>1
    <3>4. ~(n < 2 ^ e) BY <3>1, <3>3
    <3> QED BY <3>2, <3>4
  <2> QED BY <2>1, <2>2
<1>5. \E x \in 0 .. n : 2 ^ x =< n /\ n < 2 ^ (x + 1)
  BY <1>2, <1>3, <1>4
<1> QED BY <1>5 DEF General!Log2

\* Log2 keeps the order.
LEMMA LogIsMonotone ==
  ASSUME NEW m \in Nat \ {0}, NEW n \in Nat \ {0}, m =< n
  PROVE  General!Log2(m) =< General!Log2(n)
<1>1. /\ General!Log2(m) \in Nat /\ General!Log2(n) \in Nat
      /\ 2 ^ General!Log2(m) =< m /\ n < 2 ^ (General!Log2(n) + 1)
  BY LogIsTheHighBit
<1>2. 2 ^ General!Log2(m) \in Nat
  BY <1>1, PowerIsPositive
<1>3. 2 ^ General!Log2(m) =< n
  BY <1>1, <1>2
<1> QED BY <1>1, <1>3, LogIsUnique

-----------------------------------------------------------------------------
\* Granularity units: every offset and size is a multiple of one.

Unit == Granularity
Multiples == {Unit * u : u \in Nat}

\* The granularity is positive.
LEMMA UnitIsPositive == Unit \in Nat \ {0} /\ PoolSize \in Nat /\ SlBits \in Nat
BY PoolAssumption, SuballocatorAssumption DEF IsPowerOfTwo, Unit

\* A multiple is the granularity times its quotient.
LEMMA MultiplesDivide ==
  ASSUME NEW x \in Multiples
  PROVE  x \in Nat /\ x % Unit = 0 /\ x \div Unit \in Nat /\ x = Unit * (x \div Unit)
<1>1. PICK u \in Nat : x = Unit * u
  BY DEF Multiples
<1>2. Unit \in Nat \ {0}
  BY UnitIsPositive
<1>3. \A g \in Nat \ {0} : \A q \in Nat : g * q \in Nat /\ (g * q) % g = 0 /\ (g * q) \div g = q
  OBVIOUS
<1> QED BY <1>1, <1>2, <1>3

\* Quotient and remainder.
LEMMA Division ==
  ASSUME NEW n \in Nat, NEW d \in Nat \ {0}
  PROVE  n = d * (n \div d) + (n % d) /\ n \div d \in Nat /\ d * (n \div d) \in Nat
<1>1. n = d * (n \div d) + (n % d) /\ n \div d \in Nat
  OBVIOUS
<1>2. \A p, q \in Nat : p * q \in Nat
  OBVIOUS
<1> QED BY <1>1, <1>2

\* Without a remainder, a multiple.
LEMMA DividedAreMultiples ==
  ASSUME NEW x \in Nat, x % Unit = 0
  PROVE  x \in Multiples
<1>1. Unit \in Nat \ {0}
  BY UnitIsPositive
<1>2. /\ x = Unit * (x \div Unit) + (x % Unit) /\ x \div Unit \in Nat
      /\ Unit * (x \div Unit) \in Nat
  BY <1>1, Division
<1>3. x = Unit * (x \div Unit)
  BY <1>2
<1> QED BY <1>2, <1>3 DEF Multiples

\* Sums, differences and the order of multiples, in units.
LEMMA MultiplesAdd ==
  ASSUME NEW x \in Multiples, NEW y \in Multiples
  PROVE  /\ x + y \in Multiples /\ (x >= y => x - y \in Multiples)
         /\ (x < y => x \div Unit < y \div Unit) /\ (x =< y => x \div Unit =< y \div Unit)
         /\ (x > 0 => x >= Unit /\ x \div Unit > 0)
         /\ (x < y => x + Unit =< y)
<1> DEFINE u == x \div Unit
           v == y \div Unit
<1>1. Unit \in Nat \ {0} /\ u \in Nat /\ v \in Nat /\ x = Unit * u /\ y = Unit * v
  BY UnitIsPositive, MultiplesDivide
<1> HIDE DEF u, v
<1>2. \A g, p, q \in Nat : g * (p + q) = g * p + g * q
  OBVIOUS
<1>3. x + y \in Multiples
  <2>1. x + y = Unit * (u + v) /\ u + v \in Nat BY <1>1, <1>2
  <2> QED BY <2>1 DEF Multiples
<1>4. \A g \in Nat \ {0} : \A p, q \in Nat : g * p < g * q => p < q
  OBVIOUS
<1>5. \A g \in Nat \ {0} : \A p, q \in Nat : g * p =< g * q => p =< q
  OBVIOUS
<1>6. \A g \in Nat \ {0} : \A p \in Nat : p > 0 => g * p >= g
  OBVIOUS
<1>7. x >= y => x - y \in Multiples
  <2> SUFFICES ASSUME x >= y PROVE x - y \in Multiples OBVIOUS
  <2>1. v =< u BY <1>1, <1>5
  <2>2. u - v \in Nat /\ v + (u - v) = u BY <2>1, <1>1
  <2>3. x = y + Unit * (u - v)
    BY <1>1, <1>2, <2>2
  <2>4. Unit * (u - v) \in Nat /\ y \in Nat BY <1>1, <2>2
  <2>5. x - y = Unit * (u - v) BY <2>3, <2>4
  <2> QED BY <2>2, <2>5 DEF Multiples
<1>8. x > 0 => x >= Unit /\ u > 0
  <2>1. Unit * 0 = 0 BY <1>1
  <2>2. x > 0 => u > 0 BY <1>1, <2>1
  <2> QED BY <1>1, <1>6, <2>2
<1>9. x < y => x + Unit =< y
  <2> SUFFICES ASSUME x < y PROVE x + Unit =< y OBVIOUS
  <2>1. u < v BY <1>1, <1>4
  <2>2. v - (u + 1) \in Nat /\ u + 1 \in Nat /\ (u + 1) + (v - (u + 1)) = v BY <2>1, <1>1
  <2>3. y = Unit * (u + 1) + Unit * (v - (u + 1)) BY <1>1, <1>2, <2>2
  <2>4. Unit * (u + 1) = Unit * u + Unit * 1 BY <1>1, <1>2
  <2>5. Unit * 1 = Unit /\ Unit * (v - (u + 1)) \in Nat BY <1>1, <2>2
  <2>6. x \in Nat BY <1>1
  <2> QED BY <1>1, <2>3, <2>4, <2>5, <2>6
<1> QED BY <1>1, <1>3, <1>4, <1>5, <1>7, <1>8, <1>9 DEF u, v

\* A power of two at or above the granularity is a multiple of it.
LEMMA PowersAreMultiples ==
  ASSUME NEW n, IsPowerOfTwo(n), n >= Unit
  PROVE  n \in Multiples
<1>1. PICK e \in 0 .. n : 2 ^ e = n
  BY DEF IsPowerOfTwo
<1>2. PICK g \in 0 .. Unit : 2 ^ g = Unit
  BY PoolAssumption DEF IsPowerOfTwo, Unit
<1>3. e \in Nat /\ g \in Nat /\ n \in Nat /\ Unit \in Nat \ {0}
  BY UnitIsPositive DEF IsPowerOfTwo
<1>4. CASE g =< e
  <2>1. PICK k \in Nat : g + k = e
    <3>1. e - g \in Nat /\ g + (e - g) = e BY <1>3, <1>4
    <3> QED BY <3>1
  <2>2. n = Unit * 2 ^ k
    <3>1. 2 ^ (g + k) = 2 ^ g * 2 ^ k BY <1>3, PowerOfASum
    <3> QED BY <1>1, <1>2, <2>1, <3>1
  <2>3. 2 ^ k \in Nat BY <2>1, PowerIsPositive
  <2> QED BY <2>2, <2>3 DEF Multiples
<1>5. CASE e < g
  <2>1. 2 ^ e =< 2 ^ g BY <1>3, <1>5, PowerIsMonotone
  <2>2. n = Unit BY <1>1, <1>2, <1>3, <2>1
  <2>3. n = Unit * 1 BY <1>3, <2>2
  <2> QED BY <2>3 DEF Multiples
<1> QED BY <1>3, <1>4, <1>5

\* What is aligned to such a power is a multiple too.
LEMMA AlignedAreMultiples ==
  ASSUME NEW a \in Multiples, a > 0, NEW x \in Nat, x % a = 0
  PROVE  x \in Multiples
<1>1. a \in Nat \ {0} /\ a = Unit * (a \div Unit) /\ a \div Unit \in Nat /\ Unit \in Nat
  BY MultiplesDivide, UnitIsPositive
<1> DEFINE p == a \div Unit
           q == x \div a
<1>2. q \in Nat /\ x = a * q
  <2>1. q \in Nat /\ x = a * q + (x % a) /\ a * q \in Nat BY <1>1, Division
  <2> HIDE DEF q
  <2> QED BY <2>1
<1>3. p \in Nat
  BY <1>1
<1> HIDE DEF p, q
<1>4. \A g, y, z \in Nat : (g * y) * z = g * (y * z) /\ y * z \in Nat
  OBVIOUS
<1>5. a = Unit * p
  BY <1>1 DEF p
<1>6. x = Unit * (p * q) /\ p * q \in Nat
  BY <1>1, <1>2, <1>3, <1>4, <1>5
<1> QED BY <1>6 DEF Multiples

\* Rounding adds less than what it rounds to.
LEMMA RoundingIsShort ==
  ASSUME NEW v \in Nat, NEW to \in Nat \ {0}
  PROVE  RoundUp(v, to) < v + to /\ (v % to = 0 => RoundUp(v, to) = v)
<1> DEFINE x == v + to - 1
<1>1. x \in Nat /\ x % to \in 0 .. to - 1
  OBVIOUS
<1>2. RoundUp(v, to) = x - (x % to)
  BY DEF RoundUp
<1>3. RoundUp(v, to) < v + to
  <2> HIDE DEF x
  <2>1. x - (x % to) =< x BY <1>1
  <2>2. x < v + to BY DEF x
  <2> QED BY <1>1, <1>2, <2>1, <2>2
<1>4. ASSUME v % to = 0 PROVE RoundUp(v, to) = v
  <2>1. v \div to \in Nat /\ v = to * (v \div to) + (v % to) /\ to * (v \div to) \in Nat BY Division
  <2>2. v = to * (v \div to)
    BY <2>1, <1>4
  <2>3. \A q \in Nat : (to * q + (to - 1)) % to = to - 1
    OBVIOUS
  <2>4. x = to * (v \div to) + (to - 1)
    BY <2>1, <2>2
  <2>5. x % to = to - 1
    <3> HIDE DEF x
    <3> QED BY <2>1, <2>3, <2>4
  <2> QED BY <1>2, <2>5
<1> QED BY <1>3, <1>4

-----------------------------------------------------------------------------
\* Size classes: a larger block is of no lower class, and one of the class that a
\* size rounds up to, or of a higher one, holds it.

Mantissa(u, e) == IF e < SlBits THEN u * 2 ^ (SlBits - e) ELSE u \div 2 ^ (e - SlBits)

\* Division keeps the order.
LEMMA DivIsMonotone ==
  ASSUME NEW a \in Nat, NEW b \in Nat, a =< b, NEW d \in Nat \ {0}
  PROVE  a \div d =< b \div d /\ (a + d) \div d = a \div d + 1
OBVIOUS

\* Bounds of a quotient.
LEMMA DivIsBetween ==
  ASSUME NEW a \in Nat, NEW d \in Nat \ {0}, NEW p \in Nat, NEW q \in Nat, p * d =< a, a < q * d
  PROVE  p =< a \div d /\ a \div d < q
<1>1. a = d * (a \div d) + (a % d) /\ a \div d \in Nat /\ d * (a \div d) \in Nat /\ a % d \in 0 .. d - 1
  BY Division
<1> DEFINE m == a \div d
<1>2. m \in Nat /\ d * m =< a /\ a < d * m + d
  BY <1>1
<1> HIDE DEF m
<1>3. \A g \in Nat \ {0} : \A x, y \in Nat : x * g < g * y + g => x =< y
  OBVIOUS
<1>4. \A g \in Nat \ {0} : \A x, y \in Nat : g * y < x * g => y < x
  OBVIOUS
<1>5. p * d \in Nat /\ q * d \in Nat /\ d * m \in Nat
  BY <1>2
<1>6. p * d < d * m + d /\ d * m < q * d
  BY <1>2, <1>5
<1> QED BY <1>2, <1>3, <1>4, <1>6 DEF m

\* The bits below the high one, with it, are of a fixed number.
LEMMA MantissaIsNormal ==
  ASSUME NEW u \in Nat, NEW e \in Nat, 2 ^ e =< u, u < 2 ^ (e + 1)
  PROVE  Mantissa(u, e) \in Nat /\ Mantissa(u, e) >= 2 ^ SlBits /\ Mantissa(u, e) < 2 * 2 ^ SlBits
<1>1. SlBits \in Nat /\ 2 ^ SlBits \in Nat /\ 2 ^ e \in Nat /\ 2 ^ (e + 1) = 2 * 2 ^ e
  BY UnitIsPositive, PowerIsPositive, PowerDoubles
<1>2. CASE e < SlBits
  <2> DEFINE d == 2 ^ (SlBits - e)
  <2>1. d \in Nat \ {0} /\ 2 ^ SlBits = 2 ^ e * d
    <3>1. PICK k \in Nat : k = SlBits - e /\ e + k = SlBits
      BY <1>1, <1>2
    <3>2. 2 ^ (e + k) = 2 ^ e * 2 ^ k
      BY PowerOfASum
    <3>3. 2 ^ k \in Nat \ {0}
      BY PowerIsPositive
    <3>4. d = 2 ^ k
      BY <3>1
    <3> HIDE DEF d
    <3> QED BY <3>1, <3>2, <3>3, <3>4
  <2> HIDE DEF d
  <2>2. \A p, x, g \in Nat : p =< x /\ x < 2 * p /\ g > 0 => p * g =< x * g /\ x * g < 2 * (p * g) /\ x * g \in Nat
    OBVIOUS
  <2>3. Mantissa(u, e) = u * d
    BY <1>2 DEF Mantissa, d
  <2> QED BY <1>1, <2>1, <2>2, <2>3
<1>3. CASE e >= SlBits
  <2> DEFINE d == 2 ^ (e - SlBits)
             m == 2 ^ SlBits
  <2>1. d \in Nat \ {0} /\ 2 ^ e = 2 ^ SlBits * d
    <3>1. PICK k \in Nat : k = e - SlBits /\ SlBits + k = e
      BY <1>1, <1>3
    <3>2. 2 ^ (SlBits + k) = 2 ^ SlBits * 2 ^ k
      BY <1>1, PowerOfASum
    <3>3. 2 ^ k \in Nat \ {0}
      BY PowerIsPositive
    <3>4. d = 2 ^ k
      BY <3>1
    <3> HIDE DEF d
    <3> QED BY <3>1, <3>2, <3>3, <3>4
  <2>2. Mantissa(u, e) = u \div d
    BY <1>1, <1>3 DEF Mantissa
  <2>3. m \in Nat /\ m * d = 2 ^ e
    BY <1>1, <2>1
  <2> HIDE DEF d, m
  <2>4. \A x, y \in Nat : 2 * (x * y) = (2 * x) * y
    OBVIOUS
  <2>5. m * d =< u /\ u < (2 * m) * d /\ 2 * m \in Nat
    BY <1>1, <2>1, <2>3, <2>4
  <2>6. m =< u \div d /\ u \div d < 2 * m /\ u \div d \in Nat
    BY <2>1, <2>3, <2>5, DivIsBetween, Division
  <2> QED BY <2>2, <2>6 DEF m
<1> QED BY <1>1, <1>2, <1>3

\* Of two sizes of one exponent the larger has the larger bits.
LEMMA MantissaIsMonotone ==
  ASSUME NEW u \in Nat, NEW v \in Nat, u =< v, NEW e \in Nat
  PROVE  Mantissa(u, e) =< Mantissa(v, e)
<1>1. SlBits \in Nat
  BY UnitIsPositive
<1>2. CASE e < SlBits
  <2>1. 2 ^ (SlBits - e) \in Nat
    <3>1. SlBits - e \in Nat BY <1>1, <1>2
    <3> QED BY <3>1, PowerIsPositive
  <2>2. \A x, y, g \in Nat : x =< y => x * g =< y * g
    OBVIOUS
  <2> QED BY <1>2, <2>1, <2>2 DEF Mantissa
<1>3. CASE e >= SlBits
  <2>1. 2 ^ (e - SlBits) \in Nat \ {0}
    <3>1. e - SlBits \in Nat BY <1>1, <1>3
    <3> QED BY <3>1, PowerIsPositive
  <2> QED BY <1>1, <1>3, <2>1, DivIsMonotone DEF Mantissa
<1> QED BY <1>1, <1>2, <1>3

\* A class is the exponent and the mantissa below its leading bit.
LEMMA ClassIsNormal ==
  ASSUME NEW u \in Nat \ {0}
  PROVE  LET e == General!Log2(u)
         IN  /\ General!Class(Unit * u) = <<e, Mantissa(u, e) - 2 ^ SlBits>>
             /\ e \in Nat /\ Mantissa(u, e) - 2 ^ SlBits \in 0 .. 2 ^ SlBits - 1
<1> DEFINE e == General!Log2(u)
           m == Mantissa(u, e)
           k == 2 ^ SlBits
<1>1. (Unit * u) \div Granularity = u
  <2>1. \A g \in Nat \ {0} : \A q \in Nat : (g * q) \div g = q
    OBVIOUS
  <2> QED BY <2>1, UnitIsPositive DEF Unit
<1>2. e \in Nat /\ 2 ^ e =< u /\ u < 2 ^ (e + 1)
  BY LogIsTheHighBit
<1>3. m \in Nat /\ m >= k /\ m < 2 * k /\ k \in Nat \ {0}
  <2> HIDE DEF e
  <2> QED BY <1>2, MantissaIsNormal, UnitIsPositive, PowerIsPositive
<1>4. General!Class(Unit * u) = <<e, m % k>>
  BY <1>1 DEF General!Class, General!SlCount, Mantissa
<1>5. \A x \in Nat, y \in Nat \ {0} : x >= y /\ x < 2 * y => x % y = x - y
  OBVIOUS
<1>6. m % k = m - k /\ m - k \in 0 .. k - 1
  <2> HIDE DEF m, k
  <2> QED BY <1>3, <1>5
<1> QED BY <1>2, <1>4, <1>6

\* A larger block is of no lower class.
LEMMA ClassIsMonotone ==
  ASSUME NEW u \in Nat \ {0}, NEW v \in Nat \ {0}, u =< v
  PROVE  General!AtLeast(General!Class(Unit * v), General!Class(Unit * u))
<1> DEFINE d == General!Log2(u)
           e == General!Log2(v)
<1>1. /\ General!Class(Unit * u) = <<d, Mantissa(u, d) - 2 ^ SlBits>> /\ d \in Nat
      /\ General!Class(Unit * v) = <<e, Mantissa(v, e) - 2 ^ SlBits>> /\ e \in Nat
      /\ Mantissa(u, d) - 2 ^ SlBits \in Int /\ Mantissa(v, e) - 2 ^ SlBits \in Int
  BY ClassIsNormal
<1>2. d =< e
  BY LogIsMonotone
<1>3. 2 ^ SlBits \in Nat
  BY UnitIsPositive, PowerIsPositive
<1>4. Mantissa(u, d) \in Nat /\ Mantissa(v, e) \in Nat
  BY LogIsTheHighBit, MantissaIsNormal
<1>5. d = e => Mantissa(u, d) =< Mantissa(v, e)
  BY <1>1, MantissaIsMonotone
<1> HIDE DEF d, e
<1> QED BY <1>1, <1>2, <1>3, <1>4, <1>5 DEF General!AtLeast

\* A block of the class a size is rounded up to, or of a higher one, holds it.
LEMMA ClassUpIsAGuarantee ==
  ASSUME NEW u \in Nat \ {0}, NEW v \in Nat \ {0},
         General!AtLeast(General!Class(Unit * u), General!ClassUp(Unit * v))
  PROVE  u >= v
<1> SUFFICES ASSUME u < v PROVE FALSE
  OBVIOUS
<1> DEFINE e == General!Log2(v)
           w == v + (IF e > SlBits THEN 2 ^ (e - SlBits) - 1 ELSE 0)
           d == General!Log2(u)
           f == General!Log2(w)
<1>1. SlBits \in Nat /\ 2 ^ SlBits \in Nat /\ Unit \in Nat \ {0}
  BY UnitIsPositive, PowerIsPositive
<1>2. e \in Nat /\ 2 ^ e =< v /\ v < 2 ^ (e + 1)
  BY LogIsTheHighBit
<1>3. e > SlBits => 2 ^ (e - SlBits) \in Nat \ {0}
  <2>1. e > SlBits => e - SlBits \in Nat
    <3> HIDE DEF e
    <3> QED BY <1>1, <1>2
  <2> QED BY <2>1, PowerIsPositive
<1>4. w \in Nat \ {0} /\ w >= v /\ (e =< SlBits => w = v)
      /\ (e > SlBits => w = v + 2 ^ (e - SlBits) - 1)
  <2> HIDE DEF e
  <2> QED BY <1>1, <1>2, <1>3
<1>5. General!ClassUp(Unit * v) = General!Class(Unit * w)
  <2>1. \A g \in Nat \ {0} : \A q \in Nat : (g * q) \div g = q
    OBVIOUS
  <2>2. (Unit * v) \div Granularity = v
    BY <2>1, <1>1 DEF Unit
  <2>3. General!ClassUp(Unit * v) = General!Class(w * Granularity)
    BY <2>2 DEF General!ClassUp
  <2>4. \A p, q \in Nat : p * q = q * p
    OBVIOUS
  <2>5. w * Granularity = Unit * w
    <3> HIDE DEF w
    <3> QED BY <1>1, <1>4, <2>4 DEF Unit
  <2> QED BY <2>3, <2>5
<1>6. d \in Nat /\ f \in Nat /\ d =< e /\ e =< f
  <2>1. u =< v /\ v =< w BY <1>4
  <2> HIDE DEF w
  <2> QED BY <1>4, <2>1, LogIsMonotone, LogIsTheHighBit
<1>7. /\ General!Class(Unit * u) = <<d, Mantissa(u, d) - 2 ^ SlBits>>
      /\ General!Class(Unit * w) = <<f, Mantissa(w, f) - 2 ^ SlBits>>
  <2> HIDE DEF w
  <2> QED BY <1>4, ClassIsNormal
<1>8. Mantissa(u, d) \in Nat /\ Mantissa(w, f) \in Nat
  <2> HIDE DEF w
  <2> QED BY <1>4, LogIsTheHighBit, MantissaIsNormal
<1>9. ASSUME d = f PROVE Mantissa(u, d) < Mantissa(w, f)
  <2>1. d = e /\ f = e BY <1>2, <1>6, <1>9
  <2>2. CASE e > SlBits
    <3> DEFINE k == 2 ^ (e - SlBits)
    <3>1. k \in Nat \ {0} /\ w = v + k - 1 BY <1>3, <1>4, <2>2
    <3>2. Mantissa(u, e) = u \div k /\ Mantissa(w, e) = w \div k
      <4>1. ~(e < SlBits)
        <5> HIDE DEF e
        <5> QED BY <1>1, <1>2, <2>2
      <4> QED BY <4>1 DEF Mantissa
    <3> HIDE DEF k, w
    <3>3. u + k \in Nat /\ w \in Nat /\ u + k =< w BY <3>1, <1>4
    <3>4. (u + k) \div k =< w \div k /\ (u + k) \div k = u \div k + 1
      <4>1. (u + k) \div k =< w \div k BY <3>1, <3>3, DivIsMonotone
      <4>2. u =< u /\ u \in Nat OBVIOUS
      <4>3. (u + k) \div k = u \div k + 1 BY <3>1, <4>2, DivIsMonotone
      <4> QED BY <4>1, <4>3
    <3>5. u \div k \in Nat /\ w \div k \in Nat BY <3>1, <1>4, Division
    <3>6. u \div k < w \div k BY <3>4, <3>5
    <3> QED BY <2>1, <3>2, <3>6
  <2>3. CASE e =< SlBits
    <3>1. w = v BY <1>4, <2>3
    <3>2. CASE e < SlBits
      <4>1. 2 ^ (SlBits - e) \in Nat \ {0}
        <5>1. SlBits - e \in Nat
          <6> HIDE DEF e
          <6> QED BY <1>1, <1>2, <3>2
        <5> QED BY <5>1, PowerIsPositive
      <4>2. \A x, y \in Nat, g \in Nat \ {0} : x < y => x * g < y * g
        OBVIOUS
      <4>3. Mantissa(u, e) < Mantissa(v, e)
        BY <3>2, <4>1, <4>2 DEF Mantissa
      <4> QED BY <2>1, <3>1, <4>3
    <3>3. CASE e = SlBits
      <4>1. 2 ^ (e - SlBits) = 1 /\ ~(e < SlBits)
        <5>1. e - SlBits = 0 /\ 2 ^ 0 = 1 /\ ~(e < SlBits) BY <1>1, <3>3
        <5> QED BY <5>1
      <4>2. \A x \in Nat : x \div 1 = x OBVIOUS
      <4>3. Mantissa(u, e) = u /\ Mantissa(v, e) = v BY <4>1, <4>2 DEF Mantissa
      <4> QED BY <2>1, <3>1, <4>3
    <3> QED BY <1>1, <1>2, <2>3, <3>2, <3>3
  <2> QED BY <1>1, <1>2, <2>2, <2>3
<1> HIDE DEF d, e, f, w
<1>10. General!AtLeast(<<d, Mantissa(u, d) - 2 ^ SlBits>>, <<f, Mantissa(w, f) - 2 ^ SlBits>>)
  BY <1>5, <1>7
<1>11. d = f /\ Mantissa(u, d) - 2 ^ SlBits >= Mantissa(w, f) - 2 ^ SlBits
  BY <1>1, <1>2, <1>6, <1>8, <1>10 DEF General!AtLeast
<1> QED BY <1>1, <1>8, <1>9, <1>11

-----------------------------------------------------------------------------
\* What the ranges of a set hold together: a fold, pinned down by the smallest set
\* at which two readings of it would part.

\* The sum of the sizes of a set's elements: the fold, and the equation it solves.
SizesOf(S) == General!FoldSet(LAMBDA a, n : n + a.size, 0, S)
Pick(s) == CHOOSE x \in s : TRUE
Adds(g, S) == g = [s \in SUBSET S |-> IF s = {} THEN 0 ELSE g[s \ {Pick(s)}] + Pick(s).size]
Sum(S) == CHOOSE g : Adds(g, S)

\* The fold is the chosen solution.
LEMMA SizesAreTheSum ==
  ASSUME NEW S
  PROVE  SizesOf(S) = Sum(S)[S]
BY DEF SizesOf, General!FoldSet, General!MapThenFoldSet, Adds, Sum, Pick

\* Two solutions agree where both are defined.
LEMMA SumIsUnique ==
  ASSUME NEW S, NEW T, NEW U, IsFiniteSet(U), U \subseteq S, U \subseteq T, NEW g, NEW h, Adds(g, S), Adds(h, T)
  PROVE  g[U] = h[U]
<1> DEFINE bad == {s \in SUBSET U : g[s] # h[s]}
<1>1. bad = {}
  <2> SUFFICES ASSUME bad # {} PROVE FALSE
    OBVIOUS
  <2>1. \E s \in bad : \A t \in bad : <<t, s>> \notin StrictSubsetOrdering(U)
    <3>1. IsWellFoundedOn(StrictSubsetOrdering(U), FiniteSubsetsOf(U))
      BY FS_StrictSubsetOrderingWellFounded
    <3>2. \A s \in SUBSET U : IsFiniteSet(s)
      BY FS_Subset
    <3>3. bad \subseteq FiniteSubsetsOf(U)
      BY <3>2 DEF FiniteSubsetsOf
    <3> HIDE DEF bad
    <3> QED BY <3>1, <3>3, WFMin
  <2>2. PICK s \in bad : \A t \in bad : <<t, s>> \notin StrictSubsetOrdering(U)
    BY <2>1
  <2>3. s \in SUBSET S /\ s \in SUBSET T
    OBVIOUS
  <2>4. g[s] = IF s = {} THEN 0 ELSE g[s \ {Pick(s)}] + Pick(s).size
    BY <2>3 DEF Adds
  <2>5. h[s] = IF s = {} THEN 0 ELSE h[s \ {Pick(s)}] + Pick(s).size
    BY <2>3 DEF Adds
  <2>6. s # {}
    BY <2>4, <2>5
  <2>7. Pick(s) \in s
    BY <2>6 DEF Pick
  <2>8. <<s \ {Pick(s)}, s>> \in StrictSubsetOrdering(U)
    BY <2>7 DEF StrictSubsetOrdering
  <2>9. g[s \ {Pick(s)}] = h[s \ {Pick(s)}]
    BY <2>2, <2>8
  <2> QED BY <2>4, <2>5, <2>6, <2>9
<1> QED BY <1>1

\* And every finite set has one.
LEMMA SumExists ==
  ASSUME NEW S, IsFiniteSet(S)
  PROVE  Adds(Sum(S), S)
<1> DEFINE bad == {s \in SUBSET S : \A g : ~Adds(g, s)}
<1>1. bad = {}
  <2> SUFFICES ASSUME bad # {} PROVE FALSE
    OBVIOUS
  <2>0. \A s \in SUBSET S : IsFiniteSet(s)
    BY FS_Subset
  <2>1. \E s \in bad : \A t \in bad : <<t, s>> \notin StrictSubsetOrdering(S)
    <3>1. IsWellFoundedOn(StrictSubsetOrdering(S), FiniteSubsetsOf(S))
      BY FS_StrictSubsetOrderingWellFounded
    <3>3. bad \subseteq FiniteSubsetsOf(S)
      BY <2>0 DEF FiniteSubsetsOf
    <3> HIDE DEF bad
    <3> QED BY <3>1, <3>3, WFMin
  <2>2. PICK s \in bad : \A t \in bad : <<t, s>> \notin StrictSubsetOrdering(S)
    BY <2>1
  <2>3. \A t \in SUBSET s : t # s => Adds(Sum(t), t)
    <3> SUFFICES ASSUME NEW t \in SUBSET s, t # s PROVE Adds(Sum(t), t)
      OBVIOUS
    <3>1. <<t, s>> \in StrictSubsetOrdering(S)
      BY DEF StrictSubsetOrdering
    <3>2. \E g : Adds(g, t)
      BY <2>2, <3>1
    <3> QED BY <3>2 DEF Sum
  <2> DEFINE rest(t) == t \ {Pick(t)}
             h == [t \in SUBSET s |-> IF t = {} THEN 0 ELSE Sum(rest(t))[rest(t)] + Pick(t).size]
  <2>4. ASSUME NEW t \in SUBSET s, t # s PROVE h[t] = Sum(t)[t]
    <3>1. Sum(t)[t] = IF t = {} THEN 0 ELSE Sum(t)[rest(t)] + Pick(t).size
      BY <2>3, <2>4 DEF Adds
    <3>2. CASE t = {}
      BY <3>1, <3>2
    <3>3. CASE t # {}
      <4>1. Pick(t) \in t /\ rest(t) \subseteq t /\ rest(t) # s /\ rest(t) \subseteq rest(t)
        BY <3>3 DEF Pick
      <4>2. IsFiniteSet(rest(t)) /\ Adds(Sum(rest(t)), rest(t)) /\ Adds(Sum(t), t)
        BY <4>1, <2>0, <2>3, <2>4
      <4>3. Sum(t)[rest(t)] = Sum(rest(t))[rest(t)]
        <5> HIDE DEF rest
        <5> QED BY <4>1, <4>2, SumIsUnique
      <4> QED BY <3>1, <3>3, <4>3
    <3> QED BY <3>2, <3>3
  <2>5. \A t \in SUBSET s : h[t] = IF t = {} THEN 0 ELSE h[rest(t)] + Pick(t).size
    <3> SUFFICES ASSUME NEW t \in SUBSET s, t # {} PROVE h[t] = h[rest(t)] + Pick(t).size
      OBVIOUS
    <3>1. Pick(t) \in t
      BY DEF Pick
    <3>2. rest(t) \in SUBSET s /\ rest(t) # s
      BY <3>1
    <3>3. h[rest(t)] = Sum(rest(t))[rest(t)]
      <4> HIDE DEF h, rest
      <4> QED BY <2>4, <3>2
    <3>4. h[t] = Sum(rest(t))[rest(t)] + Pick(t).size
      OBVIOUS
    <3> QED BY <3>3, <3>4
  <2>6. Adds(h, s)
    <3>1. h = [t \in SUBSET s |-> h[t]] OBVIOUS
    <3> HIDE DEF h
    <3> QED BY <2>5, <3>1 DEF Adds
  <2>7. \E g : Adds(g, s)
    BY <2>6
  <2> QED BY <2>7
<1>2. \E g : Adds(g, S)
  BY <1>1
<1> QED BY <1>2 DEF Sum

\* The fold takes one member off.
LEMMA SumUnfolds ==
  ASSUME NEW S, IsFiniteSet(S)
  PROVE  /\ SizesOf({}) = 0
         /\ S # {} => SizesOf(S) = SizesOf(S \ {Pick(S)}) + Pick(S).size
<1>1. SizesOf({}) = 0
  <2>1. Adds(Sum({}), {}) BY FS_EmptySet, SumExists
  <2> QED BY <2>1, SizesAreTheSum DEF Adds
<1>2. ASSUME S # {} PROVE SizesOf(S) = SizesOf(S \ {Pick(S)}) + Pick(S).size
  <2> DEFINE T == S \ {Pick(S)}
  <2>1. IsFiniteSet(T) /\ T \subseteq S
    BY FS_Subset
  <2>2. Adds(Sum(S), S) /\ Adds(Sum(T), T)
    BY <2>1, SumExists
  <2>3. Sum(S)[S] = Sum(S)[T] + Pick(S).size
    BY <2>2, <1>2 DEF Adds
  <2>4. Sum(S)[T] = Sum(T)[T]
    <3> HIDE DEF T
    <3> QED BY <2>1, <2>2, SumIsUnique
  <2> QED BY <2>3, <2>4, SizesAreTheSum
<1> QED BY <1>1, <1>2

\* The order does not matter: any element can be taken out first.
LEMMA SizesWithout ==
  ASSUME NEW S, IsFiniteSet(S), \A x \in S : x.size \in Nat
  PROVE  SizesOf(S) \in Nat /\ \A x \in S : SizesOf(S) = SizesOf(S \ {x}) + x.size
<1> DEFINE good(s) == SizesOf(s) \in Nat /\ \A x \in s : SizesOf(s) = SizesOf(s \ {x}) + x.size
           bad == {s \in SUBSET S : ~good(s)}
<1>1. bad = {}
  <2> SUFFICES ASSUME bad # {} PROVE FALSE
    OBVIOUS
  <2>0. \A s \in SUBSET S : IsFiniteSet(s)
    BY FS_Subset
  <2>1. \E s \in bad : \A t \in bad : <<t, s>> \notin StrictSubsetOrdering(S)
    <3>1. IsWellFoundedOn(StrictSubsetOrdering(S), FiniteSubsetsOf(S))
      BY FS_StrictSubsetOrderingWellFounded
    <3>3. bad \subseteq FiniteSubsetsOf(S)
      BY <2>0 DEF FiniteSubsetsOf
    <3> HIDE DEF bad
    <3> QED BY <3>1, <3>3, WFMin
  <2>2. PICK s \in bad : \A t \in bad : <<t, s>> \notin StrictSubsetOrdering(S)
    BY <2>1
  <2>3. \A t \in SUBSET s : t # s => good(t)
    <3> SUFFICES ASSUME NEW t \in SUBSET s, t # s PROVE good(t)
      OBVIOUS
    <3>1. <<t, s>> \in StrictSubsetOrdering(S)
      BY DEF StrictSubsetOrdering
    <3> HIDE DEF good
    <3> QED BY <2>2, <3>1
  <2>4. s # {}
    <3>1. 0 \in Nat OBVIOUS
    <3>2. good({})
      BY <3>1, <2>0, SumUnfolds
    <3> HIDE DEF good
    <3> QED BY <3>2
  <2>5. PICK y \in s : y = Pick(s) /\ SizesOf(s) = SizesOf(s \ {y}) + y.size
    <3>1. Pick(s) \in s BY <2>4 DEF Pick
    <3> QED BY <3>1, <2>0, <2>4, SumUnfolds
  <2>6. y.size \in Nat /\ SizesOf(s \ {y}) \in Nat
    <3>1. s \ {y} # s OBVIOUS
    <3> QED BY <3>1, <2>3
  <2>7. ASSUME NEW x \in s PROVE SizesOf(s) = SizesOf(s \ {x}) + x.size
    <3>1. CASE x = y
      BY <3>1, <2>5
    <3>2. CASE x # y
      <4>1. x \in s \ {y} /\ y \in s \ {x} /\ s \ {x} # s /\ s \ {y} # s
        BY <3>2
      <4> DEFINE u == (s \ {y}) \ {x}
      <4>2. u = (s \ {x}) \ {y} /\ u # s
        OBVIOUS
      <4>3. SizesOf(s \ {y}) = SizesOf(u) + x.size
        BY <4>1, <2>3
      <4>4. SizesOf(s \ {x}) = SizesOf(u) + y.size
        BY <4>1, <4>2, <2>3
      <4>5. SizesOf(u) \in Nat
        BY <4>2, <2>3
      <4>6. x.size \in Nat
        OBVIOUS
      <4> HIDE DEF u
      <4> QED BY <2>5, <2>6, <4>3, <4>4, <4>5, <4>6
    <3> QED BY <3>1, <3>2
  <2>8. SizesOf(s) \in Nat
    BY <2>5, <2>6
  <2>9. good(s)
    BY <2>7, <2>8
  <2> QED BY <2>9
<1>2. good(S)
  BY <1>1
<1> QED BY <1>2

\* One member more adds its size.
LEMMA SizesWith ==
  ASSUME NEW S, IsFiniteSet(S), \A y \in S : y.size \in Nat, NEW x, x.size \in Nat, x \notin S
  PROVE  SizesOf(S \union {x}) = SizesOf(S) + x.size /\ SizesOf(S) \in Nat
<1>1. IsFiniteSet(S \union {x}) /\ \A y \in S \union {x} : y.size \in Nat
  BY FS_AddElement
<1>2. (S \union {x}) \ {x} = S
  OBVIOUS
<1> QED BY <1>1, <1>2, SizesWithout

-----------------------------------------------------------------------------
\* A cover of the pool by blocks, and what stays of it when a run of them is
\* replaced by others that hold the same bytes.

Piece == [off : Multiples, size : Multiples \ {0}, free : BOOLEAN]
End(b) == b.off + b.size

\* s is a gapless cover of lo up to hi with no two free neighbours.
Covers(s, lo, hi) ==
  /\ s \in Seq(Piece) /\ Len(s) > 0
  /\ s[1].off = lo /\ End(s[Len(s)]) = hi
  /\ \A k \in 1 .. Len(s) - 1 : s[k + 1].off = End(s[k]) /\ ~(s[k].free /\ s[k + 1].free)
  /\ \A j, k \in 1 .. Len(s) : j < k => End(s[j]) =< s[k].off

\* A piece is not empty and its ends are multiples of the granularity.
LEMMA PiecesAreTyped ==
  ASSUME NEW b \in Piece
  PROVE  /\ b.off \in Nat /\ b.size \in Nat \ {0} /\ b.free \in BOOLEAN /\ End(b) \in Nat
         /\ b.off < End(b) /\ b.off \in Multiples /\ b.size \in Multiples /\ End(b) \in Multiples
         /\ b.size >= Unit
<1>1. b.off \in Multiples /\ b.size \in Multiples \ {0} /\ b.free \in BOOLEAN
  BY DEF Piece
<1>2. b.off \in Nat /\ b.size \in Nat
  BY <1>1, MultiplesDivide
<1>3. b.off + b.size \in Multiples /\ b.size >= Unit
  <2>1. b.size \in Multiples /\ b.size > 0 BY <1>1, <1>2
  <2>2. b.size >= Unit BY <2>1, MultiplesAdd
  <2>3. b.off + b.size \in Multiples BY <1>1, <2>1, MultiplesAdd
  <2> QED BY <2>2, <2>3
<1> QED BY <1>1, <1>2, <1>3, MultiplesDivide DEF End

\* Every piece lies inside, and no two start at the same place.
LEMMA CoversWithin ==
  ASSUME NEW s, NEW lo, NEW hi, Covers(s, lo, hi)
  PROVE  /\ Len(s) \in Nat /\ DOMAIN s = 1 .. Len(s) /\ lo \in Nat /\ hi \in Nat
         /\ \A k \in 1 .. Len(s) : s[k] \in Piece /\ lo =< s[k].off /\ End(s[k]) =< hi
         /\ \A j, k \in 1 .. Len(s) : s[j].off = s[k].off => j = k
<1>1. Len(s) \in Nat /\ Len(s) > 0 /\ DOMAIN s = 1 .. Len(s) /\ \A k \in 1 .. Len(s) : s[k] \in Piece
  BY DEF Covers
<1>2. \A k \in 1 .. Len(s) : s[k].off \in Nat /\ End(s[k]) \in Nat /\ s[k].off < End(s[k])
  BY <1>1, PiecesAreTyped
<1>3. lo = s[1].off /\ hi = End(s[Len(s)]) /\ 1 \in 1 .. Len(s) /\ Len(s) \in 1 .. Len(s)
  BY <1>1 DEF Covers
<1>4. lo \in Nat /\ hi \in Nat
  BY <1>2, <1>3
<1>5. ASSUME NEW k \in 1 .. Len(s) PROVE lo =< s[k].off /\ End(s[k]) =< hi
  <2>1. k = 1 \/ (1 < k /\ End(s[1]) =< s[k].off)
    BY <1>3 DEF Covers
  <2>2. k = Len(s) \/ (k < Len(s) /\ End(s[k]) =< s[Len(s)].off)
    <3>0. Len(s) \in Nat BY <1>1
    <3>1. k = Len(s) \/ k < Len(s) BY <3>0
    <3>2. k < Len(s) => End(s[k]) =< s[Len(s)].off BY <1>3 DEF Covers
    <3> QED BY <3>1, <3>2
  <2> QED BY <1>2, <1>3, <2>1, <2>2
<1>6. ASSUME NEW j \in 1 .. Len(s), NEW k \in 1 .. Len(s), s[j].off = s[k].off PROVE j = k
  <2>1. j < k => End(s[j]) =< s[k].off
    BY DEF Covers
  <2>2. k < j => End(s[k]) =< s[j].off
    BY DEF Covers
  <2> QED BY <1>2, <1>6, <2>1, <2>2
<1> QED BY <1>1, <1>4, <1>5, <1>6

Splice(s, i, j, m) == SubSeq(s, 1, i - 1) \o m \o SubSeq(s, j + 1, Len(s))

\* Where the elements of two sequences stand in their concatenation.
LEMMA ConcatAt ==
  ASSUME NEW S, NEW a \in Seq(S), NEW b \in Seq(S)
  PROVE  /\ a \o b \in Seq(S) /\ Len(a \o b) = Len(a) + Len(b) /\ Len(a) \in Nat /\ Len(b) \in Nat
         /\ \A n \in 1 .. Len(a) : (a \o b)[n] = a[n]
         /\ \A n \in 1 .. Len(b) : (a \o b)[Len(a) + n] = b[n]
OBVIOUS

\* Putting m in the place of the i-th to the j-th.
LEMMA SpliceAt ==
  ASSUME NEW s \in Seq(Piece), NEW m \in Seq(Piece), NEW i \in 1 .. Len(s), NEW j \in i .. Len(s)
  PROVE  LET t == Splice(s, i, j, m) IN
         /\ t \in Seq(Piece) /\ Len(t) = i - 1 + Len(m) + (Len(s) - j)
         /\ \A n \in 1 .. i - 1 : t[n] = s[n]
         /\ \A n \in 1 .. Len(m) : t[i - 1 + n] = m[n]
         /\ \A n \in 1 .. Len(s) - j : t[i - 1 + Len(m) + n] = s[j + n]
<1> DEFINE t == Splice(s, i, j, m)
           a == SubSeq(s, 1, i - 1)
           b == SubSeq(s, j + 1, Len(s))
<1>1. /\ Len(s) \in Nat /\ Len(m) \in Nat /\ i \in Nat /\ j \in Nat /\ 1 =< i /\ i =< j /\ j =< Len(s)
  OBVIOUS
<1>2. a \in Seq(Piece) /\ Len(a) = i - 1 /\ \A n \in 1 .. i - 1 : a[n] = s[n]
  BY <1>1
<1>3. b \in Seq(Piece) /\ Len(b) = Len(s) - j /\ \A n \in 1 .. Len(s) - j : b[n] = s[j + n]
  BY <1>1
<1> HIDE DEF a, b
<1>4. a \o m \in Seq(Piece) /\ Len(a \o m) = i - 1 + Len(m)
  BY <1>1, <1>2, ConcatAt
<1>5. /\ \A n \in 1 .. i - 1 : (a \o m)[n] = a[n]
      /\ \A n \in 1 .. Len(m) : (a \o m)[i - 1 + n] = m[n]
  <2>1. \A n \in 1 .. Len(a) : (a \o m)[n] = a[n]
    BY <1>2, ConcatAt
  <2>2. \A n \in 1 .. Len(m) : (a \o m)[Len(a) + n] = m[n]
    BY <1>2, ConcatAt
  <2> QED BY <1>2, <2>1, <2>2
<1> DEFINE c == a \o m
<1>6. c \in Seq(Piece) /\ Len(c) \in Nat /\ Len(c) = i - 1 + Len(m)
  BY <1>4
<1>7. t = c \o b
  BY DEF Splice, a, b
<1> HIDE DEF c
<1>8. /\ t \in Seq(Piece) /\ Len(t) = Len(c) + Len(b)
      /\ \A n \in 1 .. Len(c) : t[n] = c[n]
      /\ \A n \in 1 .. Len(b) : t[Len(c) + n] = b[n]
  <2>1. /\ c \o b \in Seq(Piece) /\ Len(c \o b) = Len(c) + Len(b)
        /\ \A n \in 1 .. Len(c) : (c \o b)[n] = c[n]
        /\ \A n \in 1 .. Len(b) : (c \o b)[Len(c) + n] = b[n]
    <3>1. c \in Seq(Piece) /\ b \in Seq(Piece) BY <1>3, <1>6
    <3> QED BY <3>1, ConcatAt
  <2> HIDE DEF t
  <2> QED BY <1>7, <2>1
<1>9. ASSUME NEW n \in 1 .. i - 1 PROVE t[n] = s[n]
  <2>1. n \in 1 .. Len(c) BY <1>1, <1>6
  <2> QED BY <1>2, <1>5, <1>8, <2>1 DEF c
<1>10. ASSUME NEW n \in 1 .. Len(m) PROVE t[i - 1 + n] = m[n]
  <2>1. i - 1 + n \in 1 .. Len(c) BY <1>1, <1>6
  <2> QED BY <1>5, <1>8, <2>1 DEF c
<1>11. ASSUME NEW n \in 1 .. Len(s) - j PROVE t[i - 1 + Len(m) + n] = s[j + n]
  <2>1. n \in 1 .. Len(b) BY <1>3
  <2>2. t[Len(c) + n] = b[n] BY <1>8, <2>1
  <2> QED BY <1>3, <1>6, <2>2
<1>12. Len(t) = i - 1 + Len(m) + (Len(s) - j)
  <2> HIDE DEF t
  <2> QED BY <1>1, <1>3, <1>6, <1>8
<1> QED BY <1>8, <1>9, <1>10, <1>11, <1>12

\* A run replaced by pieces that cover the same bytes.
LEMMA SpliceCovers ==
  ASSUME NEW s, NEW lo, NEW hi, Covers(s, lo, hi), NEW i \in 1 .. Len(s), NEW j \in i .. Len(s),
         NEW m, Covers(m, s[i].off, End(s[j])),
         i > 1 => ~(s[i - 1].free /\ m[1].free),
         j < Len(s) => ~(m[Len(m)].free /\ s[j + 1].free)
  PROVE  Covers(Splice(s, i, j, m), lo, hi)
<1> DEFINE t == Splice(s, i, j, m)
           L == Len(m)
           at(n) == IF n < i THEN s[n] ELSE IF n < i + L THEN m[n - i + 1] ELSE s[n - i - L + 1 + j]
<1>1. /\ s \in Seq(Piece) /\ m \in Seq(Piece) /\ L \in Nat /\ L > 0
      /\ Len(s) \in Nat /\ i \in Nat /\ j \in Nat /\ 1 =< i /\ i =< j /\ j =< Len(s)
  BY DEF Covers
<1>2. /\ t \in Seq(Piece) /\ Len(t) = i - 1 + L + (Len(s) - j)
      /\ \A n \in 1 .. i - 1 : t[n] = s[n]
      /\ \A n \in 1 .. L : t[i - 1 + n] = m[n]
      /\ \A n \in 1 .. Len(s) - j : t[i - 1 + L + n] = s[j + n]
  BY <1>1, SpliceAt
<1> HIDE DEF t
<1>3. \A n \in 1 .. Len(t) : t[n] = at(n)
  <2> SUFFICES ASSUME NEW n \in 1 .. Len(t) PROVE t[n] = at(n)
    OBVIOUS
  <2>1. CASE n < i
    BY <1>1, <1>2, <2>1
  <2>2. CASE n >= i /\ n < i + L
    <3>1. n - i + 1 \in 1 .. L /\ i - 1 + (n - i + 1) = n BY <1>1, <2>2
    <3>2. t[i - 1 + (n - i + 1)] = m[n - i + 1] BY <1>2, <3>1
    <3> QED BY <1>1, <2>2, <3>1, <3>2
  <2>3. CASE n >= i + L
    <3> DEFINE q == n - i - L + 1
    <3>1. q \in 1 .. Len(s) - j /\ i - 1 + L + q = n /\ q + j = j + q /\ ~(n < i) /\ ~(n < i + L)
      BY <1>1, <1>2, <2>3
    <3>2. t[i - 1 + L + q] = s[j + q]
      <4> HIDE DEF q
      <4> QED BY <1>2, <3>1
    <3> QED BY <3>1, <3>2
  <2> QED BY <1>1, <2>1, <2>2, <2>3
<1>4. \A k \in 1 .. Len(s) : s[k] \in Piece /\ s[k].off \in Nat /\ End(s[k]) \in Nat /\ s[k].off < End(s[k])
  BY CoversWithin, PiecesAreTyped
<1>5. \A k \in 1 .. L : /\ m[k] \in Piece /\ m[k].off \in Nat /\ End(m[k]) \in Nat
                        /\ s[i].off =< m[k].off /\ End(m[k]) =< End(s[j])
  BY CoversWithin, PiecesAreTyped
<1>6. i \in 1 .. Len(s) /\ j \in 1 .. Len(s) /\ \A a, b \in 1 .. Len(s) : a < b => End(s[a]) =< s[b].off
  BY <1>1 DEF Covers
<1>7. \A a, b \in 1 .. L : a < b => End(m[a]) =< m[b].off
  BY DEF Covers
<1>0. \A x, y, z \in Nat : x =< y /\ y =< z => x =< z
  OBVIOUS
<1>8. ASSUME NEW a \in 1 .. Len(t), NEW b \in 1 .. Len(t), a < b PROVE End(t[a]) =< t[b].off
  <2>1. t[a] = at(a) /\ t[b] = at(b)
    BY <1>3
  <2>2. CASE a < i
    <3>1. a \in 1 .. Len(s) /\ t[a] = s[a] /\ End(s[a]) =< s[i].off BY <1>1, <1>6, <2>1, <2>2
    <3>2. CASE b < i
      <4>1. b \in 1 .. Len(s) /\ t[b] = s[b] BY <1>1, <2>1, <3>2
      <4> QED BY <1>6, <1>8, <3>1, <4>1
    <3>3. CASE b >= i /\ b < i + L
      <4>1. b - i + 1 \in 1 .. L /\ t[b] = m[b - i + 1] BY <1>1, <2>1, <3>3
      <4>2. s[i].off =< m[b - i + 1].off /\ m[b - i + 1].off \in Nat BY <1>5, <4>1
      <4>3. End(s[a]) \in Nat /\ s[i].off \in Nat BY <1>4, <1>6, <3>1
      <4>4. End(s[a]) =< m[b - i + 1].off
        <5> DEFINE x == End(s[a]) y == s[i].off z == m[b - i + 1].off
        <5>1. x \in Nat /\ y \in Nat /\ z \in Nat /\ x =< y /\ y =< z
          BY <3>1, <4>2, <4>3
        <5> HIDE DEF x, y, z
        <5>2. x =< z
          BY <1>0, <5>1
        <5> QED BY <5>2 DEF x, z
      <4> QED BY <3>1, <4>1, <4>4
    <3>4. CASE b >= i + L
      <4>1. b - i - L + 1 + j \in 1 .. Len(s) /\ a < b - i - L + 1 + j /\ t[b] = s[b - i - L + 1 + j]
        BY <1>1, <1>2, <2>1, <2>2, <3>4
      <4> QED BY <1>6, <3>1, <4>1
    <3> QED BY <1>1, <3>2, <3>3, <3>4
  <2>3. CASE a >= i /\ a < i + L
    <3>1. a - i + 1 \in 1 .. L /\ t[a] = m[a - i + 1] BY <1>1, <2>1, <2>3
    <3>2. CASE b < i + L
      <4>1. b - i + 1 \in 1 .. L /\ a - i + 1 < b - i + 1 /\ t[b] = m[b - i + 1]
        BY <1>1, <1>8, <2>1, <2>3, <3>2
      <4> QED BY <1>7, <3>1, <4>1
    <3>3. CASE b >= i + L
      <4>1. b - i - L + 1 + j \in 1 .. Len(s) /\ j < b - i - L + 1 + j /\ t[b] = s[b - i - L + 1 + j]
        BY <1>1, <1>2, <2>1, <3>3
      <4>2. End(s[j]) =< s[b - i - L + 1 + j].off /\ s[b - i - L + 1 + j].off \in Nat
        BY <1>4, <1>6, <4>1
      <4>3. End(m[a - i + 1]) =< End(s[j]) /\ End(m[a - i + 1]) \in Nat /\ End(s[j]) \in Nat
        BY <1>4, <1>5, <1>6, <3>1
      <4>4. End(m[a - i + 1]) =< s[b - i - L + 1 + j].off
        <5> DEFINE x == End(m[a - i + 1]) y == End(s[j]) z == s[b - i - L + 1 + j].off
        <5>1. x \in Nat /\ y \in Nat /\ z \in Nat /\ x =< y /\ y =< z
          BY <4>2, <4>3
        <5> HIDE DEF x, y, z
        <5>2. x =< z
          BY <1>0, <5>1
        <5> QED BY <5>2 DEF x, z
      <4> QED BY <3>1, <4>1, <4>4
    <3> QED BY <1>1, <3>2, <3>3
  <2>4. CASE a >= i + L
    <3>1. /\ a - i - L + 1 + j \in 1 .. Len(s) /\ t[a] = s[a - i - L + 1 + j]
          /\ b - i - L + 1 + j \in 1 .. Len(s) /\ t[b] = s[b - i - L + 1 + j]
          /\ a - i - L + 1 + j < b - i - L + 1 + j
      <4>1. t[a] = s[a - i - L + 1 + j] /\ t[b] = s[b - i - L + 1 + j]
        BY <1>8, <2>1, <2>4
      <4>2. /\ a - i - L + 1 + j \in 1 .. Len(s) /\ b - i - L + 1 + j \in 1 .. Len(s)
            /\ a - i - L + 1 + j < b - i - L + 1 + j
        <5> DEFINE n == Len(s)
                   w == Len(t)
        <5>1. /\ n \in Nat /\ L \in Nat /\ i \in Nat /\ j \in Nat /\ a \in Nat /\ b \in Nat
              /\ i + L =< a /\ a < b /\ b =< w /\ w = i - 1 + L + (n - j) /\ j >= 1
          BY <1>1, <1>2, <1>8, <2>4
        <5> HIDE DEF n, w, L
        <5>2. /\ a - i - L + 1 + j \in 1 .. n /\ b - i - L + 1 + j \in 1 .. n
              /\ a - i - L + 1 + j < b - i - L + 1 + j
          BY <5>1
        <5> QED BY <5>2 DEF n
      <4> QED BY <4>1, <4>2
    <3> QED BY <1>6, <3>1
  <2> QED BY <1>1, <2>2, <2>3, <2>4
<1>9. \A k \in 1 .. Len(s) - 1 : s[k + 1].off = End(s[k]) /\ ~(s[k].free /\ s[k + 1].free)
  BY DEF Covers
<1>10. \A k \in 1 .. L - 1 : m[k + 1].off = End(m[k]) /\ ~(m[k].free /\ m[k + 1].free)
  BY DEF Covers
<1>11. m[1].off = s[i].off /\ End(m[L]) = End(s[j])
  BY DEF Covers
<1>12. ASSUME NEW k \in 1 .. Len(t) - 1 PROVE t[k + 1].off = End(t[k]) /\ ~(t[k].free /\ t[k + 1].free)
  <2>1. t[k] = at(k) /\ t[k + 1] = at(k + 1)
    <3>1. k \in 1 .. Len(t) /\ k + 1 \in 1 .. Len(t) BY <1>1, <1>2
    <3> QED BY <1>3, <3>1
  <2>2. CASE k + 1 < i
    <3>1. k \in 1 .. Len(s) - 1 /\ t[k] = s[k] /\ t[k + 1] = s[k + 1] BY <1>1, <2>1, <2>2
    <3> QED BY <1>9, <3>1
  <2>3. CASE k + 1 = i
    <3>1. /\ k \in 1 .. Len(s) - 1 /\ t[k] = s[k] /\ t[k + 1] = m[1] /\ k = i - 1 /\ i > 1
          /\ s[k + 1] = s[i]
      BY <1>1, <2>1, <2>3
    <3>2. s[i].off = End(s[k])
      BY <1>9, <3>1
    <3>3. ~(s[k].free /\ m[1].free)
      BY <3>1
    <3> QED BY <1>11, <3>1, <3>2, <3>3
  <2>4. CASE k >= i /\ k + 1 < i + L
    <3>1. /\ k - i + 1 \in 1 .. L - 1 /\ t[k] = m[k - i + 1]
          /\ t[k + 1] = m[(k - i + 1) + 1]
      BY <1>1, <2>1, <2>4
    <3> QED BY <1>10, <3>1
  <2>5. CASE k + 1 = i + L
    <3>0. /\ k - i + 1 = L /\ (k + 1) - i - L + 1 + j = j + 1 /\ ~(k < i) /\ k < i + L
          /\ ~(k + 1 < i) /\ ~(k + 1 < i + L) /\ j < Len(s) /\ j \in 1 .. Len(s) - 1
      <4> HIDE DEF L
      <4> QED BY <1>1, <1>2, <2>5
    <3>1. /\ t[k] = m[L] /\ t[k + 1] = s[j + 1] /\ j < Len(s) /\ j \in 1 .. Len(s) - 1
      <4> HIDE DEF L
      <4> QED BY <2>1, <3>0
    <3>2. s[j + 1].off = End(s[j])
      BY <1>9, <3>1
    <3> QED BY <1>11, <3>1, <3>2
  <2>6. CASE k >= i + L
    <3>1. /\ k - i - L + 1 + j \in 1 .. Len(s) - 1 /\ t[k] = s[k - i - L + 1 + j]
          /\ t[k + 1] = s[(k - i - L + 1 + j) + 1]
      BY <1>1, <1>2, <2>1, <2>6
    <3> QED BY <1>9, <3>1
  <2> QED BY <1>1, <2>2, <2>3, <2>4, <2>5, <2>6
<1>13. t[1].off = lo /\ Len(t) > 0
  <2>1. 1 \in 1 .. Len(t) /\ Len(t) > 0 BY <1>1, <1>2
  <2>2. s[1].off = lo BY DEF Covers
  <2>3. i = 1 \/ i > 1 BY <1>1
  <2>4. t[1] = IF i = 1 THEN m[1] ELSE s[1] BY <1>1, <1>3, <2>1
  <2> QED BY <1>11, <2>1, <2>2, <2>3, <2>4
<1>14. End(t[Len(t)]) = hi
  <2>1. End(s[Len(s)]) = hi BY DEF Covers
  <2>2. Len(t) \in 1 .. Len(t) BY <1>1, <1>2
  <2>3. CASE j = Len(s)
    <3>1. t[Len(t)] = m[L] BY <1>1, <1>2, <1>3, <2>2, <2>3
    <3> QED BY <1>11, <2>1, <2>3, <3>1
  <2>4. CASE j < Len(s)
    <3>1. t[Len(t)] = s[Len(s)]
      <4>1. ~(Len(t) < i + L) /\ ~(Len(t) < i) /\ Len(t) - i - L + 1 + j = Len(s)
        BY <1>1, <1>2, <2>4
      <4>2. t[Len(t)] = at(Len(t)) BY <1>3, <2>2
      <4> HIDE DEF L
      <4> QED BY <4>1, <4>2
    <3> QED BY <2>1, <3>1
  <2> QED BY <1>1, <2>3, <2>4
<1> QED BY <1>2, <1>8, <1>12, <1>13, <1>14 DEF Covers, t

\* The free pieces and the taken ones.
FreeOf(s) == {s[k] : k \in {n \in 1 .. Len(s) : s[n].free}}
TakenOf(s) == {s[k] : k \in {n \in 1 .. Len(s) : ~s[n].free}}

\* The run from i to j is the members of gone.
Stand(gone, s, i, j) == \A k \in 1 .. Len(s) : s[k] \in gone <=> k \in i .. j

LEMMA SpliceKeeps ==
  ASSUME NEW s, NEW lo, NEW hi, Covers(s, lo, hi), NEW i \in 1 .. Len(s), NEW j \in i .. Len(s),
         NEW m \in Seq(Piece),
         NEW gone, Stand(gone, s, i, j)
  PROVE  /\ FreeOf(Splice(s, i, j, m)) = (FreeOf(s) \ gone) \union FreeOf(m)
         /\ TakenOf(Splice(s, i, j, m)) = (TakenOf(s) \ gone) \union TakenOf(m)
<1> DEFINE L == Len(m)
           t == Splice(s, i, j, m)
<1>1. /\ s \in Seq(Piece) /\ L \in Nat
      /\ Len(s) \in Nat /\ i \in Nat /\ j \in Nat /\ 1 =< i /\ i =< j /\ j =< Len(s)
  BY DEF Covers
<1>2. /\ t \in Seq(Piece) /\ Len(t) = i - 1 + L + (Len(s) - j)
      /\ \A n \in 1 .. i - 1 : t[n] = s[n]
      /\ \A n \in 1 .. L : t[i - 1 + n] = m[n]
      /\ \A n \in 1 .. Len(s) - j : t[i - 1 + L + n] = s[j + n]
  BY <1>1, SpliceAt
<1>3. \A k \in 1 .. Len(s) : s[k] \in gone <=> k \in i .. j
  BY DEF Stand
<1>4. \A n \in 1 .. Len(t) : \/ \E k \in 1 .. Len(s) : k \notin i .. j /\ t[n] = s[k]
                             \/ \E k \in 1 .. L : t[n] = m[k]
  <2> SUFFICES ASSUME NEW n \in 1 .. Len(t)
               PROVE  \/ \E k \in 1 .. Len(s) : k \notin i .. j /\ t[n] = s[k]
                      \/ \E k \in 1 .. L : t[n] = m[k]
    OBVIOUS
  <2>1. CASE n < i
    <3>1. n \in 1 .. Len(s) /\ n \notin i .. j /\ t[n] = s[n] BY <1>1, <1>2, <2>1
    <3> QED BY <3>1
  <2>2. CASE n >= i /\ n < i + L
    <3>1. n - i + 1 \in 1 .. L /\ i - 1 + (n - i + 1) = n BY <1>1, <2>2
    <3>2. t[i - 1 + (n - i + 1)] = m[n - i + 1] BY <1>2, <3>1
    <3> QED BY <3>1, <3>2
  <2>3. CASE n >= i + L
    <3> DEFINE q == n - i - L + 1
    <3>1. q \in 1 .. Len(s) - j /\ i - 1 + L + q = n /\ j + q \in 1 .. Len(s) /\ j + q \notin i .. j
      BY <1>1, <1>2, <2>3
    <3> HIDE DEF q
    <3>2. t[i - 1 + L + q] = s[j + q] BY <1>2, <3>1
    <3> QED BY <3>1, <3>2
  <2> QED BY <1>1, <2>1, <2>2, <2>3
<1>5. \A k \in 1 .. Len(s) : k \notin i .. j => \E n \in 1 .. Len(t) : t[n] = s[k]
  <2> SUFFICES ASSUME NEW k \in 1 .. Len(s), k \notin i .. j PROVE \E n \in 1 .. Len(t) : t[n] = s[k]
    OBVIOUS
  <2>1. CASE k < i
    <3>1. k \in 1 .. i - 1 /\ k \in 1 .. Len(t) BY <1>1, <1>2, <2>1
    <3> QED BY <1>2, <3>1
  <2>2. CASE k > j
    <3> DEFINE q == k - j
    <3>1. q \in 1 .. Len(s) - j /\ i - 1 + L + q \in 1 .. Len(t) /\ j + q = k
      BY <1>1, <1>2, <2>2
    <3> HIDE DEF q
    <3>2. t[i - 1 + L + q] = s[j + q] BY <1>2, <3>1
    <3> QED BY <3>1, <3>2
  <2> QED BY <1>1, <2>1, <2>2
<1>6. \A k \in 1 .. L : \E n \in 1 .. Len(t) : t[n] = m[k]
  <2> SUFFICES ASSUME NEW k \in 1 .. L PROVE \E n \in 1 .. Len(t) : t[n] = m[k]
    OBVIOUS
  <2>1. i - 1 + k \in 1 .. Len(t) BY <1>1, <1>2
  <2> QED BY <1>2, <2>1
<1> HIDE DEF L
<1>7. \A x : x \in FreeOf(t) <=> x \in (FreeOf(s) \ gone) \union FreeOf(m)
  <2>1. ASSUME NEW x, x \in FreeOf(t) PROVE x \in (FreeOf(s) \ gone) \union FreeOf(m)
    <3>1. PICK n \in 1 .. Len(t) : t[n].free /\ x = t[n] BY <2>1 DEF FreeOf
    <3>2. CASE \E k \in 1 .. Len(s) : k \notin i .. j /\ t[n] = s[k]
      BY <1>3, <3>1, <3>2 DEF FreeOf
    <3>3. CASE \E k \in 1 .. L : t[n] = m[k]
      BY <3>1, <3>3 DEF FreeOf, L
    <3> QED BY <1>4, <3>2, <3>3
  <2>2. ASSUME NEW x, x \in FreeOf(s) \ gone PROVE x \in FreeOf(t)
    <3>1. PICK k \in 1 .. Len(s) : s[k].free /\ x = s[k] /\ k \notin i .. j BY <1>3, <2>2 DEF FreeOf
    <3> QED BY <1>5, <3>1 DEF FreeOf
  <2>3. ASSUME NEW x, x \in FreeOf(m) PROVE x \in FreeOf(t)
    BY <1>6, <2>3 DEF FreeOf, L
  <2> QED BY <2>1, <2>2, <2>3
<1>8. \A x : x \in TakenOf(t) <=> x \in (TakenOf(s) \ gone) \union TakenOf(m)
  <2>1. ASSUME NEW x, x \in TakenOf(t) PROVE x \in (TakenOf(s) \ gone) \union TakenOf(m)
    <3>1. PICK n \in 1 .. Len(t) : ~t[n].free /\ x = t[n] BY <2>1 DEF TakenOf
    <3>2. CASE \E k \in 1 .. Len(s) : k \notin i .. j /\ t[n] = s[k]
      BY <1>3, <3>1, <3>2 DEF TakenOf
    <3>3. CASE \E k \in 1 .. L : t[n] = m[k]
      BY <3>1, <3>3 DEF TakenOf, L
    <3> QED BY <1>4, <3>2, <3>3
  <2>2. ASSUME NEW x, x \in TakenOf(s) \ gone PROVE x \in TakenOf(t)
    <3>1. PICK k \in 1 .. Len(s) : ~s[k].free /\ x = s[k] /\ k \notin i .. j BY <1>3, <2>2 DEF TakenOf
    <3> QED BY <1>5, <3>1 DEF TakenOf
  <2>3. ASSUME NEW x, x \in TakenOf(m) PROVE x \in TakenOf(t)
    BY <1>6, <2>3 DEF TakenOf, L
  <2> QED BY <2>1, <2>2, <2>3
<1> QED BY <1>7, <1>8

-----------------------------------------------------------------------------
\* The lists of free blocks.

LEMMA UsableIsAMultiple ==
  General!Usable \in Multiples /\ General!Usable > 0 /\ General!Usable =< PoolSize
    /\ General!Usable \div Unit =< PoolSize \div Unit
<1>1. Unit \in Nat \ {0} /\ PoolSize \in Nat /\ PoolSize >= Unit
  BY PoolAssumption, UnitIsPositive DEF Unit
<1> DEFINE x == PoolSize - (PoolSize % Unit)
<1>2. x \in Nat /\ x > PoolSize - Unit /\ x % Unit = 0
  BY <1>1, LessItsRemainder
<1>3. PoolSize % Unit \in 0 .. Unit - 1
  BY <1>1
<1>4. x > 0 /\ x =< PoolSize
  BY <1>1, <1>2, <1>3
<1>5. General!Usable = x
  BY DEF General!Usable, Unit
<1> HIDE DEF x
<1>6. x \in Multiples
  BY <1>2, DividedAreMultiples
<1>7. x \div Unit =< PoolSize \div Unit
  BY <1>1, <1>2, <1>4, DivIsMonotone
<1> QED BY <1>4, <1>5, <1>6, <1>7

\* Every block has a class there is a list for.
LEMMA ClassesAreEnough ==
  ASSUME NEW x \in Multiples \ {0}, x =< General!Usable
  PROVE  General!Class(x) \in General!Classes
<1> DEFINE u == x \div Unit
           p == PoolSize \div Unit
<1>1. x \in Nat /\ x > 0 /\ u \in Nat /\ x = Unit * u
  BY MultiplesDivide
<1>2. u > 0
  BY <1>1, MultiplesAdd
<1>3. u =< General!Usable \div Unit /\ General!Usable \div Unit =< p
  BY UsableIsAMultiple, MultiplesAdd
<1>4. p \in Nat /\ General!Usable \div Unit \in Nat
  BY UnitIsPositive, UsableIsAMultiple, MultiplesDivide, Division
<1> HIDE DEF u
<1>5. u \in Nat \ {0} /\ p \in Nat \ {0} /\ u =< p
  <2> HIDE DEF p
  <2> QED BY <1>1, <1>2, <1>3, <1>4
<1>6. General!Log2(u) \in Nat /\ General!Log2(p) \in Nat /\ General!Log2(u) =< General!Log2(p)
  <2> HIDE DEF p
  <2> QED BY <1>5, LogIsMonotone, LogIsTheHighBit
<1>7. /\ General!Class(x) = <<General!Log2(u), Mantissa(u, General!Log2(u)) - 2 ^ SlBits>>
      /\ Mantissa(u, General!Log2(u)) - 2 ^ SlBits \in 0 .. 2 ^ SlBits - 1
  BY <1>1, <1>5, ClassIsNormal
<1>8. General!Log2(u) \in 0 .. General!FlCount - 1
  BY <1>6 DEF General!FlCount, Unit
<1> QED BY <1>7, <1>8 DEF General!Classes, General!SlCount

\* The lists hold the blocks of F: each entry is the offset of one of its class,
\* no entry is there twice, and every block has one.
Matches(ls, F) ==
  /\ ls \in [General!Classes -> Seq(Multiples)]
  /\ \A c \in General!Classes : \A p \in 1 .. Len(ls[c]) :
       \E b \in F : b.off = ls[c][p] /\ General!Class(b.size) = c
  /\ \A c \in General!Classes : \A p, q \in 1 .. Len(ls[c]) : ls[c][p] = ls[c][q] => p = q
  /\ \A b \in F : General!Class(b.size) \in General!Classes
                    /\ \E p \in 1 .. Len(ls[General!Class(b.size)]) : ls[General!Class(b.size)][p] = b.off

Apart(F) == \A x, y \in F : x.off = y.off => x = y

\* A block more, on the list of its class.
LEMMA InsertMatches ==
  ASSUME NEW F, NEW ls, Matches(ls, F), NEW b \in Piece, General!Class(b.size) \in General!Classes,
         \A x \in F : x.off # b.off
  PROVE  Matches(General!Insert(ls, b), F \union {b})
<1> DEFINE c == General!Class(b.size)
           new == <<b.off>> \o ls[c]
           ls2 == General!Insert(ls, b)
<1>1. b.off \in Multiples
  BY PiecesAreTyped
<1>2. ls \in [General!Classes -> Seq(Multiples)] /\ c \in General!Classes /\ ls[c] \in Seq(Multiples)
  BY DEF Matches
<1> HIDE DEF c
<1>3. <<b.off>> \in Seq(Multiples) /\ Len(<<b.off>>) = 1 /\ <<b.off>>[1] = b.off /\ 1 \in 1 .. 1
  BY <1>1
<1>4. /\ new \in Seq(Multiples) /\ Len(new) = 1 + Len(ls[c]) /\ Len(ls[c]) \in Nat
      /\ new[1] = b.off /\ \A n \in 1 .. Len(ls[c]) : new[1 + n] = ls[c][n]
  <2>1. /\ new \in Seq(Multiples) /\ Len(new) = Len(<<b.off>>) + Len(ls[c]) /\ Len(ls[c]) \in Nat
        /\ \A n \in 1 .. Len(<<b.off>>) : new[n] = <<b.off>>[n]
        /\ \A n \in 1 .. Len(ls[c]) : new[Len(<<b.off>>) + n] = ls[c][n]
    BY <1>2, <1>3, ConcatAt
  <2> QED BY <1>3, <2>1
<1>5. ls2 = [ls EXCEPT ![c] = new]
  BY DEF General!Insert, c
<1> HIDE DEF new, ls2
<1>6. ls2 \in [General!Classes -> Seq(Multiples)] /\ ls2[c] = new
      /\ \A d \in General!Classes : d # c => ls2[d] = ls[d]
  BY <1>2, <1>4, <1>5
<1>7. \A n \in 1 .. Len(new) : n = 1 \/ (n - 1 \in 1 .. Len(ls[c]) /\ new[n] = ls[c][n - 1])
  <2> SUFFICES ASSUME NEW n \in 1 .. Len(new), n # 1 PROVE n - 1 \in 1 .. Len(ls[c]) /\ new[n] = ls[c][n - 1]
    OBVIOUS
  <2>1. n - 1 \in 1 .. Len(ls[c]) /\ 1 + (n - 1) = n BY <1>4
  <2> QED BY <1>4, <2>1
<1>8. \A n \in 1 .. Len(ls[c]) : ls[c][n] # b.off
  BY <1>2 DEF Matches
<1>9. ASSUME NEW d \in General!Classes, NEW p \in 1 .. Len(ls2[d])
      PROVE  \E x \in F \union {b} : x.off = ls2[d][p] /\ General!Class(x.size) = d
  <2>1. CASE d # c
    <3>1. p \in 1 .. Len(ls[d]) /\ ls2[d][p] = ls[d][p] BY <1>6, <1>9, <2>1
    <3>2. \E x \in F : x.off = ls[d][p] /\ General!Class(x.size) = d BY <3>1 DEF Matches
    <3> QED BY <3>1, <3>2
  <2>2. CASE d = c
    <3>1. p \in 1 .. Len(new) /\ ls2[d][p] = new[p] BY <1>6, <1>9, <2>2
    <3>2. CASE p = 1
      <4>1. b.off = ls2[d][p] /\ General!Class(b.size) = d BY <1>4, <2>2, <3>1, <3>2 DEF c
      <4> QED BY <4>1
    <3>3. CASE p # 1
      <4>1. p - 1 \in 1 .. Len(ls[c]) /\ new[p] = ls[c][p - 1] BY <1>7, <3>1, <3>3
      <4>2. \E x \in F : x.off = ls[c][p - 1] /\ General!Class(x.size) = c BY <1>2, <4>1 DEF Matches
      <4> QED BY <2>2, <3>1, <4>1, <4>2
    <3> QED BY <3>2, <3>3
  <2> QED BY <2>1, <2>2
<1>10. ASSUME NEW d \in General!Classes, NEW p \in 1 .. Len(ls2[d]), NEW q \in 1 .. Len(ls2[d]), ls2[d][p] = ls2[d][q]
       PROVE  p = q
  <2>1. CASE d # c
    <3>1. p \in 1 .. Len(ls[d]) /\ q \in 1 .. Len(ls[d]) /\ ls[d][p] = ls[d][q] BY <1>6, <1>10, <2>1
    <3> QED BY <3>1 DEF Matches
  <2>2. CASE d = c
    <3>1. p \in 1 .. Len(new) /\ q \in 1 .. Len(new) /\ new[p] = new[q] BY <1>6, <1>10, <2>2
    <3>2. CASE p = 1 \/ q = 1
      BY <1>4, <1>7, <1>8, <3>1, <3>2
    <3>3. CASE p # 1 /\ q # 1
      <4>1. /\ p - 1 \in 1 .. Len(ls[c]) /\ q - 1 \in 1 .. Len(ls[c])
            /\ ls[c][p - 1] = ls[c][q - 1]
        BY <1>7, <3>1, <3>3
      <4>2. p - 1 = q - 1 BY <1>2, <4>1 DEF Matches
      <4> QED BY <1>4, <3>1, <4>2
    <3> QED BY <3>2, <3>3
  <2> QED BY <2>1, <2>2
<1>11. ASSUME NEW x \in F \union {b}
       PROVE  General!Class(x.size) \in General!Classes
                /\ \E p \in 1 .. Len(ls2[General!Class(x.size)]) : ls2[General!Class(x.size)][p] = x.off
  <2>1. CASE x = b
    <3>1. General!Class(x.size) = c /\ 1 \in 1 .. Len(new) /\ new[1] = b.off BY <1>4, <2>1 DEF c
    <3> QED BY <1>2, <1>6, <2>1, <3>1
  <2>2. CASE x \in F
    <3>1. General!Class(x.size) \in General!Classes BY <2>2 DEF Matches
    <3>2. PICK p \in 1 .. Len(ls[General!Class(x.size)]) : ls[General!Class(x.size)][p] = x.off
      BY <2>2 DEF Matches
    <3>3. CASE General!Class(x.size) # c
      BY <1>6, <3>1, <3>2, <3>3
    <3>4. CASE General!Class(x.size) = c
      <4>1. 1 + p \in 1 .. Len(new) /\ new[1 + p] = x.off BY <1>4, <3>2, <3>4
      <4> QED BY <1>6, <3>1, <3>4, <4>1
    <3> QED BY <3>3, <3>4
  <2> QED BY <2>1, <2>2
<1>12. Matches(ls2, F \union {b})
  BY <1>6, <1>9, <1>10, <1>11 DEF Matches
<1> QED BY <1>12 DEF ls2

\* A sequence without its i-th element.
LEMMA RemovedAt ==
  ASSUME NEW s \in Seq(Multiples), NEW i \in 1 .. Len(s)
  PROVE  LET t == General!RemoveAt(s, i) IN
         /\ t \in Seq(Multiples) /\ Len(t) = Len(s) - 1 /\ Len(s) \in Nat
         /\ \A n \in 1 .. Len(s) - 1 : t[n] = IF n < i THEN s[n] ELSE s[n + 1]
<1> DEFINE t == General!RemoveAt(s, i)
           a == SubSeq(s, 1, i - 1)
           b == SubSeq(s, i + 1, Len(s))
<1>1. Len(s) \in Nat /\ i \in Nat /\ 1 =< i /\ i =< Len(s)
  OBVIOUS
<1>2. a \in Seq(Multiples) /\ Len(a) = i - 1 /\ \A n \in 1 .. i - 1 : a[n] = s[n]
  BY <1>1
<1>3. b \in Seq(Multiples) /\ Len(b) = Len(s) - i /\ \A n \in 1 .. Len(s) - i : b[n] = s[i + n]
  BY <1>1
<1>4. t = a \o b
  BY DEF General!RemoveAt
<1> HIDE DEF a, b, t
<1>5. /\ a \o b \in Seq(Multiples) /\ Len(a \o b) = Len(a) + Len(b)
      /\ \A n \in 1 .. Len(a) : (a \o b)[n] = a[n]
      /\ \A n \in 1 .. Len(b) : (a \o b)[Len(a) + n] = b[n]
  <2>1. a \in Seq(Multiples) /\ b \in Seq(Multiples) BY <1>2, <1>3
  <2> QED BY <2>1, ConcatAt
<1>6. ASSUME NEW n \in 1 .. Len(s) - 1 PROVE t[n] = IF n < i THEN s[n] ELSE s[n + 1]
  <2>1. CASE n < i
    <3>1. n \in 1 .. i - 1 BY <1>1, <2>1
    <3> QED BY <1>2, <1>4, <1>5, <2>1, <3>1
  <2>2. CASE n >= i
    <3> DEFINE q == n - (i - 1)
    <3>1. q \in 1 .. Len(s) - i /\ i - 1 + q = n /\ i + q = n + 1 /\ ~(n < i) BY <1>1, <2>2
    <3> HIDE DEF q
    <3>2. (a \o b)[i - 1 + q] = b[q] /\ b[q] = s[i + q] BY <1>2, <1>3, <1>5, <3>1
    <3> QED BY <1>4, <3>1, <3>2
  <2> QED BY <1>1, <2>1, <2>2
<1>7. t \in Seq(Multiples) /\ Len(t) = Len(s) - 1
  BY <1>1, <1>2, <1>3, <1>4, <1>5
<1> QED BY <1>1, <1>6, <1>7 DEF t

\* A block less, taken off the list of its class.
LEMMA UnlinkMatches ==
  ASSUME NEW F, NEW ls, Matches(ls, F), Apart(F), NEW b \in F
  PROVE  Matches(General!Unlink(ls, b), F \ {b})
<1> DEFINE c == General!Class(b.size)
           i == General!Node(ls[c], b.off)
           new == General!RemoveAt(ls[c], i)
           ls2 == General!Unlink(ls, b)
<1>1. /\ ls \in [General!Classes -> Seq(Multiples)] /\ c \in General!Classes /\ ls[c] \in Seq(Multiples)
      /\ \E p \in 1 .. Len(ls[c]) : ls[c][p] = b.off
  BY DEF Matches
<1>2. DOMAIN ls[c] = 1 .. Len(ls[c]) /\ Len(ls[c]) \in Nat
  <2> HIDE DEF c
  <2> QED BY <1>1
<1>3. i \in 1 .. Len(ls[c]) /\ ls[c][i] = b.off
  BY <1>1, <1>2 DEF General!Node
<1>4. ls2 = [ls EXCEPT ![c] = new]
  BY DEF General!Unlink
<1> HIDE DEF c, i
<1>5. /\ new \in Seq(Multiples) /\ Len(new) = Len(ls[c]) - 1
      /\ \A n \in 1 .. Len(ls[c]) - 1 : new[n] = IF n < i THEN ls[c][n] ELSE ls[c][n + 1]
  BY <1>1, <1>3, RemovedAt
<1> HIDE DEF new, ls2
<1>6. ls2 \in [General!Classes -> Seq(Multiples)] /\ ls2[c] = new
      /\ \A d \in General!Classes : d # c => ls2[d] = ls[d]
  BY <1>1, <1>4, <1>5
<1>7. \A n \in 1 .. Len(new) : \E m \in 1 .. Len(ls[c]) :
        m # i /\ new[n] = ls[c][m] /\ m = IF n < i THEN n ELSE n + 1
  <2> SUFFICES ASSUME NEW n \in 1 .. Len(new)
               PROVE  \E m \in 1 .. Len(ls[c]) : m # i /\ new[n] = ls[c][m] /\ m = IF n < i THEN n ELSE n + 1
    OBVIOUS
  <2>0. n \in 1 .. Len(ls[c]) - 1 BY <1>2, <1>5
  <2>1. CASE n < i
    <3>1. n \in 1 .. Len(ls[c]) /\ n # i BY <1>2, <1>3, <2>0, <2>1
    <3> QED BY <1>5, <2>0, <2>1, <3>1
  <2>2. CASE ~(n < i)
    <3>1. n + 1 \in 1 .. Len(ls[c]) /\ n + 1 # i BY <1>2, <1>3, <2>0, <2>2
    <3> QED BY <1>5, <2>0, <2>2, <3>1
  <2> QED BY <2>1, <2>2
<1>8. \A m \in 1 .. Len(ls[c]) : m # i => \E n \in 1 .. Len(new) : new[n] = ls[c][m]
  <2> SUFFICES ASSUME NEW m \in 1 .. Len(ls[c]), m # i PROVE \E n \in 1 .. Len(new) : new[n] = ls[c][m]
    OBVIOUS
  <2>1. CASE m < i
    <3>1. m \in 1 .. Len(ls[c]) - 1 BY <1>2, <1>3, <2>1
    <3> QED BY <1>5, <2>1, <3>1
  <2>2. CASE m > i
    <3>1. m - 1 \in 1 .. Len(ls[c]) - 1 /\ ~(m - 1 < i) /\ (m - 1) + 1 = m BY <1>2, <1>3, <2>2
    <3>2. new[m - 1] = ls[c][m] BY <1>5, <3>1
    <3> QED BY <1>5, <3>1, <3>2
  <2> QED BY <1>2, <1>3, <2>1, <2>2
<1>9. \A p, q \in 1 .. Len(ls[c]) : ls[c][p] = ls[c][q] => p = q
  BY <1>1 DEF Matches
<1>10. ASSUME NEW d \in General!Classes, NEW p \in 1 .. Len(ls2[d])
       PROVE  \E x \in F \ {b} : x.off = ls2[d][p] /\ General!Class(x.size) = d
  <2>1. CASE d # c
    <3>1. p \in 1 .. Len(ls[d]) /\ ls2[d][p] = ls[d][p] BY <1>6, <1>10, <2>1
    <3>2. PICK x \in F : x.off = ls[d][p] /\ General!Class(x.size) = d BY <3>1 DEF Matches
    <3>3. x # b BY <2>1, <3>2 DEF c
    <3> QED BY <3>1, <3>2, <3>3
  <2>2. CASE d = c
    <3>1. p \in 1 .. Len(new) /\ ls2[d][p] = new[p] BY <1>6, <1>10, <2>2
    <3>2. PICK m \in 1 .. Len(ls[c]) : m # i /\ new[p] = ls[c][m] BY <1>7, <3>1
    <3>3. PICK x \in F : x.off = ls[c][m] /\ General!Class(x.size) = c BY <1>1, <3>2 DEF Matches
    <3>4. x # b BY <1>3, <1>9, <3>2, <3>3
    <3> QED BY <2>2, <3>1, <3>2, <3>3, <3>4
  <2> QED BY <2>1, <2>2
<1>11. ASSUME NEW d \in General!Classes, NEW p \in 1 .. Len(ls2[d]), NEW q \in 1 .. Len(ls2[d]), ls2[d][p] = ls2[d][q]
       PROVE  p = q
  <2>1. CASE d # c
    <3>1. p \in 1 .. Len(ls[d]) /\ q \in 1 .. Len(ls[d]) /\ ls[d][p] = ls[d][q] BY <1>6, <1>11, <2>1
    <3> QED BY <3>1 DEF Matches
  <2>2. CASE d = c
    <3>1. p \in 1 .. Len(new) /\ q \in 1 .. Len(new) /\ new[p] = new[q] BY <1>6, <1>11, <2>2
    <3>2. PICK m \in 1 .. Len(ls[c]) : new[p] = ls[c][m] /\ m = IF p < i THEN p ELSE p + 1 BY <1>7, <3>1
    <3>3. PICK n \in 1 .. Len(ls[c]) : new[q] = ls[c][n] /\ n = IF q < i THEN q ELSE q + 1 BY <1>7, <3>1
    <3>4. m = n BY <1>9, <3>1, <3>2, <3>3
    <3>5. p \in Nat /\ q \in Nat /\ i \in Nat BY <1>3, <3>1
    <3> QED BY <3>2, <3>3, <3>4, <3>5
  <2> QED BY <2>1, <2>2
<1>12. ASSUME NEW x \in F \ {b}
       PROVE  General!Class(x.size) \in General!Classes
                /\ \E p \in 1 .. Len(ls2[General!Class(x.size)]) : ls2[General!Class(x.size)][p] = x.off
  <2>1. General!Class(x.size) \in General!Classes BY DEF Matches
  <2>2. PICK p \in 1 .. Len(ls[General!Class(x.size)]) : ls[General!Class(x.size)][p] = x.off
    BY DEF Matches
  <2>3. CASE General!Class(x.size) # c
    BY <1>6, <2>1, <2>2, <2>3
  <2>4. CASE General!Class(x.size) = c
    <3>1. p # i BY <1>3, <2>2, <2>4 DEF Apart
    <3>2. PICK n \in 1 .. Len(new) : new[n] = ls[c][p] BY <1>8, <2>2, <2>4, <3>1
    <3> QED BY <1>6, <2>1, <2>2, <2>4, <3>2
  <2> QED BY <2>3, <2>4
<1>13. Matches(ls2, F \ {b})
  BY <1>6, <1>10, <1>11, <1>12 DEF Matches
<1> QED BY <1>13 DEF ls2

-----------------------------------------------------------------------------
\* The invariant of the general pool: its blocks cover it, its lists hold the free
\* ones, the ranges handed out are the others, and the counters count them.

Same(a, b) == a.off = b.off /\ a.size = b.size

Tiled == Covers(phys, 0, General!Usable)
Listed == Matches(lists, FreeOf(phys))
Owned ==
  /\ \A a \in handed : \E b \in TakenOf(phys) : Same(a, b)
  /\ \A b \in TakenOf(phys) : \E a \in handed : Same(a, b)
  /\ Apart(handed)
Counted ==
  /\ IsFiniteSet(handed) /\ IsFiniteSet(FreeOf(phys))
  /\ count = Cardinality(handed) /\ blocks = Cardinality(FreeOf(phys))
  /\ inUse \in Nat /\ inUse = SizesOf(handed)
  /\ inUse + SizesOf(FreeOf(phys)) = General!Usable
GInv == Tiled /\ Listed /\ Owned /\ Counted

\* Every block stands somewhere in the cover, and starts where no other does.
LEMMA BlocksAreApart ==
  ASSUME Tiled
  PROVE  /\ FreeOf(phys) \subseteq Piece /\ TakenOf(phys) \subseteq Piece
         /\ Len(phys) \in Nat /\ DOMAIN phys = 1 .. Len(phys)
         /\ \A x, y \in FreeOf(phys) \union TakenOf(phys) : x.off = y.off => x = y
         /\ \A x \in FreeOf(phys) : x.free
         /\ \A x \in TakenOf(phys) : ~x.free
         /\ \A k \in 1 .. Len(phys) : /\ phys[k].free => phys[k] \in FreeOf(phys)
                                      /\ ~phys[k].free => phys[k] \in TakenOf(phys)
         /\ \A x, y \in FreeOf(phys) \union TakenOf(phys) : x # y => Disjoint(x, y)
         /\ \A x \in FreeOf(phys) \union TakenOf(phys) : /\ x.off + x.size =< General!Usable
                                                         /\ x.size =< General!Usable
<1>1. /\ Len(phys) \in Nat /\ DOMAIN phys = 1 .. Len(phys)
      /\ \A k \in 1 .. Len(phys) : phys[k] \in Piece /\ End(phys[k]) =< General!Usable
      /\ \A j, k \in 1 .. Len(phys) : phys[j].off = phys[k].off => j = k
  BY CoversWithin DEF Tiled
<1>2. \A x \in FreeOf(phys) \union TakenOf(phys) : \E k \in 1 .. Len(phys) : x = phys[k]
  BY DEF FreeOf, TakenOf
<1>3. FreeOf(phys) \subseteq Piece /\ TakenOf(phys) \subseteq Piece
  BY <1>1, <1>2
<1>4. \A x, y \in FreeOf(phys) \union TakenOf(phys) : x.off = y.off => x = y
  BY <1>1, <1>2
<1>5. /\ \A x \in FreeOf(phys) : x.free
      /\ \A x \in TakenOf(phys) : ~x.free
      /\ \A k \in 1 .. Len(phys) : /\ phys[k].free => phys[k] \in FreeOf(phys)
                                   /\ ~phys[k].free => phys[k] \in TakenOf(phys)
  BY DEF FreeOf, TakenOf
<1>6. ASSUME NEW x \in FreeOf(phys) \union TakenOf(phys), NEW y \in FreeOf(phys) \union TakenOf(phys), x # y
      PROVE  Disjoint(x, y)
  <2>1. PICK j \in 1 .. Len(phys) : x = phys[j] BY <1>2
  <2>2. PICK k \in 1 .. Len(phys) : y = phys[k] BY <1>2
  <2>3. j < k \/ k < j BY <1>6, <2>1, <2>2
  <2>4. /\ j < k => End(phys[j]) =< phys[k].off
        /\ k < j => End(phys[k]) =< phys[j].off
    BY DEF Tiled, Covers
  <2> QED BY <2>1, <2>2, <2>3, <2>4 DEF Disjoint, End
<1>7. ASSUME NEW x \in FreeOf(phys) \union TakenOf(phys)
      PROVE  x.off + x.size =< General!Usable /\ x.size =< General!Usable
  <2>1. PICK k \in 1 .. Len(phys) : x = phys[k] BY <1>2
  <2>2. x.off \in Nat /\ x.size \in Nat /\ End(x) =< General!Usable BY <1>1, <2>1, PiecesAreTyped
  <2>3. General!Usable \in Nat BY UsableIsAMultiple, MultiplesDivide
  <2> QED BY <2>2, <2>3 DEF End
<1> QED BY <1>1, <1>3, <1>4, <1>5, <1>6, <1>7

\* The block looked up by its offset is the one that starts there.
LEMMA BlockAtIsIt ==
  ASSUME Tiled, NEW b \in FreeOf(phys) \union TakenOf(phys)
  PROVE  /\ General!BlockAt(b.off) \in 1 .. Len(phys) /\ phys[General!BlockAt(b.off)] = b
<1>1. \E k \in 1 .. Len(phys) : phys[k] = b
  BY DEF FreeOf, TakenOf
<1>2. DOMAIN phys = 1 .. Len(phys) /\ \A j, k \in 1 .. Len(phys) : phys[j].off = phys[k].off => j = k
  BY CoversWithin DEF Tiled
<1>3. \E k \in DOMAIN phys : phys[k].off = b.off
  BY <1>1, <1>2
<1>4. General!BlockAt(b.off) \in DOMAIN phys /\ phys[General!BlockAt(b.off)].off = b.off
  BY <1>3 DEF General!BlockAt
<1> QED BY <1>1, <1>2, <1>4

-----------------------------------------------------------------------------
\* Of some classes there is a lowest and a highest.
LEMMA LowestClass ==
  ASSUME NEW C \in SUBSET General!Classes, C # {}
  PROVE  \E d \in C : \A e \in C : General!AtLeast(e, d)
<1> DEFINE F == {d[1] : d \in C}
<1>0. \A d \in C : d[1] \in Nat /\ d[2] \in Nat /\ d = <<d[1], d[2]>>
  BY DEF General!Classes
<1>1. F \in SUBSET Nat /\ F # {}
  BY <1>0
<1>2. PICK f \in F : \A g \in F : f =< g
  <2> HIDE DEF F
  <2> QED BY <1>1, LeastOfNaturals
<1> DEFINE S == {d[2] : d \in {e \in C : e[1] = f}}
<1>3. S \in SUBSET Nat /\ S # {}
  BY <1>0
<1>4. PICK s \in S : \A t \in S : s =< t
  <2> HIDE DEF S
  <2> QED BY <1>3, LeastOfNaturals
<1>5. PICK d \in C : d[1] = f /\ d[2] = s
  OBVIOUS
<1>6. ASSUME NEW e \in C PROVE General!AtLeast(e, d)
  <2>1. e[1] \in Nat /\ d[1] \in Nat /\ e[2] \in Nat /\ d[2] \in Nat BY <1>0
  <2>2. d[1] =< e[1] BY <1>2, <1>5
  <2>3. e[1] = d[1] => d[2] =< e[2] BY <1>4, <1>5
  <2> QED BY <2>1, <2>2, <2>3 DEF General!AtLeast
<1> QED BY <1>6

\* And a highest.
LEMMA HighestClass ==
  ASSUME NEW C \in SUBSET General!Classes, C # {}
  PROVE  \E d \in C : \A e \in C : General!AtLeast(d, e)
<1> DEFINE F == {d[1] : d \in C}
<1>0. \A d \in C : /\ d[1] \in Nat /\ d[2] \in Nat /\ d = <<d[1], d[2]>>
                   /\ d[1] =< General!FlCount - 1 /\ d[2] =< General!SlCount - 1
  BY DEF General!Classes
<1>1. F \in SUBSET Nat /\ F # {} /\ \A g \in F : g =< General!FlCount - 1
  BY <1>0
<1>a. General!FlCount - 1 \in Nat /\ General!SlCount - 1 \in Nat
  <2>1. PoolSize \div Unit \in Nat \ {0}
    <3>1. Unit \in Nat \ {0} /\ PoolSize \in Nat /\ 1 \in Nat /\ 1 * Unit =< PoolSize
      BY PoolAssumption, UnitIsPositive DEF Unit
    <3>2. PoolSize \div Unit \in Nat BY <3>1, Division
    <3>3. Unit \div Unit = 1 /\ Unit \div Unit =< PoolSize \div Unit BY <3>1, DivIsMonotone
    <3> QED BY <3>2, <3>3
  <2>2. General!Log2(PoolSize \div Unit) \in Nat
    BY <2>1, LogIsTheHighBit
  <2>3. 2 ^ SlBits \in Nat \ {0}
    BY UnitIsPositive, PowerIsPositive
  <2>4. General!Log2(PoolSize \div Unit) + 2 - 1 \in Nat
    BY <2>2
  <2>5. 2 ^ SlBits - 1 \in Nat
    BY <2>3
  <2>6. General!FlCount = General!Log2(PoolSize \div Unit) + 2 /\ General!SlCount = 2 ^ SlBits
    BY DEF General!FlCount, General!SlCount, Unit
  <2>7. General!SlCount - 1 \in Nat
    BY <2>5, <2>6
  <2>8. General!FlCount - 1 \in Nat
    <3> DEFINE l == General!Log2(PoolSize \div Unit)
    <3>1. l \in Nat /\ General!FlCount = l + 2 BY <2>2, <2>6
    <3> HIDE DEF l
    <3> QED BY <3>1
  <2> QED BY <2>7, <2>8
<1>2. PICK f \in F : \A g \in F : g =< f
  <2> HIDE DEF F
  <2> QED BY <1>1, <1>a, GreatestOfNaturals
<1> DEFINE S == {d[2] : d \in {e \in C : e[1] = f}}
<1>3. S \in SUBSET Nat /\ S # {} /\ \A s \in S : s =< General!SlCount - 1
  BY <1>0
<1>4. PICK s \in S : \A t \in S : t =< s
  <2> HIDE DEF S
  <2> QED BY <1>3, <1>a, GreatestOfNaturals
<1>5. PICK d \in C : d[1] = f /\ d[2] = s
  OBVIOUS
<1>6. ASSUME NEW e \in C PROVE General!AtLeast(d, e)
  <2>1. e[1] \in Nat /\ d[1] \in Nat /\ e[2] \in Nat /\ d[2] \in Nat BY <1>0
  <2>2. e[1] =< d[1] BY <1>2, <1>5
  <2>3. e[1] = d[1] => e[2] =< d[2] BY <1>4, <1>5
  <2> QED BY <2>1, <2>2, <2>3 DEF General!AtLeast
<1> QED BY <1>6

\* A list the search returns is of free blocks of a class no lower than asked.
LEMMA CandidatesAreFree ==
  ASSUME Tiled, Listed, NEW c, General!Candidates(c) # <<>>
  PROVE  /\ General!Candidates(c) \in Seq(Multiples) /\ Len(General!Candidates(c)) \in Nat
         /\ Len(General!Candidates(c)) > 0
         /\ DOMAIN General!Candidates(c) = 1 .. Len(General!Candidates(c))
         /\ \A p \in 1 .. Len(General!Candidates(c)) :
              \E b \in FreeOf(phys) : /\ b.off = General!Candidates(c)[p]
                                      /\ General!AtLeast(General!Class(b.size), c)
<1> DEFINE nonEmpty == {d \in General!Classes : lists[d] # <<>> /\ General!AtLeast(d, c)}
           d == CHOOSE x \in nonEmpty : \A e \in nonEmpty : General!AtLeast(e, x)
<1>1. nonEmpty # {} /\ General!Candidates(c) = lists[d]
  BY DEF General!Candidates
<1>2. d \in nonEmpty
  <2>1. nonEmpty \in SUBSET General!Classes OBVIOUS
  <2>2. \E x \in nonEmpty : \A e \in nonEmpty : General!AtLeast(e, x)
    <3> HIDE DEF nonEmpty
    <3> QED BY <1>1, <2>1, LowestClass
  <2> QED BY <2>2
<1>3. d \in General!Classes /\ General!AtLeast(d, c) /\ lists[d] # <<>>
  BY <1>2
<1> HIDE DEF d, nonEmpty
<1>4. lists[d] \in Seq(Multiples)
  BY <1>3 DEF Listed, Matches
<1>5. Len(lists[d]) \in Nat /\ Len(lists[d]) > 0 /\ DOMAIN lists[d] = 1 .. Len(lists[d])
  BY <1>3, <1>4
<1>6. \A p \in 1 .. Len(lists[d]) : \E b \in FreeOf(phys) : b.off = lists[d][p] /\ General!Class(b.size) = d
  BY <1>3 DEF Listed, Matches
<1> QED BY <1>1, <1>3, <1>4, <1>5, <1>6

\* None is returned only when no free block is of such a class.
LEMMA NoCandidates ==
  ASSUME Tiled, Listed, NEW c, General!Candidates(c) = <<>>
  PROVE  \A b \in FreeOf(phys) : ~General!AtLeast(General!Class(b.size), c)
<1> SUFFICES ASSUME NEW b \in FreeOf(phys), General!AtLeast(General!Class(b.size), c) PROVE FALSE
  OBVIOUS
<1> DEFINE nonEmpty == {d \in General!Classes : lists[d] # <<>> /\ General!AtLeast(d, c)}
           d == CHOOSE x \in nonEmpty : \A e \in nonEmpty : General!AtLeast(e, x)
           e == General!Class(b.size)
<1>1. e \in General!Classes /\ \E p \in 1 .. Len(lists[e]) : lists[e][p] = b.off
  BY DEF Listed, Matches
<1>2. lists[e] # <<>>
  BY <1>1
<1>3. e \in nonEmpty
  BY <1>1, <1>2
<1>4. nonEmpty # {} /\ General!Candidates(c) = lists[d]
  BY <1>3 DEF General!Candidates
<1>5. d \in nonEmpty
  <2>1. nonEmpty \in SUBSET General!Classes OBVIOUS
  <2>2. \E x \in nonEmpty : \A y \in nonEmpty : General!AtLeast(y, x)
    <3> HIDE DEF nonEmpty
    <3> QED BY <1>4, <2>1, LowestClass
  <2> QED BY <2>2
<1> QED BY <1>4, <1>5

-----------------------------------------------------------------------------
\* What the search finds, and what it means when it finds nothing.

\* A request in units: rounded, its alignment a multiple of the granularity.
LEMMA RequestsAreMultiples ==
  ASSUME NEW r \in Requests
  PROVE  /\ SizeOf(r) \in Multiples \ {0} /\ AlignOf(r) \in Multiples \ {0} /\ AlignOf(r) >= Unit
         /\ SizeOf(r) + AlignOf(r) - Unit \in Multiples \ {0}
<1>1. Unit \in Nat \ {0} /\ r.size \in Nat /\ IsPowerOfTwo(r.align) /\ IsPowerOfTwo(Unit)
  BY PoolAssumption, UnitIsPositive DEF Unit
<1>2. SizeOf(r) \in Nat \ {0} /\ SizeOf(r) % Unit = 0
  BY <1>1, RequestsAreRounded, RoundUpIsAMultiple DEF SizeOf, Unit
<1>3. SizeOf(r) \in Multiples \ {0}
  BY <1>2, DividedAreMultiples
<1>4. IsPowerOfTwo(AlignOf(r)) /\ AlignOf(r) >= Unit /\ AlignOf(r) \in Nat \ {0}
  BY <1>1 DEF AlignOf, Unit, IsPowerOfTwo
<1>5. AlignOf(r) \in Multiples
  BY <1>4, PowersAreMultiples
<1>6. Unit \in Multiples
  <2>1. Unit = Unit * 1 BY <1>1
  <2> QED BY <2>1 DEF Multiples
<1>7. AlignOf(r) - Unit \in Multiples
  BY <1>4, <1>5, <1>6, MultiplesAdd
<1>8. SizeOf(r) + (AlignOf(r) - Unit) \in Multiples
  BY <1>3, <1>7, MultiplesAdd
<1>9. SizeOf(r) + (AlignOf(r) - Unit) = SizeOf(r) + AlignOf(r) - Unit /\ SizeOf(r) + AlignOf(r) - Unit # 0
  BY <1>1, <1>2, <1>4
<1> QED BY <1>3, <1>4, <1>5, <1>8, <1>9

\* The guarantee, in bytes.
LEMMA LargeEnough ==
  ASSUME NEW x \in Multiples \ {0}, NEW y \in Multiples \ {0},
         General!AtLeast(General!Class(x), General!ClassUp(y))
  PROVE  x >= y
<1> DEFINE u == x \div Unit
           v == y \div Unit
<1>1. x \in Nat /\ y \in Nat /\ u \in Nat /\ v \in Nat /\ x = Unit * u /\ y = Unit * v /\ x > 0 /\ y > 0
  BY MultiplesDivide
<1>2. u > 0 /\ v > 0
  BY <1>1, MultiplesAdd
<1> HIDE DEF u, v
<1>3. u \in Nat \ {0} /\ v \in Nat \ {0}
  BY <1>1, <1>2
<1>4. u >= v
  BY <1>1, <1>3, ClassUpIsAGuarantee
<1>5. \A g, p, q \in Nat : p >= q => g * p >= g * q
  OBVIOUS
<1> QED BY <1>1, <1>4, <1>5, UnitIsPositive

\* The padding to an alignment is a multiple, and less than the alignment by one.
LEMMA PaddingIsShort ==
  ASSUME NEW off \in Multiples, NEW align \in Multiples \ {0}
  PROVE  /\ RoundUp(off, align) \in Multiples /\ RoundUp(off, align) - off \in Multiples
         /\ RoundUp(off, align) >= off /\ RoundUp(off, align) % align = 0
         /\ RoundUp(off, align) + Unit =< off + align
         /\ align = Unit => RoundUp(off, align) = off
<1>1. off \in Nat /\ align \in Nat \ {0} /\ off % Unit = 0 /\ align > 0
  BY MultiplesDivide
<1>2. /\ RoundUp(off, align) \in Nat /\ RoundUp(off, align) >= off /\ RoundUp(off, align) % align = 0
      /\ RoundUp(off, align) < off + align
  BY <1>1, RoundUpIsAMultiple, RoundingIsShort
<1>3. RoundUp(off, align) \in Multiples
  BY <1>1, <1>2, AlignedAreMultiples
<1>4. off + align \in Multiples /\ RoundUp(off, align) - off \in Multiples
  BY <1>2, <1>3, MultiplesAdd
<1>5. RoundUp(off, align) + Unit =< off + align
  BY <1>2, <1>3, <1>4, MultiplesAdd
<1>6. align = Unit => RoundUp(off, align) = off
  BY <1>1, RoundingIsShort
<1> QED BY <1>2, <1>3, <1>4, <1>5, <1>6

\* The block found is free and holds the request behind its padding (findFit).
LEMMA FoundFits ==
  ASSUME Tiled, Listed, NEW r \in Requests, NEW off \in General!FindFit(SizeOf(r), AlignOf(r))
  PROVE  \E b \in FreeOf(phys) : b.off = off /\ RoundUp(off, AlignOf(r)) + SizeOf(r) =< b.off + b.size
<1> DEFINE size == SizeOf(r)
           align == AlignOf(r)
           asked == size + align - Granularity
           over == General!FirstOf(General!Candidates(General!ClassUp(asked)))
           exact == General!Candidates(General!ClassUp(size))
           good == {p \in DOMAIN exact : General!Absorbs(exact[p], size, align)}
<1>1. /\ size \in Multiples \ {0} /\ align \in Multiples \ {0} /\ align >= Unit
      /\ asked \in Multiples \ {0} /\ Unit = Granularity
  BY RequestsAreMultiples DEF Unit
<1>2. off \in IF align =< Granularity THEN General!FirstOf(exact)
              ELSE IF over # {} THEN over
              ELSE {exact[p] : p \in {n \in good : \A m \in good : n =< m}}
  BY DEF General!FindFit
<1> HIDE DEF size, align, asked
<1>3. size \in Nat \ {0} /\ align \in Nat \ {0} /\ Unit \in Nat \ {0} /\ asked = size + align - Unit
  BY <1>1, MultiplesDivide, UnitIsPositive DEF asked
<1>4. \A b \in FreeOf(phys) : b.off \in Multiples /\ b.size \in Multiples \ {0} /\ b.off \in Nat /\ b.size \in Nat
  BY BlocksAreApart, PiecesAreTyped
<1>5. CASE align =< Granularity
  <2>1. align = Unit
    BY <1>1, <1>3, <1>5
  <2>2. exact # <<>> /\ off = Head(exact)
    BY <1>2, <1>5 DEF General!FirstOf
  <2>3. PICK b \in FreeOf(phys) : b.off = off /\ General!AtLeast(General!Class(b.size), General!ClassUp(size))
    <3>1. exact \in Seq(Multiples) /\ Len(exact) \in Nat /\ Len(exact) > 0
      BY <2>2, CandidatesAreFree
    <3>2. Head(exact) = exact[1] /\ 1 \in 1 .. Len(exact)
      <4> HIDE DEF exact
      <4> QED BY <3>1
    <3> QED BY <2>2, <3>2, CandidatesAreFree
  <2>4. b.size >= size
    BY <1>1, <1>4, <2>3, LargeEnough
  <2>5. RoundUp(off, align) = off
    BY <1>1, <1>4, <2>1, <2>3, PaddingIsShort
  <2>6. RoundUp(off, align) + size =< b.off + b.size
    BY <1>3, <1>4, <2>3, <2>4, <2>5
  <2> QED BY <2>3, <2>6 DEF size, align
<1>6. CASE ~(align =< Granularity) /\ over # {}
  <2> DEFINE list == General!Candidates(General!ClassUp(asked))
  <2>2. list # <<>> /\ off = Head(list)
    BY <1>2, <1>6 DEF General!FirstOf
  <2>3. PICK b \in FreeOf(phys) : b.off = off /\ General!AtLeast(General!Class(b.size), General!ClassUp(asked))
    <3>1. list \in Seq(Multiples) /\ Len(list) \in Nat /\ Len(list) > 0
      BY <2>2, CandidatesAreFree
    <3>2. Head(list) = list[1] /\ 1 \in 1 .. Len(list)
      <4> HIDE DEF list
      <4> QED BY <3>1
    <3> QED BY <2>2, <3>2, CandidatesAreFree
  <2>4. b.size >= asked
    BY <1>1, <1>4, <2>3, LargeEnough
  <2>5. RoundUp(off, align) + Unit =< off + align /\ RoundUp(off, align) \in Nat
    <3>1. RoundUp(off, align) \in Multiples /\ RoundUp(off, align) + Unit =< off + align
      BY <1>1, <1>4, <2>3, PaddingIsShort
    <3> QED BY <3>1, MultiplesDivide
  <2>6. RoundUp(off, align) + size =< b.off + b.size
    BY <1>3, <1>4, <2>3, <2>4, <2>5
  <2> QED BY <2>3, <2>6 DEF size, align
<1>7. CASE ~(align =< Granularity) /\ over = {}
  <2>1. PICK p \in good : off = exact[p]
    BY <1>2, <1>7
  <2>2. exact # <<>>
    <3>1. p \in DOMAIN exact BY <2>1
    <3> HIDE DEF exact
    <3> QED BY <3>1
  <2>3. PICK b \in FreeOf(phys) : b.off = off
    <3>1. p \in 1 .. Len(exact)
      <4>1. DOMAIN exact = 1 .. Len(exact) BY <2>2, CandidatesAreFree
      <4> QED BY <2>1, <4>1
    <3> QED BY <2>1, <2>2, <3>1, CandidatesAreFree
  <2>4. phys[General!BlockAt(off)] = b
    BY <2>3, BlockAtIsIt
  <2>5. General!Absorbs(off, size, align)
    BY <2>1
  <2>6. General!RoundUp(b.off, align) + size =< b.off + b.size
    BY <2>4, <2>5 DEF General!Absorbs
  <2>7. RoundUp(off, align) + size =< b.off + b.size
    BY <2>3, <2>6 DEF RoundUp, General!RoundUp
  <2> QED BY <2>3, <2>7 DEF size, align
<1> QED BY <1>5, <1>6, <1>7

\* Refused when no free block is of the class the request rounds up to.
LEMMA RefusedHonestly ==
  ASSUME Tiled, Listed, NEW r \in Requests, General!FindFit(SizeOf(r), AlignOf(r)) = {}
  PROVE  \A b \in FreeOf(phys) :
           ~General!AtLeast(General!Class(b.size), General!ClassUp(SizeOf(r) + AlignOf(r) - Granularity))
<1> DEFINE size == SizeOf(r)
           align == AlignOf(r)
           asked == size + align - Granularity
           over == General!FirstOf(General!Candidates(General!ClassUp(asked)))
           exact == General!Candidates(General!ClassUp(size))
           good == {p \in DOMAIN exact : General!Absorbs(exact[p], size, align)}
<1>1. {} = IF align =< Granularity THEN General!FirstOf(exact)
           ELSE IF over # {} THEN over
           ELSE {exact[p] : p \in {n \in good : \A m \in good : n =< m}}
  BY DEF General!FindFit
<1>2. CASE align =< Granularity
  <2>1. exact = <<>>
    BY <1>1, <1>2 DEF General!FirstOf
  <2>2. size \in Nat /\ align = Granularity /\ Granularity \in Nat
    <3>1. size \in Multiples /\ align \in Multiples /\ align >= Granularity
      BY RequestsAreMultiples DEF Unit
    <3>2. size \in Nat /\ align \in Nat /\ Granularity \in Nat
      BY <3>1, MultiplesDivide, UnitIsPositive DEF Unit
    <3> HIDE DEF size, align
    <3> QED BY <1>2, <3>1, <3>2
  <2>3. asked = size
    <3> HIDE DEF size, align
    <3> QED BY <2>2
  <2> QED BY <2>1, <2>3, NoCandidates
<1>3. CASE ~(align =< Granularity)
  <2>1. General!Candidates(General!ClassUp(asked)) = <<>>
    BY <1>1, <1>3 DEF General!FirstOf
  <2> QED BY <2>1, NoCandidates
<1> QED BY <1>2, <1>3

-----------------------------------------------------------------------------
\* What an allocation does to the block found.

\* What a block b is cut into: padding, the request, what is left over.
Lead(b, pad) == IF pad > 0 THEN <<General!Block(b.off, pad, TRUE)>> ELSE <<>>
Mine(b, pad, size) == General!Block(b.off + pad, size, FALSE)
Rest(b, pad, size, rest) == IF rest > 0 THEN <<General!Block(b.off + pad + size, rest, TRUE)>> ELSE <<>>
Cut(b, pad, size, rest) == Lead(b, pad) \o <<Mine(b, pad, size)>> \o Rest(b, pad, size, rest)

Piecewise(b, pad, size, rest) ==
  /\ b \in Piece /\ pad \in Multiples /\ size \in Multiples \ {0} /\ rest \in Multiples
  /\ pad + size + rest = b.size

\* A piece that may not be there: its block, if any.
Some(p) == IF p = <<>> THEN {} ELSE {p[1]}

\* The pieces of a cut, typed.
LEMMA CutPieces ==
  ASSUME NEW b, NEW pad, NEW size, NEW rest, Piecewise(b, pad, size, rest)
  PROVE  /\ pad \in Nat /\ size \in Nat \ {0} /\ rest \in Nat /\ b.off \in Nat /\ b.size \in Nat
         /\ b.off + pad \in Nat /\ b.off + pad + size \in Nat
         /\ End(b) = b.off + pad + size + rest
         /\ pad > 0 => General!Block(b.off, pad, TRUE) \in Piece
         /\ Mine(b, pad, size) \in Piece
         /\ rest > 0 => General!Block(b.off + pad + size, rest, TRUE) \in Piece
<1>1. b.off \in Multiples /\ b.off \in Nat /\ b.size \in Nat
  BY PiecesAreTyped DEF Piecewise
<1>2. pad \in Nat /\ size \in Nat \ {0} /\ rest \in Nat
  BY MultiplesDivide DEF Piecewise
<1>3. b.off + pad \in Multiples
  BY <1>1, MultiplesAdd DEF Piecewise
<1>4. b.off + pad + size \in Multiples
  BY <1>3, MultiplesAdd DEF Piecewise
<1>5. b.off + pad \in Nat /\ b.off + pad + size \in Nat
  BY <1>3, <1>4, MultiplesDivide
<1>6. End(b) = b.off + pad + size + rest
  BY <1>1, <1>2 DEF End, Piecewise
<1> QED BY <1>1, <1>2, <1>3, <1>4, <1>5, <1>6 DEF Piecewise, Piece, General!Block, Mine

\* Two sequences of the same elements are the same.
LEMMA SameElements ==
  ASSUME NEW S, NEW s \in Seq(S), NEW t \in Seq(S), Len(s) = Len(t), \A i \in 1 .. Len(s) : s[i] = t[i]
  PROVE  s = t
OBVIOUS

\* Short concatenations.
LEMMA Tuples ==
  ASSUME NEW S, NEW x \in S, NEW y \in S, NEW z \in S
  PROVE  /\ <<x>> \o <<y>> \o <<z>> = <<x, y, z>> /\ <<x>> \o <<y>> \o <<>> = <<x, y>>
         /\ <<>> \o <<y>> \o <<z>> = <<y, z>> /\ <<>> \o <<y>> \o <<>> = <<y>>
         /\ <<x, y, z>> \in Seq(S) /\ <<x, y>> \in Seq(S) /\ <<y, z>> \in Seq(S) /\ <<y>> \in Seq(S)
<1>1. <<x>> \in Seq(S) /\ <<y>> \in Seq(S) /\ <<z>> \in Seq(S) /\ <<>> \in Seq(S)
  OBVIOUS
<1>2. <<x, y, z>> \in Seq(S) /\ <<x, y>> \in Seq(S) /\ <<y, z>> \in Seq(S)
  OBVIOUS
<1>3. ASSUME NEW a \in S, NEW c \in S PROVE <<a>> \o <<c>> = <<a, c>>
  <2>1. <<a>> \o <<c>> \in Seq(S) /\ <<a, c>> \in Seq(S)
    OBVIOUS
  <2>2. Len(<<a>> \o <<c>>) = 2 /\ Len(<<a, c>>) = 2
    OBVIOUS
  <2>3. (<<a>> \o <<c>>)[1] = a /\ (<<a>> \o <<c>>)[2] = c /\ <<a, c>>[1] = a /\ <<a, c>>[2] = c
    OBVIOUS
  <2>4. \A i \in 1 .. 2 : i = 1 \/ i = 2
    OBVIOUS
  <2> QED BY <2>1, <2>2, <2>3, <2>4, SameElements
<1>4. <<x, y>> \o <<z>> = <<x, y, z>>
  <2>1. <<x, y>> \o <<z>> \in Seq(S)
    OBVIOUS
  <2>2. Len(<<x, y>> \o <<z>>) = 3 /\ Len(<<x, y, z>>) = 3
    OBVIOUS
  <2>3. /\ (<<x, y>> \o <<z>>)[1] = x /\ (<<x, y>> \o <<z>>)[2] = y /\ (<<x, y>> \o <<z>>)[3] = z
        /\ <<x, y, z>>[1] = x /\ <<x, y, z>>[2] = y /\ <<x, y, z>>[3] = z
    OBVIOUS
  <2>4. \A i \in 1 .. 3 : i = 1 \/ i = 2 \/ i = 3
    OBVIOUS
  <2> QED BY <1>2, <2>1, <2>2, <2>3, <2>4, SameElements
<1>5. \A s \in Seq(S) : s \o <<>> = s /\ <<>> \o s = s
  OBVIOUS
<1> QED BY <1>1, <1>2, <1>3, <1>4, <1>5

\* One block, two, three in a row, of which two never both free.
LEMMA Covers1 ==
  ASSUME NEW x \in Piece
  PROVE  /\ Covers(<<x>>, x.off, End(x))
         /\ FreeOf(<<x>>) = (IF x.free THEN {x} ELSE {}) /\ TakenOf(<<x>>) = (IF x.free THEN {} ELSE {x})
<1>1. <<x>> \in Seq(Piece) /\ Len(<<x>>) = 1 /\ <<x>>[1] = x
  OBVIOUS
<1>2. 1 .. 1 = {1} /\ 1 .. 1 - 1 = {}
  OBVIOUS
<1>3. x.free \in BOOLEAN
  BY PiecesAreTyped
<1> QED BY <1>1, <1>2, <1>3 DEF Covers, FreeOf, TakenOf

\* Two in a row.
LEMMA Covers2 ==
  ASSUME NEW x \in Piece, NEW y \in Piece, y.off = End(x), x.free # y.free
  PROVE  /\ Covers(<<x, y>>, x.off, End(y))
         /\ FreeOf(<<x, y>>) = (IF x.free THEN {x} ELSE {y})
         /\ TakenOf(<<x, y>>) = (IF x.free THEN {y} ELSE {x})
<1>1. <<x, y>> \in Seq(Piece) /\ Len(<<x, y>>) = 2 /\ <<x, y>>[1] = x /\ <<x, y>>[2] = y
  OBVIOUS
<1>2. 1 .. 2 = {1, 2} /\ 1 .. 2 - 1 = {1}
  OBVIOUS
<1>3. x.free \in BOOLEAN /\ y.free \in BOOLEAN /\ End(x) \in Nat
  BY PiecesAreTyped
<1>4. Covers(<<x, y>>, x.off, End(y))
  BY <1>1, <1>2, <1>3 DEF Covers
<1>5. /\ FreeOf(<<x, y>>) = (IF x.free THEN {x} ELSE {y})
      /\ TakenOf(<<x, y>>) = (IF x.free THEN {y} ELSE {x})
  BY <1>1, <1>2, <1>3 DEF FreeOf, TakenOf
<1> QED BY <1>4, <1>5

\* Three in a row.
LEMMA Covers3 ==
  ASSUME NEW x \in Piece, NEW y \in Piece, NEW z \in Piece, y.off = End(x), z.off = End(y),
         x.free, ~y.free, z.free
  PROVE  /\ Covers(<<x, y, z>>, x.off, End(z))
         /\ FreeOf(<<x, y, z>>) = {x, z} /\ TakenOf(<<x, y, z>>) = {y}
<1>1. /\ <<x, y, z>> \in Seq(Piece) /\ Len(<<x, y, z>>) = 3 /\ <<x, y, z>>[1] = x
      /\ <<x, y, z>>[2] = y /\ <<x, y, z>>[3] = z
  OBVIOUS
<1>2. 1 .. 3 = {1, 2, 3} /\ 1 .. 3 - 1 = {1, 2}
  OBVIOUS
<1>3. /\ x.off \in Nat /\ y.off \in Nat /\ z.off \in Nat /\ End(x) \in Nat /\ End(y) \in Nat
      /\ y.off < End(y)
  BY PiecesAreTyped
<1>4. \A j, k \in 1 .. 3 : j < k => End(<<x, y, z>>[j]) =< <<x, y, z>>[k].off
  <2>1. End(x) =< y.off /\ End(y) =< z.off /\ End(x) =< z.off BY <1>3
  <2>2. \A j, k \in {1, 2, 3} : j < k => (j = 1 /\ k = 2) \/ (j = 1 /\ k = 3) \/ (j = 2 /\ k = 3)
    OBVIOUS
  <2> QED BY <1>1, <1>2, <2>1, <2>2
<1>5. \A k \in 1 .. 3 - 1 : /\ <<x, y, z>>[k + 1].off = End(<<x, y, z>>[k])
                            /\ ~(<<x, y, z>>[k].free /\ <<x, y, z>>[k + 1].free)
  <2>1. \A k \in {1, 2} : (k = 1 /\ k + 1 = 2) \/ (k = 2 /\ k + 1 = 3)
    OBVIOUS
  <2> QED BY <1>1, <1>2, <2>1
<1>6. Covers(<<x, y, z>>, x.off, End(z))
  BY <1>1, <1>4, <1>5 DEF Covers
<1>7. {n \in 1 .. 3 : <<x, y, z>>[n].free} = {1, 3} /\ {n \in 1 .. 3 : ~<<x, y, z>>[n].free} = {2}
  BY <1>1, <1>2
<1>8. FreeOf(<<x, y, z>>) = {x, z} /\ TakenOf(<<x, y, z>>) = {y}
  BY <1>1, <1>7 DEF FreeOf, TakenOf
<1> QED BY <1>6, <1>8

\* The cut covers the block, and one piece of it is taken.
LEMMA CutCovers ==
  ASSUME NEW b, NEW pad, NEW size, NEW rest, Piecewise(b, pad, size, rest)
  PROVE  LET m == Cut(b, pad, size, rest)
         IN  /\ m \in Seq(Piece) /\ Covers(m, b.off, End(b))
             /\ FreeOf(m) = Some(Lead(b, pad)) \union Some(Rest(b, pad, size, rest))
             /\ TakenOf(m) = {Mine(b, pad, size)}
<1> DEFINE m == Cut(b, pad, size, rest)
           lead == General!Block(b.off, pad, TRUE)
           tail == General!Block(b.off + pad + size, rest, TRUE)
           mine == Mine(b, pad, size)
<1>1. /\ pad \in Nat /\ size \in Nat \ {0} /\ rest \in Nat /\ b.off \in Nat
      /\ End(b) = b.off + pad + size + rest
      /\ pad > 0 => lead \in Piece
      /\ mine \in Piece
      /\ rest > 0 => tail \in Piece
  <2>1. /\ pad > 0 => lead \in Piece
        /\ rest > 0 => tail \in Piece
    BY CutPieces DEF lead, tail
  <2>2. mine \in Piece
    BY CutPieces DEF mine
  <2>3. pad \in Nat /\ size \in Nat \ {0} /\ rest \in Nat /\ b.off \in Nat
    BY CutPieces
  <2>4. End(b) = b.off + pad + size + rest
    <3>1. b \in Piece /\ pad + size + rest = b.size
      BY DEF Piecewise
    <3>2. b.size \in Nat
      BY <3>1, PiecesAreTyped
    <3> QED BY <2>3, <3>1, <3>2 DEF End
  <2> QED BY <2>1, <2>2, <2>3, <2>4
<1>2. /\ lead.off = b.off /\ End(lead) = b.off + pad /\ lead.free
      /\ mine.off = b.off + pad /\ End(mine) = b.off + pad + size /\ ~mine.free
      /\ tail.off = b.off + pad + size /\ End(tail) = b.off + pad + size + rest /\ tail.free
  BY <1>1 DEF General!Block, Mine, End
<1>3. m = (IF pad > 0 THEN <<lead>> ELSE <<>>) \o <<mine>> \o (IF rest > 0 THEN <<tail>> ELSE <<>>)
  BY DEF Cut, Lead, Rest
<1>a. Some(Lead(b, pad)) = (IF pad > 0 THEN {lead} ELSE {}) /\ Some(Rest(b, pad, size, rest)) = (IF rest > 0 THEN {tail} ELSE {})
  <2>1. Lead(b, pad) = (IF pad > 0 THEN <<lead>> ELSE <<>>) /\ Rest(b, pad, size, rest) = (IF rest > 0 THEN <<tail>> ELSE <<>>)
    BY DEF Lead, Rest
  <2> HIDE DEF lead, tail
  <2>2. <<lead>> # <<>> /\ <<tail>> # <<>> /\ <<lead>>[1] = lead /\ <<tail>>[1] = tail
    OBVIOUS
  <2> QED BY <2>1, <2>2 DEF Some
<1> HIDE DEF m, lead, tail, mine
<1>4. CASE pad > 0 /\ rest > 0
  <2>0. lead \in Piece /\ tail \in Piece /\ mine \in Piece BY <1>1, <1>4
  <2>1. m = <<lead>> \o <<mine>> \o <<tail>> BY <1>3, <1>4
  <2>a. <<lead>> \o <<mine>> \o <<tail>> = <<lead, mine, tail>> /\ <<lead, mine, tail>> \in Seq(Piece)
    BY <2>0, Tuples
  <2>b. m = <<lead, mine, tail>> /\ m \in Seq(Piece) BY <2>1, <2>a
  <2>2. /\ Covers(m, lead.off, End(tail)) /\ FreeOf(m) = {lead, tail} /\ TakenOf(m) = {mine}
    BY <2>0, <1>2, <2>b, Covers3
  <2>3. {lead} \union {tail} = {lead, tail} OBVIOUS
  <2> QED BY <1>1, <1>2, <1>4, <2>b, <2>2, <2>3, <1>a DEF m, mine
<1>5. CASE pad > 0 /\ ~(rest > 0)
  <2>0. lead \in Piece /\ mine \in Piece BY <1>1, <1>5
  <2>1. m = <<lead>> \o <<mine>> \o <<>> BY <1>3, <1>5
  <2>a. <<lead>> \o <<mine>> \o <<>> = <<lead, mine>> /\ <<lead, mine>> \in Seq(Piece)
    BY <2>0, Tuples
  <2>b. m = <<lead, mine>> /\ m \in Seq(Piece) BY <2>1, <2>a
  <2>2. /\ Covers(m, lead.off, End(mine)) /\ FreeOf(m) = {lead} /\ TakenOf(m) = {mine}
    BY <2>0, <1>1, <1>2, <1>5, <2>b, Covers2
  <2>3. End(mine) = End(b) BY <1>1, <1>2, <1>5
  <2> QED BY <1>2, <1>5, <2>b, <2>2, <2>3, <1>a DEF m, mine
<1>6. CASE ~(pad > 0) /\ rest > 0
  <2>0. tail \in Piece /\ mine \in Piece BY <1>1, <1>6
  <2>1. m = <<>> \o <<mine>> \o <<tail>> BY <1>3, <1>6
  <2>a. <<>> \o <<mine>> \o <<tail>> = <<mine, tail>> /\ <<mine, tail>> \in Seq(Piece)
    BY <2>0, Tuples
  <2>b. m = <<mine, tail>> /\ m \in Seq(Piece) BY <2>1, <2>a
  <2>2. /\ Covers(m, mine.off, End(tail)) /\ FreeOf(m) = {tail} /\ TakenOf(m) = {mine}
    BY <2>0, <1>1, <1>2, <1>6, <2>b, Covers2
  <2>3. mine.off = b.off BY <1>1, <1>2, <1>6
  <2> QED BY <1>1, <1>2, <1>6, <2>b, <2>2, <2>3, <1>a DEF m, mine
<1>7. CASE ~(pad > 0) /\ ~(rest > 0)
  <2>1. m = <<mine>> /\ m \in Seq(Piece) BY <1>1, <1>3, <1>7, Tuples
  <2>2. /\ Covers(m, mine.off, End(mine)) /\ FreeOf(m) = {} /\ TakenOf(m) = {mine}
    BY <1>1, <1>2, <1>7, <2>1, Covers1
  <2>3. mine.off = b.off /\ End(mine) = End(b) BY <1>1, <1>2, <1>7
  <2> QED BY <1>2, <1>7, <2>1, <2>2, <2>3, <1>a DEF m, mine
<1> QED BY <1>4, <1>5, <1>6, <1>7

\* An allocation takes a free block and cuts it.
Cuts(r, b, k, pad, rest) ==
  LET size == SizeOf(r)
      lead == Lead(b, pad)
      tail == Rest(b, pad, size, rest)
  IN  /\ Piecewise(b, pad, size, rest) /\ phys[k] = b /\ (b.off + pad) % AlignOf(r) = 0
      /\ phys' = Splice(phys, k, k, Cut(b, pad, size, rest))
      /\ lists' = General!PutBack(General!PutBack(General!Unlink(lists, b), lead), tail)
      /\ blocks' = blocks - 1 + Len(lead) + Len(tail)
      /\ handed' = handed \union {[off |-> b.off + pad, size |-> size, align |-> AlignOf(r)]}
      /\ inUse' = inUse + size /\ count' = count + 1 /\ refused' = {}

\* Alloc, in those terms (TLSF.Alloc).
LEMMA AllocCuts ==
  ASSUME Tiled, Listed, NEW r \in Requests, General!Alloc(r)
  PROVE  \E b \in FreeOf(phys) : \E k \in 1 .. Len(phys) : \E pad, rest \in Multiples : Cuts(r, b, k, pad, rest)
<1> DEFINE size == SizeOf(r)
           align == AlignOf(r)
<1>1. PICK off \in General!FindFit(size, align) :
        LET k     == General!BlockAt(off)
            b     == phys[k]
            start == General!RoundUp(b.off, align)
            pad   == start - b.off
            rest  == b.size - pad - size
            keep  == rest >= Granularity
            lead  == IF pad > 0 THEN <<General!Block(b.off, pad, TRUE)>> ELSE <<>>
            mine  == General!Block(start, IF keep THEN size ELSE size + rest, FALSE)
            tail  == IF keep THEN <<General!Block(start + size, rest, TRUE)>> ELSE <<>>
        IN  /\ phys' = SubSeq(phys, 1, k - 1) \o (lead \o <<mine>> \o tail) \o SubSeq(phys, k + 1, Len(phys))
            /\ lists' = General!PutBack(General!PutBack(General!Unlink(lists, b), lead), tail)
            /\ blocks' = blocks - 1 + Len(lead) + Len(tail)
            /\ handed' = handed \union {[off |-> mine.off, size |-> mine.size, align |-> align]}
            /\ inUse' = inUse + mine.size
            /\ count' = count + 1
            /\ refused' = {}
  BY DEF General!Alloc, General!SizeOf, General!AlignOf, General!RoundUp, SizeOf, AlignOf, RoundUp
<1>2. PICK b \in FreeOf(phys) : b.off = off /\ RoundUp(off, align) + size =< b.off + b.size
  BY <1>1, FoundFits
<1> DEFINE k == General!BlockAt(off)
           start == RoundUp(off, align)
           pad == start - b.off
           rest == b.size - pad - size
<1>3. k \in 1 .. Len(phys) /\ phys[k] = b
  BY <1>2, BlockAtIsIt
<1>4. /\ b \in Piece /\ b.off \in Multiples /\ b.size \in Multiples /\ b.off \in Nat /\ b.size \in Nat
      /\ size \in Multiples \ {0} /\ align \in Multiples \ {0} /\ size \in Nat
  <2>1. b \in Piece BY BlocksAreApart
  <2> QED BY <2>1, PiecesAreTyped, RequestsAreMultiples, MultiplesDivide
<1>5. start \in Multiples /\ pad \in Multiples /\ start % align = 0 /\ start >= b.off /\ start \in Nat /\ pad \in Nat
  <2>1. start \in Multiples /\ pad \in Multiples /\ start % align = 0 /\ start >= b.off
    BY <1>2, <1>4, PaddingIsShort
  <2> QED BY <2>1, MultiplesDivide
<1>6. rest \in Multiples /\ rest \in Nat /\ pad + size + rest = b.size /\ (rest >= Granularity <=> rest > 0)
  <2>1. pad + size \in Multiples
    BY <1>4, <1>5, MultiplesAdd
  <2>2. pad + size \in Nat /\ b.size >= pad + size
    <3> HIDE DEF size, align
    <3> QED BY <1>2, <1>4, <1>5
  <2>3. b.size - (pad + size) \in Multiples
    BY <1>4, <2>1, <2>2, MultiplesAdd
  <2>4. rest = b.size - (pad + size)
    <3> HIDE DEF size, start
    <3> QED BY <1>2, <1>4, <1>5
  <2>5. rest \in Multiples /\ rest \in Nat
    BY <2>3, <2>4, MultiplesDivide
  <2>6. rest > 0 => rest >= Granularity
    <3> HIDE DEF rest
    <3> QED BY <2>5, MultiplesAdd DEF Unit
  <2>7. Granularity \in Nat \ {0}
    BY UnitIsPositive DEF Unit
  <2>8. pad + size + rest = b.size
    <3> HIDE DEF size, start
    <3> QED BY <1>2, <1>4, <1>5
  <2> HIDE DEF rest
  <2> QED BY <2>5, <2>6, <2>7, <2>8
<1>7. /\ General!RoundUp(b.off, align) = start
      /\ start = b.off + pad
      /\ (IF rest >= Granularity THEN size ELSE size + rest) = size
  <2>1. General!RoundUp(b.off, align) = start BY <1>2 DEF General!RoundUp, RoundUp
  <2>2. start = b.off + pad
    <3> HIDE DEF start
    <3> QED BY <1>4, <1>5
  <2>3. (IF rest >= Granularity THEN size ELSE size + rest) = size
    <3> HIDE DEF rest, size
    <3> QED BY <1>4, <1>6
  <2> QED BY <2>1, <2>2, <2>3
<1> DEFINE lead == Lead(b, pad)
           tail == Rest(b, pad, size, rest)
<1>8. /\ phys' = SubSeq(phys, 1, k - 1) \o (lead \o <<General!Block(start, size, FALSE)>> \o tail) \o SubSeq(phys, k + 1, Len(phys))
      /\ lists' = General!PutBack(General!PutBack(General!Unlink(lists, b), lead), tail)
      /\ blocks' = blocks - 1 + Len(lead) + Len(tail)
      /\ handed' = handed \union {[off |-> start, size |-> size, align |-> align]}
      /\ inUse' = inUse + size
      /\ count' = count + 1
      /\ refused' = {}
  <2>1. Lead(b, pad) = IF pad > 0 THEN <<General!Block(b.off, pad, TRUE)>> ELSE <<>>
    BY DEF Lead
  <2>2. Rest(b, pad, size, rest) = IF rest >= Granularity THEN <<General!Block(start + size, rest, TRUE)>> ELSE <<>>
    BY <1>6, <1>7 DEF Rest
  <2>3. /\ General!Block(start, size, FALSE).off = start
        /\ General!Block(start, size, FALSE).size = size
    BY DEF General!Block
  <2> HIDE DEF size, align
  <2> QED BY <1>1, <1>3, <1>7, <2>1, <2>2, <2>3
<1>9. Mine(b, pad, size) = General!Block(start, size, FALSE)
  BY <1>7 DEF Mine
<1>10. Splice(phys, k, k, Cut(b, pad, size, rest)) =
         SubSeq(phys, 1, k - 1) \o (lead \o <<General!Block(start, size, FALSE)>> \o tail) \o SubSeq(phys, k + 1, Len(phys))
  BY <1>9 DEF Splice, Cut
<1>11. Piecewise(b, pad, size, rest)
  BY <1>4, <1>5, <1>6 DEF Piecewise
<1>12. Cuts(r, b, k, pad, rest)
  <2> HIDE DEF k, pad, rest, start
  <2> QED BY <1>3, <1>5, <1>7, <1>8, <1>10, <1>11 DEF Cuts
<1>13. k \in 1 .. Len(phys) /\ pad \in Multiples /\ rest \in Multiples
  BY <1>3, <1>5, <1>6
<1> QED BY <1>12, <1>13

-----------------------------------------------------------------------------
\* Lists and counters across a block that may or may not be there.

Optional(p) == p = <<>> \/ \E x \in Piece : p = <<x>>

\* Of such a piece: none, or one block.
LEMMA OptionalCases ==
  ASSUME NEW p, Optional(p)
  PROVE  \/ p = <<>> /\ Len(p) = 0 /\ Some(p) = {} /\ General!Held(p) = 0
         \/ /\ p # <<>> /\ p = <<p[1]>> /\ p[1] \in Piece /\ Len(p) = 1 /\ Some(p) = {p[1]}
            /\ General!Held(p) = p[1].size
<1>1. CASE p = <<>>
  BY <1>1 DEF Some, General!Held
<1>2. CASE p # <<>>
  <2>1. PICK x \in Piece : p = <<x>> BY <1>2 DEF Optional
  <2>2. p[1] = x /\ Len(p) = 1 BY <2>1
  <2> QED BY <1>2, <2>1, <2>2 DEF Some, General!Held
<1> QED BY <1>1, <1>2

\* One member less, one more: how many there are and how large they are together.
LEMMA OneLess ==
  ASSUME NEW S, IsFiniteSet(S), \A x \in S : x.size \in Nat, NEW b \in S
  PROVE  /\ IsFiniteSet(S \ {b}) /\ Cardinality(S \ {b}) = Cardinality(S) - 1
         /\ SizesOf(S \ {b}) = SizesOf(S) - b.size
         /\ Cardinality(S) \in Nat /\ SizesOf(S) \in Nat /\ Cardinality(S \ {b}) \in Nat /\ SizesOf(S \ {b}) \in Nat
<1>1. IsFiniteSet(S \ {b}) /\ Cardinality(S \ {b}) = Cardinality(S) - 1 /\ Cardinality(S) \in Nat
  BY FS_RemoveElement, FS_CardinalityType
<1>2. Cardinality(S \ {b}) \in Nat
  BY <1>1, FS_CardinalityType
<1>3. SizesOf(S) \in Nat /\ SizesOf(S) = SizesOf(S \ {b}) + b.size
  BY SizesWithout
<1>4. \A x \in S \ {b} : x.size \in Nat
  OBVIOUS
<1>5. SizesOf(S \ {b}) \in Nat
  BY <1>1, <1>4, SizesWithout
<1> QED BY <1>1, <1>2, <1>3, <1>5

\* One member more.
LEMMA OneMore ==
  ASSUME NEW S, IsFiniteSet(S), \A x \in S : x.size \in Nat, NEW b, b \notin S, b.size \in Nat
  PROVE  /\ IsFiniteSet(S \union {b}) /\ Cardinality(S \union {b}) = Cardinality(S) + 1
         /\ SizesOf(S \union {b}) = SizesOf(S) + b.size
         /\ Cardinality(S) \in Nat /\ SizesOf(S) \in Nat
BY FS_AddElement, FS_CardinalityType, SizesWith

\* Putting one back.
LEMMA PutBackKeeps ==
  ASSUME NEW F \in SUBSET Piece, NEW ls, Matches(ls, F), Apart(F), IsFiniteSet(F), NEW p, Optional(p),
         p # <<>> => /\ General!Class(p[1].size) \in General!Classes
                     /\ \A x \in F : x.off # p[1].off
  PROVE  LET G == F \union Some(p)
         IN  /\ G \in SUBSET Piece /\ Matches(General!PutBack(ls, p), G) /\ Apart(G) /\ IsFiniteSet(G)
             /\ Cardinality(G) = Cardinality(F) + Len(p)
             /\ SizesOf(G) = SizesOf(F) + General!Held(p)
             /\ Cardinality(F) \in Nat /\ SizesOf(F) \in Nat /\ General!Held(p) \in Nat
<1> DEFINE G == F \union Some(p)
<1>0. \A x \in F : x.size \in Nat
  BY PiecesAreTyped
<1>1. Cardinality(F) \in Nat /\ SizesOf(F) \in Nat
  BY <1>0, FS_CardinalityType, SizesWithout
<1>2. CASE p = <<>>
  <2>1. G = F /\ Len(p) = 0 /\ General!Held(p) = 0 BY <1>2, OptionalCases
  <2>2. General!PutBack(ls, p) = ls BY <1>2 DEF General!PutBack
  <2>3. Cardinality(F) = Cardinality(F) + 0 /\ SizesOf(F) = SizesOf(F) + 0 /\ 0 \in Nat
    BY <1>1
  <2> HIDE DEF G
  <2>4. /\ G \in SUBSET Piece /\ Matches(General!PutBack(ls, p), G) /\ Apart(G) /\ IsFiniteSet(G)
        /\ Cardinality(G) = Cardinality(F) + Len(p) /\ SizesOf(G) = SizesOf(F) + General!Held(p)
        /\ General!Held(p) \in Nat
    BY <2>1, <2>2, <2>3
  <2> QED BY <1>1, <2>4 DEF G
<1>3. CASE p # <<>>
  <2> DEFINE b == p[1]
  <2>1. b \in Piece /\ Len(p) = 1 /\ Some(p) = {b} /\ General!Held(p) = b.size
    BY <1>3, OptionalCases
  <2>2. General!PutBack(ls, p) = General!Insert(ls, b)
    BY <1>3 DEF General!PutBack
  <2>3. General!Class(b.size) \in General!Classes /\ \A x \in F : x.off # b.off
    BY <1>3
  <2> HIDE DEF b
  <2>4. G = F \union {b} /\ b.size \in Nat /\ b \notin F
    BY <2>1, <2>3, PiecesAreTyped
  <2>5. Matches(General!PutBack(ls, p), G)
    BY <2>1, <2>2, <2>3, <2>4, InsertMatches
  <2>6. Apart(G)
    BY <2>3, <2>4 DEF Apart
  <2>7. IsFiniteSet(G) /\ Cardinality(G) = Cardinality(F) + 1 /\ SizesOf(G) = SizesOf(F) + b.size
    BY <1>0, <2>4, OneMore
  <2>8. G \in SUBSET Piece
    BY <2>1, <2>4
  <2> QED BY <1>1, <2>1, <2>4, <2>5, <2>6, <2>7, <2>8
<1> QED BY <1>2, <1>3

\* Taking one off.
LEMMA TakeOffKeeps ==
  ASSUME NEW F \in SUBSET Piece, NEW ls, Matches(ls, F), Apart(F), IsFiniteSet(F), NEW p, Optional(p),
         Some(p) \subseteq F
  PROVE  LET G == F \ Some(p)
         IN  /\ G \in SUBSET Piece /\ Matches(General!TakeOff(ls, p), G) /\ Apart(G) /\ IsFiniteSet(G)
             /\ Cardinality(G) = Cardinality(F) - Len(p)
             /\ SizesOf(G) = SizesOf(F) - General!Held(p)
             /\ Cardinality(F) \in Nat /\ SizesOf(F) \in Nat /\ General!Held(p) \in Nat
<1> DEFINE G == F \ Some(p)
<1>0. \A x \in F : x.size \in Nat
  BY PiecesAreTyped
<1>1. Cardinality(F) \in Nat /\ SizesOf(F) \in Nat
  BY <1>0, FS_CardinalityType, SizesWithout
<1>2. CASE p = <<>>
  <2>1. G = F /\ Len(p) = 0 /\ General!Held(p) = 0 BY <1>2, OptionalCases
  <2>2. General!TakeOff(ls, p) = ls BY <1>2 DEF General!TakeOff
  <2>3. Cardinality(F) = Cardinality(F) - 0 /\ SizesOf(F) = SizesOf(F) - 0 /\ 0 \in Nat
    BY <1>1
  <2> HIDE DEF G
  <2>4. /\ G \in SUBSET Piece /\ Matches(General!TakeOff(ls, p), G) /\ Apart(G) /\ IsFiniteSet(G)
        /\ Cardinality(G) = Cardinality(F) - Len(p) /\ SizesOf(G) = SizesOf(F) - General!Held(p)
        /\ General!Held(p) \in Nat
    BY <2>1, <2>2, <2>3
  <2> QED BY <1>1, <2>4 DEF G
<1>3. CASE p # <<>>
  <2> DEFINE b == p[1]
  <2>1. b \in Piece /\ Len(p) = 1 /\ Some(p) = {b} /\ General!Held(p) = b.size
    BY <1>3, OptionalCases
  <2>2. General!TakeOff(ls, p) = General!Unlink(ls, b)
    BY <1>3 DEF General!TakeOff
  <2> HIDE DEF b
  <2>4. G = F \ {b} /\ b.size \in Nat /\ b \in F
    BY <2>1, PiecesAreTyped
  <2>5. Matches(General!TakeOff(ls, p), G)
    BY <2>2, <2>4, UnlinkMatches
  <2>6. Apart(G)
    BY <2>4 DEF Apart
  <2>7. IsFiniteSet(G) /\ Cardinality(G) = Cardinality(F) - 1 /\ SizesOf(G) = SizesOf(F) - b.size
    BY <1>0, <2>4, OneLess
  <2>8. G \in SUBSET Piece
    BY <2>4
  <2> QED BY <1>1, <2>1, <2>4, <2>5, <2>6, <2>7, <2>8
<1> QED BY <1>2, <1>3

\* What the invariant says of the free blocks as a set.
LEMMA FreeBlocks ==
  ASSUME GInv
  PROVE  /\ FreeOf(phys) \in SUBSET Piece /\ TakenOf(phys) \in SUBSET Piece
         /\ Matches(lists, FreeOf(phys)) /\ Apart(FreeOf(phys))
         /\ IsFiniteSet(FreeOf(phys)) /\ IsFiniteSet(handed)
         /\ \A a \in handed : a.off \in Nat /\ a.size \in Nat
         /\ \A a \in handed : \E c \in TakenOf(phys) : Same(a, c)
<1>1. /\ FreeOf(phys) \in SUBSET Piece /\ TakenOf(phys) \in SUBSET Piece
      /\ \A x, y \in FreeOf(phys) \union TakenOf(phys) : x.off = y.off => x = y
  BY BlocksAreApart DEF GInv
<1>2. \A a \in handed : \E c \in TakenOf(phys) : Same(a, c)
  BY DEF GInv, Owned
<1>3. \A a \in handed : a.off \in Nat /\ a.size \in Nat
  BY <1>1, <1>2, PiecesAreTyped DEF Same
<1> QED BY <1>1, <1>2, <1>3 DEF GInv, Listed, Counted, Apart

-----------------------------------------------------------------------------
\* An allocation keeps the invariant.

\* The block leaves the free ones, what is cut off joins them, and the range is held.
LEMMA CutsPreserve ==
  ASSUME GInv, NEW r \in Requests, NEW b \in FreeOf(phys), NEW k \in 1 .. Len(phys),
         NEW pad \in Multiples, NEW rest \in Multiples, Cuts(r, b, k, pad, rest)
  PROVE  GInv'
<1> DEFINE F == FreeOf(phys)
           size == SizeOf(r)
           m == Cut(b, pad, size, rest)
           lead == Lead(b, pad)
           tail == Rest(b, pad, size, rest)
           mine == Mine(b, pad, size)
           a == [off |-> b.off + pad, size |-> size, align |-> AlignOf(r)]
           F1 == F \ {b}
           F2 == F1 \union Some(lead)
           F3 == F2 \union Some(tail)
<1>1. /\ Piecewise(b, pad, size, rest) /\ phys[k] = b
      /\ phys' = Splice(phys, k, k, m)
      /\ lists' = General!PutBack(General!PutBack(General!Unlink(lists, b), lead), tail)
      /\ blocks' = blocks - 1 + Len(lead) + Len(tail)
      /\ handed' = handed \union {a}
      /\ inUse' = inUse + size /\ count' = count + 1 /\ refused' = {}
  BY DEF Cuts
<1>2. /\ F \in SUBSET Piece /\ TakenOf(phys) \in SUBSET Piece /\ Matches(lists, F) /\ Apart(F)
      /\ IsFiniteSet(F) /\ IsFiniteSet(handed)
      /\ \A x \in handed : x.off \in Nat /\ x.size \in Nat
      /\ \A x \in handed : \E c \in TakenOf(phys) : Same(x, c)
  BY FreeBlocks
<1>3. /\ pad \in Nat /\ size \in Nat \ {0} /\ rest \in Nat /\ b.off \in Nat /\ b.size \in Nat
      /\ pad + size + rest = b.size /\ End(b) = b.off + b.size /\ b \in Piece
  <2>1. b \in Piece /\ pad + size + rest = b.size BY <1>1 DEF Piecewise
  <2>2. pad \in Nat /\ size \in Nat \ {0} /\ rest \in Nat /\ b.off \in Nat /\ b.size \in Nat
    BY <1>1, CutPieces
  <2> QED BY <2>1, <2>2 DEF End
<1>4. /\ m \in Seq(Piece) /\ Covers(m, b.off, End(b)) /\ TakenOf(m) = {mine}
      /\ mine \in Piece /\ mine.off = b.off + pad /\ mine.size = size
  <2>1. m \in Seq(Piece) /\ Covers(m, b.off, End(b)) /\ TakenOf(m) = {mine}
    BY <1>1, CutCovers
  <2>2. mine \in Piece
    BY <1>1, CutPieces
  <2>3. mine.off = b.off + pad /\ mine.size = size
    BY DEF Mine, General!Block
  <2> QED BY <2>1, <2>2, <2>3
<1>5. /\ Optional(lead) /\ Optional(tail) /\ General!Held(lead) = pad /\ General!Held(tail) = rest
      /\ pad = 0 => lead = <<>>
      /\ rest = 0 => tail = <<>>
      /\ lead # <<>> => pad > 0 /\ lead[1].off = b.off /\ lead[1].size = pad
      /\ tail # <<>> => rest > 0 /\ tail[1].off = b.off + pad + size /\ tail[1].size = rest
      /\ FreeOf(m) = Some(lead) \union Some(tail)
  <2> DEFINE x == General!Block(b.off, pad, TRUE)
             y == General!Block(b.off + pad + size, rest, TRUE)
  <2>1. lead = (IF pad > 0 THEN <<x>> ELSE <<>>) /\ tail = (IF rest > 0 THEN <<y>> ELSE <<>>)
    BY DEF Lead, Rest
  <2>2. pad > 0 => x \in Piece
    BY <1>1, CutPieces
  <2>3. rest > 0 => y \in Piece
    BY <1>1, CutPieces
  <2>4. x.off = b.off /\ x.size = pad /\ y.off = b.off + pad + size /\ y.size = rest
    BY DEF General!Block
  <2>5. FreeOf(m) = Some(lead) \union Some(tail)
    BY <1>1, CutCovers
  <2> HIDE DEF x, y, lead, tail, m
  <2>6. <<x>> # <<>> /\ <<y>> # <<>> /\ <<x>>[1] = x /\ <<y>>[1] = y
    OBVIOUS
  <2>7. Optional(lead) /\ Optional(tail)
    BY <2>1, <2>2, <2>3 DEF Optional
  <2>9. General!Held(lead) = (IF pad > 0 THEN pad ELSE 0) /\ General!Held(tail) = (IF rest > 0 THEN rest ELSE 0)
    BY <2>1, <2>4, <2>6 DEF General!Held
  <2>10. (IF pad > 0 THEN pad ELSE 0) = pad /\ (IF rest > 0 THEN rest ELSE 0) = rest
    BY <1>3
  <2>11. /\ lead # <<>> => pad > 0 /\ lead[1].off = b.off /\ lead[1].size = pad
         /\ tail # <<>> => rest > 0 /\ tail[1].off = b.off + pad + size /\ tail[1].size = rest
    BY <2>1, <2>4, <2>6
  <2>12. (pad = 0 => lead = <<>>) /\ (rest = 0 => tail = <<>>)
    BY <2>1
  <2> QED BY <2>5, <2>7, <2>9, <2>10, <2>11, <2>12
<1>6. \A x \in F \union TakenOf(phys) : x # b => ~(x.off >= b.off /\ x.off < End(b))
  <2> SUFFICES ASSUME NEW x \in F \union TakenOf(phys), x # b PROVE ~(x.off >= b.off /\ x.off < End(b))
    OBVIOUS
  <2>1. Disjoint(x, b)
    BY BlocksAreApart DEF GInv
  <2>2. x.off \in Nat /\ x.size \in Nat \ {0}
    BY <1>2, PiecesAreTyped
  <2>3. x.off + x.size =< b.off \/ b.off + b.size =< x.off
    BY <2>1 DEF Disjoint
  <2> HIDE DEF size
  <2> QED BY <1>3, <2>2, <2>3
<1>7. b.free /\ b \notin TakenOf(phys) /\ End(b) =< General!Usable /\ b.size =< General!Usable
  BY BlocksAreApart DEF GInv, End
<1> HIDE DEF m, lead, tail, mine
<1>8. Tiled'
  <2>1. Covers(phys, 0, General!Usable) /\ k \in k .. Len(phys)
    BY DEF GInv, Tiled
  <2>2. k > 1 => ~phys[k - 1].free
    <3>1. \A n \in 1 .. Len(phys) - 1 : ~(phys[n].free /\ phys[n + 1].free) BY <2>1 DEF Covers
    <3>2. k > 1 => k - 1 \in 1 .. Len(phys) - 1 /\ (k - 1) + 1 = k OBVIOUS
    <3>3. k > 1 => ~(phys[k - 1].free /\ phys[k].free) BY <3>1, <3>2
    <3> QED BY <1>1, <1>7, <3>3
  <2>3. k < Len(phys) => ~phys[k + 1].free
    <3>1. \A n \in 1 .. Len(phys) - 1 : ~(phys[n].free /\ phys[n + 1].free) BY <2>1 DEF Covers
    <3>2. k < Len(phys) => k \in 1 .. Len(phys) - 1 OBVIOUS
    <3> QED BY <1>1, <1>7, <3>1, <3>2
  <2>4. Covers(m, phys[k].off, End(phys[k]))
    BY <1>1, <1>4
  <2>5. Covers(Splice(phys, k, k, m), 0, General!Usable)
    BY <2>1, <2>2, <2>3, <2>4, SpliceCovers
  <2>6. General!Usable' = General!Usable
    BY DEF General!Usable
  <2> QED BY <1>1, <2>5, <2>6 DEF Tiled
<1>9. FreeOf(phys') = F3 /\ TakenOf(phys') = TakenOf(phys) \union {mine}
  <2>1. \A n \in 1 .. Len(phys) : phys[n] \in {b} <=> n \in k .. k
    <3>1. \A n \in 1 .. Len(phys) : phys[n].off = phys[k].off => n = k
      BY CoversWithin DEF GInv, Tiled
    <3>2. k .. k = {k}
      OBVIOUS
    <3> QED BY <1>1, <3>1, <3>2
  <2>2. /\ FreeOf(phys') = (FreeOf(phys) \ {b}) \union FreeOf(m)
        /\ TakenOf(phys') = (TakenOf(phys) \ {b}) \union TakenOf(m)
    <3> DEFINE gone == {b}
    <3>1. Covers(phys, 0, General!Usable) /\ k \in k .. Len(phys)
      BY DEF GInv, Tiled
    <3>2. Stand(gone, phys, k, k)
      BY <2>1 DEF Stand
    <3>3. m \in Seq(Piece) /\ phys' = Splice(phys, k, k, m)
      BY <1>1, <1>4
    <3> HIDE DEF gone
    <3>4. /\ FreeOf(Splice(phys, k, k, m)) = (FreeOf(phys) \ gone) \union FreeOf(m)
          /\ TakenOf(Splice(phys, k, k, m)) = (TakenOf(phys) \ gone) \union TakenOf(m)
      BY <3>1, <3>2, <3>3, SpliceKeeps
    <3> QED BY <3>3, <3>4 DEF gone
  <2> QED BY <1>4, <1>5, <1>7, <2>2
<1>10. /\ F1 \in SUBSET Piece /\ Matches(General!Unlink(lists, b), F1) /\ Apart(F1) /\ IsFiniteSet(F1)
       /\ Cardinality(F1) = Cardinality(F) - 1 /\ SizesOf(F1) = SizesOf(F) - b.size
       /\ Cardinality(F) \in Nat /\ SizesOf(F) \in Nat
  <2>1. \A x \in F : x.size \in Nat
    BY <1>2, PiecesAreTyped
  <2>2. IsFiniteSet(F1) /\ Cardinality(F1) = Cardinality(F) - 1 /\ SizesOf(F1) = SizesOf(F) - b.size
        /\ Cardinality(F) \in Nat /\ SizesOf(F) \in Nat
    BY <1>2, <2>1, OneLess
  <2>3. Matches(General!Unlink(lists, b), F1)
    BY <1>2, UnlinkMatches
  <2> QED BY <1>2, <2>2, <2>3 DEF Apart
<1>11. /\ F2 \in SUBSET Piece /\ Matches(General!PutBack(General!Unlink(lists, b), lead), F2)
       /\ Apart(F2) /\ IsFiniteSet(F2)
       /\ Cardinality(F2) = Cardinality(F1) + Len(lead) /\ SizesOf(F2) = SizesOf(F1) + pad
  <2>1. ASSUME lead # <<>>
        PROVE  General!Class(lead[1].size) \in General!Classes /\ \A x \in F1 : x.off # lead[1].off
    <3>1. pad \in Multiples \ {0} /\ pad =< b.size /\ lead[1].size = pad /\ lead[1].off = b.off
      BY <1>3, <1>5, <2>1
    <3>2. General!Usable \in Nat BY UsableIsAMultiple, MultiplesDivide
    <3>3. pad =< General!Usable BY <1>3, <1>7, <3>1, <3>2
    <3>4. General!Class(lead[1].size) \in General!Classes BY <3>1, <3>3, ClassesAreEnough
    <3>5. \A x \in F1 : x.off # b.off BY <1>2 DEF Apart
    <3> QED BY <3>1, <3>4, <3>5
  <2> HIDE DEF F1
  <2> QED BY <1>5, <1>10, <2>1, PutBackKeeps
<1>12. /\ F3 \in SUBSET Piece /\ Matches(lists', F3)
       /\ Apart(F3) /\ IsFiniteSet(F3)
       /\ Cardinality(F3) = Cardinality(F2) + Len(tail) /\ SizesOf(F3) = SizesOf(F2) + rest
  <2>1. ASSUME tail # <<>>
        PROVE  General!Class(tail[1].size) \in General!Classes /\ \A x \in F2 : x.off # tail[1].off
    <3>1. rest \in Multiples \ {0} /\ rest =< b.size /\ tail[1].size = rest
          /\ tail[1].off = b.off + pad + size /\ b.off + pad + size < End(b) /\ b.off + pad + size > b.off
      BY <1>3, <1>5, <2>1
    <3>2. General!Usable \in Nat BY UsableIsAMultiple, MultiplesDivide
    <3>3. rest =< General!Usable BY <1>3, <1>7, <3>1, <3>2
    <3>4. General!Class(tail[1].size) \in General!Classes BY <3>1, <3>3, ClassesAreEnough
    <3>5. \A x \in F1 : x.off # tail[1].off
      BY <1>3, <1>6, <3>1
    <3>6. \A x \in Some(lead) : x.off # tail[1].off
      BY <1>3, <1>5, <3>1 DEF Some
    <3> QED BY <3>4, <3>5, <3>6
  <2> HIDE DEF F2
  <2> QED BY <1>1, <1>5, <1>11, <2>1, PutBackKeeps
<1>13. Listed'
  BY <1>9, <1>12 DEF Listed, General!Classes, General!Class
<1>14. \A x \in handed : x.off # a.off
  <2> SUFFICES ASSUME NEW x \in handed PROVE x.off # b.off + pad
    OBVIOUS
  <2>1. PICK c \in TakenOf(phys) : Same(x, c)
    BY <1>2
  <2>2. c # b /\ c.off = x.off
    BY <1>7, <2>1 DEF Same
  <2>3. b.off + pad >= b.off /\ b.off + pad < End(b)
    <3> HIDE DEF size
    <3> QED BY <1>3
  <2> QED BY <1>6, <2>1, <2>2, <2>3
<1>15. Owned'
  <2>1. Same(a, mine)
    BY <1>4 DEF Same
  <2>2. \A x \in handed \union {a} : \E c \in TakenOf(phys) \union {mine} : Same(x, c)
    BY <1>2, <2>1
  <2>3. \A c \in TakenOf(phys) \union {mine} : \E x \in handed \union {a} : Same(x, c)
    BY <2>1 DEF GInv, Owned
  <2>4. Apart(handed \union {a})
    BY <1>14 DEF GInv, Owned, Apart
  <2> QED BY <1>1, <1>9, <2>2, <2>3, <2>4 DEF Owned, Same
<1>16. Counted'
  <2> HIDE DEF F1, F2, F3, size
  <2>1. /\ count = Cardinality(handed) /\ blocks = Cardinality(F) /\ inUse \in Nat
        /\ inUse = SizesOf(handed) /\ inUse + SizesOf(F) = General!Usable
    BY DEF GInv, Counted
  <2>2. a \notin handed /\ a.size = size
    BY <1>14
  <2>3. /\ IsFiniteSet(handed \union {a}) /\ Cardinality(handed \union {a}) = Cardinality(handed) + 1
        /\ SizesOf(handed \union {a}) = SizesOf(handed) + size
    BY <1>2, <1>3, <2>2, OneMore
  <2>4. Len(lead) \in Nat /\ Len(tail) \in Nat
    BY <1>5, OptionalCases
  <2>5. Cardinality(F3) = Cardinality(F) - 1 + Len(lead) + Len(tail)
    BY <1>10, <1>11, <1>12, <2>4
  <2>6. SizesOf(F3) = SizesOf(F) - size
    BY <1>3, <1>10, <1>11, <1>12
  <2>7. inUse' \in Nat /\ inUse' + SizesOf(F3) = General!Usable
    <3>1. inUse' = inUse + size /\ size \in Nat BY <1>1, <1>3
    <3>2. SizesOf(F) \in Nat /\ General!Usable \in Nat BY <1>10, UsableIsAMultiple, MultiplesDivide
    <3> HIDE DEF F
    <3> QED BY <2>1, <2>6, <3>1, <3>2
  <2>8. General!Usable' = General!Usable
    BY DEF General!Usable
  <2>9. count' = Cardinality(handed') /\ inUse' = SizesOf(handed') /\ IsFiniteSet(handed')
    BY <1>1, <2>1, <2>3
  <2>10. blocks' = Cardinality(FreeOf(phys')) /\ IsFiniteSet(FreeOf(phys'))
    BY <1>1, <1>9, <1>12, <2>1, <2>5
  <2>11. inUse' + SizesOf(FreeOf(phys')) = General!Usable'
    BY <1>9, <2>7, <2>8
  <2> QED BY <2>7, <2>9, <2>10, <2>11 DEF Counted
<1> QED BY <1>8, <1>13, <1>15, <1>16 DEF GInv

-----------------------------------------------------------------------------
\* A freed block and the neighbours it absorbs.

\* The neighbours a freed block absorbs: where they stand, and the bytes of all three.
Around(k, prev, next, i, j, all) ==
  /\ i \in 1 .. Len(phys) /\ j \in i .. Len(phys) /\ i = k - Len(prev) /\ j = k + Len(next)
  /\ Optional(prev) /\ Optional(next)
  /\ Some(prev) \subseteq FreeOf(phys) /\ Some(next) \subseteq FreeOf(phys) \ Some(prev)
  /\ Stand(Some(prev) \union {phys[k]} \union Some(next), phys, i, j)
  /\ all \in Piece /\ all.free /\ all.off = phys[i].off /\ End(all) = End(phys[j])
  /\ all.size = General!Held(prev) + phys[k].size + General!Held(next)
  /\ phys[i] \in Some(prev) \union {phys[k]}
  /\ i > 1 => ~phys[i - 1].free
  /\ j < Len(phys) => ~phys[j + 1].free

\* Free, in those terms (TLSF.Free).
LEMMA FreedIsMerged ==
  ASSUME Tiled, NEW k \in 1 .. Len(phys), ~phys[k].free
  PROVE  LET next == General!FreeAfter(k)
             prev == General!FreeBefore(k)
             all == General!Block(Head(prev \o <<phys[k]>>).off,
                                  General!Held(prev) + phys[k].size + General!Held(next), TRUE)
         IN  Around(k, prev, next, k - Len(prev), k + Len(next), all)
<1> DEFINE next == General!FreeAfter(k)
           prev == General!FreeBefore(k)
           i == k - Len(prev)
           j == k + Len(next)
           c == phys[k]
           first == Head(prev \o <<c>>)
           all == General!Block(first.off, General!Held(prev) + c.size + General!Held(next), TRUE)
<1>1. /\ Len(phys) \in Nat /\ k \in Nat /\ 1 =< k /\ k =< Len(phys)
      /\ \A n \in 1 .. Len(phys) : phys[n] \in Piece
      /\ \A m, n \in 1 .. Len(phys) : phys[m].off = phys[n].off => m = n
  BY CoversWithin DEF Tiled
<1>2. \A n \in 1 .. Len(phys) - 1 : phys[n + 1].off = End(phys[n]) /\ ~(phys[n].free /\ phys[n + 1].free)
  BY DEF Tiled, Covers
<1>3. c \in Piece /\ c.off \in Nat /\ c.size \in Nat /\ End(c) = c.off + c.size /\ End(c) \in Nat
        /\ c.off \in Multiples /\ c.size \in Multiples /\ c.size > 0
  BY <1>1, PiecesAreTyped DEF End
<1>4. \/ prev = <<>> /\ (k > 1 => ~phys[k - 1].free)
      \/ prev = <<phys[k - 1]>> /\ k > 1 /\ phys[k - 1].free
  BY <1>1, PiecesAreTyped DEF General!FreeBefore
<1>5. \/ next = <<>> /\ (k < Len(phys) => ~phys[k + 1].free)
      \/ next = <<phys[k + 1]>> /\ k < Len(phys) /\ phys[k + 1].free
  BY <1>1, PiecesAreTyped DEF General!FreeAfter
<1> HIDE DEF prev, next
\* On the left.
<1>6. /\ i \in 1 .. k /\ Optional(prev) /\ Some(prev) \subseteq FreeOf(phys)
      /\ first = phys[i] /\ phys[i] \in Piece
      /\ General!Held(prev) \in Multiples /\ phys[i].off + General!Held(prev) = c.off
      /\ i > 1 => ~phys[i - 1].free
      /\ phys[i] \in Some(prev) \union {c}
      /\ Len(prev) \in {0, 1}
      /\ \A n \in 1 .. k - 1 : phys[n] \in Some(prev) <=> n >= i
      /\ \A x \in Some(prev) : x.off < c.off
  <2>1. CASE prev = <<>> /\ (k > 1 => ~phys[k - 1].free)
    <3>1. Len(prev) = 0 /\ Some(prev) = {} /\ General!Held(prev) = 0 /\ Optional(prev)
      BY <2>1 DEF Some, General!Held, Optional
    <3>2. i = k
      BY <1>1, <3>1
    <3>3. first = c
      <4>1. prev \o <<c>> = <<c>> BY <2>1
      <4> QED BY <4>1
    <3>4. 0 \in Multiples
      BY UnitIsPositive, DividedAreMultiples
    <3>5. c.off + 0 = c.off
      BY <1>3
    <3> HIDE DEF i, first
    <3> QED BY <1>1, <1>3, <2>1, <3>1, <3>2, <3>3, <3>4, <3>5
  <2>2. CASE prev = <<phys[k - 1]>> /\ k > 1 /\ phys[k - 1].free
    <3> DEFINE x == phys[k - 1]
    <3>0. k - 1 \in 1 .. Len(phys) /\ k - 1 \in 1 .. Len(phys) - 1 /\ (k - 1) + 1 = k
      BY <1>1, <2>2
    <3>1. x \in Piece /\ x.free /\ x \in FreeOf(phys)
      BY <1>1, <2>2, <3>0 DEF FreeOf
    <3>2. /\ x.off \in Nat /\ x.size \in Nat /\ x.size > 0 /\ End(x) = x.off + x.size /\ x.size \in Multiples
      BY <3>1, PiecesAreTyped DEF End
    <3>3. c.off = End(x)
      BY <1>2, <3>0
    <3> HIDE DEF x
    <3>4. prev = <<x>> /\ prev # <<>> /\ prev[1] = x /\ Len(prev) = 1
      BY <2>2 DEF x
    <3>5. Some(prev) = {x} /\ General!Held(prev) = x.size /\ Optional(prev)
      BY <3>1, <3>4 DEF Some, General!Held, Optional
    <3>6. i = k - 1 /\ phys[i] = x
      BY <3>4 DEF x
    <3>7. first = x
      <4>1. Head(<<x>> \o <<c>>) = x
        BY <1>3, <3>1
      <4> QED BY <3>4, <4>1
    <3>8. i > 1 => ~phys[i - 1].free
      <4>1. i > 1 => i - 1 \in 1 .. Len(phys) - 1 /\ (i - 1) + 1 = i
        BY <1>1, <3>6
      <4>2. i > 1 => ~(phys[i - 1].free /\ phys[i].free)
        BY <1>2, <4>1
      <4> QED BY <3>1, <3>6, <4>2
    <3>9. \A n \in 1 .. k - 1 : phys[n] \in Some(prev) <=> n >= i
      <4>1. \A n \in 1 .. k - 1 : phys[n] = x <=> n = k - 1
        <5>1. \A n \in 1 .. k - 1 : n \in 1 .. Len(phys) BY <1>1
        <5> QED BY <1>1, <3>0, <5>1 DEF x
      <4>2. \A n \in 1 .. k - 1 : n = k - 1 <=> n >= i
        BY <1>1, <3>6
      <4> QED BY <3>5, <4>1, <4>2
    <3>10. i \in 1 .. k
      BY <1>1, <2>2, <3>6
    <3>11. x.off + x.size = c.off /\ x.off < c.off
      BY <3>2, <3>3
    <3> HIDE DEF i, first
    <3> QED BY <3>1, <3>2, <3>4, <3>5, <3>6, <3>7, <3>8, <3>9, <3>10, <3>11
  <2> QED BY <1>4, <2>1, <2>2
\* On the right.
<1>7. /\ j \in k .. Len(phys) /\ Optional(next) /\ Some(next) \subseteq FreeOf(phys)
      /\ General!Held(next) \in Multiples /\ End(phys[j]) = End(c) + General!Held(next)
      /\ j < Len(phys) => ~phys[j + 1].free
      /\ Len(next) \in {0, 1}
      /\ \A n \in k + 1 .. Len(phys) : phys[n] \in Some(next) <=> n =< j
      /\ \A x \in Some(next) : x.off > c.off
  <2>1. CASE next = <<>> /\ (k < Len(phys) => ~phys[k + 1].free)
    <3>1. Len(next) = 0 /\ Some(next) = {} /\ General!Held(next) = 0 /\ Optional(next)
      BY <2>1 DEF Some, General!Held, Optional
    <3>2. j = k
      BY <1>1, <3>1
    <3>4. 0 \in Multiples
      BY UnitIsPositive, DividedAreMultiples
    <3>5. End(c) + 0 = End(c)
      BY <1>3
    <3>6. \A n \in k + 1 .. Len(phys) : ~(n =< k)
      BY <1>1
    <3>7. j \in k .. Len(phys)
      BY <1>1, <3>2
    <3> HIDE DEF j
    <3> QED BY <2>1, <3>1, <3>2, <3>4, <3>5, <3>6, <3>7
  <2>2. CASE next = <<phys[k + 1]>> /\ k < Len(phys) /\ phys[k + 1].free
    <3> DEFINE x == phys[k + 1]
    <3>0. k + 1 \in 1 .. Len(phys) /\ k \in 1 .. Len(phys) - 1
      BY <1>1, <2>2
    <3>1. x \in Piece /\ x.free /\ x \in FreeOf(phys)
      BY <1>1, <2>2, <3>0 DEF FreeOf
    <3>2. /\ x.off \in Nat /\ x.size \in Nat /\ x.size > 0 /\ End(x) = x.off + x.size /\ x.size \in Multiples
      BY <3>1, PiecesAreTyped DEF End
    <3>3. x.off = End(c)
      BY <1>2, <3>0
    <3> HIDE DEF x
    <3>4. next = <<x>> /\ next # <<>> /\ next[1] = x /\ Len(next) = 1
      BY <2>2 DEF x
    <3>5. Some(next) = {x} /\ General!Held(next) = x.size /\ Optional(next)
      BY <3>1, <3>4 DEF Some, General!Held, Optional
    <3>6. j = k + 1 /\ phys[j] = x
      BY <3>4 DEF x
    <3>8. j < Len(phys) => ~phys[j + 1].free
      <4>1. j < Len(phys) => j \in 1 .. Len(phys) - 1
        BY <1>1, <3>6
      <4>2. j < Len(phys) => ~(phys[j].free /\ phys[j + 1].free)
        BY <1>2, <4>1
      <4> QED BY <3>1, <3>6, <4>2
    <3>9. \A n \in k + 1 .. Len(phys) : phys[n] \in Some(next) <=> n =< j
      <4>1. \A n \in k + 1 .. Len(phys) : phys[n] = x <=> n = k + 1
        <5>1. \A n \in k + 1 .. Len(phys) : n \in 1 .. Len(phys) BY <1>1
        <5> QED BY <1>1, <3>0, <5>1 DEF x
      <4>2. \A n \in k + 1 .. Len(phys) : n = k + 1 <=> n =< j
        BY <1>1, <3>6
      <4> QED BY <3>5, <4>1, <4>2
    <3>10. j \in k .. Len(phys)
      BY <1>1, <2>2, <3>6
    <3>11. End(x) = End(c) + x.size /\ x.off > c.off
      BY <1>3, <3>2, <3>3
    <3> HIDE DEF j
    <3> QED BY <3>1, <3>2, <3>4, <3>5, <3>6, <3>8, <3>9, <3>10, <3>11
  <2> QED BY <1>5, <2>1, <2>2
<1>8. /\ i \in Nat /\ j \in Nat /\ i \in 1 .. Len(phys) /\ j \in i .. Len(phys) /\ i =< k /\ k =< j
  <2> HIDE DEF i, j
  <2> QED BY <1>1, <1>6, <1>7
<1>9. Some(next) \subseteq FreeOf(phys) \ Some(prev)
  <2>1. \A x \in Some(next) : x.off \in Nat
    <3>1. \A x \in FreeOf(phys) : x.off \in Nat BY BlocksAreApart, PiecesAreTyped
    <3> QED BY <1>7, <3>1
  <2>2. \A x \in Some(next) : x \notin Some(prev)
    <3> SUFFICES ASSUME NEW x \in Some(next), x \in Some(prev) PROVE FALSE
      OBVIOUS
    <3>1. x.off < c.off /\ x.off > c.off BY <1>6, <1>7
    <3> QED BY <1>3, <2>1, <3>1
  <2> QED BY <1>7, <2>2
<1>10. Stand(Some(prev) \union {c} \union Some(next), phys, i, j)
  <2> SUFFICES ASSUME NEW n \in 1 .. Len(phys)
               PROVE  phys[n] \in Some(prev) \union {c} \union Some(next) <=> n \in i .. j
    BY DEF Stand
  <2>1. phys[n] = c <=> n = k
    BY <1>1
  <2>2. \A x \in Some(prev) \union Some(next) : x.off # c.off
    <3>1. \A x \in Some(prev) \union Some(next) : x.off \in Nat
      <4>1. \A x \in FreeOf(phys) : x.off \in Nat BY BlocksAreApart, PiecesAreTyped
      <4> QED BY <1>6, <1>7, <4>1
    <3> QED BY <1>3, <1>6, <1>7, <3>1
  <2>3. CASE n < k
    <3>1. n \in 1 .. k - 1 /\ ~(n = k) BY <1>1, <2>3
    <3>2. phys[n] \in Some(prev) <=> n >= i BY <1>6, <3>1
    <3>3. phys[n] \notin Some(next)
      <4> SUFFICES ASSUME phys[n] \in Some(next) PROVE FALSE
        OBVIOUS
      <4>1. phys[n].off > c.off BY <1>7
      <4>2. End(phys[n]) =< c.off BY <2>3 DEF Tiled, Covers
      <4>3. phys[n].off \in Nat /\ End(phys[n]) \in Nat /\ phys[n].off < End(phys[n])
        BY <1>1, PiecesAreTyped
      <4> QED BY <1>3, <4>1, <4>2, <4>3
    <3>4. n \in i .. j <=> n >= i
      <4> HIDE DEF i, j
      <4> QED BY <1>8, <2>3
    <3> QED BY <2>1, <3>1, <3>2, <3>3, <3>4
  <2>4. CASE n > k
    <3>1. n \in k + 1 .. Len(phys) /\ ~(n = k) BY <1>1, <2>4
    <3>2. phys[n] \in Some(next) <=> n =< j BY <1>7, <3>1
    <3>3. phys[n] \notin Some(prev)
      <4> SUFFICES ASSUME phys[n] \in Some(prev) PROVE FALSE
        OBVIOUS
      <4>1. phys[n].off < c.off BY <1>6
      <4>2. End(c) =< phys[n].off BY <2>4 DEF Tiled, Covers
      <4>3. phys[n].off \in Nat
        BY <1>1, PiecesAreTyped
      <4> QED BY <1>3, <4>1, <4>2, <4>3
    <3>4. n \in i .. j <=> n =< j
      <4> HIDE DEF i, j
      <4> QED BY <1>8, <2>4
    <3> QED BY <2>1, <3>1, <3>2, <3>3, <3>4
  <2>5. CASE n = k
    <3>1. n \in i .. j
      <4> HIDE DEF i, j
      <4> QED BY <1>8, <2>5
    <3> QED BY <2>5, <3>1
  <2> QED BY <1>1, <2>3, <2>4, <2>5
<1> DEFINE p == General!Held(prev)
           q == General!Held(next)
<1>11. all.off = phys[i].off /\ all.size = p + c.size + q /\ all.free
  BY <1>6 DEF General!Block
<1>12. /\ p \in Multiples /\ q \in Multiples /\ p \in Nat /\ q \in Nat /\ phys[i].off \in Nat
       /\ phys[i].off \in Multiples /\ phys[i].off + p = c.off /\ End(phys[j]) = End(c) + q
  <2>1. phys[i].off \in Nat /\ phys[i].off \in Multiples
    BY <1>6, PiecesAreTyped
  <2> QED BY <1>6, <1>7, <2>1, MultiplesDivide
<1> HIDE DEF p, q, i, j
<1> DEFINE z == c.size
           o == phys[i].off
<1>c. /\ z \in Nat /\ z # 0 /\ o \in Nat /\ p \in Nat /\ q \in Nat /\ o + p = c.off
      /\ End(c) = c.off + z /\ End(phys[j]) = End(c) + q
  BY <1>3, <1>12 DEF End
<1>d. p + z + q # 0 /\ o + (p + z + q) = End(phys[j])
  <2> HIDE DEF z, o
  <2>1. End(phys[j]) = o + p + z + q BY <1>c
  <2> QED BY <1>c, <2>1
<1>13. all \in Piece /\ End(all) = End(phys[j])
  <2>1. p + c.size \in Multiples
    BY <1>3, <1>12, MultiplesAdd
  <2>2. p + c.size + q \in Multiples
    BY <1>12, <2>1, MultiplesAdd
  <2>3. p + c.size + q # 0
    BY <1>d
  <2>4. phys[i].off + (p + c.size + q) = End(phys[j])
    BY <1>d
  <2>5. all = General!Block(phys[i].off, p + c.size + q, TRUE)
    BY <1>6 DEF p, q
  <2>6. all \in Piece
    BY <1>12, <2>2, <2>3, <2>5 DEF Piece, General!Block
  <2> HIDE DEF all
  <2> QED BY <1>11, <2>4, <2>6 DEF End
<1>14. Around(k, prev, next, i, j, all)
  <2>1. i = k - Len(prev) /\ j = k + Len(next)
    BY DEF i, j
  <2>2. all.size = General!Held(prev) + c.size + General!Held(next)
    BY <1>11 DEF p, q
  <2> HIDE DEF all, c
  <2>3. phys[k] = c BY DEF c
  <2> QED BY <1>6, <1>7, <1>8, <1>9, <1>10, <1>11, <1>13, <2>1, <2>2, <2>3 DEF Around
<1> QED BY <1>14 DEF i, j, prev, next

-----------------------------------------------------------------------------
\* A free keeps the invariant, and every step does.

\* The neighbours leave the free blocks, the merged one joins them, and the range is held no more.
LEMMA FreePreservesBlocks ==
  ASSUME GInv, NEW a \in handed, General!Free(a)
  PROVE  GInv'
<1> DEFINE F == FreeOf(phys)
           T == TakenOf(phys)
           k == General!BlockAt(a.off)
           next == General!FreeAfter(k)
           prev == General!FreeBefore(k)
           all == General!Block(Head(prev \o <<phys[k]>>).off,
                                General!Held(prev) + phys[k].size + General!Held(next), TRUE)
           i == k - Len(prev)
           j == k + Len(next)
           F1 == F \ Some(next)
           F2 == F1 \ Some(prev)
           F3 == F2 \union Some(<<all>>)
           l1 == General!TakeOff(lists, next)
           l2 == General!TakeOff(l1, prev)
<1>1. /\ phys' = SubSeq(phys, 1, k - 1 - Len(prev)) \o <<all>>
                   \o SubSeq(phys, k + 1 + Len(next), Len(phys))
      /\ lists' = General!Insert(l2, all)
      /\ blocks' = blocks - Len(next) - Len(prev) + 1
      /\ handed' = handed \ {a}
      /\ inUse' = inUse - phys[k].size
      /\ count' = count - 1
      /\ refused' = {}
  BY DEF General!Free
<1>2. /\ F \in SUBSET Piece /\ T \in SUBSET Piece /\ Matches(lists, F) /\ Apart(F)
      /\ IsFiniteSet(F) /\ IsFiniteSet(handed)
      /\ \A x \in handed : x.off \in Nat /\ x.size \in Nat
      /\ \A x \in handed : \E y \in T : Same(x, y)
  BY FreeBlocks
<1>3. PICK c \in T : Same(a, c)
  BY <1>2
<1>4. k \in 1 .. Len(phys) /\ phys[k] = c /\ ~c.free /\ c \notin F
      /\ c.off = a.off /\ c.size = a.size /\ c \in Piece /\ Len(phys) \in Nat
  <2>1. Tiled
    BY DEF GInv
  <2>2. General!BlockAt(c.off) \in 1 .. Len(phys) /\ phys[General!BlockAt(c.off)] = c
    BY <2>1, BlockAtIsIt
  <2> QED BY <1>2, <1>3, <2>1, <2>2, BlocksAreApart DEF Same
<1>5. Around(k, prev, next, i, j, all)
  <2>1. Tiled
    BY DEF GInv
  <2>2. ~phys[k].free /\ k \in 1 .. Len(phys)
    BY <1>4
  <2> HIDE DEF k
  <2> QED BY <2>1, <2>2, FreedIsMerged
<1>6. /\ i \in 1 .. Len(phys) /\ j \in i .. Len(phys) /\ Optional(prev) /\ Optional(next)
      /\ Some(prev) \subseteq F /\ Some(next) \subseteq F \ Some(prev)
      /\ Stand(Some(prev) \union {c} \union Some(next), phys, i, j)
      /\ all \in Piece /\ all.free /\ all.off = phys[i].off /\ End(all) = End(phys[j])
      /\ all.size = General!Held(prev) + c.size + General!Held(next)
      /\ phys[i] \in Some(prev) \union {c}
      /\ i > 1 => ~phys[i - 1].free
      /\ j < Len(phys) => ~phys[j + 1].free
  BY <1>4, <1>5 DEF Around
<1>7. phys' = Splice(phys, i, j, <<all>>)
  <2>1. k \in Nat /\ Len(prev) \in Nat /\ Len(next) \in Nat
    <3>1. Optional(prev) /\ Optional(next) BY <1>6
    <3>2. k \in Nat BY <1>4
    <3> HIDE DEF k, prev, next
    <3> QED BY <3>1, <3>2, OptionalCases
  <2>2. k - 1 - Len(prev) = i - 1 /\ k + 1 + Len(next) = j + 1
    <3> HIDE DEF k, prev, next
    <3> QED BY <2>1
  <2> HIDE DEF i, j, k, prev, next, all
  <2> QED BY <1>1, <2>2 DEF Splice
<1> HIDE DEF all, i, j, prev, next, k
<1>8. <<all>> \in Seq(Piece) /\ Covers(<<all>>, all.off, End(all)) /\ FreeOf(<<all>>) = {all} /\ TakenOf(<<all>>) = {}
      /\ Len(<<all>>) = 1 /\ <<all>>[1] = all
  <2>1. <<all>> \in Seq(Piece) /\ Len(<<all>>) = 1 /\ <<all>>[1] = all
    BY <1>6
  <2>2. Covers(<<all>>, all.off, End(all))
    BY <1>6, Covers1
  <2>3. FreeOf(<<all>>) = {all} /\ TakenOf(<<all>>) = {}
    BY <1>6, Covers1
  <2> QED BY <2>1, <2>2, <2>3
<1>9. Tiled'
  <2>1. Covers(phys, 0, General!Usable)
    BY DEF GInv, Tiled
  <2>2. Covers(<<all>>, phys[i].off, End(phys[j]))
    BY <1>6, <1>8
  <2> DEFINE m == <<all>>
  <2>3. /\ i > 1 => ~(phys[i - 1].free /\ m[1].free)
        /\ j < Len(phys) => ~(m[Len(m)].free /\ phys[j + 1].free)
    BY <1>6
  <2> HIDE DEF m
  <2>4. Covers(m, phys[i].off, End(phys[j]))
    BY <2>2 DEF m
  <2>5. Covers(Splice(phys, i, j, m), 0, General!Usable)
    BY <1>6, <2>1, <2>3, <2>4, SpliceCovers
  <2>6. General!Usable' = General!Usable
    BY DEF General!Usable
  <2> QED BY <1>7, <2>5, <2>6 DEF Tiled, m
<1>10. FreeOf(phys') = F3 /\ TakenOf(phys') = T \ {c}
  <2> DEFINE gone == Some(prev) \union {c} \union Some(next)
             m == <<all>>
  <2>1. Covers(phys, 0, General!Usable)
    BY DEF GInv, Tiled
  <2>2. Stand(gone, phys, i, j) /\ m \in Seq(Piece) /\ i \in 1 .. Len(phys) /\ j \in i .. Len(phys)
    BY <1>6, <1>8
  <2> HIDE DEF gone, m
  <2>3. /\ FreeOf(Splice(phys, i, j, m)) = (FreeOf(phys) \ gone) \union FreeOf(m)
        /\ TakenOf(Splice(phys, i, j, m)) = (TakenOf(phys) \ gone) \union TakenOf(m)
    BY <2>1, <2>2, SpliceKeeps
  <2>4. F \ gone = F2
    BY <1>4 DEF gone
  <2>5. T \ gone = T \ {c}
    <3>1. \A x \in T : x \notin F
      BY BlocksAreApart DEF GInv
    <3>2. Some(prev) \subseteq F /\ Some(next) \subseteq F
      BY <1>6
    <3> HIDE DEF F, T
    <3> QED BY <3>1, <3>2 DEF gone
  <2>6. Some(<<all>>) = {all}
    BY <1>8 DEF Some
  <2> QED BY <1>7, <1>8, <2>3, <2>4, <2>5, <2>6 DEF m
<1>11. Some(next) \subseteq F /\ Some(prev) \subseteq F1
  BY <1>6
<1> HIDE DEF F
<1>12. /\ F1 \in SUBSET Piece /\ Matches(l1, F1) /\ Apart(F1) /\ IsFiniteSet(F1)
       /\ Cardinality(F1) = Cardinality(F) - Len(next)
       /\ SizesOf(F1) = SizesOf(F) - General!Held(next)
       /\ Cardinality(F) \in Nat /\ SizesOf(F) \in Nat /\ General!Held(next) \in Nat
  BY <1>2, <1>6, <1>11, TakeOffKeeps
<1> HIDE DEF F1, l1
<1>13. /\ F2 \in SUBSET Piece /\ Matches(l2, F2) /\ Apart(F2) /\ IsFiniteSet(F2)
       /\ Cardinality(F2) = Cardinality(F1) - Len(prev)
       /\ SizesOf(F2) = SizesOf(F1) - General!Held(prev) /\ General!Held(prev) \in Nat
  BY <1>6, <1>11, <1>12, TakeOffKeeps
<1>14. General!Class(all.size) \in General!Classes
  <2>1. End(phys[j]) =< General!Usable
    <3>1. j \in 1 .. Len(phys)
      BY <1>4, <1>6
    <3> QED BY <3>1, CoversWithin DEF GInv, Tiled
  <2>2. all.off \in Nat /\ all.size \in Nat /\ End(all) = all.off + all.size /\ all.size \in Multiples \ {0}
    BY <1>6, PiecesAreTyped DEF End
  <2>3. General!Usable \in Nat
    BY UsableIsAMultiple, MultiplesDivide
  <2>4. all.size =< General!Usable
    BY <1>6, <2>1, <2>2, <2>3
  <2> QED BY <2>2, <2>4, ClassesAreEnough
<1>15. \A x \in F2 : x.off # all.off
  <2> SUFFICES ASSUME NEW x \in F2, x.off = all.off PROVE FALSE
    OBVIOUS
  <2>1. x \in F /\ x \notin Some(prev)
    BY DEF F1
  <2>2. x # c
    BY <1>4, <2>1
  <2>3. x = phys[i]
    <3>1. phys[i] \in FreeOf(phys) \union TakenOf(phys)
      BY <1>6, <1>3 DEF F
    <3>2. x \in FreeOf(phys) \union TakenOf(phys)
      BY <2>1 DEF F
    <3>3. x.off = phys[i].off
      BY <1>6
    <3> QED BY <3>1, <3>2, <3>3, BlocksAreApart DEF GInv
  <2> QED BY <1>6, <2>1, <2>2, <2>3
<1> HIDE DEF F2, l2
<1>16. /\ Matches(lists', F3) /\ IsFiniteSet(F3)
       /\ Cardinality(F3) = Cardinality(F2) + 1 /\ SizesOf(F3) = SizesOf(F2) + all.size
  <2> DEFINE m == <<all>>
  <2>1. Optional(m) /\ m # <<>> /\ m[1] = all /\ Len(m) = 1
    BY <1>6, <1>8 DEF Optional
  <2>2. General!Held(m) = all.size
    BY <2>1 DEF General!Held
  <2>3. General!PutBack(l2, m) = General!Insert(l2, all)
    BY <2>1 DEF General!PutBack
  <2>4. General!Class(m[1].size) \in General!Classes /\ \A x \in F2 : x.off # m[1].off
    BY <1>14, <1>15, <2>1
  <2> HIDE DEF m
  <2>5. LET G == F2 \union Some(m)
        IN  /\ Matches(General!PutBack(l2, m), G) /\ IsFiniteSet(G)
            /\ Cardinality(G) = Cardinality(F2) + Len(m)
            /\ SizesOf(G) = SizesOf(F2) + General!Held(m)
    BY <1>13, <2>1, <2>4, PutBackKeeps
  <2>6. F3 = F2 \union Some(m)
    BY DEF m
  <2> HIDE DEF F3
  <2> QED BY <1>1, <2>1, <2>2, <2>3, <2>5, <2>6
<1> HIDE DEF F3
<1>17. Listed'
  BY <1>10, <1>16 DEF Listed, General!Classes, General!Class
<1>18. Owned'
  <2>1. /\ \A x \in handed : \E y \in T : Same(x, y)
        /\ \A y \in T : \E x \in handed : Same(x, y)
        /\ Apart(handed)
    BY DEF GInv, Owned
  <2>2. ASSUME NEW x \in handed \ {a} PROVE \E y \in T \ {c} : Same(x, y)
    <3>1. PICK y \in T : Same(x, y) BY <2>1
    <3>2. x.off # a.off BY <2>1 DEF Apart
    <3>3. y # c BY <1>4, <3>1, <3>2 DEF Same
    <3> QED BY <3>1, <3>3
  <2>3. ASSUME NEW y \in T \ {c} PROVE \E x \in handed \ {a} : Same(x, y)
    <3>1. PICK x \in handed : Same(x, y) BY <2>1
    <3>2. y.off # c.off
      BY BlocksAreApart DEF GInv
    <3>3. x # a BY <1>4, <3>1, <3>2 DEF Same
    <3> QED BY <3>1, <3>3
  <2>4. Apart(handed \ {a})
    BY <2>1 DEF Apart
  <2> QED BY <1>1, <1>10, <2>2, <2>3, <2>4 DEF Owned, Same
<1>19. Counted'
  <2>1. /\ count = Cardinality(handed) /\ blocks = Cardinality(F) /\ inUse \in Nat
        /\ inUse = SizesOf(handed) /\ inUse + SizesOf(F) = General!Usable
    BY DEF GInv, Counted, F
  <2>2. /\ IsFiniteSet(handed \ {a}) /\ Cardinality(handed \ {a}) = Cardinality(handed) - 1
        /\ SizesOf(handed \ {a}) = SizesOf(handed) - c.size /\ SizesOf(handed \ {a}) \in Nat
    BY <1>2, <1>4, OneLess
  <2>3. Len(next) \in Nat /\ Len(prev) \in Nat
    BY <1>6, OptionalCases
  <2>4. Cardinality(F3) = Cardinality(F) - Len(next) - Len(prev) + 1
    BY <1>12, <1>13, <1>16, <2>3
  <2>5. c.size \in Nat /\ inUse' = inUse - c.size
    BY <1>1, <1>4, PiecesAreTyped
  <2>6. SizesOf(F3) = SizesOf(F) + c.size
    <3> DEFINE before == General!Held(prev) after == General!Held(next)
               s == SizesOf(F) s1 == SizesOf(F1) s2 == SizesOf(F2) s3 == SizesOf(F3)
    <3>1. /\ s \in Nat /\ before \in Nat /\ after \in Nat
          /\ s1 = s - after /\ s2 = s1 - before
      BY <1>12, <1>13
    <3>2. s3 = s2 + all.size
      BY <1>16
    <3>3. all.size = before + c.size + after
      BY <1>6
    <3> HIDE DEF before, after, s, s1, s2, s3
    <3>4. s3 = s + c.size
      BY <2>5, <3>1, <3>2, <3>3
    <3> QED BY <3>4 DEF s, s3
  <2>7. inUse' \in Nat /\ inUse' = SizesOf(handed \ {a})
    BY <2>1, <2>2, <2>5
  <2>8. inUse' + SizesOf(F3) = General!Usable
    <3> DEFINE s == SizesOf(F) s3 == SizesOf(F3)
    <3>1. /\ s \in Nat /\ inUse \in Nat /\ inUse + s = General!Usable
          /\ c.size \in Nat /\ inUse' = inUse - c.size /\ s3 = s + c.size
      BY <1>12, <2>1, <2>5, <2>6
    <3> HIDE DEF s, s3
    <3>2. inUse' + s3 = General!Usable
      BY <3>1
    <3> QED BY <3>2 DEF s3
  <2>9. General!Usable' = General!Usable
    BY DEF General!Usable
  <2>10. count' = Cardinality(handed') /\ inUse' = SizesOf(handed') /\ IsFiniteSet(handed')
    BY <1>1, <2>1, <2>2, <2>7
  <2>11. blocks' = Cardinality(FreeOf(phys')) /\ IsFiniteSet(FreeOf(phys'))
    BY <1>1, <1>10, <1>16, <2>1, <2>4
  <2>12. inUse' + SizesOf(FreeOf(phys')) = General!Usable'
    BY <1>10, <2>8, <2>9
  <2> QED BY <2>7, <2>10, <2>11, <2>12 DEF Counted
<1> QED BY <1>9, <1>17, <1>18, <1>19 DEF GInv

\* One free block, of the whole pool.
LEMMA InitTiles ==
  ASSUME General!Init
  PROVE  GInv
<1> DEFINE b == General!Block(0, General!Usable, TRUE)
           none == [c \in General!Classes |-> <<>>]
<1>1. /\ phys = <<b>> /\ lists = General!Insert(none, b) /\ handed = {}
      /\ inUse = 0 /\ count = 0 /\ blocks = 1 /\ refused = {}
  BY DEF General!Init
<1>2. General!Usable \in Multiples \ {0} /\ General!Usable \in Nat /\ General!Usable =< General!Usable
  <2>1. General!Usable \in Multiples /\ General!Usable > 0 BY UsableIsAMultiple
  <2>2. General!Usable \in Nat BY <2>1, MultiplesDivide
  <2> QED BY <2>1, <2>2
<1>3. b \in Piece /\ b.off = 0 /\ End(b) = General!Usable /\ b.free /\ b.size = General!Usable
  <2>1. 0 \in Multiples
    BY UnitIsPositive, DividedAreMultiples
  <2> QED BY <1>2, <2>1 DEF Piece, General!Block, End
<1> HIDE DEF b
<1>4. Covers(phys, 0, General!Usable) /\ FreeOf(phys) = {b} /\ TakenOf(phys) = {}
  BY <1>1, <1>3, Covers1
<1>5. General!Class(b.size) \in General!Classes
  BY <1>2, <1>3, ClassesAreEnough
<1>6. Matches(none, {})
  <2>1. \A c \in General!Classes : none[c] = <<>>
    OBVIOUS
  <2>2. none \in [General!Classes -> Seq(Multiples)]
    OBVIOUS
  <2>3. \A p : p \notin 1 .. Len(<<>>)
    OBVIOUS
  <2> HIDE DEF none
  <2> QED BY <2>1, <2>2, <2>3 DEF Matches
<1> HIDE DEF none
<1>7. Matches(lists, {b})
  <2>1. {} \union {b} = {b} OBVIOUS
  <2>2. Matches(General!Insert(none, b), {} \union {b})
    BY <1>3, <1>5, <1>6, InsertMatches
  <2> QED BY <1>1, <2>1, <2>2
<1>8. Counted
  <2>1. IsFiniteSet({}) /\ Cardinality({}) = 0 /\ SizesOf({}) = 0
    BY FS_EmptySet, SumUnfolds
  <2>2. /\ IsFiniteSet({} \union {b}) /\ Cardinality({} \union {b}) = 0 + 1
        /\ SizesOf({} \union {b}) = 0 + b.size
    BY <1>2, <1>3, <2>1, OneMore
  <2>3. {} \union {b} = {b}
    OBVIOUS
  <2> QED BY <1>1, <1>2, <1>3, <1>4, <2>1, <2>2, <2>3 DEF Counted
<1> QED BY <1>1, <1>4, <1>7, <1>8 DEF GInv, Tiled, Listed, Owned, Apart

\* The general allocator's step keeps the invariant; a refusal changes nothing.
LEMMA StepTiles ==
  ASSUME GInv, [General!Next]_general
  PROVE  GInv'
<1>1. ASSUME NEW r \in Requests, General!Alloc(r) PROVE GInv'
  <2>1. Tiled /\ Listed
    BY DEF GInv
  <2>2. \E b \in FreeOf(phys) : \E k \in 1 .. Len(phys) : \E pad, rest \in Multiples : Cuts(r, b, k, pad, rest)
    BY <1>1, <2>1, AllocCuts
  <2> QED BY <2>2, CutsPreserve
<1>2. ASSUME NEW a \in handed, General!Free(a) PROVE GInv'
  BY <1>2, FreePreservesBlocks
<1>3. ASSUME UNCHANGED <<phys, lists, handed, inUse, count, blocks>> PROVE GInv'
  BY <1>3 DEF GInv, Tiled, Listed, Owned, Counted, Same, General!Usable, General!Class, General!Classes
<1>4. ASSUME NEW r \in Requests, General!NoSpace(r) PROVE GInv'
  BY <1>3, <1>4 DEF General!NoSpace
<1>5. ASSUME UNCHANGED general PROVE GInv'
  BY <1>3, <1>5 DEF general
<1> QED BY <1>1, <1>2, <1>4, <1>5 DEF General!Next

-----------------------------------------------------------------------------
\* What the invariant says: the properties of the general pool.

\* Every block is inside the pool and not empty.
LEMMA BlocksAreTyped ==
  ASSUME GInv
  PROVE  General!TypeOK
<1>1. /\ DOMAIN phys = 1 .. Len(phys) /\ FreeOf(phys) \subseteq Piece /\ TakenOf(phys) \subseteq Piece
      /\ \A x \in FreeOf(phys) \union TakenOf(phys) : x.off + x.size =< General!Usable
      /\ \A k \in 1 .. Len(phys) : /\ phys[k].free => phys[k] \in FreeOf(phys)
                                   /\ ~phys[k].free => phys[k] \in TakenOf(phys)
  BY BlocksAreApart DEF GInv
<1>2. General!Usable \in Nat /\ General!Usable =< PoolSize /\ PoolSize \in Nat
  BY UsableIsAMultiple, MultiplesDivide, PoolAssumption
<1>3. ASSUME NEW k \in DOMAIN phys
      PROVE  phys[k].off \in 0 .. PoolSize /\ phys[k].size \in 1 .. PoolSize /\ phys[k].free \in BOOLEAN
  <2>1. phys[k] \in FreeOf(phys) \union TakenOf(phys)
    BY <1>1
  <2>2. /\ phys[k].off \in Nat /\ phys[k].size \in Nat \ {0} /\ phys[k].free \in BOOLEAN
        /\ phys[k].off + phys[k].size =< General!Usable
    BY <1>1, <2>1, PiecesAreTyped
  <2> QED BY <1>2, <2>2
<1>4. DOMAIN lists = General!Classes
  BY DEF GInv, Listed, Matches
<1>5. /\ IsFiniteSet(handed) /\ IsFiniteSet(FreeOf(phys))
      /\ count = Cardinality(handed) /\ blocks = Cardinality(FreeOf(phys)) /\ inUse \in Nat
      /\ inUse + SizesOf(FreeOf(phys)) = General!Usable
  BY DEF GInv, Counted
<1>6. count \in Nat /\ blocks \in Nat
  BY <1>5, FS_CardinalityType
<1>7. SizesOf(FreeOf(phys)) \in Nat
  <2>1. \A x \in FreeOf(phys) : x.size \in Nat BY <1>1, PiecesAreTyped
  <2> QED BY <1>5, <2>1, SizesWithout
<1>8. inUse \in 0 .. PoolSize
  BY <1>2, <1>5, <1>7
<1> QED BY <1>3, <1>4, <1>6, <1>8 DEF General!TypeOK

\* The cover.
LEMMA BlocksTile ==
  ASSUME GInv
  PROVE  General!BlocksTileThePool
<1>1. /\ phys \in Seq(Piece) /\ Len(phys) > 0 /\ phys[1].off = 0 /\ End(phys[Len(phys)]) = General!Usable
      /\ \A k \in 1 .. Len(phys) - 1 : phys[k + 1].off = End(phys[k]) /\ ~(phys[k].free /\ phys[k + 1].free)
  BY DEF GInv, Tiled, Covers
<1>2. Head(phys) = phys[1]
  BY <1>1
<1>3. General!Last(phys) = phys[Len(phys)]
  BY DEF General!Last
<1> QED BY <1>1, <1>2, <1>3 DEF General!BlocksTileThePool, End

\* The instance counts as this module does.
LEMMA CountsAlike ==
  ASSUME NEW S
  PROVE  General!Cardinality(S) = Cardinality(S)
BY DEF General!Cardinality, Cardinality

\* Lists against blocks, blocks against allocations.
LEMMA ListsMatch ==
  ASSUME GInv
  PROVE  General!ListsMatchBlocks
<1>1. /\ DOMAIN phys = 1 .. Len(phys)
      /\ \A k \in 1 .. Len(phys) : /\ phys[k].free => phys[k] \in FreeOf(phys)
                                   /\ ~phys[k].free => phys[k] \in TakenOf(phys)
  BY BlocksAreApart DEF GInv
<1>2. /\ \A x \in FreeOf(phys) : \E k \in DOMAIN phys : phys[k] = x /\ phys[k].free
      /\ \A x \in TakenOf(phys) : \E k \in DOMAIN phys : phys[k] = x /\ ~phys[k].free
  BY <1>1 DEF FreeOf, TakenOf
<1>3. Matches(lists, FreeOf(phys))
  BY DEF GInv, Listed
<1>4. \A c \in General!Classes : DOMAIN lists[c] = 1 .. Len(lists[c])
  <2> SUFFICES ASSUME NEW c \in General!Classes PROVE DOMAIN lists[c] = 1 .. Len(lists[c])
    OBVIOUS
  <2>1. lists[c] \in Seq(Multiples) BY <1>3 DEF Matches
  <2> QED BY <2>1
<1>5. ASSUME NEW c \in General!Classes, NEW p \in DOMAIN lists[c]
      PROVE  \E k \in DOMAIN phys : phys[k].free /\ phys[k].off = lists[c][p] /\ General!Class(phys[k].size) = c
  <2>1. p \in 1 .. Len(lists[c]) BY <1>4
  <2>2. PICK b \in FreeOf(phys) : b.off = lists[c][p] /\ General!Class(b.size) = c
    BY <1>3, <2>1 DEF Matches
  <2> QED BY <1>2, <2>2
<1>6. ASSUME NEW k \in DOMAIN phys, phys[k].free
      PROVE  Cardinality({p \in DOMAIN lists[General!Class(phys[k].size)] :
                            lists[General!Class(phys[k].size)][p] = phys[k].off}) = 1
  <2> DEFINE c == General!Class(phys[k].size)
  <2>1. phys[k] \in FreeOf(phys)
    BY <1>1, <1>6
  <2>2. c \in General!Classes /\ \E p \in 1 .. Len(lists[c]) : lists[c][p] = phys[k].off
    BY <1>3, <2>1 DEF Matches
  <2> HIDE DEF c
  <2>3. PICK p \in DOMAIN lists[c] : lists[c][p] = phys[k].off
    BY <1>4, <2>2
  <2>4. \A q \in DOMAIN lists[c] : lists[c][q] = phys[k].off => q = p
    BY <1>3, <1>4, <2>2, <2>3 DEF Matches
  <2>5. {q \in DOMAIN lists[c] : lists[c][q] = phys[k].off} = {p}
    BY <2>3, <2>4
  <2>6. Cardinality({p}) = 1
    BY FS_Singleton
  <2> QED BY <2>5, <2>6 DEF c
<1>7. {[off |-> a.off, size |-> a.size] : a \in handed} =
        {[off |-> phys[k].off, size |-> phys[k].size] : k \in {n \in DOMAIN phys : ~phys[n].free}}
  <2>1. ASSUME NEW a \in handed
        PROVE  \E k \in {n \in DOMAIN phys : ~phys[n].free} : Same(a, phys[k])
    <3>1. PICK b \in TakenOf(phys) : Same(a, b) BY DEF GInv, Owned
    <3> QED BY <1>2, <3>1
  <2>2. ASSUME NEW k \in {n \in DOMAIN phys : ~phys[n].free}
        PROVE  \E a \in handed : Same(a, phys[k])
    <3>1. phys[k] \in TakenOf(phys) BY <1>1
    <3> QED BY <3>1 DEF GInv, Owned
  <2> QED BY <2>1, <2>2 DEF Same
<1>8. \A c \in General!Classes : \A p \in DOMAIN lists[c] :
        \E k \in DOMAIN phys : /\ phys[k].free /\ phys[k].off = lists[c][p]
                               /\ General!Class(phys[k].size) = c
  BY <1>5
<1>9. \A k \in DOMAIN phys :
        phys[k].free => Cardinality({p \in DOMAIN lists[General!Class(phys[k].size)] :
                                       lists[General!Class(phys[k].size)][p] = phys[k].off}) = 1
  BY <1>6
<1> QED BY <1>7, <1>8, <1>9, CountsAlike DEF General!ListsMatchBlocks

\* The counter of free blocks counts places in the cover.
LEMMA FreePlaces ==
  ASSUME GInv
  PROVE  blocks = Cardinality({k \in DOMAIN phys : phys[k].free})
<1> DEFINE S == {k \in DOMAIN phys : phys[k].free}
           f == [k \in S |-> phys[k]]
<1>1. DOMAIN phys = 1 .. Len(phys) /\ Len(phys) \in Nat
        /\ \A j, k \in 1 .. Len(phys) : phys[j].off = phys[k].off => j = k
  BY CoversWithin DEF GInv, Tiled
<1>2. IsFiniteSet(S)
  <2>1. IsFiniteSet(1 .. Len(phys)) BY <1>1, FS_Interval
  <2>2. S \subseteq 1 .. Len(phys) BY <1>1
  <2> QED BY <2>1, <2>2, FS_Subset
<1>3. FreeOf(phys) = {phys[k] : k \in S}
  BY <1>1 DEF FreeOf
<1>4. f \in [S -> FreeOf(phys)] /\ \A z \in FreeOf(phys) : \E k \in S : f[k] = z
  BY <1>3
<1>5. \A x, y \in S : f[x] = f[y] => x = y
  BY <1>1
<1>6. Cardinality(FreeOf(phys)) = Cardinality(S)
  <2> HIDE DEF S, f
  <2> QED BY <1>2, <1>4, <1>5, Moved
<1> QED BY <1>6 DEF GInv, Counted

\* Of two blocks the larger is of no lower class, and classes are ordered.
LEMMA LargerIsHigher ==
  ASSUME NEW x \in Multiples \ {0}, NEW y \in Multiples \ {0}, x =< y
  PROVE  General!AtLeast(General!Class(y), General!Class(x))
<1> DEFINE u == x \div Unit
           v == y \div Unit
<1>1. x \in Nat /\ y \in Nat /\ u \in Nat /\ v \in Nat /\ x = Unit * u /\ y = Unit * v /\ x > 0 /\ y > 0
  BY MultiplesDivide
<1>2. u > 0 /\ v > 0 /\ u =< v
  BY <1>1, MultiplesAdd
<1> HIDE DEF u, v
<1>3. u \in Nat \ {0} /\ v \in Nat \ {0}
  BY <1>1, <1>2
<1> QED BY <1>1, <1>2, <1>3, ClassIsMonotone

\* No two classes are each at or above the other.
LEMMA ClassesAreOrdered ==
  ASSUME NEW c \in General!Classes, NEW d \in General!Classes, General!AtLeast(c, d), General!AtLeast(d, c)
  PROVE  c = d
<1>1. /\ c[1] \in Nat /\ c[2] \in Nat /\ c = <<c[1], c[2]>>
      /\ d[1] \in Nat /\ d[2] \in Nat /\ d = <<d[1], d[2]>>
  BY DEF General!Classes
<1>2. c[1] = d[1] /\ c[2] = d[2]
  BY <1>1 DEF General!AtLeast
<1> QED BY <1>1, <1>2

\* The largest member, where there is one.
LEMMA ChosenLargest ==
  ASSUME NEW S \in SUBSET Nat, NEW m \in S, \A z \in S : z =< m
  PROVE  (CHOOSE s \in S : \A z \in S : z =< s) = m
<1> DEFINE c == CHOOSE s \in S : \A z \in S : z =< s
<1>1. c \in S /\ \A z \in S : z =< c
  OBVIOUS
<1>2. c =< m /\ m =< c /\ c \in Nat /\ m \in Nat
  BY <1>1
<1> QED BY <1>2

\* Only the highest class is scanned for the largest block.
LEMMA LargestIsScanned ==
  ASSUME GInv
  PROVE  General!LargestFree =
           (IF General!FreeSizes = {} THEN 0
            ELSE CHOOSE s \in General!FreeSizes : \A z \in General!FreeSizes : z =< s)
<1> DEFINE S == General!FreeSizes
           N == General!NonEmpty
<1>1. /\ FreeOf(phys) \subseteq Piece
      /\ \A x \in FreeOf(phys) : x.size =< General!Usable
      /\ Matches(lists, FreeOf(phys))
  BY BlocksAreApart DEF GInv, Listed
<1>2. \A x \in FreeOf(phys) : x.size \in Nat /\ x.size \in Multiples \ {0}
  <2>1. \A x \in Piece : x.size \in Nat /\ x.size \in Multiples \ {0}
    BY PiecesAreTyped
  <2> QED BY <1>1, <2>1
<1>3. S = {x.size : x \in FreeOf(phys)}
  <2>1. DOMAIN phys = 1 .. Len(phys) BY BlocksAreApart DEF GInv
  <2> QED BY <2>1 DEF General!FreeSizes, FreeOf
<1>4. \A c \in General!Classes : c \in N <=> \E p \in 1 .. Len(lists[c]) : TRUE
  <2> SUFFICES ASSUME NEW c \in General!Classes PROVE c \in N <=> \E p \in 1 .. Len(lists[c]) : TRUE
    OBVIOUS
  <2>1. lists[c] \in Seq(Multiples) BY <1>1 DEF Matches
  <2>2. lists[c] # <<>> <=> \E p \in 1 .. Len(lists[c]) : TRUE
    <3>1. Len(lists[c]) \in Nat /\ (lists[c] # <<>> <=> Len(lists[c]) # 0) BY <2>1
    <3>2. Len(lists[c]) # 0 => 1 \in 1 .. Len(lists[c]) BY <3>1
    <3>3. Len(lists[c]) = 0 => 1 .. Len(lists[c]) = {} BY <3>1
    <3> QED BY <3>1, <3>2, <3>3
  <2> QED BY <2>2 DEF General!NonEmpty
<1>5. N \in SUBSET General!Classes
  BY DEF General!NonEmpty
<1>6. \A x \in FreeOf(phys) : General!Class(x.size) \in N
  <2> SUFFICES ASSUME NEW x \in FreeOf(phys) PROVE General!Class(x.size) \in N
    OBVIOUS
  <2>1. General!Class(x.size) \in General!Classes
          /\ \E p \in 1 .. Len(lists[General!Class(x.size)]) : lists[General!Class(x.size)][p] = x.off
    BY <1>1 DEF Matches
  <2> QED BY <1>4, <2>1
<1>7. \A c \in N : \A p \in 1 .. Len(lists[c]) :
        \E x \in FreeOf(phys) : x.off = lists[c][p] /\ General!Class(x.size) = c
  BY <1>1, <1>5 DEF Matches
<1> HIDE DEF S, N
<1>8. CASE S = {}
  <2>1. FreeOf(phys) = {} BY <1>3, <1>8
  <2>2. N = {} BY <1>4, <1>5, <1>7, <2>1
  <2> QED BY <1>8, <2>2 DEF General!LargestFree, S, N
<1>9. CASE S # {}
  <2>1. S \in SUBSET Nat /\ \A s \in S : s =< General!Usable
    BY <1>1, <1>2, <1>3
  <2>2. General!Usable \in Nat
    BY UsableIsAMultiple, MultiplesDivide
  <2>3. PICK m \in S : \A s \in S : s =< m
    BY <1>9, <2>1, <2>2, GreatestOfNaturals
  <2>4. (CHOOSE s \in S : \A z \in S : z =< s) = m
    BY <2>1, <2>3, ChosenLargest
  <2>5. PICK b \in FreeOf(phys) : b.size = m
    BY <1>3, <2>3
  <2> DEFINE top == CHOOSE c \in N : \A d \in N : General!AtLeast(c, d)
             sizes == {phys[General!BlockAt(lists[top][p])].size : p \in DOMAIN lists[top]}
  <2>6. N # {}
    BY <1>6, <2>5
  <2>7. top \in N /\ \A d \in N : General!AtLeast(top, d)
    <3>1. \E c \in N : \A d \in N : General!AtLeast(c, d)
      BY <1>5, <2>6, HighestClass
    <3> QED BY <3>1
  <2>8. General!LargestFree = CHOOSE s \in sizes : \A z \in sizes : z =< s
    BY <2>6 DEF General!LargestFree, N
  <2> HIDE DEF top
  <2>9. \A x \in FreeOf(phys) : phys[General!BlockAt(x.off)] = x
    BY BlockAtIsIt DEF GInv
  <2>10. DOMAIN lists[top] = 1 .. Len(lists[top])
    <3>1. lists[top] \in Seq(Multiples) BY <1>1, <1>5, <2>7 DEF Matches
    <3> QED BY <3>1
  <2>11. sizes \subseteq S
    <3> SUFFICES ASSUME NEW p \in DOMAIN lists[top] PROVE phys[General!BlockAt(lists[top][p])].size \in S
      OBVIOUS
    <3>1. PICK x \in FreeOf(phys) : x.off = lists[top][p] BY <1>7, <2>7, <2>10
    <3>2. phys[General!BlockAt(lists[top][p])] = x BY <2>9, <3>1
    <3> QED BY <1>3, <3>2
  <2>12. General!Class(b.size) = top
    <3>1. PICK p \in 1 .. Len(lists[top]) : TRUE BY <1>4, <1>5, <2>7
    <3>2. PICK x \in FreeOf(phys) : General!Class(x.size) = top BY <1>7, <2>7, <3>1
    <3>3. x.size =< b.size BY <1>3, <2>3, <2>5, <3>2
    <3>4. General!AtLeast(General!Class(b.size), top) BY <1>2, <3>2, <3>3, LargerIsHigher
    <3>5. General!AtLeast(top, General!Class(b.size)) BY <1>6, <2>7
    <3> QED BY <1>5, <1>6, <2>7, <3>4, <3>5, ClassesAreOrdered
  <2>13. m \in sizes
    <3>1. PICK p \in 1 .. Len(lists[top]) : lists[top][p] = b.off
      BY <1>1, <2>12 DEF Matches
    <3>2. phys[General!BlockAt(lists[top][p])].size = m
      BY <2>5, <2>9, <3>1
    <3> QED BY <2>10, <3>1, <3>2
  <2> HIDE DEF sizes
  <2>14. (CHOOSE s \in sizes : \A z \in sizes : z =< s) = m
    <3>1. sizes \in SUBSET Nat /\ \A z \in sizes : z =< m BY <2>1, <2>3, <2>11
    <3> QED BY <2>13, <3>1, ChosenLargest
  <2>15. General!LargestFree = CHOOSE s \in S : \A z \in S : z =< s
    BY <2>4, <2>8, <2>14
  <2> QED BY <1>9, <2>15 DEF S
<1> QED BY <1>8, <1>9

\* What Stats reports.
LEMMA StatsMatch ==
  ASSUME GInv
  PROVE  General!StatsAreExact
<1>1. inUse = General!FoldSet(LAMBDA a, n : n + a.size, 0, handed) /\ count = Cardinality(handed)
  BY DEF GInv, Counted, SizesOf
<1>2. blocks = Cardinality({k \in DOMAIN phys : phys[k].free})
  BY FreePlaces
<1>3. General!LargestFree =
        (IF General!FreeSizes = {} THEN 0
         ELSE CHOOSE s \in General!FreeSizes : \A z \in General!FreeSizes : z =< s)
  BY LargestIsScanned
<1> QED BY <1>1, <1>2, <1>3, CountsAlike DEF General!StatsAreExact

-----------------------------------------------------------------------------
\* The request just refused, against the free blocks there are.
Honest ==
  \A r \in refused : \A b \in FreeOf(phys) :
    ~General!AtLeast(General!Class(b.size), General!ClassUp(r.size + r.align - Granularity))

\* For blocks as for their sizes.
LEMMA HonestRefuses ==
  ASSUME GInv, Honest
  PROVE  General!RefusalsAreHonest
<1>1. DOMAIN phys = 1 .. Len(phys)
  BY BlocksAreApart DEF GInv
<1>2. General!FreeSizes = {x.size : x \in FreeOf(phys)}
  BY <1>1 DEF General!FreeSizes, FreeOf
<1> QED BY <1>2 DEF Honest, General!RefusalsAreHonest

\* Only a refusal leaves a request refused.
LEMMA StepIsHonest ==
  ASSUME GInv, Honest, [General!Next]_general
  PROVE  Honest'
<1>1. ASSUME NEW r \in Requests, General!Alloc(r) PROVE Honest'
  <2>1. refused' = {}
    BY <1>1, Zenon DEF General!Alloc
  <2> QED BY <2>1 DEF Honest
<1>2. ASSUME NEW a \in handed, General!Free(a) PROVE Honest'
  <2>1. refused' = {}
    BY <1>2 DEF General!Free
  <2> QED BY <2>1 DEF Honest
<1>3. ASSUME NEW r \in Requests, General!NoSpace(r) PROVE Honest'
  <2>1. /\ General!FindFit(SizeOf(r), AlignOf(r)) = {} /\ phys' = phys
        /\ refused' = {[size |-> SizeOf(r), align |-> AlignOf(r)]}
    BY <1>3 DEF General!NoSpace, General!SizeOf, General!AlignOf, General!RoundUp, SizeOf, AlignOf, RoundUp
  <2>2. \A b \in FreeOf(phys) :
          ~General!AtLeast(General!Class(b.size), General!ClassUp(SizeOf(r) + AlignOf(r) - Granularity))
    BY <2>1, RefusedHonestly DEF GInv
  <2> DEFINE q == [size |-> SizeOf(r), align |-> AlignOf(r)]
  <2>3. q.size = SizeOf(r) /\ q.align = AlignOf(r) /\ refused' = {q}
    BY <2>1
  <2> HIDE DEF q
  <2>4. FreeOf(phys') = FreeOf(phys)
    BY <2>1
  <2>5. ASSUME NEW x \in refused', NEW b \in FreeOf(phys')
        PROVE  ~General!AtLeast(General!Class(b.size), General!ClassUp(x.size + x.align - Granularity))
    BY <2>2, <2>3, <2>4, <2>5
  <2> QED BY <2>5 DEF Honest, General!AtLeast, General!ClassUp, General!Class
<1>4. ASSUME UNCHANGED general PROVE Honest'
  BY <1>4 DEF Honest, general, General!AtLeast, General!ClassUp, General!Class
<1> QED BY <1>1, <1>2, <1>3, <1>4 DEF General!Next

-----------------------------------------------------------------------------
\* Each step of the general allocator is one of the promise, or none.
LEMMA GeneralStepRefines ==
  ASSUME GInv, [General!Next]_general
  PROVE  [General!Ranges!Next]_handed
<1>1. ASSUME NEW r \in Requests, General!Alloc(r) PROVE General!Ranges!Place
  <2>1. Tiled /\ Listed
    BY DEF GInv
  <2>2. PICK b \in FreeOf(phys), k \in 1 .. Len(phys), pad \in Multiples, rest \in Multiples : Cuts(r, b, k, pad, rest)
    BY <1>1, <2>1, AllocCuts
  <2> DEFINE off == b.off + pad
             a == [off |-> off, size |-> SizeOf(r), align |-> AlignOf(r)]
  <2>3. /\ Piecewise(b, pad, SizeOf(r), rest) /\ off % AlignOf(r) = 0 /\ handed' = handed \union {a}
    BY <2>2 DEF Cuts
  <2>4. /\ pad \in Nat /\ SizeOf(r) \in Nat /\ rest \in Nat /\ b.off \in Nat /\ b.size \in Nat
        /\ pad + SizeOf(r) + rest = b.size
    <3>1. /\ pad \in Nat /\ SizeOf(r) \in Nat \ {0} /\ rest \in Nat /\ b.off \in Nat /\ b.size \in Nat
      BY <2>3, CutPieces
    <3> QED BY <2>3, <3>1 DEF Piecewise
  <2>5. b.off + b.size =< General!Usable /\ General!Usable =< PoolSize /\ General!Usable \in Nat /\ PoolSize \in Nat
    BY <2>1, BlocksAreApart, UsableIsAMultiple, MultiplesDivide, PoolAssumption
  <2>6. off \in 0 .. PoolSize - SizeOf(r)
    <3> DEFINE z == SizeOf(r)
               u == General!Usable
    <3>1. /\ pad \in Nat /\ z \in Nat /\ rest \in Nat /\ b.off \in Nat /\ b.size \in Nat
          /\ pad + z + rest = b.size /\ b.off + b.size =< u /\ u =< PoolSize /\ u \in Nat /\ PoolSize \in Nat
      BY <2>4, <2>5
    <3> HIDE DEF z, u
    <3>2. b.off + pad \in 0 .. PoolSize - z
      BY <3>1
    <3> QED BY <3>2 DEF z
  <2>7. \A x \in handed : Disjoint(a, x)
    <3> SUFFICES ASSUME NEW x \in handed PROVE Disjoint(a, x)
      OBVIOUS
    <3>1. PICK c \in TakenOf(phys) : Same(x, c) BY FreeBlocks
    <3>2. c # b BY <2>1, BlocksAreApart
    <3>3. Disjoint(c, b) BY <2>1, <3>2, BlocksAreApart
    <3>4. x.off \in Nat /\ x.size \in Nat /\ x.off = c.off /\ x.size = c.size
      BY <3>1, FreeBlocks DEF Same
    <3>5. x.off + x.size =< b.off \/ b.off + b.size =< x.off
      BY <3>3, <3>4 DEF Disjoint
    <3>6. x.off + x.size =< off \/ off + SizeOf(r) =< x.off
      <4> DEFINE z == SizeOf(r)
                 y == x.off + x.size
      <4>1. /\ pad \in Nat /\ z \in Nat /\ rest \in Nat /\ b.off \in Nat /\ b.size \in Nat
            /\ pad + z + rest = b.size /\ y \in Nat /\ x.off \in Nat
            /\ (y =< b.off \/ b.off + b.size =< x.off)
        BY <2>4, <3>4, <3>5
      <4> HIDE DEF z, y
      <4>2. y =< b.off + pad \/ b.off + pad + z =< x.off
        BY <4>1
      <4> QED BY <4>2 DEF y, z
    <3> QED BY <3>6 DEF Disjoint
  <2>8. /\ General!Ranges!SizeOf(r) = SizeOf(r) /\ General!Ranges!AlignOf(r) = AlignOf(r)
        /\ \A x, y : General!Ranges!Disjoint(x, y) = Disjoint(x, y)
    BY DEF General!Ranges!SizeOf, General!Ranges!AlignOf, General!Ranges!RoundUp, General!Ranges!Disjoint,
           SizeOf, AlignOf, RoundUp, Disjoint
  <2> HIDE DEF off
  <2> QED BY <2>3, <2>6, <2>7, <2>8 DEF General!Ranges!Place
<1>2. ASSUME NEW a \in handed, General!Free(a) PROVE General!Ranges!Release
  BY <1>2 DEF General!Free, General!Ranges!Release
<1>3. ASSUME NEW r \in Requests, General!NoSpace(r) PROVE UNCHANGED handed
  BY <1>3 DEF General!NoSpace
<1>4. ASSUME UNCHANGED general PROVE UNCHANGED handed
  BY <1>4 DEF general
<1> QED BY <1>1, <1>2, <1>3, <1>4 DEF General!Next, General!Ranges!Next

-----------------------------------------------------------------------------
\* In every run the general allocator starts as its module says and takes its steps.
LEMMA GeneralMoves ==
  /\ MCInit => General!Init
  /\ [MCNext]_<<level, policy, vars, general, handles>> => [General!Next]_general
<1>1. MCInit => General!Init
  BY DEF MCInit, PoolInit
<1>2. ASSUME MCNext PROVE General!Next \/ UNCHANGED general
  BY <1>2 DEF MCNext, PoolNext, general
<1>3. ASSUME UNCHANGED <<level, policy, vars, general, handles>> PROVE UNCHANGED general
  BY <1>3
<1> QED BY <1>1, <1>2, <1>3

\* The invariant of a run.
LEMMA GInvHolds == MCSpec => [](GInv /\ Honest)
<1>1. MCInit => GInv /\ Honest
  <2>1. General!Init => Honest BY DEF General!Init, Honest
  <2> QED BY <2>1, GeneralMoves, InitTiles
<1>2. GInv /\ Honest /\ [MCNext]_<<level, policy, vars, general, handles>> => (GInv /\ Honest)'
  BY GeneralMoves, StepTiles, StepIsHonest
<1> QED BY <1>1, <1>2, PTL DEF MCSpec

\* A general pool's blocks are a gapless cover with no two free neighbours, each
\* free block is on the one list of its class and no other, the allocations held
\* are the blocks taken, and the counters Stats reports are the truth, for every
\* extent, granularity, number of classes and set of requests (TLSF.Alloc, TLSF.Free).
THEOREM BlocksListsAndCounters == MCSpec => []BlocksListsAndCountersAgree
<1>1. GInv => BlocksListsAndCountersAgree
  BY BlocksAreTyped, BlocksTile, ListsMatch, StatsMatch DEF BlocksListsAndCountersAgree, GeneralIsConsistent
<1> QED BY <1>1, GInvHolds, PTL

\* A request is refused only when no free block is of the class that its size and
\* padding round up to (TLSF.findFit).
THEOREM GeneralRefusals == MCSpec => []RefusalsAreHonest
<1>1. GInv /\ Honest => RefusalsAreHonest
  BY HonestRefuses DEF RefusalsAreHonest, GeneralRefusesHonestly
<1> QED BY <1>1, GInvHolds, PTL

\* The general pool implements the range allocator: what it hands out is aligned,
\* inside the pool and shares no byte with what is held (TLSF.Alloc, TLSF.Free).
THEOREM GeneralImplementsRangeAllocator == MCSpec => GeneralImplements
<1>1. MCInit => General!Ranges!Init
  BY GeneralMoves DEF General!Init, General!Ranges!Init
<1>2. GInv /\ [MCNext]_<<level, policy, vars, general, handles>> => [General!Ranges!Next]_handed
  BY GeneralMoves, GeneralStepRefines
<1> QED BY <1>1, <1>2, GInvHolds, PTL DEF MCSpec, GeneralImplements, General!Implements, General!Ranges!Spec
=============================================================================
