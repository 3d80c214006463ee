--------------------------------- MODULE TLSF ---------------------------------
(***************************************************************************)
(* The general pool's allocator (internal/alloc/tlsf.go): blocks in        *)
(* physical order, the free ones also on a list per size class.  A class   *)
(* is an exponent and SlBits bits below it, counted in granularity units.  *)
(* The bitmaps are the set of non-empty lists and are not kept apart.      *)
(***************************************************************************)
EXTENDS PoolRequests, FiniteSets, SequencesExt

CONSTANT SlBits  \* slBits: 4 in the code, smaller here so that a small pool rounds

VARIABLES
  phys,         \* blocks in physical order: [off, size, free]
  lists,        \* size class -> offsets of its free blocks, newest first
  live,         \* allocations a caller holds: [off, size, align], as asked for
  used, allocations, blocks,  \* the counters Stats reports
  refused       \* the request just refused, rounded, if the last call was one

vars == <<phys, lists, live, used, allocations, blocks, refused>>

SlCount == 2 ^ SlBits
Log2(n) == CHOOSE e \in 0 .. n : 2 ^ e =< n /\ n < 2 ^ (e + 1)
FlCount == Log2(PoolSize \div Granularity) + 2
Classes == (0 .. FlCount - 1) \X (0 .. SlCount - 1)

Class(size) ==
  LET u  == size \div Granularity
      fl == Log2(u)
  IN  <<fl, IF fl < SlBits THEN (u * 2 ^ (SlBits - fl)) % SlCount
                           ELSE (u \div 2 ^ (fl - SlBits)) % SlCount>>

\* Mutant: a hit on the request's own class is taken for a guarantee.
ClassItself(size) == Class(size)

\* Rounded up inside its exponent, so that any block of the class is enough.
ClassUp(size) ==
  LET u == size \div Granularity
      e == Log2(u)
  IN  Class((u + (IF e > SlBits THEN 2 ^ (e - SlBits) - 1 ELSE 0)) * Granularity)

Block(off, size, free) == [off |-> off, size |-> size, free |-> free]
BlockAt(off) == CHOOSE k \in DOMAIN phys : phys[k].off = off

\* A block goes to the head of its class's list and is unlinked where it stands.
Node(list, off) == CHOOSE p \in DOMAIN list : list[p] = off
Insert(ls, b) == [ls EXCEPT ![Class(b.size)] = <<b.off>> \o @]
Unlink(ls, b) == [ls EXCEPT ![Class(b.size)] = RemoveAt(@, Node(@, b.off))]

\* The same for a piece or a neighbour that may not be there: none, or one block.
PutBack(ls, piece) == IF piece = <<>> THEN ls ELSE Insert(ls, piece[1])
TakeOff(ls, piece) == IF piece = <<>> THEN ls ELSE Unlink(ls, piece[1])
Held(piece) == IF piece = <<>> THEN 0 ELSE piece[1].size

Usable == PoolSize - (PoolSize % Granularity)

Init ==
  /\ phys = <<Block(0, Usable, TRUE)>>
  /\ lists = Insert([c \in Classes |-> <<>>], Block(0, Usable, TRUE))
  /\ live = {} /\ used = 0 /\ allocations = 0 /\ blocks = 1
  /\ refused = {}

-----------------------------------------------------------------------------
AtLeast(c, d) == c[1] > d[1] \/ (c[1] = d[1] /\ c[2] >= d[2])

\* Mutant: the search stays inside the exponent it starts at.
CandidatesInExponent(c) ==
  LET nonEmpty == {d \in Classes : lists[d] # <<>> /\ AtLeast(d, c) /\ d[1] = c[1]}
  IN  IF nonEmpty = {} THEN <<>>
      ELSE lists[CHOOSE d \in nonEmpty : \A e \in nonEmpty : AtLeast(e, d)]

\* The first non-empty list at or above a class; nothing above the last one.
Candidates(c) ==
  LET nonEmpty == {d \in Classes : lists[d] # <<>> /\ AtLeast(d, c)}
  IN  IF nonEmpty = {} THEN <<>>
      ELSE lists[CHOOSE d \in nonEmpty : \A e \in nonEmpty : AtLeast(e, d)]

Absorbs(off, size, align) ==
  LET b == phys[BlockAt(off)]
  IN  RoundUp(b.off, align) + size =< b.off + b.size

FirstOf(list) == IF list = <<>> THEN {} ELSE {Head(list)}

\* The offset of the block the search returns, if any: over-asking for the padding
\* first, then the first of the exact class that happens to absorb it.
FindFit(size, align) ==
  LET over  == FirstOf(Candidates(ClassUp(size + align - Granularity)))
      exact == Candidates(ClassUp(size))
      good  == {p \in DOMAIN exact : Absorbs(exact[p], size, align)}
  IN  IF align =< Granularity THEN FirstOf(exact)
      ELSE IF over # {} THEN over
      ELSE {exact[p] : p \in {n \in good : \A m \in good : n =< m}}

\* The block is cut at the alignment and behind the size; what is cut off goes
\* back as free blocks, the tail only if it is itself addressable.
Alloc(r) ==
  \E off \in FindFit(SizeOf(r), AlignOf(r)) :
  LET size  == SizeOf(r)
      align == AlignOf(r)
      k     == BlockAt(off)
      b     == phys[k]
      start == RoundUp(b.off, align)
      pad   == start - b.off
      rest  == b.size - pad - size
      keep  == rest >= Granularity
      lead  == IF pad > 0 THEN <<Block(b.off, pad, TRUE)>> ELSE <<>>
      mine  == Block(start, IF keep THEN size ELSE size + rest, FALSE)
      tail  == IF keep THEN <<Block(start + size, rest, TRUE)>> ELSE <<>>
  IN  /\ phys' = SubSeq(phys, 1, k - 1) \o (lead \o <<mine>> \o tail)
                   \o SubSeq(phys, k + 1, Len(phys))
      /\ lists' = PutBack(PutBack(Unlink(lists, b), lead), tail)
      /\ blocks' = blocks - 1 + Len(lead) + Len(tail)
      /\ live' = live \union {[off |-> mine.off, size |-> mine.size, align |-> align]}
      /\ used' = used + mine.size
      /\ allocations' = allocations + 1
      /\ refused' = {}

\* ErrNoSpace changes nothing.
NoSpace(r) ==
  /\ FindFit(SizeOf(r), AlignOf(r)) = {}
  /\ refused' = {[size |-> SizeOf(r), align |-> AlignOf(r)]}
  /\ UNCHANGED <<phys, lists, live, used, allocations, blocks>>

\* Mutant: only the next neighbour is absorbed.
NeverAbsorbed(k) == <<>>

FreeBefore(k) == IF k > 1 /\ phys[k - 1].free THEN <<phys[k - 1]>> ELSE <<>>
FreeAfter(k)  == IF k < Len(phys) /\ phys[k + 1].free THEN <<phys[k + 1]>> ELSE <<>>

\* A freed block absorbs its next and then its previous neighbour if free.
Free(a) ==
  LET k    == BlockAt(a.off)
      next == FreeAfter(k)
      prev == FreeBefore(k)
      all  == Block(Head(prev \o <<phys[k]>>).off, Held(prev) + phys[k].size + Held(next), TRUE)
  IN  /\ phys' = SubSeq(phys, 1, k - 1 - Len(prev)) \o <<all>>
                   \o SubSeq(phys, k + 1 + Len(next), Len(phys))
      /\ lists' = Insert(TakeOff(TakeOff(lists, next), prev), all)
      /\ blocks' = blocks - Len(next) - Len(prev) + 1
      /\ live' = live \ {a}
      /\ used' = used - phys[k].size
      /\ allocations' = allocations - 1
      /\ refused' = {}

Next == \/ \E r \in Requests : Alloc(r) \/ NoSpace(r)
        \/ \E a \in live : Free(a)

Spec == Init /\ [][Next]_vars
-----------------------------------------------------------------------------
\* Shapes only.
TypeOK ==
  /\ \A k \in DOMAIN phys : /\ phys[k].off \in 0 .. PoolSize
                            /\ phys[k].size \in 1 .. PoolSize
                            /\ phys[k].free \in BOOLEAN
  /\ DOMAIN lists = Classes
  /\ used \in 0 .. PoolSize /\ allocations \in Nat /\ blocks \in Nat

\* Splitting and merging keep the blocks a gapless cover of the usable pool in
\* which no two free blocks stay adjacent, across any order of frees.
BlocksTileThePool ==
  /\ Head(phys).off = 0 /\ Last(phys).off + Last(phys).size = Usable
  /\ \A k \in 1 .. Len(phys) - 1 :
       /\ phys[k + 1].off = phys[k].off + phys[k].size
       /\ ~(phys[k].free /\ phys[k + 1].free)

\* The two views of free memory agree: a block is on exactly the list of its
\* present size, once, if and only if it is free, and used blocks are exactly
\* the allocations callers hold.
ListsMatchBlocks ==
  /\ \A c \in Classes : \A p \in DOMAIN lists[c] :
       \E k \in DOMAIN phys : /\ phys[k].free /\ phys[k].off = lists[c][p]
                              /\ Class(phys[k].size) = c
  /\ \A k \in DOMAIN phys :
       phys[k].free => Cardinality({p \in DOMAIN lists[Class(phys[k].size)] :
                                      lists[Class(phys[k].size)][p] = phys[k].off}) = 1
  /\ {[off |-> a.off, size |-> a.size] : a \in live} =
       {[off |-> phys[k].off, size |-> phys[k].size] : k \in {n \in DOMAIN phys : ~phys[n].free}}

FreeSizes == {phys[k].size : k \in {n \in DOMAIN phys : phys[n].free}}
NonEmpty == {c \in Classes : lists[c] # <<>>}

\* Stats scans only the highest class: its largest block.
LargestFree ==
  IF NonEmpty = {} THEN 0
  ELSE LET top == CHOOSE c \in NonEmpty : \A d \in NonEmpty : AtLeast(c, d)
           sizes == {phys[BlockAt(lists[top][p])].size : p \in DOMAIN lists[top]}
       IN  CHOOSE s \in sizes : \A z \in sizes : z =< s

\* What Stats reports without walking the pool is the truth: counters kept
\* across splits and merges, and the largest block of the highest class.
StatsAreExact ==
  /\ used = FoldSet(LAMBDA a, n : n + a.size, 0, live)
  /\ allocations = Cardinality(live)
  /\ blocks = Cardinality({k \in DOMAIN phys : phys[k].free})
  /\ LargestFree = (IF FreeSizes = {} THEN 0 ELSE CHOOSE s \in FreeSizes : \A z \in FreeSizes : z =< s)

\* A refusal is honest up to the class rounding: no free block is as large as
\* the size rounded up to its class, padding included (findFit).
RefusalsAreHonest ==
  \A r \in refused : \A s \in FreeSizes :
    ~AtLeast(Class(s), ClassUp(r.size + r.align - Granularity))

\* Live ranges stay aligned, disjoint and inside the pool: the allocator
\* implements the promise of RangeAllocator.
Ranges == INSTANCE RangeAllocator
Implements == Ranges!Spec
=============================================================================
