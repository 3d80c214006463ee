------------------------------- MODULE BlockPool -------------------------------
(***************************************************************************)
(* The pages of a KV cache (tensor/blockpool.go): sequences of different   *)
(* lengths grow their page tables from one free list and give their pages  *)
(* back.  Each operation holds p.mu, so each is one step; callers are      *)
(* sequences, and one that has freed its table may free it once more, on   *)
(* an error path or from another goroutine.                                *)
(***************************************************************************)
EXTENDS Integers, Sequences, FiniteSets, SequencesExt

CONSTANTS
  Callers,      \* the sequences being decoded
  Blocks,       \* the pool's pages
  BlockSize,    \* positions in a page
  MaxPositions  \* bound: the longest sequence

PoolAssumption ==
  Blocks \in Nat \ {0} /\ BlockSize \in Nat \ {0} /\ MaxPositions \in Nat

Pages == 0 .. Blocks - 1

VARIABLES
  free,     \* the free list, handed out from the end
  held,
  table,    \* sequence -> its page table
  freed,    \* sequence -> the table it freed last and still has a copy of
  stray     \* a second Free has given back a page that had a new owner

vars == <<free, held, table, freed, stray>>

Init ==
  /\ free = [i \in 1 .. Blocks |-> Blocks - i] /\ held = 0
  /\ table = [s \in Callers |-> <<>>] /\ freed = [s \in Callers |-> <<>>]
  /\ stray = FALSE

Want(n) == (n + BlockSize - 1) \div BlockSize

\* Mutant: the pages handed out are those at the other end of what is kept.
GrowFromTheFront(s, n) ==
  LET need == Want(n) - Len(table[s])
  IN  /\ need > 0 /\ need =< Len(free)
      /\ table' = [table EXCEPT ![s] = @ \o SubSeq(free, 1, need)]
      /\ free' = SubSeq(free, 1, Len(free) - need)
      /\ held' = held + need
      /\ UNCHANGED <<freed, stray>>

\* Nothing changes when the table is long enough, or when the pool is not.
Grow(s, n) ==
  LET need == Want(n) - Len(table[s])
      kept == Len(free) - need
  IN  /\ need > 0 /\ kept >= 0
      /\ table' = [table EXCEPT ![s] = @ \o SubSeq(free, kept + 1, Len(free))]
      /\ free' = SubSeq(free, 1, kept)
      /\ held' = held + need
      /\ UNCHANGED <<freed, stray>>

\* Mutant: Free believes its caller.
TakeAll(pages) == DOMAIN pages

\* The places of a table whose pages Free takes back: not on the list, and not
\* earlier in the same table.
Accepted(pages) ==
  {i \in DOMAIN pages : ~Contains(free, pages[i]) /\ \A j \in 1 .. i - 1 : pages[j] # pages[i]}

TakenBack(pages) == {pages[i] : i \in Accepted(pages)}

\* The k-th of a set of places.
Nth(places, k) == CHOOSE i \in places : Cardinality({j \in places : j =< i}) = k

\* They join the list in the table's order.
GiveBack(s, pages) ==
  LET places == Accepted(pages)
  IN  /\ free' = free \o [k \in 1 .. Cardinality(places) |-> pages[Nth(places, k)]]
      /\ held' = held - Cardinality(places)

\* A sequence is done.
Free(s) ==
  /\ table[s] # <<>>
  /\ GiveBack(s, table[s])
  /\ table' = [table EXCEPT ![s] = <<>>] /\ freed' = [freed EXCEPT ![s] = table[s]]
  /\ UNCHANGED stray

\* Its table is freed a second time.
FreeAgain(s) ==
  /\ freed[s] # <<>>
  /\ GiveBack(s, freed[s])
  /\ freed' = [freed EXCEPT ![s] = <<>>]
  /\ stray' = (stray \/ \E t \in Callers : ToSet(table[t]) \intersect TakenBack(freed[s]) # {})
  /\ UNCHANGED table

Next == \E s \in Callers : Free(s) \/ FreeAgain(s) \/ \E n \in 1 .. MaxPositions : Grow(s, n)

Spec == Init /\ [][Next]_vars

-----------------------------------------------------------------------------
TypeOK ==
  /\ free \in Seq(Pages) /\ held \in Int
  /\ table \in [Callers -> Seq(Pages)] /\ freed \in [Callers -> Seq(Pages)]
  /\ stray \in BOOLEAN

\* A page is on the free list or in one place of one sequence's table: no sequence
\* reads another's tokens, whatever is freed twice, as long as the second Free came
\* before the page had a new owner (the comment on Free).
PagesHaveOneOwner ==
  ~stray =>
    /\ IsInjective(free) /\ \A s \in Callers : IsInjective(table[s])
    /\ \A s \in Callers : ToSet(table[s]) \intersect ToSet(free) = {}
    /\ \A s, t \in Callers : s # t => ToSet(table[s]) \intersect ToSet(table[t]) = {}
    /\ \A p \in Pages : Contains(free, p) \/ \E s \in Callers : Contains(table[s], p)

\* Freeing a table a second time is refused for every page of it (the comment on
\* Free, "refused rather than ignored").
SecondFreesAreRefused ==
  [][\A s \in Callers : FreeAgain(s) => free' = free]_vars
=============================================================================
