-------------------------- MODULE QueueStream_proofs ---------------------------
(***************************************************************************)
(* What a queue promises, for any number of callers, queues, writes and    *)
(* submissions.  A unit only waits for the one before it in the chain, so  *)
(* that running alone is not inductive: IInv says that behind an           *)
(* unfinished unit every later one of its queue still waits, for that unit *)
(* or for one behind it.  HeldOnce says that a staged write is in one      *)
(* place, and WInv what has become of it, between the critical section in  *)
(* which a call takes a batch and the one in which it chains its unit.     *)
(*                                                                         *)
(* In the second half, the graphs those units run (GraphSubmission): GInv  *)
(* says whose each flag and the claim on the shared pool are, and that the *)
(* pool is as large as the graphs that hold it need.                       *)
(***************************************************************************)
EXTENDS QueueStream, MCGraphSubmission, FiniteSetTheorems, TLAPS

Writings == Seq(Nat)
TakingRecord == [queue : Queues \union {None}, batch : Writings, graph : BOOLEAN, after : Writings,
           owed : SUBSET Nat, elsewhere : SUBSET Nat]
UnitRecord == [queue : Queues, behind : Nat, batch : Writings, left : Writings, graph : BOOLEAN,
               after : Writings, stage : Stages, failed : BOOLEAN, owed : SUBSET Nat, elsewhere : SUBSET Nat]

\* The fences are of the first k units.
WaitsFor(fences, k) == \A i \in DOMAIN fences : fences[i] \in 1 .. k

Typed ==
  /\ issued \in Seq(Queues) /\ Len(issued) =< MaxWrites
  /\ pending \in [Queues -> Writings] /\ prev \in [Queues -> Nat]
  /\ units \in Seq(UnitRecord) /\ tried \in Writings /\ refused \subseteq Nat
  /\ pc \in [Callers -> {"idle", "taken"}] /\ taken \in [Callers -> TakingRecord]
  /\ \A c \in Callers : pc[c] = "taken" => taken[c].queue \in Queues
  /\ \A c \in Callers : WaitsFor(taken[c].after, Len(units))
  /\ \A u \in DOMAIN units :
       WaitsFor(units[u].after, u - 1) /\ (units[u].stage = "after" => units[u].after # <<>>)

Open(u) == units[u].stage # "closed"

\* A unit waits for an earlier one of its own queue.
BehindIsEarlier ==
  \A u \in DOMAIN units :
    /\ units[u].behind < u
    /\ units[u].behind # None => units[units[u].behind].queue = units[u].queue

\* The unit a queue ends with is its own, and none that is unfinished is later.
PrevIsLast ==
  /\ \A q \in Queues : prev[q] =< Len(units) /\ (prev[q] # None => units[prev[q]].queue = q)
  /\ \A v \in DOMAIN units : Open(v) => v =< prev[units[v].queue]

\* Everything later than an unfinished unit of its queue waits behind it.
LaterUnitsWait ==
  \A u, v \in DOMAIN units :
    v < u /\ units[v].queue = units[u].queue /\ Open(v) =>
      units[u].stage = "queued" /\ v =< units[u].behind

IInv == Typed /\ BehindIsEarlier /\ PrevIsLast /\ LaterUnitsWait

-----------------------------------------------------------------------------
LEMMA UnitsAreTyped ==
  ASSUME IInv, NEW w \in DOMAIN units
  PROVE  /\ units[w] \in UnitRecord
         /\ units[w].behind \in Nat /\ units[w].behind < w /\ units[w].queue \in Queues
         /\ units[w].behind # None => units[units[w].behind].queue = units[w].queue
<1>1. units[w] \in UnitRecord
  BY DEF IInv, Typed
<1>2. units[w].behind \in Nat /\ units[w].queue \in Queues
  BY <1>1 DEF UnitRecord
<1> QED BY <1>1, <1>2 DEF IInv, BehindIsEarlier

LEMMA TailWaitsFor ==
  ASSUME NEW fences \in Seq(Nat), fences # <<>>, NEW k, WaitsFor(fences, k)
  PROVE  WaitsFor(Tail(fences), k)
<1>1. \A i \in DOMAIN Tail(fences) : i + 1 \in DOMAIN fences /\ Tail(fences)[i] = fences[i + 1]
  OBVIOUS
<1> QED BY <1>1 DEF WaitsFor

\* A unit knows its fences, and those it has still to wait for are some of them.
WaitsOn(r, before) == r.after = before \/ (before # <<>> /\ r.after = Tail(before))

(* What the steps do to the chain.  A goroutine changes the stage of its own *)
(* unit, which is not closed before, and not queued after.                   *)
Moves(u) ==
  /\ units' \in Seq(UnitRecord) /\ Len(units') = Len(units)
  /\ \A w \in DOMAIN units :
       /\ units'[w].queue = units[w].queue /\ units'[w].behind = units[w].behind
       /\ w # u => units'[w] = units[w]
  /\ WaitsOn(units'[u], units[u].after)
  /\ units'[u].stage = "after" => units'[u].after # <<>>
  /\ Open(u) /\ units'[u].stage # "queued"
  /\ units[u].stage = "queued" => Settled(units[u].behind)
  /\ tried' \in Writings /\ refused' \subseteq Nat
  /\ UNCHANGED <<issued, pending, prev, pc, taken>>

LEMMA GoroutineMoves ==
  ASSUME IInv, NEW u \in DOMAIN units, Goroutine(u)
  PROVE  Moves(u)
<1> USE DEF None
<1>1. /\ units \in Seq(UnitRecord) /\ units[u] \in UnitRecord /\ units[u].after \in Seq(Nat)
      /\ tried \in Writings /\ refused \subseteq Nat
      /\ units[u].stage = "after" => units[u].after # <<>>
  <2>1. units[u] \in UnitRecord
    BY DEF IInv, Typed
  <2> QED BY <2>1 DEF IInv, Typed, UnitRecord, Writings
<1>2. UNCHANGED <<issued, pending, prev, pc, taken>>
  BY DEF Goroutine, Begin, AwaitAfter, Land, EndWrites, RunGraph, CloseDone, Unchanged
<1>3. ASSUME NEW r \in UnitRecord, units' = [units EXCEPT ![u] = r],
             r.queue = units[u].queue, r.behind = units[u].behind
      PROVE  /\ units' \in Seq(UnitRecord) /\ Len(units') = Len(units)
             /\ \A w \in DOMAIN units :
                  /\ units'[w].queue = units[w].queue /\ units'[w].behind = units[w].behind
                  /\ w # u => units'[w] = units[w]
             /\ units'[u] = r
  BY <1>1, <1>3
<1>4. ASSUME tried' = tried, refused' = refused PROVE tried' \in Writings /\ refused' \subseteq Nat
  BY <1>1, <1>4
<1>5. CASE Begin(u)
  <2> DEFINE r == [units[u] EXCEPT !.stage = IF units[u].after = <<>> THEN "writes" ELSE "after"]
  <2>1. r \in UnitRecord /\ units' = [units EXCEPT ![u] = r] /\ r.stage # "queued"
        /\ r.queue = units[u].queue /\ r.behind = units[u].behind /\ r.after = units[u].after
        /\ (r.stage = "after" => r.after # <<>>)
    BY <1>1, <1>5 DEF Begin, UnitRecord, Stages
  <2>2. tried' = tried /\ refused' = refused /\ units[u].stage = "queued" /\ Settled(units[u].behind)
    BY <1>5 DEF Begin, device
  <2> HIDE DEF r
  <2>3. units'[u] = r /\ WaitsOn(r, units[u].after) /\ Open(u)
    BY <1>3, <2>1, <2>2 DEF WaitsOn, Open
  <2>4. tried' \in Writings /\ refused' \subseteq Nat
    BY <1>4, <2>2
  <2> QED BY <1>2, <1>3, <2>1, <2>2, <2>3, <2>4 DEF Moves
<1>6. CASE AwaitAfter(u)
  <2> DEFINE rest == Tail(units[u].after)
             ends == units[Head(units[u].after)].failed
             r == IF ends THEN [units[u] EXCEPT !.stage = "signalled", !.failed = TRUE]
                  ELSE [units[u] EXCEPT !.after = rest,
                                        !.stage = IF rest = <<>> THEN "writes" ELSE "after"]
  <2>1. units[u].stage = "after" /\ units[u].after # <<>> /\ rest \in Seq(Nat)
    BY <1>1, <1>6 DEF AwaitAfter
  <2>2. units' = [units EXCEPT ![u] = r]
    BY <1>1, <1>6 DEF AwaitAfter
  <2>3. CASE ends
    <3>1. r = [units[u] EXCEPT !.stage = "signalled", !.failed = TRUE]
      BY <2>3
    <3> HIDE DEF r, ends, rest
    <3>2. r \in UnitRecord /\ r.stage = "signalled" /\ r.queue = units[u].queue
          /\ r.behind = units[u].behind /\ r.after = units[u].after
      BY <1>1, <3>1 DEF UnitRecord, Stages
    <3>3. tried' = tried /\ refused' = refused
      BY <1>6 DEF AwaitAfter, device
    <3> QED BY <1>1, <1>2, <1>3, <1>4, <2>1, <2>2, <3>2, <3>3 DEF Moves, Open, WaitsOn
  <2>4. CASE ~ends
    <3>1. r = [units[u] EXCEPT !.after = rest, !.stage = IF rest = <<>> THEN "writes" ELSE "after"]
      BY <2>4
    <3> HIDE DEF r, ends
    <3>2. r.after = rest /\ r.queue = units[u].queue /\ r.behind = units[u].behind
          /\ r.stage \in {"writes", "after"} /\ (r.stage = "after" => r.after # <<>>)
          /\ r \in UnitRecord
      BY <1>1, <2>1, <3>1 DEF UnitRecord, Stages, Writings
    <3>3. tried' = tried /\ refused' = refused
      BY <1>6 DEF AwaitAfter, device
    <3> QED BY <1>1, <1>2, <1>3, <1>4, <2>1, <2>2, <3>2, <3>3 DEF Moves, Open, WaitsOn
  <2> QED BY <2>3, <2>4
<1>7. CASE Land(u)
  <2>1. PICK fails \in BOOLEAN :
          /\ units' = [units EXCEPT ![u].left = Tail(@), ![u].failed = @ \/ fails]
          /\ refused' = IF fails THEN refused \union {Head(units[u].left)} ELSE refused
    BY <1>7, QueueAssumption DEF Land
  <2> DEFINE r == [units[u] EXCEPT !.left = Tail(@), !.failed = @ \/ fails]
  <2>2. units[u].left \in Seq(Nat) /\ units[u].left # <<>> /\ units[u].failed \in BOOLEAN
    BY <1>1, <1>7 DEF Land, UnitRecord, Writings
  <2>3. Head(units[u].left) \in Nat /\ Tail(units[u].left) \in Seq(Nat)
    BY <2>2
  <2>4. (units[u].failed \/ fails) \in BOOLEAN
    OBVIOUS
  <2>5. r \in UnitRecord /\ r.stage = units[u].stage
        /\ r.queue = units[u].queue /\ r.behind = units[u].behind /\ r.after = units[u].after
    BY <1>1, <2>3, <2>4 DEF UnitRecord, Writings
  <2>6. units' = [units EXCEPT ![u] = r] /\ units[u].stage = "writes"
    BY <1>1, <1>7, <2>1 DEF Land
  <2>7. tried' \in Writings /\ refused' \subseteq Nat
    BY <1>1, <1>7, <2>1, <2>3 DEF Land, Writings
  <2> HIDE DEF r
  <2> QED BY <1>2, <1>3, <2>5, <2>6, <2>7 DEF Moves, Open, WaitsOn
<1>8. CASE EndWrites(u)
  <2> DEFINE r == [units[u] EXCEPT !.stage =
                    IF units[u].graph /\ ~units[u].failed THEN "graph" ELSE "signalled"]
  <2>1. r \in UnitRecord /\ units' = [units EXCEPT ![u] = r] /\ r.stage \in {"graph", "signalled"}
        /\ r.queue = units[u].queue /\ r.behind = units[u].behind /\ r.after = units[u].after
    BY <1>1, <1>8 DEF EndWrites, UnitRecord, Stages
  <2>2. tried' = tried /\ refused' = refused
    BY <1>8 DEF EndWrites, device
  <2> HIDE DEF r
  <2> QED BY <1>1, <1>2, <1>3, <1>4, <1>8, <2>1, <2>2 DEF EndWrites, Moves, Open, WaitsOn
<1>9. CASE RunGraph(u)
  <2>1. PICK fails \in BOOLEAN :
          units' = [units EXCEPT ![u].stage = "signalled", ![u].failed = fails]
    BY <1>9 DEF RunGraph
  <2> DEFINE r == [units[u] EXCEPT !.stage = "signalled", !.failed = fails]
  <2>2. r \in UnitRecord /\ units' = [units EXCEPT ![u] = r] /\ r.stage = "signalled"
        /\ r.queue = units[u].queue /\ r.behind = units[u].behind /\ r.after = units[u].after
    BY <1>1, <2>1 DEF UnitRecord, Stages
  <2>3. tried' = tried /\ refused' = refused
    BY <1>9 DEF RunGraph, device
  <2> HIDE DEF r
  <2> QED BY <1>1, <1>2, <1>3, <1>4, <1>9, <2>2, <2>3 DEF RunGraph, Moves, Open, WaitsOn
<1>10. CASE CloseDone(u)
  <2> DEFINE r == [units[u] EXCEPT !.stage = "closed"]
  <2>1. r \in UnitRecord /\ units' = [units EXCEPT ![u] = r] /\ r.stage = "closed"
        /\ r.queue = units[u].queue /\ r.behind = units[u].behind /\ r.after = units[u].after
    BY <1>1, <1>10 DEF CloseDone, UnitRecord, Stages
  <2>2. tried' = tried /\ refused' = refused
    BY <1>10 DEF CloseDone, device
  <2> HIDE DEF r
  <2> QED BY <1>1, <1>2, <1>3, <1>4, <1>10, <2>1, <2>2 DEF CloseDone, Moves, Open, WaitsOn
<1> QED BY <1>5, <1>6, <1>7, <1>8, <1>9, <1>10 DEF Goroutine

LEMMA MovesKeepInv ==
  ASSUME IInv, NEW u \in DOMAIN units, Moves(u)
  PROVE  IInv'
<1> USE DEF None
<1>0. DOMAIN units' = DOMAIN units /\ \A w \in DOMAIN units : w \in Nat \ {0} /\ w =< Len(units)
  BY DEF IInv, Typed, Moves
<1>1. Typed'
  <2>1. WaitsFor(units'[u].after, u - 1)
    <3>1. units[u].after \in Seq(Nat) /\ WaitsFor(units[u].after, u - 1)
      <4>1. units[u] \in UnitRecord
        BY DEF IInv, Typed
      <4> QED BY <4>1 DEF IInv, Typed, UnitRecord, Writings
    <3> QED BY <3>1, TailWaitsFor DEF Moves, WaitsOn
  <2>2. \A w \in DOMAIN units :
          WaitsFor(units'[w].after, w - 1) /\ (units'[w].stage = "after" => units'[w].after # <<>>)
    BY <2>1 DEF IInv, Typed, Moves
  <2> QED BY <1>0, <2>2 DEF IInv, Typed, Moves
<1>2. BehindIsEarlier'
  <2> SUFFICES ASSUME NEW w \in DOMAIN units
               PROVE  /\ units'[w].behind < w
                      /\ units'[w].behind # None => units'[units'[w].behind].queue = units'[w].queue
    BY <1>0 DEF BehindIsEarlier
  <2>1. /\ units[w].behind < w /\ units[w].behind \in Nat
        /\ units[w].behind # None => units[units[w].behind].queue = units[w].queue
    BY UnitsAreTyped
  <2>2. units[w].behind # None => units[w].behind \in DOMAIN units
    BY <1>0, <2>1 DEF IInv, Typed
  <2> QED BY <2>1, <2>2 DEF Moves
<1>3. \A w \in DOMAIN units : Open(w)' => Open(w)
  BY DEF Moves, Open
<1>4. PrevIsLast'
  <2>1. \A q \in Queues : prev[q] # None => prev[q] \in DOMAIN units
    BY DEF IInv, Typed, PrevIsLast
  <2> QED BY <1>0, <1>3, <2>1 DEF IInv, PrevIsLast, Moves
<1>5. LaterUnitsWait'
  <2> SUFFICES ASSUME NEW w \in DOMAIN units, NEW v \in DOMAIN units,
                      v < w, units[v].queue = units[w].queue, Open(v)
               PROVE  units'[w].stage = "queued" /\ v =< units'[w].behind
    BY <1>0, <1>3 DEF LaterUnitsWait, Moves
  <2>1. units[w].stage = "queued" /\ v =< units[w].behind
    BY DEF IInv, LaterUnitsWait
  <2>2. CASE w # u
    BY <2>1, <2>2 DEF Moves
  <2>3. CASE w = u
    <3> DEFINE b == units[w].behind
    <3>1. Settled(b) /\ b < w /\ b \in Nat /\ v =< b /\ b # None
      BY <1>0, <2>1, <2>3, UnitsAreTyped DEF Moves
    <3>2. b \in DOMAIN units /\ units[b].queue = units[w].queue /\ ~Open(b)
      BY <1>0, <3>1 DEF IInv, BehindIsEarlier, Typed, Settled, Open
    <3>3. v < b
      BY <1>0, <3>1, <3>2
    <3>4. units[b].stage = "queued"
      BY <3>2, <3>3 DEF IInv, LaterUnitsWait
    <3> QED BY <3>2, <3>4 DEF Open
  <2> QED BY <2>2, <2>3
<1> QED BY <1>1, <1>2, <1>4, <1>5 DEF IInv

-----------------------------------------------------------------------------
(* What a call may add to the chain: a unit of q at its end, that waits for   *)
(* the one q ended with, or one that is closed already when nothing is ahead. *)
Chains(q, r) ==
  /\ r \in UnitRecord /\ r.queue = q /\ WaitsFor(r.after, Len(units)) /\ r.stage # "after"
  /\ units' = Append(units, r)
  /\ \/ r.stage = "queued" /\ r.behind = prev[q] /\ prev' = [prev EXCEPT ![q] = Len(units) + 1]
     \/ r.stage = "closed" /\ r.behind = None /\ prev' = prev /\ Settled(prev[q])

LEMMA ChainsKeepOrder ==
  ASSUME IInv, NEW q \in Queues, NEW r, Chains(q, r)
  PROVE  BehindIsEarlier' /\ PrevIsLast' /\ LaterUnitsWait'
<1> USE DEF None
<1> DEFINE n == Len(units) + 1
<1>1. /\ units \in Seq(UnitRecord) /\ n \in Nat \ {0} /\ prev \in [Queues -> Nat]
      /\ DOMAIN units = 1 .. n - 1 /\ DOMAIN units' = 1 .. n /\ Len(units') = n
      /\ units'[n] = r /\ \A w \in DOMAIN units : units'[w] = units[w]
  BY DEF IInv, Typed, Chains
<1>2. \A w \in DOMAIN units : /\ units[w].behind \in Nat /\ units[w].behind < w
                              /\ units[w].queue \in Queues
                              /\ units[w].behind # None => units[units[w].behind].queue = units[w].queue
  BY UnitsAreTyped
<1>3. /\ prev[q] \in Nat /\ prev[q] < n
      /\ prev[q] # None => prev[q] \in DOMAIN units /\ units[prev[q]].queue = q
  BY <1>1 DEF IInv, PrevIsLast
<1>4. r.queue = q /\ (r.behind = prev[q] \/ r.behind = None)
  BY DEF Chains
<1>5. BehindIsEarlier'
  <2> SUFFICES ASSUME NEW w \in 1 .. n
               PROVE  /\ units'[w].behind < w
                      /\ units'[w].behind # None => units'[units'[w].behind].queue = units'[w].queue
    BY <1>1 DEF BehindIsEarlier
  <2>1. CASE w = n
    BY <1>1, <1>3, <1>4, <2>1
  <2>2. CASE w # n
    <3>1. w \in DOMAIN units /\ (units[w].behind # None => units[w].behind \in DOMAIN units)
      BY <1>1, <1>2, <2>2
    <3> QED BY <1>1, <1>2, <3>1
  <2> QED BY <2>1, <2>2
<1>6. \A v \in DOMAIN units : units[v].queue = q /\ Open(v) => v =< prev[q]
  BY DEF IInv, PrevIsLast
<1>7. r.stage = "closed" => \A v \in DOMAIN units : units[v].queue = q => ~Open(v)
  <2> SUFFICES ASSUME r.stage = "closed", NEW v \in DOMAIN units, units[v].queue = q, Open(v)
               PROVE  FALSE
    OBVIOUS
  <2>1. Settled(prev[q]) /\ v =< prev[q] /\ v \in Nat \ {0}
    BY <1>1, <1>6 DEF Chains
  <2>2. prev[q] \in DOMAIN units /\ units[prev[q]].queue = q /\ units[prev[q]].stage = "closed"
    BY <1>1, <1>3, <2>1 DEF Settled
  <2>3. v < prev[q]
    BY <1>3, <2>1, <2>2 DEF Open
  <2>4. units[prev[q]].stage = "queued"
    BY <2>2, <2>3 DEF IInv, LaterUnitsWait
  <2> QED BY <2>2, <2>4
<1>8. PrevIsLast'
  <2>1. \A p \in Queues : prev'[p] = prev[p] \/ (p = q /\ prev'[p] = n)
    BY <1>1 DEF Chains
  <2>2. \A p \in Queues : /\ prev[p] \in Nat /\ prev[p] < n
                          /\ prev[p] # None => prev[p] \in DOMAIN units /\ units[prev[p]].queue = p
    BY <1>1 DEF IInv, PrevIsLast
  <2>3. \A p \in Queues : prev'[p] =< Len(units') /\ (prev'[p] # None => units'[prev'[p]].queue = p)
    BY <1>1, <1>4, <2>1, <2>2
  <2>4. \A v \in DOMAIN units' : Open(v)' => v =< prev'[units'[v].queue]
    <3> SUFFICES ASSUME NEW v \in 1 .. n, units'[v].stage # "closed"
                 PROVE  v =< prev'[units'[v].queue]
      BY <1>1 DEF Open
    <3>1. CASE v = n
      <4>1. r.stage = "queued" /\ prev'[q] = n
        BY <1>1, <3>1 DEF Chains
      <4> QED BY <1>1, <1>4, <3>1, <4>1
    <3>2. CASE v # n
      <4>1. v \in DOMAIN units /\ units'[v] = units[v] /\ units[v].queue \in Queues
        BY <1>1, <1>2, <3>2
      <4>2. v =< prev[units[v].queue]
        BY <4>1 DEF IInv, PrevIsLast, Open
      <4> QED BY <1>1, <2>1, <2>2, <4>1, <4>2
    <3> QED BY <3>1, <3>2
  <2> QED BY <2>3, <2>4 DEF PrevIsLast
<1>9. LaterUnitsWait'
  <2> SUFFICES ASSUME NEW w \in 1 .. n, NEW v \in 1 .. n, v < w,
                      units'[v].queue = units'[w].queue, units'[v].stage # "closed"
               PROVE  units'[w].stage = "queued" /\ v =< units'[w].behind
    BY <1>1 DEF LaterUnitsWait, Open
  <2>1. v \in DOMAIN units /\ units'[v] = units[v]
    BY <1>1
  <2>2. CASE w = n
    <3>1. units[v].queue = q /\ Open(v)
      BY <1>1, <1>4, <2>1, <2>2 DEF Open
    <3>2. r.stage # "closed"
      BY <1>7, <2>1, <3>1
    <3>3. r.stage = "queued" /\ r.behind = prev[q]
      BY <3>2 DEF Chains
    <3> QED BY <1>1, <1>6, <2>1, <2>2, <3>1, <3>3
  <2>3. CASE w # n
    <3>1. w \in DOMAIN units /\ units'[w] = units[w]
      BY <1>1, <2>3
    <3> QED BY <2>1, <3>1 DEF IInv, LaterUnitsWait, Open
  <2> QED BY <2>2, <2>3
<1> QED BY <1>5, <1>8, <1>9

\* The unit that is added waits for the fences there are, and these stay.
LEMMA ChainsKeepFences ==
  ASSUME IInv, NEW q \in Queues, NEW r, Chains(q, r)
  PROVE  /\ units' \in Seq(UnitRecord)
         /\ \A u \in DOMAIN units' :
              WaitsFor(units'[u].after, u - 1) /\ (units'[u].stage = "after" => units'[u].after # <<>>)
         /\ \A fences : WaitsFor(fences, Len(units)) => WaitsFor(fences, Len(units'))
<1> DEFINE n == Len(units) + 1
<1>1. /\ units \in Seq(UnitRecord) /\ r \in UnitRecord /\ units' = Append(units, r)
      /\ WaitsFor(r.after, Len(units)) /\ r.stage # "after"
  BY DEF IInv, Typed, Chains
<1>2. /\ units' \in Seq(UnitRecord) /\ Len(units') = n /\ n \in Nat /\ n - 1 = Len(units)
      /\ units'[n] = r /\ \A w \in DOMAIN units : units'[w] = units[w]
      /\ DOMAIN units' = DOMAIN units \union {n}
  BY <1>1
<1>3. \A fences : WaitsFor(fences, Len(units)) => WaitsFor(fences, n)
  BY <1>2 DEF WaitsFor
<1> HIDE DEF n
<1>4. ASSUME NEW u \in DOMAIN units'
      PROVE  WaitsFor(units'[u].after, u - 1) /\ (units'[u].stage = "after" => units'[u].after # <<>>)
  <2>1. CASE u = n
    BY <1>1, <1>2, <2>1
  <2>2. CASE u # n
    BY <1>2, <2>2 DEF IInv, Typed
  <2> QED BY <2>1, <2>2
<1> QED BY <1>2, <1>3, <1>4

-----------------------------------------------------------------------------
(* The calls.                                                                 *)
LEMMA QueueData ==
  ASSUME IInv, NEW q \in Queues
  PROVE  pending[q] \in Writings /\ IssuedTo(q) \in SUBSET Nat /\ InHands \in SUBSET Nat
<1>1. pending[q] \in Writings
  BY DEF IInv, Typed
<1>2. IssuedTo(q) \in SUBSET Nat
  BY DEF IInv, Typed, IssuedTo
<1>3. \A c \in Callers : taken[c].batch \in Seq(Nat)
  BY DEF IInv, Typed, TakingRecord, Writings
<1>4. \A c \in Callers : Range(taken[c].batch) \subseteq Nat
  BY <1>3 DEF Range
<1> QED BY <1>1, <1>2, <1>4 DEF InHands

\* When the chain does not change, neither does its order.
LEMMA OrderIsOfTheChain ==
  ASSUME IInv, UNCHANGED <<units, prev>>
  PROVE  BehindIsEarlier' /\ PrevIsLast' /\ LaterUnitsWait'
BY DEF IInv, BehindIsEarlier, PrevIsLast, LaterUnitsWait, Open

LEMMA WriteBufferKeepsInv ==
  ASSUME IInv, NEW c \in Callers, NEW q \in Queues, WriteBuffer(c, q)
  PROVE  IInv'
<1>1. /\ issued' = Append(issued, q) /\ Len(issued) < MaxWrites
      /\ pending' = [pending EXCEPT ![q] = Append(@, Len(issued'))]
      /\ UNCHANGED <<prev, units, tried, refused, pc, taken>>
  BY DEF WriteBuffer, device
<1>2. issued \in Seq(Queues) /\ pending \in [Queues -> Writings] /\ MaxWrites \in Nat
  BY QueueAssumption DEF IInv, Typed
<1>3. issued' \in Seq(Queues) /\ Len(issued') = Len(issued) + 1 /\ Len(issued') \in Nat
  BY <1>1, <1>2
<1>4. pending[q] \in Seq(Nat)
  BY <1>2 DEF Writings
<1>5. Append(pending[q], Len(issued')) \in Seq(Nat)
  BY <1>3, <1>4
<1>6. pending' \in [Queues -> Writings]
  BY <1>1, <1>2, <1>5 DEF Writings
<1>7. Len(issued') =< MaxWrites
  BY <1>1, <1>2, <1>3
<1>8. Typed'
  BY <1>1, <1>3, <1>6, <1>7 DEF IInv, Typed
<1> QED BY <1>1, <1>8, OrderIsOfTheChain DEF IInv

LEMMA TakeKeepsInv ==
  ASSUME IInv, NEW c \in Callers, NEW q \in Queues, NEW g \in BOOLEAN, NEW f \in Seq(Nat),
         WaitsFor(f, Len(units)), Take(c, q, g, f)
  PROVE  IInv'
<1> DEFINE t == Taking(q, g, f)
<1>1. t \in TakingRecord /\ t.queue \in Queues /\ WaitsFor(t.after, Len(units))
  BY QueueData DEF Taking, TakingRecord, Writings
<1>2. /\ taken' = [taken EXCEPT ![c] = t] /\ pc' = [pc EXCEPT ![c] = "taken"]
      /\ pending' = [pending EXCEPT ![q] = <<>>] /\ UNCHANGED <<issued, prev, units, tried, refused>>
  BY DEF Take, device
<1> HIDE DEF t
<1>3. <<>> \in Writings
  BY DEF Writings
<1>4. Typed'
  BY <1>1, <1>2, <1>3 DEF IInv, Typed
<1> QED BY <1>2, <1>4, OrderIsOfTheChain DEF IInv

LEMMA EnqueueKeepsInv ==
  ASSUME IInv, NEW c \in Callers, Enqueue(c)
  PROVE  IInv'
<1> DEFINE q == taken[c].queue
<1> DEFINE r == Unit(taken[c], prev[q], "queued")
<1>1. taken[c] \in TakingRecord /\ q \in Queues /\ WaitsFor(taken[c].after, Len(units)) /\ prev[q] \in Nat
      /\ units \in Seq(UnitRecord)
  BY DEF IInv, Typed, Enqueue
<1>2. r \in UnitRecord /\ r.queue = q /\ r.stage = "queued" /\ r.behind = prev[q]
      /\ r.after = taken[c].after
  BY <1>1 DEF Unit, UnitRecord, TakingRecord, Stages
<1>3. /\ units' = Append(units, r) /\ prev' = [prev EXCEPT ![q] = Len(units) + 1]
      /\ pc' = [pc EXCEPT ![c] = "idle"] /\ taken' = [taken EXCEPT ![c] = NothingTaken]
      /\ UNCHANGED <<issued, pending, tried, refused>>
  BY DEF Enqueue, device
<1>4. NothingTaken \in TakingRecord /\ NothingTaken.after = <<>>
  BY DEF NothingTaken, TakingRecord, None, Writings
<1> HIDE DEF q, r
<1>5. Chains(q, r)
  BY <1>1, <1>2, <1>3 DEF Chains
<1>6. /\ units' \in Seq(UnitRecord)
      /\ \A u \in DOMAIN units' :
           WaitsFor(units'[u].after, u - 1) /\ (units'[u].stage = "after" => units'[u].after # <<>>)
      /\ \A fences : WaitsFor(fences, Len(units)) => WaitsFor(fences, Len(units'))
  BY <1>1, <1>5, ChainsKeepFences
<1>7. prev' \in [Queues -> Nat]
  BY <1>1, <1>3 DEF IInv, Typed
<1>8. /\ taken' \in [Callers -> TakingRecord] /\ pc' \in [Callers -> {"idle", "taken"}]
      /\ \A d \in Callers : pc'[d] = "taken" => taken'[d].queue \in Queues
  BY <1>3, <1>4 DEF IInv, Typed
<1>9. \A d \in Callers : WaitsFor(taken'[d].after, Len(units'))
  <2> SUFFICES ASSUME NEW d \in Callers PROVE WaitsFor(taken'[d].after, Len(units'))
    OBVIOUS
  <2>1. WaitsFor(taken[d].after, Len(units)) /\ taken \in [Callers -> TakingRecord]
    BY DEF IInv, Typed
  <2>2. taken'[d] = taken[d] \/ taken'[d] = NothingTaken
    BY <1>3, <2>1
  <2>3. WaitsFor(<<>>, Len(units'))
    BY DEF WaitsFor
  <2> QED BY <1>4, <1>6, <2>1, <2>2, <2>3
<1>10. Typed'
  BY <1>3, <1>6, <1>7, <1>8, <1>9 DEF IInv, Typed
<1> QED BY <1>1, <1>5, <1>10, ChainsKeepOrder DEF IInv

LEMMA FlushNothingKeepsInv ==
  ASSUME IInv, NEW c \in Callers, NEW q \in Queues, FlushNothing(c, q)
  PROVE  IInv'
<1> DEFINE t == Taking(q, FALSE, <<>>)
<1> DEFINE r == Unit(t, None, "closed")
<1>1. t \in TakingRecord /\ t.queue = q /\ t.after = <<>>
  BY QueueData DEF Taking, TakingRecord, None, Writings
<1> HIDE DEF t
<1>2. r \in UnitRecord /\ r.queue = q /\ r.stage = "closed" /\ r.behind = None /\ r.after = <<>>
  BY <1>1 DEF Unit, UnitRecord, TakingRecord, Stages, None
<1>3. /\ units' = Append(units, r) /\ Settled(prev[q])
      /\ UNCHANGED <<issued, pending, prev, tried, refused, pc, taken>>
  BY DEF FlushNothing, NothingToWaitFor, t, device
<1>4. WaitsFor(<<>>, Len(units))
  BY DEF WaitsFor
<1> HIDE DEF r
<1>5. Chains(q, r)
  BY <1>2, <1>3, <1>4 DEF Chains
<1>6. Typed'
  BY <1>3, <1>5, ChainsKeepFences DEF IInv, Typed
<1> QED BY <1>5, <1>6, ChainsKeepOrder DEF IInv

LEMMA CallsKeepInv ==
  ASSUME IInv, NEW c \in Callers, Call(c)
  PROVE  IInv'
<1>1. ASSUME NEW q \in Queues, WriteBuffer(c, q) PROVE IInv'
  BY <1>1, WriteBufferKeepsInv
<1>2. <<>> \in Seq(Nat) /\ WaitsFor(<<>>, Len(units))
  BY DEF WaitsFor
<1>3. ASSUME NEW q \in Queues, Submit(c, q) PROVE IInv'
  BY <1>2, <1>3, TakeKeepsInv DEF Submit
<1>4. ASSUME NEW q \in Queues, SubmitAfter(c, q) PROVE IInv'
  <2>1. PICK f \in GivenFences : Take(c, q, TRUE, f)
    BY <1>4 DEF SubmitAfter
  <2>2. PICK n \in 1 .. MaxAfters : f \in [1 .. n -> DOMAIN units]
    BY DEF GivenFences
  <2>3. DOMAIN units = 1 .. Len(units) /\ Len(units) \in Nat /\ n \in Nat
    BY QueueAssumption DEF IInv, Typed
  <2>4. f \in [1 .. n -> Nat] /\ \A i \in DOMAIN f : f[i] \in 1 .. Len(units)
    BY <2>2, <2>3
  <2>5. f \in Seq(Nat)
    BY <2>3, <2>4
  <2> QED BY <2>1, <2>4, <2>5, TakeKeepsInv DEF WaitsFor
<1>5. ASSUME NEW q \in Queues, Flush(c, q) PROVE IInv'
  BY <1>2, <1>5, TakeKeepsInv, FlushNothingKeepsInv DEF Flush
<1>6. ASSUME Enqueue(c) PROVE IInv'
  BY <1>6, EnqueueKeepsInv
<1> QED BY <1>1, <1>3, <1>4, <1>5, <1>6 DEF Call

-----------------------------------------------------------------------------
LEMMA InitHasInv == Init => IInv
<1> SUFFICES ASSUME Init PROVE IInv
  OBVIOUS
<1>1. NothingTaken \in TakingRecord /\ NothingTaken.after = <<>>
  BY DEF NothingTaken, TakingRecord, None, Writings
<1>2. Typed
  BY <1>1, QueueAssumption DEF Init, Typed, Writings, WaitsFor, None
<1>3. BehindIsEarlier /\ PrevIsLast /\ LaterUnitsWait
  BY DEF Init, BehindIsEarlier, PrevIsLast, LaterUnitsWait, None
<1> QED BY <1>2, <1>3 DEF IInv

LEMMA StepsKeepInv == IInv /\ [Next]_vars => IInv'
<1> SUFFICES ASSUME IInv, [Next]_vars PROVE IInv'
  OBVIOUS
<1>1. ASSUME NEW c \in Callers, Call(c) PROVE IInv'
  BY <1>1, CallsKeepInv
<1>2. ASSUME NEW u \in DOMAIN units, Goroutine(u) PROVE IInv'
  BY <1>2, GoroutineMoves, MovesKeepInv
<1>3. CASE UNCHANGED vars
  <2>1. Typed'
    BY <1>3 DEF vars, device, IInv, Typed
  <2> QED BY <1>3, <2>1, OrderIsOfTheChain DEF vars, IInv
<1> QED BY <1>1, <1>2, <1>3 DEF Next

LEMMA InvImpliesTypeOK == IInv => TypeOK
<1> SUFFICES ASSUME IInv PROVE TypeOK
  OBVIOUS
<1>1. \A n \in DOMAIN issued : n =< MaxWrites /\ issued[n] \in Queues
  BY QueueAssumption DEF IInv, Typed
<1>2. \A q \in Queues : prev[q] \in 0 .. Len(units)
  BY DEF IInv, Typed, PrevIsLast
<1>3. ASSUME NEW u \in DOMAIN units
      PROVE  /\ units[u].stage \in Stages /\ units[u].behind \in 0 .. u - 1
             /\ Range(units[u].after) \subseteq 1 .. u - 1 /\ units[u].failed \in BOOLEAN
  <2>1. units[u] \in UnitRecord /\ units[u].behind \in Nat /\ units[u].behind < u /\ u \in Nat
    BY UnitsAreTyped DEF IInv, Typed
  <2>2. units[u].stage \in Stages /\ units[u].failed \in BOOLEAN
    BY <2>1 DEF UnitRecord
  <2>3. Range(units[u].after) \subseteq 1 .. u - 1
    BY DEF IInv, Typed, WaitsFor, Range
  <2> QED BY <2>1, <2>2, <2>3
<1>4. \A c \in Callers : pc[c] \in {"idle", "taken"}
  BY DEF IInv, Typed
<1> QED BY <1>1, <1>2, <1>3, <1>4 DEF TypeOK

LEMMA InvImpliesOneUnit == IInv => OneUnitAtATime
<1> SUFFICES ASSUME IInv, NEW u \in DOMAIN units, NEW v \in DOMAIN units,
                    units[u].queue = units[v].queue, Active(u), Active(v), u # v
             PROVE  FALSE
  BY DEF OneUnitAtATime
<1>1. u \in Nat /\ v \in Nat
  BY DEF IInv, Typed
<1>2. Open(u) /\ Open(v) /\ units[u].stage # "queued" /\ units[v].stage # "queued"
  BY DEF Active, Open
<1>3. CASE v < u
  BY <1>2, <1>3 DEF IInv, LaterUnitsWait
<1>4. CASE u < v
  BY <1>2, <1>4 DEF IInv, LaterUnitsWait
<1> QED BY <1>1, <1>3, <1>4

\* Of every behaviour the fences, the chain and the callers have their types,
\* and a unit is chained on one made before it (enqueue in graph.go).
THEOREM TypeCorrect == Spec => []TypeOK
BY InitHasInv, StepsKeepInv, InvImpliesTypeOK, PTL DEF Spec

\* For any number of callers, queues and units, two submissions of one queue
\* never run at once, although a call takes its batch in one critical section
\* and chains its unit in another (Flush, submit and enqueue in graph.go).
THEOREM UnitsRunAlone == Spec => []OneUnitAtATime
BY InitHasInv, StepsKeepInv, InvImpliesOneUnit, PTL DEF Spec
-----------------------------------------------------------------------------
(* Where the staged writes are.  A write waits in a queue, in the hands of a  *)
(* caller or in what a unit has left, or was handed over: it is in one place. *)
Once(s) == \A k, l \in DOMAIN s : s[k] = s[l] => k = l
Apart(s, t) == \A k \in DOMAIN s, l \in DOMAIN t : s[k] # t[l]
OfQueue(is, s, q) == \A k \in DOMAIN s : s[k] \in DOMAIN is /\ is[s[k]] = q

PendingOnce ==
  \A q \in Queues : /\ Once(pending[q]) /\ OfQueue(issued, pending[q], q) /\ Apart(pending[q], tried)
                    /\ \A c \in Callers : Apart(pending[q], taken[c].batch)
                    /\ \A u \in DOMAIN units : Apart(pending[q], units[u].left)
TakenOnce ==
  \A c \in Callers :
    LET b == taken[c].batch
    IN  /\ Once(b) /\ OfQueue(issued, b, taken[c].queue) /\ Apart(b, tried)
        /\ pc[c] = "idle" => b = <<>>
        /\ \A d \in Callers : c # d => Apart(b, taken[d].batch)
        /\ \A u \in DOMAIN units : Apart(b, units[u].left)
LeftOnce ==
  \A u \in DOMAIN units :
    /\ Once(units[u].left) /\ OfQueue(issued, units[u].left, units[u].queue) /\ Apart(units[u].left, tried)
    /\ OfQueue(issued, units[u].batch, units[u].queue)
    /\ \A v \in DOMAIN units : u # v => Apart(units[u].left, units[v].left)
TriedOnce == Once(tried) /\ \A k \in DOMAIN tried : tried[k] \in DOMAIN issued

HeldOnce == PendingOnce /\ TakenOnce /\ LeftOnce /\ TriedOnce

\* What is typed of the places.
LEMMA PlacesAreTyped ==
  ASSUME IInv
  PROVE  /\ issued \in Seq(Queues) /\ Len(issued) \in Nat /\ tried \in Seq(Nat)
         /\ pending \in [Queues -> Seq(Nat)] /\ taken \in [Callers -> TakingRecord]
         /\ \A c \in Callers : taken[c].batch \in Seq(Nat) /\ taken[c] \in TakingRecord
         /\ units \in Seq(UnitRecord) /\ Len(units) \in Nat
         /\ \A u \in DOMAIN units : units[u] \in UnitRecord /\ units[u].left \in Seq(Nat)
                                   /\ units[u].batch \in Seq(Nat)
         /\ pc \in [Callers -> {"idle", "taken"}]
<1>1. Typed
  BY DEF IInv
<1>2. \A c \in Callers : taken[c] \in TakingRecord
  BY <1>1 DEF Typed
<1>3. \A u \in DOMAIN units : units[u] \in UnitRecord
  BY <1>1 DEF Typed
<1>4. \A r \in TakingRecord : r.batch \in Seq(Nat)
  BY DEF TakingRecord, Writings
<1>5. \A r \in UnitRecord : r.left \in Seq(Nat) /\ r.batch \in Seq(Nat)
  BY DEF UnitRecord, Writings
<1> QED BY <1>1, <1>2, <1>3, <1>4, <1>5 DEF Typed, Writings

LEMMA WriteBufferHoldsOnce ==
  ASSUME IInv, HeldOnce, NEW c \in Callers, NEW q \in Queues, WriteBuffer(c, q)
  PROVE  HeldOnce'
<1> DEFINE n == Len(issued) + 1
<1>1. /\ issued' = Append(issued, q) /\ pending' = [pending EXCEPT ![q] = Append(@, n)]
      /\ UNCHANGED <<units, tried, refused, pc, taken>>
  BY PlacesAreTyped DEF WriteBuffer, device
<1>2. /\ n \in Nat /\ n \notin DOMAIN issued /\ DOMAIN issued' = DOMAIN issued \union {n}
      /\ issued'[n] = q /\ \A k \in DOMAIN issued : issued'[k] = issued[k]
  BY <1>1, PlacesAreTyped
<1> HIDE DEF n
<1>3. \A s, r : OfQueue(issued, s, r) => OfQueue(issued', s, r) /\ \A k \in DOMAIN s : s[k] # n
  BY <1>2 DEF OfQueue
<1>4. \A k \in DOMAIN tried : tried[k] # n
  BY <1>2 DEF HeldOnce, TriedOnce
<1>5. /\ DOMAIN pending'[q] = DOMAIN pending[q] \union {Len(pending[q]) + 1}
      /\ Len(pending[q]) + 1 \notin DOMAIN pending[q]
      /\ pending'[q][Len(pending[q]) + 1] = n
      /\ \A k \in DOMAIN pending[q] : pending'[q][k] = pending[q][k]
      /\ \A r \in Queues : r # q => pending'[r] = pending[r]
  BY <1>1, <1>2, PlacesAreTyped
<1>6. PendingOnce'
  <2> SUFFICES ASSUME NEW r \in Queues
               PROVE  /\ Once(pending'[r]) /\ OfQueue(issued', pending'[r], r) /\ Apart(pending'[r], tried)
                      /\ \A d \in Callers : Apart(pending'[r], taken[d].batch)
                      /\ \A u \in DOMAIN units : Apart(pending'[r], units[u].left)
    BY <1>1 DEF PendingOnce
  <2>1. CASE r # q
    BY <1>3, <1>5, <2>1 DEF HeldOnce, PendingOnce
  <2>2. CASE r = q
    <3>1. Once(pending'[q])
      BY <1>3, <1>5 DEF HeldOnce, PendingOnce, Once
    <3>2. OfQueue(issued', pending'[q], q)
      BY <1>2, <1>5 DEF HeldOnce, PendingOnce, OfQueue
    <3>3. \A t : Apart(pending[q], t) /\ (\A k \in DOMAIN t : t[k] # n) => Apart(pending'[q], t)
      BY <1>5 DEF Apart
    <3> QED BY <1>3, <1>4, <2>2, <3>1, <3>2, <3>3 DEF HeldOnce, PendingOnce, TakenOnce, LeftOnce
  <2> QED BY <2>1, <2>2
<1>7. TakenOnce'
  BY <1>1, <1>3 DEF HeldOnce, TakenOnce
<1>8. LeftOnce'
  BY <1>1, <1>3 DEF HeldOnce, LeftOnce
<1>9. TriedOnce'
  BY <1>1, <1>2 DEF HeldOnce, TriedOnce
<1> QED BY <1>6, <1>7, <1>8, <1>9 DEF HeldOnce

LEMMA TakeHoldsOnce ==
  ASSUME IInv, HeldOnce, NEW c \in Callers, NEW q \in Queues, NEW g, NEW f, Take(c, q, g, f)
  PROVE  HeldOnce'
<1>1. /\ pc[c] = "idle" /\ pending' = [pending EXCEPT ![q] = <<>>]
      /\ taken' = [taken EXCEPT ![c] = Taking(q, g, f)]
      /\ pc' = [pc EXCEPT ![c] = "taken"] /\ UNCHANGED <<issued, units, tried, refused>>
  BY DEF Take, device
<1>2. /\ pending'[q] = <<>> /\ \A r \in Queues : r # q => pending'[r] = pending[r]
      /\ taken'[c].batch = pending[q] /\ taken'[c].queue = q /\ pc'[c] = "taken"
      /\ \A d \in Callers : d # c => taken'[d] = taken[d] /\ pc'[d] = pc[d]
  BY <1>1, PlacesAreTyped DEF Taking
<1>3. \A s, r : /\ Apart(s, <<>>) /\ Apart(<<>>, s) /\ Once(<<>>) /\ OfQueue(issued, <<>>, r)
               /\ OfQueue(issued', s, r) = OfQueue(issued, s, r)
  BY <1>1 DEF Apart, Once, OfQueue
<1>4. \A s, t : Apart(s, t) => Apart(t, s)
  BY DEF Apart
<1>5. PendingOnce'
  <2> SUFFICES ASSUME NEW r \in Queues
               PROVE  /\ Once(pending'[r]) /\ OfQueue(issued', pending'[r], r) /\ Apart(pending'[r], tried)
                      /\ \A d \in Callers : Apart(pending'[r], taken'[d].batch)
                      /\ \A u \in DOMAIN units : Apart(pending'[r], units[u].left)
    BY <1>1 DEF PendingOnce
  <2>1. CASE r = q
    BY <1>2, <1>3, <2>1
  <2>2. CASE r # q
    <3>1. pending'[r] = pending[r] /\ Apart(pending[r], pending[q])
      BY <1>2, <2>2 DEF HeldOnce, PendingOnce, OfQueue, Apart
    <3> QED BY <1>2, <1>3, <3>1 DEF HeldOnce, PendingOnce
  <2> QED BY <2>1, <2>2
<1>6. TakenOnce'
  <2> SUFFICES ASSUME NEW d \in Callers
               PROVE  LET b == taken'[d].batch
                      IN  /\ Once(b) /\ OfQueue(issued', b, taken'[d].queue) /\ Apart(b, tried)
                          /\ pc'[d] = "idle" => b = <<>>
                          /\ \A e \in Callers : d # e => Apart(b, taken'[e].batch)
                          /\ \A u \in DOMAIN units : Apart(b, units[u].left)
    BY <1>1 DEF TakenOnce
  <2>1. CASE d = c
    BY <1>2, <1>3, <1>4, <2>1 DEF HeldOnce, PendingOnce, TakenOnce
  <2>2. CASE d # c
    BY <1>2, <1>3, <1>4, <2>2 DEF HeldOnce, PendingOnce, TakenOnce
  <2> QED BY <2>1, <2>2
<1>7. LeftOnce'
  BY <1>1, <1>3 DEF HeldOnce, LeftOnce
<1>8. TriedOnce'
  BY <1>1 DEF HeldOnce, TriedOnce
<1> QED BY <1>5, <1>6, <1>7, <1>8 DEF HeldOnce
\* A unit added to the chain with an empty batch, or with what a caller held.
LEMMA AddedUnit ==
  ASSUME IInv, NEW t \in TakingRecord, NEW behind, NEW label, units' = Append(units, Unit(t, behind, label))
  PROVE  LET n == Len(units) + 1
         IN  /\ n \in Nat /\ n \notin DOMAIN units /\ DOMAIN units' = DOMAIN units \union {n}
             /\ units'[n] = Unit(t, behind, label)
             /\ units'[n].left = t.batch /\ units'[n].batch = t.batch /\ units'[n].queue = t.queue
             /\ units'[n].stage = label /\ units'[n].after = t.after
             /\ units'[n].owed = t.owed /\ units'[n].elsewhere = t.elsewhere
             /\ \A u \in DOMAIN units : units'[u] = units[u] /\ u \in Nat /\ u < n
<1> DEFINE r == Unit(t, behind, label)
<1>1. /\ r.left = t.batch /\ r.batch = t.batch /\ r.queue = t.queue /\ r.stage = label
      /\ r.after = t.after /\ r.owed = t.owed /\ r.elsewhere = t.elsewhere
  BY DEF Unit
<1> HIDE DEF r
<1>2. units' = Append(units, r)
  BY DEF r
<1>3. units \in Seq(UnitRecord)
  BY PlacesAreTyped
<1> QED BY <1>1, <1>2, <1>3 DEF r

LEMMA FlushNothingHoldsOnce ==
  ASSUME IInv, HeldOnce, NEW c \in Callers, NEW q \in Queues, FlushNothing(c, q)
  PROVE  HeldOnce'
<1> DEFINE n == Len(units) + 1
           t == Taking(q, FALSE, <<>>)
<1>1. /\ pending[q] = <<>> /\ units' = Append(units, Unit(t, None, "closed"))
      /\ UNCHANGED <<issued, pending, tried, refused, pc, taken>>
  BY DEF FlushNothing, NothingToWaitFor, device
<1>2. t \in TakingRecord /\ t.batch = <<>> /\ t.queue = q
  BY <1>1, QueueData DEF Taking, TakingRecord, Writings
<1> HIDE DEF t
<1>3. /\ n \in Nat /\ n \notin DOMAIN units /\ DOMAIN units' = DOMAIN units \union {n}
      /\ units'[n].left = <<>> /\ units'[n].batch = <<>>
      /\ \A u \in DOMAIN units : units'[u] = units[u]
  BY <1>1, <1>2, AddedUnit
<1> HIDE DEF n
<1>4. \A s, r : /\ Apart(s, <<>>) /\ Apart(<<>>, s) /\ Once(<<>>) /\ OfQueue(issued, <<>>, r)
  BY DEF Apart, Once, OfQueue
<1>5. PendingOnce'
  BY <1>1, <1>3, <1>4 DEF HeldOnce, PendingOnce
<1>6. TakenOnce'
  BY <1>1, <1>3, <1>4 DEF HeldOnce, TakenOnce
<1>7. LeftOnce'
  <2> SUFFICES ASSUME NEW u \in DOMAIN units'
               PROVE  /\ Once(units'[u].left) /\ OfQueue(issued, units'[u].left, units'[u].queue)
                      /\ Apart(units'[u].left, tried)
                      /\ OfQueue(issued, units'[u].batch, units'[u].queue)
                      /\ \A v \in DOMAIN units' : u # v => Apart(units'[u].left, units'[v].left)
    BY <1>1 DEF LeftOnce
  <2>1. CASE u = n
    BY <1>3, <1>4, <2>1
  <2>2. CASE u # n
    <3>1. u \in DOMAIN units /\ units'[u] = units[u]
      BY <1>3, <2>2
    <3> QED BY <1>3, <1>4, <3>1 DEF HeldOnce, LeftOnce
  <2> QED BY <2>1, <2>2
<1>8. TriedOnce'
  BY <1>1 DEF HeldOnce, TriedOnce
<1> QED BY <1>5, <1>6, <1>7, <1>8 DEF HeldOnce

LEMMA EnqueueHoldsOnce ==
  ASSUME IInv, HeldOnce, NEW c \in Callers, Enqueue(c)
  PROVE  HeldOnce'
<1> DEFINE n == Len(units) + 1
<1>1. /\ units' = Append(units, Unit(taken[c], prev[taken[c].queue], "queued"))
      /\ pc' = [pc EXCEPT ![c] = "idle"] /\ taken' = [taken EXCEPT ![c] = NothingTaken]
      /\ UNCHANGED <<issued, pending, tried, refused>>
  BY DEF Enqueue, device
<1>2. /\ n \in Nat /\ n \notin DOMAIN units /\ DOMAIN units' = DOMAIN units \union {n}
      /\ units'[n].left = taken[c].batch /\ units'[n].batch = taken[c].batch
      /\ units'[n].queue = taken[c].queue
      /\ \A u \in DOMAIN units : units'[u] = units[u]
  BY <1>1, AddedUnit, PlacesAreTyped
<1>3. /\ taken'[c].batch = <<>> /\ \A d \in Callers : d # c => taken'[d] = taken[d] /\ pc'[d] = pc[d]
  BY <1>1, PlacesAreTyped DEF NothingTaken
<1> HIDE DEF n
<1>4. \A s, r : /\ Apart(s, <<>>) /\ Apart(<<>>, s) /\ Once(<<>>) /\ OfQueue(issued, <<>>, r)
  BY DEF Apart, Once, OfQueue
<1>5. \A s, t : Apart(s, t) => Apart(t, s)
  BY DEF Apart
<1>6. PendingOnce'
  <2> SUFFICES ASSUME NEW r \in Queues
               PROVE  /\ \A d \in Callers : Apart(pending[r], taken'[d].batch)
                      /\ \A u \in DOMAIN units' : Apart(pending[r], units'[u].left)
    BY <1>1 DEF HeldOnce, PendingOnce
  <2> QED BY <1>2, <1>3, <1>4 DEF HeldOnce, PendingOnce
<1>7. TakenOnce'
  <2> SUFFICES ASSUME NEW d \in Callers
               PROVE  LET b == taken'[d].batch
                      IN  /\ Once(b) /\ OfQueue(issued, b, taken'[d].queue) /\ Apart(b, tried)
                          /\ pc'[d] = "idle" => b = <<>>
                          /\ \A e \in Callers : d # e => Apart(b, taken'[e].batch)
                          /\ \A u \in DOMAIN units' : Apart(b, units'[u].left)
    BY <1>1 DEF TakenOnce
  <2>1. CASE d = c
    BY <1>3, <1>4, <2>1
  <2>2. CASE d # c
    BY <1>2, <1>3, <1>4, <2>2 DEF HeldOnce, TakenOnce
  <2> QED BY <2>1, <2>2
<1>8. LeftOnce'
  <2> SUFFICES ASSUME NEW u \in DOMAIN units'
               PROVE  /\ Once(units'[u].left) /\ OfQueue(issued, units'[u].left, units'[u].queue)
                      /\ Apart(units'[u].left, tried)
                      /\ OfQueue(issued, units'[u].batch, units'[u].queue)
                      /\ \A v \in DOMAIN units' : u # v => Apart(units'[u].left, units'[v].left)
    BY <1>1 DEF LeftOnce
  <2>1. CASE u = n
    BY <1>2, <2>1 DEF HeldOnce, TakenOnce
  <2>2. CASE u # n
    <3>1. u \in DOMAIN units /\ units'[u] = units[u]
      BY <1>2, <2>2
    <3> QED BY <1>2, <1>5, <3>1 DEF HeldOnce, LeftOnce, TakenOnce
  <2> QED BY <2>1, <2>2
<1>9. TriedOnce'
  BY <1>1 DEF HeldOnce, TriedOnce
<1> QED BY <1>6, <1>7, <1>8, <1>9 DEF HeldOnce

\* Of the places, a goroutine changes only what its unit has left and what was
\* handed over, one write at a time.
HandsOver(u) ==
  /\ units[u].stage = "writes" /\ units'[u].stage = "writes" /\ units[u].left # <<>>
  /\ tried' = Append(tried, Head(units[u].left)) /\ units'[u].left = Tail(units[u].left)
  /\ \E fails \in BOOLEAN :
       /\ refused' = IF fails THEN refused \union {Head(units[u].left)} ELSE refused
       /\ units'[u].failed = (units[u].failed \/ fails)

LEMMA GoroutineData ==
  ASSUME IInv, NEW u \in DOMAIN units, Goroutine(u)
  PROVE  /\ DOMAIN units' = DOMAIN units /\ Len(units') = Len(units)
         /\ \A w \in DOMAIN units :
              /\ units'[w].queue = units[w].queue /\ units'[w].batch = units[w].batch
              /\ units'[w].owed = units[w].owed /\ units'[w].elsewhere = units[w].elsewhere
              /\ w # u => units'[w] = units[w]
         /\ UNCHANGED <<issued, pending, pc, taken>>
         /\ \/ UNCHANGED <<tried, refused>> /\ units'[u].left = units[u].left
            \/ HandsOver(u)
<1>1. /\ units \in Seq(UnitRecord) /\ units[u] \in UnitRecord
      /\ units[u].failed \in BOOLEAN /\ units[u].stage \in Stages
  <2>1. units[u] \in UnitRecord /\ units \in Seq(UnitRecord)
    BY PlacesAreTyped
  <2> QED BY <2>1 DEF UnitRecord
<1>2. UNCHANGED <<issued, pending, pc, taken>>
  BY DEF Goroutine, Begin, AwaitAfter, Land, EndWrites, RunGraph, CloseDone, Unchanged
<1>3. ASSUME NEW r, units' = [units EXCEPT ![u] = r],
             r.queue = units[u].queue, r.batch = units[u].batch, r.owed = units[u].owed,
             r.elsewhere = units[u].elsewhere
      PROVE  /\ DOMAIN units' = DOMAIN units /\ Len(units') = Len(units)
             /\ \A w \in DOMAIN units :
                  /\ units'[w].queue = units[w].queue /\ units'[w].batch = units[w].batch
                  /\ units'[w].owed = units[w].owed /\ units'[w].elsewhere = units[w].elsewhere
                  /\ w # u => units'[w] = units[w]
             /\ units'[u] = r
  <2>1. DOMAIN units' = DOMAIN units /\ \A w \in DOMAIN units : w # u => units'[w] = units[w]
    BY <1>1, <1>3
  <2>2. units'[u] = r
    BY <1>1, <1>3
  <2>3. Len(units') = Len(units)
    <3>1. units' \in [1 .. Len(units) -> {r} \union UnitRecord]
      BY <1>1, <1>3
    <3> QED BY <1>1, <3>1
  <2> QED BY <1>3, <2>1, <2>2, <2>3
<1>4. CASE Land(u)
  <2>1. PICK fails \in BOOLEAN :
          /\ refused' = IF fails THEN refused \union {Head(units[u].left)} ELSE refused
          /\ units' = [units EXCEPT ![u].left = Tail(@), ![u].failed = @ \/ fails]
    BY <1>4, QueueAssumption DEF Land
  <2> DEFINE r == [units[u] EXCEPT !.left = Tail(@), !.failed = @ \/ fails]
  <2>2. /\ units' = [units EXCEPT ![u] = r] /\ tried' = Append(tried, Head(units[u].left))
        /\ units[u].stage = "writes" /\ units[u].left # <<>>
    BY <1>1, <1>4, <2>1 DEF Land
  <2>3. /\ r.queue = units[u].queue /\ r.batch = units[u].batch /\ r.owed = units[u].owed
        /\ r.elsewhere = units[u].elsewhere
        /\ r.left = Tail(units[u].left) /\ r.stage = units[u].stage
        /\ r.failed = (units[u].failed \/ fails)
    BY <1>1 DEF UnitRecord
  <2> HIDE DEF r
  <2>4. units'[u] = r
    BY <1>3, <2>2, <2>3
  <2>5. HandsOver(u)
    BY <2>1, <2>2, <2>3, <2>4 DEF HandsOver
  <2> QED BY <1>2, <1>3, <2>2, <2>3, <2>5
<1>5. ASSUME Begin(u) \/ AwaitAfter(u) \/ EndWrites(u) \/ RunGraph(u) \/ CloseDone(u)
      PROVE  /\ UNCHANGED <<tried, refused>>
             /\ \E label, failed, after :
                  units' = [units EXCEPT ![u] =
                             [units[u] EXCEPT !.stage = label, !.failed = failed, !.after = after]]
  <2>0. UNCHANGED <<tried, refused>>
    BY <1>5 DEF Begin, AwaitAfter, EndWrites, RunGraph, CloseDone, device
  <2> DEFINE r(label, failed, after) ==
               [units[u] EXCEPT !.stage = label, !.failed = failed, !.after = after]
  <2>1. ASSUME NEW label
        PROVE  [units[u] EXCEPT !.stage = label] = r(label, units[u].failed, units[u].after)
    BY <1>1 DEF UnitRecord
  <2>2. ASSUME NEW label, NEW failed
        PROVE  [units[u] EXCEPT !.stage = label, !.failed = failed] = r(label, failed, units[u].after)
    BY <1>1 DEF UnitRecord
  <2>3. ASSUME NEW label, NEW after
        PROVE  [units[u] EXCEPT !.after = after, !.stage = label] = r(label, units[u].failed, after)
    BY <1>1 DEF UnitRecord
  <2>4. CASE Begin(u) \/ EndWrites(u) \/ CloseDone(u)
    <3>1. PICK label : units' = [units EXCEPT ![u] = [units[u] EXCEPT !.stage = label]]
      BY <1>1, <2>4 DEF Begin, EndWrites, CloseDone
    <3>2. units' = [units EXCEPT ![u] = r(label, units[u].failed, units[u].after)]
      BY <2>1, <3>1
    <3> QED BY <2>0, <3>2
  <2>5. CASE AwaitAfter(u)
    <3>1. \/ units' = [units EXCEPT ![u] = [units[u] EXCEPT !.stage = "signalled", !.failed = TRUE]]
          \/ \E label : units' = [units EXCEPT ![u] =
               [units[u] EXCEPT !.after = Tail(units[u].after), !.stage = label]]
      BY <1>1, <2>5 DEF AwaitAfter, UnitRecord
    <3>2. CASE units' = [units EXCEPT ![u] = [units[u] EXCEPT !.stage = "signalled", !.failed = TRUE]]
      <4>1. units' = [units EXCEPT ![u] = r("signalled", TRUE, units[u].after)]
        BY <2>2, <3>2
      <4> QED BY <2>0, <4>1
    <3>3. ASSUME NEW label, units' = [units EXCEPT ![u] =
                              [units[u] EXCEPT !.after = Tail(units[u].after), !.stage = label]]
          PROVE  \E lb, failed, after : units' = [units EXCEPT ![u] = r(lb, failed, after)]
      <4>1. units' = [units EXCEPT ![u] = r(label, units[u].failed, Tail(units[u].after))]
        BY <2>3, <3>3
      <4> QED BY <4>1
    <3> QED BY <2>0, <3>1, <3>2, <3>3
  <2>6. CASE RunGraph(u)
    <3>1. PICK fails : units' = [units EXCEPT ![u] = [units[u] EXCEPT !.stage = "signalled", !.failed = fails]]
      BY <1>1, <2>6 DEF RunGraph
    <3>2. units' = [units EXCEPT ![u] = r("signalled", fails, units[u].after)]
      BY <2>2, <3>1
    <3> QED BY <2>0, <3>2
  <2> QED BY <1>5, <2>4, <2>5, <2>6
<1>6. CASE ~Land(u)
  <2>1. UNCHANGED <<tried, refused>>
    BY <1>5, <1>6 DEF Goroutine
  <2>2. PICK label, failed, after :
          units' = [units EXCEPT ![u] =
                     [units[u] EXCEPT !.stage = label, !.failed = failed, !.after = after]]
    BY <1>5, <1>6 DEF Goroutine
  <2> DEFINE r == [units[u] EXCEPT !.stage = label, !.failed = failed, !.after = after]
  <2>3. /\ r.queue = units[u].queue /\ r.batch = units[u].batch /\ r.owed = units[u].owed
        /\ r.elsewhere = units[u].elsewhere /\ r.left = units[u].left
    BY <1>1 DEF UnitRecord
  <2>4. units' = [units EXCEPT ![u] = r]
    BY <2>2
  <2> HIDE DEF r
  <2>5. units'[u].left = units[u].left
    BY <1>3, <2>3, <2>4
  <2> QED BY <1>2, <1>3, <2>1, <2>3, <2>4, <2>5
<1> QED BY <1>4, <1>6

LEMMA GoroutineHoldsOnce ==
  ASSUME IInv, HeldOnce, NEW u \in DOMAIN units, Goroutine(u)
  PROVE  HeldOnce'
<1>1. /\ DOMAIN units' = DOMAIN units
      /\ \A w \in DOMAIN units : /\ units'[w].queue = units[w].queue /\ units'[w].batch = units[w].batch
                                 /\ w # u => units'[w] = units[w]
      /\ UNCHANGED <<issued, pending, pc, taken>>
  BY GoroutineData
<1>2. CASE UNCHANGED <<tried, refused>> /\ units'[u].left = units[u].left
  <2>1. \A w \in DOMAIN units : units'[w].left = units[w].left
    BY <1>1, <1>2
  <2>2. PendingOnce'
    BY <1>1, <1>2, <2>1 DEF HeldOnce, PendingOnce
  <2>3. TakenOnce'
    BY <1>1, <1>2, <2>1 DEF HeldOnce, TakenOnce
  <2>4. LeftOnce'
    BY <1>1, <1>2, <2>1 DEF HeldOnce, LeftOnce
  <2>5. TriedOnce'
    BY <1>1, <1>2 DEF HeldOnce, TriedOnce
  <2> QED BY <2>2, <2>3, <2>4, <2>5 DEF HeldOnce
<1>3. CASE HandsOver(u)
  <2> DEFINE l == units[u].left
             h == Head(l)
             t == Tail(l)
  <2>1. l \in Seq(Nat) /\ l # <<>> /\ tried \in Seq(Nat) /\ tried' = Append(tried, h)
    BY <1>3, PlacesAreTyped DEF HandsOver
  <2>2. /\ 1 \in DOMAIN l /\ h = l[1] /\ \A k \in DOMAIN t : k + 1 \in DOMAIN l /\ t[k] = l[k + 1]
        /\ \A k \in DOMAIN t : k \in Nat \ {0}
    BY <2>1
  <2>3. /\ DOMAIN tried' = DOMAIN tried \union {Len(tried) + 1} /\ Len(tried) + 1 \notin DOMAIN tried
        /\ tried'[Len(tried) + 1] = h /\ \A k \in DOMAIN tried : tried'[k] = tried[k]
    BY <2>1, <2>2
  <2>4. units'[u].left = t
    BY <1>3 DEF HandsOver
  <2> HIDE DEF l, h, t
  <2>5. \A s : Apart(s, l) => Apart(s, t) /\ (Apart(s, tried) => Apart(s, tried'))
    BY <2>2, <2>3 DEF Apart
  <2>6. \A s : Apart(l, s) => Apart(t, s) /\ Apart(s, l)
    BY <2>2 DEF Apart
  <2>7. \A q : OfQueue(issued, l, q) => OfQueue(issued, t, q)
    BY <2>2 DEF OfQueue
  <2>8. Once(l) /\ Apart(l, tried) /\ OfQueue(issued, l, units[u].queue)
    BY DEF HeldOnce, LeftOnce, l
  <2>9. Once(t) /\ \A k \in DOMAIN t : t[k] # h
    <3>1. \A k \in DOMAIN t : k + 1 # 1
      BY <2>2
    <3>2. \A j, k \in DOMAIN t : j + 1 = k + 1 => j = k
      BY <2>2
    <3> QED BY <2>2, <2>8, <3>1, <3>2 DEF Once
  <2>10. Apart(t, tried')
    BY <2>3, <2>6, <2>8, <2>9 DEF Apart
  <2>11. PendingOnce'
    <3> SUFFICES ASSUME NEW q \in Queues
                 PROVE  /\ Apart(pending[q], tried')
                        /\ \A w \in DOMAIN units : Apart(pending[q], units'[w].left)
      BY <1>1 DEF HeldOnce, PendingOnce
    <3>1. Apart(pending[q], tried) /\ \A w \in DOMAIN units : Apart(pending[q], units[w].left)
      BY DEF HeldOnce, PendingOnce
    <3> QED BY <1>1, <2>4, <2>5, <3>1 DEF l
  <2>12. TakenOnce'
    <3> SUFFICES ASSUME NEW c \in Callers
                 PROVE  /\ Apart(taken[c].batch, tried')
                        /\ \A w \in DOMAIN units : Apart(taken[c].batch, units'[w].left)
      BY <1>1 DEF HeldOnce, TakenOnce
    <3>1. Apart(taken[c].batch, tried) /\ \A w \in DOMAIN units : Apart(taken[c].batch, units[w].left)
      BY DEF HeldOnce, TakenOnce
    <3> QED BY <1>1, <2>4, <2>5, <3>1 DEF l
  <2>13. LeftOnce'
    <3> SUFFICES ASSUME NEW w \in DOMAIN units
                 PROVE  /\ Once(units'[w].left) /\ OfQueue(issued, units'[w].left, units[w].queue)
                        /\ Apart(units'[w].left, tried')
                        /\ \A v \in DOMAIN units : w # v => Apart(units'[w].left, units'[v].left)
      BY <1>1 DEF HeldOnce, LeftOnce
    <3>1. \A v \in DOMAIN units : v # u => Apart(l, units[v].left) /\ Apart(units[v].left, l)
      BY <2>6 DEF HeldOnce, LeftOnce, l
    <3>2. CASE w = u
      BY <1>1, <2>4, <2>6, <2>7, <2>8, <2>9, <2>10, <3>1, <3>2
    <3>3. CASE w # u
      BY <1>1, <2>4, <2>5, <3>1, <3>3 DEF HeldOnce, LeftOnce
    <3> QED BY <3>2, <3>3
  <2>14. TriedOnce'
    <3>1. Once(tried')
      BY <2>2, <2>3, <2>8 DEF HeldOnce, TriedOnce, Once, Apart
    <3>2. h \in DOMAIN issued
      BY <2>2, <2>8 DEF OfQueue
    <3> QED BY <1>1, <2>3, <3>1, <3>2 DEF HeldOnce, TriedOnce
  <2> QED BY <2>11, <2>12, <2>13, <2>14 DEF HeldOnce
<1> QED BY <1>2, <1>3, GoroutineData

LEMMA InitHoldsOnce == Init => HeldOnce
BY DEF Init, NothingTaken, HeldOnce, PendingOnce, TakenOnce, LeftOnce, TriedOnce, Once, Apart, OfQueue

LEMMA StutterHoldsOnce == HeldOnce /\ UNCHANGED vars => HeldOnce'
BY DEF vars, device, HeldOnce, PendingOnce, TakenOnce, LeftOnce, TriedOnce

-----------------------------------------------------------------------------
(* What has become of every write.  A unit that signalled with writes left or  *)
(* fences not waited for gave up, a write that failed shows on its unit, and a *)
(* write that no queue holds is in the hands of a caller or in the batch of a  *)
(* unit of its queue.                                                          *)
Ended ==
  \A u \in DOMAIN units :
    /\ units[u].failed => units[u].stage \in {"writes", "signalled", "closed"}
    /\ units[u].stage \in {"writes", "graph"} => units[u].after = <<>>
    /\ units[u].stage = "graph" => units[u].left = <<>>
    /\ Signalled(u) /\ units[u].left # <<>> => units[u].after # <<>>
    /\ Signalled(u) /\ units[u].after # <<>> => units[u].failed /\ GaveUp(u)

BatchesHandedOver ==
  \A u \in DOMAIN units :
    \A n \in Range(units[u].batch) : n \in Range(units[u].left) \/ n \in Range(tried)

RefusalsShow ==
  /\ refused \subseteq Range(tried)
  /\ \A u \in DOMAIN units : Range(units[u].batch) \intersect refused # {} => units[u].failed

\* The write n is in the batch of a unit of q that is not later than k.
Chained(us, q, n, k) == \E v \in DOMAIN us : v =< k /\ us[v].queue = q /\ n \in Range(us[v].batch)

WritesAccounted ==
  \A n \in DOMAIN issued : \/ n \in Range(pending[issued[n]])
                           \/ n \in InHands
                           \/ Chained(units, issued[n], n, Len(units))
OwedAreChained ==
  /\ \A u \in DOMAIN units : \A n \in units[u].owed \ units[u].elsewhere : Chained(units, units[u].queue, n, u)
  /\ \A c \in Callers : pc[c] = "taken" =>
       \A n \in taken[c].owed \ taken[c].elsewhere :
         n \in Range(taken[c].batch) \/ Chained(units, taken[c].queue, n, Len(units))

Handed == Ended /\ BatchesHandedOver /\ RefusalsShow

WInv == HeldOnce /\ Handed /\ WritesAccounted /\ OwedAreChained

\* A unit's fences are of the units there are.
LEMMA AfterIsMade ==
  ASSUME IInv, NEW u \in DOMAIN units, units[u].after # <<>>
  PROVE  Head(units[u].after) \in DOMAIN units
<1>1. units[u].after \in Seq(Nat) /\ WaitsFor(units[u].after, u - 1) /\ u \in 1 .. Len(units)
  <2>1. units[u] \in UnitRecord /\ units \in Seq(UnitRecord)
    BY DEF IInv, Typed
  <2>2. u \in 1 .. Len(units)
    BY <2>1
  <2>3. units[u].after \in Seq(Nat)
    BY <2>1 DEF UnitRecord, Writings
  <2> QED BY <2>2, <2>3 DEF IInv, Typed
<1>2. 1 \in DOMAIN units[u].after /\ Head(units[u].after) = units[u].after[1]
  BY <1>1
<1>3. Head(units[u].after) \in 1 .. u - 1
  BY <1>1, <1>2 DEF WaitsFor
<1> QED BY <1>1, <1>3, PlacesAreTyped

\* What is true of a unit that has signalled stays so.
LEMMA GoroutineStages ==
  ASSUME IInv, Ended, NEW u \in DOMAIN units, Goroutine(u)
  PROVE  /\ units'[u].failed => units'[u].stage \in {"writes", "signalled", "closed"}
         /\ units[u].failed => units'[u].failed
         /\ units'[u].stage \in {"writes", "graph"} => units'[u].after = <<>>
         /\ units'[u].stage = "graph" => units'[u].left = <<>>
         /\ Signalled(u) => /\ units'[u].stage \in {"signalled", "closed"}
                            /\ units'[u].failed = units[u].failed /\ units'[u].left = units[u].left
                            /\ units'[u].after = units[u].after
         /\ ~Signalled(u) /\ units'[u].stage \in {"signalled", "closed"} =>
              \/ units'[u].left = <<>> /\ units'[u].after = <<>>
              \/ /\ units'[u].failed /\ units'[u].after = units[u].after /\ units[u].after # <<>>
                 /\ Signalled(Head(units[u].after)) /\ units[Head(units[u].after)].failed
<1>1. units \in Seq(UnitRecord) /\ units[u] \in UnitRecord
  BY PlacesAreTyped
<1>2. units[u].failed \in BOOLEAN
  BY <1>1 DEF UnitRecord
<1>3. /\ units[u].failed => units[u].stage \in {"writes", "signalled", "closed"}
      /\ units[u].stage \in {"writes", "graph"} => units[u].after = <<>>
      /\ units[u].stage = "graph" => units[u].left = <<>>
  BY DEF Ended
<1>4. CASE Begin(u)
  <2>1. /\ units'[u].stage = (IF units[u].after = <<>> THEN "writes" ELSE "after")
        /\ units'[u].failed = units[u].failed /\ units'[u].after = units[u].after
        /\ units[u].stage = "queued"
    BY <1>1, <1>4 DEF Begin, UnitRecord
  <2> QED BY <1>3, <2>1 DEF Signalled
<1>5. CASE AwaitAfter(u)
  <2>1. units[u].stage = "after" /\ Signalled(Head(units[u].after)) /\ units[u].after # <<>>
    BY <1>5 DEF AwaitAfter, IInv, Typed
  <2>2. CASE units[Head(units[u].after)].failed
    <3>1. units'[u].stage = "signalled" /\ units'[u].failed /\ units'[u].after = units[u].after
      BY <1>1, <1>5, <2>2 DEF AwaitAfter, UnitRecord
    <3> QED BY <2>1, <2>2, <3>1 DEF Signalled
  <2>3. CASE ~units[Head(units[u].after)].failed
    <3>1. /\ units'[u].stage = (IF Tail(units[u].after) = <<>> THEN "writes" ELSE "after")
          /\ units'[u].failed = units[u].failed /\ units'[u].after = Tail(units[u].after)
      BY <1>1, <1>5, <2>3 DEF AwaitAfter, UnitRecord
    <3> QED BY <1>3, <2>1, <3>1 DEF Signalled
  <2> QED BY <2>2, <2>3
<1>6. CASE Land(u)
  <2>1. PICK fails \in BOOLEAN : units' = [units EXCEPT ![u].left = Tail(@), ![u].failed = @ \/ fails]
    BY <1>6, QueueAssumption DEF Land
  <2>2. units'[u].stage = "writes" /\ units[u].stage = "writes" /\ units'[u].after = units[u].after
        /\ units'[u].failed = (units[u].failed \/ fails)
    BY <1>1, <1>6, <2>1 DEF Land, UnitRecord
  <2> QED BY <1>3, <2>2 DEF Signalled
<1>7. CASE EndWrites(u)
  <2>1. /\ units'[u].stage = (IF units[u].graph /\ ~units[u].failed THEN "graph" ELSE "signalled")
        /\ units[u].stage = "writes" /\ units'[u].failed = units[u].failed
        /\ units[u].left = <<>> /\ units'[u].left = units[u].left /\ units'[u].after = units[u].after
    BY <1>1, <1>7 DEF EndWrites, UnitRecord
  <2> QED BY <1>3, <2>1 DEF Signalled
<1>8. CASE RunGraph(u)
  <2>1. /\ units'[u].stage = "signalled" /\ units[u].stage = "graph"
        /\ units'[u].left = units[u].left /\ units'[u].after = units[u].after
    BY <1>1, <1>8 DEF RunGraph, UnitRecord
  <2> QED BY <1>3, <2>1 DEF Signalled
<1>9. CASE CloseDone(u)
  <2>1. units'[u].stage = "closed" /\ units[u].stage = "signalled" /\ units'[u].after = units[u].after
        /\ units'[u].failed = units[u].failed /\ units'[u].left = units[u].left
    BY <1>1, <1>9 DEF CloseDone, UnitRecord
  <2> QED BY <2>1 DEF Signalled
<1> QED BY <1>4, <1>5, <1>6, <1>7, <1>8, <1>9 DEF Goroutine

LEMMA GoroutineEnds ==
  ASSUME IInv, Ended, NEW u \in DOMAIN units, Goroutine(u)
  PROVE  Ended'
<1>1. /\ DOMAIN units' = DOMAIN units
      /\ \A w \in DOMAIN units : w # u => units'[w] = units[w]
  BY GoroutineData
<1>2. \A w \in DOMAIN units :
        Signalled(w) => /\ Signalled(w)' /\ units'[w].failed = units[w].failed
                        /\ units'[w].left = units[w].left /\ units'[w].after = units[w].after
  BY <1>1, GoroutineStages DEF Signalled
<1>3. \A w \in DOMAIN units :
        Signalled(w)' /\ units'[w].after = units[w].after /\ units[w].after # <<>>
          /\ Signalled(Head(units[w].after)) /\ units[Head(units[w].after)].failed => GaveUp(w)'
  BY <1>2, AfterIsMade DEF GaveUp
<1>4. \A w \in DOMAIN units : GaveUp(w) => GaveUp(w)'
  BY <1>2, <1>3, AfterIsMade DEF GaveUp
<1> SUFFICES ASSUME NEW w \in DOMAIN units
             PROVE  /\ units'[w].failed => units'[w].stage \in {"writes", "signalled", "closed"}
                    /\ units'[w].stage \in {"writes", "graph"} => units'[w].after = <<>>
                    /\ units'[w].stage = "graph" => units'[w].left = <<>>
                    /\ Signalled(w)' /\ units'[w].left # <<>> => units'[w].after # <<>>
                    /\ Signalled(w)' /\ units'[w].after # <<>> => units'[w].failed /\ GaveUp(w)'
  BY <1>1 DEF Ended
<1>5. CASE w # u
  BY <1>1, <1>4, <1>5 DEF Ended, Signalled
<1>6. CASE w = u
  <2>1. CASE Signalled(u)
    BY <1>2, <1>4, <1>6, <2>1, GoroutineStages DEF Ended
  <2>2. CASE ~Signalled(u)
    BY <1>3, <1>6, <2>2, GoroutineStages DEF Signalled
  <2> QED BY <2>1, <2>2
<1> QED BY <1>5, <1>6

\* A batch moves from what is left to what was handed over, and keeps its failures.
LEMMA GoroutineHandsOver ==
  ASSUME IInv, HeldOnce, Ended, BatchesHandedOver, RefusalsShow, NEW u \in DOMAIN units, Goroutine(u)
  PROVE  BatchesHandedOver' /\ RefusalsShow'
<1>1. /\ DOMAIN units' = DOMAIN units
      /\ \A w \in DOMAIN units : /\ units'[w].batch = units[w].batch
                                 /\ w # u => units'[w] = units[w]
  BY GoroutineData
<1>2. \A w \in DOMAIN units : units[w].failed => units'[w].failed
  BY <1>1, GoroutineStages
<1>3. CASE UNCHANGED <<tried, refused>> /\ units'[u].left = units[u].left
  BY <1>1, <1>2, <1>3 DEF BatchesHandedOver, RefusalsShow
<1>4. CASE HandsOver(u)
  <2> DEFINE l == units[u].left
             h == Head(l)
  <2>1. /\ l \in Seq(Nat) /\ l # <<>> /\ tried \in Seq(Nat) /\ tried' = Append(tried, h)
        /\ units'[u].left = Tail(l)
    BY <1>4, PlacesAreTyped DEF HandsOver
  <2>2. /\ \A k \in DOMAIN tried : k \in DOMAIN tried' /\ tried'[k] = tried[k]
        /\ Len(tried) + 1 \in DOMAIN tried' /\ tried'[Len(tried) + 1] = h
    BY <2>1
  <2>3. \A k \in DOMAIN l : l[k] = h \/ \E j \in DOMAIN Tail(l) : Tail(l)[j] = l[k]
    <3> SUFFICES ASSUME NEW k \in DOMAIN l, l[k] # h
                 PROVE  \E j \in DOMAIN Tail(l) : Tail(l)[j] = l[k]
      OBVIOUS
    <3>1. k \in Nat /\ k # 1 /\ 1 =< k /\ k =< Len(l)
      BY <2>1
    <3>2. k - 1 \in DOMAIN Tail(l) /\ Tail(l)[k - 1] = l[k]
      BY <2>1, <3>1
    <3> QED BY <3>2
  <2>4. 1 \in DOMAIN l /\ l[1] = h
    BY <2>1
  <2>5. PICK fails \in BOOLEAN :
          /\ refused' = IF fails THEN refused \union {h} ELSE refused
          /\ units'[u].failed = (units[u].failed \/ fails)
    BY <1>4 DEF HandsOver
  <2> HIDE DEF l, h
  <2>6. Range(tried) \subseteq Range(tried') /\ h \in Range(tried')
    BY <2>2 DEF Range
  <2>7. \A n \in Range(l) : n = h \/ n \in Range(Tail(l))
    BY <2>3 DEF Range
  <2>8. BatchesHandedOver'
    <3> SUFFICES ASSUME NEW w \in DOMAIN units, NEW n \in Range(units[w].batch)
                 PROVE  n \in Range(units'[w].left) \/ n \in Range(tried')
      BY <1>1 DEF BatchesHandedOver
    <3>1. n \in Range(units[w].left) \/ n \in Range(tried)
      BY DEF BatchesHandedOver
    <3>2. CASE w = u
      BY <2>1, <2>6, <2>7, <3>1, <3>2 DEF l
    <3>3. CASE w # u
      BY <1>1, <2>6, <3>1, <3>3
    <3> QED BY <3>2, <3>3
  <2>9. \A w \in DOMAIN units : w # u => h \notin Range(units[w].batch)
    <3> SUFFICES ASSUME NEW w \in DOMAIN units, w # u PROVE h \notin Range(units[w].batch)
      OBVIOUS
    <3>1. Apart(l, tried) /\ Apart(l, units[w].left)
      BY DEF HeldOnce, LeftOnce, l
    <3>2. h \notin Range(tried) /\ h \notin Range(units[w].left)
      BY <2>4, <3>1 DEF Apart, Range
    <3> QED BY <3>2 DEF BatchesHandedOver
  <2>10. refused' \subseteq Range(tried')
    BY <2>5, <2>6 DEF RefusalsShow
  <2>11. ASSUME NEW w \in DOMAIN units, NEW n \in Range(units[w].batch), n \in refused'
         PROVE  units'[w].failed
    <3>1. CASE n \in refused
      BY <1>2, <3>1 DEF RefusalsShow
    <3>2. CASE n \notin refused
      <4>1. fails /\ n = h
        BY <2>5, <2>11, <3>2
      <4>2. w = u
        BY <2>9, <4>1
      <4> QED BY <2>5, <4>1, <4>2
    <3> QED BY <3>1, <3>2
  <2>12. RefusalsShow'
    BY <1>1, <2>10, <2>11 DEF RefusalsShow
  <2> QED BY <2>8, <2>12
<1> QED BY <1>3, <1>4, GoroutineData

\* A unit that is added has ended only with an empty batch, of which nothing failed.
LEMMA AddedUnitEnds ==
  ASSUME IInv, Handed, NEW t \in TakingRecord, NEW behind, NEW label,
         units' = Append(units, Unit(t, behind, label)), UNCHANGED <<tried, refused>>, Apart(t.batch, tried),
         label = "queued" \/ (label = "closed" /\ t.batch = <<>> /\ t.after = <<>>)
  PROVE  Handed'
<1> DEFINE n == Len(units) + 1
<1>1. /\ n \notin DOMAIN units /\ DOMAIN units' = DOMAIN units \union {n}
      /\ units'[n] = Unit(t, behind, label)
      /\ units'[n].left = t.batch /\ units'[n].batch = t.batch /\ units'[n].stage = label
      /\ units'[n].after = t.after
      /\ \A w \in DOMAIN units : units'[w] = units[w]
  BY AddedUnit
<1>2. units'[n].failed = FALSE
  BY <1>1 DEF Unit
<1> HIDE DEF n
<1>3. \A w \in DOMAIN units : GaveUp(w) => GaveUp(w)'
  BY <1>1, AfterIsMade DEF GaveUp, Signalled
<1>4. Ended'
  <2> SUFFICES ASSUME NEW w \in DOMAIN units'
               PROVE  /\ units'[w].failed => units'[w].stage \in {"writes", "signalled", "closed"}
                      /\ units'[w].stage \in {"writes", "graph"} => units'[w].after = <<>>
                      /\ units'[w].stage = "graph" => units'[w].left = <<>>
                      /\ Signalled(w)' /\ units'[w].left # <<>> => units'[w].after # <<>>
                      /\ Signalled(w)' /\ units'[w].after # <<>> => units'[w].failed /\ GaveUp(w)'
    BY DEF Ended
  <2>1. CASE w = n
    BY <1>1, <1>2, <2>1 DEF Signalled
  <2>2. CASE w # n
    BY <1>1, <1>3, <2>2 DEF Handed, Ended, Signalled
  <2> QED BY <2>1, <2>2
<1>5. BatchesHandedOver'
  BY <1>1 DEF Handed, BatchesHandedOver
<1>6. Range(t.batch) \intersect refused = {}
  <2>1. \A m \in Range(t.batch) : m \notin Range(tried)
    BY DEF Apart, Range
  <2> QED BY <2>1 DEF Handed, RefusalsShow
<1>7. RefusalsShow'
  BY <1>1, <1>6 DEF Handed, RefusalsShow
<1> QED BY <1>4, <1>5, <1>7 DEF Handed

LEMMA InHandsMeans ==
  /\ \A n : n \in InHands <=> \E c \in Callers : n \in Range(taken[c].batch)
  /\ \A n : n \in InHands' <=> \E c \in Callers : n \in Range(taken'[c].batch)
BY DEF InHands

\* What is chained stays so, and later.
LEMMA ChainedStays ==
  ASSUME DOMAIN units \subseteq DOMAIN units', Len(units) \in Nat, Len(units') \in Nat, Len(units) =< Len(units'),
         DOMAIN units \subseteq Nat,
         \A w \in DOMAIN units : units'[w].queue = units[w].queue /\ units'[w].batch = units[w].batch
  PROVE  \A q, n : /\ \A k \in Nat : Chained(units, q, n, k) => Chained(units', q, n, k)
                   /\ Chained(units, q, n, Len(units)) => Chained(units', q, n, Len(units))
<1> SUFFICES ASSUME NEW q, NEW n, NEW k \in Nat, Chained(units, q, n, k) PROVE Chained(units', q, n, k)
  BY DEF Chained
<1> QED BY DEF Chained

\* Nothing but what the callers hold and the queues have staged is changed.
LEMMA AccountStays ==
  ASSUME WritesAccounted, OwedAreChained, UNCHANGED <<issued, pending, pc, taken>>,
         DOMAIN units' = DOMAIN units, Len(units') = Len(units),
         \A w \in DOMAIN units :
           /\ units'[w].queue = units[w].queue /\ units'[w].batch = units[w].batch
           /\ units'[w].owed = units[w].owed /\ units'[w].elsewhere = units[w].elsewhere
  PROVE  WritesAccounted' /\ OwedAreChained'
<1>1. \A q, n, k : Chained(units, q, n, k) => Chained(units', q, n, k)
  BY DEF Chained
<1>2. WritesAccounted'
  BY <1>1, InHandsMeans DEF WritesAccounted, Chained
<1>3. OwedAreChained'
  BY <1>1 DEF OwedAreChained, Chained
<1> QED BY <1>2, <1>3

LEMMA WriteBufferAccounts ==
  ASSUME IInv, WritesAccounted, OwedAreChained, NEW c \in Callers, NEW q \in Queues, WriteBuffer(c, q)
  PROVE  WritesAccounted' /\ OwedAreChained'
<1> DEFINE n == Len(issued) + 1
<1>1. /\ issued' = Append(issued, q) /\ pending' = [pending EXCEPT ![q] = Append(@, n)]
      /\ UNCHANGED <<units, tried, refused, pc, taken>>
  BY PlacesAreTyped DEF WriteBuffer, device
<1>2. /\ DOMAIN issued' = DOMAIN issued \union {n} /\ issued'[n] = q
      /\ \A k \in DOMAIN issued : issued'[k] = issued[k] /\ issued[k] \in Queues
  BY <1>1, PlacesAreTyped
<1>3. /\ DOMAIN pending'[q] = DOMAIN pending[q] \union {Len(pending[q]) + 1}
      /\ pending'[q][Len(pending[q]) + 1] = n
      /\ \A k \in DOMAIN pending[q] : pending'[q][k] = pending[q][k]
      /\ \A r \in Queues : r # q => pending'[r] = pending[r]
  BY <1>1, PlacesAreTyped
<1> HIDE DEF n
<1>4. n \in Range(pending'[q]) /\ \A r \in Queues : Range(pending[r]) \subseteq Range(pending'[r])
  BY <1>3 DEF Range
<1>5. WritesAccounted'
  <2> SUFFICES ASSUME NEW m \in DOMAIN issued'
               PROVE  \/ m \in Range(pending'[issued'[m]]) \/ m \in InHands'
                      \/ Chained(units', issued'[m], m, Len(units'))
    BY DEF WritesAccounted, Chained
  <2>1. CASE m = n
    BY <1>2, <1>4, <2>1
  <2>2. CASE m # n
    <3>1. /\ m \in DOMAIN issued /\ issued'[m] = issued[m] /\ issued[m] \in Queues
          /\ (Chained(units, issued[m], m, Len(units)) => Chained(units', issued'[m], m, Len(units')))
      BY <1>1, <1>2, <2>2 DEF Chained
    <3> QED BY <1>1, <1>4, <3>1, InHandsMeans DEF WritesAccounted
  <2> QED BY <2>1, <2>2
<1>6. OwedAreChained'
  BY <1>1 DEF OwedAreChained, Chained
<1> QED BY <1>5, <1>6

LEMMA TakeAccounts ==
  ASSUME IInv, HeldOnce, WritesAccounted, OwedAreChained,
         NEW c \in Callers, NEW q \in Queues, NEW g, NEW f, Take(c, q, g, f)
  PROVE  WritesAccounted' /\ OwedAreChained'
<1>1. /\ pc[c] = "idle" /\ pending' = [pending EXCEPT ![q] = <<>>]
      /\ taken' = [taken EXCEPT ![c] = Taking(q, g, f)]
      /\ pc' = [pc EXCEPT ![c] = "taken"] /\ UNCHANGED <<issued, units, tried, refused>>
  BY DEF Take, device
<1>2. /\ \A r \in Queues : r # q => pending'[r] = pending[r]
      /\ taken'[c].batch = pending[q] /\ taken'[c].queue = q
      /\ taken'[c].owed = IssuedTo(q) /\ taken'[c].elsewhere = IssuedTo(q) \intersect InHands
      /\ \A d \in Callers : d # c => taken'[d] = taken[d] /\ pc'[d] = pc[d]
      /\ \A k \in DOMAIN issued : issued[k] \in Queues
  BY <1>1, PlacesAreTyped DEF Taking
<1>3. taken[c].batch = <<>>
  BY <1>1 DEF HeldOnce, TakenOnce
<1>4. \A n : n \in InHands => n \in InHands'
  <2>1. \A n : n \notin Range(<<>>)
    BY DEF Range
  <2> QED BY <1>2, <1>3, <2>1, InHandsMeans
<1>5. \A n : n \in Range(pending[q]) => n \in InHands'
  BY <1>2, InHandsMeans
<1>6. \A r, n : Chained(units, r, n, Len(units)) => Chained(units', r, n, Len(units))
  BY <1>1 DEF Chained
<1>7. WritesAccounted'
  <2> SUFFICES ASSUME NEW m \in DOMAIN issued
               PROVE  m \in Range(pending'[issued[m]]) \/ m \in InHands' \/ Chained(units', issued[m], m, Len(units))
    BY <1>1 DEF WritesAccounted, Chained
  <2> QED BY <1>2, <1>4, <1>5, <1>6 DEF WritesAccounted
<1>8. \A n \in IssuedTo(q) \ InHands : n \in Range(pending[q]) \/ Chained(units, q, n, Len(units))
  BY DEF WritesAccounted, IssuedTo
<1>9. \A d \in Callers : pc'[d] = "taken" =>
        \A n \in taken'[d].owed \ taken'[d].elsewhere :
          n \in Range(taken'[d].batch) \/ Chained(units, taken'[d].queue, n, Len(units))
  <2> SUFFICES ASSUME NEW d \in Callers, pc'[d] = "taken", NEW n \in taken'[d].owed \ taken'[d].elsewhere
               PROVE  n \in Range(taken'[d].batch) \/ Chained(units, taken'[d].queue, n, Len(units))
    OBVIOUS
  <2>1. CASE d = c
    BY <1>2, <1>8, <2>1
  <2>2. CASE d # c
    BY <1>2, <2>2 DEF OwedAreChained
  <2> QED BY <2>1, <2>2
<1>10. OwedAreChained'
  BY <1>1, <1>9 DEF OwedAreChained, Chained
<1> QED BY <1>7, <1>10

\* A unit that is added owes what it brings along or what is chained before it.
LEMMA AddedUnitAccounts ==
  ASSUME IInv, WritesAccounted, OwedAreChained, NEW t \in TakingRecord, NEW behind, NEW label,
         units' = Append(units, Unit(t, behind, label)), UNCHANGED <<issued, pending>>,
         \A n \in t.owed \ t.elsewhere : n \in Range(t.batch) \/ Chained(units, t.queue, n, Len(units)),
         \A n \in Range(t.batch) : issued[n] = t.queue,
         \A n \in InHands : n \in InHands' \/ n \in Range(t.batch),
         \A d \in Callers : pc'[d] = "taken" => pc[d] = "taken" /\ taken'[d] = taken[d]
  PROVE  WritesAccounted' /\ OwedAreChained'
<1> DEFINE n == Len(units) + 1
<1>1. /\ n \in Nat /\ n \notin DOMAIN units /\ DOMAIN units' = DOMAIN units \union {n}
      /\ units'[n].batch = t.batch /\ units'[n].queue = t.queue
      /\ units'[n].owed = t.owed /\ units'[n].elsewhere = t.elsewhere
      /\ \A w \in DOMAIN units : units'[w] = units[w] /\ w \in Nat /\ w < n
  BY AddedUnit
<1>2. Len(units') = n /\ Len(units) \in Nat /\ Len(units) =< n
  BY PlacesAreTyped, <1>1
<1> HIDE DEF n
<1>3. \A q, m : /\ \A k \in Nat : Chained(units, q, m, k) => Chained(units', q, m, k)
                /\ Chained(units, q, m, Len(units)) => Chained(units', q, m, n)
  BY <1>1, <1>2 DEF Chained
<1>4. \A m \in Range(t.batch) : Chained(units', t.queue, m, n)
  BY <1>1 DEF Chained
<1>5. WritesAccounted'
  <2> SUFFICES ASSUME NEW m \in DOMAIN issued
               PROVE  m \in Range(pending[issued[m]]) \/ m \in InHands' \/ Chained(units', issued[m], m, n)
    BY <1>2 DEF WritesAccounted, Chained
  <2> QED BY <1>3, <1>4 DEF WritesAccounted
<1>6. \A w \in DOMAIN units' : \A m \in units'[w].owed \ units'[w].elsewhere : Chained(units', units'[w].queue, m, w)
  <2> SUFFICES ASSUME NEW w \in DOMAIN units', NEW m \in units'[w].owed \ units'[w].elsewhere
               PROVE  Chained(units', units'[w].queue, m, w)
    BY DEF Chained
  <2>1. CASE w = n
    BY <1>1, <1>3, <1>4, <2>1
  <2>2. CASE w # n
    BY <1>1, <1>3, <2>2 DEF OwedAreChained
  <2> QED BY <2>1, <2>2
<1>7. \A d \in Callers : pc'[d] = "taken" =>
        \A m \in taken'[d].owed \ taken'[d].elsewhere :
          m \in Range(taken'[d].batch) \/ Chained(units', taken'[d].queue, m, n)
  BY <1>3 DEF OwedAreChained
<1>8. OwedAreChained'
  BY <1>2, <1>6, <1>7 DEF OwedAreChained, Chained
<1> QED BY <1>5, <1>8

-----------------------------------------------------------------------------
LEMMA HandedStays ==
  ASSUME Handed, UNCHANGED <<units, tried, refused>>
  PROVE  Handed'
BY DEF Handed, Ended, BatchesHandedOver, RefusalsShow, Signalled, GaveUp

LEMMA TakeKeepsWInv ==
  ASSUME IInv, WInv, NEW c \in Callers, NEW q \in Queues, NEW g, NEW f, Take(c, q, g, f)
  PROVE  WInv'
<1>1. UNCHANGED <<units, tried, refused>>
  BY DEF Take, device
<1> QED BY <1>1, TakeHoldsOnce, HandedStays, TakeAccounts DEF WInv

LEMMA FlushNothingKeepsWInv ==
  ASSUME IInv, WInv, NEW c \in Callers, NEW q \in Queues, FlushNothing(c, q)
  PROVE  WInv'
<1> DEFINE t == Taking(q, FALSE, <<>>)
<1>1. /\ pending[q] = <<>> /\ units' = Append(units, Unit(t, None, "closed"))
      /\ UNCHANGED <<issued, pending, prev, tried, refused, pc, taken>>
  BY DEF FlushNothing, NothingToWaitFor, device
<1>2. /\ t \in TakingRecord /\ t.batch = <<>> /\ t.queue = q /\ t.owed = IssuedTo(q)
      /\ t.elsewhere = IssuedTo(q) \intersect InHands
  BY <1>1, QueueData DEF Taking, TakingRecord, Writings
<1> HIDE DEF t
<1>3. \A n : n \notin Range(<<>>)
  BY DEF Range
<1>4. Handed'
  <2>1. t.after = <<>> /\ Apart(t.batch, tried)
    BY <1>2 DEF t, Taking, Apart
  <2> QED BY <1>1, <1>2, <2>1, AddedUnitEnds DEF WInv
<1>5. \A n \in t.owed \ t.elsewhere : n \in Range(t.batch) \/ Chained(units, t.queue, n, Len(units))
  BY <1>1, <1>2, <1>3 DEF WInv, WritesAccounted, IssuedTo
<1>6. WritesAccounted /\ OwedAreChained
  BY DEF WInv
<1>7. \A n \in InHands : n \in InHands'
  BY <1>1, InHandsMeans
<1>8. WritesAccounted' /\ OwedAreChained'
  BY <1>1, <1>2, <1>3, <1>5, <1>6, <1>7, AddedUnitAccounts
<1> QED BY <1>4, <1>8, FlushNothingHoldsOnce DEF WInv

LEMMA EnqueueKeepsWInv ==
  ASSUME IInv, WInv, NEW c \in Callers, Enqueue(c)
  PROVE  WInv'
<1> DEFINE t == taken[c]
<1>1. /\ pc[c] = "taken" /\ units' = Append(units, Unit(t, prev[t.queue], "queued"))
      /\ pc' = [pc EXCEPT ![c] = "idle"] /\ taken' = [taken EXCEPT ![c] = NothingTaken]
      /\ UNCHANGED <<issued, pending, tried, refused>>
  BY DEF Enqueue, device
<1>2. t \in TakingRecord /\ taken \in [Callers -> TakingRecord] /\ pc \in [Callers -> {"idle", "taken"}]
  BY PlacesAreTyped
<1>3. \A n \in t.owed \ t.elsewhere : n \in Range(t.batch) \/ Chained(units, t.queue, n, Len(units))
  BY <1>1 DEF WInv, OwedAreChained
<1>4. \A n \in Range(t.batch) : issued[n] = t.queue
  BY DEF WInv, HeldOnce, TakenOnce, OfQueue, Range
<1>5. \A d \in Callers : d # c => pc'[d] = pc[d] /\ taken'[d] = taken[d]
  BY <1>1, <1>2
<1>6. pc'[c] = "idle"
  BY <1>1, <1>2
<1> HIDE DEF t
<1>7. \A n \in InHands : n \in InHands' \/ n \in Range(t.batch)
  BY <1>5, InHandsMeans DEF t
<1>8. \A d \in Callers : pc'[d] = "taken" => pc[d] = "taken" /\ taken'[d] = taken[d]
  BY <1>5, <1>6
<1>9. Handed'
  <2>1. Apart(t.batch, tried)
    BY DEF WInv, HeldOnce, TakenOnce, t
  <2> QED BY <1>1, <1>2, <2>1, AddedUnitEnds DEF WInv
<1>10. WritesAccounted /\ OwedAreChained
  BY DEF WInv
<1>11. WritesAccounted' /\ OwedAreChained'
  BY <1>1, <1>2, <1>3, <1>4, <1>7, <1>8, <1>10, AddedUnitAccounts
<1> QED BY <1>9, <1>11, EnqueueHoldsOnce DEF WInv

LEMMA CallsKeepWInv ==
  ASSUME IInv, WInv, NEW c \in Callers, Call(c)
  PROVE  WInv'
<1>1. ASSUME NEW q \in Queues, WriteBuffer(c, q) PROVE WInv'
  <2>1. UNCHANGED <<units, tried, refused>>
    BY <1>1 DEF WriteBuffer, device
  <2> QED BY <1>1, <2>1, WriteBufferHoldsOnce, HandedStays, WriteBufferAccounts DEF WInv
<1>2. ASSUME NEW q \in Queues, Submit(c, q) PROVE WInv'
  BY <1>2, TakeKeepsWInv DEF Submit
<1>3. ASSUME NEW q \in Queues, SubmitAfter(c, q) PROVE WInv'
  BY <1>3, TakeKeepsWInv DEF SubmitAfter
<1>4. ASSUME NEW q \in Queues, Flush(c, q) PROVE WInv'
  BY <1>4, TakeKeepsWInv, FlushNothingKeepsWInv DEF Flush
<1>5. ASSUME Enqueue(c) PROVE WInv'
  BY <1>5, EnqueueKeepsWInv
<1> QED BY <1>1, <1>2, <1>3, <1>4, <1>5 DEF Call

LEMMA InitHasWInv == Init => WInv
<1> SUFFICES ASSUME Init PROVE WInv
  OBVIOUS
<1>1. Handed /\ WritesAccounted
  BY DEF Init, Handed, Ended, BatchesHandedOver, RefusalsShow, WritesAccounted
<1>2. OwedAreChained
  BY DEF Init, OwedAreChained
<1> QED BY <1>1, <1>2, InitHoldsOnce DEF WInv

LEMMA StepsKeepWInv == IInv /\ WInv /\ [Next]_vars => WInv'
<1> SUFFICES ASSUME IInv, WInv, [Next]_vars PROVE WInv'
  OBVIOUS
<1>1. ASSUME NEW c \in Callers, Call(c) PROVE WInv'
  BY <1>1, CallsKeepWInv
<1>2. ASSUME NEW u \in DOMAIN units, Goroutine(u) PROVE WInv'
  <2>1. /\ DOMAIN units' = DOMAIN units /\ Len(units') = Len(units)
        /\ \A w \in DOMAIN units :
             /\ units'[w].queue = units[w].queue /\ units'[w].batch = units[w].batch
             /\ units'[w].owed = units[w].owed /\ units'[w].elsewhere = units[w].elsewhere
        /\ UNCHANGED <<issued, pending, pc, taken>>
    BY <1>2, GoroutineData
  <2>2. WritesAccounted' /\ OwedAreChained'
    BY <2>1, AccountStays DEF WInv
  <2>3. Handed'
    BY <1>2, GoroutineEnds, GoroutineHandsOver DEF WInv, Handed
  <2> QED BY <1>2, <2>2, <2>3, GoroutineHoldsOnce DEF WInv
<1>3. CASE UNCHANGED vars
  <2>1. UNCHANGED <<issued, pending, units, tried, refused, pc, taken>>
    BY <1>3 DEF vars, device
  <2>2. WritesAccounted' /\ OwedAreChained'
    BY <2>1, AccountStays DEF WInv
  <2> QED BY <1>3, <2>1, <2>2, StutterHoldsOnce, HandedStays DEF WInv
<1> QED BY <1>1, <1>2, <1>3 DEF Next

\* A unit that signalled and gave nothing up handed over what it took, and its
\* fence says what failed.
LEMMA SignalledHasAnswered ==
  ASSUME WInv, NEW u \in DOMAIN units, Signalled(u), ~GaveUp(u), NEW n \in Range(units[u].batch)
  PROVE  HasLanded(n) \/ (n \in refused /\ units[u].failed)
<1>1. units[u].left = <<>>
  BY DEF WInv, Handed, Ended
<1>2. n \notin Range(<<>>)
  BY DEF Range
<1>3. n \in Range(tried)
  BY <1>1, <1>2 DEF WInv, Handed, BatchesHandedOver
<1>4. n \in refused => units[u].failed
  BY DEF WInv, Handed, RefusalsShow
<1> QED BY <1>3, <1>4 DEF HasLanded

LEMMA InvImpliesAnswered == WInv => BatchesLandOrFail
<1> SUFFICES ASSUME WInv PROVE BatchesLandOrFail
  OBVIOUS
<1>1. \A i, j \in DOMAIN tried : tried[i] = tried[j] => i = j
  BY DEF WInv, HeldOnce, TriedOnce, Once
<1>2. ASSUME NEW u \in DOMAIN units, units[u].stage = "graph", NEW n \in Range(units[u].batch)
      PROVE  HasLanded(n)
  <2>1. units[u].left = <<>> /\ ~units[u].failed
    BY <1>2 DEF WInv, Handed, Ended
  <2>2. n \in Range(tried)
    <3>1. n \notin Range(<<>>)
      BY DEF Range
    <3> QED BY <2>1, <3>1 DEF WInv, Handed, BatchesHandedOver
  <2>3. n \notin refused
    BY <2>1 DEF WInv, Handed, RefusalsShow
  <2> QED BY <2>2, <2>3 DEF HasLanded
<1> QED BY <1>1, <1>2, SignalledHasAnswered DEF BatchesLandOrFail

\* What is chained before a unit that signalled was run before it.
LEMMA InvImpliesFencesProve == IInv /\ WInv => FencesProveChainedWrites
<1> SUFFICES ASSUME IInv, WInv, NEW u \in DOMAIN units, Signalled(u), ~GaveUp(u),
                    NEW n \in units[u].owed \ units[u].elsewhere
             PROVE  \/ HasLanded(n)
                    \/ \E v \in DOMAIN units :
                         /\ n \in Range(units[v].batch) /\ Signalled(v) /\ units[v].failed
                         /\ n \in refused \/ GaveUp(v)
  BY DEF FencesProveChainedWrites
<1>1. PICK v \in DOMAIN units : v =< u /\ units[v].queue = units[u].queue /\ n \in Range(units[v].batch)
  BY DEF WInv, OwedAreChained, Chained
<1>2. Signalled(v)
  <2>1. CASE v = u
    BY <2>1
  <2>2. CASE v # u
    <3>1. v < u
      BY <1>1, <2>2, PlacesAreTyped
    <3>2. ~Open(v)
      BY <1>1, <3>1 DEF IInv, LaterUnitsWait, Signalled
    <3> QED BY <3>2 DEF Open, Signalled
  <2> QED BY <2>1, <2>2
<1>3. CASE GaveUp(v)
  <2>1. units[v].failed
    BY <1>3 DEF GaveUp, WInv, Handed, Ended
  <2> QED BY <1>1, <1>2, <1>3, <2>1
<1>4. CASE ~GaveUp(v)
  BY <1>1, <1>2, <1>4, SignalledHasAnswered
<1> QED BY <1>3, <1>4

\* For any number of callers, queues, writes and units: no staged write is handed
\* to the device twice; a unit that signals and gave up on no fence has every write
\* of its batch on the device or its failure on the fence; and a graph runs only
\* with its whole batch on the device (runWrites, and Submit in graph.go).
THEOREM BatchesAreAnsweredFor == Spec => []BatchesLandOrFail
BY InitHasInv, StepsKeepInv, InitHasWInv, StepsKeepWInv, InvImpliesAnswered, PTL DEF Spec

\* A fence that signals, of a unit that gave up on none, proves that the writes of
\* its queue chained when the call looked landed too, other than those that failed
\* or whose units gave up, which the fences of those units say, however other
\* callers' calls were interleaved between taking a batch and chaining it (Flush
\* and Submit in graph.go).
THEOREM FencesAreProofs == Spec => []FencesProveChainedWrites
BY InitHasInv, StepsKeepInv, InitHasWInv, StepsKeepWInv, InvImpliesFencesProve, PTL DEF Spec

-----------------------------------------------------------------------------
(***************************************************************************)
(* What the goroutine of a unit runs.  The flag of a graph, the claim of a *)
(* pool and the count of its graphs are set in one critical section and    *)
(* given back in another, and neither section sees the other's owner: the  *)
(* invariant ties each of them to the one stream that is between the two.  *)
(***************************************************************************)
RunRecord == [at : G!Inside \union {"idle", "enter"}, graph : Graphs \union {NoGraph}, block : Nat,
              uses : Resources \union {NoGraph}, failed : BOOLEAN]
PoolRecord == [bytes : Nat, block : Nat, graphs : Nat, inFlight : BOOLEAN, closed : BOOLEAN]

RunsTyped == G!TypeOK /\ run \in [Streams -> RunRecord] /\ queue \in [Streams -> Seq(Graphs)]

IsInside(s) == run[s].at \in G!Inside

\* A flag is up for the one stream that is inside its graph, which is built.
FlagsHaveOwners ==
  /\ \A s, t \in Streams : IsInside(s) /\ IsInside(t) /\ run[s].graph = run[t].graph => s = t
  /\ \A s \in Streams : run[s].at # "idle" => run[s].graph \in Graphs
  /\ \A s \in Streams : IsInside(s) => inFlight[run[s].graph] /\ stage[run[s].graph] = "built"
  /\ \A g \in Graphs : inFlight[g] => \E s \in Streams : IsInside(s) /\ run[s].graph = g

\* And the claim for the one stream that is to give it back.
ClaimHasOwner ==
  /\ \A s, t \in G!Claimed : s = t
  /\ pool.inFlight <=> G!Claimed # {}
  /\ \A s \in Streams : run[s].at \in {"claim", "end"} => G!Shares(run[s].graph)

\* The graphs that hold the pool are finitely many, counted, and fit in it.
Holders == {g \in Graphs : G!Shares(g) /\ stage[g] \in {"reserved", "built"} \union G!Leaving}
PoolFitsHolders ==
  /\ IsFiniteSet(Holders) /\ pool.graphs = Cardinality(Holders)
  /\ \A g \in Holders : ~pool.closed /\ Need[g] =< pool.bytes
  /\ \A s \in Streams : run[s].at = "running" /\ G!Shares(run[s].graph) => run[s].block = pool.block

GInv == RunsTyped /\ FlagsHaveOwners /\ ClaimHasOwner /\ PoolFitsHolders

LEMMA GInitHasInv == G!SubmissionAssumption /\ G!Init => GInv
<1> USE DEF PoolRecord
<1> SUFFICES ASSUME G!SubmissionAssumption, G!Init PROVE GInv
  OBVIOUS
<1>1. G!Idle \in RunRecord /\ G!Idle.at = "idle"
  BY DEF G!Idle, RunRecord
<1>2. \A s \in Streams : run[s].at = "idle" /\ run[s] \in RunRecord
  BY <1>1 DEF G!Init
<1>3. RunsTyped
  <2>1. G!TypeOK
    <3>1. \A s \in Streams : /\ run[s].at \in G!Inside \union {"idle", "enter"}
                             /\ run[s].graph \in Graphs \union {NoGraph}
      BY <1>2 DEF RunRecord
    <3>2. /\ stage \in [Graphs -> G!Stages] /\ inFlight \in [Graphs -> BOOLEAN]
          /\ pool \in PoolRecord
      BY DEF G!Init, G!Stages
    <3>3. /\ bound \in [Graphs -> Resources \union {NoGraph}]
          /\ binding \in [Graphs -> Resources \union {NoGraph}]
          /\ open \subseteq Resources
      BY DEF G!Init
    <3>4. lost \in BOOLEAN
      BY DEF G!Init
    <3>5. submissions \in 0 .. MaxSubmissions
      BY DEF G!Init, G!SubmissionAssumption
    <3> QED BY <3>1, <3>2, <3>3, <3>4, <3>5 DEF G!TypeOK
  <2> QED BY <1>1, <2>1 DEF G!Init, RunsTyped
<1>4. FlagsHaveOwners
  BY <1>2 DEF G!Init, FlagsHaveOwners, IsInside, G!Inside
<1>5. ClaimHasOwner
  BY <1>2 DEF G!Init, ClaimHasOwner, G!Claimed
<1>6. PoolFitsHolders
  <2>1. Holders = {}
    BY DEF G!Init, Holders, G!Leaving
  <2> QED BY <1>2, <2>1, FS_EmptySet DEF G!Init, PoolFitsHolders
<1> QED BY <1>3, <1>4, <1>5, <1>6 DEF GInv

-----------------------------------------------------------------------------
(* The calls that leave the streams alone.                                    *)
LEMMA StreamsUntouched ==
  ASSUME FlagsHaveOwners, ClaimHasOwner, UNCHANGED <<run, inFlight>>, pool'.inFlight = pool.inFlight,
         \A g \in Graphs : inFlight[g] => stage'[g] = stage[g]
  PROVE  FlagsHaveOwners' /\ ClaimHasOwner'
<1>1. \A s \in Streams : IsInside(s)' <=> IsInside(s)
  BY DEF IsInside
<1>2. \A s \in Streams : IsInside(s) => run[s].graph \in Graphs
  BY DEF FlagsHaveOwners, IsInside, G!Inside
<1>3. FlagsHaveOwners'
  BY <1>1, <1>2 DEF FlagsHaveOwners
<1>4. G!Claimed' = G!Claimed
  BY DEF G!Claimed
<1> QED BY <1>3, <1>4 DEF ClaimHasOwner

\* A pool that is in flight was claimed for a graph that holds it.
LEMMA ClaimedIsHeld ==
  ASSUME GInv, NEW s \in Streams, IsInside(s), G!Shares(run[s].graph)
  PROVE  run[s].graph \in Holders
BY DEF GInv, FlagsHaveOwners, Holders, IsInside, G!Inside

LEMMA ReserveKeeps ==
  ASSUME G!SubmissionAssumption, GInv, NEW g \in Graphs, G!Reserve(g)
  PROVE  GInv'
<1> USE DEF PoolRecord
<1>1. /\ stage[g] = "none" /\ stage' = [stage EXCEPT ![g] = "reserved"]
      /\ UNCHANGED <<inFlight, bound, binding, open, lost, queue, run, submissions>>
  BY DEF G!Reserve
<1>2. /\ stage \in [Graphs -> G!Stages] /\ Need[g] \in Nat
      /\ pool \in PoolRecord
  BY DEF GInv, RunsTyped, G!TypeOK, G!SubmissionAssumption
<1>3. /\ pool' \in PoolRecord
      /\ pool'.inFlight = pool.inFlight /\ pool'.closed = pool.closed /\ pool'.bytes >= pool.bytes
      /\ pool.inFlight => pool'.block = pool.block
      /\ pool'.graphs = IF G!Shares(g) THEN pool.graphs + 1 ELSE pool.graphs
      /\ G!Shares(g) => ~pool.closed /\ Need[g] =< pool'.bytes
  <2>1. CASE G!Shares(g)
    <3>1. /\ pool' = [pool EXCEPT !.graphs = @ + 1,
                                  !.bytes = IF Need[g] > @ THEN Need[g] ELSE @,
                                  !.block = IF Need[g] > pool.bytes THEN @ + 1 ELSE @]
          /\ ~pool.closed /\ ~pool.inFlight
      BY <2>1 DEF G!Reserve, G!MayReserve
    <3> DEFINE grown == IF Need[g] > pool.bytes THEN Need[g] ELSE pool.bytes
               moved == IF Need[g] > pool.bytes THEN pool.block + 1 ELSE pool.block
    <3>2. grown \in Nat /\ moved \in Nat /\ grown >= pool.bytes /\ Need[g] =< grown
      BY <1>2
    <3>3. pool' = [pool EXCEPT !.graphs = pool.graphs + 1, !.bytes = grown, !.block = moved]
      BY <1>2, <3>1
    <3> HIDE DEF grown, moved
    <3>4. /\ pool'.graphs = pool.graphs + 1 /\ pool'.bytes = grown
          /\ pool'.inFlight = pool.inFlight /\ pool'.closed = pool.closed
      BY <1>2, <3>2, <3>3
    <3>5. pool' \in PoolRecord
      <4>1. pool.graphs + 1 \in Nat
        BY <1>2
      <4> DEFINE counted == pool.graphs + 1
      <4>2. pool' = [pool EXCEPT !.graphs = counted, !.bytes = grown, !.block = moved]
        BY <3>3
      <4> HIDE DEF counted
      <4> QED BY <1>2, <3>2, <4>1, <4>2 DEF counted
    <3> QED BY <2>1, <3>1, <3>2, <3>4, <3>5
  <2>2. CASE ~G!Shares(g)
    BY <1>2, <2>2 DEF G!Reserve
  <2> QED BY <2>1, <2>2
<1>4. RunsTyped'
  BY <1>1, <1>2, <1>3 DEF GInv, RunsTyped, G!TypeOK, G!Stages
<1>5. ~inFlight[g]
  BY <1>1 DEF GInv, FlagsHaveOwners
<1>6. FlagsHaveOwners' /\ ClaimHasOwner'
  BY <1>1, <1>2, <1>3, <1>5, StreamsUntouched DEF GInv
<1>7. g \notin Holders /\ Holders' = IF G!Shares(g) THEN Holders \union {g} ELSE Holders
  BY <1>1, <1>2 DEF Holders, G!Leaving, G!Shares
<1>8. IsFiniteSet(Holders) /\ pool.graphs = Cardinality(Holders)
  BY DEF GInv, PoolFitsHolders
<1>9. IsFiniteSet(Holders') /\ pool'.graphs = Cardinality(Holders')
  <2>1. /\ IsFiniteSet(Holders \union {g})
        /\ Cardinality(Holders \union {g}) = Cardinality(Holders) + 1
    BY <1>7, <1>8, FS_AddElement
  <2> QED BY <1>3, <1>7, <1>8, <2>1
<1>10. \A h \in Holders' : ~pool'.closed /\ Need[h] =< pool'.bytes
  <2> SUFFICES ASSUME NEW h \in Holders' PROVE ~pool'.closed /\ Need[h] =< pool'.bytes
    OBVIOUS
  <2>1. CASE h \in Holders
    <3>1. ~pool.closed /\ Need[h] =< pool.bytes /\ Need[h] \in Nat
      BY <2>1 DEF GInv, PoolFitsHolders, Holders, G!SubmissionAssumption
    <3> QED BY <1>2, <1>3, <3>1
  <2>2. CASE h \notin Holders
    BY <1>3, <1>7, <2>2
  <2> QED BY <2>1, <2>2
<1>11. \A s \in Streams : run[s].at = "running" /\ G!Shares(run[s].graph) => run[s].block = pool'.block
  <2> SUFFICES ASSUME NEW s \in Streams, run[s].at = "running", G!Shares(run[s].graph)
               PROVE  run[s].block = pool'.block
    OBVIOUS
  <2>1. s \in G!Claimed
    BY DEF G!Claimed
  <2>2. pool.inFlight
    BY <2>1 DEF GInv, ClaimHasOwner
  <2> QED BY <1>3, <2>2 DEF GInv, PoolFitsHolders
<1>12. PoolFitsHolders'
  BY <1>1, <1>9, <1>10, <1>11 DEF PoolFitsHolders, G!Shares
<1> QED BY <1>4, <1>6, <1>12 DEF GInv

\* A change of one graph's stage that holds the pool as before.
LEMMA StageKeeps ==
  ASSUME GInv, NEW g \in Graphs, NEW to \in G!Stages, stage' = [stage EXCEPT ![g] = to],
         UNCHANGED <<inFlight, bound, binding, open, pool, lost, queue, run, submissions>>,
         ~inFlight[g], stage[g] \in {"reserved", "built"}, to \in {"failed", "built", "closing"}
  PROVE  GInv'
<1>1. stage \in [Graphs -> G!Stages]
  BY DEF GInv, RunsTyped, G!TypeOK
<1>2. RunsTyped'
  BY <1>1 DEF GInv, RunsTyped, G!TypeOK
<1>3. FlagsHaveOwners' /\ ClaimHasOwner'
  BY <1>1, StreamsUntouched DEF GInv
<1>4. Holders' = Holders
  BY <1>1 DEF Holders, G!Leaving, G!Shares
<1>5. PoolFitsHolders'
  BY <1>4 DEF GInv, PoolFitsHolders, G!Shares
<1> QED BY <1>2, <1>3, <1>5 DEF GInv

LEMMA CompileKeeps ==
  ASSUME GInv, NEW g \in Graphs, G!Compile(g)
  PROVE  GInv'
<1>1. stage[g] = "reserved" /\ ~inFlight[g]
  BY DEF G!Compile, GInv, FlagsHaveOwners
<1> DEFINE to == IF lost THEN "failed" ELSE "built"
<1>2. to \in {"failed", "built", "closing"} /\ to \in G!Stages
  BY DEF G!Stages
<1>3. /\ stage' = [stage EXCEPT ![g] = to]
      /\ UNCHANGED <<inFlight, bound, binding, open, pool, lost, queue, run, submissions>>
  BY DEF G!Compile
<1> HIDE DEF to
<1> QED BY <1>1, <1>2, <1>3, StageKeeps

LEMMA CloseKeeps ==
  ASSUME GInv, NEW g \in Graphs, G!Close(g)
  PROVE  GInv'
<1>1. "closing" \in G!Stages
  BY DEF G!Stages
<1> QED BY <1>1, StageKeeps DEF G!Close

LEMMA ReleaseTransientsKeeps ==
  ASSUME G!SubmissionAssumption, GInv, NEW g \in Graphs, G!ReleaseTransients(g)
  PROVE  GInv'
<1> DEFINE to == IF stage[g] = "failed" THEN "none" ELSE "released"
<1>1. /\ stage[g] \in {"failed", "closing"} /\ stage' = [stage EXCEPT ![g] = to]
      /\ pool' = (IF G!Shares(g) THEN [pool EXCEPT !.graphs = @ - 1] ELSE pool)
      /\ UNCHANGED <<inFlight, bound, binding, open, lost, queue, run, submissions>>
  BY DEF G!ReleaseTransients, G!Leaving
<1>2. stage \in [Graphs -> G!Stages] /\ pool \in PoolRecord /\ to \in {"none", "released"}
  BY DEF GInv, RunsTyped, G!TypeOK, PoolRecord
<1> HIDE DEF to
<1>3. IsFiniteSet(Holders) /\ pool.graphs = Cardinality(Holders)
  BY DEF GInv, PoolFitsHolders
<1>4. /\ G!Shares(g) => g \in Holders
      /\ Holders' = IF G!Shares(g) THEN Holders \ {g} ELSE Holders
  BY <1>1, <1>2 DEF Holders, G!Leaving, G!Shares
<1>5. IsFiniteSet(Holders') /\ Cardinality(Holders') \in Nat
      /\ Cardinality(Holders') = IF G!Shares(g) THEN Cardinality(Holders) - 1 ELSE Cardinality(Holders)
  BY <1>3, <1>4, FS_RemoveElement, FS_CardinalityType
<1>6. /\ pool'.graphs = Cardinality(Holders') /\ pool'.inFlight = pool.inFlight
      /\ pool'.closed = pool.closed /\ pool'.bytes = pool.bytes /\ pool'.block = pool.block
  BY <1>1, <1>2, <1>3, <1>5 DEF PoolRecord
<1>7. pool' \in PoolRecord
  <2>1. CASE ~G!Shares(g)
    BY <1>1, <1>2, <2>1
  <2>2. CASE G!Shares(g)
    <3> DEFINE counted == Cardinality(Holders')
    <3>1. counted \in Nat /\ pool' = [pool EXCEPT !.graphs = counted]
      BY <1>1, <1>3, <1>5, <2>2
    <3> HIDE DEF counted
    <3> QED BY <1>2, <3>1 DEF PoolRecord
  <2> QED BY <2>1, <2>2
<1>8. "none" \in G!Stages /\ "released" \in G!Stages
  BY DEF G!Stages
<1>9. stage' \in [Graphs -> G!Stages]
  BY <1>1, <1>2, <1>8
<1>10. RunsTyped'
  BY <1>1, <1>7, <1>9 DEF GInv, RunsTyped, G!TypeOK, PoolRecord
<1>11. ~inFlight[g]
  BY <1>1 DEF GInv, FlagsHaveOwners
<1>12. FlagsHaveOwners' /\ ClaimHasOwner'
  BY <1>1, <1>2, <1>6, <1>11, StreamsUntouched DEF GInv
<1>13. PoolFitsHolders'
  BY <1>1, <1>4, <1>5, <1>6 DEF GInv, PoolFitsHolders, G!Shares
<1> QED BY <1>10, <1>12, <1>13 DEF GInv

\* The pool is closed when no graph holds it.
LEMMA ClosePoolKeeps ==
  ASSUME GInv, G!ClosePool
  PROVE  GInv'
<1>1. /\ pool.graphs = 0 /\ pool' = [pool EXCEPT !.closed = TRUE, !.bytes = 0]
      /\ UNCHANGED <<stage, inFlight, bound, binding, open, lost, queue, run, submissions>>
  BY DEF G!ClosePool, G!graphs
<1>2. pool \in PoolRecord
  BY DEF GInv, RunsTyped, G!TypeOK, PoolRecord
<1>3. /\ pool' \in PoolRecord /\ pool'.inFlight = pool.inFlight
      /\ pool'.graphs = pool.graphs /\ pool'.block = pool.block
  BY <1>1, <1>2 DEF PoolRecord
<1>4. RunsTyped'
  BY <1>1, <1>3 DEF GInv, RunsTyped, G!TypeOK, PoolRecord
<1>5. FlagsHaveOwners' /\ ClaimHasOwner'
  BY <1>1, <1>3, StreamsUntouched DEF GInv
<1>6. Holders = {} /\ Holders' = Holders
  <2>1. Holders = {}
    BY <1>1, FS_EmptySet DEF GInv, PoolFitsHolders
  <2>2. Holders' = Holders
    BY <1>1 DEF Holders, G!Shares
  <2> QED BY <2>1, <2>2
<1>7. PoolFitsHolders'
  BY <1>1, <1>3, <1>6 DEF GInv, PoolFitsHolders, G!Shares
<1> QED BY <1>4, <1>5, <1>7 DEF GInv

\* Bindings, resources and submissions are not looked at by the accounts.
LEMMA AccountsUntouched ==
  ASSUME GInv, RunsTyped', UNCHANGED <<stage, inFlight, pool, run>>
  PROVE  GInv'
<1>1. FlagsHaveOwners' /\ ClaimHasOwner'
  BY StreamsUntouched DEF GInv
<1>2. Holders' = Holders
  BY DEF Holders, G!Shares
<1>3. PoolFitsHolders'
  BY <1>2 DEF GInv, PoolFitsHolders, G!Shares
<1> QED BY <1>1, <1>3 DEF GInv

LEMMA CallsKeepGInv ==
  ASSUME G!SubmissionAssumption, GInv, G!Call
  PROVE  GInv'
<1>1. ASSUME NEW g \in Graphs, G!Bind(g) PROVE GInv'
  <2>1. UNCHANGED <<stage, inFlight, open, pool, lost, queue, run, submissions>>
    BY <1>1 DEF G!Bind
  <2>2. /\ bound' \in [Graphs -> Resources \union {NoGraph}]
        /\ binding' \in [Graphs -> Resources \union {NoGraph}]
    BY <1>1 DEF G!Bind, GInv, RunsTyped, G!TypeOK
  <2>3. RunsTyped'
    BY <2>1, <2>2 DEF GInv, RunsTyped, G!TypeOK
  <2> QED BY <2>1, <2>3, AccountsUntouched
<1>2. ASSUME NEW g \in Graphs, NEW r \in Resources, G!CheckBinding(g, r) PROVE GInv'
  <2>1. UNCHANGED <<stage, inFlight, bound, open, pool, lost, queue, run, submissions>>
    BY <1>2 DEF G!CheckBinding
  <2>2. binding' \in [Graphs -> Resources \union {NoGraph}]
    BY <1>2 DEF G!CheckBinding, GInv, RunsTyped, G!TypeOK
  <2>3. RunsTyped'
    BY <2>1, <2>2 DEF GInv, RunsTyped, G!TypeOK
  <2> QED BY <2>1, <2>3, AccountsUntouched
<1>3. ASSUME NEW g \in Graphs, NEW s \in Streams, G!Submit(g, s) PROVE GInv'
  <2>1. /\ UNCHANGED <<stage, inFlight, bound, binding, open, pool, lost, run>>
        /\ queue' = [queue EXCEPT ![s] = Append(@, g)]
        /\ submissions < MaxSubmissions /\ submissions' = submissions + 1
    BY <1>3 DEF G!Submit, G!graphs
  <2>2. queue' \in [Streams -> Seq(Graphs)]
    BY <2>1 DEF GInv, RunsTyped
  <2>3. submissions' \in 0 .. MaxSubmissions
    BY <2>1 DEF GInv, RunsTyped, G!TypeOK, G!SubmissionAssumption
  <2>4. RunsTyped'
    BY <2>1, <2>2, <2>3 DEF GInv, RunsTyped, G!TypeOK
  <2> QED BY <2>1, <2>4, AccountsUntouched
<1>4. ASSUME NEW r \in Resources, G!CloseResource(r) PROVE GInv'
  <2>1. /\ UNCHANGED <<stage, inFlight, bound, binding, pool, lost, queue, run, submissions>>
        /\ open' = open \ {r}
    BY <1>4 DEF G!CloseResource, G!graphs
  <2>2. RunsTyped'
    BY <2>1 DEF GInv, RunsTyped, G!TypeOK
  <2> QED BY <2>1, <2>2, AccountsUntouched
<1>5. ASSUME NEW g \in Graphs, G!Reserve(g) \/ G!Compile(g) \/ G!Close(g) \/ G!ReleaseTransients(g)
      PROVE  GInv'
  BY <1>5, ReserveKeeps, CompileKeeps, CloseKeeps, ReleaseTransientsKeeps
<1> QED BY <1>1, <1>2, <1>3, <1>4, <1>5, ClosePoolKeeps DEF G!Call

-----------------------------------------------------------------------------
(* The goroutine of a stream.                                                 *)
HasClaim(r) == r.at = "end" \/ (r.at \in {"submit", "running"} /\ G!Shares(r.graph))

\* A step of stream s that leaves its run as r and does not touch a flag.
LEMMA FlagsStay ==
  ASSUME GInv, NEW s \in Streams, NEW r \in RunRecord, run' = [run EXCEPT ![s] = r],
         UNCHANGED <<stage, inFlight>>, r.at \in G!Inside <=> IsInside(s),
         r.at # "idle" => r.graph \in Graphs, IsInside(s) => r.graph = run[s].graph
  PROVE  FlagsHaveOwners'
<1>1. run'[s] = r /\ \A t \in Streams : t # s => run'[t] = run[t]
  BY DEF GInv, RunsTyped
<1>2. \A t \in Streams : (IsInside(t)' <=> IsInside(t)) /\ (IsInside(t) => run'[t].graph = run[t].graph)
  BY <1>1 DEF IsInside
<1> QED BY <1>1, <1>2 DEF GInv, FlagsHaveOwners

LEMMA ClaimStays ==
  ASSUME GInv, NEW s \in Streams, NEW r \in RunRecord, run' = [run EXCEPT ![s] = r],
         pool' = pool, HasClaim(r) <=> HasClaim(run[s]),
         r.at \in {"claim", "end"} => G!Shares(r.graph)
  PROVE  ClaimHasOwner'
<1>1. run'[s] = r /\ \A t \in Streams : t # s => run'[t] = run[t]
  BY DEF GInv, RunsTyped
<1>2. G!Claimed = {t \in Streams : HasClaim(run[t])} /\ G!Claimed' = {t \in Streams : HasClaim(run'[t])}
  BY DEF G!Claimed, HasClaim, G!Shares
<1>3. G!Claimed' = G!Claimed
  BY <1>1, <1>2
<1>4. \A t \in Streams : run'[t].at \in {"claim", "end"} => G!Shares(run'[t].graph)
  BY <1>1 DEF GInv, ClaimHasOwner
<1> QED BY <1>3, <1>4 DEF GInv, ClaimHasOwner, G!Shares

LEMMA PoolStays ==
  ASSUME GInv, NEW s \in Streams, NEW r \in RunRecord, run' = [run EXCEPT ![s] = r],
         stage' = stage, pool'.graphs = pool.graphs, pool'.closed = pool.closed,
         pool'.bytes = pool.bytes, pool'.block = pool.block,
         r.at = "running" /\ G!Shares(r.graph) => r.block = pool.block
  PROVE  PoolFitsHolders'
<1>1. run'[s] = r /\ \A t \in Streams : t # s => run'[t] = run[t]
  BY DEF GInv, RunsTyped
<1>2. Holders' = Holders
  BY DEF Holders, G!Shares
<1>3. \A t \in Streams : run'[t].at = "running" /\ G!Shares(run'[t].graph) => run'[t].block = pool'.block
  BY <1>1 DEF GInv, PoolFitsHolders
<1> QED BY <1>2, <1>3 DEF GInv, PoolFitsHolders, G!Shares

LEMMA RunsStayTyped ==
  ASSUME GInv, NEW s \in Streams, NEW r \in RunRecord, run' = [run EXCEPT ![s] = r],
         inFlight' \in [Graphs -> BOOLEAN], pool' \in PoolRecord, lost' \in BOOLEAN,
         queue' \in [Streams -> Seq(Graphs)], UNCHANGED <<stage, bound, binding, open, submissions>>
  PROVE  RunsTyped'
<1>1. run' \in [Streams -> RunRecord]
  BY DEF GInv, RunsTyped
<1>2. \A t \in Streams : /\ run'[t].at \in G!Inside \union {"idle", "enter"}
                         /\ run'[t].graph \in Graphs \union {NoGraph}
  BY <1>1 DEF RunRecord
<1>3. G!TypeOK'
  BY <1>2 DEF GInv, RunsTyped, G!TypeOK, PoolRecord
<1> QED BY <1>1, <1>3 DEF RunsTyped

\* What is typed of a stream, and what its steps leave alone.
LEMMA StreamData ==
  ASSUME GInv, NEW s \in Streams, G!Stream(s)
  PROVE  /\ run[s] \in RunRecord /\ run \in [Streams -> RunRecord] /\ queue \in [Streams -> Seq(Graphs)]
         /\ pool \in PoolRecord /\ lost \in BOOLEAN /\ inFlight \in [Graphs -> BOOLEAN]
         /\ \A g \in Graphs : bound[g] \in Resources \union {NoGraph}
         /\ UNCHANGED <<stage, bound, binding, open, submissions>>
<1>1. UNCHANGED <<stage, bound, binding, open, submissions>>
  BY DEF G!Stream, G!Start, G!Enter, G!Claim, G!SubmitExecutable, G!Complete, G!End, G!Leave, G!StreamOnly
<1> QED BY <1>1 DEF GInv, RunsTyped, G!TypeOK, PoolRecord

\* A run record that has moved on, and one that has failed as well.
LEMMA RunMoved ==
  ASSUME NEW r \in RunRecord, NEW at \in G!Inside
  PROVE  /\ [r EXCEPT !.at = at] \in RunRecord /\ [r EXCEPT !.at = at].at = at
         /\ [r EXCEPT !.at = at].graph = r.graph /\ [r EXCEPT !.at = at].block = r.block
<1>1. at \in G!Inside \union {"idle", "enter"}
  OBVIOUS
<1> QED BY <1>1 DEF RunRecord

LEMMA RunFailed ==
  ASSUME NEW r \in RunRecord, NEW at \in G!Inside, NEW failed \in BOOLEAN
  PROVE  /\ [r EXCEPT !.at = at, !.failed = failed] \in RunRecord
         /\ [r EXCEPT !.at = at, !.failed = failed].at = at
         /\ [r EXCEPT !.at = at, !.failed = failed].graph = r.graph
<1>1. at \in G!Inside \union {"idle", "enter"}
  OBVIOUS
<1> QED BY <1>1 DEF RunRecord

LEMMA IdleIsARun == G!Idle \in RunRecord /\ G!Idle.at = "idle"
BY DEF G!Idle, RunRecord

LEMMA StartKeeps ==
  ASSUME GInv, NEW s \in Streams, G!Start(s)
  PROVE  GInv'
<1>1. G!Stream(s)
  BY DEF G!Stream
<1> DEFINE head == Head(queue[s])
           r == IF lost THEN G!Idle ELSE [G!Idle EXCEPT !.at = "enter", !.graph = head]
<1>2. /\ run[s].at = "idle" /\ queue[s] # <<>> /\ queue[s] \in Seq(Graphs)
      /\ run' = [run EXCEPT ![s] = r] /\ queue' = [queue EXCEPT ![s] = Tail(@)]
      /\ UNCHANGED <<inFlight, pool, lost>>
  BY <1>1, StreamData DEF G!Start
<1>3. head \in Graphs /\ Tail(queue[s]) \in Seq(Graphs)
  BY <1>2
<1> HIDE DEF head
<1>4. r \in RunRecord /\ r.at \in {"idle", "enter"} /\ (r.at # "idle" => r.graph \in Graphs)
  BY <1>3, IdleIsARun DEF RunRecord, G!Idle
<1> HIDE DEF r
<1>5. r.at \notin G!Inside /\ ~IsInside(s)
  BY <1>2, <1>4 DEF G!Inside, IsInside
<1>6. ~HasClaim(r) /\ ~HasClaim(run[s]) /\ r.at \notin {"claim", "end", "running"}
  BY <1>2, <1>4 DEF HasClaim
<1>7. queue' \in [Streams -> Seq(Graphs)]
  BY <1>1, <1>2, <1>3, StreamData
<1>8. UNCHANGED <<stage, bound, binding, open, submissions>>
  BY <1>1, StreamData
<1>9. RunsTyped'
  BY <1>1, <1>2, <1>4, <1>7, <1>8, RunsStayTyped, StreamData
<1>10. FlagsHaveOwners'
  BY <1>2, <1>4, <1>5, <1>8, FlagsStay
<1>11. ClaimHasOwner'
  BY <1>2, <1>4, <1>6, ClaimStays
<1>12. PoolFitsHolders'
  BY <1>2, <1>4, <1>6, <1>8, PoolStays
<1> QED BY <1>9, <1>10, <1>11, <1>12 DEF GInv

LEMMA EnterKeeps ==
  ASSUME GInv, NEW s \in Streams, G!Enter(s)
  PROVE  GInv'
<1>1. G!Stream(s)
  BY DEF G!Stream
<1> DEFINE g == run[s].graph
<1>2. run[s].at = "enter" /\ g \in Graphs /\ ~IsInside(s) /\ ~HasClaim(run[s])
  BY DEF G!Enter, GInv, FlagsHaveOwners, IsInside, G!Inside, HasClaim
<1>3. UNCHANGED <<pool, lost, queue, stage, bound, binding, open, submissions>>
  BY <1>1, StreamData DEF G!Enter
<1>4. CASE ~G!MayEnter(g)
  <2>1. run' = [run EXCEPT ![s] = G!Idle] /\ inFlight' = inFlight
    BY <1>4 DEF G!Enter
  <2>2. G!Idle.at \notin G!Inside /\ ~HasClaim(G!Idle)
    BY IdleIsARun DEF G!Inside, HasClaim
  <2>3. RunsTyped'
    BY <1>1, <1>3, <2>1, IdleIsARun, RunsStayTyped, StreamData
  <2>4. FlagsHaveOwners'
    BY <1>2, <1>3, <2>1, <2>2, IdleIsARun, FlagsStay
  <2>5. ClaimHasOwner'
    BY <1>2, <1>3, <2>1, <2>2, IdleIsARun, ClaimStays
  <2>6. PoolFitsHolders'
    BY <1>3, <2>1, IdleIsARun, PoolStays
  <2> QED BY <2>3, <2>4, <2>5, <2>6 DEF GInv
<1>5. CASE G!MayEnter(g)
  <2> DEFINE to == IF G!Shares(g) THEN "claim" ELSE "submit"
             r == [run[s] EXCEPT !.at = to]
  <2>1. /\ run' = [run EXCEPT ![s].at = to] /\ inFlight' = [inFlight EXCEPT ![g] = TRUE]
        /\ stage[g] = "built" /\ ~inFlight[g]
    BY <1>5 DEF G!Enter, G!MayEnter
  <2>2. to \in G!Inside
    BY DEF G!Inside
  <2>3. run' = [run EXCEPT ![s] = r]
    BY <2>1
  <2>4. r \in RunRecord /\ r.at = to /\ r.graph = g
    BY <1>1, <2>2, RunMoved, StreamData
  <2>5. ~HasClaim(r) /\ (r.at \in {"claim", "end"} => G!Shares(r.graph)) /\ r.at # "running"
    BY <2>4 DEF HasClaim
  <2> HIDE DEF to, r
  <2>6. inFlight' \in [Graphs -> BOOLEAN]
    BY <1>1, <2>1, StreamData
  <2>7. RunsTyped'
    BY <1>1, <1>3, <2>3, <2>4, <2>6, RunsStayTyped, StreamData
  <2>8. FlagsHaveOwners'
    <3>1. run'[s] = r /\ \A t \in Streams : t # s => run'[t] = run[t]
      BY <1>1, <2>3, StreamData
    <3>2. IsInside(s)' /\ run'[s].graph = g /\ \A t \in Streams : t # s => (IsInside(t)' <=> IsInside(t))
      BY <2>2, <2>4, <3>1 DEF IsInside
    <3>3. \A t \in Streams : IsInside(t) => run[t].graph # g
      BY <2>1 DEF GInv, FlagsHaveOwners
    <3>4. \A t \in Streams : IsInside(t) => run[t].graph \in Graphs
      BY DEF GInv, FlagsHaveOwners, IsInside, G!Inside
    <3>5. inFlight'[g] /\ \A h \in Graphs : h # g => inFlight'[h] = inFlight[h]
      BY <1>1, <1>2, <2>1, StreamData
    <3>6. \A t, v \in Streams : IsInside(t)' /\ IsInside(v)' /\ run'[t].graph = run'[v].graph => t = v
      BY <3>1, <3>2, <3>3 DEF GInv, FlagsHaveOwners
    <3>7. \A t \in Streams : run'[t].at # "idle" => run'[t].graph \in Graphs
      BY <1>2, <3>1, <3>2 DEF GInv, FlagsHaveOwners
    <3>8. \A t \in Streams : IsInside(t)' => inFlight'[run'[t].graph] /\ stage'[run'[t].graph] = "built"
      BY <1>3, <2>1, <3>1, <3>2, <3>3, <3>4, <3>5 DEF GInv, FlagsHaveOwners
    <3>9. \A h \in Graphs : inFlight'[h] => \E t \in Streams : IsInside(t)' /\ run'[t].graph = h
      BY <1>2, <3>1, <3>2, <3>5 DEF GInv, FlagsHaveOwners
    <3> QED BY <3>6, <3>7, <3>8, <3>9 DEF FlagsHaveOwners
  <2>9. ClaimHasOwner'
    BY <1>2, <1>3, <2>3, <2>4, <2>5, ClaimStays
  <2>10. PoolFitsHolders'
    BY <1>3, <2>3, <2>4, <2>5, PoolStays
  <2> QED BY <2>7, <2>8, <2>9, <2>10 DEF GInv
<1> QED BY <1>4, <1>5

LEMMA ClaimKeeps ==
  ASSUME GInv, NEW s \in Streams, G!Claim(s)
  PROVE  GInv'
<1>1. G!Stream(s)
  BY DEF G!Stream
<1>2. /\ run[s].at = "claim" /\ IsInside(s) /\ ~HasClaim(run[s]) /\ G!Shares(run[s].graph)
      /\ run[s].graph \in Graphs
  BY DEF G!Claim, GInv, FlagsHaveOwners, ClaimHasOwner, IsInside, G!Inside, HasClaim
<1>3. UNCHANGED <<inFlight, lost, queue, stage, bound, binding, open, submissions>>
  BY <1>1, StreamData DEF G!Claim
<1>4. "submit" \in G!Inside /\ "leave" \in G!Inside
  BY DEF G!Inside
<1>5. CASE ~G!MayClaim
  <2> DEFINE r == [run[s] EXCEPT !.at = "leave", !.failed = TRUE]
  <2>1. run' = [run EXCEPT ![s] = r] /\ pool' = pool
    BY <1>1, <1>5, StreamData DEF G!Claim
  <2>2. r \in RunRecord /\ r.at = "leave" /\ r.graph = run[s].graph
    BY <1>1, <1>4, RunFailed, StreamData
  <2> HIDE DEF r
  <2>3. ~HasClaim(r) /\ r.at \in G!Inside /\ r.at \notin {"claim", "end", "running"}
    BY <1>4, <2>2 DEF HasClaim
  <2>4. RunsTyped'
    BY <1>1, <1>3, <2>1, <2>2, RunsStayTyped, StreamData
  <2>5. FlagsHaveOwners'
    BY <1>2, <1>3, <2>1, <2>2, <2>3, FlagsStay
  <2>6. ClaimHasOwner'
    BY <1>2, <2>1, <2>2, <2>3, ClaimStays
  <2>7. PoolFitsHolders'
    BY <1>3, <2>1, <2>2, <2>3, PoolStays
  <2> QED BY <2>4, <2>5, <2>6, <2>7 DEF GInv
<1>6. CASE G!MayClaim
  <2> DEFINE r == [run[s] EXCEPT !.at = "submit"]
  <2>1. run' = [run EXCEPT ![s] = r] /\ pool' = [pool EXCEPT !.inFlight = TRUE] /\ ~pool.inFlight
    BY <1>1, <1>6, StreamData DEF G!Claim, G!MayClaim
  <2>2. r \in RunRecord /\ r.at = "submit" /\ r.graph = run[s].graph
    BY <1>1, <1>4, RunMoved, StreamData
  <2> HIDE DEF r
  <2>3. HasClaim(r) /\ r.at \in G!Inside /\ r.at \notin {"claim", "end", "running"}
    BY <1>2, <1>4, <2>2 DEF HasClaim
  <2>4. /\ pool' \in PoolRecord /\ pool'.inFlight = TRUE /\ pool'.graphs = pool.graphs
        /\ pool'.closed = pool.closed /\ pool'.bytes = pool.bytes /\ pool'.block = pool.block
    BY <1>1, <2>1, StreamData DEF PoolRecord
  <2>5. RunsTyped'
    BY <1>1, <1>3, <2>1, <2>2, <2>4, RunsStayTyped, StreamData
  <2>6. FlagsHaveOwners'
    BY <1>2, <1>3, <2>1, <2>2, <2>3, FlagsStay
  <2>7. ClaimHasOwner'
    <3>1. run'[s] = r /\ \A t \in Streams : t # s => run'[t] = run[t]
      BY <1>1, <2>1, StreamData
    <3>2. G!Claimed = {}
      BY <2>1 DEF GInv, ClaimHasOwner
    <3>3. G!Claimed' = {s}
      <4>1. \A t \in Streams : ~HasClaim(run[t])
        BY <3>2 DEF G!Claimed, HasClaim
      <4>2. \A t \in Streams : HasClaim(run'[t]) <=> t = s
        BY <2>3, <3>1, <4>1
      <4>3. G!Claimed' = {t \in Streams : HasClaim(run'[t])}
        BY DEF G!Claimed, HasClaim, G!Shares
      <4> QED BY <4>2, <4>3
    <3>4. \A t \in Streams : run'[t].at \in {"claim", "end"} => G!Shares(run'[t].graph)
      BY <2>3, <3>1 DEF GInv, ClaimHasOwner
    <3> QED BY <2>4, <3>3, <3>4 DEF ClaimHasOwner, G!Shares
  <2>8. PoolFitsHolders'
    BY <1>3, <2>1, <2>2, <2>3, <2>4, PoolStays
  <2> QED BY <2>5, <2>6, <2>7, <2>8 DEF GInv
<1> QED BY <1>5, <1>6

\* The executable takes the submission and answers it: the claim stays.
LEMMA ExecutableKeeps ==
  ASSUME GInv, NEW s \in Streams, G!SubmitExecutable(s) \/ G!Complete(s)
  PROVE  GInv'
<1>1. G!Stream(s)
  BY DEF G!Stream
<1>2. run[s].at \in {"submit", "running"} /\ IsInside(s) /\ run[s].graph \in Graphs
  BY DEF G!SubmitExecutable, G!Complete, GInv, FlagsHaveOwners, IsInside, G!Inside
<1>3. /\ UNCHANGED <<inFlight, pool, queue, stage, bound, binding, open, submissions>>
      /\ lost' \in BOOLEAN
  <2>1. CASE G!SubmitExecutable(s)
    <3>1. lost' = lost \/ lost' = (lost \/ CanBeLost)
      BY <2>1 DEF G!SubmitExecutable
    <3>2. lost \in BOOLEAN
      BY <1>1, StreamData
    <3>3. lost' \in BOOLEAN
      BY <3>1, <3>2
    <3> QED BY <1>1, <2>1, <3>3, StreamData DEF G!SubmitExecutable
  <2>2. CASE G!Complete(s)
    BY <1>1, <2>2, StreamData DEF G!Complete
  <2> QED BY <2>1, <2>2
<1>4. G!AfterRun(s) = IF G!Shares(run[s].graph) THEN "end" ELSE "leave"
  BY DEF G!AfterRun
<1>5. PICK r \in RunRecord :
        /\ run' = [run EXCEPT ![s] = r] /\ r.graph = run[s].graph
        /\ \/ r.at = G!AfterRun(s)
           \/ r.at = "running" /\ r.block = pool.block
  <2>1. G!AfterRun(s) \in G!Inside /\ "running" \in G!Inside
    BY <1>4 DEF G!Inside
  <2>2. ASSUME NEW f \in BOOLEAN, run' = [run EXCEPT ![s].at = G!AfterRun(s), ![s].failed = f]
        PROVE  \E r \in RunRecord : /\ run' = [run EXCEPT ![s] = r] /\ r.graph = run[s].graph
                                    /\ r.at = G!AfterRun(s)
    <3> DEFINE to == G!AfterRun(s)
               r == [run[s] EXCEPT !.at = to, !.failed = f]
    <3>1. run' = [run EXCEPT ![s] = r]
      BY <1>1, <2>2, StreamData
    <3>2. to \in G!Inside /\ to = G!AfterRun(s)
      BY <2>1
    <3> HIDE DEF to
    <3>3. r \in RunRecord /\ r.at = to /\ r.graph = run[s].graph
      <4>1. run[s] \in RunRecord
        BY <1>1, StreamData
      <4>2. f \in BOOLEAN /\ to \in G!Inside
        BY <3>2
      <4> QED BY <4>1, <4>2, RunFailed, Zenon
    <3> HIDE DEF r
    <3> QED BY <3>1, <3>2, <3>3
  <2>3. CASE G!Complete(s)
    <3>1. run' = [run EXCEPT ![s].at = G!AfterRun(s), ![s].failed = lost] /\ lost \in BOOLEAN
      BY <1>1, <2>3, StreamData DEF G!Complete
    <3> QED BY <2>2, <3>1
  <2>4. CASE G!SubmitExecutable(s) /\ lost'
    <3>1. run' = [run EXCEPT ![s].at = G!AfterRun(s), ![s].failed = TRUE]
      BY <2>4 DEF G!SubmitExecutable
    <3> QED BY <2>2, <3>1
  <2>5. CASE G!SubmitExecutable(s) /\ ~lost'
    <3> DEFINE use == bound[run[s].graph]
               r == [run[s] EXCEPT !.at = "running", !.uses = use, !.block = pool.block]
    <3>1. use \in Resources \union {NoGraph} /\ pool.block \in Nat
      BY <1>1, <1>2, StreamData DEF PoolRecord
    <3>2. run' = [run EXCEPT ![s] = r]
      BY <1>1, <2>5, StreamData DEF G!SubmitExecutable
    <3> HIDE DEF use
    <3>3. "running" \in G!Inside \union {"idle", "enter"}
      BY <2>1
    <3>4. r \in RunRecord /\ r.at = "running" /\ r.graph = run[s].graph /\ r.block = pool.block
      BY <1>1, <3>1, <3>3, StreamData DEF RunRecord
    <3> HIDE DEF r
    <3> QED BY <3>2, <3>4
  <2> QED BY <2>3, <2>4, <2>5
<1>6. /\ r.at \in G!Inside /\ r.at # "claim" /\ (r.at = "end" => G!Shares(r.graph))
      /\ HasClaim(r) <=> HasClaim(run[s])
  BY <1>2, <1>4, <1>5 DEF HasClaim, G!Inside
<1>7. RunsTyped'
  BY <1>1, <1>3, <1>5, RunsStayTyped, StreamData
<1>8. FlagsHaveOwners'
  BY <1>2, <1>3, <1>5, <1>6, FlagsStay
<1>9. ClaimHasOwner'
  BY <1>3, <1>5, <1>6, ClaimStays
<1>10. r.at = "running" => r.block = pool.block
  BY <1>4, <1>5
<1>11. PoolFitsHolders'
  BY <1>3, <1>5, <1>10, PoolStays
<1> QED BY <1>7, <1>8, <1>9, <1>11 DEF GInv

LEMMA EndKeeps ==
  ASSUME GInv, NEW s \in Streams, G!End(s)
  PROVE  GInv'
<1>1. G!Stream(s)
  BY DEF G!Stream
<1>2. /\ run[s].at = "end" /\ IsInside(s) /\ HasClaim(run[s]) /\ run[s].graph \in Graphs
  BY DEF G!End, GInv, FlagsHaveOwners, IsInside, G!Inside, HasClaim
<1>3. UNCHANGED <<inFlight, lost, queue, stage, bound, binding, open, submissions>>
  BY <1>1, StreamData DEF G!End
<1> DEFINE r == [run[s] EXCEPT !.at = "leave"]
<1>4. run' = [run EXCEPT ![s] = r] /\ pool' = [pool EXCEPT !.inFlight = FALSE]
  BY <1>1, StreamData DEF G!End
<1>5. "leave" \in G!Inside
  BY DEF G!Inside
<1>6. r \in RunRecord /\ r.at = "leave" /\ r.graph = run[s].graph
  BY <1>1, <1>5, RunMoved, StreamData
<1> HIDE DEF r
<1>7. ~HasClaim(r) /\ r.at \in G!Inside /\ r.at \notin {"claim", "end", "running"}
  BY <1>5, <1>6 DEF HasClaim
<1>8. /\ pool' \in PoolRecord /\ pool'.inFlight = FALSE /\ pool'.graphs = pool.graphs
      /\ pool'.closed = pool.closed /\ pool'.bytes = pool.bytes /\ pool'.block = pool.block
  BY <1>1, <1>4, StreamData DEF PoolRecord
<1>9. RunsTyped'
  BY <1>1, <1>3, <1>4, <1>6, <1>8, RunsStayTyped, StreamData
<1>10. FlagsHaveOwners'
  BY <1>2, <1>3, <1>4, <1>6, <1>7, FlagsStay
<1>11. ClaimHasOwner'
  <2>1. run'[s] = r /\ \A t \in Streams : t # s => run'[t] = run[t]
    BY <1>1, <1>4, StreamData
  <2>2. G!Claimed = {t \in Streams : HasClaim(run[t])} /\ G!Claimed' = {t \in Streams : HasClaim(run'[t])}
    BY DEF G!Claimed, HasClaim, G!Shares
  <2>3. \A t \in Streams : HasClaim(run[t]) => t = s
    BY <1>2, <2>2 DEF GInv, ClaimHasOwner
  <2>4. G!Claimed' = {}
    BY <1>7, <2>1, <2>2, <2>3
  <2>5. \A t \in Streams : run'[t].at \in {"claim", "end"} => G!Shares(run'[t].graph)
    BY <1>7, <2>1 DEF GInv, ClaimHasOwner
  <2> QED BY <1>8, <2>4, <2>5 DEF ClaimHasOwner, G!Shares
<1>12. PoolFitsHolders'
  BY <1>3, <1>4, <1>6, <1>7, <1>8, PoolStays
<1> QED BY <1>9, <1>10, <1>11, <1>12 DEF GInv

LEMMA LeaveKeeps ==
  ASSUME GInv, NEW s \in Streams, G!Leave(s)
  PROVE  GInv'
<1>1. G!Stream(s)
  BY DEF G!Stream
<1> DEFINE g == run[s].graph
<1>2. run[s].at = "leave" /\ IsInside(s) /\ ~HasClaim(run[s]) /\ g \in Graphs
  BY DEF G!Leave, GInv, FlagsHaveOwners, IsInside, G!Inside, HasClaim
<1>3. /\ UNCHANGED <<pool, lost, queue, stage, bound, binding, open, submissions>>
      /\ run' = [run EXCEPT ![s] = G!Idle] /\ inFlight' = [inFlight EXCEPT ![g] = FALSE]
  BY <1>1, StreamData DEF G!Leave
<1>4. G!Idle.at \notin G!Inside /\ ~HasClaim(G!Idle)
  BY IdleIsARun DEF G!Inside, HasClaim
<1>5. inFlight' \in [Graphs -> BOOLEAN]
  BY <1>1, <1>3, StreamData
<1>6. RunsTyped'
  BY <1>1, <1>3, <1>5, IdleIsARun, RunsStayTyped, StreamData
<1>7. FlagsHaveOwners'
  <2>1. run'[s] = G!Idle /\ \A t \in Streams : t # s => run'[t] = run[t]
    BY <1>1, <1>3, StreamData
  <2>2. ~IsInside(s)' /\ \A t \in Streams : t # s => (IsInside(t)' <=> IsInside(t))
    BY <1>4, <2>1 DEF IsInside
  <2>3. ~inFlight'[g] /\ \A h \in Graphs : h # g => inFlight'[h] = inFlight[h]
    BY <1>1, <1>2, <1>3, StreamData
  <2>4. \A t \in Streams : t # s /\ IsInside(t) => run[t].graph # g /\ run[t].graph \in Graphs
    BY <1>2 DEF GInv, FlagsHaveOwners, IsInside, G!Inside
  <2>5. \A t, v \in Streams : IsInside(t)' /\ IsInside(v)' /\ run'[t].graph = run'[v].graph => t = v
    BY <2>1, <2>2 DEF GInv, FlagsHaveOwners
  <2>6. \A t \in Streams : run'[t].at # "idle" => run'[t].graph \in Graphs
    BY <2>1, IdleIsARun DEF GInv, FlagsHaveOwners
  <2>7. \A t \in Streams : IsInside(t)' => inFlight'[run'[t].graph] /\ stage'[run'[t].graph] = "built"
    BY <1>3, <2>1, <2>2, <2>3, <2>4 DEF GInv, FlagsHaveOwners
  <2>8. \A h \in Graphs : inFlight'[h] => \E t \in Streams : IsInside(t)' /\ run'[t].graph = h
    BY <2>1, <2>2, <2>3 DEF GInv, FlagsHaveOwners
  <2> QED BY <2>5, <2>6, <2>7, <2>8 DEF FlagsHaveOwners
<1>8. ClaimHasOwner'
  BY <1>2, <1>3, <1>4, IdleIsARun, ClaimStays
<1>9. PoolFitsHolders'
  BY <1>3, IdleIsARun, PoolStays
<1> QED BY <1>6, <1>7, <1>8, <1>9 DEF GInv

LEMMA GStepsKeepInv == G!SubmissionAssumption /\ GInv /\ [G!Next]_G!vars => GInv'
<1> SUFFICES ASSUME G!SubmissionAssumption, GInv, [G!Next]_G!vars PROVE GInv'
  OBVIOUS
<1>1. ASSUME NEW s \in Streams, G!Stream(s) PROVE GInv'
  BY <1>1, StartKeeps, EnterKeeps, ClaimKeeps, ExecutableKeeps, EndKeeps, LeaveKeeps DEF G!Stream
<1>2. CASE UNCHANGED G!vars
  <2>1. RunsTyped'
    BY <1>2 DEF G!vars, GInv, RunsTyped, G!TypeOK
  <2> QED BY <1>2, <2>1, AccountsUntouched DEF G!vars
<1> QED BY <1>1, <1>2, CallsKeepGInv DEF G!Next

\* A set whose members are all the same one counts at most one.
LEMMA AllTheSame ==
  ASSUME NEW S, \A x, y \in S : x = y
  PROVE  Cardinality(S) \in Nat /\ Cardinality(S) =< 1
<1>1. CASE S = {}
  BY <1>1, FS_EmptySet
<1>2. CASE S # {}
  <2>1. PICK x : S = {x}
    BY <1>2
  <2> QED BY <2>1, FS_Singleton
<1> QED BY <1>1, <1>2

\* FiniteSets is the same module under both names.
LEMMA SameCardinality == \A S : G!Cardinality(S) = Cardinality(S)
BY Zenon DEF G!Cardinality, Cardinality

LEMMA GInvImpliesAlone == GInv => G!GraphsRunAlone
<1> SUFFICES ASSUME GInv PROVE G!GraphsRunAlone
  OBVIOUS
<1> DEFINE in(g) == {s \in Streams : run[s].graph = g /\ run[s].at \in G!Inside}
<1>1. ASSUME NEW g \in Graphs
      PROVE  /\ Cardinality(in(g)) =< 1
             /\ inFlight[g] <=> in(g) # {}
             /\ in(g) # {} => stage[g] = "built"
  <2>1. \A s \in Streams : s \in in(g) <=> run[s].graph = g /\ IsInside(s)
    BY DEF IsInside
  <2>2. \A s, t \in in(g) : s = t
    BY <2>1 DEF GInv, FlagsHaveOwners
  <2>3. inFlight[g] <=> in(g) # {}
    BY <2>1 DEF GInv, FlagsHaveOwners
  <2>4. in(g) # {} => stage[g] = "built"
    BY <2>1 DEF GInv, FlagsHaveOwners
  <2> DEFINE S == in(g)
  <2>5. \A s, t \in S : s = t
    BY <2>2
  <2> HIDE DEF S
  <2>6. Cardinality(S) =< 1
    BY <2>5, AllTheSame
  <2> QED BY <2>3, <2>4, <2>6 DEF S
<1> QED BY <1>1, SameCardinality DEF G!GraphsRunAlone

LEMMA GInvImpliesAccounts == GInv => G!AccountsAreExact
<1> SUFFICES ASSUME GInv PROVE G!AccountsAreExact
  OBVIOUS
<1>1. G!TypeOK
  BY DEF GInv, RunsTyped
<1>2. G!ClaimsAreExact
  <2>1. Cardinality(G!Claimed) =< 1
    <3> DEFINE S == G!Claimed
    <3>1. \A s, t \in S : s = t
      BY DEF GInv, ClaimHasOwner
    <3> HIDE DEF S
    <3>2. Cardinality(S) =< 1
      BY <3>1, AllTheSame
    <3> QED BY <3>2 DEF S
  <2> QED BY <2>1, SameCardinality DEF GInv, ClaimHasOwner, G!ClaimsAreExact
<1>3. G!PoolCountsItsGraphs
  <2>1. pool.graphs = Cardinality(Holders)
    BY DEF GInv, PoolFitsHolders
  <2>2. pool.graphs = G!Cardinality(Holders)
    BY <2>1, SameCardinality
  <2> QED BY <2>2, Zenon DEF G!PoolCountsItsGraphs, Holders
<1>4. G!RunningGraphsKeepTheirPool
  <2> SUFFICES ASSUME NEW s \in Streams, run[s].at = "running", G!Shares(run[s].graph)
               PROVE  /\ run[s].block = pool.block /\ ~pool.closed
                      /\ Need[run[s].graph] =< pool.bytes
    BY DEF G!RunningGraphsKeepTheirPool
  <2>1. run[s].graph \in Holders
    BY ClaimedIsHeld DEF IsInside, G!Inside
  <2> QED BY <2>1 DEF GInv, PoolFitsHolders
<1> QED BY <1>1, <1>2, <1>3, <1>4 DEF G!AccountsAreExact

\* For any graphs, streams and pool: a graph's flag is up exactly while one
\* submission is inside it, and it is not closed there, however Build, Bind,
\* Close and the goroutines of several queues interleave (Graph.run, Graph.Close).
THEOREM OneSubmissionPerGraph ==
  ASSUME G!SubmissionAssumption
  PROVE  G!Spec => []GraphsRunAlone
<1>1. GInv => GraphsRunAlone
  BY GInvImpliesAlone DEF GraphsRunAlone
<1> QED BY <1>1, GInitHasInv, GStepsKeepInv, PTL DEF G!Spec

\* And the claim and the count of the shared pool are exact on every path, so
\* that a running graph's transients are not grown away, freed or too small
\* (TransientPool in transientpool.go).
THEOREM PoolIsAccounted ==
  ASSUME G!SubmissionAssumption
  PROVE  G!Spec => []AccountsAreExact
<1>1. GInv => AccountsAreExact
  BY GInvImpliesAccounts DEF AccountsAreExact
<1> QED BY <1>1, GInitHasInv, GStepsKeepInv, PTL DEF G!Spec
=============================================================================
