---------------------------- MODULE Kernels_proofs ----------------------------
(***************************************************************************)
(* For every number of workgroups, workers and claim sizes and every       *)
(* interleaving: a dispatch reports what the serial loop would, and calls  *)
(* no workgroup's body twice.  The report is right although workers stop   *)
(* claiming early, because claims are handed out in order and a claim      *)
(* once made is either finished or cut short by a failure of its own.      *)
(* For every number of invocations, subgroup size and kernel: the order    *)
(* a workgroup's invocations are advanced in does not show.  An epoch is   *)
(* the unit of the argument: what the tracker and the shared elements      *)
(* hold is said of the places of a path and the epochs they belong to.     *)
(* For every schedule of an authored kernel's goroutines, every load and   *)
(* every reduction returns what the scheduler's returned: the round a      *)
(* barrier is in counts the waits behind each of its participants.         *)
(***************************************************************************)
EXTENDS MCKernels, FiniteSetTheorems, SequenceTheorems, WellFoundedInduction, TLAPS

\* The workgroups a worker has claimed and not yet run.
Remaining(w) == IF pc[w] = "run" THEN {g \in Groups : cur[w] =< g /\ g < end[w]} ELSE {}

Recorded(f) ==
  \/ body[f] = "error" /\ (failedAt =< f \/ \E w \in Workers : pc[w] = "error" /\ cur[w] = f)
  \/ body[f] = "panic" /\ (panicAt =< f \/ \E w \in Workers : pc[w] = "panic" /\ cur[w] = f)

\* What a worker in the middle of its loop knows of its own claim.
ClaimsAreSane ==
  \A w \in Workers :
    /\ pc[w] = "run" => cur[w] < end[w] /\ end[w] =< total /\ end[w] =< cursor
    /\ pc[w] \in {"error", "panic", "stop", "unwind"} =>
         cur[w] \in Failing /\ runs[cur[w]] = 1
    /\ pc[w] = "error" => body[cur[w]] = "error"
    /\ pc[w] = "panic" => body[cur[w]] = "panic"

ClaimsAreDisjoint ==
  \A v, w \in Workers : v # w => Remaining(v) \cap Remaining(w) = {}

\* A workgroup that ran was claimed, by nobody who still has it to do.
RanWasClaimed ==
  \A g \in Groups :
    /\ runs[g] \in {0, 1}
    /\ runs[g] = 1 => g < cursor /\ \A w \in Workers : g \notin Remaining(w)

\* A claimed workgroup has run, will run, or is above a failure that ran.
ClaimedIsAccountedFor ==
  \A g \in Groups : g < cursor =>
    \/ runs[g] = 1
    \/ \E w \in Workers : g \in Remaining(w)
    \/ \E f \in Failing : f < g /\ runs[f] = 1

FailuresAreRecorded ==
  /\ \A f \in Failing : runs[f] = 1 => Recorded(f)
  /\ failedAt < total => body[failedAt] = "error"
  /\ panicAt < total => body[panicAt] = "panic"

StopsHaveACause ==
  /\ stopped => \E f \in Failing : runs[f] = 1
  /\ \A w \in Workers : w < pool /\ pc[w] = "done" => stopped \/ total =< cursor

Parallel ==
  /\ \A w \in Workers : pc[w] # "serial"
  /\ ClaimsAreSane /\ ClaimsAreDisjoint /\ RanWasClaimed /\ ClaimedIsAccountedFor
  /\ FailuresAreRecorded /\ StopsHaveACause

\* One worker walks the groups in order; what is behind it ran without failure.
Serial ==
  /\ pc[0] \in {"serial", "done"} /\ \A w \in Workers : w # 0 => pc[w] = "done"
  /\ pc[0] = "done" => report # Pending
  /\ pc[0] = "serial" =>
       /\ cur[0] < total
       /\ \A g \in Groups : IF g < cur[0] THEN runs[g] = 1 /\ body[g] = "ok" ELSE runs[g] = 0

Answered ==
  /\ report # Pending => \A w \in Workers : pc[w] = "done"
  /\ ReportIsTheSerialOne /\ GroupsRunOnce

IInv == /\ TypeOK /\ Answered
        /\ IF pool < 2 THEN Serial ELSE Parallel

-----------------------------------------------------------------------------
USE GridAssumption

\* chunkSize never returns zero: a claim makes progress.
LEMMA ChunksAreNotEmpty == ASSUME TypeOK PROVE ChunkSize \in Nat \ {0}
<1>1. pool * PerWorker \in Nat \ {0}
  <2>1. pool \in Nat \ {0} /\ PerWorker \in Nat \ {0} BY DEF TypeOK
  <2> QED BY <2>1
<1>2. total \in Nat BY DEF TypeOK
<1>3. \A m, n \in Nat : n # 0 => m \div n \in Int OBVIOUS
<1> QED BY <1>1, <1>2, <1>3 DEF ChunkSize, AtLeast1, Smaller

LEMMA InitTyped == Init => TypeOK
<1> SUFFICES ASSUME Init PROVE TypeOK OBVIOUS
<1>1. total \in Totals /\ total \in Nat \ {0} BY DEF Init
<1>2. pool \in 1 .. MaxWorkers
  <2>1. PICK independent \in BOOLEAN, want \in 0 .. MaxWorkers :
          pool = Smaller(WorkerCount(independent, total, want), total)
    BY DEF Init
  <2>2. WorkerCount(independent, total, want) \in 1 .. MaxWorkers BY DEF WorkerCount
  <2> QED BY <1>1, <2>1, <2>2 DEF Smaller
<1>3. pc \in [Workers -> {"serial", "check", "claim", "run", "error", "panic", "stop", "unwind", "done"}]
  BY <1>2 DEF Init
<1>4. body \in [Groups -> {"ok", "error", "panic"}] /\ runs \in [Groups -> Nat]
  BY DEF Init, Groups
<1>5. cur \in [Workers -> Nat] /\ end \in [Workers -> Nat] BY DEF Init
<1>6. cursor \in Nat /\ stopped \in BOOLEAN /\ failedAt \in 0 .. total /\ panicAt \in 0 .. total
  <2>1. cursor = 0 /\ stopped = FALSE /\ failedAt = total /\ panicAt = total BY DEF Init
  <2>2. stopped \in BOOLEAN BY <2>1
  <2>3. total \in 0 .. total BY <1>1
  <2> QED BY <2>1, <2>2, <2>3
<1>7. report \in [kind : {"pending", "ok", "error", "panic"}, at : Nat] BY DEF Init, Pending
<1> QED BY <1>1, <1>2, <1>3, <1>4, <1>5, <1>6, <1>7 DEF TypeOK

LEMMA InitHolds == Init => IInv
<1> SUFFICES ASSUME Init PROVE IInv OBVIOUS
<1>1. TypeOK BY InitTyped
<1>2. \A w \in Workers : Remaining(w) = {}
  BY DEF Init, Remaining
<1>3. Answered
  BY <1>1 DEF Answered, Init, ReportIsTheSerialOne, GroupsRunOnce, Groups
<1>4. CASE pool < 2
  <2>1. pool = 1 /\ 0 \in Workers BY <1>1, <1>4 DEF TypeOK, Workers
  <2>2. Serial BY <1>1, <2>1 DEF Init, Serial, TypeOK, Workers, Groups
  <2> QED BY <1>1, <1>3, <1>4, <2>2 DEF IInv
<1>5. CASE ~(pool < 2)
  <2>1. ClaimsAreSane /\ \A w \in Workers : pc[w] # "serial" BY <1>5 DEF Init, ClaimsAreSane
  <2>2. ClaimsAreDisjoint BY <1>2 DEF ClaimsAreDisjoint
  <2>3. RanWasClaimed BY DEF Init, RanWasClaimed, Groups
  <2>4. ClaimedIsAccountedFor BY DEF Init, ClaimedIsAccountedFor, Groups
  <2>5. FailuresAreRecorded
    <3>1. \A f \in Failing : runs[f] = 0 BY DEF Init, Failing, Groups
    <3>2. total \in Nat BY <1>1 DEF TypeOK
    <3> QED BY <3>1, <3>2 DEF FailuresAreRecorded, Init
  <2>6. StopsHaveACause BY DEF Init, StopsHaveACause
  <2> QED BY <1>1, <1>3, <1>5, <2>1, <2>2, <2>3, <2>4, <2>5, <2>6 DEF IInv, Parallel
<1> QED BY <1>4, <1>5

-----------------------------------------------------------------------------
\* A step of a worker keeps the shapes.
LEMMA WorkerTyped == ASSUME IInv, NEW w \in Workers, Worker(w) PROVE TypeOK'
<1> USE DEF TypeOK, Go, Groups
<1>1. TypeOK BY DEF IInv
<1>2. CASE SerialStep(w)
  <2>1. pc[w] = "serial" => cur[w] \in Groups
    <3>1. pc[w] = "serial" => pool < 2 BY DEF IInv, Parallel
    <3>2. pc[w] = "serial" => w = 0 /\ cur[w] < total BY <3>1 DEF IInv, Serial
    <3> QED BY <1>1, <3>2
  <2>2. cur[w] \in Groups /\ body[cur[w]] \in {"ok", "error", "panic"} BY <1>1, <1>2, <2>1 DEF SerialStep
  <2>3. report' \in [kind : {"pending", "ok", "error", "panic"}, at : Nat]
    BY <1>1, <1>2, <2>2 DEF SerialStep, Success
  <2>4. pc' \in [Workers -> {"serial", "check", "claim", "run", "error", "panic", "stop", "unwind", "done"}]
    BY <1>1, <1>2 DEF SerialStep
  <2>5. cur' \in [Workers -> Nat] /\ runs' \in [Groups -> Nat]
    BY <1>1, <1>2, <2>2 DEF SerialStep, RunBody
  <2> QED BY <1>1, <1>2, <2>3, <2>4, <2>5 DEF SerialStep
<1>3. CASE CheckStop(w) BY <1>1, <1>3 DEF CheckStop
<1>4. CASE Claim(w)
  <2>1. ChunkSize \in Nat \ {0} BY <1>1, ChunksAreNotEmpty
  <2>2. Smaller(cursor + ChunkSize, total) \in Nat BY <1>1, <2>1 DEF Smaller
  <2> QED BY <1>1, <1>4, <2>1, <2>2 DEF Claim
<1>5. CASE Run(w)
  <2>1. cur[w] \in Groups
    <3>1. ~(pool < 2) BY <1>5 DEF IInv, Serial, Run
    <3>2. cur[w] < end[w] /\ end[w] =< total BY <1>5, <3>1 DEF IInv, Parallel, ClaimsAreSane, Run
    <3> QED BY <1>1, <3>2
  <2>2. body[cur[w]] \in {"ok", "error", "panic"} BY <1>1, <2>1
  <2>3. runs' \in [Groups -> Nat] /\ cur' \in [Workers -> Nat] BY <1>1, <1>5, <2>1 DEF Run, RunBody
  <2>4. pc' \in [Workers -> {"serial", "check", "claim", "run", "error", "panic", "stop", "unwind", "done"}]
    <3>1. PICK to \in {"run", "check", "error", "panic"} : pc' = [pc EXCEPT ![w] = to]
      BY <1>5, <2>2 DEF Run
    <3> QED BY <1>1, <3>1
  <2> QED BY <1>1, <1>5, <2>3, <2>4 DEF Run
<1>6. CASE RecordError(w) BY <1>1, <1>6 DEF RecordError, Smaller
<1>7. CASE RecordPanic(w) BY <1>1, <1>7 DEF RecordPanic, Smaller
<1>8. CASE Stop(w) BY <1>1, <1>8 DEF Stop
<1> QED BY <1>2, <1>3, <1>4, <1>5, <1>6, <1>7, <1>8 DEF Worker
-----------------------------------------------------------------------------
\* Nothing moves once the caller has its answer.
LEMMA WorkersRunBeforeTheAnswer ==
  ASSUME IInv, NEW w \in Workers, Worker(w) PROVE report = Pending
<1>1. pc[w] # "done"
  BY DEF Worker, SerialStep, CheckStop, Claim, Run, RecordError, RecordPanic, Stop
<1> QED BY <1>1 DEF IInv, Answered

\* The serial loop answers with the first failure it meets.
LEMMA SerialKept ==
  ASSUME IInv, pool < 2, NEW w \in Workers, Worker(w) PROVE IInv'
<1>1. Serial /\ TypeOK /\ report = Pending BY WorkersRunBeforeTheAnswer DEF IInv
<1>2. w = 0 /\ pc[0] = "serial" /\ SerialStep(0)
  <2>1. w = 0 /\ pc[0] = "serial"
    BY <1>1 DEF Serial, Worker, SerialStep, CheckStop, Claim, Run, RecordError, RecordPanic, Stop
  <2> QED BY <2>1 DEF Worker, CheckStop, Claim, Run, RecordError, RecordPanic, Stop
<1>3. TypeOK' BY WorkerTyped
<1>4. UNCHANGED <<total, body, pool>> /\ Groups' = Groups /\ Failing' = Failing
  BY <1>2 DEF SerialStep, Groups, Failing
<1>5. /\ 0 \in Workers /\ cur[0] \in Groups /\ total \in Nat /\ cur[0] \in Nat
      /\ \A g \in Groups : IF g < cur[0] THEN runs[g] = 1 /\ body[g] = "ok" ELSE runs[g] = 0
  BY <1>1, <1>2 DEF Serial, TypeOK, Groups
<1>6. runs' = [runs EXCEPT ![cur[0]] = @ + 1] /\ runs'[cur[0]] = 1
  BY <1>1, <1>2, <1>5 DEF SerialStep, RunBody, TypeOK
<1>7. \A g \in Groups : g # cur[0] => runs'[g] = runs[g] BY <1>1, <1>6 DEF TypeOK
<1>8. CASE body[cur[0]] # "ok"
  <2>1. report' = [kind |-> body[cur[0]], at |-> cur[0]] /\ pc' = [pc EXCEPT ![0] = "done"]
    BY <1>2, <1>8 DEF SerialStep, Go
  <2>2. \A v \in Workers : pc'[v] = "done" BY <1>1, <2>1 DEF Serial, TypeOK
  <2>3. cur[0] \in Failing /\ \A f \in Failing : cur[0] =< f
    BY <1>5, <1>8 DEF Failing, Groups
  <2>4. ReportIsTheSerialOne'
    <3>1. body'[cur[0]] = body[cur[0]] /\ report'.at = cur[0] /\ report'.kind = body[cur[0]]
      BY <1>4, <2>1
    <3> QED BY <1>4, <2>3, <3>1 DEF ReportIsTheSerialOne
  <2>5. \A g \in Groups : runs'[g] =< 1 BY <1>5, <1>6, <1>7
  <2>6. \A g \in Groups : (\A f \in Failing : g =< f) => runs'[g] = 1
    <3> SUFFICES ASSUME NEW g \in Groups, \A f \in Failing : g =< f PROVE runs'[g] = 1 OBVIOUS
    <3>1. g =< cur[0] BY <2>3
    <3> QED BY <1>5, <1>6, <1>7, <3>1 DEF Groups
  <2>7. report' # Pending
    <3>1. body[cur[0]] # "pending" BY <1>1, <1>5 DEF TypeOK
    <3> QED BY <2>1, <3>1 DEF Pending
  <2>8. Serial' BY <1>5, <2>2, <2>7 DEF Serial
  <2> QED BY <1>3, <1>4, <2>2, <2>4, <2>5, <2>6, <2>8 DEF IInv, Answered, GroupsRunOnce
<1>9. CASE body[cur[0]] = "ok"
  <2>1. /\ cur' = [cur EXCEPT ![0] = @ + 1] /\ cur'[0] = cur[0] + 1
        /\ IF cur[0] + 1 = total THEN report' = Success /\ pc' = [pc EXCEPT ![0] = "done"]
                                  ELSE UNCHANGED <<report, pc>>
    BY <1>1, <1>2, <1>5, <1>9 DEF SerialStep, Go, TypeOK
  <2>2. \A g \in Groups : IF g < cur'[0] THEN runs'[g] = 1 /\ body[g] = "ok" ELSE runs'[g] = 0
    BY <1>5, <1>6, <1>7, <1>9, <2>1 DEF Groups
  <2>3. \A g \in Groups : runs'[g] =< 1 BY <2>2
  <2>4. CASE cur[0] + 1 = total
    <3>1. \A g \in Groups : runs'[g] = 1 /\ body[g] = "ok" BY <1>5, <2>1, <2>2, <2>4 DEF Groups
    <3>2. Failing = {} BY <3>1 DEF Failing
    <3>3. \A v \in Workers : pc'[v] = "done" BY <1>1, <2>1, <2>4 DEF Serial, TypeOK
    <3>4. report' = Success /\ report' # Pending BY <2>1, <2>4 DEF Success, Pending
    <3>5. ReportIsTheSerialOne' BY <1>4, <3>2, <3>4 DEF ReportIsTheSerialOne, Success
    <3>6. Serial' BY <1>5, <3>3, <3>4 DEF Serial
    <3> QED BY <1>3, <1>4, <3>1, <3>3, <3>5, <3>6, <2>3 DEF IInv, Answered, GroupsRunOnce
  <2>5. CASE cur[0] + 1 # total
    <3>1. UNCHANGED <<report, pc>> /\ cur'[0] < total BY <1>5, <2>1, <2>5 DEF Groups
    <3>2. Serial' BY <1>1, <1>2, <1>4, <2>2, <3>1 DEF Serial
    <3>3. Answered' BY <1>1, <1>4, <2>3, <3>1 DEF Answered, ReportIsTheSerialOne, GroupsRunOnce, Pending
    <3> QED BY <1>3, <1>4, <3>2, <3>3 DEF IInv
  <2> QED BY <2>4, <2>5
<1> QED BY <1>8, <1>9
-----------------------------------------------------------------------------
\* A step that leaves the bodies' counts, the cursor and the claims alone keeps
\* everything said about claims.
LEMMA ClaimsUntouched ==
  ASSUME IInv, Parallel, NEW w \in Workers, NEW to \in {"claim", "check", "stop", "unwind", "done"},
         pc[w] \in {"check", "error", "panic", "stop", "unwind"}, pc' = [pc EXCEPT ![w] = to],
         to \in {"stop", "unwind"} => pc[w] \in {"error", "panic"},
         UNCHANGED <<total, body, pool, cursor, cur, end, runs, report>>
  PROVE  /\ \A v \in Workers : pc'[v] # "serial"
         /\ ClaimsAreSane' /\ ClaimsAreDisjoint' /\ RanWasClaimed' /\ ClaimedIsAccountedFor'
<1>1. TypeOK BY DEF IInv
<1>2. pc'[w] = to /\ \A v \in Workers : v # w => pc'[v] = pc[v] BY <1>1 DEF TypeOK
<1>3. Groups' = Groups /\ Failing' = Failing BY DEF Groups, Failing
<1>4. \A v \in Workers : Remaining(v)' = Remaining(v) BY <1>2, <1>3 DEF Remaining
<1>5. \A v \in Workers : pc'[v] # "serial" BY <1>2 DEF Parallel
<1>6. ClaimsAreSane' BY <1>2, <1>3 DEF Parallel, ClaimsAreSane
<1>7. ClaimsAreDisjoint' BY <1>4 DEF Parallel, ClaimsAreDisjoint
<1>8. RanWasClaimed' BY <1>3, <1>4 DEF Parallel, RanWasClaimed
<1>9. ClaimedIsAccountedFor' BY <1>3, <1>4 DEF Parallel, ClaimedIsAccountedFor
<1> QED BY <1>5, <1>6, <1>7, <1>8, <1>9

\* A worker leaves for the stop, or goes on to claim.
LEMMA CheckStopKept ==
  ASSUME IInv, Parallel, NEW w \in Workers, CheckStop(w), report = Pending PROVE Parallel'
<1>1. TypeOK BY DEF IInv
<1>2. PICK to \in {"claim", "done"} : pc' = [pc EXCEPT ![w] = to] /\ (to = "done" => stopped)
  BY DEF CheckStop, Go
<1>3. /\ \A v \in Workers : pc'[v] # "serial"
      /\ ClaimsAreSane' /\ ClaimsAreDisjoint' /\ RanWasClaimed' /\ ClaimedIsAccountedFor'
  BY <1>2, ClaimsUntouched DEF CheckStop
<1>4. pc'[w] = to /\ \A v \in Workers : v # w => pc'[v] = pc[v] BY <1>1, <1>2 DEF TypeOK
<1>5. Failing' = Failing BY DEF CheckStop, Failing, Groups
<1>6. FailuresAreRecorded'
  <2>1. \A f \in Failing : Recorded(f) => Recorded(f)'
    BY <1>4 DEF CheckStop, Recorded
  <2> QED BY <1>5, <2>1 DEF Parallel, FailuresAreRecorded, CheckStop
<1>7. StopsHaveACause' BY <1>2, <1>4, <1>5 DEF Parallel, StopsHaveACause, CheckStop
<1> QED BY <1>3, <1>6, <1>7 DEF Parallel

\* The next chunk is disjoint from every earlier claim, which ended below the cursor.
LEMMA ClaimKept ==
  ASSUME IInv, Parallel, NEW w \in Workers, Claim(w), report = Pending PROVE Parallel'
<1> DEFINE next == Smaller(cursor + ChunkSize, total)
<1>1. TypeOK /\ ChunkSize \in Nat \ {0} BY ChunksAreNotEmpty DEF IInv
<1>2. PICK to \in {"run", "done"} :
        pc' = [pc EXCEPT ![w] = to] /\ to = (IF cursor < total THEN "run" ELSE "done")
  BY DEF Claim, Go
<1>3. pc'[w] = to /\ \A v \in Workers : v # w => pc'[v] = pc[v] BY <1>1, <1>2 DEF TypeOK
<1>4. /\ cur'[w] = cursor /\ end'[w] = next
      /\ \A v \in Workers : v # w => cur'[v] = cur[v] /\ end'[v] = end[v]
  BY <1>1 DEF Claim, TypeOK
<1>5. /\ cursor \in Nat /\ total \in Nat /\ cursor' = cursor + ChunkSize
      /\ next \in Nat /\ next =< total /\ next =< cursor' /\ (cursor < total => cursor < next)
  BY <1>1 DEF Claim, TypeOK, Smaller
<1>6. Groups' = Groups /\ Failing' = Failing /\ runs' = runs /\ body' = body /\ total' = total
  BY DEF Claim, Groups, Failing
<1>7. /\ Remaining(w) = {} /\ \A v \in Workers : v # w => Remaining(v)' = Remaining(v)
      /\ Remaining(w)' = {g \in Groups : cursor < total /\ cursor =< g /\ g < next}
  BY <1>2, <1>3, <1>4, <1>6 DEF Remaining, Claim
<1>8. \A v \in Workers : \A g \in Remaining(v) : g < cursor
  <2>1. \A v \in Workers : pc[v] = "run" => end[v] =< cursor BY DEF Parallel, ClaimsAreSane
  <2>2. \A v \in Workers : end[v] \in Nat BY <1>1 DEF TypeOK
  <2> QED BY <1>5, <2>1, <2>2 DEF Remaining, Groups
<1>9. \A v \in Workers : pc'[v] # "serial" BY <1>3 DEF Parallel
<1>10. ClaimsAreSane'
  <2>1. \A v \in Workers : v # w /\ pc[v] = "run" => end[v] =< cursor'
    <3>1. \A v \in Workers : end[v] \in Nat BY <1>1 DEF TypeOK
    <3>2. \A v \in Workers : pc[v] = "run" => end[v] =< cursor BY DEF Parallel, ClaimsAreSane
    <3> QED BY <1>1, <1>5, <3>1, <3>2
  <2>2. pc'[w] = "run" => cur'[w] < end'[w] /\ end'[w] =< total' /\ end'[w] =< cursor'
    BY <1>2, <1>3, <1>4, <1>5, <1>6
  <2> QED BY <1>3, <1>4, <1>6, <2>1, <2>2 DEF Parallel, ClaimsAreSane
<1>11. ClaimsAreDisjoint'
  <2>1. \A v \in Workers : v # w => Remaining(v)' \cap Remaining(w)' = {}
    BY <1>5, <1>7, <1>8 DEF Groups
  <2> QED BY <1>7, <2>1 DEF Parallel, ClaimsAreDisjoint
<1>12. RanWasClaimed'
  <2>1. \A g \in Groups : runs[g] = 1 => g < cursor BY DEF Parallel, RanWasClaimed
  <2>2. \A g \in Groups : runs[g] = 1 => g < cursor' BY <1>1, <1>5, <2>1 DEF Groups
  <2>3. \A g \in Groups : runs[g] = 1 => g \notin Remaining(w)' BY <1>5, <1>7, <2>1 DEF Groups
  <2> QED BY <1>6, <1>7, <2>2, <2>3 DEF Parallel, RanWasClaimed
<1>13. ClaimedIsAccountedFor'
  <2> SUFFICES ASSUME NEW g \in Groups, g < cursor'
               PROVE  \/ runs[g] = 1 \/ \E v \in Workers : g \in Remaining(v)'
                      \/ \E f \in Failing : f < g /\ runs[f] = 1
    BY <1>6 DEF ClaimedIsAccountedFor
  <2>1. CASE g < cursor
    <3>1. \A v \in Workers : g \in Remaining(v) => g \in Remaining(v)' BY <1>7
    <3> QED BY <2>1, <3>1 DEF Parallel, ClaimedIsAccountedFor
  <2>2. CASE ~(g < cursor)
    <3>1. g < next BY <1>5, <1>1, <2>2 DEF Smaller, Groups
    <3>2. g \in Remaining(w)' BY <1>5, <1>7, <2>2, <3>1 DEF Groups
    <3> QED BY <3>2
  <2> QED BY <2>1, <2>2
<1>14. FailuresAreRecorded'
  <2>1. \A f \in Failing : Recorded(f) => Recorded(f)'
    BY <1>3, <1>4, <1>6 DEF Claim, Recorded
  <2> QED BY <1>6, <2>1 DEF Parallel, FailuresAreRecorded, Claim
<1>15. StopsHaveACause'
  <2>1. to = "done" => total =< cursor' BY <1>1, <1>2, <1>5
  <2>2. total =< cursor => total =< cursor' BY <1>1, <1>5
  <2> QED BY <1>3, <1>6, <2>1, <2>2 DEF Parallel, StopsHaveACause, Claim
<1> QED BY <1>9, <1>10, <1>11, <1>12, <1>13, <1>14, <1>15 DEF Parallel

\* A workgroup runs: its claim shrinks, or ends there if it failed.
LEMMA RunKept ==
  ASSUME IInv, Parallel, NEW w \in Workers, Run(w), report = Pending PROVE Parallel'
<1> DEFINE c == cur[w]
<1>1. TypeOK BY DEF IInv
<1>2. /\ c \in Groups /\ c < end[w] /\ end[w] =< total /\ end[w] =< cursor
      /\ c \in Nat /\ end[w] \in Nat /\ total \in Nat /\ cursor \in Nat
  BY <1>1 DEF Run, Parallel, ClaimsAreSane, TypeOK, Groups
<1>3. body[c] \in {"ok", "error", "panic"} BY <1>1, <1>2 DEF TypeOK
<1>4. PICK to \in {"run", "check", "error", "panic"} :
        /\ pc' = [pc EXCEPT ![w] = to]
        /\ to = (IF body[c] = "ok" THEN (IF c + 1 < end[w] THEN "run" ELSE "check") ELSE body[c])
  BY <1>3 DEF Run, Go
<1>5. pc'[w] = to /\ \A v \in Workers : v # w => pc'[v] = pc[v] BY <1>1, <1>4 DEF TypeOK
<1>6. /\ cur'[w] = (IF body[c] = "ok" THEN c + 1 ELSE c)
      /\ \A v \in Workers : v # w => cur'[v] = cur[v]
  BY <1>1, <1>2 DEF Run, TypeOK
<1>7. Groups' = Groups /\ Failing' = Failing /\ total' = total /\ body' = body
      /\ end' = end /\ cursor' = cursor
  BY DEF Run, Groups, Failing
<1>8. c \in Remaining(w) BY <1>2 DEF Run, Remaining
<1>9. runs[c] = 0 BY <1>2, <1>8 DEF Parallel, RanWasClaimed
<1>10. runs'[c] = 1 /\ \A g \in Groups : g # c => runs'[g] = runs[g]
  BY <1>1, <1>2, <1>9 DEF Run, RunBody, TypeOK
<1>11. \A v \in Workers : v # w => Remaining(v)' = Remaining(v) /\ c \notin Remaining(v)
  <2>1. \A v \in Workers : v # w => Remaining(v)' = Remaining(v) BY <1>5, <1>6, <1>7 DEF Remaining
  <2>2. \A v \in Workers : v # w => c \notin Remaining(v) BY <1>8 DEF Parallel, ClaimsAreDisjoint
  <2> QED BY <2>1, <2>2
<1>12. \A g \in Remaining(w)' : g \in Remaining(w) /\ g # c
  <2> SUFFICES ASSUME NEW g \in Remaining(w)' PROVE g \in Remaining(w) /\ g # c OBVIOUS
  <2>1. pc'[w] = "run" /\ cur'[w] = c + 1 /\ end'[w] = end[w]
    BY <1>3, <1>4, <1>5, <1>6, <1>7 DEF Remaining
  <2>2. g \in Groups /\ g \in Nat /\ c + 1 =< g /\ g < end[w] BY <1>2, <1>7, <2>1 DEF Remaining, Groups
  <2> QED BY <1>2, <2>2 DEF Remaining, Run
<1>13. body[c] = "ok" => \A g \in Remaining(w) : g # c => g \in Remaining(w)'
  <2> SUFFICES ASSUME body[c] = "ok", NEW g \in Remaining(w), g # c PROVE g \in Remaining(w)' OBVIOUS
  <2>1. g \in Groups /\ g \in Nat /\ c < g /\ g < end[w] BY <1>2 DEF Remaining, Run, Groups
  <2>2. pc'[w] = "run" /\ cur'[w] =< g /\ end'[w] = end[w] BY <1>2, <1>4, <1>5, <1>6, <1>7, <2>1
  <2> QED BY <1>7, <2>1, <2>2 DEF Remaining
<1>14. \A v \in Workers : pc'[v] # "serial" BY <1>5 DEF Parallel
<1>15. ClaimsAreSane'
  <2>1. pc'[w] = "run" => cur'[w] < end'[w] /\ end'[w] =< total' /\ end'[w] =< cursor'
    BY <1>2, <1>4, <1>5, <1>6, <1>7
  <2>2. pc'[w] \in {"error", "panic", "stop", "unwind"} =>
          cur'[w] = c /\ body[c] = pc'[w] /\ cur'[w] \in Failing /\ runs'[cur'[w]] = 1
    BY <1>2, <1>3, <1>4, <1>5, <1>6, <1>10 DEF Failing
  <2>3. \A v \in Workers : v # w /\ pc[v] \in {"error", "panic", "stop", "unwind"} => runs'[cur[v]] = 1
    <3>1. \A v \in Workers : pc[v] \in {"error", "panic", "stop", "unwind"} =>
            cur[v] \in Groups /\ runs[cur[v]] = 1
      BY DEF Parallel, ClaimsAreSane, Failing
    <3> QED BY <1>9, <1>10, <3>1
  <2> QED BY <1>5, <1>6, <1>7, <2>1, <2>2, <2>3 DEF Parallel, ClaimsAreSane
<1>16. ClaimsAreDisjoint' BY <1>11, <1>12 DEF Parallel, ClaimsAreDisjoint
<1>17. RanWasClaimed'
  <2>1. c < cursor' /\ \A v \in Workers : c \notin Remaining(v)' BY <1>2, <1>7, <1>11, <1>12
  <2>2. \A v \in Workers : Remaining(v)' \subseteq Remaining(v) BY <1>11, <1>12
  <2>3. \A g \in Groups : g # c =>
          /\ runs'[g] \in {0, 1}
          /\ runs'[g] = 1 => g < cursor' /\ \A v \in Workers : g \notin Remaining(v)'
    BY <1>7, <1>10, <2>2 DEF Parallel, RanWasClaimed
  <2> QED BY <1>7, <1>10, <2>1, <2>3 DEF RanWasClaimed
<1>18. ClaimedIsAccountedFor'
  <2> SUFFICES ASSUME NEW g \in Groups, g < cursor, g # c, runs[g] # 1
               PROVE  \/ \E v \in Workers : g \in Remaining(v)'
                      \/ \E f \in Failing : f < g /\ runs'[f] = 1
    BY <1>7, <1>10 DEF ClaimedIsAccountedFor
  <2>1. \/ \E v \in Workers : g \in Remaining(v)
        \/ \E f \in Failing : f < g /\ runs[f] = 1
    BY DEF Parallel, ClaimedIsAccountedFor
  <2>2. CASE g \in Remaining(w)
    <3>1. CASE body[c] = "ok" BY <1>13, <2>2, <3>1
    <3>2. CASE body[c] # "ok"
      <4>1. c \in Failing /\ c < g BY <1>2, <2>2, <3>2 DEF Failing, Remaining, Groups
      <4> QED BY <1>10, <4>1
    <3> QED BY <3>1, <3>2
  <2>3. CASE \E v \in Workers : v # w /\ g \in Remaining(v) BY <1>11, <2>3
  <2>4. CASE \E f \in Failing : f < g /\ runs[f] = 1
    <3>1. PICK f \in Failing : f < g /\ runs[f] = 1 BY <2>4
    <3>2. runs'[f] = 1 BY <1>10, <3>1 DEF Failing
    <3> QED BY <3>1, <3>2
  <2> QED BY <2>1, <2>2, <2>3, <2>4
<1>19. FailuresAreRecorded'
  <2>1. failedAt' = failedAt /\ panicAt' = panicAt /\ pc[w] = "run" BY DEF Run
  <2>2. \A f \in Failing : Recorded(f) => Recorded(f)'
    BY <1>5, <1>6, <1>7, <2>1 DEF Recorded
  <2>3. ASSUME NEW f \in Failing, f = c PROVE Recorded(f)'
    <3>1. pc'[w] = body[f] /\ cur'[w] = f /\ body[f] \in {"error", "panic"}
      BY <1>3, <1>4, <1>5, <1>6, <2>3 DEF Failing
    <3> QED BY <1>7, <3>1 DEF Recorded
  <2>4. \A f \in Failing : runs'[f] = 1 => Recorded(f)'
    <3> SUFFICES ASSUME NEW f \in Failing, runs'[f] = 1 PROVE Recorded(f)' OBVIOUS
    <3>1. CASE f = c BY <2>3, <3>1
    <3>2. CASE f # c
      <4>1. runs[f] = 1 BY <1>10, <3>2 DEF Failing
      <4> QED BY <2>2, <4>1 DEF Parallel, FailuresAreRecorded
    <3> QED BY <3>1, <3>2
  <2> QED BY <1>7, <2>1, <2>4 DEF Parallel, FailuresAreRecorded
<1>20. StopsHaveACause'
  <2>1. \A f \in Failing : runs[f] = 1 => runs'[f] = 1 BY <1>10 DEF Failing
  <2> QED BY <1>4, <1>5, <1>7, <2>1 DEF Parallel, StopsHaveACause, Run
<1> QED BY <1>14, <1>15, <1>16, <1>17, <1>18, <1>19, <1>20 DEF Parallel
\* The lowest failure of each kind stays recorded.
LEMMA RecordKept ==
  ASSUME IInv, Parallel, NEW w \in Workers, RecordError(w) \/ RecordPanic(w), report = Pending
  PROVE  Parallel'
<1>1. TypeOK BY DEF IInv
<1>2. PICK to \in {"stop", "unwind"} : pc' = [pc EXCEPT ![w] = to] BY DEF RecordError, RecordPanic, Go
<1>3. /\ \A v \in Workers : pc'[v] # "serial"
      /\ ClaimsAreSane' /\ ClaimsAreDisjoint' /\ RanWasClaimed' /\ ClaimedIsAccountedFor'
  BY <1>2, ClaimsUntouched DEF RecordError, RecordPanic
<1>4. pc'[w] = to /\ \A v \in Workers : v # w => pc'[v] = pc[v] BY <1>1, <1>2 DEF TypeOK
<1>5. Failing' = Failing /\ body' = body /\ runs' = runs /\ total' = total /\ cur' = cur
  BY DEF RecordError, RecordPanic, Failing, Groups
<1>6. /\ total \in Nat /\ failedAt \in Nat /\ panicAt \in Nat /\ cur[w] \in Nat
      /\ \A f \in Failing : f \in Nat
  BY <1>1 DEF TypeOK, Failing, Groups
<1>7. FailuresAreRecorded'
  <2>1. CASE RecordError(w)
    <3>1. /\ pc[w] = "error" /\ body[cur[w]] = "error" /\ panicAt' = panicAt
          /\ failedAt' \in {cur[w], failedAt} /\ failedAt' =< cur[w] /\ failedAt' =< failedAt
      BY <1>6, <2>1 DEF RecordError, Smaller, Parallel, ClaimsAreSane
    <3>2. \A f \in Failing : Recorded(f) => Recorded(f)'
      <4> SUFFICES ASSUME NEW f \in Failing, Recorded(f) PROVE Recorded(f)' OBVIOUS
      <4>1. CASE body[f] = "error" /\ failedAt =< f BY <1>5, <1>6, <3>1, <4>1 DEF Recorded
      <4>2. CASE body[f] = "error" /\ ~(failedAt =< f)
        <5>1. PICK v \in Workers : pc[v] = "error" /\ cur[v] = f BY <4>2 DEF Recorded
        <5> QED BY <1>4, <1>5, <3>1, <4>2, <5>1 DEF Recorded
      <4>3. CASE body[f] = "panic" BY <1>4, <1>5, <3>1, <4>3 DEF Recorded
      <4> QED BY <4>1, <4>2, <4>3 DEF Recorded
    <3> QED BY <1>5, <3>1, <3>2 DEF Parallel, FailuresAreRecorded
  <2>2. CASE RecordPanic(w)
    <3>1. /\ pc[w] = "panic" /\ body[cur[w]] = "panic" /\ failedAt' = failedAt
          /\ panicAt' \in {cur[w], panicAt} /\ panicAt' =< cur[w] /\ panicAt' =< panicAt
      BY <1>6, <2>2 DEF RecordPanic, Smaller, Parallel, ClaimsAreSane
    <3>2. \A f \in Failing : Recorded(f) => Recorded(f)'
      <4> SUFFICES ASSUME NEW f \in Failing, Recorded(f) PROVE Recorded(f)' OBVIOUS
      <4>1. CASE body[f] = "panic" /\ panicAt =< f BY <1>5, <1>6, <3>1, <4>1 DEF Recorded
      <4>2. CASE body[f] = "panic" /\ ~(panicAt =< f)
        <5>1. PICK v \in Workers : pc[v] = "panic" /\ cur[v] = f BY <4>2 DEF Recorded
        <5> QED BY <1>4, <1>5, <3>1, <4>2, <5>1 DEF Recorded
      <4>3. CASE body[f] = "error" BY <1>4, <1>5, <3>1, <4>3 DEF Recorded
      <4> QED BY <4>1, <4>2, <4>3 DEF Recorded
    <3> QED BY <1>5, <3>1, <3>2 DEF Parallel, FailuresAreRecorded
  <2> QED BY <2>1, <2>2
<1>8. StopsHaveACause'
  BY <1>2, <1>4, <1>5 DEF Parallel, StopsHaveACause, RecordError, RecordPanic
<1> QED BY <1>3, <1>7, <1>8 DEF Parallel

\* The stop is raised by a worker whose workgroup failed.
LEMMA StopKept ==
  ASSUME IInv, Parallel, NEW w \in Workers, Stop(w), report = Pending PROVE Parallel'
<1>1. TypeOK BY DEF IInv
<1>2. PICK to \in {"check", "done"} : pc' = [pc EXCEPT ![w] = to] BY DEF Stop, Go
<1>3. /\ \A v \in Workers : pc'[v] # "serial"
      /\ ClaimsAreSane' /\ ClaimsAreDisjoint' /\ RanWasClaimed' /\ ClaimedIsAccountedFor'
  BY <1>2, ClaimsUntouched DEF Stop
<1>4. pc'[w] = to /\ \A v \in Workers : v # w => pc'[v] = pc[v] BY <1>1, <1>2 DEF TypeOK
<1>5. Failing' = Failing BY DEF Stop, Failing, Groups
<1>6. FailuresAreRecorded'
  <2>1. \A f \in Failing : Recorded(f) => Recorded(f)' BY <1>4 DEF Stop, Recorded
  <2> QED BY <1>5, <2>1 DEF Parallel, FailuresAreRecorded, Stop
<1>7. cur[w] \in Failing /\ runs[cur[w]] = 1 BY DEF Stop, Parallel, ClaimsAreSane
<1>8. StopsHaveACause' BY <1>5, <1>7 DEF StopsHaveACause, Stop
<1> QED BY <1>3, <1>6, <1>8 DEF Parallel

\* Every worker is gone: whatever was not claimed lies above a failure that was
\* recorded, and so does whatever was claimed and cut short.
LEMMA FinishKept == ASSUME IInv, Finish PROVE IInv'
<1> DEFINE lowest == IF panicAt < failedAt THEN panicAt ELSE failedAt
<1>1. TypeOK /\ \A w \in Workers : pc[w] = "done" BY DEF IInv, Finish
<1>2. 0 \in Workers /\ 0 < pool /\ total \in Nat /\ failedAt \in 0 .. total /\ panicAt \in 0 .. total
  BY <1>1 DEF TypeOK, Workers
<1>3. pool >= 2 /\ Parallel
  <2>1. ~(pool < 2) BY <1>1, <1>2 DEF IInv, Serial, Finish
  <2> QED BY <1>1, <2>1 DEF IInv, TypeOK
<1>4. \A f \in Failing : runs[f] = 1 => lowest =< f
  <2>1. \A f \in Failing : runs[f] = 1 => failedAt =< f \/ panicAt =< f
    BY <1>1, <1>3 DEF Parallel, FailuresAreRecorded, Recorded
  <2> QED BY <1>2, <2>1 DEF Failing, Groups
<1>5. \A g \in Groups : runs[g] = 1 \/ \E f \in Failing : f < g /\ runs[f] = 1
  <2> SUFFICES ASSUME NEW g \in Groups, runs[g] # 1 PROVE \E f \in Failing : f < g /\ runs[f] = 1
    OBVIOUS
  <2>1. \A w \in Workers : Remaining(w) = {} BY <1>1 DEF Remaining
  <2>2. CASE g < cursor BY <1>3, <2>1, <2>2 DEF Parallel, ClaimedIsAccountedFor
  <2>3. CASE ~(g < cursor)
    <3>1. stopped
      <4>1. stopped \/ total =< cursor BY <1>1, <1>2, <1>3 DEF Parallel, StopsHaveACause
      <4>2. ~(total =< cursor) BY <1>1, <1>2, <2>3 DEF TypeOK, Groups
      <4> QED BY <4>1, <4>2
    <3>2. PICK f \in Failing : runs[f] = 1 BY <1>3, <3>1 DEF Parallel, StopsHaveACause
    <3>3. f < cursor BY <1>3, <3>2 DEF Parallel, RanWasClaimed, Failing
    <3>4. f < g BY <1>1, <2>3, <3>3 DEF TypeOK, Failing, Groups
    <3> QED BY <3>2, <3>4
  <2> QED BY <2>2, <2>3
<1>6. \A f \in Failing : lowest =< f
  <2> SUFFICES ASSUME NEW f \in Failing PROVE lowest =< f OBVIOUS
  <2>1. CASE runs[f] = 1 BY <1>4, <2>1
  <2>2. CASE \E e \in Failing : e < f /\ runs[e] = 1
    <3>1. PICK e \in Failing : e < f /\ runs[e] = 1 BY <2>2
    <3>2. lowest =< e BY <1>4, <3>1
    <3> QED BY <1>2, <3>1, <3>2 DEF Failing, Groups
  <2> QED BY <1>5, <2>1, <2>2 DEF Failing
<1>7. lowest < total =>
        /\ lowest \in Failing
        /\ report' = [kind |-> body[lowest], at |-> lowest]
  <2>1. CASE panicAt < failedAt
    <3>1. body[panicAt] = "panic" /\ panicAt \in Groups
      BY <1>2, <1>3, <2>1 DEF Parallel, FailuresAreRecorded, Groups
    <3> QED BY <2>1, <3>1 DEF Failing, Finish
  <2>2. CASE ~(panicAt < failedAt)
    <3> SUFFICES ASSUME failedAt < total
                 PROVE  failedAt \in Failing /\ report' = [kind |-> body[failedAt], at |-> failedAt]
      BY <2>2
    <3>1. body[failedAt] = "error" /\ failedAt \in Groups
      BY <1>2, <1>3 DEF Parallel, FailuresAreRecorded, Groups
    <3> QED BY <2>2, <3>1 DEF Failing, Finish
  <2> QED BY <2>1, <2>2
<1>8. lowest >= total => Failing = {} /\ report' = Success
  <2>1. lowest >= total => Failing = {} BY <1>2, <1>6 DEF Failing, Groups
  <2>2. lowest >= total => ~(panicAt < failedAt) /\ ~(failedAt < total) BY <1>2
  <2> QED BY <2>1, <2>2 DEF Finish
<1>9. lowest < total \/ lowest >= total BY <1>2
<1>10. Groups' = Groups /\ Failing' = Failing /\ runs' = runs /\ body' = body
  BY DEF Finish, Groups, Failing
<1>11. report' # Pending /\ report' \in [kind : {"pending", "ok", "error", "panic"}, at : Nat]
  <2>1. CASE lowest < total
    <3>1. lowest \in Nat /\ body[lowest] \in {"error", "panic"}
      BY <1>1, <1>2, <1>7, <2>1 DEF Failing, TypeOK
    <3> QED BY <1>7, <2>1, <3>1 DEF Pending
  <2>2. CASE lowest >= total BY <1>8, <2>2 DEF Success, Pending
  <2> QED BY <1>9, <2>1, <2>2
<1>12. ReportIsTheSerialOne'
  <2>1. CASE lowest < total
    <3>1. report'.at = lowest /\ report'.kind = body[lowest] BY <1>7, <2>1
    <3> QED BY <1>6, <1>7, <1>10, <2>1, <3>1 DEF ReportIsTheSerialOne
  <2>2. CASE lowest >= total BY <1>8, <1>10, <2>2 DEF ReportIsTheSerialOne, Success
  <2> QED BY <1>9, <2>1, <2>2
<1>13. GroupsRunOnce'
  <2>1. \A g \in Groups : runs[g] =< 1 BY DEF IInv, Answered, GroupsRunOnce
  <2>2. ASSUME NEW g \in Groups, \A f \in Failing : g =< f PROVE runs[g] = 1
    <3>1. \A f \in Failing : ~(f < g) BY <1>2, <2>2 DEF Failing, Groups
    <3> QED BY <1>5, <3>1
  <2> QED BY <1>10, <2>1, <2>2 DEF GroupsRunOnce
<1>14. TypeOK' BY <1>1, <1>10, <1>11 DEF TypeOK, Finish
<1>15. Answered' BY <1>1, <1>12, <1>13 DEF Answered, Finish
<1>16. Parallel'
  <2>1. \A w \in Workers : Remaining(w)' = Remaining(w) BY <1>10 DEF Remaining, Finish
  <2>2. \A f \in Failing : Recorded(f)' = Recorded(f) BY <1>10 DEF Recorded, Finish
  <2> QED BY <1>3, <1>10, <2>1, <2>2
       DEF Parallel, ClaimsAreSane, ClaimsAreDisjoint, RanWasClaimed, ClaimedIsAccountedFor,
           FailuresAreRecorded, StopsHaveACause, Finish
<1>17. ~(pool' < 2) BY <1>1, <1>3 DEF Finish, TypeOK
<1> QED BY <1>14, <1>15, <1>16, <1>17 DEF IInv

LEMMA ParallelKept ==
  ASSUME IInv, ~(pool < 2), NEW w \in Workers, Worker(w) PROVE IInv'
<1>1. Parallel /\ report = Pending /\ ~SerialStep(w) /\ TypeOK'
  BY WorkersRunBeforeTheAnswer, WorkerTyped DEF IInv, Parallel, SerialStep
<1>2. Parallel'
  BY <1>1, CheckStopKept, ClaimKept, RunKept, RecordKept, StopKept DEF Worker
<1>3. pool' = pool /\ report' = report
  BY <1>1 DEF Worker, CheckStop, Claim, Run, RecordError, RecordPanic, Stop
<1>4. GroupsRunOnce'
  <2>1. \A g \in Groups' : runs'[g] \in {0, 1} BY <1>2 DEF Parallel, RanWasClaimed
  <2> QED BY <1>1, <1>3, <2>1 DEF GroupsRunOnce, Pending
<1>5. Answered' BY <1>1, <1>3, <1>4 DEF Answered, ReportIsTheSerialOne, Pending
<1> QED BY <1>1, <1>2, <1>3, <1>5 DEF IInv

LEMMA Unchanged == ASSUME IInv, UNCHANGED vars PROVE IInv'
<1>1. Groups' = Groups /\ Failing' = Failing BY DEF vars, Groups, Failing
<1>2. \A w \in Workers : Remaining(w)' = Remaining(w) BY <1>1 DEF vars, Remaining
<1>3. \A f \in Failing : Recorded(f)' = Recorded(f) BY DEF vars, Recorded
<1>4. TypeOK' BY <1>1 DEF IInv, TypeOK, vars
<1>5. Answered' BY <1>1 DEF IInv, Answered, ReportIsTheSerialOne, GroupsRunOnce, Pending, vars
<1>6. Serial => Serial' BY <1>1 DEF Serial, vars, Pending
<1>7. Parallel => Parallel'
  BY <1>1, <1>2, <1>3 DEF Parallel, ClaimsAreSane, ClaimsAreDisjoint, RanWasClaimed,
     ClaimedIsAccountedFor, FailuresAreRecorded, StopsHaveACause, vars
<1> QED BY <1>4, <1>5, <1>6, <1>7 DEF IInv, vars

\* The invariant, from which the theorems below are read off.
LEMMA Invariance == Spec => []IInv
<1>1. ASSUME IInv, [Next]_vars PROVE IInv'
  BY <1>1, FinishKept, SerialKept, ParallelKept, Unchanged DEF Next
<1> QED BY InitHolds, <1>1, PTL DEF Spec

\* The caller gets the failure the serial loop would have stopped at, for every
\* grid, number of workers, claim size and interleaving (runGrid).
THEOREM ReportIsSerial == Spec => []ReportIsTheSerialOne
<1>1. IInv => ReportIsTheSerialOne BY DEF IInv, Answered
<1> QED BY <1>1, Invariance, PTL

\* No workgroup is run twice, and none the serial loop would have run is left out.
THEOREM EveryGroupRunsOnce == Spec => []GroupsRunOnce
<1>1. IInv => GroupsRunOnce BY DEF IInv, Answered
<1> QED BY <1>1, Invariance, PTL

\* The variables keep their shapes.
THEOREM TypeCorrect == Spec => []TypeOK
<1>1. IInv => TypeOK BY DEF IInv
<1> QED BY <1>1, Invariance, PTL

-----------------------------------------------------------------------------
\* Paths, counted from one, and what of a program an invocation has behind it.
Place(p, q) == q = <<q[1], q[2]>> /\ q[1] \in Group!Invocations /\ q[2] \in 1 .. Len(p[q[1]])
Epoch(p, i, k) == Group!EpochOf(p, <<i, k>>)
Num(p, i, k, ops) == Cardinality({m \in 1 .. k - 1 : p[i][m].op \in ops})
Results(p, i, k) == Num(p, i, k, {"read", "combine"})

Accessed(p) ==
  {q \in Group!Places(p) : q[2] < pos[q[1]] /\ Group!IsAccess(Group!At(p, q))}
Written(p, x) == {q \in Accessed(p) : Group!At(p, q) = [op |-> "write", at |-> x]}
InWindow(p, x, e) ==
  {q \in Accessed(p) : Group!At(p, q).at = x /\ Group!EpochOf(p, q) = e}

Latest(p, q, places) ==
  /\ q \in places
  /\ \A r \in places :
       \/ Group!EpochOf(p, r) < Group!EpochOf(p, q)
       \/ Group!EpochOf(p, r) = Group!EpochOf(p, q) /\ r[2] =< q[2]

\* A workgroup of program p is in its epoch e: who still runs is exactly at it.
Frame(p, e) ==
  /\ \A i, j \in running : i = j
  /\ \A i \in Group!Invocations :
       /\ i \notin done => Epoch(p, i, pos[i]) = e
       /\ i \in done =>
            pos[i] = Len(p[i]) + 1 /\ Epoch(p, i, pos[i]) =< e /\ i \notin turn \union running
       /\ i \in turn => i \notin running /\ \A q \in Accessed(p) : q[1] = i => Group!EpochOf(p, q) < e
       /\ i \notin done \union turn \union running =>
            pos[i] =< Len(p[i]) /\ ~Group!IsAccess(p[i][pos[i]])

\* The one access an element's entry keeps is one of the epoch's, a write if there
\* is one, and that of the invocation that runs only if nobody else's came before.
Entry(p, e, x) ==
  /\ touched[x].stamp =< stamp
  /\ touched[x].stamp = stamp <=> InWindow(p, x, e) # {}
  /\ touched[x].stamp = stamp =>
       /\ \E q \in InWindow(p, x, e) :
            q[1] = touched[x].by /\ (touched[x].wrote => Group!At(p, q).op = "write")
       /\ (\E q \in InWindow(p, x, e) : Group!At(p, q).op = "write") => touched[x].wrote
       /\ ~touched[x].wrote /\ touched[x].by \in running =>
            \A q \in InWindow(p, x, e) : q[1] = touched[x].by

Tracked(p, e) ==
  /\ \A x \in Elements : Entry(p, e, x)
  /\ conflicts = {Group!At(p, q).at : q \in {q \in Accessed(p) : \E r \in Accessed(p) :
        Group!Conflict(p, q, r) /\ Group!EpochOf(p, q) = Group!EpochOf(p, r)}}

Stored(p) ==
  /\ defined = {x \in Elements : Written(p, x) # {}}
  /\ \A x \in defined \ conflicts : Latest(p, shared[x], Written(p, x))

\* What the lanes of a subgroup that combine in an epoch get, each under its lane.
CombinesAt(p, i, d) ==
  {j \in Group!Lanes(i) : \E k \in 1 .. Len(p[j]) : p[j][k].op = "combine" /\ Epoch(p, j, k) = d}
StopAt(p, j, d) == CHOOSE k \in 1 .. Len(p[j]) : ~Group!IsAccess(p[j][k]) /\ Epoch(p, j, k) = d
Folded(p, i, d) ==
  LET lanes == Group!InLaneOrder(CombinesAt(p, i, d))
  IN  <<p[lanes[1]][StopAt(p, lanes[1], d)].at,
        [k \in DOMAIN lanes |-> <<lanes[k], StopAt(p, lanes[k], d)>>]>>

\* What the reads found: nothing, or, of an uncontested element, the latest write.
Found(p) ==
  /\ undefined \subseteq {q \in Accessed(p) : Group!At(p, q).op = "read" /\ Group!WritesBefore(p, q) = {}}
  /\ verdict # "arrival" =>
       /\ \A i \in Group!Invocations : Len(log[i]) = Results(p, i, pos[i])
       /\ \A q \in Accessed(p) :
            Group!At(p, q).op = "read" /\ q \notin undefined /\ Group!At(p, q).at \notin conflicts =>
              Latest(p, log[q[1]][Results(p, q[1], q[2]) + 1], Group!WritesBefore(p, q))
       /\ \A i \in Group!Invocations : \A k \in 1 .. Len(p[i]) :
            k < pos[i] /\ p[i][k].op = "combine" =>
              log[i][Results(p, i, k) + 1] = Folded(p, i, Epoch(p, i, k))

\* Nobody passed a barrier where the lanes of its own subgroup did not meet it, and nobody
\* a workgroup barrier where anybody was missing, unless one before it was at a subgroup
\* barrier: what the first that waits is at decides for the workgroup.
Whole(p, e) ==
  \A d \in Nat, i \in Group!Invocations : d < e =>
    \A s \in Group!Stop(p, i, d) :
      /\ Group!IsBarrier(s) => \A j \in Group!Lanes(i) : Group!Stop(p, j, d) = {s}
      /\ s.op = "barrier" =>
           \/ \A j \in Group!Invocations : Group!Stop(p, j, d) = {s}
           \/ \E j \in Group!Invocations :
                j < i /\ \E t \in Group!Stop(p, j, d) : t.op = "subgroupBarrier"

Ended ==
  /\ verdict \in {"clean", "diagnosed"} => done = Group!Invocations
  /\ verdict = "clean" => conflicts = {} /\ undefined = {}
IsSeq(s) == Len(s) \in Nat /\ s = [k \in 1 .. Len(s) |-> s[k]]

Typed(p) ==
  /\ p \in Group!Programs
  /\ pos \in [Group!Invocations -> Nat]
  /\ \A i \in Group!Invocations : pos[i] \in 1 .. Len(p[i]) + 1
  /\ done \subseteq Group!Invocations /\ turn \subseteq Group!Invocations
  /\ running \subseteq Group!Invocations /\ (running # {} => verdict = "running")
  /\ shared = [x \in Elements |-> shared[x]]
  /\ touched \in [Elements -> [by : Int, wrote : BOOLEAN, stamp : Nat]] /\ stamp \in Nat
  /\ log = [i \in Group!Invocations |-> log[i]] /\ \A i \in Group!Invocations : IsSeq(log[i])

InEpoch(p, e) ==
  Typed(p) /\ Frame(p, e) /\ Tracked(p, e) /\ Stored(p) /\ Found(p) /\ Whole(p, e)

GInv ==
  /\ work \in Workloads /\ group \in 1 .. Len(work)
  /\ Ended
  /\ \E p, e : p = Group!prog /\ e \in Nat /\ InEpoch(p, e)

-----------------------------------------------------------------------------
\* How many of the first positions of a path are in a set grows with the path.
Before(N, k) == {m \in 1 .. k - 1 : m \in N}

LEMMA CountGrows ==
  ASSUME NEW N, NEW k \in Nat \ {0}
  PROVE  /\ IsFiniteSet(Before(N, k)) /\ Cardinality(Before(N, k)) \in Nat
         /\ Cardinality(Before(N, k + 1)) = Cardinality(Before(N, k)) + (IF k \in N THEN 1 ELSE 0)
<1>1. IsFiniteSet(1 .. k - 1) BY FS_Interval
<1>2. IsFiniteSet(Before(N, k)) /\ Cardinality(Before(N, k)) \in Nat
  BY <1>1, FS_Subset, FS_CardinalityType DEF Before
<1>3. CASE k \in N
  <2>1. Before(N, k + 1) = Before(N, k) \union {k} BY <1>3 DEF Before
  <2>2. k \notin Before(N, k) BY DEF Before
  <2> QED BY <1>2, <1>3, <2>1, <2>2, FS_AddElement
<1>4. CASE k \notin N
  <2>1. Before(N, k + 1) = Before(N, k) BY <1>4 DEF Before
  <2> QED BY <1>2, <1>4, <2>1
<1> QED BY <1>2, <1>3, <1>4

LEMMA CountMonotone ==
  ASSUME NEW N, NEW k \in Nat \ {0}, NEW l \in Nat \ {0}, k =< l
  PROVE  Cardinality(Before(N, k)) =< Cardinality(Before(N, l))
<1>1. Before(N, k) \subseteq Before(N, l) BY DEF Before
<1>2. IsFiniteSet(Before(N, l)) BY CountGrows
<1> QED BY <1>1, <1>2, FS_Subset

-----------------------------------------------------------------------------
\* Invocations are whole numbers, and paths are sequences of steps.
LEMMA PathsAreSequences ==
  ASSUME NEW p \in Group!Programs, NEW i \in Group!Invocations
  PROVE  /\ p[i] \in Seq(Group!Step) /\ Len(p[i]) \in Nat /\ DOMAIN p[i] = 1 .. Len(p[i])
         /\ i \in Int
         /\ \A k \in 1 .. Len(p[i]) : p[i][k] \in Group!Step
<1>1. p[i] \in Seq(Group!Step) BY DEF Group!Programs
<1>2. Size \in Nat BY GroupAssumption DEF Group!KernelAssumption
<1>3. i \in Int BY <1>2 DEF Group!Invocations
<1> HIDE DEF Group!Step
<1> QED BY <1>1, <1>3

\* What a place is.
LEMMA PlacesAre ==
  ASSUME NEW p \in Group!Programs
  PROVE  \A q : q \in Group!Places(p) <=> Place(p, q)
<1>1. \A i \in Group!Invocations : DOMAIN p[i] = 1 .. Len(p[i]) BY PathsAreSequences
<1>2. ASSUME NEW q, q \in Group!Places(p) PROVE Place(p, q)
  <2>1. PICK i \in Group!Invocations : q \in {i} \X DOMAIN p[i] BY <1>2 DEF Group!Places
  <2> QED BY <2>1, <1>1 DEF Place
<1>3. ASSUME NEW q, Place(p, q) PROVE q \in Group!Places(p)
  <2>1. q[1] \in Group!Invocations /\ q \in {q[1]} \X DOMAIN p[q[1]] BY <1>3, <1>1 DEF Place
  <2> QED BY <2>1 DEF Group!Places
<1> QED BY <1>2, <1>3

LEMMA SameCount == \A set : Group!Cardinality(set) = Cardinality(set)
BY Zenon DEF Group!Cardinality, Cardinality

LEMMA EpochCounts ==
  ASSUME NEW p, NEW i, NEW k
  PROVE  Epoch(p, i, k) = Cardinality({m \in 1 .. k - 1 : ~Group!IsAccess(p[i][m])})
<1> DEFINE q == <<i, k>>
<1>1. q[1] = i /\ q[2] = k OBVIOUS
<1> HIDE DEF q
<1>2. {m \in 1 .. q[2] - 1 : ~Group!IsAccess(p[q[1]][m])} = {m \in 1 .. k - 1 : ~Group!IsAccess(p[i][m])}
  BY <1>1
<1>3. Group!EpochOf(p, q) = Cardinality({m \in 1 .. q[2] - 1 : ~Group!IsAccess(p[q[1]][m])})
  BY SameCount, Zenon DEF Group!EpochOf
<1> QED BY <1>2, <1>3 DEF Epoch, q

\* An access takes no epoch, and a rendezvous takes one.
LEMMA EpochsGrow ==
  ASSUME NEW p \in Group!Programs, NEW i \in Group!Invocations, NEW k \in 1 .. Len(p[i])
  PROVE  /\ Epoch(p, i, k) \in Nat
         /\ Epoch(p, i, k + 1) = Epoch(p, i, k) + (IF Group!IsAccess(p[i][k]) THEN 0 ELSE 1)
<1> DEFINE N == {m \in 1 .. Len(p[i]) : ~Group!IsAccess(p[i][m])}
<1>1. Len(p[i]) \in Nat BY PathsAreSequences
<1>2. ASSUME NEW l \in 1 .. Len(p[i]) + 1 PROVE Epoch(p, i, l) = Cardinality(Before(N, l))
  <2>1. {m \in 1 .. l - 1 : ~Group!IsAccess(p[i][m])} = Before(N, l) BY <1>1 DEF Before
  <2> QED BY <2>1, EpochCounts
<1>3. k \in N <=> ~Group!IsAccess(p[i][k]) OBVIOUS
<1> HIDE DEF N
<1>4. Epoch(p, i, k) = Cardinality(Before(N, k)) /\ Epoch(p, i, k + 1) = Cardinality(Before(N, k + 1))
  BY <1>1, <1>2
<1> QED BY <1>1, <1>3, <1>4, CountGrows

LEMMA EpochsOfPlaces ==
  ASSUME NEW p \in Group!Programs, NEW q, Place(p, q)
  PROVE  Group!EpochOf(p, q) \in Nat
<1>1. q = <<q[1], q[2]>> /\ q[1] \in Group!Invocations /\ q[2] \in 1 .. Len(p[q[1]]) BY DEF Place
<1>2. Epoch(p, q[1], q[2]) \in Nat BY <1>1, EpochsGrow
<1>3. Epoch(p, q[1], q[2]) = Group!EpochOf(p, q) BY <1>1 DEF Epoch
<1> QED BY <1>2, <1>3

LEMMA EpochsMonotone ==
  ASSUME NEW p \in Group!Programs, NEW i \in Group!Invocations,
         NEW k \in 1 .. Len(p[i]) + 1, NEW l \in 1 .. Len(p[i]) + 1
  PROVE  /\ Epoch(p, i, k) \in Nat
         /\ k =< l => Epoch(p, i, k) =< Epoch(p, i, l)
         /\ k < l /\ ~Group!IsAccess(p[i][k]) => Epoch(p, i, k) < Epoch(p, i, l)
<1> DEFINE N == {m \in 1 .. Len(p[i]) : ~Group!IsAccess(p[i][m])}
<1>1. Len(p[i]) \in Nat BY PathsAreSequences
<1>2. ASSUME NEW m \in 1 .. Len(p[i]) + 1 PROVE Epoch(p, i, m) = Cardinality(Before(N, m))
  <2>1. {n \in 1 .. m - 1 : ~Group!IsAccess(p[i][n])} = Before(N, m) BY <1>1 DEF Before
  <2> QED BY <2>1, EpochCounts
<1> HIDE DEF N
<1>3. ASSUME NEW m \in 1 .. Len(p[i]) + 1 PROVE Epoch(p, i, m) \in Nat
  <2>1. m \in Nat \ {0} BY <1>1
  <2> QED BY <1>2, <2>1, CountGrows
<1>4. ASSUME NEW m \in 1 .. Len(p[i]) + 1, NEW n \in 1 .. Len(p[i]) + 1, m =< n
      PROVE  Epoch(p, i, m) =< Epoch(p, i, n)
  BY <1>1, <1>2, <1>4, CountMonotone
<1>5. ASSUME k < l, ~Group!IsAccess(p[i][k]) PROVE Epoch(p, i, k) < Epoch(p, i, l)
  <2>1. k \in 1 .. Len(p[i]) /\ k + 1 \in 1 .. Len(p[i]) + 1 /\ k + 1 =< l BY <1>1, <1>5
  <2>2. Epoch(p, i, k + 1) = Epoch(p, i, k) + 1 BY <1>5, <2>1, EpochsGrow
  <2>3. Epoch(p, i, k + 1) =< Epoch(p, i, l) BY <1>4, <2>1
  <2>4. Epoch(p, i, k) \in Nat /\ Epoch(p, i, l) \in Nat BY <1>3
  <2> QED BY <2>2, <2>3, <2>4
<1> QED BY <1>3, <1>4, <1>5

LEMMA EpochsStart ==
  ASSUME NEW p \in Group!Programs, NEW i \in Group!Invocations
  PROVE  Epoch(p, i, 1) = 0 /\ Results(p, i, 1) = 0
<1>1. 1 .. 1 - 1 = {} OBVIOUS
<1>2. {m \in 1 .. 1 - 1 : ~Group!IsAccess(p[i][m])} = {} BY <1>1
<1>3. {m \in 1 .. 1 - 1 : p[i][m].op \in {"read", "combine"}} = {} BY <1>1
<1>4. Epoch(p, i, 1) = 0 BY <1>2, EpochCounts, FS_EmptySet
<1>5. Results(p, i, 1) = 0 BY <1>3, FS_EmptySet DEF Results, Num
<1> QED BY <1>4, <1>5

\* What is counted on a path grows by one at each step counted.
LEMMA NumGrows ==
  ASSUME NEW p \in Group!Programs, NEW i \in Group!Invocations, NEW k \in 1 .. Len(p[i]), NEW ops
  PROVE  /\ Num(p, i, k, ops) \in Nat
         /\ Num(p, i, k + 1, ops) = Num(p, i, k, ops) + (IF p[i][k].op \in ops THEN 1 ELSE 0)
<1> DEFINE N == {m \in 1 .. Len(p[i]) : p[i][m].op \in ops}
<1>1. Len(p[i]) \in Nat BY PathsAreSequences
<1>2. ASSUME NEW l \in 1 .. Len(p[i]) + 1 PROVE Num(p, i, l, ops) = Cardinality(Before(N, l))
  <2>1. {m \in 1 .. l - 1 : p[i][m].op \in ops} = Before(N, l) BY <1>1 DEF Before
  <2> QED BY <2>1 DEF Num
<1>3. k \in N <=> p[i][k].op \in ops OBVIOUS
<1> HIDE DEF N
<1>4. Num(p, i, k, ops) = Cardinality(Before(N, k)) /\ Num(p, i, k + 1, ops) = Cardinality(Before(N, k + 1))
  BY <1>1, <1>2
<1>5. k \in Nat \ {0} BY <1>1
<1>6. /\ Cardinality(Before(N, k)) \in Nat
      /\ Cardinality(Before(N, k + 1)) = Cardinality(Before(N, k)) + (IF k \in N THEN 1 ELSE 0)
  BY <1>5, CountGrows
<1> QED BY <1>3, <1>4, <1>6

LEMMA NumMonotone ==
  ASSUME NEW p \in Group!Programs, NEW i \in Group!Invocations, NEW ops,
         NEW k \in 1 .. Len(p[i]) + 1, NEW l \in 1 .. Len(p[i]) + 1, k =< l
  PROVE  Num(p, i, k, ops) \in Nat /\ Num(p, i, l, ops) \in Nat /\ Num(p, i, k, ops) =< Num(p, i, l, ops)
<1> DEFINE N == {m \in 1 .. Len(p[i]) : p[i][m].op \in ops}
<1>1. Len(p[i]) \in Nat BY PathsAreSequences
<1>2. ASSUME NEW m \in 1 .. Len(p[i]) + 1 PROVE Num(p, i, m, ops) = Cardinality(Before(N, m))
  <2>1. {n \in 1 .. m - 1 : p[i][n].op \in ops} = Before(N, m) BY <1>1 DEF Before
  <2> QED BY <2>1 DEF Num
<1> HIDE DEF N
<1>3. k \in Nat \ {0} /\ l \in Nat \ {0} BY <1>1
<1>4. Cardinality(Before(N, k)) \in Nat /\ Cardinality(Before(N, l)) \in Nat BY <1>3, CountGrows
<1>5. Cardinality(Before(N, k)) =< Cardinality(Before(N, l)) BY <1>3, CountMonotone
<1> QED BY <1>2, <1>4, <1>5

\* A read or a subgroup operation returns one value.
LEMMA ResultsGrow ==
  ASSUME NEW p \in Group!Programs, NEW i \in Group!Invocations, NEW k \in 1 .. Len(p[i])
  PROVE  /\ Results(p, i, k) \in Nat
         /\ Results(p, i, k + 1)
              = Results(p, i, k) + (IF p[i][k].op \in {"read", "combine"} THEN 1 ELSE 0)
BY NumGrows DEF Results

\* So what a place returned is within what its invocation has had returned since.
LEMMA ResultsBehind ==
  ASSUME NEW p \in Group!Programs, NEW i \in Group!Invocations, NEW k \in 1 .. Len(p[i]),
         NEW l \in 1 .. Len(p[i]) + 1, k < l, p[i][k].op \in {"read", "combine"}
  PROVE  Results(p, i, k) + 1 \in 1 .. Results(p, i, l) /\ Results(p, i, l) \in Nat
<1>1. Len(p[i]) \in Nat BY PathsAreSequences
<1>2. k + 1 \in 1 .. Len(p[i]) + 1 /\ k + 1 =< l BY <1>1
<1>3. Results(p, i, k) \in Nat /\ Results(p, i, k + 1) = Results(p, i, k) + 1 BY ResultsGrow
<1>4. Results(p, i, k + 1) =< Results(p, i, l) /\ Results(p, i, l) \in Nat
  BY <1>2, NumMonotone DEF Results
<1> QED BY <1>3, <1>4

-----------------------------------------------------------------------------
LEMMA LeastOfNaturals ==
  ASSUME NEW set \in SUBSET Nat, set # {}
  PROVE  \E m \in set : \A n \in set : m =< n
<1> DEFINE T == {1 .. n : n \in set}
<1>1. \A n \in Nat : IsFiniteSet(1 .. n) /\ 1 .. n \subseteq Nat
  BY FS_Interval
<1>2. T \subseteq FiniteSubsetsOf(Nat) /\ T # {}
  <2>1. \A n \in set : 1 .. n \in FiniteSubsetsOf(Nat) BY <1>1 DEF FiniteSubsetsOf
  <2>2. \A z \in T : z \in FiniteSubsetsOf(Nat) BY <2>1
  <2>3. PICK n \in set : TRUE OBVIOUS
  <2>4. 1 .. n \in T BY <2>3
  <2> QED BY <2>2, <2>4
<1>3. \E x \in T : \A y \in T : <<y, x>> \notin StrictSubsetOrdering(Nat)
  <2>1. IsWellFoundedOn(StrictSubsetOrdering(Nat), FiniteSubsetsOf(Nat))
    BY FS_StrictSubsetOrderingWellFounded
  <2> HIDE DEF T
  <2> QED BY <1>2, <2>1, WFMin
<1>4. PICK m \in set : \A n \in set : <<1 .. n, 1 .. m>> \notin StrictSubsetOrdering(Nat)
  BY <1>3
<1>5. ASSUME NEW n \in set, ~(m =< n) PROVE FALSE
  <2>1. 1 .. n \subseteq 1 .. m /\ m \in 1 .. m /\ m \notin 1 .. n BY <1>5
  <2>2. <<1 .. n, 1 .. m>> \in StrictSubsetOrdering(Nat)
    BY <1>1, <2>1 DEF StrictSubsetOrdering
  <2> QED BY <1>4, <2>2
<1> QED BY <1>5

\* A set of lanes has an order: the least bound below which one had none would extend
\* the order of the lanes but the last.
LEMMA LanesHaveAnOrder ==
  ASSUME NEW lanes \in SUBSET Group!Invocations
  PROVE  IsFiniteSet(lanes) /\ Group!InLaneOrder(lanes) \in [1 .. Cardinality(lanes) -> lanes]
<1> DEFINE Ordered(V, s) == /\ s \in [1 .. Cardinality(V) -> V]
                            /\ \A k, l \in 1 .. Cardinality(V) : k < l => s[k] < s[l]
           Bad == {m \in Nat : \E V \in SUBSET (0 .. m - 1) : \A s : ~Ordered(V, s)}
<1>1. Size \in Nat BY GroupAssumption DEF Group!KernelAssumption
<1>2. ASSUME NEW m \in Nat, NEW V \in SUBSET (0 .. m - 1) PROVE IsFiniteSet(V) /\ Cardinality(V) \in Nat
  <2>1. IsFiniteSet(0 .. m - 1) BY FS_Interval
  <2> QED BY <2>1, FS_Subset, FS_CardinalityType
<1>3. Bad = {}
  <2>1. SUFFICES ASSUME Bad # {} PROVE FALSE OBVIOUS
  <2>2. PICK m \in Bad : \A n \in Bad : m =< n
    <3>1. Bad \in SUBSET Nat OBVIOUS
    <3> HIDE DEF Bad
    <3> QED BY <2>1, <3>1, LeastOfNaturals
  <2>3. PICK V \in SUBSET (0 .. m - 1) : \A s : ~Ordered(V, s) OBVIOUS
  <2>4. CASE m = 0
    <3>1. V = {} /\ Cardinality(V) = 0
      <4>1. 0 .. 0 - 1 = {} OBVIOUS
      <4> QED BY <2>4, <4>1, FS_EmptySet
    <3>2. Ordered(V, [k \in 1 .. 0 |-> 0]) BY <3>1
    <3> QED BY <2>3, <3>2
  <2>5. CASE m # 0
    <3>1. m - 1 \in Nat /\ m - 1 \notin Bad
      <4>1. m \in Nat OBVIOUS
      <4> HIDE DEF Bad
      <4>2. m - 1 \in Nat /\ ~(m =< m - 1) BY <2>5, <4>1
      <4> QED BY <2>2, <4>2
    <3> DEFINE U == V \ {m - 1}
    <3>2. U \in SUBSET (0 .. (m - 1) - 1) BY <2>5
    <3>3. PICK s : Ordered(U, s) BY <3>1, <3>2
    <3>4. CASE m - 1 \notin V
      <4>1. U = V BY <3>4
      <4> QED BY <2>3, <3>3, <4>1
    <3>5. CASE m - 1 \in V
      <4> DEFINE c == Cardinality(U)
                 t == [k \in 1 .. c + 1 |-> IF k = c + 1 THEN m - 1 ELSE s[k]]
      <4>1. IsFiniteSet(U) /\ c \in Nat BY <1>2, <3>1, <3>2
      <4>2. Cardinality(V) = c + 1
        <5>1. V = U \union {m - 1} /\ m - 1 \notin U BY <3>5
        <5> HIDE DEF U
        <5> QED BY <4>1, <5>1, FS_AddElement
      <4>3. \A k \in 1 .. c : s[k] \in U BY <3>3
      <4>4. \A u \in U : u \in V /\ u \in Int /\ u < m - 1 BY <2>5
      <4> HIDE DEF c, U
      <4>5. t \in [1 .. c + 1 -> V] BY <3>5, <4>1, <4>3, <4>4
      <4>6. ASSUME NEW k \in 1 .. c + 1, NEW l \in 1 .. c + 1, k < l PROVE t[k] < t[l]
        <5>1. k \in 1 .. c /\ t[k] = s[k] BY <4>1, <4>6
        <5>2. CASE l = c + 1 BY <4>3, <4>4, <5>1, <5>2
        <5>3. CASE l # c + 1
          <6>1. l \in 1 .. c /\ t[l] = s[l] BY <4>1, <5>3
          <6>2. s[k] < s[l] BY <3>3, <4>6, <5>1, <6>1 DEF c
          <6> QED BY <5>1, <6>1, <6>2
        <5> QED BY <5>2, <5>3
      <4>7. Ordered(V, t) BY <4>2, <4>5, <4>6
      <4> QED BY <2>3, <4>7
    <3> QED BY <3>4, <3>5
  <2> QED BY <2>2, <2>4, <2>5
<1>4. lanes \in SUBSET (0 .. Size - 1) BY DEF Group!Invocations
<1>5. PICK s : Ordered(lanes, s) BY <1>1, <1>3, <1>4
<1>6. \E r \in [1 .. Cardinality(lanes) -> lanes] :
        \A k, l \in 1 .. Cardinality(lanes) : k < l => r[k] < r[l]
  BY <1>5
<1>7. Group!InLaneOrder(lanes) = CHOOSE r \in [1 .. Cardinality(lanes) -> lanes] :
        \A k, l \in 1 .. Cardinality(lanes) : k < l => r[k] < r[l]
  BY SameCount, Zenon DEF Group!InLaneOrder
<1> QED BY <1>1, <1>2, <1>4, <1>6, <1>7

-----------------------------------------------------------------------------
LEMMA AppendExtends ==
  ASSUME NEW s, IsSeq(s), NEW v
  PROVE  /\ IsSeq(Append(s, v)) /\ Len(Append(s, v)) = Len(s) + 1
         /\ Append(s, v)[Len(s) + 1] = v
         /\ \A k \in 1 .. Len(s) : Append(s, v)[k] = s[k]
<1> DEFINE V == {s[k] : k \in 1 .. Len(s)} \union {v}
<1>1. s \in Seq(V)
  <2>1. s \in [1 .. Len(s) -> V] BY DEF IsSeq
  <2> HIDE DEF V
  <2> QED BY <2>1, IsASeq DEF IsSeq
<1>2. v \in V OBVIOUS
<1> HIDE DEF V
<1>3. Append(s, v) \in Seq(V) BY <1>1, <1>2
<1>4. Append(s, v) = [k \in 1 .. Len(Append(s, v)) |-> Append(s, v)[k]] /\ Len(Append(s, v)) \in Nat
  <2>1. Append(s, v) \in [1 .. Len(Append(s, v)) -> V] /\ Len(Append(s, v)) \in Nat
    BY <1>3, LenProperties
  <2> QED BY <2>1
<1> QED BY <1>1, <1>2, <1>4 DEF IsSeq

\* Where the epochs of the places stand to the epoch that runs.
LEMMA PlacesInTime ==
  ASSUME NEW p, NEW e \in Nat, Typed(p), Frame(p, e), NEW q \in Group!Places(p)
  PROVE  /\ Group!EpochOf(p, q) \in Nat
         /\ q[2] < pos[q[1]] => Group!EpochOf(p, q) =< e
         /\ Group!EpochOf(p, q) < e => q[2] < pos[q[1]]
<1> DEFINE i == q[1]
           k == q[2]
<1>1. p \in Group!Programs /\ Place(p, q) BY PlacesAre DEF Typed
<1>2. i \in Group!Invocations /\ k \in 1 .. Len(p[i]) /\ q = <<i, k>> BY <1>1 DEF Place
<1>3. Group!EpochOf(p, q) = Epoch(p, i, k) BY <1>2 DEF Epoch
<1>4. pos[i] \in 1 .. Len(p[i]) + 1 BY <1>2 DEF Typed
<1>5. i \notin done => Epoch(p, i, pos[i]) = e BY <1>2 DEF Frame
<1>6. i \in done => pos[i] = Len(p[i]) + 1 /\ Epoch(p, i, pos[i]) =< e BY <1>2 DEF Frame
<1> HIDE DEF i, k
<1>7. Len(p[i]) \in Nat BY <1>1, <1>2, PathsAreSequences
<1>8. k \in 1 .. Len(p[i]) + 1 /\ k \in Nat /\ pos[i] \in Nat BY <1>2, <1>4, <1>7
<1>9. Epoch(p, i, k) \in Nat /\ Epoch(p, i, pos[i]) \in Nat
      /\ (k =< pos[i] => Epoch(p, i, k) =< Epoch(p, i, pos[i]))
      /\ (pos[i] =< k => Epoch(p, i, pos[i]) =< Epoch(p, i, k))
  BY <1>1, <1>2, <1>4, <1>8, EpochsMonotone
<1>10. k < pos[i] => Epoch(p, i, k) =< e BY <1>5, <1>6, <1>8, <1>9
<1>11. Epoch(p, i, k) < e => k < pos[i] BY <1>2, <1>5, <1>6, <1>7, <1>8, <1>9
<1> QED BY <1>3, <1>9, <1>10, <1>11 DEF i, k

\* Of what it has passed, an invocation remembers the accesses.
LEMMA AccessedGrows ==
  ASSUME NEW p, Typed(p), NEW i \in Group!Invocations, pos[i] =< Len(p[i]),
         Group!IsAccess(p[i][pos[i]]), pos' = [pos EXCEPT ![i] = @ + 1]
  PROVE  /\ <<i, pos[i]>> \in Group!Places(p) /\ <<i, pos[i]>> \notin Accessed(p)
         /\ Accessed(p)' = Accessed(p) \union {<<i, pos[i]>>}
         /\ Group!At(p, <<i, pos[i]>>) = p[i][pos[i]]
<1> DEFINE z == <<i, pos[i]>>
<1>1. z[1] = i /\ z[2] = pos[i] OBVIOUS
<1>2. pos[i] \in 1 .. Len(p[i]) /\ p \in Group!Programs
  <2>1. Len(p[i]) \in Nat BY PathsAreSequences DEF Typed
  <2> QED BY <2>1 DEF Typed
<1>3. Place(p, z) BY <1>1, <1>2 DEF Place
<1>4. z \in Group!Places(p) BY <1>2, <1>3, PlacesAre
<1>5. Group!At(p, z) = p[i][pos[i]] BY <1>1 DEF Group!At
<1>6. pos[i] \in Nat /\ pos'[i] = pos[i] + 1 /\ \A j \in Group!Invocations : j # i => pos'[j] = pos[j]
  BY DEF Typed
<1> HIDE DEF z
<1>7. z \notin Accessed(p) BY <1>1, <1>6 DEF Accessed
<1>8. z \in Accessed(p)'
  <2>1. z[2] < pos'[z[1]] BY <1>1, <1>6
  <2>2. Group!IsAccess(Group!At(p, z)) BY <1>5
  <2> QED BY <1>4, <2>1, <2>2 DEF Accessed
<1>9. ASSUME NEW q \in Group!Places(p), q # z PROVE q[2] < pos'[q[1]] <=> q[2] < pos[q[1]]
  <2>1. q = <<q[1], q[2]>> /\ q[1] \in Group!Invocations /\ q[2] \in Int
    BY <1>2, PlacesAre DEF Place
  <2>2. q[1] = i => q[2] # pos[i] BY <1>9, <2>1 DEF z
  <2> QED BY <1>6, <2>1, <2>2
<1>10. \A q : q # z => (q \in Accessed(p)' <=> q \in Accessed(p)) BY <1>9 DEF Accessed
<1>11. Accessed(p)' = Accessed(p) \union {z} BY <1>8, <1>10
<1> QED BY <1>4, <1>5, <1>7, <1>11 DEF z

LEMMA AccessedStays ==
  ASSUME NEW p, Typed(p),
         \A i \in Group!Invocations :
            \/ pos'[i] = pos[i]
            \/ pos'[i] = pos[i] + 1 /\ ~Group!IsAccess(p[i][pos[i]])
  PROVE  Accessed(p)' = Accessed(p)
<1>1. ASSUME NEW q \in Group!Places(p), Group!IsAccess(Group!At(p, q))
      PROVE  q[2] < pos'[q[1]] <=> q[2] < pos[q[1]]
  <2>1. p \in Group!Programs BY DEF Typed
  <2>2. q[1] \in Group!Invocations /\ q[2] \in Int
    BY <2>1, PlacesAre DEF Place
  <2>3. pos[q[1]] \in Nat BY <2>2 DEF Typed
  <2>4. CASE pos'[q[1]] = pos[q[1]] BY <2>4
  <2>5. CASE pos'[q[1]] = pos[q[1]] + 1 /\ ~Group!IsAccess(p[q[1]][pos[q[1]]])
    <3>1. q[2] # pos[q[1]] BY <1>1, <2>5 DEF Group!At
    <3> QED BY <2>2, <2>3, <2>5, <3>1
  <2> QED BY <2>2, <2>4, <2>5
<1> QED BY <1>1 DEF Accessed

-----------------------------------------------------------------------------
LEMMA AccessedAre ==
  ASSUME NEW p, NEW e \in Nat, Typed(p), Frame(p, e), NEW q \in Accessed(p)
  PROVE  /\ q = <<q[1], q[2]>> /\ q[1] \in Group!Invocations
         /\ q[2] \in 1 .. Len(p[q[1]]) /\ q[2] \in Int /\ q[2] < pos[q[1]]
         /\ Group!EpochOf(p, q) \in Nat /\ Group!EpochOf(p, q) =< e
         /\ Group!IsAccess(Group!At(p, q)) /\ q \in Group!Places(p)
         /\ Group!At(p, q) = p[q[1]][q[2]]
<1>1. q \in Group!Places(p) /\ q[2] < pos[q[1]] /\ Group!IsAccess(Group!At(p, q)) BY DEF Accessed
<1>2. Place(p, q) BY <1>1, PlacesAre DEF Typed
<1>3. Len(p[q[1]]) \in Nat BY <1>2, PathsAreSequences DEF Place, Typed
<1> QED BY <1>1, <1>2, <1>3, PlacesInTime DEF Place, Group!At

\* Where the invocation that runs is: at an access of the epoch, after all its others.
LEMMA AtTheAccess ==
  ASSUME NEW p, NEW e \in Nat, Typed(p), Frame(p, e), NEW i \in running,
         pos[i] =< Len(p[i]), Group!IsAccess(p[i][pos[i]])
  PROVE  /\ i \in Group!Invocations /\ i \notin done /\ i \notin turn /\ running = {i}
         /\ pos[i] \in 1 .. Len(p[i])
         /\ Group!EpochOf(p, <<i, pos[i]>>) = e
<1>1. i \in Group!Invocations BY DEF Typed
<1>2. i \notin done /\ i \notin turn BY <1>1 DEF Frame
<1>3. running = {i} BY DEF Frame
<1>4. Epoch(p, i, pos[i]) = e BY <1>1, <1>2 DEF Frame
<1>5. Len(p[i]) \in Nat BY <1>1, PathsAreSequences DEF Typed
<1>6. pos[i] \in 1 .. Len(p[i]) BY <1>1, <1>5 DEF Typed
<1> QED BY <1>1, <1>2, <1>3, <1>4, <1>6 DEF Epoch

\* An access is entered in the tracker, and the conflicts stay those of what was accessed.
LEMMA TouchTracks ==
  ASSUME NEW p, NEW e \in Nat, Typed(p), Frame(p, e), Tracked(p, e), NEW i \in running,
         pos[i] =< Len(p[i]), NEW x \in Elements, NEW wrote \in BOOLEAN,
         p[i][pos[i]] = [op |-> IF wrote THEN "write" ELSE "read", at |-> x],
         pos' = [pos EXCEPT ![i] = @ + 1], UNCHANGED <<running, stamp>>,
         Group!Touch(x, i, wrote)
  PROVE  Tracked(p, e)'
<1> DEFINE z == <<i, pos[i]>>
           A == Accessed(p)
           T(y) == InWindow(p, y, e)
           inWindow == touched[x].stamp = stamp
           by == touched[x].by
           contest == inWindow /\ by # i /\ (touched[x].wrote \/ wrote)
<1>1. Group!IsAccess(p[i][pos[i]]) BY DEF Group!IsAccess
<1>2. /\ i \in Group!Invocations /\ running = {i} /\ pos[i] \in 1 .. Len(p[i])
      /\ Group!EpochOf(p, z) = e
  BY <1>1, AtTheAccess
<1>3. /\ z \notin A /\ A' = A \union {z} /\ Group!At(p, z) = p[i][pos[i]]
  BY <1>1, <1>2, AccessedGrows
<1>4. /\ z[1] = i /\ Group!At(p, z).at = x /\ Group!IsAccess(Group!At(p, z))
      /\ Group!At(p, z).op = (IF wrote THEN "write" ELSE "read")
  BY <1>1, <1>3
<1>5. \A y \in Elements \ {x} : T(y)' = T(y) BY <1>3, <1>4 DEF InWindow
<1>6. T(x)' = T(x) \union {z} BY <1>2, <1>3, <1>4 DEF InWindow
<1>7. /\ touched' = IF inWindow /\ ~wrote THEN touched
                    ELSE [touched EXCEPT ![x] = [by |-> i, wrote |-> wrote, stamp |-> stamp]]
      /\ conflicts' = conflicts \union (IF contest THEN {x} ELSE {})
  BY DEF Group!Touch
<1>8. touched \in [Elements -> [by : Int, wrote : BOOLEAN, stamp : Nat]] /\ stamp \in Nat BY DEF Typed
<1>9. \A y \in Elements : Entry(p, e, y) BY DEF Tracked
<1>10. conflicts = {Group!At(p, q).at : q \in {q \in A : \E r \in A :
         Group!Conflict(p, q, r) /\ Group!EpochOf(p, q) = Group!EpochOf(p, r)}}
  BY DEF Tracked
<1>11. Entry(p, e, x) BY <1>9
<1>12. \A q \in T(x) : q \in A /\ Group!At(p, q).at = x /\ Group!EpochOf(p, q) = e
                       /\ Group!IsAccess(Group!At(p, q))
  BY DEF InWindow, Accessed
<1>13. inWindow <=> T(x) # {} BY <1>11 DEF Entry
<1>14. inWindow =>
         /\ \E q \in T(x) : q[1] = by /\ (touched[x].wrote => Group!At(p, q).op = "write")
         /\ (\E q \in T(x) : Group!At(p, q).op = "write") => touched[x].wrote
         /\ ~touched[x].wrote /\ by = i => \A q \in T(x) : q[1] = i
  BY <1>2, <1>11 DEF Entry
<1> HIDE DEF z, A, T
<1>15. ASSUME NEW y \in Elements \ {x} PROVE Entry(p, e, y)'
  <2>1. touched'[y] = touched[y] BY <1>7, <1>8
  <2>2. Entry(p, e, y) BY <1>9
  <2>3. InWindow(p, y, e)' = InWindow(p, y, e) BY <1>5 DEF T
  <2> QED BY <2>1, <2>2, <2>3 DEF Entry
<1>16. Entry(p, e, x)'
  <2>1. CASE inWindow /\ ~wrote
    <3>1. touched' = touched BY <1>7, <2>1
    <3>2. Group!At(p, z).op # "write" BY <1>4, <2>1
    <3>3. PICK q \in T(x) : q[1] = by /\ (touched[x].wrote => Group!At(p, q).op = "write")
      BY <1>14, <2>1
    <3>4. q \in T(x)' BY <1>6, <3>3
    <3>5. (\E r \in T(x)' : Group!At(p, r).op = "write") => touched[x].wrote
      BY <1>6, <1>14, <2>1, <3>2
    <3>6. ~touched[x].wrote /\ by \in running => \A r \in T(x)' : r[1] = by
      BY <1>2, <1>4, <1>6, <1>14, <2>1
    <3> QED BY <1>8, <2>1, <3>1, <3>3, <3>4, <3>5, <3>6 DEF Entry, T
  <2>2. CASE ~(inWindow /\ ~wrote)
    <3>1. touched'[x] = [by |-> i, wrote |-> wrote, stamp |-> stamp] BY <1>7, <1>8, <2>2
    <3>2. z \in T(x)' BY <1>6
    <3>3. ~wrote => T(x)' = {z} BY <1>6, <1>13, <2>2
    <3>4. \E r \in T(x)' : r[1] = i /\ (wrote => Group!At(p, r).op = "write") BY <1>4, <3>2
    <3>5. (\E r \in T(x)' : Group!At(p, r).op = "write") => wrote BY <1>4, <3>3
    <3>6. ~wrote => \A r \in T(x)' : r[1] = i BY <1>4, <3>3
    <3> QED BY <1>8, <3>1, <3>2, <3>4, <3>5, <3>6 DEF Entry, T
  <2> QED BY <2>1, <2>2
<1>17. ASSUME NEW q \in A', NEW r \in A', Group!Conflict(p, q, r),
              Group!EpochOf(p, q) = Group!EpochOf(p, r)
       PROVE  Group!At(p, q).at \in conflicts'
  <2>1. CASE q \in A /\ r \in A BY <1>7, <1>10, <1>17, <2>1
  <2>2. ASSUME NEW s \in A, s[1] # i, Group!At(p, s).at = x, Group!EpochOf(p, s) = e,
               wrote \/ Group!At(p, s).op = "write"
        PROVE  x \in conflicts'
    <3>1. s \in T(x) BY <2>2 DEF T, InWindow, A
    <3>2. inWindow BY <1>13, <3>1
    <3>3. CASE by # i
      <4>1. touched[x].wrote \/ wrote BY <1>14, <2>2, <3>1, <3>2
      <4> QED BY <1>7, <3>2, <3>3, <4>1
    <3>4. CASE by = i
      <4>1. touched[x].wrote BY <1>14, <2>2, <3>1, <3>2, <3>4
      <4>2. PICK u \in T(x) : u[1] = i /\ Group!At(p, u).op = "write" BY <1>14, <3>2, <3>4, <4>1
      <4>3. Group!Conflict(p, u, s) BY <1>12, <2>2, <3>1, <4>2 DEF Group!Conflict
      <4>4. x \in conflicts BY <1>10, <1>12, <2>2, <4>2, <4>3
      <4> QED BY <1>7, <4>4
    <3> QED BY <3>3, <3>4
  <2>3. CASE q = z \/ r = z
    <3>1. q[1] # r[1] /\ Group!At(p, q).at = Group!At(p, r).at
          /\ (Group!At(p, q).op = "write" \/ Group!At(p, r).op = "write")
      BY <1>17 DEF Group!Conflict
    <3>2. q # r BY <3>1
    <3>3. CASE q = z
      <4>1. r \in A /\ r[1] # i BY <1>3, <1>4, <3>1, <3>2, <3>3
      <4>2. Group!At(p, r).at = x /\ Group!EpochOf(p, r) = e BY <1>2, <1>4, <1>17, <3>1, <3>3 DEF z
      <4>3. wrote \/ Group!At(p, r).op = "write" BY <1>4, <3>1, <3>3
      <4>4. x \in conflicts' BY <2>2, <4>1, <4>2, <4>3
      <4> QED BY <1>4, <3>3, <4>4
    <3>4. CASE r = z
      <4>1. q \in A /\ q[1] # i BY <1>3, <1>4, <3>1, <3>2, <3>4
      <4>2. Group!At(p, q).at = x /\ Group!EpochOf(p, q) = e BY <1>2, <1>4, <1>17, <3>1, <3>4 DEF z
      <4>3. wrote \/ Group!At(p, q).op = "write" BY <1>4, <3>1, <3>4
      <4>4. x \in conflicts' BY <2>2, <4>1, <4>2, <4>3
      <4> QED BY <4>2, <4>4
    <3> QED BY <2>3, <3>3, <3>4
  <2> QED BY <1>3, <2>1, <2>3
<1>18. ASSUME NEW y \in conflicts'
       PROVE  \E q \in A' : Group!At(p, q).at = y /\ \E r \in A' :
                Group!Conflict(p, q, r) /\ Group!EpochOf(p, q) = Group!EpochOf(p, r)
  <2>1. CASE y \in conflicts
    <3>1. PICK q \in A : Group!At(p, q).at = y /\ \E r \in A :
                Group!Conflict(p, q, r) /\ Group!EpochOf(p, q) = Group!EpochOf(p, r)
      BY <1>10, <2>1
    <3> QED BY <1>3, <3>1
  <2>2. CASE contest /\ y = x
    <3>1. PICK q \in T(x) : q[1] = by /\ (touched[x].wrote => Group!At(p, q).op = "write")
      BY <1>14, <2>2
    <3>2. q[1] # z[1] /\ (Group!At(p, q).op = "write" \/ Group!At(p, z).op = "write")
      BY <1>4, <2>2, <3>1
    <3>3. Group!Conflict(p, q, z) BY <1>4, <1>12, <3>1, <3>2 DEF Group!Conflict
    <3>4. q \in A' /\ z \in A' /\ Group!EpochOf(p, q) = Group!EpochOf(p, z)
      BY <1>2, <1>3, <1>12, <3>1 DEF z
    <3> QED BY <1>12, <2>2, <3>1, <3>3, <3>4
  <2> QED BY <1>7, <2>1, <2>2
<1>19. conflicts' = {Group!At(p, q).at : q \in {q \in A' : \E r \in A' :
         Group!Conflict(p, q, r) /\ Group!EpochOf(p, q) = Group!EpochOf(p, r)}}
  BY <1>17, <1>18
<1>20. \A y \in Elements : Entry(p, e, y)' BY <1>15, <1>16
<1> QED BY <1>19, <1>20 DEF Tracked, A

\* Accesses of one element in one epoch by two invocations, one a write, are reported.
LEMMA ReportedWhenMet ==
  ASSUME NEW p, NEW e, Tracked(p, e), NEW q \in Accessed(p), NEW r \in Accessed(p),
         q[1] # r[1], Group!At(p, q).at = Group!At(p, r).at,
         Group!EpochOf(p, q) = Group!EpochOf(p, r),
         Group!At(p, q).op = "write" \/ Group!At(p, r).op = "write"
  PROVE  Group!At(p, q).at \in conflicts
<1>1. Group!Conflict(p, q, r) BY DEF Accessed, Group!Conflict
<1> QED BY <1>1 DEF Tracked

LEMMA WriteSteps ==
  ASSUME NEW p, NEW e \in Nat, InEpoch(p, e), Group!prog = p, NEW i \in Group!Invocations,
         Group!Write(i)
  PROVE  InEpoch(p, e)'
<1> DEFINE z == <<i, pos[i]>>
           A == Accessed(p)
<1>1. Typed(p) /\ Frame(p, e) /\ Tracked(p, e) /\ Stored(p) /\ Found(p) /\ Whole(p, e)
  BY DEF InEpoch
<1>2. /\ i \in running /\ pos[i] \in Nat /\ Len(p[i]) \in Nat /\ pos[i] =< Len(p[i])
      /\ p[i][pos[i]].op = "write"
  <2>1. Len(p[i]) \in Nat /\ pos[i] \in Nat BY <1>1, PathsAreSequences DEF Typed
  <2> QED BY <2>1 DEF Group!Write, Group!AtEnd, Group!Here
<1>3. Group!IsAccess(p[i][pos[i]]) BY <1>2 DEF Group!IsAccess
<1>4. /\ pos' = [pos EXCEPT ![i] = @ + 1]
      /\ UNCHANGED <<work, group, done, turn, running, stamp, undefined, log, verdict>>
  BY DEF Group!Write
<1>5. /\ i \notin done /\ i \notin turn /\ running = {i} /\ pos[i] \in 1 .. Len(p[i])
      /\ Group!EpochOf(p, z) = e
  BY <1>1, <1>2, <1>3, AtTheAccess
<1>6. PICK x \in Elements : p[i][pos[i]] = [op |-> "write", at |-> x]
  <2>1. p[i][pos[i]] \in Group!Step BY <1>1, <1>5, PathsAreSequences DEF Typed
  <2> QED BY <1>2, <2>1 DEF Group!Step
<1>7. /\ defined' = defined \union {x} /\ Group!Touch(x, i, TRUE)
       /\ shared' = [shared EXCEPT ![x] = z]
  <2>1. Group!Here(i).at = x BY <1>6 DEF Group!Here
  <2> QED BY <2>1 DEF Group!Write
<1>8. /\ z \in Group!Places(p) /\ z \notin A /\ A' = A \union {z} /\ Group!At(p, z) = p[i][pos[i]]
  BY <1>1, <1>2, <1>4, <1>3, AccessedGrows
<1>9. Tracked(p, e)'
  <2>1. p[i][pos[i]] = [op |-> IF TRUE THEN "write" ELSE "read", at |-> x] BY <1>6
  <2>2. TRUE \in BOOLEAN OBVIOUS
  <2> QED BY <1>1, <1>2, <1>4, <1>6, <1>7, <2>1, <2>2, TouchTracks
<1>10. \A q \in A : /\ q = <<q[1], q[2]>> /\ q[1] \in Group!Invocations
                   /\ q[2] \in Int /\ q[2] < pos[q[1]]
                   /\ q[2] \in 1 .. Len(p[q[1]]) /\ Group!At(p, q) = p[q[1]][q[2]]
                   /\ Group!EpochOf(p, q) \in Nat /\ Group!EpochOf(p, q) =< e
  BY <1>1, AccessedAre
<1>11. z[1] = i /\ z[2] = pos[i] /\ Group!At(p, z) = [op |-> "write", at |-> x] BY <1>6, <1>8
<1> HIDE DEF A, z
<1>12. conflicts \subseteq conflicts' BY <1>7 DEF Group!Touch
<1>13. Typed(p)'
  <2>1. pos' \in [Group!Invocations -> Nat] /\ pos'[i] = pos[i] + 1
        /\ \A j \in Group!Invocations \ {i} : pos'[j] = pos[j]
    BY <1>1, <1>2, <1>4, <1>7 DEF Typed
  <2>2. ASSUME NEW j \in Group!Invocations PROVE pos'[j] \in 1 .. Len(p[j]) + 1
    <3>1. pos[j] \in 1 .. Len(p[j]) + 1 BY <1>1 DEF Typed
    <3>2. CASE j = i BY <1>2, <1>5, <2>1, <3>2
    <3> QED BY <2>1, <3>1, <3>2
  <2>3. touched' \in [Elements -> [by : Int, wrote : BOOLEAN, stamp : Nat]]
    <3>1. i \in Int BY <1>1, PathsAreSequences DEF Typed
    <3> QED BY <1>1, <1>4, <1>7, <1>6, <3>1 DEF Typed, Group!Touch
  <2>4. shared' = [y \in Elements |-> shared'[y]] BY <1>1, <1>4, <1>7 DEF Typed
  <2> QED BY <1>1, <1>4, <1>7, <2>1, <2>2, <2>3, <2>4 DEF Typed
<1>14. Frame(p, e)'
  <2>1. pos'[i] = pos[i] + 1 /\ \A j \in Group!Invocations \ {i} : pos'[j] = pos[j]
    BY <1>1, <1>2, <1>4, <1>7 DEF Typed
  <2>2. Epoch(p, i, pos[i] + 1) = e
    BY <1>1, <1>3, <1>5, EpochsGrow, SMTT(30) DEF Typed, Epoch, z
  <2>3. \A q \in A' : q[1] # i => q \in A BY <1>8, <1>11
  <2>4. ASSUME NEW j \in Group!Invocations
        PROVE  /\ j \notin done => Epoch(p, j, pos'[j]) = e
               /\ j \in done =>
                    pos'[j] = Len(p[j]) + 1 /\ Epoch(p, j, pos'[j]) =< e /\ j \notin turn \union running
               /\ j \in turn => j \notin running /\ \A q \in A' : q[1] = j => Group!EpochOf(p, q) < e
               /\ j \notin done \union turn \union running =>
                    pos'[j] =< Len(p[j]) /\ ~Group!IsAccess(p[j][pos'[j]])
    <3>1. CASE j = i BY <1>2, <1>5, <2>1, <2>2, <3>1
    <3>2. CASE j # i BY <1>1, <2>1, <2>3, <3>2 DEF Frame, A
    <3> QED BY <3>1, <3>2
  <2>5. \A j, k \in running : j = k BY <1>5
  <2>6. done' = done /\ turn' = turn /\ running' = running BY <1>4
  <2> QED BY <2>4, <2>5, <2>6 DEF Frame, A, Epoch
<1>15. Stored(p)'
  <2>1. Written(p, x)' = Written(p, x) \union {z}
        /\ \A y \in Elements \ {x} : Written(p, y)' = Written(p, y)
    <3>1. \A y : Written(p, y)' = {q \in A' : Group!At(p, q) = [op |-> "write", at |-> y]}
      BY DEF Written, A
    <3>2. \A y : Written(p, y) = {q \in A : Group!At(p, q) = [op |-> "write", at |-> y]}
      BY DEF Written, A
    <3>3. \A y : y # x => Group!At(p, z) # [op |-> "write", at |-> y]
      <4>1. Group!At(p, z).at = x BY <1>11
      <4> QED BY <4>1
    <3>4. Written(p, x)' = Written(p, x) \union {z} BY <1>8, <1>11, <3>1, <3>2
    <3>5. ASSUME NEW y \in Elements \ {x} PROVE Written(p, y)' = Written(p, y)
      <4>1. Group!At(p, z) # [op |-> "write", at |-> y] BY <3>3
      <4> QED BY <1>8, <3>1, <3>2, <4>1
    <3> QED BY <3>4, <3>5
  <2>2. defined' = {y \in Elements : Written(p, y)' # {}}
    <3>1. defined = {y \in Elements : Written(p, y) # {}} BY <1>1 DEF Stored
    <3>2. z \in Written(p, x)' BY <2>1
    <3>3. ASSUME NEW y \in Elements PROVE y \in defined' <=> Written(p, y)' # {}
      <4>1. CASE y = x BY <1>4, <1>7, <3>2, <4>1
      <4>2. CASE y # x
        <5>1. Written(p, y)' = Written(p, y) BY <2>1, <4>2
        <5> QED BY <1>4, <1>7, <3>1, <4>2, <5>1
      <4> QED BY <4>1, <4>2
    <3>4. defined' \subseteq Elements BY <1>4, <1>7, <1>6, <3>1
    <3> QED BY <3>3, <3>4
  <2>3. ASSUME NEW y \in defined' \ conflicts', y # x
        PROVE  Latest(p, shared'[y], Written(p, y)')
    <3>1. y \in defined \ conflicts /\ y \in Elements BY <1>1, <1>4, <1>7, <1>12, <2>3 DEF Stored
    <3>2. shared'[y] = shared[y] BY <1>1, <1>4, <1>7, <2>3, <3>1 DEF Typed
    <3> QED BY <1>1, <2>1, <2>3, <3>1, <3>2 DEF Stored
  <2>4. ASSUME x \notin conflicts'
        PROVE  Latest(p, shared'[x], Written(p, x)')
    <3>1. shared'[x] = z BY <1>1, <1>4, <1>7, <1>6 DEF Typed
    <3>2. ASSUME NEW r \in Written(p, x)
          PROVE  \/ Group!EpochOf(p, r) < e
                 \/ Group!EpochOf(p, r) = e /\ r[2] =< z[2]
      <4>1. r \in A /\ Group!At(p, r) = [op |-> "write", at |-> x] BY DEF Written, A
      <4>2. CASE Group!EpochOf(p, r) = e /\ r[1] # i
        <5>1. r \in Accessed(p)' /\ z \in Accessed(p)' BY <1>8, <4>1 DEF A
        <5>2. \A q, s \in Accessed(p)' : q[1] # s[1] /\ Group!At(p, q).at = Group!At(p, s).at
                /\ Group!EpochOf(p, q) = Group!EpochOf(p, s) /\ Group!At(p, q).op = "write"
                => Group!Conflict(p, q, s)
          BY DEF Accessed, Group!Conflict
        <5>3. Group!Conflict(p, r, z) BY <1>5, <1>11, <4>1, <4>2, <5>1, <5>2
        <5>4. Group!At(p, r).at \in conflicts'
          BY <1>5, <1>9, <4>2, <5>1, <5>3 DEF Tracked
        <5> QED BY <2>4, <4>1, <5>4
      <4>3. CASE Group!EpochOf(p, r) = e /\ r[1] = i
        <5>1. r[2] \in Int /\ r[2] < pos[i] BY <1>10, <4>1, <4>3
        <5> QED BY <1>2, <1>11, <4>3, <5>1
      <4>4. Group!EpochOf(p, r) \in Nat /\ Group!EpochOf(p, r) =< e BY <1>10, <4>1
      <4> QED BY <4>2, <4>3, <4>4
    <3>3. z[2] =< z[2] BY <1>2, <1>11
    <3>4. Latest(p, z, Written(p, x) \union {z}) BY <1>5, <3>2, <3>3 DEF Latest
    <3> QED BY <2>1, <3>1, <3>4
  <2>5. \A y \in defined' \ conflicts' : Latest(p, shared'[y], Written(p, y)')
    <3>1. SUFFICES ASSUME NEW y \in defined' \ conflicts' PROVE Latest(p, shared'[y], Written(p, y)')
      OBVIOUS
    <3>2. CASE y = x BY <2>4, <3>2
    <3>3. CASE y # x BY <2>3, <3>3
    <3> QED BY <3>2, <3>3
  <2> QED BY <2>2, <2>5 DEF Stored, Latest
<1>16. Found(p)'
  <2>1. pos'[i] = pos[i] + 1 /\ \A j \in Group!Invocations \ {i} : pos'[j] = pos[j]
    BY <1>1, <1>2, <1>4, <1>7 DEF Typed
  <2>2. Results(p, i, pos[i] + 1) = Results(p, i, pos[i])
    <3>1. p \in Group!Programs BY <1>1 DEF Typed
    <3>2. p[i][pos[i]].op \notin {"read", "combine"} BY <1>2
    <3>3. /\ Results(p, i, pos[i]) \in Nat
          /\ Results(p, i, pos[i] + 1)
               = Results(p, i, pos[i]) + (IF p[i][pos[i]].op \in {"read", "combine"} THEN 1 ELSE 0)
      BY <1>5, <3>1, ResultsGrow
    <3> QED BY <3>2, <3>3
  <2>3. undefined \subseteq {q \in A' : Group!At(p, q).op = "read" /\ Group!WritesBefore(p, q) = {}}
    BY <1>1, <1>8 DEF Found, A
  <2>4. verdict # "arrival" => \A j \in Group!Invocations : Len(log[j]) = Results(p, j, pos'[j])
    BY <1>1, <2>1, <2>2 DEF Found
  <2>5. ASSUME verdict # "arrival", NEW q \in A', Group!At(p, q).op = "read", q \notin undefined,
               Group!At(p, q).at \notin conflicts'
        PROVE  Latest(p, log[q[1]][Results(p, q[1], q[2]) + 1], Group!WritesBefore(p, q))
    <3>1. q \in A BY <1>8, <1>11, <2>5
    <3> QED BY <1>1, <1>12, <2>5, <3>1 DEF Found, A
  <2>6. log' = log /\ undefined' = undefined /\ verdict' = verdict BY <1>4
  <2>7. ASSUME verdict # "arrival", NEW j \in Group!Invocations, NEW k \in 1 .. Len(p[j]),
               k < pos'[j], p[j][k].op = "combine"
        PROVE  log[j][Results(p, j, k) + 1] = Folded(p, j, Epoch(p, j, k))
    <3>1. k < pos[j]
      <4>1. CASE j = i
        <5>1. k # pos[i] BY <1>2, <2>7, <4>1
        <5> QED BY <1>2, <2>1, <2>7, <4>1, <5>1
      <4>2. CASE j # i BY <2>1, <2>7, <4>2
      <4> QED BY <4>1, <4>2
    <3> QED BY <1>1, <2>7, <3>1 DEF Found
  <2> QED BY <2>3, <2>4, <2>5, <2>6, <2>7 DEF Found, A, Latest, Results, Num
<1> QED BY <1>1, <1>9, <1>13, <1>14, <1>15, <1>16 DEF InEpoch, Whole

LEMMA ReadSteps ==
  ASSUME NEW p, NEW e \in Nat, InEpoch(p, e), Group!prog = p, NEW i \in Group!Invocations,
         Group!Read(i)
  PROVE  InEpoch(p, e)'
<1> DEFINE z == <<i, pos[i]>>
           A == Accessed(p)
<1>1. Typed(p) /\ Frame(p, e) /\ Tracked(p, e) /\ Stored(p) /\ Found(p) /\ Whole(p, e)
  BY DEF InEpoch
<1>2. /\ i \in running /\ pos[i] \in Nat /\ Len(p[i]) \in Nat /\ pos[i] =< Len(p[i])
      /\ p[i][pos[i]].op = "read"
  <2>1. Len(p[i]) \in Nat /\ pos[i] \in Nat BY <1>1, PathsAreSequences DEF Typed
  <2> QED BY <2>1 DEF Group!Read, Group!AtEnd, Group!Here
<1>3. /\ pos' = [pos EXCEPT ![i] = @ + 1]
      /\ UNCHANGED <<work, group, done, turn, running, shared, defined, stamp, verdict>>
  BY DEF Group!Read
<1>4. Group!IsAccess(p[i][pos[i]]) BY <1>2 DEF Group!IsAccess
<1>5. /\ i \notin done /\ i \notin turn /\ running = {i} /\ pos[i] \in 1 .. Len(p[i])
      /\ Group!EpochOf(p, z) = e
  BY <1>1, <1>2, <1>4, AtTheAccess
<1>6. PICK x \in Elements : p[i][pos[i]] = [op |-> "read", at |-> x]
  <2>1. p[i][pos[i]] \in Group!Step BY <1>1, <1>5, PathsAreSequences DEF Typed
  <2> QED BY <1>2, <2>1 DEF Group!Step
<1>7. /\ undefined' = undefined \union (IF x \in defined THEN {} ELSE {z})
      /\ Group!Touch(x, i, FALSE)
      /\ log' = [log EXCEPT ![i] = Append(@, shared[x])]
  <2>1. Group!Here(i).at = x BY <1>6 DEF Group!Here
  <2> QED BY <2>1 DEF Group!Read
<1>8. /\ z \in Group!Places(p) /\ z \notin A /\ A' = A \union {z} /\ Group!At(p, z) = p[i][pos[i]]
  BY <1>1, <1>2, <1>3, <1>4, AccessedGrows
<1>9. Tracked(p, e)'
  <2>1. p[i][pos[i]] = [op |-> IF FALSE THEN "write" ELSE "read", at |-> x] BY <1>6
  <2>2. FALSE \in BOOLEAN OBVIOUS
  <2> QED BY <1>1, <1>2, <1>3, <1>6, <1>7, <2>1, <2>2, TouchTracks
<1>10. \A q \in A : /\ q = <<q[1], q[2]>> /\ q[1] \in Group!Invocations
                    /\ q[2] \in Int /\ q[2] < pos[q[1]]
                    /\ q[2] \in 1 .. Len(p[q[1]]) /\ Group!At(p, q) = p[q[1]][q[2]]
                    /\ Group!EpochOf(p, q) \in Nat /\ Group!EpochOf(p, q) =< e
  BY <1>1, AccessedAre
<1>11. z[1] = i /\ z[2] = pos[i] /\ Group!At(p, z) = [op |-> "read", at |-> x] BY <1>6, <1>8
<1> HIDE DEF A, z
<1>12. conflicts \subseteq conflicts' BY <1>7 DEF Group!Touch
<1>13. pos' \in [Group!Invocations -> Nat] /\ pos'[i] = pos[i] + 1
       /\ \A j \in Group!Invocations \ {i} : pos'[j] = pos[j]
  BY <1>1, <1>2, <1>3 DEF Typed
<1>14. /\ IsSeq(log'[i]) /\ Len(log'[i]) = Len(log[i]) + 1 /\ log'[i][Len(log[i]) + 1] = shared[x]
       /\ Len(log[i]) \in Nat /\ \A k \in 1 .. Len(log[i]) : log'[i][k] = log[i][k]
       /\ \A j \in Group!Invocations \ {i} : log'[j] = log[j]
       /\ log' = [j \in Group!Invocations |-> log'[j]]
  <2>1. IsSeq(log[i]) /\ log = [j \in Group!Invocations |-> log[j]] BY <1>1 DEF Typed
  <2>2. log'[i] = Append(log[i], shared[x]) /\ (\A j \in Group!Invocations \ {i} : log'[j] = log[j])
        /\ log' = [j \in Group!Invocations |-> log'[j]]
    BY <1>7, <2>1
  <2>3. Len(log[i]) \in Nat BY <2>1 DEF IsSeq
  <2> QED BY <2>1, <2>2, <2>3, AppendExtends
<1>15. Typed(p)'
  <2>1. ASSUME NEW j \in Group!Invocations PROVE pos'[j] \in 1 .. Len(p[j]) + 1
    <3>1. pos[j] \in 1 .. Len(p[j]) + 1 BY <1>1 DEF Typed
    <3>2. CASE j = i BY <1>2, <1>5, <1>13, <3>2
    <3> QED BY <1>13, <3>1, <3>2
  <2>2. touched' \in [Elements -> [by : Int, wrote : BOOLEAN, stamp : Nat]]
    <3>1. i \in Int BY <1>1, PathsAreSequences DEF Typed
    <3> QED BY <1>1, <1>6, <1>7, <3>1 DEF Typed, Group!Touch
  <2>3. \A j \in Group!Invocations : IsSeq(log'[j])
    <3>1. \A j \in Group!Invocations : IsSeq(log[j]) BY <1>1 DEF Typed
    <3> QED BY <1>14, <3>1
  <2> QED BY <1>1, <1>3, <1>13, <1>14, <2>1, <2>2, <2>3 DEF Typed
<1>16. Frame(p, e)'
  <2>1. Epoch(p, i, pos[i] + 1) = e
    BY <1>1, <1>4, <1>5, EpochsGrow, SMTT(30) DEF Typed, Epoch, z
  <2>2. \A q \in A' : q[1] # i => q \in A BY <1>8, <1>11
  <2>3. ASSUME NEW j \in Group!Invocations
        PROVE  /\ j \notin done => Epoch(p, j, pos'[j]) = e
               /\ j \in done =>
                    pos'[j] = Len(p[j]) + 1 /\ Epoch(p, j, pos'[j]) =< e /\ j \notin turn \union running
               /\ j \in turn => j \notin running /\ \A q \in A' : q[1] = j => Group!EpochOf(p, q) < e
               /\ j \notin done \union turn \union running =>
                    pos'[j] =< Len(p[j]) /\ ~Group!IsAccess(p[j][pos'[j]])
    <3>1. CASE j = i BY <1>2, <1>5, <1>13, <2>1, <3>1
    <3>2. CASE j # i BY <1>1, <1>13, <2>2, <3>2 DEF Frame, A
    <3> QED BY <3>1, <3>2
  <2>4. \A j, k \in running : j = k BY <1>5
  <2>5. done' = done /\ turn' = turn /\ running' = running BY <1>3
  <2> QED BY <2>3, <2>4, <2>5 DEF Frame, A, Epoch
<1>17. \A y : Written(p, y)' = Written(p, y)
  <2>1. \A y : Group!At(p, z) # [op |-> "write", at |-> y] BY <1>11
  <2> QED BY <1>8, <2>1 DEF Written, A
<1>18. Stored(p)'
  <2>1. ASSUME NEW y \in defined \ conflicts' PROVE Latest(p, shared[y], Written(p, y))
    BY <1>1, <1>12, <2>1 DEF Stored
  <2>2. shared' = shared /\ defined' = defined BY <1>3
  <2>3. defined = {y \in Elements : Written(p, y)' # {}} BY <1>1, <1>17 DEF Stored
  <2> QED BY <1>17, <2>1, <2>2, <2>3 DEF Stored, Latest
<1>19. Group!WritesBefore(p, z) \subseteq Written(p, x)
  <2>1. SUFFICES ASSUME NEW q \in Group!WritesBefore(p, z) PROVE q \in Written(p, x)
    OBVIOUS
  <2>2. /\ q \in Group!Places(p) /\ Group!At(p, q) = [op |-> "write", at |-> x]
        /\ (q[1] = i /\ q[2] < pos[i]) \/ Group!EpochOf(p, q) < e
    BY <1>5, <1>11 DEF Group!WritesBefore
  <2>3. q[2] < pos[q[1]] BY <1>1, <2>2, PlacesInTime
  <2>4. Group!IsAccess(Group!At(p, q)) BY <2>2 DEF Group!IsAccess
  <2> QED BY <2>2, <2>3, <2>4 DEF Written, Accessed
<1>20. ASSUME x \notin conflicts'
       PROVE  Written(p, x) \subseteq Group!WritesBefore(p, z)
  <2>1. SUFFICES ASSUME NEW q \in Written(p, x) PROVE q \in Group!WritesBefore(p, z)
    OBVIOUS
  <2>2. q \in A /\ Group!At(p, q) = [op |-> "write", at |-> x] BY DEF Written, A
  <2>3. q[1] = i => q[2] < pos[i] BY <1>10, <2>2
  <2>4. q[1] # i => Group!EpochOf(p, q) # e
    <3>1. SUFFICES ASSUME q[1] # i, Group!EpochOf(p, q) = e PROVE FALSE OBVIOUS
    <3>2. q \in Accessed(p)' /\ z \in Accessed(p)' BY <1>8, <2>2 DEF A
    <3>3. \A r, s \in Accessed(p)' : r[1] # s[1] /\ Group!At(p, r).at = Group!At(p, s).at
            /\ Group!EpochOf(p, r) = Group!EpochOf(p, s) /\ Group!At(p, r).op = "write"
            => Group!Conflict(p, r, s)
      BY DEF Accessed, Group!Conflict
    <3>4. Group!Conflict(p, q, z) BY <1>5, <1>11, <2>2, <3>1, <3>2, <3>3
    <3>5. Group!At(p, q).at \in conflicts' BY <1>5, <1>9, <3>1, <3>2, <3>4 DEF Tracked
    <3> QED BY <1>20, <2>2, <3>5
  <2>5. q[1] = i \/ Group!EpochOf(p, q) < e
    <3>1. Group!EpochOf(p, q) \in Nat /\ Group!EpochOf(p, q) =< e BY <1>10, <2>2
    <3> QED BY <2>4, <3>1
  <2>6. q \in Group!Places(p) BY <2>2 DEF A, Accessed
  <2> QED BY <1>5, <1>11, <2>2, <2>3, <2>5, <2>6 DEF Group!WritesBefore
<1>21. Found(p)'
  <2>1. Results(p, i, pos[i] + 1) = Results(p, i, pos[i]) + 1 /\ Results(p, i, pos[i]) \in Nat
    <3>1. p \in Group!Programs BY <1>1 DEF Typed
    <3>2. p[i][pos[i]].op \in {"read", "combine"} BY <1>2
    <3>3. /\ Results(p, i, pos[i]) \in Nat
          /\ Results(p, i, pos[i] + 1)
               = Results(p, i, pos[i]) + (IF p[i][pos[i]].op \in {"read", "combine"} THEN 1 ELSE 0)
      BY <1>5, <3>1, ResultsGrow
    <3> QED BY <3>2, <3>3
  <2>2. verdict = "running" BY <1>1, <1>2 DEF Typed
  <2>3. \A j \in Group!Invocations : Len(log[j]) = Results(p, j, pos[j]) BY <1>1, <2>2 DEF Found
  <2>4. ASSUME NEW j \in Group!Invocations PROVE Len(log'[j]) = Results(p, j, pos'[j])
    <3>1. CASE j = i BY <1>13, <1>14, <2>1, <2>3, <3>1
    <3>2. CASE j # i BY <1>13, <1>14, <2>3, <3>2
    <3> QED BY <3>1, <3>2
  <2>5. ASSUME NEW q \in undefined'
        PROVE  q \in A' /\ Group!At(p, q).op = "read" /\ Group!WritesBefore(p, q) = {}
    <3>1. CASE q \in undefined BY <1>1, <1>8, <3>1 DEF Found, A
    <3>2. CASE q = z /\ x \notin defined
      <4>1. Written(p, x) = {} BY <1>1, <1>6, <3>2 DEF Stored
      <4>2. Group!WritesBefore(p, z) = {} BY <1>19, <4>1
      <4> QED BY <1>8, <1>11, <3>2, <4>2
    <3> QED BY <1>7, <2>5, <3>1, <3>2
  <2>6. ASSUME NEW q \in A', Group!At(p, q).op = "read", q \notin undefined',
               Group!At(p, q).at \notin conflicts'
        PROVE  Latest(p, log'[q[1]][Results(p, q[1], q[2]) + 1], Group!WritesBefore(p, q))
    <3>1. CASE q \in A
      <4>1. Latest(p, log[q[1]][Results(p, q[1], q[2]) + 1], Group!WritesBefore(p, q))
        BY <1>1, <1>7, <1>12, <2>2, <2>6, <3>1 DEF Found, A
      <4>2. CASE q[1] # i BY <1>10, <1>14, <3>1, <4>1, <4>2
      <4>3. CASE q[1] = i
        <5>1. q[2] \in 1 .. Len(p[i]) /\ q[2] \in Int /\ q[2] < pos[i] /\ p[i][q[2]].op = "read"
          BY <1>10, <2>6, <3>1, <4>3
        <5>2. p \in Group!Programs /\ p[i][q[2]].op \in {"read", "combine"} BY <1>1, <5>1 DEF Typed
        <5>3. pos[i] \in 1 .. Len(p[i]) + 1 BY <1>2, <1>5
        <5>4. Results(p, i, q[2]) + 1 \in 1 .. Len(log[i]) BY <2>3, <5>1, <5>2, <5>3, ResultsBehind
        <5> QED BY <1>14, <4>1, <4>3, <5>4
      <4> QED BY <4>2, <4>3
    <3>2. CASE q = z
      <4>1. x \in defined /\ x \notin conflicts' /\ x \notin conflicts
        BY <1>7, <1>11, <1>12, <2>6, <3>2
      <4>2. Group!WritesBefore(p, z) = Written(p, x) BY <1>19, <1>20, <4>1
      <4>3. Latest(p, shared[x], Written(p, x)) BY <1>1, <4>1 DEF Stored
      <4>4. log'[i][Results(p, i, pos[i]) + 1] = shared[x] BY <1>14, <2>3
      <4> QED BY <1>11, <3>2, <4>2, <4>3, <4>4
    <3> QED BY <1>8, <2>6, <3>1, <3>2
  <2>7. ASSUME NEW j \in Group!Invocations, NEW k \in 1 .. Len(p[j]), k < pos'[j],
               p[j][k].op = "combine"
        PROVE  log'[j][Results(p, j, k) + 1] = Folded(p, j, Epoch(p, j, k))
    <3>1. CASE j = i
      <4>1. k < pos[i] /\ k \in Nat
        <5>1. k # pos[i] /\ k \in Nat BY <1>2, <2>7, <3>1
        <5> QED BY <1>2, <1>13, <2>7, <3>1, <5>1
      <4>2. pos[i] \in 1 .. Len(p[i]) + 1 /\ p \in Group!Programs BY <1>1, <1>2, <1>5 DEF Typed
      <4>3. Results(p, i, k) + 1 \in 1 .. Len(log[i]) BY <2>3, <2>7, <3>1, <4>1, <4>2, ResultsBehind
      <4>4. log[i][Results(p, i, k) + 1] = Folded(p, i, Epoch(p, i, k))
        BY <1>1, <2>2, <2>7, <3>1, <4>1 DEF Found
      <4> QED BY <1>14, <3>1, <4>3, <4>4
    <3>2. CASE j # i
      <4>1. k < pos[j] /\ log'[j] = log[j] BY <1>13, <1>14, <2>7, <3>2
      <4> QED BY <1>1, <2>2, <2>7, <4>1 DEF Found
    <3> QED BY <3>1, <3>2
  <2> QED BY <2>4, <2>5, <2>6, <2>7 DEF Found, A, Latest, Results, Num
<1> QED BY <1>1, <1>9, <1>15, <1>16, <1>18, <1>21 DEF InEpoch, Whole

-----------------------------------------------------------------------------
LEMMA BeginSteps ==
  ASSUME NEW p, NEW e \in Nat, InEpoch(p, e), NEW i \in Group!Invocations, Group!Begin(i)
  PROVE  InEpoch(p, e)'
<1>1. Typed(p) /\ Frame(p, e) /\ Tracked(p, e) /\ Stored(p) /\ Found(p) /\ Whole(p, e)
  BY DEF InEpoch
<1>2. /\ verdict = "running" /\ running = {} /\ i \in turn /\ running' = {i} /\ turn' = turn \ {i}
      /\ UNCHANGED <<work, group, pos, done, shared, defined, touched, stamp, conflicts, undefined,
                     log, verdict>>
  BY DEF Group!Begin, Group!tracker
<1>3. Accessed(p)' = Accessed(p) BY <1>2 DEF Accessed
<1>4. i \notin done /\ \A q \in Accessed(p) : q[1] = i => Group!EpochOf(p, q) < e
  BY <1>1, <1>2 DEF Frame
<1>5. Typed(p)' BY <1>1, <1>2 DEF Typed
<1>6. Frame(p, e)'
  <2>1. ASSUME NEW j \in Group!Invocations
        PROVE  /\ j \notin done => Epoch(p, j, pos[j]) = e
               /\ j \in done =>
                    pos[j] = Len(p[j]) + 1 /\ Epoch(p, j, pos[j]) =< e /\ j \notin turn' \union running'
               /\ j \in turn' =>
                    j \notin running' /\ \A q \in Accessed(p) : q[1] = j => Group!EpochOf(p, q) < e
               /\ j \notin done \union turn' \union running' =>
                    pos[j] =< Len(p[j]) /\ ~Group!IsAccess(p[j][pos[j]])
    BY <1>1, <1>2, <1>4 DEF Frame
  <2>2. \A j, k \in running' : j = k BY <1>2
  <2> QED BY <1>2, <1>3, <2>1, <2>2 DEF Frame, Epoch
<1>7. Tracked(p, e)'
  <2>1. ASSUME NEW x \in Elements PROVE Entry(p, e, x)'
    <3>1. InWindow(p, x, e)' = InWindow(p, x, e) BY <1>3 DEF InWindow
    <3>2. Entry(p, e, x) BY <1>1 DEF Tracked
    <3>3. \A q \in InWindow(p, x, e) : q \in Accessed(p) /\ Group!EpochOf(p, q) = e BY DEF InWindow
    <3>4. \A q \in InWindow(p, x, e) : q[1] # i BY <1>4, <3>3
    <3>5. touched[x].stamp = stamp => touched[x].by \notin running' BY <1>2, <3>2, <3>4 DEF Entry
    <3> QED BY <1>2, <3>1, <3>2, <3>5 DEF Entry
  <2> QED BY <1>1, <1>2, <1>3, <2>1 DEF Tracked
<1>8. Stored(p)' BY <1>1, <1>2, <1>3 DEF Stored, Written, Latest
<1>9. Found(p)' BY <1>1, <1>2, <1>3 DEF Found, Latest, Results, Num
<1> QED BY <1>1, <1>5, <1>6, <1>7, <1>8, <1>9 DEF InEpoch, Whole

LEMMA YieldSteps ==
  ASSUME NEW p, NEW e \in Nat, InEpoch(p, e), Group!prog = p, NEW i \in Group!Invocations,
         Group!Yield(i)
  PROVE  InEpoch(p, e)'
<1>1. Typed(p) /\ Frame(p, e) /\ Tracked(p, e) /\ Stored(p) /\ Found(p) /\ Whole(p, e)
  BY DEF InEpoch
<1>2. Len(p[i]) \in Nat /\ pos[i] \in 1 .. Len(p[i]) + 1 BY <1>1, PathsAreSequences DEF Typed
<1>3. /\ i \in running /\ running' = {}
      /\ done' = IF pos[i] > Len(p[i]) THEN done \union {i} ELSE done
      /\ pos[i] =< Len(p[i]) => ~Group!IsAccess(p[i][pos[i]])
      /\ UNCHANGED <<work, group, pos, turn, shared, defined, touched, stamp, conflicts, undefined,
                     log, verdict>>
  BY <1>2 DEF Group!Yield, Group!AtEnd, Group!Here, Group!tracker
<1>4. Accessed(p)' = Accessed(p) BY <1>3 DEF Accessed
<1>5. running = {i} /\ i \notin done /\ i \notin turn /\ Epoch(p, i, pos[i]) = e BY <1>1, <1>3 DEF Frame
<1>6. Typed(p)' BY <1>1, <1>3 DEF Typed
<1>7. Frame(p, e)'
  <2>1. ASSUME NEW j \in Group!Invocations
        PROVE  /\ j \notin done' => Epoch(p, j, pos[j]) = e
               /\ j \in done' =>
                    pos[j] = Len(p[j]) + 1 /\ Epoch(p, j, pos[j]) =< e /\ j \notin turn \union running'
               /\ j \in turn =>
                    j \notin running' /\ \A q \in Accessed(p) : q[1] = j => Group!EpochOf(p, q) < e
               /\ j \notin done' \union turn \union running' =>
                    pos[j] =< Len(p[j]) /\ ~Group!IsAccess(p[j][pos[j]])
    <3>1. CASE j = i BY <1>2, <1>3, <1>5, <3>1
    <3>2. CASE j # i BY <1>1, <1>3, <1>5, <3>2 DEF Frame
    <3> QED BY <3>1, <3>2
  <2>2. \A j, k \in running' : j = k BY <1>3
  <2> QED BY <1>3, <1>4, <2>1, <2>2 DEF Frame, Epoch
<1>8. Tracked(p, e)'
  <2>1. ASSUME NEW x \in Elements PROVE Entry(p, e, x)'
    <3>1. InWindow(p, x, e)' = InWindow(p, x, e) BY <1>4 DEF InWindow
    <3>2. Entry(p, e, x) BY <1>1 DEF Tracked
    <3> QED BY <1>3, <3>1, <3>2 DEF Entry
  <2> QED BY <1>1, <1>3, <1>4, <2>1 DEF Tracked
<1>9. Stored(p)' BY <1>1, <1>3, <1>4 DEF Stored, Written, Latest
<1>10. Found(p)' BY <1>1, <1>3, <1>4 DEF Found, Latest, Results, Num
<1> QED BY <1>1, <1>6, <1>7, <1>8, <1>9, <1>10 DEF InEpoch, Whole

\* Where an invocation stands when an epoch is over: at the rendezvous that ends it.
LEMMA WaitsAt ==
  ASSUME NEW p, NEW e \in Nat, Typed(p), Frame(p, e), turn = {}, running = {},
         NEW i \in Group!Invocations
  PROVE  /\ i \notin done => /\ pos[i] \in 1 .. Len(p[i]) /\ ~Group!IsAccess(p[i][pos[i]])
                             /\ Epoch(p, i, pos[i]) = e
         /\ \A k \in 1 .. Len(p[i]) :
              ~Group!IsAccess(p[i][k]) /\ Epoch(p, i, k) = e => i \notin done /\ k = pos[i]
<1>1. p \in Group!Programs /\ pos[i] \in 1 .. Len(p[i]) + 1 BY DEF Typed
<1>2. Len(p[i]) \in Nat /\ pos[i] \in Nat BY <1>1, PathsAreSequences
<1>3. i \notin done => /\ pos[i] \in 1 .. Len(p[i]) /\ ~Group!IsAccess(p[i][pos[i]])
                       /\ Epoch(p, i, pos[i]) = e
  BY <1>1, <1>2 DEF Frame
<1>4. ASSUME NEW k \in 1 .. Len(p[i]), ~Group!IsAccess(p[i][k]), Epoch(p, i, k) = e
      PROVE  i \notin done /\ k = pos[i]
  <2>1. k \in 1 .. Len(p[i]) + 1 /\ k \in Nat BY <1>2
  <2>2. Epoch(p, i, k) \in Nat /\ Epoch(p, i, pos[i]) \in Nat
        /\ (k < pos[i] => Epoch(p, i, k) < Epoch(p, i, pos[i]))
    BY <1>1, <1>4, <2>1, EpochsMonotone
  <2>3. i \notin done
    <3>1. SUFFICES ASSUME i \in done PROVE FALSE OBVIOUS
    <3>2. pos[i] = Len(p[i]) + 1 /\ Epoch(p, i, pos[i]) =< e BY <3>1 DEF Frame
    <3> QED BY <1>2, <1>4, <2>1, <2>2, <3>2
  <2>4. pos[i] < k => Epoch(p, i, pos[i]) < Epoch(p, i, k)
    BY <1>1, <1>3, <2>1, <2>3, EpochsMonotone
  <2> QED BY <1>2, <1>3, <1>4, <2>1, <2>2, <2>3, <2>4
<1> QED BY <1>3, <1>4

\* What an invocation stops at in an epoch.
LEMMA StopsAre ==
  ASSUME NEW p \in Group!Programs, NEW i \in Group!Invocations, NEW d
  PROVE  Group!Stop(p, i, d) = {p[i][k] : k \in {k \in 1 .. Len(p[i]) :
                                 Epoch(p, i, k) = d /\ ~Group!IsAccess(p[i][k])}}
<1>1. ASSUME NEW q \in Group!Places(p), q[1] = i, Group!EpochOf(p, q) = d,
             ~Group!IsAccess(Group!At(p, q))
      PROVE  /\ q[2] \in 1 .. Len(p[i]) /\ Epoch(p, i, q[2]) = d /\ ~Group!IsAccess(p[i][q[2]])
             /\ Group!At(p, q) = p[i][q[2]]
  <2>1. q = <<i, q[2]>> /\ q[2] \in 1 .. Len(p[i]) BY <1>1, PlacesAre DEF Place
  <2>2. Epoch(p, i, q[2]) = d BY <1>1, <2>1 DEF Epoch
  <2>3. Group!At(p, q) = p[i][q[2]] BY <1>1 DEF Group!At
  <2> QED BY <1>1, <2>1, <2>2, <2>3
<1>2. ASSUME NEW k \in 1 .. Len(p[i]), Epoch(p, i, k) = d, ~Group!IsAccess(p[i][k])
      PROVE  /\ <<i, k>> \in Group!Places(p) /\ <<i, k>>[1] = i /\ Group!EpochOf(p, <<i, k>>) = d
             /\ Group!At(p, <<i, k>>) = p[i][k]
  <2>1. Place(p, <<i, k>>) BY DEF Place
  <2> QED BY <1>2, <2>1, PlacesAre DEF Epoch, Group!At
<1>3. ASSUME NEW s \in Group!Stop(p, i, d)
      PROVE  \E k \in 1 .. Len(p[i]) : s = p[i][k] /\ Epoch(p, i, k) = d /\ ~Group!IsAccess(p[i][k])
  <2>1. PICK q \in Group!Places(p) : /\ s = Group!At(p, q) /\ q[1] = i
                                     /\ Group!EpochOf(p, q) = d /\ ~Group!IsAccess(Group!At(p, q))
    BY <1>3 DEF Group!Stop
  <2> QED BY <1>1, <2>1
<1>4. ASSUME NEW k \in 1 .. Len(p[i]), Epoch(p, i, k) = d, ~Group!IsAccess(p[i][k])
      PROVE  p[i][k] \in Group!Stop(p, i, d)
  BY <1>2, <1>4 DEF Group!Stop
<1> QED BY <1>3, <1>4

LEMMA StopsNow ==
  ASSUME NEW p, NEW e \in Nat, Typed(p), Frame(p, e), turn = {}, running = {},
         NEW i \in Group!Invocations
  PROVE  Group!Stop(p, i, e) = IF i \in done THEN {} ELSE {p[i][pos[i]]}
<1>1. Group!Stop(p, i, e) = {p[i][k] : k \in {k \in 1 .. Len(p[i]) :
                               Epoch(p, i, k) = e /\ ~Group!IsAccess(p[i][k])}}
  BY StopsAre DEF Typed
<1> QED BY <1>1, WaitsAt

\* What the scheduler combines is what the program says.
LEMMA CombinedIsFolded ==
  ASSUME NEW p, NEW e \in Nat, Typed(p), Frame(p, e), turn = {}, running = {}, Group!prog = p,
         NEW i \in Group!Combining
  PROVE  Group!Combined(i) = Folded(p, i, e)
<1>1. i \in Group!Invocations /\ i \in Group!Lanes(i)
  BY DEF Group!Combining, Group!Active, Group!Lanes
<1>2. Group!Combining \intersect Group!Lanes(i) = CombinesAt(p, i, e)
  <2>1. ASSUME NEW j \in Group!Invocations
        PROVE  j \in Group!Combining <=>
                 \E k \in 1 .. Len(p[j]) : p[j][k].op = "combine" /\ Epoch(p, j, k) = e
    <3>1. j \in Group!Combining <=> j \notin done /\ p[j][pos[j]].op = "combine"
      BY DEF Group!Combining, Group!Active, Group!Here
    <3>2. \A k \in 1 .. Len(p[j]) : p[j][k].op = "combine" => ~Group!IsAccess(p[j][k])
      BY DEF Group!IsAccess
    <3> QED BY <3>1, <3>2, WaitsAt
  <2> QED BY <2>1 DEF CombinesAt, Group!Lanes
<1>3. ASSUME NEW j \in CombinesAt(p, i, e) PROVE StopAt(p, j, e) = pos[j]
  <2>1. j \in Group!Invocations /\ j \notin done
    BY <1>2 DEF Group!Combining, Group!Active
  <2>2. \A k \in 1 .. Len(p[j]) : ~Group!IsAccess(p[j][k]) /\ Epoch(p, j, k) = e <=> k = pos[j]
    BY <2>1, WaitsAt
  <2>3. pos[j] \in 1 .. Len(p[j]) BY <2>1, WaitsAt
  <2> QED BY <2>2, <2>3 DEF StopAt
<1> DEFINE set == CombinesAt(p, i, e)
           lanes == Group!InLaneOrder(set)
<1>4. IsFiniteSet(set) /\ lanes \in [1 .. Cardinality(set) -> set]
  <2>1. set \in SUBSET Group!Invocations BY DEF CombinesAt, Group!Lanes
  <2> QED BY <2>1, LanesHaveAnOrder
<1>5. i \in set BY <1>1, <1>2
<1> HIDE DEF set
<1>6. Cardinality(set) \in Nat /\ 1 \in 1 .. Cardinality(set)
  <2>1. Cardinality(set) \in Nat /\ Cardinality(set) # 0
    BY <1>4, <1>5, FS_CardinalityType, FS_EmptySet
  <2> QED BY <2>1
<1>7. DOMAIN lanes = 1 .. Cardinality(set) /\ lanes[1] \in set
      /\ \A k \in 1 .. Cardinality(set) : lanes[k] \in set
  BY <1>4, <1>6
<1>8. Group!Combined(i) = <<p[lanes[1]][pos[lanes[1]]].at,
                            [k \in DOMAIN lanes |-> <<lanes[k], pos[lanes[k]]>>]>>
  BY <1>2 DEF Group!Combined, Group!Here, set
<1>9. Folded(p, i, e) = <<p[lanes[1]][StopAt(p, lanes[1], e)].at,
                          [k \in DOMAIN lanes |-> <<lanes[k], StopAt(p, lanes[k], e)>>]>>
  BY DEF Folded, set
<1> HIDE DEF lanes
<1>10. StopAt(p, lanes[1], e) = pos[lanes[1]]
       /\ \A k \in DOMAIN lanes : StopAt(p, lanes[k], e) = pos[lanes[k]]
  BY <1>3, <1>7 DEF set
<1> QED BY <1>8, <1>9, <1>10

\* What checkArrival lets through: the barriers it holds everybody to have everybody.
LEMMA ArrivedIsWhole ==
  ASSUME NEW p, NEW e \in Nat, Typed(p), Frame(p, e), turn = {}, running = {}, Group!prog = p,
         Group!Arrived, Whole(p, e)
  PROVE  Whole(p, e + 1)
<1>1. ASSUME NEW i \in Group!Invocations, NEW s \in Group!Stop(p, i, e)
      PROVE  i \notin done /\ s = Group!Here(i) /\ (Group!IsBarrier(s) => i \in Group!Waiting)
  <2>1. i \notin done /\ s = Group!Here(i) BY <1>1, StopsNow DEF Group!Here
  <2>2. Group!IsBarrier(s) => Group!Here(i).op # "combine" BY <2>1 DEF Group!IsBarrier
  <2> QED BY <2>1, <2>2 DEF Group!Waiting, Group!Active, Group!Combining
<1>2. ASSUME NEW i \in Group!Invocations, NEW s \in Group!Stop(p, i, e), Group!IsBarrier(s),
             NEW j \in Group!Lanes(i)
      PROVE  Group!Stop(p, j, e) = {s}
  <2>1. j \in Group!Invocations /\ i \in Group!Lanes(i) BY DEF Group!Lanes
  <2>2. i \notin done /\ s = Group!Here(i) /\ i \in Group!Waiting BY <1>1, <1>2
  <2>3. \E stop : ~Group!Elsewhere(i, stop) /\ ~Group!Elsewhere(j, stop)
    <3>1. CASE Group!SubgroupArrived BY <2>1, <2>2, <3>1 DEF Group!SubgroupArrived
    <3>2. CASE \E stop : \A k \in Group!Invocations : ~Group!Elsewhere(k, stop) BY <2>1, <3>2
    <3> QED BY <2>2, <3>1, <3>2 DEF Group!Arrived
  <2>4. j \notin done /\ Group!Here(j) = s BY <2>2, <2>3 DEF Group!Elsewhere
  <2> QED BY <2>1, <2>4, StopsNow DEF Group!Here
<1>3. ASSUME NEW i \in Group!Invocations, NEW s \in Group!Stop(p, i, e), s.op = "barrier"
      PROVE  \/ \A j \in Group!Invocations : Group!Stop(p, j, e) = {s}
             \/ \E j \in Group!Invocations :
                  j < i /\ \E t \in Group!Stop(p, j, e) : t.op = "subgroupBarrier"
  <2> DEFINE first == Group!Min(Group!Waiting)
  <2>1. s = Group!Here(i) /\ i \in Group!Waiting BY <1>1, <1>3 DEF Group!IsBarrier
  <2>2. Group!Waiting \subseteq 0 .. Size - 1 /\ Size \in Nat
    BY GroupAssumption DEF Group!KernelAssumption, Group!Waiting, Group!Active, Group!Invocations
  <2>3. first \in Group!Waiting /\ first =< i
    <3>1. \E k \in Group!Waiting : \A l \in Group!Waiting : k =< l
      <4> DEFINE waiters == Group!Waiting
      <4>1. waiters \in SUBSET Nat /\ waiters # {} BY <2>1, <2>2
      <4> HIDE DEF waiters
      <4>2. \E k \in waiters : \A l \in waiters : k =< l BY <4>1, LeastOfNaturals
      <4> QED BY <4>2 DEF waiters
    <3> HIDE DEF Group!Waiting
    <3> QED BY <2>1, <3>1 DEF Group!Min
  <2> HIDE DEF first
  <2>4. first \in Group!Invocations /\ first \notin done
    BY <2>3 DEF Group!Waiting, Group!Active
  <2>5. CASE Group!Here(first).op = "subgroupBarrier"
    <3>1. Group!Here(first) \in Group!Stop(p, first, e) BY <2>4, StopsNow DEF Group!Here
    <3>2. first # i BY <1>3, <2>1, <2>5
    <3>3. first < i BY <2>2, <2>3, <2>1, <3>2
    <3> QED BY <2>4, <2>5, <3>1, <3>3
  <2>6. CASE Group!Here(first).op # "subgroupBarrier"
    <3>1. \A j \in Group!Invocations : ~Group!Elsewhere(j, Group!Here(first))
      BY <2>1, <2>6 DEF Group!Arrived, first
    <3>2. Group!Here(first) = s BY <2>1, <3>1, <1>3 DEF Group!Elsewhere
    <3>3. \A j \in Group!Invocations : j \notin done /\ Group!Here(j) = s
      BY <3>1, <3>2 DEF Group!Elsewhere
    <3> QED BY <3>3, StopsNow DEF Group!Here
  <2> QED BY <2>5, <2>6
<1>4. \A d \in Nat : d < e + 1 <=> d < e \/ d = e OBVIOUS
<1> QED BY <1>2, <1>3, <1>4 DEF Whole

LEMMA EndEpochSteps ==
  ASSUME NEW p, NEW e \in Nat, InEpoch(p, e), Group!prog = p, Group!EndEpoch
  PROVE  InEpoch(p, e)' \/ InEpoch(p, e + 1)'
<1>1. Typed(p) /\ Frame(p, e) /\ Tracked(p, e) /\ Stored(p) /\ Found(p) /\ Whole(p, e)
  BY DEF InEpoch
<1>2. /\ verdict = "running" /\ running = {} /\ turn = {}
      /\ UNCHANGED <<work, group, done, running, shared, defined, touched, conflicts, undefined>>
  BY DEF Group!EndEpoch, Group!EpochOver
<1>3. ASSUME NEW i \in Group!Invocations
      PROVE  /\ IsSeq(log'[i])
             /\ Len(log'[i]) = Len(log[i]) + (IF i \in Group!Combining THEN 1 ELSE 0)
             /\ Len(log[i]) \in Nat /\ \A k \in 1 .. Len(log[i]) : log'[i][k] = log[i][k]
  <2>1. log'[i] = IF i \in Group!Combining THEN Append(log[i], Group!Combined(i)) ELSE log[i]
    BY DEF Group!EndEpoch
  <2>2. IsSeq(log[i]) BY <1>1 DEF Typed
  <2>3. Len(log[i]) \in Nat BY <2>2 DEF IsSeq
  <2>4. CASE i \in Group!Combining
    <3>1. log'[i] = Append(log[i], Group!Combined(i)) BY <2>1, <2>4
    <3> QED BY <2>2, <2>3, <2>4, <3>1, AppendExtends
  <2>5. CASE i \notin Group!Combining
    <3>1. log'[i] = log[i] BY <2>1, <2>5
    <3> QED BY <2>2, <2>3, <2>5, <3>1
  <2> QED BY <2>4, <2>5
<1>4. log' = [i \in Group!Invocations |-> log'[i]] BY DEF Group!EndEpoch
<1>5. \A i \in Group!Invocations : Len(log[i]) = Results(p, i, pos[i]) BY <1>1, <1>2 DEF Found
<1>6. CASE ~Group!Arrived
  <2>1. verdict' = "arrival" /\ UNCHANGED <<stamp, turn, pos>> BY <1>6 DEF Group!EndEpoch
  <2>2. Accessed(p)' = Accessed(p) BY <2>1 DEF Accessed
  <2>3. Typed(p)' BY <1>1, <1>2, <1>3, <1>4, <2>1 DEF Typed
  <2>4. Frame(p, e)' BY <1>1, <1>2, <2>1, <2>2 DEF Frame, Epoch
  <2>5. Tracked(p, e)'
    <3>1. ASSUME NEW x \in Elements PROVE Entry(p, e, x)'
      <4>1. InWindow(p, x, e)' = InWindow(p, x, e) BY <2>2 DEF InWindow
      <4>2. Entry(p, e, x) BY <1>1 DEF Tracked
      <4> QED BY <1>2, <2>1, <4>1, <4>2 DEF Entry
    <3> QED BY <1>1, <1>2, <2>2, <3>1 DEF Tracked
  <2>6. Stored(p)' BY <1>1, <1>2, <2>2 DEF Stored, Written, Latest
  <2>7. Found(p)' BY <1>1, <1>2, <2>1, <2>2 DEF Found
  <2> QED BY <1>1, <2>3, <2>4, <2>5, <2>6, <2>7 DEF InEpoch, Whole
<1>7. CASE Group!Arrived
  <2>1. /\ stamp' = stamp + 1 /\ turn' = Group!Invocations \ done /\ verdict' = verdict
        /\ pos' = [i \in Group!Invocations |-> IF i \in Group!Invocations \ done THEN pos[i] + 1 ELSE pos[i]]
    BY <1>7 DEF Group!EndEpoch, Group!Active
  <2>2. ASSUME NEW i \in Group!Invocations, i \notin done
        PROVE  /\ pos[i] \in 1 .. Len(p[i]) /\ Len(p[i]) \in Nat /\ ~Group!IsAccess(p[i][pos[i]])
               /\ Epoch(p, i, pos[i]) = e /\ Epoch(p, i, pos[i] + 1) = e + 1
               /\ pos'[i] = pos[i] + 1
               /\ i \in Group!Combining <=> p[i][pos[i]].op \in {"read", "combine"}
    <3>1. pos[i] =< Len(p[i]) /\ ~Group!IsAccess(p[i][pos[i]]) /\ Epoch(p, i, pos[i]) = e
      BY <1>1, <1>2, <2>2 DEF Frame
    <3>2. Len(p[i]) \in Nat /\ p \in Group!Programs BY <1>1, PathsAreSequences DEF Typed
    <3>3. pos[i] \in 1 .. Len(p[i]) BY <1>1, <3>1, <3>2 DEF Typed
    <3>4. Epoch(p, i, pos[i] + 1) = Epoch(p, i, pos[i]) + (IF Group!IsAccess(p[i][pos[i]]) THEN 0 ELSE 1)
      BY <3>2, <3>3, EpochsGrow
    <3>5. i \in Group!Combining <=> p[i][pos[i]].op \in {"read", "combine"}
      BY <2>2, <3>1 DEF Group!Combining, Group!Active, Group!Here, Group!IsAccess
    <3> QED BY <2>1, <2>2, <3>1, <3>2, <3>3, <3>4, <3>5
  <2>3. \A i \in Group!Invocations : i \in done => pos'[i] = pos[i] /\ i \notin Group!Combining
    BY <2>1 DEF Group!Combining, Group!Active
  <2>4. Accessed(p)' = Accessed(p)
    <3>1. \A i \in Group!Invocations :
            pos'[i] = pos[i] \/ (pos'[i] = pos[i] + 1 /\ ~Group!IsAccess(p[i][pos[i]]))
      BY <2>2, <2>3
    <3> QED BY <1>1, <3>1, AccessedStays
  <2>5. ASSUME NEW i \in Group!Invocations
        PROVE  pos'[i] \in 1 .. Len(p[i]) + 1 /\ Len(log'[i]) = Results(p, i, pos'[i])
    <3>1. pos[i] \in 1 .. Len(p[i]) + 1 BY <1>1 DEF Typed
    <3>2. CASE i \in done
      <4>1. pos'[i] = pos[i] /\ i \notin Group!Combining BY <2>3, <3>2
      <4>2. Len(log'[i]) = Len(log[i]) + 0 /\ Len(log[i]) \in Nat BY <1>3, <4>1
      <4>3. Len(log[i]) = Results(p, i, pos[i]) BY <1>5
      <4> QED BY <3>1, <4>1, <4>2, <4>3
    <3>3. CASE i \notin done
      <4>1. pos[i] \in 1 .. Len(p[i]) /\ Len(p[i]) \in Nat /\ pos'[i] = pos[i] + 1 BY <2>2, <3>3
      <4>2. /\ Results(p, i, pos[i]) \in Nat
            /\ Results(p, i, pos[i] + 1)
                 = Results(p, i, pos[i]) + (IF p[i][pos[i]].op \in {"read", "combine"} THEN 1 ELSE 0)
        BY <1>1, <4>1, ResultsGrow DEF Typed
      <4>3. i \in Group!Combining <=> p[i][pos[i]].op \in {"read", "combine"} BY <2>2, <3>3
      <4>4. Len(log'[i]) = Len(log[i]) + (IF i \in Group!Combining THEN 1 ELSE 0) BY <1>3
      <4>5. Len(log[i]) = Results(p, i, pos[i]) BY <1>5
      <4>6. Len(log'[i]) = Results(p, i, pos[i] + 1) BY <4>2, <4>3, <4>4, <4>5
      <4>7. pos[i] + 1 \in 1 .. Len(p[i]) + 1 BY <4>1
      <4> QED BY <4>1, <4>6, <4>7
    <3> QED BY <3>2, <3>3
  <2>6. Typed(p)'
    <3>1. pos' \in [Group!Invocations -> Nat]
      <4>1. \A i \in Group!Invocations : pos[i] \in Nat /\ pos[i] + 1 \in Nat BY <1>1 DEF Typed
      <4> QED BY <2>1, <4>1
    <3>2. turn' \subseteq Group!Invocations BY <2>1
    <3>3. stamp' \in Nat BY <1>1, <2>1 DEF Typed
    <3>4. running' = running /\ verdict' = verdict /\ shared' = shared /\ touched' = touched /\ done' = done
      BY <1>2, <2>1
    <3> QED BY <1>1, <1>3, <1>4, <2>5, <3>1, <3>2, <3>3, <3>4 DEF Typed
  <2>7. \A q \in Accessed(p) : Group!EpochOf(p, q) \in Nat /\ Group!EpochOf(p, q) =< e
    BY <1>1, AccessedAre
  <2>8. Frame(p, e + 1)'
    <3>1. ASSUME NEW i \in Group!Invocations
          PROVE  /\ i \notin done => Epoch(p, i, pos'[i]) = e + 1
                 /\ i \in done =>
                      pos'[i] = Len(p[i]) + 1 /\ Epoch(p, i, pos'[i]) =< e + 1 /\ i \notin turn' \union running
                 /\ i \in turn' => i \notin running
                 /\ i \in done \union turn' \union running
      <4>1. CASE i \in done
        <5>1. pos[i] = Len(p[i]) + 1 /\ Epoch(p, i, pos[i]) =< e BY <1>1, <4>1 DEF Frame
        <5>2. Epoch(p, i, pos[i]) \in Nat BY <1>1, EpochsMonotone DEF Typed
        <5> QED BY <1>2, <2>1, <2>3, <4>1, <5>1, <5>2
      <4>2. CASE i \notin done BY <1>2, <2>1, <2>2, <4>2
      <4> QED BY <4>1, <4>2
    <3>2. \A q \in Accessed(p) : Group!EpochOf(p, q) < e + 1 BY <2>7
    <3>3. running' = running /\ done' = done /\ \A i, j \in running : i = j BY <1>2
    <3> QED BY <2>4, <3>1, <3>2, <3>3 DEF Frame, Epoch
  <2>9. Tracked(p, e + 1)'
    <3>1. ASSUME NEW x \in Elements PROVE Entry(p, e + 1, x)'
      <4>1. InWindow(p, x, e + 1)' = {}
        <5>1. \A q \in Accessed(p) : Group!EpochOf(p, q) # e + 1 BY <2>7
        <5> QED BY <2>4, <5>1 DEF InWindow
      <4>2. touched[x].stamp =< stamp /\ touched[x].stamp \in Nat /\ stamp \in Nat
        BY <1>1 DEF Tracked, Entry, Typed
      <4>3. touched'[x].stamp =< stamp' /\ touched'[x].stamp # stamp' BY <1>2, <2>1, <4>2
      <4> QED BY <4>1, <4>3 DEF Entry
    <3> QED BY <1>1, <1>2, <2>4, <3>1 DEF Tracked
  <2>10. Stored(p)' BY <1>1, <1>2, <2>4 DEF Stored, Written, Latest
  <2>11. Found(p)'
    <3>1. undefined' \subseteq {q \in Accessed(p)' :
                                  Group!At(p, q).op = "read" /\ Group!WritesBefore(p, q) = {}}
      BY <1>1, <1>2, <2>4 DEF Found
    <3>2. ASSUME NEW q \in Accessed(p), Group!At(p, q).op = "read", q \notin undefined,
                 Group!At(p, q).at \notin conflicts
          PROVE  Latest(p, log'[q[1]][Results(p, q[1], q[2]) + 1], Group!WritesBefore(p, q))
      <4> DEFINE i == q[1]
                 k == q[2]
      <4>1. /\ i \in Group!Invocations /\ k \in 1 .. Len(p[i]) /\ k \in Int /\ k < pos[i]
            /\ p[i][k].op \in {"read", "combine"}
        BY <1>1, <3>2, AccessedAre
      <4>2. Latest(p, log[i][Results(p, i, k) + 1], Group!WritesBefore(p, q))
        BY <1>1, <1>2, <3>2 DEF Found
      <4> HIDE DEF i, k
      <4>3. p \in Group!Programs /\ pos[i] \in 1 .. Len(p[i]) + 1 BY <1>1, <4>1 DEF Typed
      <4>4. Results(p, i, k) + 1 \in 1 .. Len(log[i]) BY <1>5, <4>1, <4>3, ResultsBehind
      <4>5. log'[i][Results(p, i, k) + 1] = log[i][Results(p, i, k) + 1] BY <1>3, <4>1, <4>4
      <4> QED BY <4>2, <4>5 DEF i, k
    <3>3. ASSUME NEW i \in Group!Invocations, NEW k \in 1 .. Len(p[i]), k < pos'[i],
                 p[i][k].op = "combine"
          PROVE  log'[i][Results(p, i, k) + 1] = Folded(p, i, Epoch(p, i, k))
      <4>1. p \in Group!Programs /\ pos[i] \in 1 .. Len(p[i]) + 1 /\ k \in Nat /\ pos[i] \in Nat
            /\ p[i][k].op \in {"read", "combine"}
        BY <1>1, <3>3 DEF Typed
      <4>2. CASE k < pos[i]
        <5>1. Results(p, i, k) + 1 \in 1 .. Len(log[i]) BY <1>5, <4>1, <4>2, ResultsBehind
        <5>2. log[i][Results(p, i, k) + 1] = Folded(p, i, Epoch(p, i, k))
          BY <1>1, <1>2, <3>3, <4>2 DEF Found
        <5> QED BY <1>3, <5>1, <5>2
      <4>3. CASE ~(k < pos[i])
        <5>1. i \notin done BY <2>3, <3>3, <4>3
        <5>2. k = pos[i] BY <2>2, <3>3, <4>1, <4>3, <5>1
        <5>3. i \in Group!Combining /\ Epoch(p, i, k) = e BY <2>2, <4>1, <5>1, <5>2
        <5>4. log'[i] = Append(log[i], Group!Combined(i)) BY <5>3 DEF Group!EndEpoch
        <5>5. Group!Combined(i) = Folded(p, i, e) BY <1>1, <1>2, <5>3, CombinedIsFolded
        <5>6. IsSeq(log[i]) BY <1>1 DEF Typed
        <5>7. log'[i][Len(log[i]) + 1] = Group!Combined(i) BY <5>4, <5>6, AppendExtends
        <5> QED BY <1>5, <5>2, <5>3, <5>5, <5>7
      <4> QED BY <4>2, <4>3
    <3>4. undefined' = undefined /\ conflicts' = conflicts BY <1>2
    <3> QED BY <2>4, <2>5, <3>1, <3>2, <3>3, <3>4 DEF Found, Latest, Results, Num
  <2>12. Whole(p, e + 1) BY <1>1, <1>2, <1>7, ArrivedIsWhole
  <2> QED BY <2>6, <2>8, <2>9, <2>10, <2>11, <2>12 DEF InEpoch, Whole
<1> QED BY <1>6, <1>7

LEMMA FinishSteps ==
  ASSUME NEW p, NEW e \in Nat, InEpoch(p, e), Group!Finish
  PROVE  InEpoch(p, e)'
<1>1. Typed(p) /\ Frame(p, e) /\ Tracked(p, e) /\ Stored(p) /\ Found(p) /\ Whole(p, e)
  BY DEF InEpoch
<1>2. /\ verdict = "running" /\ running = {} /\ verdict' # "arrival"
      /\ UNCHANGED <<work, group, pos, done, turn, running, shared, defined, touched, stamp,
                     conflicts, undefined, log>>
  BY DEF Group!Finish, Group!EpochOver, Group!frames, Group!tracker
<1>3. Accessed(p)' = Accessed(p) BY <1>2 DEF Accessed
<1>4. Typed(p)' BY <1>1, <1>2 DEF Typed
<1>5. Frame(p, e)' BY <1>1, <1>2, <1>3 DEF Frame, Epoch
<1>6. Tracked(p, e)'
  <2>1. ASSUME NEW x \in Elements PROVE Entry(p, e, x)'
    <3>1. InWindow(p, x, e)' = InWindow(p, x, e) BY <1>3 DEF InWindow
    <3>2. Entry(p, e, x) BY <1>1 DEF Tracked
    <3> QED BY <1>2, <3>1, <3>2 DEF Entry
  <2> QED BY <1>1, <1>2, <1>3, <2>1 DEF Tracked
<1>7. Stored(p)' BY <1>1, <1>2, <1>3 DEF Stored, Written, Latest
<1>8. Found(p)' BY <1>1, <1>2, <1>3 DEF Found, Latest, Results, Num
<1> QED BY <1>1, <1>4, <1>5, <1>6, <1>7, <1>8 DEF InEpoch, Whole

Starting ==
  /\ pos = [i \in Group!Invocations |-> 1] /\ done = {} /\ turn = Group!Invocations /\ running = {}
  /\ shared = [x \in Elements |-> Group!Poison] /\ log = [i \in Group!Invocations |-> <<>>]
  /\ defined = {} /\ conflicts = {} /\ undefined = {}
  /\ touched \in [Elements -> [by : Int, wrote : BOOLEAN, stamp : Nat]] /\ stamp \in Nat
  /\ \A x \in Elements : touched[x].stamp < stamp

\* A workgroup starts as the first one does, whatever stale entries the tracker holds.
LEMMA GroupStarts == \A p \in Group!Programs : Starting => InEpoch(p, 0)
<1> SUFFICES ASSUME NEW p \in Group!Programs, Starting PROVE InEpoch(p, 0)
  OBVIOUS
<1> USE DEF Starting
<1>1. \A i \in Group!Invocations :
        Len(p[i]) \in Nat /\ Epoch(p, i, 1) = 0 /\ Results(p, i, 1) = 0 /\ pos[i] = 1
  BY PathsAreSequences, EpochsStart
<1>2. Accessed(p) = {}
  <2>1. ASSUME NEW q \in Accessed(p) PROVE FALSE
    <3>1. q \in Group!Places(p) /\ q[2] < pos[q[1]] BY DEF Accessed
    <3>2. q[1] \in Group!Invocations /\ q[2] \in 1 .. Len(p[q[1]]) BY <3>1, PlacesAre DEF Place
    <3> QED BY <1>1, <3>1, <3>2
  <2> QED BY <2>1
<1>3. Typed(p)
  <2>1. \A i \in Group!Invocations : IsSeq(log[i])
    <3>1. IsSeq(<<>>) BY DEF IsSeq
    <3> QED BY <3>1
  <2>2. \A i \in Group!Invocations : pos[i] \in 1 .. Len(p[i]) + 1 BY <1>1
  <2>3. 1 \in Nat OBVIOUS
  <2> QED BY <2>1, <2>2, <2>3 DEF Typed
<1>4. Frame(p, 0) BY <1>1, <1>2 DEF Frame
<1>5. Tracked(p, 0)
  <2>1. ASSUME NEW x \in Elements PROVE Entry(p, 0, x)
    <3>1. InWindow(p, x, 0) = {} BY <1>2 DEF InWindow
    <3>2. touched[x].stamp \in Nat /\ touched[x].stamp < stamp OBVIOUS
    <3> QED BY <3>1, <3>2 DEF Entry
  <2> QED BY <1>2, <2>1 DEF Tracked
<1>6. Stored(p) BY <1>2 DEF Stored, Written
<1>7. Found(p)
  <2>1. \A i \in Group!Invocations : Len(log[i]) = Results(p, i, pos[i]) BY <1>1
  <2> QED BY <1>2, <2>1 DEF Found
<1>8. Whole(p, 0) BY DEF Whole
<1> QED BY <1>3, <1>4, <1>5, <1>6, <1>7, <1>8 DEF InEpoch

LEMMA GroupStartsAgain == (\A p \in Group!Programs : Starting => InEpoch(p, 0))'
BY GroupStarts, PTL

-----------------------------------------------------------------------------
LEMMA GroupNextKeeps ==
  ASSUME GInv, Group!Next \/ UNCHANGED Group!vars
  PROVE  GInv'
<1>1. PICK p, e : p = Group!prog /\ e \in Nat /\ InEpoch(p, e) BY DEF GInv
<1>2. work \in Workloads /\ group \in 1 .. Len(work) /\ Ended BY DEF GInv
<1>3. work \in Seq(Group!Programs) /\ Len(work) \in Nat
  <2>1. Workloads \subseteq Seq(Group!Programs)
    BY GroupAssumption DEF Group!WorkloadsAssumption
  <2> HIDE DEF Group!Programs
  <2> QED BY <1>2, <2>1
<1>4. Typed(p) /\ Tracked(p, e) BY <1>1 DEF InEpoch
<1>5. ASSUME UNCHANGED <<work, group>>, Ended', NEW d \in Nat, InEpoch(p, d)' PROVE GInv'
  <2>1. p = Group!prog' BY <1>1, <1>5 DEF Group!prog
  <2> QED BY <1>2, <1>5, <2>1 DEF GInv
<1>6. ASSUME NEW i \in Group!Invocations, Group!Begin(i) PROVE GInv'
  <2>1. InEpoch(p, e)' BY <1>1, <1>6, BeginSteps
  <2>2. UNCHANGED <<work, group, verdict>> /\ verdict = "running" BY <1>6 DEF Group!Begin
  <2>3. Ended' BY <2>2 DEF Ended
  <2> QED BY <1>1, <1>5, <2>1, <2>2, <2>3
<1>7. ASSUME NEW i \in Group!Invocations, Group!Write(i) PROVE GInv'
  <2>1. InEpoch(p, e)' BY <1>1, <1>7, WriteSteps
  <2>2. UNCHANGED <<work, group, verdict>> /\ verdict = "running" BY <1>4, <1>7 DEF Group!Write, Typed
  <2>3. Ended' BY <2>2 DEF Ended
  <2> QED BY <1>1, <1>5, <2>1, <2>2, <2>3
<1>8. ASSUME NEW i \in Group!Invocations, Group!Read(i) PROVE GInv'
  <2>1. InEpoch(p, e)' BY <1>1, <1>8, ReadSteps
  <2>2. UNCHANGED <<work, group, verdict>> /\ verdict = "running" BY <1>4, <1>8 DEF Group!Read, Typed
  <2>3. Ended' BY <2>2 DEF Ended
  <2> QED BY <1>1, <1>5, <2>1, <2>2, <2>3
<1>9. ASSUME NEW i \in Group!Invocations, Group!Yield(i) PROVE GInv'
  <2>1. InEpoch(p, e)' BY <1>1, <1>9, YieldSteps
  <2>2. UNCHANGED <<work, group, verdict>> /\ verdict = "running" BY <1>4, <1>9 DEF Group!Yield, Typed
  <2>3. Ended' BY <2>2 DEF Ended
  <2> QED BY <1>1, <1>5, <2>1, <2>2, <2>3
<1>10. ASSUME Group!EndEpoch PROVE GInv'
  <2>1. InEpoch(p, e)' \/ InEpoch(p, e + 1)' BY <1>1, <1>10, EndEpochSteps
  <2>2. UNCHANGED <<work, group>> /\ verdict' \in {"running", "arrival"}
    BY <1>10 DEF Group!EndEpoch, Group!EpochOver
  <2>3. Ended' BY <2>2 DEF Ended
  <2>4. CASE InEpoch(p, e)' BY <1>1, <1>5, <2>2, <2>3, <2>4
  <2>5. CASE InEpoch(p, e + 1)'
    <3>1. e + 1 \in Nat BY <1>1
    <3> QED BY <1>1, <1>5, <2>2, <2>3, <2>5, <3>1
  <2> QED BY <2>1, <2>4, <2>5
<1>11. ASSUME Group!Finish PROVE GInv'
  <2>1. InEpoch(p, e)' BY <1>1, <1>11, FinishSteps
  <2>2. UNCHANGED <<work, group, done, conflicts, undefined>> /\ Group!Active = {}
        /\ verdict' = IF Group!Reported THEN "diagnosed" ELSE "clean"
    BY <1>11 DEF Group!Finish, Group!frames, Group!tracker
  <2>3. done = Group!Invocations BY <1>4, <2>2 DEF Group!Active, Typed
  <2>4. Ended' BY <2>2, <2>3 DEF Ended, Group!Reported
  <2> QED BY <1>1, <1>5, <2>1, <2>2, <2>4
<1>12. ASSUME Group!NextGroup PROVE GInv'
  <2>1. /\ group < Len(work) /\ group' = group + 1 /\ work' = work
        /\ running' = {} /\ verdict' = verdict /\ verdict = "running"
        /\ pos' = [i \in Group!Invocations |-> 1] /\ done' = {} /\ turn' = Group!Invocations
        /\ shared' = [x \in Elements |-> Group!Poison] /\ log' = [i \in Group!Invocations |-> <<>>]
        /\ defined' = {} /\ conflicts' = {} /\ undefined' = {} /\ stamp' = stamp + 1
        /\ touched' = touched
    BY <1>12 DEF Group!NextGroup, Group!EpochOver
  <2>2. group' \in 1 .. Len(work) BY <1>2, <1>3, <2>1
  <2>3. PICK n : n = work[group'] OBVIOUS
  <2>4. n \in Group!Programs
    <3> HIDE DEF Group!Programs
    <3> QED BY <1>3, <2>2, <2>3
  <2>5. touched \in [Elements -> [by : Int, wrote : BOOLEAN, stamp : Nat]] /\ stamp \in Nat
    BY <1>4 DEF Typed
  <2>6. \A x \in Elements : touched[x].stamp =< stamp BY <1>4 DEF Tracked, Entry
  <2>7. stamp' \in Nat /\ \A x \in Elements : touched'[x].stamp < stamp' BY <2>1, <2>5, <2>6
  <2>8. Starting' BY <2>1, <2>5, <2>7 DEF Starting
  <2>9. (\A m \in Group!Programs : Starting => InEpoch(m, 0))' BY GroupStartsAgain
  <2>10. InEpoch(n, 0)' BY <2>4, <2>8, <2>9
  <2>11. n = Group!prog' BY <2>1, <2>3 DEF Group!prog
  <2>12. Ended' BY <2>1 DEF Ended
  <2> QED BY <1>2, <2>1, <2>2, <2>10, <2>11, <2>12 DEF GInv
<1>13. CASE UNCHANGED Group!vars
  <2>1. UNCHANGED <<work, group, pos, done, turn, running, shared, defined, touched, stamp, conflicts,
                    undefined, log, verdict>>
    BY <1>13 DEF Group!vars
  <2>2. Accessed(p)' = Accessed(p) BY <2>1 DEF Accessed
  <2>3. Typed(p) /\ Frame(p, e) /\ Tracked(p, e) /\ Stored(p) /\ Found(p) /\ Whole(p, e)
    BY <1>1 DEF InEpoch
  <2>4. Typed(p)' BY <2>1, <2>3 DEF Typed
  <2>5. Frame(p, e)' BY <2>1, <2>2, <2>3 DEF Frame, Epoch
  <2>6. Tracked(p, e)' BY <2>1, <2>2, <2>3 DEF Tracked, Entry, InWindow
  <2>7. Stored(p)' BY <2>1, <2>2, <2>3 DEF Stored, Written, Latest
  <2>8. Found(p)' BY <2>1, <2>2, <2>3 DEF Found, Latest, Results, Num
  <2>9. InEpoch(p, e)' BY <2>3, <2>4, <2>5, <2>6, <2>7, <2>8 DEF InEpoch, Whole
  <2>10. Ended' BY <1>2, <2>1 DEF Ended
  <2> QED BY <1>1, <1>5, <2>1, <2>9, <2>10
<1> QED BY <1>6, <1>7, <1>8, <1>9, <1>10, <1>11, <1>12, <1>13 DEF Group!Next, Group!Advance

LEMMA GroupInitHolds ==
  ASSUME Group!Init PROVE GInv
<1>1. work \in Workloads /\ group = 1 /\ verdict = "running" BY DEF Group!Init
<1>2. work \in Seq(Group!Programs) \ {<<>>}
  BY <1>1, GroupAssumption DEF Group!WorkloadsAssumption
<1> HIDE DEF Group!Programs
<1>3. Len(work) \in Nat /\ 1 \in 1 .. Len(work) /\ work[1] \in Group!Programs
  <2>1. Len(work) \in Nat /\ Len(work) # 0 BY <1>2
  <2>2. 1 \in 1 .. Len(work) BY <2>1
  <2> QED BY <1>2, <2>1, <2>2
<1>4. Starting
  <2>1. \A x \in Elements : touched[x] = [by |-> 0, wrote |-> FALSE, stamp |-> 0]
    BY DEF Group!Init, Group!Untouched
  <2>2. touched \in [Elements -> [by : Int, wrote : BOOLEAN, stamp : Nat]]
    BY DEF Group!Init, Group!Untouched
  <2> QED BY <2>1, <2>2 DEF Group!Init, Starting
<1>5. InEpoch(work[1], 0) BY <1>3, <1>4, GroupStarts
<1>6. work[1] = Group!prog BY <1>1 DEF Group!prog
<1> QED BY <1>1, <1>3, <1>5, <1>6 DEF GInv, Ended

LEMMA OrderFollows ==
  ASSUME GInv PROVE Group!OrderDoesNotShow
<1>1. PICK p, e : p = Group!prog /\ e \in Nat /\ InEpoch(p, e) BY DEF GInv
<1>2. Typed(p) /\ Frame(p, e) /\ Tracked(p, e) /\ Stored(p) /\ Found(p) /\ Whole(p, e) /\ Ended
  BY <1>1 DEF InEpoch, GInv
<1>3. p \in Group!Programs BY <1>2 DEF Typed
<1>4. \A q \in Accessed(p) : q \in Group!Places(p) /\ Group!IsAccess(Group!At(p, q)) BY DEF Accessed
<1>5. conflicts = {Group!At(p, q).at : q \in {q \in Accessed(p) : \E r \in Accessed(p) :
        Group!Conflict(p, q, r) /\ Group!EpochOf(p, q) = Group!EpochOf(p, r)}}
  BY <1>2 DEF Tracked
<1>6. conflicts \subseteq Group!Contested(p) BY <1>4, <1>5 DEF Group!Contested
<1>7. ASSUME verdict \in {"clean", "diagnosed"}, NEW q \in Group!Places(p), Group!IsAccess(Group!At(p, q))
      PROVE  q \in Accessed(p)
  <2>1. Place(p, q) BY <1>3, PlacesAre
  <2>2. q[1] \in Group!Invocations /\ q[1] \in done BY <1>2, <1>7, <2>1 DEF Ended, Place
  <2>3. pos[q[1]] = Len(p[q[1]]) + 1 /\ Len(p[q[1]]) \in Nat
    BY <1>2, <1>3, <2>2, PathsAreSequences DEF Frame
  <2> QED BY <1>7, <2>1, <2>3 DEF Accessed, Place
<1>8. verdict \in {"clean", "diagnosed"} => conflicts = Group!Contested(p)
  <2>1. SUFFICES ASSUME verdict \in {"clean", "diagnosed"}, NEW x \in Group!Contested(p)
                 PROVE  x \in conflicts
    BY <1>6
  <2>2. PICK q \in Group!Places(p) : /\ x = Group!At(p, q).at
          /\ \E r \in Group!Places(p) : Group!Conflict(p, q, r) /\ Group!EpochOf(p, q) = Group!EpochOf(p, r)
    BY <2>1 DEF Group!Contested
  <2>3. PICK r \in Group!Places(p) : Group!Conflict(p, q, r) /\ Group!EpochOf(p, q) = Group!EpochOf(p, r)
    BY <2>2
  <2>4. q \in Accessed(p) /\ r \in Accessed(p) BY <1>7, <2>1, <2>3 DEF Group!Conflict
  <2> QED BY <1>5, <2>2, <2>3, <2>4
<1>9. ASSUME verdict \in {"clean", "diagnosed"}, conflicts = {}, NEW q \in Group!Reads(p)
      PROVE  /\ q \in Accessed(p) /\ Group!At(p, q).op = "read"
             /\ q \notin undefined =>
                  Latest(p, log[q[1]][Results(p, q[1], q[2]) + 1], Group!WritesBefore(p, q))
  <2>1. q \in Group!Places(p) /\ Group!At(p, q).op = "read" BY DEF Group!Reads
  <2>2. q \in Accessed(p) BY <1>7, <1>9, <2>1 DEF Group!IsAccess
  <2>3. verdict # "arrival" BY <1>9
  <2> QED BY <1>2, <1>9, <2>1, <2>2, <2>3 DEF Found
<1>10. ASSUME verdict \in {"clean", "diagnosed"}, conflicts = {} PROVE undefined = Group!Undefined(p)
  <2>1. ASSUME NEW q \in undefined PROVE q \in Group!Undefined(p)
    <3>1. q \in Accessed(p) /\ Group!At(p, q).op = "read" /\ Group!WritesBefore(p, q) = {}
      BY <1>2 DEF Found
    <3> QED BY <1>4, <3>1 DEF Group!Undefined, Group!Reads
  <2>2. ASSUME NEW q \in Group!Undefined(p) PROVE q \in undefined
    <3>1. q \in Group!Reads(p) /\ Group!WritesBefore(p, q) = {} BY DEF Group!Undefined
    <3> QED BY <1>9, <1>10, <3>1 DEF Latest
  <2> QED BY <2>1, <2>2
<1>11. Group!DiagnosticsIgnoreTheOrder
  BY <1>1, <1>6, <1>8, <1>10 DEF Group!DiagnosticsIgnoreTheOrder
<1>12. ASSUME verdict = "clean", NEW q \in Group!Reads(p)
       PROVE  /\ Group!WritesBefore(p, q) # {}
              /\ log[q[1]][Results(p, q[1], q[2]) + 1] = Group!LastWrite(p, q)
  <2>1. conflicts = {} /\ undefined = {} /\ verdict \in {"clean", "diagnosed"} BY <1>2, <1>12 DEF Ended
  <2> DEFINE found == log[q[1]][Results(p, q[1], q[2]) + 1]
             WB == Group!WritesBefore(p, q)
  <2>2. Latest(p, found, WB) BY <1>9, <2>1
  <2>3. \A r \in WB : r \in Accessed(p) /\ Group!At(p, r) = [op |-> "write", at |-> Group!At(p, q).at]
    <3>1. \A r \in WB : r \in Group!Places(p) /\ Group!At(p, r) = [op |-> "write", at |-> Group!At(p, q).at]
      BY DEF Group!WritesBefore
    <3>2. \A r \in WB : Group!IsAccess(Group!At(p, r)) BY <3>1 DEF Group!IsAccess
    <3> QED BY <1>7, <2>1, <3>1, <3>2
  <2>4. \A r \in WB : r = <<r[1], r[2]>> /\ r[2] \in Int /\ Group!EpochOf(p, r) \in Nat
    BY <1>1, <1>2, <2>3, AccessedAre
  <2>5. ASSUME NEW r \in WB, Latest(p, r, WB) PROVE r = found
    <3>1. found \in WB BY <2>2 DEF Latest
    <3>2. Group!EpochOf(p, r) = Group!EpochOf(p, found) /\ r[2] = found[2]
      <4>1. /\ Group!EpochOf(p, r) < Group!EpochOf(p, found)
               \/ (Group!EpochOf(p, r) = Group!EpochOf(p, found) /\ r[2] =< found[2])
            /\ Group!EpochOf(p, found) < Group!EpochOf(p, r)
               \/ (Group!EpochOf(p, found) = Group!EpochOf(p, r) /\ found[2] =< r[2])
        BY <2>2, <2>5, <3>1 DEF Latest
      <4>2. /\ r[2] \in Int /\ found[2] \in Int
            /\ Group!EpochOf(p, r) \in Nat /\ Group!EpochOf(p, found) \in Nat
        BY <2>4, <3>1
      <4> HIDE DEF found
      <4> QED BY <4>1, <4>2
    <3>3. r[1] = found[1]
      <4>1. SUFFICES ASSUME r[1] # found[1] PROVE FALSE OBVIOUS
      <4>2. Group!At(p, r).at \in conflicts BY <1>2, <2>3, <3>1, <3>2, <4>1, ReportedWhenMet
      <4> QED BY <2>1, <4>2
    <3> HIDE DEF found, WB
    <3> QED BY <2>4, <3>1, <3>2, <3>3
  <2>6. Group!LastWrite(p, q) = CHOOSE r \in WB : Latest(p, r, WB)
    BY Zenon DEF Group!LastWrite, Latest
  <2>7. found \in WB BY <2>2 DEF Latest
  <2> HIDE DEF found, WB
  <2>8. Group!LastWrite(p, q) = found BY <2>2, <2>5, <2>6, <2>7
  <2> QED BY <2>7, <2>8 DEF found, WB
<1>13. Group!CleanReadsAreDetermined
  <2>1. SUFFICES ASSUME verdict = "clean", NEW i \in Group!Invocations, NEW q \in Group!Reads(p), q[1] = i
                 PROVE  /\ Group!WritesBefore(p, q) # {}
                        /\ log[i][Group!Cardinality({k \in 1 .. q[2] - 1 : p[i][k].op \in {"read", "combine"}}) + 1]
                             = Group!LastWrite(p, q)
    BY <1>1 DEF Group!CleanReadsAreDetermined
  <2>2. Group!Cardinality({k \in 1 .. q[2] - 1 : p[i][k].op \in {"read", "combine"}}) = Results(p, i, q[2])
    BY SameCount DEF Results, Num
  <2> QED BY <1>12, <2>1, <2>2
<1>14. Group!BarriersAreWhole
  <2>1. SUFFICES ASSUME verdict \in {"clean", "diagnosed"}, NEW d \in Group!Epochs(p),
                        NEW i \in Group!Invocations, NEW s \in Group!Stop(p, i, d)
                 PROVE  /\ Group!IsBarrier(s) => \A j \in Group!Lanes(i) : Group!Stop(p, j, d) = {s}
                        /\ s.op = "barrier" =>
                             \/ \A j \in Group!Invocations : Group!Stop(p, j, d) = {s}
                             \/ \E j \in Group!Invocations :
                                  j < i /\ \E t \in Group!Stop(p, j, d) : t.op = "subgroupBarrier"
    BY <1>1 DEF Group!BarriersAreWhole
  <2>2. PICK q \in Group!Places(p) : q[1] = i /\ Group!EpochOf(p, q) = d /\ ~Group!IsAccess(Group!At(p, q))
    BY <2>1 DEF Group!Stop
  <2>3. q = <<i, q[2]>> /\ q[2] \in 1 .. Len(p[i]) BY <1>3, <2>2, PlacesAre DEF Place
  <2>4. Epoch(p, i, q[2]) = d /\ ~Group!IsAccess(p[i][q[2]]) BY <2>2, <2>3 DEF Epoch, Group!At
  <2>5. Len(p[i]) \in Nat /\ i \in done BY <1>2, <1>3, <2>1, PathsAreSequences DEF Ended
  <2>6. pos[i] = Len(p[i]) + 1 /\ Epoch(p, i, pos[i]) =< e BY <1>2, <2>5 DEF Frame
  <2>7. q[2] \in 1 .. Len(p[i]) + 1 /\ q[2] < pos[i] /\ pos[i] \in 1 .. Len(p[i]) + 1 BY <2>3, <2>5, <2>6
  <2>8. d \in Nat /\ Epoch(p, i, pos[i]) \in Nat /\ d < Epoch(p, i, pos[i])
    BY <1>3, <2>4, <2>7, EpochsMonotone
  <2>9. d < e BY <1>1, <2>6, <2>8
  <2> QED BY <1>2, <2>1, <2>8, <2>9 DEF Whole
<1> QED BY <1>11, <1>13, <1>14 DEF Group!OrderDoesNotShow

\* For every number of invocations, subgroup size and program, whatever order the
\* scheduler advances the invocations in: the tracker reports exactly the contested
\* elements and, where there are none, exactly the reads of what nothing wrote; a read
\* of a clean workgroup returned the one latest write; and nobody passed a barrier where
\* the lanes of its own subgroup did not meet it, nor a workgroup barrier where anybody
\* was missing while nobody before it was at a subgroup barrier (schedule.go, diag.go).
THEOREM OrderNeverShows == MCSpec => []OrderDoesNotShow
<1>1. MCInit => GInv BY GroupInitHolds DEF MCInit, Group!DInit
<1>2. GInv /\ [MCNext]_<<level, vars, groupVars>> => GInv'
  <2>1. SUFFICES ASSUME GInv, [MCNext]_<<level, vars, groupVars>> PROVE GInv'
    OBVIOUS
  <2>2. groupVars' = groupVars => UNCHANGED Group!vars BY DEF groupVars, Group!vars
  <2>3. CASE groupVars' = groupVars BY <2>1, <2>2, <2>3, GroupNextKeeps
  <2>4. CASE Group!DNext
    BY <2>1, <2>4, GroupNextKeeps DEF Group!DNext, Group!Schedule, Group!Author
  <2> QED BY <2>1, <2>3, <2>4 DEF MCNext
<1>3. GInv => OrderDoesNotShow BY OrderFollows DEF OrderDoesNotShow
<1> QED BY <1>1, <1>2, <1>3, PTL DEF MCSpec

-----------------------------------------------------------------------------
\* What the scheduler's clean verdict says of a program: besides the rules, that nothing
\* is contested and that every barrier stopped whom it had to in one epoch.
Obeys(p) ==
  /\ p \in Group!Programs /\ Group!Legal(p) /\ Group!RaceFree(p) /\ Group!OneSiteAtATime(p)
  /\ Group!Contested(p) = {}
  /\ \A d \in Nat : Whole(p, d)

\* And what it returned to each invocation.
Returned(p) ==
  \A i \in Group!Invocations :
    /\ IsSeq(log[i]) /\ Len(log[i]) = Results(p, i, Len(p[i]) + 1)
    /\ \A k \in 1 .. Len(p[i]) :
         /\ p[i][k].op = "read" =>
              Latest(p, log[i][Results(p, i, k) + 1], Group!WritesBefore(p, <<i, k>>))
         /\ p[i][k].op = "combine" => log[i][Results(p, i, k) + 1] = Folded(p, i, Epoch(p, i, k))

\* The waits at a barrier that are before a position of a path, two for each reduction,
\* and those a goroutine has behind it.
Passed(p, b, i, k) ==
  IF b = Group!Everybody THEN Num(p, i, k, {"barrier"})
  ELSE Num(p, i, k, {"subgroupBarrier"}) + 2 * Num(p, i, k, {"combine"})
Waits(p, b, i) ==
  Passed(p, b, i, at[i]) + (IF b # Group!Everybody /\ at[i] =< Len(p[i]) THEN part[i] \div 2 ELSE 0)

\* Who has not left a barrier, who is in it, and whom its round still holds.
Staying(p, b) ==
  {i \in Group!Members(b) : at[i] =< Len(p[i]) \/ part[i] < (IF b = Group!Everybody THEN 2 ELSE 1)}
InWait(p, b, i) == cond[i] # "running" /\ Group!BarrierAt(p, i) = b
Inside(p, b) == {i \in Group!Members(b) : InWait(p, b, i) /\ seen[i] = bars[b].round}

AuthoredTyped(p) ==
  /\ at \in [Group!Invocations -> Nat] /\ part \in [Group!Invocations -> Nat]
  /\ cond \in [Group!Invocations -> {"running", "asleep", "woken"}]
  /\ seen \in [Group!Invocations -> Nat]
  /\ bars \in [Group!Barriers -> [total : Nat, waiting : Nat, round : Nat]]
  /\ memory = [x \in Elements |-> memory[x]] /\ vals = [i \in Group!Invocations |-> vals[i]]
  /\ result = [i \in Group!Invocations |-> result[i]]
  /\ \A i \in Group!Invocations :
       /\ at[i] \in 1 .. Len(p[i]) + 1
       /\ part[i] =< (IF at[i] > Len(p[i]) THEN 2 ELSE IF p[i][at[i]].op = "combine" THEN 4 ELSE 0)
       /\ cond[i] # "running" => Group!AtWait(p, i)

\* A barrier's round is how many waits each of its participants has behind it; one that
\* was released and has not looked yet is the one wait short that it is about to leave.
Round(p, b) ==
  /\ bars[b].total = Cardinality(Staying(p, b)) /\ bars[b].waiting = Cardinality(Inside(p, b))
  /\ \A i \in Group!Members(b) :
       /\ Waits(p, b, i) =< bars[b].round
       /\ i \in Staying(p, b) /\ ~InWait(p, b, i) => Waits(p, b, i) = bars[b].round
       /\ InWait(p, b, i) =>
            \/ seen[i] = bars[b].round /\ Waits(p, b, i) = bars[b].round
            \/ cond[i] = "woken" /\ seen[i] + 1 = bars[b].round /\ Waits(p, b, i) + 1 = bars[b].round

\* The marked slots are those of the goroutines inside a reduction.
Reducing(p, i) == at[i] =< Len(p[i]) /\ p[i][at[i]].op = "combine" /\ part[i] > 0
Marked(p) ==
  /\ active = {i \in Group!Invocations : Reducing(p, i)}
  /\ \A i \in active : vals[i] = <<i, at[i]>>

\* An element holds the latest of the writes that were executed.
Executed(p, x) ==
  {q \in Group!Places(p) : Group!At(p, q) = [op |-> "write", at |-> x] /\ q[2] < at[q[1]]}
Remembered(p) == \A x \in Elements : Executed(p, x) # {} => Latest(p, memory[x], Executed(p, x))

\* A goroutine returned so far what the scheduler did.
Given(p, i) == Results(p, i, at[i]) + (IF at[i] =< Len(p[i]) /\ part[i] > 2 THEN 1 ELSE 0)
Agreed(p) ==
  \A i \in Group!Invocations :
    /\ IsSeq(result[i]) /\ Len(result[i]) = Given(p, i)
    /\ \A n \in 1 .. Len(result[i]) : result[i][n] = log[i][n]

Comparing(p) ==
  /\ AuthoredTyped(p) /\ (\A b \in Group!Barriers : Round(p, b))
  /\ Marked(p) /\ Remembered(p) /\ Agreed(p)

DifferentialInv ==
  /\ GInv
  /\ verdict # "clean" => Group!AuthoredInit
  /\ verdict = "clean" /\ Obeys(Group!prog) => Comparing(Group!prog)

\* A subgroup's number is none of the workgroup's barrier.
LEMMA SubgroupsAreNatural ==
  ASSUME NEW i \in Group!Invocations
  PROVE  Group!Subgroup(i) \in Nat /\ Group!Subgroup(i) # Group!Everybody
<1>1. Size \in Nat /\ SubgroupSize \in Nat BY GroupAssumption DEF Group!KernelAssumption
<1>2. i \in Nat BY <1>1 DEF Group!Invocations
<1>3. SubgroupSize # 0 => i \div SubgroupSize \in Nat BY <1>1, <1>2
<1>4. Group!Subgroup(i) \in Nat BY <1>3 DEF Group!Subgroup
<1> QED BY <1>4 DEF Group!Everybody

-----------------------------------------------------------------------------
LEMMA ImageCounts ==
  ASSUME NEW set, IsFiniteSet(set), NEW f, f = [x \in set |-> f[x]],
         \A x, y \in set : f[x] = f[y] => x = y
  PROVE  /\ IsFiniteSet({f[x] : x \in set})
         /\ Cardinality({f[x] : x \in set}) = Cardinality(set)
<1> DEFINE T == {f[x] : x \in set}
<1>1. f \in [set -> T] OBVIOUS
<1>2. \A t \in T : \E x \in set : f[x] = t OBVIOUS
<1> HIDE DEF T
<1>3. f \in Bijection(set, T) BY <1>1, <1>2 DEF Bijection, Injection, Surjection, IsInjective
<1>4. ExistsBijection(set, T) BY <1>3 DEF ExistsBijection
<1>5. IsFiniteSet(T) /\ Cardinality(T) = Cardinality(set) BY <1>4, FS_Bijection
<1> QED BY <1>5 DEF T

\* An epoch that an invocation has behind it is one it stopped in.
LEMMA Stopped ==
  ASSUME NEW p \in Group!Programs, NEW i \in Group!Invocations, NEW l \in 1 .. Len(p[i]) + 1,
         NEW d \in Nat, d < Epoch(p, i, l)
  PROVE  \E k \in 1 .. Len(p[i]) : k < l /\ ~Group!IsAccess(p[i][k]) /\ Epoch(p, i, k) = d
<1> DEFINE later == {n \in 1 .. Len(p[i]) + 1 : d < Epoch(p, i, n)}
<1>1. Len(p[i]) \in Nat BY PathsAreSequences
<1>2. later \in SUBSET Nat /\ later # {} BY <1>1
<1>3. PICK n \in later : \A m \in later : n =< m
  <2> HIDE DEF later
  <2> QED BY <1>2, LeastOfNaturals
<1>4. n # 1 /\ n =< l /\ n \in 1 .. Len(p[i]) + 1 BY <1>3, EpochsStart
<1> DEFINE k == n - 1
<1>5. k \in 1 .. Len(p[i]) /\ k + 1 = n /\ k < l /\ k \in 1 .. Len(p[i]) + 1 BY <1>1, <1>4
<1>6. ~(d < Epoch(p, i, k))
  <2>1. ~(n =< k) BY <1>1, <1>4
  <2> QED BY <1>3, <1>5, <2>1
<1>7. d < Epoch(p, i, k + 1) BY <1>3, <1>5
<1> HIDE DEF k, later
<1>8. Epoch(p, i, k) \in Nat
      /\ Epoch(p, i, k + 1) = Epoch(p, i, k) + (IF Group!IsAccess(p[i][k]) THEN 0 ELSE 1)
  BY <1>5, EpochsGrow
<1>9. ~Group!IsAccess(p[i][k]) /\ Epoch(p, i, k) = d BY <1>6, <1>7, <1>8
<1> QED BY <1>5, <1>9

\* At a barrier of one invocation there are the lanes of its subgroup, and at a workgroup
\* barrier of the first one everybody, in the same epoch.
LEMMA BarriersMeet ==
  ASSUME NEW p, Obeys(p), NEW i \in Group!Invocations, NEW k \in 1 .. Len(p[i]),
         Group!IsBarrier(p[i][k]), NEW j \in Group!Invocations,
         j \in Group!Lanes(i) \/ (i = 0 /\ p[i][k].op = "barrier")
  PROVE  /\ Group!Stop(p, j, Epoch(p, i, k)) = {p[i][k]}
         /\ \E l \in 1 .. Len(p[j]) : p[j][l] = p[i][k] /\ Epoch(p, j, l) = Epoch(p, i, k)
<1> DEFINE d == Epoch(p, i, k)
<1>1. p \in Group!Programs BY DEF Obeys
<1>2. Len(p[i]) \in Nat /\ d \in Nat
  <2>1. Len(p[i]) \in Nat BY <1>1, PathsAreSequences
  <2> QED BY <1>1, <2>1, EpochsGrow
<1>3. ~Group!IsAccess(p[i][k]) BY DEF Group!IsAccess, Group!IsBarrier
<1>4. p[i][k] \in Group!Stop(p, i, d) BY <1>1, <1>3, StopsAre
<1>5. Whole(p, d + 1) /\ d + 1 \in Nat /\ d < d + 1 BY <1>2 DEF Obeys
<1> HIDE DEF d
<1>6. Group!Stop(p, j, d) = {p[i][k]}
  <2>1. \A l \in Group!Invocations : ~(l < 0)
    BY GroupAssumption DEF Group!KernelAssumption, Group!Invocations
  <2> QED BY <1>2, <1>4, <1>5, <2>1 DEF Whole
<1>7. p[i][k] \in {p[j][l] : l \in {l \in 1 .. Len(p[j]) : Epoch(p, j, l) = d /\ ~Group!IsAccess(p[j][l])}}
  BY <1>1, <1>6, StopsAre
<1> QED BY <1>6, <1>7 DEF d

\* Lanes of a subgroup that stop in one epoch stop at the same site.
LEMMA LanesMeet ==
  ASSUME NEW p, Obeys(p), NEW i \in Group!Invocations, NEW j \in Group!Lanes(i),
         NEW k \in 1 .. Len(p[i]), NEW l \in 1 .. Len(p[j]), Epoch(p, i, k) = Epoch(p, j, l),
         ~Group!IsAccess(p[i][k]), ~Group!IsAccess(p[j][l])
  PROVE  p[i][k] = p[j][l]
<1> DEFINE d == Epoch(p, i, k)
<1>1. p \in Group!Programs BY DEF Obeys
<1>2. j \in Group!Invocations /\ i \in Group!Lanes(j) BY DEF Group!Lanes
<1>3. p[i][k] \in Group!Stop(p, i, d) /\ p[j][l] \in Group!Stop(p, j, d)
  BY <1>1, <1>2, StopsAre
<1>4. CASE Group!IsBarrier(p[i][k])
  <2>1. Group!Stop(p, j, d) = {p[i][k]} BY <1>2, <1>4, BarriersMeet
  <2> QED BY <1>3, <2>1
<1>5. CASE Group!IsBarrier(p[j][l])
  <2>1. Group!Stop(p, i, d) = {p[j][l]} BY <1>2, <1>5, BarriersMeet
  <2> QED BY <1>3, <2>1
<1>6. CASE ~Group!IsBarrier(p[i][k]) /\ ~Group!IsBarrier(p[j][l])
  <2>1. p[i][k] \in Group!Step /\ p[j][l] \in Group!Step BY <1>1, <1>2, PathsAreSequences
  <2>2. p[i][k].op = "combine" /\ p[j][l].op = "combine"
    BY <1>6, <2>1 DEF Group!Step, Group!IsAccess, Group!IsBarrier
  <2>3. d \in Group!Epochs(p)
    <3>1. Place(p, <<i, k>>) BY DEF Place
    <3>2. <<i, k>> \in Group!Places(p) BY <1>1, <3>1, PlacesAre
    <3> QED BY <3>2 DEF Group!Epochs, Epoch
  <2> HIDE DEF d
  <2> QED BY <1>3, <2>2, <2>3 DEF Obeys, Group!OneSiteAtATime
<1> QED BY <1>4, <1>5, <1>6

\* The epochs in which an invocation does one of some operations.
Met(p, i, ops) == {Epoch(p, i, k) : k \in {k \in 1 .. Len(p[i]) : p[i][k].op \in ops}}

\* Rendezvous are counted by their epochs.
LEMMA NumByEpochs ==
  ASSUME NEW p \in Group!Programs, NEW i \in Group!Invocations, NEW l \in 1 .. Len(p[i]) + 1,
         NEW ops, "read" \notin ops, "write" \notin ops
  PROVE  /\ IsFiniteSet({d \in Met(p, i, ops) : d < Epoch(p, i, l)})
         /\ Num(p, i, l, ops) = Cardinality({d \in Met(p, i, ops) : d < Epoch(p, i, l)})
<1> DEFINE set == {m \in 1 .. l - 1 : p[i][m].op \in ops}
           f == [m \in set |-> Epoch(p, i, m)]
<1>1. Len(p[i]) \in Nat BY PathsAreSequences
<1>2. IsFiniteSet(set)
  <2>1. l - 1 \in Int BY <1>1
  <2>2. IsFiniteSet(1 .. l - 1) BY <2>1, FS_Interval
  <2>3. set \subseteq 1 .. l - 1 OBVIOUS
  <2> QED BY <2>2, <2>3, FS_Subset
<1>3. ASSUME NEW m \in 1 .. Len(p[i]), NEW n \in 1 .. Len(p[i]) + 1, p[i][m].op \in ops
      PROVE  m < n <=> Epoch(p, i, m) < Epoch(p, i, n)
  <2>1. ~Group!IsAccess(p[i][m]) /\ m \in 1 .. Len(p[i]) + 1 BY <1>1, <1>3 DEF Group!IsAccess
  <2>2. Epoch(p, i, m) \in Nat /\ Epoch(p, i, n) \in Nat
        /\ (m < n => Epoch(p, i, m) < Epoch(p, i, n))
        /\ (n =< m => Epoch(p, i, n) =< Epoch(p, i, m))
    BY <2>1, EpochsMonotone
  <2> QED BY <1>1, <2>2
<1>4. \A m \in set : m \in 1 .. Len(p[i]) /\ m \in Nat /\ p[i][m].op \in ops /\ m < l BY <1>1
<1>5. {f[m] : m \in set} = {d \in Met(p, i, ops) : d < Epoch(p, i, l)}
  <2>1. \A m \in 1 .. Len(p[i]) : p[i][m].op \in ops => (m \in set <=> Epoch(p, i, m) < Epoch(p, i, l))
    BY <1>1, <1>3
  <2> HIDE DEF set
  <2> QED BY <1>4, <2>1 DEF Met
<1>6. \A m, n \in set : f[m] = f[n] => m = n
  <2>1. SUFFICES ASSUME NEW m \in set, NEW n \in set, Epoch(p, i, m) = Epoch(p, i, n) PROVE m = n
    OBVIOUS
  <2> HIDE DEF set
  <2>2. m \in 1 .. Len(p[i]) + 1 /\ n \in 1 .. Len(p[i]) + 1 BY <1>1, <1>4
  <2>3. Epoch(p, i, m) \in Nat BY <2>2, EpochsMonotone
  <2>4. ~(m < n) /\ ~(n < m) BY <1>3, <1>4, <2>1, <2>2, <2>3
  <2> QED BY <1>4, <2>4
<1> HIDE DEF set
<1>7. f = [m \in set |-> f[m]] OBVIOUS
<1> HIDE DEF f
<1>8. IsFiniteSet({f[m] : m \in set}) /\ Cardinality({f[m] : m \in set}) = Cardinality(set)
  BY <1>2, <1>6, <1>7, ImageCounts
<1> QED BY <1>5, <1>8 DEF Num, set

\* The barriers of the workgroup are in the same epochs for everybody: those of the first
\* invocation are everybody's, and nobody has more.
LEMMA BarriersAligned ==
  ASSUME NEW p, Obeys(p), NEW i \in Group!Invocations
  PROVE  0 \in Group!Invocations /\ Met(p, i, {"barrier"}) = Met(p, 0, {"barrier"})
<1> DEFINE ops == {"barrier"}
<1>1. p \in Group!Programs BY DEF Obeys
<1>2. 0 \in Group!Invocations BY GroupAssumption DEF Group!KernelAssumption, Group!Invocations
<1>3. Met(p, 0, ops) \subseteq Met(p, i, ops)
  <2>1. SUFFICES ASSUME NEW k \in 1 .. Len(p[0]), p[0][k].op = "barrier"
                 PROVE  Epoch(p, 0, k) \in Met(p, i, ops)
    BY DEF Met
  <2>2. Group!IsBarrier(p[0][k]) BY <2>1 DEF Group!IsBarrier
  <2>3. \E l \in 1 .. Len(p[i]) : p[i][l] = p[0][k] /\ Epoch(p, i, l) = Epoch(p, 0, k)
    BY <1>2, <2>1, <2>2, BarriersMeet
  <2> QED BY <2>1, <2>3 DEF Met
<1>4. ASSUME NEW j \in Group!Invocations
      PROVE  /\ IsFiniteSet(Met(p, j, ops))
             /\ Cardinality(Met(p, j, ops)) = Cardinality(Group!BarriersOf(p, j, ops))
  <2> DEFINE set == {k \in 1 .. Len(p[j]) : p[j][k].op \in ops}
             f == [k \in set |-> Epoch(p, j, k)]
             g == [k \in set |-> <<Num(p, j, k, ops), p[j][k]>>]
  <2>1. Len(p[j]) \in Nat /\ DOMAIN p[j] = 1 .. Len(p[j]) BY <1>1, PathsAreSequences
  <2>2. IsFiniteSet(set)
    <3>1. IsFiniteSet(1 .. Len(p[j])) /\ set \subseteq 1 .. Len(p[j]) BY <2>1, FS_Interval
    <3> QED BY <3>1, FS_Subset
  <2>3. ASSUME NEW k \in set, NEW l \in set, k < l
        PROVE  /\ Epoch(p, j, k) \in Nat /\ Epoch(p, j, l) \in Nat /\ Epoch(p, j, k) < Epoch(p, j, l)
               /\ Num(p, j, k, ops) \in Nat /\ Num(p, j, l, ops) \in Nat
               /\ Num(p, j, k, ops) < Num(p, j, l, ops)
    <3>1. /\ k \in 1 .. Len(p[j]) /\ k \in 1 .. Len(p[j]) + 1 /\ l \in 1 .. Len(p[j]) + 1
          /\ k + 1 \in 1 .. Len(p[j]) + 1 /\ k + 1 =< l /\ p[j][k].op \in ops
      BY <2>1, <2>3
    <3>2. ~Group!IsAccess(p[j][k]) BY <3>1 DEF Group!IsAccess
    <3> HIDE DEF ops, set
    <3>3. Num(p, j, k, ops) \in Nat /\ Num(p, j, k + 1, ops) = Num(p, j, k, ops) + 1
      BY <1>1, <3>1, NumGrows
    <3>4. Num(p, j, k + 1, ops) =< Num(p, j, l, ops) /\ Num(p, j, l, ops) \in Nat
      BY <1>1, <3>1, NumMonotone
    <3>5. Epoch(p, j, k) \in Nat /\ Epoch(p, j, l) \in Nat /\ Epoch(p, j, k) < Epoch(p, j, l)
      BY <1>1, <2>3, <3>1, <3>2, EpochsMonotone
    <3> QED BY <3>3, <3>4, <3>5
  <2>4. \A k \in set : k \in Nat BY <2>1
  <2>5. {f[k] : k \in set} = Met(p, j, ops) BY DEF Met
  <2>6. {g[k] : k \in set} = Group!BarriersOf(p, j, ops)
    <3>1. \A k : Group!Behind(p, <<j, k>>, ops) = Num(p, j, k, ops)
      BY SameCount DEF Group!Behind, Num
    <3>2. set = {k \in DOMAIN p[j] : p[j][k].op \in ops} BY <2>1
    <3>3. \A k \in set : g[k] = <<Group!Behind(p, <<j, k>>, ops), p[j][k]>> BY <3>1
    <3> HIDE DEF set, ops, g
    <3>4. Group!BarriersOf(p, j, ops) = {<<Group!Behind(p, <<j, k>>, ops), p[j][k]>> : k \in set}
      BY <3>2, Zenon DEF Group!BarriersOf
    <3> QED BY <3>3, <3>4
  <2>7. f = [k \in set |-> f[k]] /\ g = [k \in set |-> g[k]] OBVIOUS
  <2>8. \A k, l \in set : f[k] = f[l] => k = l
    <3>1. SUFFICES ASSUME NEW k \in set, NEW l \in set, Epoch(p, j, k) = Epoch(p, j, l) PROVE k = l
      OBVIOUS
    <3>2. ~(k < l) /\ ~(l < k)
      <4> HIDE DEF set
      <4> QED BY <2>3, <3>1
    <3> QED BY <2>4, <3>2
  <2>9. \A k, l \in set : g[k] = g[l] => k = l
    <3>1. SUFFICES ASSUME NEW k \in set, NEW l \in set, Num(p, j, k, ops) = Num(p, j, l, ops) PROVE k = l
      OBVIOUS
    <3>2. ~(k < l) /\ ~(l < k)
      <4> HIDE DEF set
      <4> QED BY <2>3, <3>1
    <3> QED BY <2>4, <3>2
  <2> HIDE DEF set, f, g, ops
  <2>10. IsFiniteSet({f[k] : k \in set}) /\ Cardinality({f[k] : k \in set}) = Cardinality(set)
    BY <2>2, <2>7, <2>8, ImageCounts
  <2>11. Cardinality({g[k] : k \in set}) = Cardinality(set)
    BY <2>2, <2>7, <2>9, ImageCounts
  <2> QED BY <2>5, <2>6, <2>10, <2>11
<1>5. Group!BarriersOf(p, i, ops) = Group!BarriersOf(p, 0, ops) BY <1>2 DEF Obeys, Group!Legal
<1> HIDE DEF ops
<1>6. Met(p, 0, ops) = Met(p, i, ops) BY <1>2, <1>3, <1>4, <1>5, FS_Subset
<1> QED BY <1>2, <1>6 DEF ops

-----------------------------------------------------------------------------
\* How many waits an operation is at a barrier.
Cost(b, op) ==
  IF b = Group!Everybody THEN (IF op = "barrier" THEN 1 ELSE 0)
  ELSE IF op = "subgroupBarrier" THEN 1 ELSE IF op = "combine" THEN 2 ELSE 0

LEMMA PassedGrows ==
  ASSUME NEW p \in Group!Programs, NEW b, NEW i \in Group!Invocations, NEW k \in 1 .. Len(p[i])
  PROVE  /\ Passed(p, b, i, k) \in Nat
         /\ Passed(p, b, i, k + 1) = Passed(p, b, i, k) + Cost(b, p[i][k].op)
<1>1. /\ Num(p, i, k, {"barrier"}) \in Nat /\ Num(p, i, k, {"subgroupBarrier"}) \in Nat
      /\ Num(p, i, k, {"combine"}) \in Nat
      /\ Num(p, i, k + 1, {"barrier"})
           = Num(p, i, k, {"barrier"}) + (IF p[i][k].op = "barrier" THEN 1 ELSE 0)
      /\ Num(p, i, k + 1, {"subgroupBarrier"})
           = Num(p, i, k, {"subgroupBarrier"}) + (IF p[i][k].op = "subgroupBarrier" THEN 1 ELSE 0)
      /\ Num(p, i, k + 1, {"combine"})
           = Num(p, i, k, {"combine"}) + (IF p[i][k].op = "combine" THEN 1 ELSE 0)
  <2>1. ASSUME NEW op
        PROVE  /\ Num(p, i, k, {op}) \in Nat
               /\ Num(p, i, k + 1, {op}) = Num(p, i, k, {op}) + (IF p[i][k].op = op THEN 1 ELSE 0)
    <3>1. p[i][k].op \in {op} <=> p[i][k].op = op OBVIOUS
    <3> QED BY <3>1, NumGrows
  <2> QED BY <2>1
<1>2. CASE b = Group!Everybody BY <1>1, <1>2 DEF Passed, Cost
<1>3. CASE b # Group!Everybody
  <2>1. Passed(p, b, i, k) = Num(p, i, k, {"subgroupBarrier"}) + 2 * Num(p, i, k, {"combine"})
        /\ Passed(p, b, i, k + 1)
             = Num(p, i, k + 1, {"subgroupBarrier"}) + 2 * Num(p, i, k + 1, {"combine"})
    BY <1>3 DEF Passed
  <2>2. Cost(b, p[i][k].op) =
          IF p[i][k].op = "subgroupBarrier" THEN 1 ELSE IF p[i][k].op = "combine" THEN 2 ELSE 0
    BY <1>3 DEF Cost
  <2>3. Num(p, i, k, {"subgroupBarrier"}) \in Nat /\ Num(p, i, k, {"combine"}) \in Nat BY <1>1
  <2>4. CASE p[i][k].op = "subgroupBarrier"
    <3>1. Num(p, i, k + 1, {"subgroupBarrier"}) = Num(p, i, k, {"subgroupBarrier"}) + 1
          /\ Num(p, i, k + 1, {"combine"}) = Num(p, i, k, {"combine"})
      BY <1>1, <2>4
    <3> QED BY <2>1, <2>2, <2>3, <2>4, <3>1
  <2>5. CASE p[i][k].op = "combine"
    <3>1. Num(p, i, k + 1, {"subgroupBarrier"}) = Num(p, i, k, {"subgroupBarrier"})
          /\ Num(p, i, k + 1, {"combine"}) = Num(p, i, k, {"combine"}) + 1
      BY <1>1, <2>5
    <3> QED BY <2>1, <2>2, <2>3, <2>5, <3>1
  <2>6. CASE p[i][k].op \notin {"subgroupBarrier", "combine"}
    <3>1. Num(p, i, k + 1, {"subgroupBarrier"}) = Num(p, i, k, {"subgroupBarrier"})
          /\ Num(p, i, k + 1, {"combine"}) = Num(p, i, k, {"combine"})
      BY <1>1, <2>6
    <3> QED BY <2>1, <2>2, <2>3, <2>6, <3>1
  <2> QED BY <2>4, <2>5, <2>6
<1> QED BY <1>2, <1>3

LEMMA PassedMonotone ==
  ASSUME NEW p \in Group!Programs, NEW b, NEW i \in Group!Invocations,
         NEW k \in 1 .. Len(p[i]) + 1, NEW l \in 1 .. Len(p[i]) + 1, k =< l
  PROVE  /\ Passed(p, b, i, k) \in Nat /\ Passed(p, b, i, l) \in Nat
         /\ Passed(p, b, i, k) =< Passed(p, b, i, l)
<1>1. \A ops : /\ Num(p, i, k, ops) \in Nat /\ Num(p, i, l, ops) \in Nat
               /\ Num(p, i, k, ops) =< Num(p, i, l, ops)
  BY NumMonotone
<1>2. CASE b = Group!Everybody BY <1>1, <1>2 DEF Passed
<1>3. CASE b # Group!Everybody
  <2> DEFINE s(m) == Num(p, i, m, {"subgroupBarrier"})
             c(m) == Num(p, i, m, {"combine"})
  <2>1. s(k) \in Nat /\ s(l) \in Nat /\ s(k) =< s(l) /\ c(k) \in Nat /\ c(l) \in Nat /\ c(k) =< c(l)
    BY <1>1
  <2>2. Passed(p, b, i, k) = s(k) + 2 * c(k) /\ Passed(p, b, i, l) = s(l) + 2 * c(l)
    BY <1>3 DEF Passed
  <2> HIDE DEF s, c
  <2> QED BY <2>1, <2>2
<1> QED BY <1>2, <1>3

LEMMA PassedStarts ==
  ASSUME NEW p \in Group!Programs, NEW b, NEW i \in Group!Invocations
  PROVE  Passed(p, b, i, 1) = 0
<1>1. \A ops : Num(p, i, 1, ops) = 0
  <2>1. 1 .. 1 - 1 = {} OBVIOUS
  <2>2. \A ops : {m \in 1 .. 1 - 1 : p[i][m].op \in ops} = {} BY <2>1
  <2> QED BY <2>2, FS_EmptySet DEF Num
<1> QED BY <1>1 DEF Passed

\* Whatever their paths, the members of a barrier have waited there equally often when they
\* are in the same epoch.
LEMMA PassedAligned ==
  ASSUME NEW p, Obeys(p), NEW b \in Group!Barriers, NEW i \in Group!Members(b), NEW j \in Group!Members(b),
         NEW k \in 1 .. Len(p[i]) + 1, NEW l \in 1 .. Len(p[j]) + 1, Epoch(p, i, k) = Epoch(p, j, l)
  PROVE  Passed(p, b, i, k) = Passed(p, b, j, l)
<1>1. p \in Group!Programs BY DEF Obeys
<1>2. i \in Group!Invocations /\ j \in Group!Invocations BY DEF Group!Members
<1>3. \A ops : "read" \notin ops /\ "write" \notin ops =>
        /\ Num(p, i, k, ops) = Cardinality({d \in Met(p, i, ops) : d < Epoch(p, i, k)})
        /\ Num(p, j, l, ops) = Cardinality({d \in Met(p, j, ops) : d < Epoch(p, j, l)})
  BY <1>1, <1>2, NumByEpochs
<1>4. CASE b = Group!Everybody
  <2>1. Met(p, i, {"barrier"}) = Met(p, j, {"barrier"}) BY <1>2, BarriersAligned
  <2>2. Num(p, i, k, {"barrier"}) = Num(p, j, l, {"barrier"}) BY <1>3, <2>1
  <2> QED BY <1>4, <2>2 DEF Passed
<1>5. CASE b # Group!Everybody
  <2>1. j \in Group!Lanes(i) /\ i \in Group!Lanes(j) BY <1>5 DEF Group!Members, Group!Lanes
  <2>2. ASSUME NEW m \in Group!Invocations, NEW n \in Group!Lanes(m),
               NEW u \in 1 .. Len(p[m]), NEW v \in 1 .. Len(p[n]) + 1,
               NEW op \in {"subgroupBarrier", "combine"}, p[m][u].op = op,
               Epoch(p, m, u) < Epoch(p, n, v)
        PROVE  Epoch(p, m, u) \in Met(p, n, {op})
    <3>1. n \in Group!Invocations BY DEF Group!Lanes
    <3>2. Epoch(p, m, u) \in Nat BY <1>1, EpochsGrow
    <3>3. PICK w \in 1 .. Len(p[n]) : ~Group!IsAccess(p[n][w]) /\ Epoch(p, n, w) = Epoch(p, m, u)
      BY <1>1, <2>2, <3>1, <3>2, Stopped
    <3>4. ~Group!IsAccess(p[m][u]) BY <2>2 DEF Group!IsAccess
    <3>5. p[m][u] = p[n][w] BY <2>2, <3>1, <3>3, <3>4, LanesMeet, SMTT(30)
    <3> QED BY <2>2, <3>3, <3>5 DEF Met
  <2>3. ASSUME NEW op \in {"subgroupBarrier", "combine"}
        PROVE  {d \in Met(p, i, {op}) : d < Epoch(p, i, k)} = {d \in Met(p, j, {op}) : d < Epoch(p, j, l)}
    <3>1. ASSUME NEW d \in Met(p, i, {op}), d < Epoch(p, i, k) PROVE d \in Met(p, j, {op})
      <4>1. PICK u \in 1 .. Len(p[i]) : p[i][u].op = op /\ d = Epoch(p, i, u) BY DEF Met
      <4> QED BY <1>2, <2>1, <2>2, <3>1, <4>1
    <3>2. ASSUME NEW d \in Met(p, j, {op}), d < Epoch(p, j, l) PROVE d \in Met(p, i, {op})
      <4>1. PICK u \in 1 .. Len(p[j]) : p[j][u].op = op /\ d = Epoch(p, j, u) BY DEF Met
      <4> QED BY <1>2, <2>1, <2>2, <3>2, <4>1
    <3> QED BY <3>1, <3>2
  <2>4. Num(p, i, k, {"subgroupBarrier"}) = Num(p, j, l, {"subgroupBarrier"})
        /\ Num(p, i, k, {"combine"}) = Num(p, j, l, {"combine"})
    BY <1>3, <2>3
  <2> QED BY <1>5, <2>4 DEF Passed
<1> QED BY <1>4, <1>5

\* Between two accesses that clash both invocations wait at one barrier.
LEMMA BarrierBetween ==
  ASSUME NEW p, Obeys(p), NEW q \in Group!Places(p), NEW r \in Group!Places(p),
         Group!Conflict(p, q, r), Group!EpochOf(p, q) < Group!EpochOf(p, r)
  PROVE  \E b \in Group!Barriers : q[1] \in Group!Members(b) /\ r[1] \in Group!Members(b) /\
           \E k \in 1 .. Len(p[q[1]]), l \in 1 .. Len(p[r[1]]) :
              /\ q[2] < k /\ l < r[2] /\ Epoch(p, q[1], k) = Epoch(p, r[1], l)
              /\ Cost(b, p[q[1]][k].op) = 1 /\ Cost(b, p[r[1]][l].op) = 1
<1> DEFINE i == q[1]
           j == r[1]
<1>1. p \in Group!Programs BY DEF Obeys
<1>2. /\ i \in Group!Invocations /\ q[2] \in 1 .. Len(p[i]) /\ q = <<i, q[2]>>
      /\ j \in Group!Invocations /\ r[2] \in 1 .. Len(p[j]) /\ r = <<j, r[2]>>
  BY <1>1, PlacesAre DEF Place
<1>3. /\ Group!EpochOf(p, q) = Epoch(p, i, q[2]) /\ Group!EpochOf(p, r) = Epoch(p, j, r[2])
      /\ Group!IsAccess(p[i][q[2]])
  BY <1>2 DEF Epoch, Group!Conflict, Group!At
<1> HIDE DEF i, j
<1>4. Len(p[i]) \in Nat /\ Len(p[j]) \in Nat BY <1>1, <1>2, PathsAreSequences
<1>5. q[2] \in 1 .. Len(p[i]) + 1 /\ r[2] \in 1 .. Len(p[j]) + 1 BY <1>2, <1>4
<1>6. ASSUME NEW ops, "read" \notin ops, "write" \notin ops, Met(p, i, ops) = Met(p, j, ops),
             Num(p, i, q[2], ops) # Num(p, j, r[2], ops)
      PROVE  \E k \in 1 .. Len(p[i]), l \in 1 .. Len(p[j]) :
               /\ q[2] < k /\ l < r[2] /\ Epoch(p, i, k) = Epoch(p, j, l)
               /\ p[i][k].op \in ops /\ p[j][l].op \in ops
  <2>1. /\ Num(p, i, q[2], ops) = Cardinality({d \in Met(p, i, ops) : d < Epoch(p, i, q[2])})
        /\ Num(p, j, r[2], ops) = Cardinality({d \in Met(p, j, ops) : d < Epoch(p, j, r[2])})
    BY <1>1, <1>2, <1>5, <1>6, NumByEpochs
  <2>2. {d \in Met(p, i, ops) : d < Epoch(p, i, q[2])} # {d \in Met(p, j, ops) : d < Epoch(p, j, r[2])}
    BY <1>6, <2>1
  <2>3. Epoch(p, i, q[2]) \in Nat /\ Epoch(p, j, r[2]) \in Nat BY <1>1, <1>2, <1>5, EpochsMonotone
  <2>4. \A d \in Met(p, i, ops) : d \in Nat
    <3>1. \A k \in 1 .. Len(p[i]) : Epoch(p, i, k) \in Nat BY <1>1, <1>2, EpochsGrow
    <3> QED BY <3>1 DEF Met
  <2>5. Epoch(p, i, q[2]) < Epoch(p, j, r[2]) BY <1>3
  <2>6. PICK d \in Met(p, i, ops) : Epoch(p, i, q[2]) =< d /\ d < Epoch(p, j, r[2])
    <3> HIDE DEF Met
    <3> QED BY <1>6, <2>2, <2>3, <2>4, <2>5
  <2>7. PICK k \in 1 .. Len(p[i]) : p[i][k].op \in ops /\ d = Epoch(p, i, k) BY DEF Met
  <2>8. PICK l \in 1 .. Len(p[j]) : p[j][l].op \in ops /\ d = Epoch(p, j, l) BY <1>6 DEF Met
  <2>9. ~Group!IsAccess(p[i][k]) /\ ~Group!IsAccess(p[j][l]) BY <1>6, <2>7, <2>8 DEF Group!IsAccess
  <2>10. q[2] < k
    <3>1. k # q[2] BY <1>3, <2>9
    <3>2. k \in 1 .. Len(p[i]) + 1 BY <1>4
    <3>3. k < q[2] => Epoch(p, i, k) < Epoch(p, i, q[2]) BY <1>1, <1>2, <1>5, <2>9, <3>2, EpochsMonotone
    <3>4. d \in Nat BY <2>4
    <3> QED BY <1>2, <1>4, <2>3, <2>6, <2>7, <3>1, <3>3, <3>4
  <2>11. l < r[2]
    <3>1. l \in 1 .. Len(p[j]) + 1 BY <1>4
    <3>2. r[2] =< l => Epoch(p, j, r[2]) =< Epoch(p, j, l) BY <1>1, <1>2, <1>5, <3>1, EpochsMonotone
    <3>3. d \in Nat BY <2>4
    <3> QED BY <1>2, <1>4, <2>3, <2>6, <2>8, <3>2, <3>3
  <2> QED BY <2>7, <2>8, <2>10, <2>11
<1>7. Group!Ordered(p, q, r) BY DEF Obeys, Group!RaceFree
<1>8. \A ops : Group!Behind(p, q, ops) = Num(p, i, q[2], ops) /\ Group!Behind(p, r, ops) = Num(p, j, r[2], ops)
  BY SameCount DEF Group!Behind, Num, i, j
<1>9. CASE Num(p, i, q[2], {"barrier"}) # Num(p, j, r[2], {"barrier"})
  <2>1. Met(p, i, {"barrier"}) = Met(p, j, {"barrier"}) BY <1>2, BarriersAligned
  <2>2. PICK k \in 1 .. Len(p[i]), l \in 1 .. Len(p[j]) :
           /\ q[2] < k /\ l < r[2] /\ Epoch(p, i, k) = Epoch(p, j, l)
           /\ p[i][k].op \in {"barrier"} /\ p[j][l].op \in {"barrier"}
    BY <1>6, <1>9, <2>1
  <2>3. /\ Group!Everybody \in Group!Barriers /\ i \in Group!Members(Group!Everybody)
        /\ j \in Group!Members(Group!Everybody)
    BY <1>2 DEF Group!Barriers, Group!Members
  <2>4. Cost(Group!Everybody, p[i][k].op) = 1 /\ Cost(Group!Everybody, p[j][l].op) = 1
    BY <2>2 DEF Cost
  <2> QED BY <2>2, <2>3, <2>4 DEF i, j
<1>10. CASE /\ Group!Subgroup(i) = Group!Subgroup(j)
            /\ Num(p, i, q[2], {"subgroupBarrier"}) # Num(p, j, r[2], {"subgroupBarrier"})
  <2>1. Met(p, i, {"subgroupBarrier"}) = Met(p, j, {"subgroupBarrier"})
    <3>1. ASSUME NEW m \in Group!Invocations, NEW n \in Group!Lanes(m)
          PROVE  Met(p, m, {"subgroupBarrier"}) \subseteq Met(p, n, {"subgroupBarrier"})
      <4>1. n \in Group!Invocations BY DEF Group!Lanes
      <4>2. ASSUME NEW k \in 1 .. Len(p[m]), p[m][k].op = "subgroupBarrier"
            PROVE  Epoch(p, m, k) \in Met(p, n, {"subgroupBarrier"})
        <5>1. Group!IsBarrier(p[m][k]) BY <4>2 DEF Group!IsBarrier
        <5>2. \E l \in 1 .. Len(p[n]) : p[n][l] = p[m][k] /\ Epoch(p, n, l) = Epoch(p, m, k)
          BY <4>1, <5>1, BarriersMeet
        <5> QED BY <4>2, <5>2 DEF Met
      <4> QED BY <4>2 DEF Met
    <3>2. i \in Group!Lanes(j) /\ j \in Group!Lanes(i) BY <1>2, <1>10 DEF Group!Lanes
    <3> QED BY <1>2, <3>1, <3>2
  <2>2. PICK k \in 1 .. Len(p[i]), l \in 1 .. Len(p[j]) :
           /\ q[2] < k /\ l < r[2] /\ Epoch(p, i, k) = Epoch(p, j, l)
           /\ p[i][k].op \in {"subgroupBarrier"} /\ p[j][l].op \in {"subgroupBarrier"}
    BY <1>6, <1>10, <2>1
  <2>3. PICK b : b = Group!Subgroup(i) OBVIOUS
  <2>4. b \in Group!Barriers /\ b # Group!Everybody BY <1>2, <2>3, SubgroupsAreNatural DEF Group!Barriers
  <2>5. i \in Group!Members(b) /\ j \in Group!Members(b) BY <1>2, <1>10, <2>3, <2>4 DEF Group!Members
  <2>6. Cost(b, p[i][k].op) = 1 /\ Cost(b, p[j][l].op) = 1 BY <2>2, <2>4 DEF Cost
  <2> QED BY <2>2, <2>4, <2>5, <2>6 DEF i, j
<1> QED BY <1>7, <1>8, <1>9, <1>10 DEF Group!Ordered, i, j

-----------------------------------------------------------------------------
\* How far a goroutine's waits at a barrier can be for where it stands on its path.
LEMMA WaitsBounded ==
  ASSUME NEW p \in Group!Programs, AuthoredTyped(p), NEW b, NEW i \in Group!Invocations
  PROVE  /\ Waits(p, b, i) \in Nat /\ Passed(p, b, i, at[i]) \in Nat
         /\ Passed(p, b, i, at[i]) =< Waits(p, b, i)
         /\ at[i] =< Len(p[i]) => /\ Waits(p, b, i) =< Passed(p, b, i, at[i] + 1)
                                  /\ Passed(p, b, i, at[i] + 1) \in Nat
         /\ InWait(p, b, i) => at[i] =< Len(p[i]) /\ Waits(p, b, i) + 1 =< Passed(p, b, i, at[i] + 1)
<1>1. /\ Len(p[i]) \in Nat /\ at[i] \in Nat /\ at[i] \in 1 .. Len(p[i]) + 1 /\ part[i] \in Nat
      /\ part[i] =< (IF at[i] > Len(p[i]) THEN 2 ELSE IF p[i][at[i]].op = "combine" THEN 4 ELSE 0)
  BY PathsAreSequences DEF AuthoredTyped
<1>2. Passed(p, b, i, at[i]) \in Nat BY <1>1, PassedMonotone
<1>3. CASE at[i] > Len(p[i])
  <2>1. ~InWait(p, b, i)
    BY <1>1, <1>3 DEF InWait, AuthoredTyped, Group!AtWait, Group!Returned
  <2>2. Waits(p, b, i) = Passed(p, b, i, at[i]) BY <1>1, <1>2, <1>3 DEF Waits
  <2> QED BY <1>1, <1>2, <1>3, <2>1, <2>2
<1>4. CASE at[i] =< Len(p[i])
  <2> DEFINE op == p[i][at[i]].op
  <2>1. /\ Passed(p, b, i, at[i]) \in Nat /\ at[i] \in 1 .. Len(p[i])
        /\ Passed(p, b, i, at[i] + 1) = Passed(p, b, i, at[i]) + Cost(b, op)
    BY <1>1, <1>4, PassedGrows
  <2>2. Waits(p, b, i) = Passed(p, b, i, at[i]) + (IF b # Group!Everybody THEN part[i] \div 2 ELSE 0)
    BY <1>4 DEF Waits
  <2>3. InWait(p, b, i) =>
          /\ op \in {"barrier", "subgroupBarrier"} \/ (op = "combine" /\ part[i] \in {1, 3})
          /\ b = Group!Everybody <=> op = "barrier"
    <3>1. SUFFICES ASSUME InWait(p, b, i)
                   PROVE  /\ op \in {"barrier", "subgroupBarrier"} \/ (op = "combine" /\ part[i] \in {1, 3})
                          /\ b = Group!Everybody <=> op = "barrier"
      OBVIOUS
    <3>2. Group!AtWait(p, i) BY <3>1 DEF InWait, AuthoredTyped
    <3>3. Group!Subgroup(i) # Group!Everybody BY SubgroupsAreNatural
    <3> QED BY <3>1, <3>2, <3>3 DEF InWait, Group!AtWait, Group!BarrierAt, Group!IsBarrier
  <2>4. part[i] =< (IF op = "combine" THEN 4 ELSE 0) BY <1>1, <1>4
  <2>5. /\ part[i] \div 2 \in Nat
        /\ op = "combine" => part[i] \div 2 =< 2 /\ (part[i] \in {1, 3} => part[i] \div 2 =< 1)
        /\ op # "combine" => part[i] \div 2 = 0
    BY <1>1, <2>4
  <2> HIDE DEF op
  <2>6. /\ Cost(b, op) \in Nat
        /\ b # Group!Everybody /\ op = "combine" => Cost(b, op) = 2
        /\ b # Group!Everybody /\ op = "subgroupBarrier" => Cost(b, op) = 1
        /\ b = Group!Everybody /\ op = "barrier" => Cost(b, op) = 1
    BY DEF Cost
  <2> HIDE DEF Cost
  <2>7. CASE b = Group!Everybody BY <1>4, <2>1, <2>2, <2>3, <2>6, <2>7
  <2>8. CASE b # Group!Everybody
    <3>1. Waits(p, b, i) = Passed(p, b, i, at[i]) + (part[i] \div 2) BY <2>2, <2>8
    <3>2. CASE op = "combine" BY <1>4, <2>1, <2>3, <2>5, <2>6, <2>8, <3>1, <3>2
    <3>3. CASE op # "combine" BY <1>4, <2>1, <2>3, <2>5, <2>6, <2>8, <3>1, <3>3
    <3> QED BY <3>2, <3>3
  <2> QED BY <2>7, <2>8
<1> QED BY <1>1, <1>3, <1>4

\* Nobody is past a barrier that another member has still to reach.
LEMMA NoOvertaking ==
  ASSUME NEW p, Obeys(p), AuthoredTyped(p), NEW b \in Group!Barriers, Round(p, b),
         NEW i \in Group!Members(b), NEW j \in Group!Members(b),
         NEW k \in 1 .. Len(p[i]), NEW l \in 1 .. Len(p[j]), Epoch(p, i, k) = Epoch(p, j, l),
         Cost(b, p[j][l].op) = 1, at[j] > l
  PROVE  at[i] >= k
<1>1. p \in Group!Programs BY DEF Obeys
<1>2. /\ i \in Group!Invocations /\ j \in Group!Invocations BY DEF Group!Members
<1>3. /\ Len(p[i]) \in Nat /\ at[i] \in Nat /\ at[i] \in 1 .. Len(p[i]) + 1
      /\ Len(p[j]) \in Nat /\ at[j] \in Nat /\ at[j] \in 1 .. Len(p[j]) + 1
      /\ bars[b].round \in Nat
  BY <1>1, <1>2, PathsAreSequences DEF AuthoredTyped
<1> DEFINE n == Passed(p, b, i, k)
<1>4. n \in Nat /\ n = Passed(p, b, j, l)
  <2>1. k \in 1 .. Len(p[i]) + 1 /\ l \in 1 .. Len(p[j]) + 1 BY <1>3
  <2> QED BY <1>1, <1>2, <2>1, PassedAligned, PassedMonotone
<1>5. Passed(p, b, j, l + 1) = n + 1 BY <1>1, <1>2, <1>4, PassedGrows
<1>6. n + 1 =< bars[b].round
  <2>1. l + 1 \in 1 .. Len(p[j]) + 1 /\ l + 1 =< at[j] BY <1>3
  <2>2. Passed(p, b, j, l + 1) =< Passed(p, b, j, at[j]) BY <1>1, <1>2, <1>3, <2>1, PassedMonotone
  <2>3. Passed(p, b, j, at[j]) =< Waits(p, b, j) /\ Waits(p, b, j) \in Nat
        /\ Passed(p, b, j, at[j]) \in Nat
    BY <1>1, <1>2, WaitsBounded
  <2>4. Waits(p, b, j) =< bars[b].round BY DEF Round
  <2> QED BY <1>3, <1>4, <1>5, <2>2, <2>3, <2>4
<1>7. ASSUME at[i] < k PROVE FALSE
  <2>1. at[i] =< Len(p[i]) /\ at[i] + 1 \in 1 .. Len(p[i]) + 1 /\ at[i] + 1 =< k /\ k \in 1 .. Len(p[i]) + 1
    BY <1>3, <1>7
  <2>2. Passed(p, b, i, at[i] + 1) =< n /\ Passed(p, b, i, at[i] + 1) \in Nat
    BY <1>1, <1>2, <2>1, PassedMonotone
  <2>3. /\ Waits(p, b, i) \in Nat /\ Waits(p, b, i) =< Passed(p, b, i, at[i] + 1)
        /\ InWait(p, b, i) => Waits(p, b, i) + 1 =< Passed(p, b, i, at[i] + 1)
    BY <1>1, <1>2, <2>1, WaitsBounded
  <2>4. i \in Staying(p, b) BY <2>1 DEF Staying
  <2>5. \/ ~InWait(p, b, i) /\ Waits(p, b, i) = bars[b].round
        \/ InWait(p, b, i) /\ Waits(p, b, i) = bars[b].round
        \/ InWait(p, b, i) /\ Waits(p, b, i) + 1 = bars[b].round
    BY <2>4 DEF Round
  <2> QED BY <1>3, <1>4, <1>6, <2>2, <2>3, <2>5
<1> QED BY <1>3, <1>7

\* So an access is made only when what clashes with it in an earlier epoch was.
LEMMA AccessesInOrder ==
  ASSUME NEW p, Obeys(p), AuthoredTyped(p), \A b \in Group!Barriers : Round(p, b),
         NEW q \in Group!Places(p), NEW r \in Group!Places(p), Group!Conflict(p, q, r),
         Group!EpochOf(p, q) < Group!EpochOf(p, r), at[r[1]] >= r[2]
  PROVE  at[q[1]] > q[2]
<1>1. PICK b \in Group!Barriers : q[1] \in Group!Members(b) /\ r[1] \in Group!Members(b) /\
           \E k \in 1 .. Len(p[q[1]]), l \in 1 .. Len(p[r[1]]) :
              /\ q[2] < k /\ l < r[2] /\ Epoch(p, q[1], k) = Epoch(p, r[1], l)
              /\ Cost(b, p[q[1]][k].op) = 1 /\ Cost(b, p[r[1]][l].op) = 1
  BY BarrierBetween
<1>2. PICK k \in 1 .. Len(p[q[1]]), l \in 1 .. Len(p[r[1]]) :
              /\ q[2] < k /\ l < r[2] /\ Epoch(p, q[1], k) = Epoch(p, r[1], l)
              /\ Cost(b, p[q[1]][k].op) = 1 /\ Cost(b, p[r[1]][l].op) = 1
  BY <1>1
<1>3. p \in Group!Programs BY DEF Obeys
<1>4. q[1] \in Group!Invocations /\ r[1] \in Group!Invocations /\ q[2] \in 1 .. Len(p[q[1]])
      /\ r[2] \in 1 .. Len(p[r[1]])
  BY <1>3, PlacesAre DEF Place
<1>5. at[q[1]] \in Nat /\ at[r[1]] \in Nat BY <1>4 DEF AuthoredTyped
<1>6. Len(p[q[1]]) \in Nat /\ Len(p[r[1]]) \in Nat BY <1>3, <1>4, PathsAreSequences
<1>7. at[r[1]] > l BY <1>2, <1>4, <1>5, <1>6
<1>8. at[q[1]] >= k BY <1>1, <1>2, <1>7, NoOvertaking
<1> QED BY <1>2, <1>4, <1>5, <1>6, <1>8

-----------------------------------------------------------------------------
\* What a goroutine's own step leaves as it was of the others, and its step's effect on
\* what is counted of it.
Stands(p, i) ==
  /\ \A b \in Group!Barriers :
       /\ Waits(p, b, i)' = Waits(p, b, i)
       /\ i \in Group!Members(b) => (i \in Staying(p, b)' <=> i \in Staying(p, b))
  /\ Given(p, i)' = Given(p, i)

LEMMA OthersStand ==
  ASSUME NEW p, NEW i \in Group!Invocations, at'[i] = at[i], part'[i] = part[i]
  PROVE  /\ Stands(p, i) /\ (Reducing(p, i)' <=> Reducing(p, i))
         /\ Group!BarrierAt(p, i)' = Group!BarrierAt(p, i)
         /\ Group!AtWait(p, i)' <=> Group!AtWait(p, i)
<1>1. \A b : Waits(p, b, i)' = Waits(p, b, i) BY DEF Waits, Passed, Num
<1>2. \A b \in Group!Barriers : i \in Staying(p, b)' <=> i \in Staying(p, b) BY DEF Staying
<1>3. Given(p, i)' = Given(p, i) BY DEF Given, Results, Num
<1>4. Group!BarrierAt(p, i)' = Group!BarrierAt(p, i) BY DEF Group!BarrierAt
<1>5. Group!AtWait(p, i)' <=> Group!AtWait(p, i) BY DEF Group!AtWait, Group!Returned
<1>6. Reducing(p, i)' <=> Reducing(p, i) BY DEF Reducing
<1> QED BY <1>1, <1>2, <1>3, <1>4, <1>5, <1>6 DEF Stands

\* On to the next step of a path.
LEMMA StepMoves ==
  ASSUME NEW p \in Group!Programs, AuthoredTyped(p), NEW i \in Group!Invocations,
         at[i] =< Len(p[i]), at'[i] = at[i] + 1, part'[i] = 0,
         p[i][at[i]].op = "combine" => part[i] = 4
  PROVE  LET op == p[i][at[i]].op IN
         /\ \A b : Waits(p, b, i)' = Waits(p, b, i) + (IF op = "combine" THEN 0 ELSE Cost(b, op))
         /\ \A b : Waits(p, b, i) \in Nat
         /\ \A b \in Group!Barriers : i \in Group!Members(b) =>
              i \in Staying(p, b) /\ i \in Staying(p, b)'
         /\ Given(p, i) \in Nat
         /\ Given(p, i)' = Given(p, i) + (IF op = "read" THEN 1 ELSE 0)
         /\ ~Reducing(p, i)'
         /\ at'[i] \in 1 .. Len(p[i]) + 1
<1> DEFINE op == p[i][at[i]].op
<1>1. /\ Len(p[i]) \in Nat /\ at[i] \in 1 .. Len(p[i]) /\ at[i] \in 1 .. Len(p[i]) + 1 /\ part[i] \in Nat
      /\ part[i] =< (IF op = "combine" THEN 4 ELSE 0)
  BY PathsAreSequences DEF AuthoredTyped
<1>2. ASSUME NEW b
      PROVE  /\ Waits(p, b, i)' = Waits(p, b, i) + (IF op = "combine" THEN 0 ELSE Cost(b, op))
             /\ Waits(p, b, i) \in Nat
  <2>1. /\ Passed(p, b, i, at[i]) \in Nat
        /\ Passed(p, b, i, at[i] + 1) = Passed(p, b, i, at[i]) + Cost(b, op)
    BY <1>1, PassedGrows
  <2>2. Waits(p, b, i)' = Passed(p, b, i, at[i] + 1)
    <3>1. Passed(p, b, i, at[i])' = Passed(p, b, i, at[i] + 1) BY DEF Passed, Num
    <3>2. Passed(p, b, i, at[i] + 1) \in Nat
      <4>1. Cost(b, op) \in Nat BY DEF Cost
      <4> QED BY <2>1, <4>1
    <3>3. Waits(p, b, i)' = Passed(p, b, i, at[i])'
            + (IF b # Group!Everybody /\ at'[i] =< Len(p[i]) THEN part'[i] \div 2 ELSE 0)
      BY DEF Waits
    <3>4. part'[i] \div 2 = 0 OBVIOUS
    <3> HIDE DEF Passed
    <3> QED BY <3>1, <3>2, <3>3, <3>4
  <2>3. Waits(p, b, i) = Passed(p, b, i, at[i]) + (IF b # Group!Everybody THEN part[i] \div 2 ELSE 0)
    BY DEF Waits
  <2>4. op # "combine" => part[i] \div 2 = 0 BY <1>1
  <2>5. op = "combine" => part[i] \div 2 = 2 OBVIOUS
  <2>6. Cost(b, op) \in Nat
        /\ (op = "combine" => Cost(b, op) = IF b # Group!Everybody THEN 2 ELSE 0)
    BY DEF Cost
  <2> HIDE DEF op
  <2> QED BY <2>1, <2>2, <2>3, <2>4, <2>5, <2>6
<1>3. \A b \in Group!Barriers : i \in Group!Members(b) => i \in Staying(p, b) /\ i \in Staying(p, b)'
  BY DEF Staying
<1>4. Given(p, i) \in Nat /\ Given(p, i)' = Given(p, i) + (IF op = "read" THEN 1 ELSE 0)
  <2>1. Results(p, i, at[i]) \in Nat
        /\ Results(p, i, at[i] + 1) = Results(p, i, at[i]) + (IF op \in {"read", "combine"} THEN 1 ELSE 0)
    BY <1>1, ResultsGrow
  <2>2. Given(p, i)' = Results(p, i, at[i] + 1)
    <3>1. Results(p, i, at[i])' = Results(p, i, at[i] + 1) BY DEF Results, Num
    <3>2. Given(p, i)' = Results(p, i, at[i])' + (IF at'[i] =< Len(p[i]) /\ part'[i] > 2 THEN 1 ELSE 0)
      BY DEF Given
    <3>3. ~(part'[i] > 2) OBVIOUS
    <3> QED BY <2>1, <3>1, <3>2, <3>3
  <2>3. Given(p, i) = Results(p, i, at[i]) + (IF part[i] > 2 THEN 1 ELSE 0) BY DEF Given
  <2>4. op # "combine" => ~(part[i] > 2) BY <1>1
  <2> HIDE DEF op
  <2> QED BY <2>1, <2>2, <2>3, <2>4 DEF op
<1>5. ~Reducing(p, i)' BY DEF Reducing
<1> QED BY <1>1, <1>2, <1>3, <1>4, <1>5

\* On to the next part of a reduction.
LEMMA PartMoves ==
  ASSUME NEW p \in Group!Programs, AuthoredTyped(p), NEW i \in Group!Invocations,
         at[i] =< Len(p[i]), at'[i] = at[i], part[i] < 4, part'[i] = part[i] + 1,
         p[i][at[i]].op = "combine"
  PROVE  /\ \A b : Waits(p, b, i)'
                     = Waits(p, b, i) + (IF b # Group!Everybody /\ part[i] \in {1, 3} THEN 1 ELSE 0)
         /\ \A b : Waits(p, b, i) \in Nat
         /\ \A b \in Group!Barriers : i \in Group!Members(b) =>
              i \in Staying(p, b) /\ i \in Staying(p, b)'
         /\ Given(p, i) \in Nat
         /\ Given(p, i)' = Given(p, i) + (IF part[i] = 2 THEN 1 ELSE 0)
         /\ Reducing(p, i)'
         /\ part'[i] =< 4
<1>1. /\ Len(p[i]) \in Nat /\ at[i] \in 1 .. Len(p[i]) /\ part[i] \in {0, 1, 2, 3}
  <2>1. /\ Len(p[i]) \in Nat /\ at[i] \in 1 .. Len(p[i]) + 1 /\ part[i] \in Nat
        /\ part[i] =< (IF at[i] > Len(p[i]) THEN 2 ELSE IF p[i][at[i]].op = "combine" THEN 4 ELSE 0)
    BY PathsAreSequences DEF AuthoredTyped
  <2> QED BY <2>1, SMTT(30)
<1>2. ASSUME NEW b
      PROVE  /\ Waits(p, b, i)'
                  = Waits(p, b, i) + (IF b # Group!Everybody /\ part[i] \in {1, 3} THEN 1 ELSE 0)
             /\ Waits(p, b, i) \in Nat
  <2>1. Passed(p, b, i, at[i]) \in Nat /\ Passed(p, b, i, at[i])' = Passed(p, b, i, at[i])
    <3>1. Passed(p, b, i, at[i]) \in Nat BY <1>1, PassedGrows
    <3> QED BY <3>1 DEF Passed, Num
  <2>2. Waits(p, b, i) = Passed(p, b, i, at[i]) + (IF b # Group!Everybody THEN part[i] \div 2 ELSE 0)
    BY DEF Waits
  <2>3. Waits(p, b, i)' = Passed(p, b, i, at[i])' + (IF b # Group!Everybody THEN part'[i] \div 2 ELSE 0)
    BY DEF Waits
  <2>4. /\ part[i] \div 2 \in Nat
        /\ part'[i] \div 2 = (part[i] \div 2) + (IF part[i] \in {1, 3} THEN 1 ELSE 0)
    BY <1>1
  <2> QED BY <2>1, <2>2, <2>3, <2>4
<1>3. \A b \in Group!Barriers : i \in Group!Members(b) => i \in Staying(p, b) /\ i \in Staying(p, b)'
  BY DEF Staying
<1>4. Given(p, i) \in Nat /\ Given(p, i)' = Given(p, i) + (IF part[i] = 2 THEN 1 ELSE 0)
  <2>1. Results(p, i, at[i]) \in Nat BY <1>1, ResultsGrow
  <2>2. Results(p, i, at[i])' = Results(p, i, at[i]) BY DEF Results, Num
  <2>3. Given(p, i)' = Results(p, i, at[i])' + (IF part'[i] > 2 THEN 1 ELSE 0) BY DEF Given
  <2>4. Given(p, i) = Results(p, i, at[i]) + (IF part[i] > 2 THEN 1 ELSE 0) BY DEF Given
  <2> QED BY <1>1, <2>1, <2>2, <2>3, <2>4
<1>5. Reducing(p, i)' BY <1>1 DEF Reducing
<1> QED BY <1>1, <1>2, <1>3, <1>4, <1>5

\* Through a wait: one more at that barrier, and nothing else that is counted changes.
Awaits(p, i) ==
  /\ \A b \in Group!Barriers : i \in Group!Members(b) =>
       /\ Waits(p, b, i) \in Nat
       /\ Waits(p, b, i)' = Waits(p, b, i) + (IF b = Group!BarrierAt(p, i) THEN 1 ELSE 0)
       /\ i \in Staying(p, b) /\ i \in Staying(p, b)'
  /\ Given(p, i)' = Given(p, i)
  /\ Reducing(p, i)' <=> Reducing(p, i)

LEMMA ThroughMoves ==
  ASSUME NEW p \in Group!Programs, AuthoredTyped(p), NEW i \in Group!Invocations,
         Group!AtWait(p, i), Group!Through(p, i)
  PROVE  /\ Awaits(p, i)
         /\ Group!BarrierAt(p, i) \in Group!Barriers /\ i \in Group!Members(Group!BarrierAt(p, i))
         /\ at' \in [Group!Invocations -> Nat] /\ part' \in [Group!Invocations -> Nat]
         /\ at'[i] \in 1 .. Len(p[i]) + 1 /\ at[i] =< Len(p[i])
         /\ part'[i] =< (IF at'[i] > Len(p[i]) THEN 2 ELSE IF p[i][at'[i]].op = "combine" THEN 4 ELSE 0)
         /\ \A j \in Group!Invocations \ {i} : at'[j] = at[j] /\ part'[j] = part[j]
         /\ Reducing(p, i) => at'[i] = at[i]
<1>1. /\ Len(p[i]) \in Nat /\ at[i] \in 1 .. Len(p[i]) + 1 /\ part[i] \in Nat
      /\ at \in [Group!Invocations -> Nat] /\ part \in [Group!Invocations -> Nat]
  BY PathsAreSequences DEF AuthoredTyped
<1>2. /\ at[i] =< Len(p[i])
      /\ \/ p[i][at[i]].op \in {"barrier", "subgroupBarrier"}
         \/ p[i][at[i]].op = "combine" /\ part[i] \in {1, 3}
  BY <1>1 DEF Group!AtWait, Group!Returned, Group!IsBarrier
<1>3. Group!Subgroup(i) \in Nat /\ Group!Subgroup(i) # Group!Everybody BY SubgroupsAreNatural
<1>4. Group!BarrierAt(p, i) = IF p[i][at[i]].op = "barrier" THEN Group!Everybody ELSE Group!Subgroup(i)
  BY DEF Group!BarrierAt
<1>5. Group!BarrierAt(p, i) \in Group!Barriers /\ i \in Group!Members(Group!BarrierAt(p, i))
  BY <1>3, <1>4 DEF Group!Barriers, Group!Members
<1>6. ASSUME NEW b \in Group!Barriers, i \in Group!Members(b)
      PROVE  b = Group!Everybody \/ b = Group!Subgroup(i)
  BY <1>6 DEF Group!Members
<1>7. CASE p[i][at[i]].op \in {"barrier", "subgroupBarrier"}
  <2>1. at' = [at EXCEPT ![i] = @ + 1] /\ part' = [part EXCEPT ![i] = 0]
    BY <1>7 DEF Group!Through, Group!IsBarrier, Group!NextStep
  <2>2. at'[i] = at[i] + 1 /\ part'[i] = 0 BY <1>1, <2>1
  <2>3. p[i][at[i]].op # "combine" BY <1>7
  <2> DEFINE op == p[i][at[i]].op
  <2>4. /\ \A b : Waits(p, b, i)' = Waits(p, b, i) + Cost(b, op)
        /\ \A b : Waits(p, b, i) \in Nat
        /\ \A b \in Group!Barriers : i \in Group!Members(b) => i \in Staying(p, b) /\ i \in Staying(p, b)'
        /\ Given(p, i) \in Nat
        /\ Given(p, i)' = Given(p, i) + (IF op = "read" THEN 1 ELSE 0)
        /\ ~Reducing(p, i)'
        /\ at'[i] \in 1 .. Len(p[i]) + 1
    BY <1>2, <2>2, <2>3, StepMoves
  <2>5. ~Reducing(p, i) BY <2>3 DEF Reducing
  <2>6. Given(p, i)' = Given(p, i)
    <3>1. op # "read" BY <1>7
    <3> HIDE DEF op
    <3> QED BY <2>4, <3>1
  <2>7. \A b \in Group!Barriers : i \in Group!Members(b) =>
           Cost(b, op) = IF b = Group!BarrierAt(p, i) THEN 1 ELSE 0
    BY <1>3, <1>4, <1>6, <1>7 DEF Cost
  <2>8. \A b \in Group!Barriers : i \in Group!Members(b) =>
           Waits(p, b, i)' = Waits(p, b, i) + (IF b = Group!BarrierAt(p, i) THEN 1 ELSE 0)
    <3> HIDE DEF op
    <3> QED BY <2>4, <2>7
  <2>9. Awaits(p, i) BY <2>4, <2>5, <2>6, <2>8 DEF Awaits
  <2>10. at' \in [Group!Invocations -> Nat] /\ part' \in [Group!Invocations -> Nat]
         /\ \A j \in Group!Invocations \ {i} : at'[j] = at[j] /\ part'[j] = part[j]
    BY <1>1, <2>1
  <2> QED BY <1>2, <1>5, <2>2, <2>4, <2>5, <2>9, <2>10
<1>8. CASE p[i][at[i]].op = "combine" /\ part[i] \in {1, 3}
  <2>1. at' = at /\ part' = [part EXCEPT ![i] = @ + 1]
    BY <1>8 DEF Group!Through, Group!IsBarrier, Group!NextPart
  <2>2. at'[i] = at[i] /\ part'[i] = part[i] + 1 /\ part[i] < 4 BY <1>1, <1>8, <2>1
  <2>3. /\ \A b : Waits(p, b, i)'
                    = Waits(p, b, i) + (IF b # Group!Everybody /\ part[i] \in {1, 3} THEN 1 ELSE 0)
        /\ \A b : Waits(p, b, i) \in Nat
        /\ \A b \in Group!Barriers : i \in Group!Members(b) => i \in Staying(p, b) /\ i \in Staying(p, b)'
        /\ Given(p, i) \in Nat
        /\ Given(p, i)' = Given(p, i) + (IF part[i] = 2 THEN 1 ELSE 0)
        /\ Reducing(p, i)' /\ part'[i] =< 4
    BY <1>2, <1>8, <2>2, PartMoves
  <2>4. Given(p, i)' = Given(p, i) BY <1>8, <2>3
  <2>5. Reducing(p, i) BY <1>2, <1>8 DEF Reducing
  <2>6. \A b \in Group!Barriers : i \in Group!Members(b) =>
           Waits(p, b, i)' = Waits(p, b, i) + (IF b = Group!BarrierAt(p, i) THEN 1 ELSE 0)
    <3>1. Group!BarrierAt(p, i) = Group!Subgroup(i) BY <1>4, <1>8
    <3> QED BY <1>3, <1>6, <1>8, <2>3, <3>1
  <2>7. Awaits(p, i) BY <2>3, <2>4, <2>5, <2>6 DEF Awaits
  <2>8. at' \in [Group!Invocations -> Nat] /\ part' \in [Group!Invocations -> Nat]
        /\ \A j \in Group!Invocations \ {i} : at'[j] = at[j] /\ part'[j] = part[j]
    BY <1>1, <2>1
  <2> QED BY <1>1, <1>2, <1>5, <1>8, <2>2, <2>3, <2>7, <2>8
<1> QED BY <1>2, <1>7, <1>8

-----------------------------------------------------------------------------
\* Only the goroutine that steps moves; the others are at most woken.
OneMoves(i) ==
  /\ at' \in [Group!Invocations -> Nat] /\ part' \in [Group!Invocations -> Nat]
  /\ cond' \in [Group!Invocations -> {"running", "asleep", "woken"}]
  /\ \A j \in Group!Invocations \ {i} :
       /\ at'[j] = at[j] /\ part'[j] = part[j] /\ seen'[j] = seen[j]
       /\ cond'[j] = cond[j] \/ (cond[j] = "asleep" /\ cond'[j] = "woken")

LEMMA StaysTyped ==
  ASSUME NEW p \in Group!Programs, AuthoredTyped(p), NEW i \in Group!Invocations, OneMoves(i),
         at'[i] \in 1 .. Len(p[i]) + 1,
         part'[i] =< (IF at'[i] > Len(p[i]) THEN 2 ELSE IF p[i][at'[i]].op = "combine" THEN 4 ELSE 0),
         cond'[i] # "running" => Group!AtWait(p, i)',
         seen' \in [Group!Invocations -> Nat],
         bars' \in [Group!Barriers -> [total : Nat, waiting : Nat, round : Nat]],
         memory' = [x \in Elements |-> memory'[x]], vals' = [j \in Group!Invocations |-> vals'[j]],
         result' = [j \in Group!Invocations |-> result'[j]]
  PROVE  AuthoredTyped(p)'
<1>1. ASSUME NEW j \in Group!Invocations
      PROVE  /\ at'[j] \in 1 .. Len(p[j]) + 1
             /\ part'[j] =< (IF at'[j] > Len(p[j]) THEN 2 ELSE IF p[j][at'[j]].op = "combine" THEN 4 ELSE 0)
             /\ cond'[j] # "running" => Group!AtWait(p, j)'
  <2>1. CASE j = i BY <2>1
  <2>2. CASE j # i
    <3>1. at'[j] = at[j] /\ part'[j] = part[j] /\ (cond'[j] # "running" => cond[j] # "running")
      BY <2>2 DEF OneMoves
    <3>2. Group!AtWait(p, j)' <=> Group!AtWait(p, j) BY <3>1, OthersStand
    <3> QED BY <3>1, <3>2 DEF AuthoredTyped
  <2> QED BY <2>1, <2>2
<1>2. \A j \in Group!Invocations : (cond[j] # "running" => Group!AtWait(p, j))'
  BY <1>1
<1> QED BY <1>1, <1>2 DEF AuthoredTyped, OneMoves

\* The others are in the same waits as before.
LEMMA OthersWaitOn ==
  ASSUME NEW p, NEW i \in Group!Invocations, OneMoves(i), NEW j \in Group!Invocations \ {i}
  PROVE  /\ Stands(p, j) /\ (Reducing(p, j)' <=> Reducing(p, j)) /\ seen'[j] = seen[j]
         /\ \A b : InWait(p, b, j)' <=> InWait(p, b, j)
         /\ cond[j] = "woken" => cond'[j] = "woken"
<1>1. /\ at'[j] = at[j] /\ part'[j] = part[j] /\ seen'[j] = seen[j]
      /\ cond'[j] = cond[j] \/ (cond[j] = "asleep" /\ cond'[j] = "woken")
  BY DEF OneMoves
<1>2. /\ Stands(p, j) /\ (Reducing(p, j)' <=> Reducing(p, j))
      /\ Group!BarrierAt(p, j)' = Group!BarrierAt(p, j)
  BY <1>1, OthersStand
<1>3. \A b : InWait(p, b, j)' <=> InWait(p, b, j) BY <1>1, <1>2 DEF InWait
<1> QED BY <1>1, <1>2, <1>3

\* A barrier that is not released: who is inside stays inside.
LEMMA RoundHolds ==
  ASSUME NEW p, AuthoredTyped(p), NEW b \in Group!Barriers, Round(p, b),
         bars'[b].total = Cardinality(Staying(p, b)'),
         bars'[b].waiting = bars[b].waiting, bars'[b].round = bars[b].round,
         \A i \in Group!Members(b) :
           \/ /\ Waits(p, b, i)' = Waits(p, b, i) /\ (i \in Staying(p, b)' => i \in Staying(p, b))
              /\ InWait(p, b, i)' <=> InWait(p, b, i)
              /\ InWait(p, b, i) =>
                   /\ seen'[i] = seen[i]
                   /\ cond[i] = "woken" /\ seen[i] # bars[b].round => cond'[i] = "woken"
           \/ i \notin Inside(p, b) /\ ~InWait(p, b, i)' /\ Waits(p, b, i)' = bars[b].round
  PROVE  Round(p, b)'
<1>1. \A i \in Group!Members(b) : i \in Group!Invocations BY DEF Group!Members
<1>2. bars[b].round \in Nat /\ \A i \in Group!Members(b) : seen[i] \in Nat BY <1>1 DEF AuthoredTyped
<1>3. Inside(p, b)' = Inside(p, b)
  <2>1. \A i \in Group!Members(b) : i \in Inside(p, b)' <=> (InWait(p, b, i)' /\ seen'[i] = bars'[b].round)
    BY DEF Inside
  <2>2. \A i \in Group!Members(b) : i \in Inside(p, b) <=> (InWait(p, b, i) /\ seen[i] = bars[b].round)
    BY DEF Inside
  <2>3. Inside(p, b)' \subseteq Group!Members(b) /\ Inside(p, b) \subseteq Group!Members(b) BY DEF Inside
  <2>4. ASSUME NEW i \in Group!Members(b) PROVE i \in Inside(p, b)' <=> i \in Inside(p, b)
    BY <2>1, <2>2, <2>4
  <2> QED BY <2>3, <2>4
<1>4. /\ bars[b].total = Cardinality(Staying(p, b)) /\ bars[b].waiting = Cardinality(Inside(p, b))
      /\ \A i \in Group!Members(b) :
           /\ Waits(p, b, i) =< bars[b].round
           /\ i \in Staying(p, b) /\ ~InWait(p, b, i) => Waits(p, b, i) = bars[b].round
           /\ InWait(p, b, i) =>
                \/ seen[i] = bars[b].round /\ Waits(p, b, i) = bars[b].round
                \/ cond[i] = "woken" /\ seen[i] + 1 = bars[b].round /\ Waits(p, b, i) + 1 = bars[b].round
  BY DEF Round
<1>5. ASSUME NEW i \in Group!Members(b)
      PROVE  /\ Waits(p, b, i)' =< bars'[b].round
             /\ i \in Staying(p, b)' /\ ~InWait(p, b, i)' => Waits(p, b, i)' = bars'[b].round
             /\ InWait(p, b, i)' =>
                  \/ seen'[i] = bars'[b].round /\ Waits(p, b, i)' = bars'[b].round
                  \/ /\ cond'[i] = "woken" /\ seen'[i] + 1 = bars'[b].round
                     /\ Waits(p, b, i)' + 1 = bars'[b].round
  <2>1. CASE i \notin Inside(p, b) /\ ~InWait(p, b, i)' /\ Waits(p, b, i)' = bars[b].round
    BY <1>2, <2>1
  <2>2. CASE /\ Waits(p, b, i)' = Waits(p, b, i) /\ (i \in Staying(p, b)' => i \in Staying(p, b))
             /\ InWait(p, b, i)' <=> InWait(p, b, i)
             /\ InWait(p, b, i) =>
                  /\ seen'[i] = seen[i]
                  /\ cond[i] = "woken" /\ seen[i] # bars[b].round => cond'[i] = "woken"
    BY <1>2, <1>4, <1>5, <2>2
  <2> QED BY <1>5, <2>1, <2>2
<1>6. bars'[b].waiting = Cardinality(Inside(p, b)') BY <1>3, <1>4
<1> QED BY <1>5, <1>6 DEF Round

\* A barrier nothing happened at.
LEMMA RoundKept ==
  ASSUME NEW p, AuthoredTyped(p), NEW b \in Group!Barriers, Round(p, b), bars'[b] = bars[b],
         \A i \in Group!Members(b) :
           /\ i \in Staying(p, b)' <=> i \in Staying(p, b)
           /\ \/ /\ Waits(p, b, i)' = Waits(p, b, i)
                 /\ InWait(p, b, i)' <=> InWait(p, b, i)
                 /\ InWait(p, b, i) =>
                      /\ seen'[i] = seen[i]
                      /\ cond[i] = "woken" /\ seen[i] # bars[b].round => cond'[i] = "woken"
              \/ i \notin Inside(p, b) /\ ~InWait(p, b, i)' /\ Waits(p, b, i)' = bars[b].round
  PROVE  Round(p, b)'
<1>1. Staying(p, b)' = Staying(p, b)
  <2>1. Staying(p, b)' \subseteq Group!Members(b) /\ Staying(p, b) \subseteq Group!Members(b) BY DEF Staying
  <2> QED BY <2>1
<1>2. bars'[b].total = Cardinality(Staying(p, b)') BY <1>1 DEF Round
<1> QED BY <1>2, RoundHolds

\* A barrier that is released: whom its new round holds was inside, or is through.
LEMMA ReleaseTurns ==
  ASSUME NEW p, AuthoredTyped(p), NEW b \in Group!Barriers, Round(p, b),
         bars'[b].total = Cardinality(Staying(p, b)'), bars'[b].waiting = 0,
         bars'[b].round = bars[b].round + 1,
         \A i \in Group!Members(b) :
           \/ /\ ~InWait(p, b, i)' /\ Waits(p, b, i)' =< bars[b].round + 1
              /\ i \in Staying(p, b)' => Waits(p, b, i)' = bars[b].round + 1
           \/ /\ i \in Inside(p, b) /\ InWait(p, b, i)' /\ Waits(p, b, i)' = Waits(p, b, i)
              /\ seen'[i] = seen[i] /\ cond'[i] = "woken"
  PROVE  Round(p, b)'
<1>1. \A i \in Group!Members(b) : i \in Group!Invocations BY DEF Group!Members
<1>2. bars[b].round \in Nat /\ \A i \in Group!Members(b) : seen[i] \in Nat BY <1>1 DEF AuthoredTyped
<1>3. \A i \in Inside(p, b) : seen[i] = bars[b].round /\ Waits(p, b, i) = bars[b].round
  BY <1>2 DEF Inside, Round
<1>4. Inside(p, b)' = {}
  <2>1. SUFFICES ASSUME NEW i \in Group!Members(b), InWait(p, b, i)', seen'[i] = bars'[b].round PROVE FALSE
    BY DEF Inside
  <2> QED BY <1>2, <1>3, <2>1
<1>5. Cardinality({}) = 0 BY FS_EmptySet
<1>6. ASSUME NEW i \in Group!Members(b)
      PROVE  /\ Waits(p, b, i)' =< bars'[b].round
             /\ i \in Staying(p, b)' /\ ~InWait(p, b, i)' => Waits(p, b, i)' = bars'[b].round
             /\ InWait(p, b, i)' =>
                  \/ seen'[i] = bars'[b].round /\ Waits(p, b, i)' = bars'[b].round
                  \/ /\ cond'[i] = "woken" /\ seen'[i] + 1 = bars'[b].round
                     /\ Waits(p, b, i)' + 1 = bars'[b].round
  <2>1. CASE /\ ~InWait(p, b, i)' /\ Waits(p, b, i)' =< bars[b].round + 1
             /\ i \in Staying(p, b)' => Waits(p, b, i)' = bars[b].round + 1
    BY <2>1
  <2>2. CASE /\ i \in Inside(p, b) /\ InWait(p, b, i)' /\ Waits(p, b, i)' = Waits(p, b, i)
             /\ seen'[i] = seen[i] /\ cond'[i] = "woken"
    BY <1>2, <1>3, <2>2
  <2> QED BY <2>1, <2>2
<1> QED BY <1>4, <1>5, <1>6 DEF Round

\* Who has not left is a finite number of goroutines, and who is inside is one of them.
LEMMA InsideStays ==
  ASSUME NEW p \in Group!Programs, AuthoredTyped(p), NEW b \in Group!Barriers
  PROVE  /\ IsFiniteSet(Staying(p, b)) /\ IsFiniteSet(Inside(p, b))
         /\ Inside(p, b) \subseteq Staying(p, b) /\ Staying(p, b) \subseteq Group!Members(b)
         /\ Cardinality(Staying(p, b)) \in Nat /\ Cardinality(Inside(p, b)) \in Nat
         /\ \A i \in Group!Members(b) : InWait(p, b, i) => i \in Staying(p, b) /\ at[i] =< Len(p[i])
<1>1. IsFiniteSet(Group!Invocations)
  <2>1. Size - 1 \in Int BY GroupAssumption DEF Group!KernelAssumption
  <2> QED BY <2>1, FS_Interval DEF Group!Invocations
<1>2. Staying(p, b) \subseteq Group!Members(b) /\ Group!Members(b) \subseteq Group!Invocations
  BY DEF Staying, Group!Members
<1>3. \A i \in Group!Members(b) : InWait(p, b, i) => i \in Staying(p, b) /\ at[i] =< Len(p[i])
  <2>1. SUFFICES ASSUME NEW i \in Group!Members(b), InWait(p, b, i)
                 PROVE  i \in Staying(p, b) /\ at[i] =< Len(p[i])
    OBVIOUS
  <2>2. ~(at[i] > Len(p[i])) BY <1>2, <2>1 DEF InWait, AuthoredTyped, Group!AtWait, Group!Returned
  <2>3. at[i] \in Nat /\ Len(p[i]) \in Nat BY <1>2, PathsAreSequences DEF AuthoredTyped
  <2>4. at[i] =< Len(p[i]) BY <2>2, <2>3
  <2> QED BY <2>4 DEF Staying
<1>4. Inside(p, b) \subseteq Staying(p, b) BY <1>3 DEF Inside
<1>5. IsFiniteSet(Staying(p, b)) /\ IsFiniteSet(Inside(p, b)) BY <1>1, <1>2, <1>4, FS_Subset
<1> QED BY <1>2, <1>3, <1>4, <1>5, FS_CardinalityType

-----------------------------------------------------------------------------
\* The steps that are no wait: where they take a goroutine and what they count.
LEMMA QuietMoves ==
  ASSUME NEW p \in Group!Programs, AuthoredTyped(p), NEW i \in Group!Invocations,
         Group!Store(p, i) \/ Group!Load(p, i) \/ Group!Mark(p, i) \/ Group!Fold(p, i) \/ Group!Clear(p, i)
  PROVE  /\ OneMoves(i) /\ UNCHANGED <<cond, seen, bars>> /\ cond[i] = "running" /\ at[i] \in 1 .. Len(p[i])
         /\ at'[i] \in 1 .. Len(p[i]) + 1
         /\ part'[i] =< (IF at'[i] > Len(p[i]) THEN 2 ELSE IF p[i][at'[i]].op = "combine" THEN 4 ELSE 0)
         /\ \A b \in Group!Barriers : i \in Group!Members(b) =>
              Waits(p, b, i)' = Waits(p, b, i) /\ i \in Staying(p, b) /\ i \in Staying(p, b)'
         /\ Given(p, i) \in Nat
         /\ Given(p, i)' = Given(p, i)
              + (IF p[i][at[i]].op = "read" \/ (p[i][at[i]].op = "combine" /\ part[i] = 2) THEN 1 ELSE 0)
         /\ Reducing(p, i)' <=> p[i][at[i]].op = "combine" /\ part[i] # 4
         /\ (Group!Mark(p, i) \/ Group!Fold(p, i)) => at'[i] = at[i]
<1> DEFINE op == p[i][at[i]].op
<1>1. /\ Len(p[i]) \in Nat /\ at[i] \in 1 .. Len(p[i]) + 1 /\ part[i] \in Nat
      /\ at \in [Group!Invocations -> Nat] /\ part \in [Group!Invocations -> Nat]
      /\ cond \in [Group!Invocations -> {"running", "asleep", "woken"}]
  BY PathsAreSequences DEF AuthoredTyped
<1>2. at[i] =< Len(p[i]) /\ cond[i] = "running" /\ op \in {"read", "write", "combine"}
  BY <1>1 DEF Group!Store, Group!Load, Group!Mark, Group!Fold, Group!Clear, Group!Doing, Group!Returned
<1>3. UNCHANGED <<cond, seen, bars>>
  BY DEF Group!Store, Group!Load, Group!Mark, Group!Fold, Group!Clear
<1>4. \A b : op \in {"read", "write"} => Cost(b, op) = 0 BY DEF Cost
<1>5. CASE \/ op \in {"read", "write"} /\ (Group!Store(p, i) \/ Group!Load(p, i))
           \/ op = "combine" /\ part[i] = 4 /\ Group!Clear(p, i)
  <2>1. at' = [at EXCEPT ![i] = @ + 1] /\ part' = [part EXCEPT ![i] = 0]
    BY <1>5 DEF Group!Store, Group!Load, Group!Clear, Group!NextStep
  <2>2. at'[i] = at[i] + 1 /\ part'[i] = 0 BY <1>1, <2>1
  <2>3. op = "combine" => part[i] = 4 BY <1>5
  <2>4. /\ \A b : Waits(p, b, i)' = Waits(p, b, i) + (IF op = "combine" THEN 0 ELSE Cost(b, op))
        /\ \A b : Waits(p, b, i) \in Nat
        /\ \A b \in Group!Barriers : i \in Group!Members(b) => i \in Staying(p, b) /\ i \in Staying(p, b)'
        /\ Given(p, i) \in Nat
        /\ Given(p, i)' = Given(p, i) + (IF op = "read" THEN 1 ELSE 0)
        /\ ~Reducing(p, i)'
        /\ at'[i] \in 1 .. Len(p[i]) + 1
    BY <1>2, <2>2, <2>3, StepMoves
  <2>5. OneMoves(i) BY <1>1, <1>3, <2>1 DEF OneMoves
  <2>6. op = "read" <=> op = "read" \/ (op = "combine" /\ part[i] = 2) BY <2>3
  <2>7. ~Group!Mark(p, i) /\ ~Group!Fold(p, i)
    BY <1>5 DEF Group!Mark, Group!Fold, Group!Doing
  <2>8. Given(p, i)' = Given(p, i) + (IF op = "read" \/ (op = "combine" /\ part[i] = 2) THEN 1 ELSE 0)
    <3> HIDE DEF op
    <3> QED BY <2>4, <2>6
  <2>9. \A b \in Group!Barriers : i \in Group!Members(b) =>
           Waits(p, b, i)' = Waits(p, b, i) /\ i \in Staying(p, b) /\ i \in Staying(p, b)'
    <3>1. \A b : (IF op = "combine" THEN 0 ELSE Cost(b, op)) = 0 BY <1>2, <1>4
    <3> HIDE DEF op
    <3> QED BY <2>4, <3>1
  <2>10. Reducing(p, i)' <=> op = "combine" /\ part[i] # 4 BY <1>5, <2>4
  <2>11. 0 =< (IF at'[i] > Len(p[i]) THEN 2 ELSE IF p[i][at'[i]].op = "combine" THEN 4 ELSE 0) OBVIOUS
  <2> QED BY <1>1, <1>2, <1>3, <2>2, <2>4, <2>5, <2>7, <2>8, <2>9, <2>10, <2>11
<1>6. CASE op = "combine" /\ part[i] \in {0, 2} /\ (Group!Mark(p, i) \/ Group!Fold(p, i))
  <2>1. at' = at /\ part' = [part EXCEPT ![i] = @ + 1]
    BY <1>6 DEF Group!Mark, Group!Fold, Group!NextPart
  <2>2. at'[i] = at[i] /\ part'[i] = part[i] + 1 /\ part[i] < 4 BY <1>1, <1>6, <2>1
  <2>3. /\ \A b : Waits(p, b, i)'
                    = Waits(p, b, i) + (IF b # Group!Everybody /\ part[i] \in {1, 3} THEN 1 ELSE 0)
        /\ \A b : Waits(p, b, i) \in Nat
        /\ \A b \in Group!Barriers : i \in Group!Members(b) => i \in Staying(p, b) /\ i \in Staying(p, b)'
        /\ Given(p, i) \in Nat
        /\ Given(p, i)' = Given(p, i) + (IF part[i] = 2 THEN 1 ELSE 0)
        /\ Reducing(p, i)' /\ part'[i] =< 4
    BY <1>2, <1>6, <2>2, PartMoves
  <2>4. OneMoves(i) BY <1>1, <1>3, <2>1 DEF OneMoves
  <2>5. \A b \in Group!Barriers : i \in Group!Members(b) =>
           Waits(p, b, i)' = Waits(p, b, i) /\ i \in Staying(p, b) /\ i \in Staying(p, b)'
    <3>1. part[i] \notin {1, 3} BY <1>6
    <3> QED BY <2>3, <3>1
  <2>6. Given(p, i)' = Given(p, i) + (IF op = "read" \/ (op = "combine" /\ part[i] = 2) THEN 1 ELSE 0)
    BY <1>6, <2>3
  <2>7. Reducing(p, i)' <=> op = "combine" /\ part[i] # 4 BY <1>6, <2>3
  <2>8. part'[i] =< (IF at'[i] > Len(p[i]) THEN 2 ELSE IF p[i][at'[i]].op = "combine" THEN 4 ELSE 0)
    BY <1>1, <1>2, <1>6, <2>2, <2>3
  <2> QED BY <1>1, <1>2, <1>3, <2>2, <2>3, <2>4, <2>5, <2>6, <2>7, <2>8
<1>7. \/ op \in {"read", "write"} /\ (Group!Store(p, i) \/ Group!Load(p, i))
      \/ op = "combine" /\ part[i] = 4 /\ Group!Clear(p, i)
      \/ op = "combine" /\ part[i] \in {0, 2} /\ (Group!Mark(p, i) \/ Group!Fold(p, i))
  BY DEF Group!Store, Group!Load, Group!Mark, Group!Fold, Group!Clear, Group!Doing
<1> QED BY <1>5, <1>6, <1>7

\* They leave every barrier's round as it is.
LEMMA QuietSteps ==
  ASSUME NEW p \in Group!Programs, AuthoredTyped(p), \A b \in Group!Barriers : Round(p, b),
         NEW i \in Group!Invocations,
         Group!Store(p, i) \/ Group!Load(p, i) \/ Group!Mark(p, i) \/ Group!Fold(p, i) \/ Group!Clear(p, i)
  PROVE  AuthoredTyped(p)' /\ \A b \in Group!Barriers : Round(p, b)'
<1>1. /\ OneMoves(i) /\ UNCHANGED <<cond, seen, bars>> /\ cond[i] = "running"
      /\ at'[i] \in 1 .. Len(p[i]) + 1
      /\ part'[i] =< (IF at'[i] > Len(p[i]) THEN 2 ELSE IF p[i][at'[i]].op = "combine" THEN 4 ELSE 0)
      /\ \A b \in Group!Barriers : i \in Group!Members(b) =>
           Waits(p, b, i)' = Waits(p, b, i) /\ i \in Staying(p, b) /\ i \in Staying(p, b)'
  BY QuietMoves
<1>2. /\ memory' = [x \in Elements |-> memory'[x]] /\ vals' = [j \in Group!Invocations |-> vals'[j]]
      /\ result' = [j \in Group!Invocations |-> result'[j]]
  BY DEF AuthoredTyped, Group!Store, Group!Load, Group!Mark, Group!Fold, Group!Clear, Group!Return, Group!slots
<1>3. AuthoredTyped(p)' BY <1>1, <1>2, StaysTyped DEF AuthoredTyped
<1>4. ASSUME NEW b \in Group!Barriers PROVE Round(p, b)'
  <2>1. ASSUME NEW j \in Group!Members(b)
        PROVE  /\ Waits(p, b, j)' = Waits(p, b, j) /\ (j \in Staying(p, b)' <=> j \in Staying(p, b))
               /\ InWait(p, b, j)' <=> InWait(p, b, j)
               /\ seen'[j] = seen[j] /\ (cond[j] = "woken" => cond'[j] = "woken")
    <3>1. CASE j = i
      <4>1. ~InWait(p, b, i) /\ ~InWait(p, b, i)' BY <1>1 DEF InWait
      <4> QED BY <1>1, <2>1, <3>1, <4>1
    <3>2. CASE j # i
      <4>1. j \in Group!Invocations \ {i} BY <2>1, <3>2 DEF Group!Members
      <4> QED BY <1>1, <2>1, <4>1, OthersWaitOn DEF Stands
    <3> QED BY <3>1, <3>2
  <2> QED BY <1>1, <2>1, RoundKept
<1> QED BY <1>3, <1>4

-----------------------------------------------------------------------------
\* Whom a release wakes.
LEMMA WokenAre ==
  ASSUME NEW p, AuthoredTyped(p), NEW b, NEW i \in Group!Invocations, cond' = Group!Woken(p, b),
         cond[i] = "running"
  PROVE  /\ cond' \in [Group!Invocations -> {"running", "asleep", "woken"}] /\ cond'[i] = "running"
         /\ \A j \in Group!Invocations :
              /\ cond'[j] = cond[j] \/ (cond[j] = "asleep" /\ cond'[j] = "woken")
              /\ InWait(p, b, j) => cond'[j] = "woken"
<1>1. \A j \in Group!Invocations : cond[j] \in {"running", "asleep", "woken"}
        /\ cond'[j] = IF cond[j] = "asleep" /\ Group!BarrierAt(p, j) = b THEN "woken" ELSE cond[j]
  BY DEF AuthoredTyped, Group!Woken
<1>2. cond' \in [Group!Invocations -> {"running", "asleep", "woken"}] BY <1>1 DEF Group!Woken
<1>3. \A j \in Group!Invocations : InWait(p, b, j) => cond'[j] = "woken" BY <1>1 DEF InWait
<1> QED BY <1>1, <1>2, <1>3

LEMMA ArriveSteps ==
  ASSUME NEW p \in Group!Programs, AuthoredTyped(p), \A b \in Group!Barriers : Round(p, b),
         NEW i \in Group!Invocations, Group!Arrive(p, i)
  PROVE  /\ AuthoredTyped(p)' /\ \A b \in Group!Barriers : Round(p, b)'
         /\ OneMoves(i) /\ Given(p, i)' = Given(p, i) /\ (Reducing(p, i)' <=> Reducing(p, i))
         /\ Reducing(p, i) => at'[i] = at[i]
<1>0. PICK a : a = Group!BarrierAt(p, i) OBVIOUS
<1>1. Group!AtWait(p, i) /\ cond[i] = "running" /\ UNCHANGED <<memory, vals, active, result>>
  BY DEF Group!Arrive, Group!slots
<1>2. /\ at \in [Group!Invocations -> Nat] /\ part \in [Group!Invocations -> Nat]
      /\ cond \in [Group!Invocations -> {"running", "asleep", "woken"}]
      /\ seen \in [Group!Invocations -> Nat]
      /\ bars \in [Group!Barriers -> [total : Nat, waiting : Nat, round : Nat]]
      /\ memory = [x \in Elements |-> memory[x]] /\ vals = [j \in Group!Invocations |-> vals[j]]
      /\ result = [j \in Group!Invocations |-> result[j]]
      /\ at[i] \in 1 .. Len(p[i]) + 1
      /\ part[i] =< (IF at[i] > Len(p[i]) THEN 2 ELSE IF p[i][at[i]].op = "combine" THEN 4 ELSE 0)
  BY DEF AuthoredTyped
<1>3. a \in Group!Barriers /\ i \in Group!Members(a) /\ at[i] =< Len(p[i])
  <2>1. Group!Subgroup(i) # Group!Everybody BY SubgroupsAreNatural
  <2>2. a \in Group!Barriers /\ i \in Group!Members(a)
    BY <1>0, <2>1 DEF Group!BarrierAt, Group!Barriers, Group!Members
  <2>3. Len(p[i]) \in Nat BY PathsAreSequences
  <2> QED BY <1>1, <1>2, <2>2, <2>3 DEF Group!AtWait, Group!Returned
<1>4. i \in Staying(p, a) /\ ~InWait(p, a, i) BY <1>1, <1>3 DEF Staying, InWait
<1>5. bars[a].total \in Nat /\ bars[a].waiting \in Nat /\ bars[a].round \in Nat BY <1>2, <1>3
<1>6. /\ IsFiniteSet(Staying(p, a)) /\ IsFiniteSet(Inside(p, a)) /\ Inside(p, a) \subseteq Staying(p, a)
      /\ Cardinality(Staying(p, a)) = bars[a].total /\ Cardinality(Inside(p, a)) = bars[a].waiting
      /\ i \notin Inside(p, a)
      /\ \A j \in Group!Members(a) : InWait(p, a, j) => j \in Staying(p, a)
  <2>1. Round(p, a) BY <1>3
  <2> QED BY <1>3, <1>4, <2>1, InsideStays DEF Round, Inside
<1>7. Inside(p, a) \union {i} \subseteq Staying(p, a) /\ IsFiniteSet(Inside(p, a) \union {i})
      /\ Cardinality(Inside(p, a) \union {i}) = bars[a].waiting + 1
  BY <1>4, <1>6, FS_AddElement
<1>8. CASE bars[a].waiting + 1 >= bars[a].total
  <2>1. /\ bars' = [bars EXCEPT ![a] = [total |-> bars[a].total, waiting |-> 0, round |-> @.round + 1]]
        /\ cond' = Group!Woken(p, a) /\ Group!Through(p, i) /\ seen' = seen
    BY <1>8, <1>0 DEF Group!Arrive, Group!Release
  <2>2. /\ Awaits(p, i) /\ at' \in [Group!Invocations -> Nat] /\ part' \in [Group!Invocations -> Nat]
        /\ at'[i] \in 1 .. Len(p[i]) + 1
        /\ part'[i] =< (IF at'[i] > Len(p[i]) THEN 2 ELSE IF p[i][at'[i]].op = "combine" THEN 4 ELSE 0)
        /\ \A j \in Group!Invocations \ {i} : at'[j] = at[j] /\ part'[j] = part[j]
        /\ Reducing(p, i) => at'[i] = at[i]
    BY <1>1, <2>1, ThroughMoves
  <2>3. /\ cond' \in [Group!Invocations -> {"running", "asleep", "woken"}] /\ cond'[i] = "running"
        /\ \A j \in Group!Invocations :
             /\ cond'[j] = cond[j] \/ (cond[j] = "asleep" /\ cond'[j] = "woken")
             /\ InWait(p, a, j) => cond'[j] = "woken"
    BY <1>1, <2>1, WokenAre
  <2>4. OneMoves(i) BY <2>1, <2>2, <2>3 DEF OneMoves
  <2>5. /\ bars' \in [Group!Barriers -> [total : Nat, waiting : Nat, round : Nat]]
        /\ bars'[a] = [total |-> bars[a].total, waiting |-> 0, round |-> bars[a].round + 1]
        /\ \A b \in Group!Barriers : b # a => bars'[b] = bars[b]
    <3>1. [total |-> bars[a].total, waiting |-> 0, round |-> bars[a].round + 1]
            \in [total : Nat, waiting : Nat, round : Nat]
      BY <1>5
    <3>2. bars' = [bars EXCEPT ![a] =
                     [total |-> bars[a].total, waiting |-> 0, round |-> bars[a].round + 1]]
      BY <2>1
    <3> QED BY <1>2, <1>3, <3>1, <3>2
  <2>6. AuthoredTyped(p)' BY <1>1, <1>2, <2>1, <2>2, <2>3, <2>4, <2>5, StaysTyped
  <2>7. Staying(p, a) = Inside(p, a) \union {i} BY <1>5, <1>6, <1>7, <1>8, FS_Subset
  <2>8. ASSUME NEW b \in Group!Barriers, b # a PROVE Round(p, b)'
    <3>1. ASSUME NEW j \in Group!Members(b)
          PROVE  /\ Waits(p, b, j)' = Waits(p, b, j) /\ (j \in Staying(p, b)' <=> j \in Staying(p, b))
                 /\ InWait(p, b, j)' <=> InWait(p, b, j)
                 /\ seen'[j] = seen[j] /\ (cond[j] = "woken" => cond'[j] = "woken")
      <4>1. CASE j = i
        <5>1. ~InWait(p, b, i) /\ ~InWait(p, b, i)' BY <1>1, <2>3 DEF InWait
        <5> QED BY <1>1, <2>1, <1>0, <2>2, <2>8, <3>1, <4>1, <5>1 DEF Awaits
      <4>2. CASE j # i
        <5>1. j \in Group!Invocations \ {i} BY <3>1, <4>2 DEF Group!Members
        <5> QED BY <2>4, <3>1, <5>1, OthersWaitOn DEF Stands
      <4> QED BY <4>1, <4>2
    <3> QED BY <2>5, <2>8, <3>1, RoundKept
  <2>9. Round(p, a)'
    <3>1. ASSUME NEW j \in Group!Members(a)
          PROVE  /\ j \in Staying(p, a)' <=> j \in Staying(p, a)
                 /\ \/ /\ ~InWait(p, a, j)' /\ Waits(p, a, j)' =< bars[a].round + 1
                       /\ j \in Staying(p, a)' => Waits(p, a, j)' = bars[a].round + 1
                    \/ /\ j \in Inside(p, a) /\ InWait(p, a, j)' /\ Waits(p, a, j)' = Waits(p, a, j)
                       /\ seen'[j] = seen[j] /\ cond'[j] = "woken"
      <4>1. CASE j = i
        <5>1. ~InWait(p, a, i)' BY <2>3 DEF InWait
        <5>2. Waits(p, a, i)' = Waits(p, a, i) + 1 /\ i \in Staying(p, a)' /\ i \in Staying(p, a)
          BY <1>3, <1>0, <2>2 DEF Awaits
        <5>3. Waits(p, a, i) = bars[a].round BY <1>3, <1>4 DEF Round
        <5> QED BY <1>5, <4>1, <5>1, <5>2, <5>3
      <4>2. CASE j # i
        <5>1. j \in Group!Invocations \ {i} BY <3>1, <4>2 DEF Group!Members
        <5>2. /\ Waits(p, a, j)' = Waits(p, a, j) /\ (j \in Staying(p, a)' <=> j \in Staying(p, a))
              /\ InWait(p, a, j)' <=> InWait(p, a, j)
              /\ seen'[j] = seen[j]
          BY <1>3, <2>4, <3>1, <5>1, OthersWaitOn DEF Stands
        <5>3. CASE j \in Inside(p, a)
          <6>1. InWait(p, a, j) BY <5>3 DEF Inside
          <6> QED BY <2>3, <5>1, <5>2, <5>3, <6>1
        <5>4. CASE j \notin Inside(p, a)
          <6>1. j \notin Staying(p, a) /\ ~InWait(p, a, j) BY <1>6, <2>7, <4>2, <5>4
          <6>2. Waits(p, a, j) =< bars[a].round /\ Waits(p, a, j) \in Nat
            BY <1>3, <5>1, WaitsBounded DEF Round
          <6> QED BY <1>5, <5>2, <6>1, <6>2
        <5> QED BY <5>3, <5>4
      <4> QED BY <4>1, <4>2
    <3>2. Staying(p, a)' = Staying(p, a)
      <4>1. Staying(p, a)' \subseteq Group!Members(a) /\ Staying(p, a) \subseteq Group!Members(a)
        BY DEF Staying
      <4> QED BY <3>1, <4>1
    <3>3. /\ bars'[a].total = Cardinality(Staying(p, a)') /\ bars'[a].waiting = 0
          /\ bars'[a].round = bars[a].round + 1
      BY <1>6, <2>5, <3>2
    <3> QED BY <1>3, <3>1, <3>3, ReleaseTurns
  <2> QED BY <2>2, <2>4, <2>6, <2>8, <2>9 DEF Awaits
<1>9. CASE ~(bars[a].waiting + 1 >= bars[a].total)
  <2>1. /\ bars' = [bars EXCEPT ![a].waiting = @ + 1] /\ cond' = [cond EXCEPT ![i] = "asleep"]
        /\ seen' = [seen EXCEPT ![i] = bars[a].round] /\ at' = at /\ part' = part
    BY <1>9, <1>0 DEF Group!Arrive
  <2>2. OneMoves(i) BY <1>2, <2>1 DEF OneMoves
  <2>3. /\ bars' \in [Group!Barriers -> [total : Nat, waiting : Nat, round : Nat]]
        /\ bars'[a].total = bars[a].total /\ bars'[a].waiting = bars[a].waiting + 1
        /\ bars'[a].round = bars[a].round
        /\ \A b \in Group!Barriers : b # a => bars'[b] = bars[b]
    <3>1. a \in Group!Barriers /\ bars[a] \in [total : Nat, waiting : Nat, round : Nat] BY <1>2, <1>3
    <3>2. [bars[a] EXCEPT !.waiting = @ + 1] \in [total : Nat, waiting : Nat, round : Nat] BY <3>1
    <3>3. bars' = [bars EXCEPT ![a] = [bars[a] EXCEPT !.waiting = @ + 1]] BY <2>1
    <3>4. /\ bars'[a] = [bars[a] EXCEPT !.waiting = @ + 1]
          /\ \A b \in Group!Barriers : b # a => bars'[b] = bars[b]
          /\ bars' \in [Group!Barriers -> [total : Nat, waiting : Nat, round : Nat]]
      BY <1>2, <3>1, <3>2, <3>3
    <3> QED BY <3>1, <3>4
  <2>4. seen' \in [Group!Invocations -> Nat] /\ seen'[i] = bars[a].round /\ cond'[i] = "asleep"
    <3> QED BY <1>2, <1>5, <2>1
  <2>5. /\ Stands(p, i) /\ (Reducing(p, i)' <=> Reducing(p, i))
        /\ Group!BarrierAt(p, i)' = Group!BarrierAt(p, i) /\ (Group!AtWait(p, i)' <=> Group!AtWait(p, i))
    BY <2>1, OthersStand
  <2>6. AuthoredTyped(p)' BY <1>1, <1>2, <2>1, <2>2, <2>3, <2>4, <2>5, StaysTyped
  <2>7. ASSUME NEW b \in Group!Barriers, b # a PROVE Round(p, b)'
    <3>1. ASSUME NEW j \in Group!Members(b)
          PROVE  /\ Waits(p, b, j)' = Waits(p, b, j) /\ (j \in Staying(p, b)' <=> j \in Staying(p, b))
                 /\ InWait(p, b, j)' <=> InWait(p, b, j)
                 /\ InWait(p, b, j) => seen'[j] = seen[j] /\ (cond[j] = "woken" => cond'[j] = "woken")
      <4>1. CASE j = i
        <5>1. ~InWait(p, b, i) /\ ~InWait(p, b, i)' BY <1>0, <2>5, <2>7 DEF InWait
        <5> QED BY <2>5, <3>1, <4>1, <5>1 DEF Stands
      <4>2. CASE j # i
        <5>1. j \in Group!Invocations \ {i} BY <3>1, <4>2 DEF Group!Members
        <5> QED BY <2>2, <3>1, <5>1, OthersWaitOn DEF Stands
      <4> QED BY <4>1, <4>2
    <3> QED BY <2>3, <2>7, <3>1, RoundKept
  <2>8. Round(p, a)'
    <3>1. ASSUME NEW j \in Group!Members(a), j # i
          PROVE  /\ Waits(p, a, j)' = Waits(p, a, j) /\ (j \in Staying(p, a)' <=> j \in Staying(p, a))
                 /\ InWait(p, a, j)' <=> InWait(p, a, j)
                 /\ seen'[j] = seen[j]
                 /\ cond[j] = "woken" => cond'[j] = "woken"
      <4>1. j \in Group!Invocations \ {i} BY <3>1 DEF Group!Members
      <4> QED BY <1>3, <2>2, <3>1, <4>1, OthersWaitOn DEF Stands
    <3>2. /\ Waits(p, a, i)' = Waits(p, a, i) /\ (i \in Staying(p, a)' <=> i \in Staying(p, a))
          /\ InWait(p, a, i)'
      BY <1>3, <1>0, <2>4, <2>5 DEF Stands, InWait
    <3>3. Staying(p, a)' = Staying(p, a)
      <4>1. Staying(p, a)' \subseteq Group!Members(a) /\ Staying(p, a) \subseteq Group!Members(a)
        BY DEF Staying
      <4> QED BY <3>1, <3>2, <4>1
    <3>4. Inside(p, a)' = Inside(p, a) \union {i}
      <4>1. \A j \in Group!Members(a) : j \in Inside(p, a)' <=> (InWait(p, a, j)' /\ seen'[j] = bars'[a].round)
        BY DEF Inside
      <4>2. \A j \in Group!Members(a) : j \in Inside(p, a) <=> (InWait(p, a, j) /\ seen[j] = bars[a].round)
        BY DEF Inside
      <4>3. Inside(p, a)' \subseteq Group!Members(a) /\ Inside(p, a) \subseteq Group!Members(a)
        BY DEF Inside
      <4>4. ASSUME NEW j \in Group!Members(a) PROVE j \in Inside(p, a)' <=> j \in Inside(p, a) \/ j = i
        <5>1. CASE j = i BY <1>3, <2>3, <2>4, <3>2, <4>1, <5>1
        <5>2. CASE j # i BY <2>3, <3>1, <4>1, <4>2, <4>4, <5>2
        <5> QED BY <5>1, <5>2
      <4> QED BY <1>3, <4>3, <4>4
    <3>5. /\ \A j \in Group!Members(a) :
               /\ Waits(p, a, j) =< bars[a].round
               /\ j \in Staying(p, a) /\ ~InWait(p, a, j) => Waits(p, a, j) = bars[a].round
               /\ InWait(p, a, j) =>
                    \/ seen[j] = bars[a].round /\ Waits(p, a, j) = bars[a].round
                    \/ cond[j] = "woken" /\ seen[j] + 1 = bars[a].round /\ Waits(p, a, j) + 1 = bars[a].round
      BY <1>3 DEF Round
    <3>6. Waits(p, a, i) = bars[a].round BY <1>3, <1>4, <3>5
    <3>7. ASSUME NEW j \in Group!Members(a)
          PROVE  /\ Waits(p, a, j)' =< bars'[a].round
                 /\ j \in Staying(p, a)' /\ ~InWait(p, a, j)' => Waits(p, a, j)' = bars'[a].round
                 /\ InWait(p, a, j)' =>
                      \/ seen'[j] = bars'[a].round /\ Waits(p, a, j)' = bars'[a].round
                      \/ /\ cond'[j] = "woken" /\ seen'[j] + 1 = bars'[a].round
                         /\ Waits(p, a, j)' + 1 = bars'[a].round
      <4>1. CASE j = i BY <1>5, <2>3, <2>4, <3>2, <3>6, <4>1
      <4>2. CASE j # i
        <5>1. /\ Waits(p, a, j)' = Waits(p, a, j) /\ (j \in Staying(p, a)' <=> j \in Staying(p, a))
              /\ InWait(p, a, j)' <=> InWait(p, a, j)
              /\ seen'[j] = seen[j] /\ (cond[j] = "woken" => cond'[j] = "woken")
          BY <3>1, <3>7, <4>2
        <5>2. /\ Waits(p, a, j) =< bars[a].round
              /\ j \in Staying(p, a) /\ ~InWait(p, a, j) => Waits(p, a, j) = bars[a].round
              /\ InWait(p, a, j) =>
                   \/ seen[j] = bars[a].round /\ Waits(p, a, j) = bars[a].round
                   \/ cond[j] = "woken" /\ seen[j] + 1 = bars[a].round /\ Waits(p, a, j) + 1 = bars[a].round
          BY <3>5, <3>7
        <5> QED BY <2>3, <5>1, <5>2
      <4> QED BY <4>1, <4>2
    <3>8. bars'[a].total = Cardinality(Staying(p, a)') /\ bars'[a].waiting = Cardinality(Inside(p, a)')
      BY <1>6, <1>7, <2>3, <3>3, <3>4
    <3> QED BY <3>7, <3>8 DEF Round
  <2> QED BY <2>1, <2>2, <2>5, <2>6, <2>7, <2>8 DEF Stands
<1> QED BY <1>8, <1>9

LEMMA LookSteps ==
  ASSUME NEW p \in Group!Programs, AuthoredTyped(p), \A b \in Group!Barriers : Round(p, b),
         NEW i \in Group!Invocations, Group!Look(p, i)
  PROVE  /\ AuthoredTyped(p)' /\ \A b \in Group!Barriers : Round(p, b)'
         /\ OneMoves(i) /\ Given(p, i)' = Given(p, i) /\ (Reducing(p, i)' <=> Reducing(p, i))
         /\ Reducing(p, i) => at'[i] = at[i]
<1>1. PICK a : a = Group!BarrierAt(p, i) OBVIOUS
<1>2. cond[i] = "woken" /\ UNCHANGED <<seen, bars, memory, vals, active, result>>
  BY DEF Group!Look, Group!slots
<1>3. /\ at \in [Group!Invocations -> Nat] /\ part \in [Group!Invocations -> Nat]
      /\ cond \in [Group!Invocations -> {"running", "asleep", "woken"}]
      /\ seen \in [Group!Invocations -> Nat]
      /\ bars \in [Group!Barriers -> [total : Nat, waiting : Nat, round : Nat]]
      /\ memory = [x \in Elements |-> memory[x]] /\ vals = [j \in Group!Invocations |-> vals[j]]
      /\ result = [j \in Group!Invocations |-> result[j]]
      /\ at[i] \in 1 .. Len(p[i]) + 1
      /\ part[i] =< (IF at[i] > Len(p[i]) THEN 2 ELSE IF p[i][at[i]].op = "combine" THEN 4 ELSE 0)
      /\ Group!AtWait(p, i)
  BY <1>2 DEF AuthoredTyped
<1>4. a \in Group!Barriers /\ i \in Group!Members(a) /\ InWait(p, a, i)
  <2>1. Group!Subgroup(i) # Group!Everybody BY SubgroupsAreNatural
  <2>2. a \in Group!Barriers /\ i \in Group!Members(a)
    BY <1>1, <2>1 DEF Group!BarrierAt, Group!Barriers, Group!Members
  <2> QED BY <1>1, <1>2, <2>2 DEF InWait
<1>5. CASE bars[a].round = seen[i]
  <2>1. cond' = [cond EXCEPT ![i] = "asleep"] /\ at' = at /\ part' = part
    BY <1>1, <1>5 DEF Group!Look
  <2>2. OneMoves(i) /\ cond'[i] = "asleep" BY <1>2, <1>3, <2>1 DEF OneMoves
  <2>3. /\ Stands(p, i) /\ (Reducing(p, i)' <=> Reducing(p, i))
        /\ Group!BarrierAt(p, i)' = Group!BarrierAt(p, i) /\ (Group!AtWait(p, i)' <=> Group!AtWait(p, i))
    BY <2>1, OthersStand
  <2>4. AuthoredTyped(p)' BY <1>2, <1>3, <2>1, <2>2, <2>3, StaysTyped
  <2>5. ASSUME NEW b \in Group!Barriers PROVE Round(p, b)'
    <3>1. ASSUME NEW j \in Group!Members(b)
          PROVE  /\ j \in Staying(p, b)' <=> j \in Staying(p, b)
                 /\ Waits(p, b, j)' = Waits(p, b, j)
                 /\ InWait(p, b, j)' <=> InWait(p, b, j)
                 /\ InWait(p, b, j) =>
                      /\ seen'[j] = seen[j]
                      /\ cond[j] = "woken" /\ seen[j] # bars[b].round => cond'[j] = "woken"
      <4>1. CASE j = i
        <5>1. InWait(p, b, i)' <=> InWait(p, b, i) BY <1>2, <2>2, <2>3 DEF InWait
        <5>2. InWait(p, b, i) => b = a BY <1>1 DEF InWait
        <5> QED BY <1>2, <1>5, <2>3, <2>5, <3>1, <4>1, <5>1, <5>2 DEF Stands
      <4>2. CASE j # i
        <5>1. j \in Group!Invocations \ {i} BY <3>1, <4>2 DEF Group!Members
        <5> QED BY <2>2, <2>5, <3>1, <5>1, OthersWaitOn DEF Stands
      <4> QED BY <4>1, <4>2
    <3> QED BY <1>2, <2>5, <3>1, RoundKept
  <2> QED BY <2>1, <2>2, <2>3, <2>4, <2>5 DEF Stands
<1>6. CASE bars[a].round # seen[i]
  <2>1. cond' = [cond EXCEPT ![i] = "running"] /\ Group!Through(p, i) BY <1>1, <1>6 DEF Group!Look
  <2>2. /\ Awaits(p, i) /\ at' \in [Group!Invocations -> Nat] /\ part' \in [Group!Invocations -> Nat]
        /\ at'[i] \in 1 .. Len(p[i]) + 1
        /\ part'[i] =< (IF at'[i] > Len(p[i]) THEN 2 ELSE IF p[i][at'[i]].op = "combine" THEN 4 ELSE 0)
        /\ \A j \in Group!Invocations \ {i} : at'[j] = at[j] /\ part'[j] = part[j]
        /\ Reducing(p, i) => at'[i] = at[i]
    BY <1>3, <2>1, ThroughMoves
  <2>3. OneMoves(i) /\ cond'[i] = "running" BY <1>2, <1>3, <2>1, <2>2 DEF OneMoves
  <2>4. AuthoredTyped(p)' BY <1>2, <1>3, <2>2, <2>3, StaysTyped
  <2>5. ASSUME NEW b \in Group!Barriers PROVE Round(p, b)'
    <3>1. ASSUME NEW j \in Group!Members(b)
          PROVE  /\ j \in Staying(p, b)' <=> j \in Staying(p, b)
                 /\ \/ /\ Waits(p, b, j)' = Waits(p, b, j)
                       /\ InWait(p, b, j)' <=> InWait(p, b, j)
                       /\ InWait(p, b, j) =>
                            /\ seen'[j] = seen[j]
                            /\ cond[j] = "woken" /\ seen[j] # bars[b].round => cond'[j] = "woken"
                    \/ j \notin Inside(p, b) /\ ~InWait(p, b, j)' /\ Waits(p, b, j)' = bars[b].round
      <4>1. CASE j = i
        <5>1. ~InWait(p, b, i)' BY <2>3 DEF InWait
        <5>2. /\ Waits(p, b, i) \in Nat
              /\ Waits(p, b, i)' = Waits(p, b, i) + (IF b = a THEN 1 ELSE 0)
              /\ i \in Staying(p, b)' <=> i \in Staying(p, b)
          BY <1>1, <2>2, <2>5, <3>1, <4>1 DEF Awaits
        <5>3. CASE b = a
          <6>1. Waits(p, b, i) + 1 = bars[b].round /\ i \notin Inside(p, b)
            BY <1>4, <1>6, <5>3 DEF Round, Inside
          <6> QED BY <4>1, <5>1, <5>2, <5>3, <6>1
        <5>4. CASE b # a
          <6>1. ~InWait(p, b, i) BY <1>1, <5>4 DEF InWait
          <6> QED BY <4>1, <5>1, <5>2, <5>4, <6>1
        <5> QED BY <5>3, <5>4
      <4>2. CASE j # i
        <5>1. j \in Group!Invocations \ {i} BY <3>1, <4>2 DEF Group!Members
        <5> QED BY <2>3, <2>5, <3>1, <5>1, OthersWaitOn DEF Stands
      <4> QED BY <4>1, <4>2
    <3> QED BY <1>2, <2>5, <3>1, RoundKept
  <2> QED BY <2>2, <2>3, <2>4, <2>5 DEF Awaits
<1> QED BY <1>5, <1>6

LEMMA RetireSteps ==
  ASSUME NEW p \in Group!Programs, AuthoredTyped(p), \A b \in Group!Barriers : Round(p, b),
         NEW i \in Group!Invocations, Group!Retire(p, i)
  PROVE  /\ AuthoredTyped(p)' /\ \A b \in Group!Barriers : Round(p, b)'
         /\ OneMoves(i) /\ Given(p, i)' = Given(p, i) /\ ~Reducing(p, i)' /\ ~Reducing(p, i)
<1>1. PICK a : a = IF part[i] = 0 THEN Group!Subgroup(i) ELSE Group!Everybody OBVIOUS
<1>2. /\ Len(p[i]) \in Nat /\ at[i] \in Nat /\ part[i] \in Nat
      /\ at \in [Group!Invocations -> Nat] /\ part \in [Group!Invocations -> Nat]
      /\ cond \in [Group!Invocations -> {"running", "asleep", "woken"}]
      /\ seen \in [Group!Invocations -> Nat]
      /\ bars \in [Group!Barriers -> [total : Nat, waiting : Nat, round : Nat]]
      /\ memory = [x \in Elements |-> memory[x]] /\ vals = [j \in Group!Invocations |-> vals[j]]
      /\ result = [j \in Group!Invocations |-> result[j]]
      /\ at[i] \in 1 .. Len(p[i]) + 1
  BY PathsAreSequences DEF AuthoredTyped
<1>3. /\ at[i] > Len(p[i]) /\ part[i] \in {0, 1} /\ at' = at /\ part' = [part EXCEPT ![i] = @ + 1]
      /\ cond' = Group!Woken(p, a) /\ UNCHANGED <<seen, memory, vals, active, result>>
  <2>1. at[i] > Len(p[i]) /\ part[i] < 2 /\ Group!NextPart(i) /\ UNCHANGED <<seen, memory, Group!slots, result>>
    BY DEF Group!Retire, Group!Returned
  <2>2. cond' = Group!Woken(p, a) BY <1>1 DEF Group!Retire
  <2> QED BY <1>2, <2>1, <2>2 DEF Group!NextPart, Group!slots
<1>4. cond[i] = "running" BY <1>3 DEF AuthoredTyped, Group!AtWait, Group!Returned
<1>5. a \in Group!Barriers /\ i \in Group!Members(a) /\ i \in Staying(p, a)
  <2>1. Group!Subgroup(i) # Group!Everybody BY SubgroupsAreNatural
  <2>2. a \in Group!Barriers /\ i \in Group!Members(a) BY <1>1, <2>1 DEF Group!Barriers, Group!Members
  <2>3. part[i] < (IF a = Group!Everybody THEN 2 ELSE 1) BY <1>1, <1>3, <2>1
  <2> QED BY <2>2, <2>3 DEF Staying
<1>6. part'[i] = part[i] + 1 /\ at'[i] = at[i] BY <1>2, <1>3
<1>7. /\ \A b : Waits(p, b, i)' = Waits(p, b, i)
      /\ Given(p, i)' = Given(p, i) /\ ~Reducing(p, i)' /\ ~Reducing(p, i)
  <2>1. \A b : Passed(p, b, i, at[i])' = Passed(p, b, i, at[i]) BY <1>3 DEF Passed, Num
  <2>2. ~(at[i] =< Len(p[i])) /\ ~(at'[i] =< Len(p[i])) BY <1>2, <1>3, <1>6
  <2>3. Results(p, i, at[i])' = Results(p, i, at[i]) BY <1>3 DEF Results, Num
  <2> QED BY <2>1, <2>2, <2>3 DEF Waits, Given, Reducing
<1>8. /\ cond' \in [Group!Invocations -> {"running", "asleep", "woken"}] /\ cond'[i] = "running"
      /\ \A j \in Group!Invocations :
           /\ cond'[j] = cond[j] \/ (cond[j] = "asleep" /\ cond'[j] = "woken")
           /\ InWait(p, a, j) => cond'[j] = "woken"
  BY <1>3, <1>4, WokenAre
<1>9. OneMoves(i)
  <2>1. part' \in [Group!Invocations -> Nat] /\ \A j \in Group!Invocations \ {i} : part'[j] = part[j]
    BY <1>2, <1>3
  <2> QED BY <1>2, <1>3, <1>8, <2>1 DEF OneMoves
<1>10. \A b : ~InWait(p, b, i) /\ ~InWait(p, b, i)' BY <1>4, <1>8 DEF InWait
<1>11. ASSUME NEW b \in Group!Barriers, NEW j \in Group!Members(b), j # i
       PROVE  /\ j \in Staying(p, b)' <=> j \in Staying(p, b)
              /\ Waits(p, b, j)' = Waits(p, b, j)
              /\ InWait(p, b, j)' <=> InWait(p, b, j)
              /\ seen'[j] = seen[j] /\ (cond[j] = "woken" => cond'[j] = "woken")
  <2>1. j \in Group!Invocations \ {i} BY <1>11 DEF Group!Members
  <2> QED BY <1>9, <1>11, <2>1, OthersWaitOn DEF Stands
<1>12. ASSUME NEW b \in Group!Barriers, i \in Group!Members(b)
       PROVE  i \in Staying(p, b)' <=> (i \in Staying(p, b) /\ b # a)
  <2>1. ~(at[i] =< Len(p[i])) /\ ~(at'[i] =< Len(p[i])) BY <1>2, <1>3, <1>6
  <2>2. Group!Subgroup(i) # Group!Everybody BY SubgroupsAreNatural
  <2>3. b = Group!Everybody \/ b = Group!Subgroup(i) BY <1>12 DEF Group!Members
  <2>4. i \in Staying(p, b)' <=> part'[i] < (IF b = Group!Everybody THEN 2 ELSE 1)
    BY <1>12, <2>1 DEF Staying
  <2>5. i \in Staying(p, b) <=> part[i] < (IF b = Group!Everybody THEN 2 ELSE 1)
    BY <1>12, <2>1 DEF Staying
  <2>6. CASE part[i] = 0 BY <1>1, <1>6, <2>2, <2>3, <2>4, <2>5, <2>6
  <2>7. CASE part[i] = 1 BY <1>1, <1>6, <2>2, <2>3, <2>4, <2>5, <2>7
  <2> QED BY <1>3, <2>6, <2>7
<1>13. /\ IsFiniteSet(Staying(p, a)) /\ Inside(p, a) \subseteq Staying(p, a) \ {i}
       /\ Cardinality(Staying(p, a)) = bars[a].total /\ Cardinality(Inside(p, a)) = bars[a].waiting
       /\ \A j \in Group!Members(a) : InWait(p, a, j) => j \in Staying(p, a)
  <2>1. Round(p, a) BY <1>5
  <2>2. i \notin Inside(p, a) BY <1>10 DEF Inside
  <2> QED BY <1>5, <2>1, <2>2, InsideStays DEF Round
<1>14. /\ IsFiniteSet(Staying(p, a) \ {i}) /\ Cardinality(Staying(p, a) \ {i}) = bars[a].total - 1
       /\ bars[a].total - 1 \in Nat
  <2>1. IsFiniteSet(Staying(p, a) \ {i}) /\ Cardinality(Staying(p, a) \ {i}) = bars[a].total - 1
    BY <1>5, <1>13, FS_RemoveElement
  <2> QED BY <2>1, FS_CardinalityType
<1>15. Staying(p, a)' = Staying(p, a) \ {i}
  <2>1. Staying(p, a)' \subseteq Group!Members(a) /\ Staying(p, a) \subseteq Group!Members(a) BY DEF Staying
  <2>2. ASSUME NEW j \in Group!Members(a) PROVE j \in Staying(p, a)' <=> (j \in Staying(p, a) /\ j # i)
    BY <1>5, <1>11, <1>12, <2>2
  <2> QED BY <2>1, <2>2
<1>16. bars[a].waiting \in Nat /\ bars[a].round \in Nat BY <1>2, <1>5
<1>17. ASSUME bars[a].total - 1 > 0 /\ bars[a].waiting >= bars[a].total - 1
       PROVE  /\ bars' \in [Group!Barriers -> [total : Nat, waiting : Nat, round : Nat]] /\ Round(p, a)'
              /\ \A b \in Group!Barriers : b # a => bars'[b] = bars[b]
  <2>1. bars' = [bars EXCEPT ![a] = [total |-> bars[a].total - 1, waiting |-> 0, round |-> @.round + 1]]
    BY <1>1, <1>17 DEF Group!Retire, Group!Release
  <2>2. /\ bars' \in [Group!Barriers -> [total : Nat, waiting : Nat, round : Nat]]
        /\ bars'[a] = [total |-> bars[a].total - 1, waiting |-> 0, round |-> bars[a].round + 1]
        /\ \A b \in Group!Barriers : b # a => bars'[b] = bars[b]
    <3>1. [total |-> bars[a].total - 1, waiting |-> 0, round |-> bars[a].round + 1]
            \in [total : Nat, waiting : Nat, round : Nat]
      BY <1>14, <1>16
    <3>2. bars' = [bars EXCEPT ![a] =
                     [total |-> bars[a].total - 1, waiting |-> 0, round |-> bars[a].round + 1]]
      BY <2>1
    <3> QED BY <1>2, <1>5, <3>1, <3>2
  <2>3. Inside(p, a) = Staying(p, a) \ {i} BY <1>13, <1>14, <1>16, <1>17, FS_Subset
  <2>4. ASSUME NEW j \in Group!Members(a)
        PROVE  \/ /\ ~InWait(p, a, j)' /\ Waits(p, a, j)' =< bars[a].round + 1
                  /\ j \in Staying(p, a)' => Waits(p, a, j)' = bars[a].round + 1
               \/ /\ j \in Inside(p, a) /\ InWait(p, a, j)' /\ Waits(p, a, j)' = Waits(p, a, j)
                  /\ seen'[j] = seen[j] /\ cond'[j] = "woken"
    <3>1. j \in Group!Invocations BY <2>4 DEF Group!Members
    <3>2. Waits(p, a, j) \in Nat /\ Waits(p, a, j) =< bars[a].round
      BY <1>5, <2>4, <3>1, WaitsBounded DEF Round
    <3>3. CASE j = i BY <1>7, <1>10, <1>15, <1>16, <3>2, <3>3
    <3>4. CASE j # i /\ j \in Inside(p, a)
      <4>1. InWait(p, a, j) BY <3>4 DEF Inside
      <4> QED BY <1>5, <1>8, <1>11, <2>4, <3>1, <3>4, <4>1
    <3>5. CASE j # i /\ j \notin Inside(p, a)
      <4>1. j \notin Staying(p, a) /\ ~InWait(p, a, j) BY <1>13, <2>3, <2>4, <3>5
      <4> QED BY <1>5, <1>11, <1>16, <2>4, <3>2, <3>5, <4>1
    <3> QED BY <3>3, <3>4, <3>5
  <2>5. /\ bars'[a].total = Cardinality(Staying(p, a)') /\ bars'[a].waiting = 0
        /\ bars'[a].round = bars[a].round + 1
    BY <1>14, <1>15, <2>2
  <2>6. Round(p, a)' BY <1>5, <2>4, <2>5, ReleaseTurns
  <2> QED BY <2>2, <2>6
<1>18. ASSUME ~(bars[a].total - 1 > 0 /\ bars[a].waiting >= bars[a].total - 1)
       PROVE  /\ bars' \in [Group!Barriers -> [total : Nat, waiting : Nat, round : Nat]] /\ Round(p, a)'
              /\ \A b \in Group!Barriers : b # a => bars'[b] = bars[b]
  <2>1. bars' = [bars EXCEPT ![a].total = bars[a].total - 1] BY <1>1, <1>18 DEF Group!Retire
  <2>2. /\ bars' \in [Group!Barriers -> [total : Nat, waiting : Nat, round : Nat]]
        /\ bars'[a].total = bars[a].total - 1 /\ bars'[a].waiting = bars[a].waiting
        /\ bars'[a].round = bars[a].round
        /\ \A b \in Group!Barriers : b # a => bars'[b] = bars[b]
    BY <1>2, <1>5, <1>14, <1>16, <2>1
  <2>3. ASSUME NEW j \in Group!Members(a)
        PROVE  /\ Waits(p, a, j)' = Waits(p, a, j) /\ (j \in Staying(p, a)' => j \in Staying(p, a))
               /\ InWait(p, a, j)' <=> InWait(p, a, j)
               /\ InWait(p, a, j) =>
                    /\ seen'[j] = seen[j]
                    /\ cond[j] = "woken" /\ seen[j] # bars[a].round => cond'[j] = "woken"
    <3>1. CASE j = i BY <1>7, <1>10, <1>15, <3>1
    <3>2. CASE j # i BY <1>5, <1>11, <2>3, <3>2
    <3> QED BY <3>1, <3>2
  <2>4. bars'[a].total = Cardinality(Staying(p, a)') BY <1>14, <1>15, <2>2
  <2>5. Round(p, a)' BY <1>5, <2>2, <2>3, <2>4, RoundHolds
  <2> QED BY <2>2, <2>5
<1>19. /\ bars' \in [Group!Barriers -> [total : Nat, waiting : Nat, round : Nat]] /\ Round(p, a)'
       /\ \A b \in Group!Barriers : b # a => bars'[b] = bars[b]
  BY <1>17, <1>18
<1>20. ASSUME NEW b \in Group!Barriers, b # a PROVE Round(p, b)'
  <2>1. ASSUME NEW j \in Group!Members(b)
        PROVE  /\ j \in Staying(p, b)' <=> j \in Staying(p, b)
               /\ Waits(p, b, j)' = Waits(p, b, j)
               /\ InWait(p, b, j)' <=> InWait(p, b, j)
               /\ InWait(p, b, j) =>
                    /\ seen'[j] = seen[j]
                    /\ cond[j] = "woken" /\ seen[j] # bars[b].round => cond'[j] = "woken"
    <3>1. CASE j = i BY <1>7, <1>10, <1>12, <1>20, <2>1, <3>1
    <3>2. CASE j # i BY <1>11, <1>20, <2>1, <3>2
    <3> QED BY <3>1, <3>2
  <2> QED BY <1>19, <1>20, <2>1, RoundKept
<1>21. AuthoredTyped(p)'
  <2>1. part'[i] =< (IF at'[i] > Len(p[i]) THEN 2 ELSE IF p[i][at'[i]].op = "combine" THEN 4 ELSE 0)
    BY <1>2, <1>3, <1>6
  <2> QED BY <1>2, <1>3, <1>6, <1>8, <1>9, <1>19, <2>1, StaysTyped
<1> QED BY <1>7, <1>9, <1>19, <1>20, <1>21

-----------------------------------------------------------------------------
\* Every step of a goroutine keeps the rounds; what else it can be of the other parts.
LEMMA GoroutineMoves ==
  ASSUME NEW p \in Group!Programs, AuthoredTyped(p), \A b \in Group!Barriers : Round(p, b),
         NEW i \in Group!Invocations, Group!Goroutine(p, i)
  PROVE  /\ AuthoredTyped(p)' /\ (\A b \in Group!Barriers : Round(p, b)') /\ OneMoves(i)
         /\ \/ at'[i] = at[i]
            \/ at'[i] = at[i] + 1 /\ at[i] \in 1 .. Len(p[i])
                 /\ (p[i][at[i]].op = "write" => Group!Store(p, i))
<1>1. at \in [Group!Invocations -> Nat] /\ Len(p[i]) \in Nat /\ at[i] \in 1 .. Len(p[i]) + 1
  BY PathsAreSequences DEF AuthoredTyped
<1>2. ASSUME Group!Through(p, i), Group!AtWait(p, i)
      PROVE  \/ at'[i] = at[i]
             \/ at'[i] = at[i] + 1 /\ at[i] \in 1 .. Len(p[i]) /\ p[i][at[i]].op # "write"
  <2>1. CASE Group!IsBarrier(p[i][at[i]])
    <3>1. at'[i] = at[i] + 1 BY <1>1, <1>2, <2>1 DEF Group!Through, Group!NextStep
    <3> QED BY <1>1, <1>2, <2>1, <3>1 DEF Group!AtWait, Group!Returned, Group!IsBarrier
  <2>2. CASE ~Group!IsBarrier(p[i][at[i]])
    BY <1>2, <2>2 DEF Group!Through, Group!NextPart
  <2> QED BY <2>1, <2>2
<1>3. CASE Group!Arrive(p, i)
  <2>1. Group!AtWait(p, i) /\ (Group!Through(p, i) \/ at' = at) BY <1>3 DEF Group!Arrive
  <2> QED BY <1>2, <1>3, <2>1, ArriveSteps
<1>4. CASE Group!Look(p, i)
  <2>1. Group!AtWait(p, i) /\ (Group!Through(p, i) \/ at' = at) BY <1>4 DEF Group!Look, AuthoredTyped
  <2> QED BY <1>2, <1>4, <2>1, LookSteps
<1>5. CASE Group!Retire(p, i)
  <2>1. at' = at BY <1>5 DEF Group!Retire, Group!NextPart
  <2> QED BY <1>5, <2>1, RetireSteps
<1>6. CASE Group!Store(p, i) \/ Group!Load(p, i) \/ Group!Mark(p, i) \/ Group!Fold(p, i) \/ Group!Clear(p, i)
  <2>1. AuthoredTyped(p)' /\ (\A b \in Group!Barriers : Round(p, b)') BY <1>6, QuietSteps
  <2>2. OneMoves(i) /\ at[i] \in 1 .. Len(p[i]) BY <1>6, QuietMoves
  <2>3. \/ at'[i] = at[i]
        \/ at'[i] = at[i] + 1 /\ (p[i][at[i]].op = "write" => Group!Store(p, i))
    <3>1. CASE Group!Mark(p, i) \/ Group!Fold(p, i)
      BY <3>1 DEF Group!Mark, Group!Fold, Group!NextPart
    <3>2. CASE Group!Store(p, i) BY <1>1, <3>2 DEF Group!Store, Group!NextStep
    <3>3. CASE Group!Load(p, i) \/ Group!Clear(p, i)
      <4>1. at' = [at EXCEPT ![i] = @ + 1] /\ p[i][at[i]].op # "write"
        BY <3>3 DEF Group!Load, Group!Clear, Group!NextStep, Group!Doing
      <4> QED BY <1>1, <4>1
    <3> QED BY <1>6, <3>1, <3>2, <3>3
  <2> QED BY <2>1, <2>2, <2>3
<1> QED BY <1>3, <1>4, <1>5, <1>6 DEF Group!Goroutine

\* The slots are marked by the goroutines inside a reduction, each with where it is.
LEMMA MarkedSteps ==
  ASSUME NEW p \in Group!Programs, AuthoredTyped(p), \A b \in Group!Barriers : Round(p, b), Marked(p),
         NEW i \in Group!Invocations, Group!Goroutine(p, i)
  PROVE  Marked(p)'
<1>1. OneMoves(i) BY GoroutineMoves
<1>2. \A j \in Group!Invocations : j # i => (Reducing(p, j)' <=> Reducing(p, j)) /\ at'[j] = at[j]
  BY <1>1, OthersWaitOn DEF OneMoves
<1>3. /\ active = {j \in Group!Invocations : Reducing(p, j)} /\ \A j \in active : vals[j] = <<j, at[j]>>
      /\ vals = [j \in Group!Invocations |-> vals[j]]
  BY DEF Marked, AuthoredTyped
<1>4. ASSUME \A j \in Group!Invocations : j # i => (j \in active' <=> j \in active) /\ vals'[j] = vals[j],
             i \in active' <=> Reducing(p, i)', Reducing(p, i)' => vals'[i] = <<i, at'[i]>>,
             active' \subseteq Group!Invocations
      PROVE  Marked(p)'
  <2>1. ASSUME NEW j \in Group!Invocations
        PROVE  (j \in active' <=> Reducing(p, j)') /\ (Reducing(p, j)' => vals'[j] = <<j, at'[j]>>)
    <3>1. CASE j = i BY <1>4, <3>1
    <3>2. CASE j # i BY <1>2, <1>3, <1>4, <2>1, <3>2
    <3> QED BY <3>1, <3>2
  <2>2. active' = {j \in Group!Invocations : Reducing(p, j)'} BY <1>4, <2>1
  <2>3. \A j \in active' : vals'[j] = <<j, at'[j]>> BY <1>4, <2>1
  <2> QED BY <2>2, <2>3 DEF Marked
<1>5. CASE Group!Mark(p, i)
  <2>1. /\ vals' = [vals EXCEPT ![i] = <<i, at[i]>>] /\ active' = active \union {i}
        /\ p[i][at[i]].op = "combine" /\ part[i] = 0
    BY <1>5 DEF Group!Mark, Group!Doing
  <2>2. Reducing(p, i)' /\ at'[i] = at[i] BY <1>5, <2>1, QuietMoves
  <2>3. vals'[i] = <<i, at[i]>> /\ \A j \in Group!Invocations : j # i => vals'[j] = vals[j] BY <1>3, <2>1
  <2>4. active' \subseteq Group!Invocations BY <1>3, <2>1
  <2> QED BY <1>4, <2>1, <2>2, <2>3, <2>4
<1>6. CASE Group!Clear(p, i)
  <2>1. vals' = vals /\ active' = active \ {i} /\ p[i][at[i]].op = "combine" /\ part[i] = 4
    BY <1>6 DEF Group!Clear, Group!Doing
  <2>2. ~Reducing(p, i)' BY <1>6, <2>1, QuietMoves
  <2>3. active' \subseteq Group!Invocations BY <1>3, <2>1
  <2> QED BY <1>4, <2>1, <2>2, <2>3
<1>7. ASSUME vals' = vals, active' = active, Reducing(p, i)' <=> Reducing(p, i),
             Reducing(p, i) => at'[i] = at[i]
      PROVE  Marked(p)'
  <2>1. active' \subseteq Group!Invocations BY <1>3, <1>7
  <2>2. i \in active' <=> Reducing(p, i)' BY <1>3, <1>7
  <2>3. Reducing(p, i)' => vals'[i] = <<i, at'[i]>> BY <1>3, <1>7
  <2> QED BY <1>4, <1>7, <2>1, <2>2, <2>3
<1>8. CASE Group!Store(p, i) \/ Group!Load(p, i)
  <2>1. vals' = vals /\ active' = active /\ p[i][at[i]].op # "combine"
    BY <1>8 DEF Group!Store, Group!Load, Group!Doing, Group!slots
  <2>2. ~Reducing(p, i)' BY <1>8, <2>1, QuietMoves
  <2>3. ~Reducing(p, i) BY <2>1 DEF Reducing
  <2> QED BY <1>7, <2>1, <2>2, <2>3
<1>9. CASE Group!Fold(p, i)
  <2>1. vals' = vals /\ active' = active /\ p[i][at[i]].op = "combine" /\ part[i] = 2
    BY <1>9 DEF Group!Fold, Group!Doing, Group!slots
  <2>2. Reducing(p, i)' /\ at'[i] = at[i] /\ at[i] \in 1 .. Len(p[i]) BY <1>9, <2>1, QuietMoves
  <2>3. Reducing(p, i)
    <3>1. Len(p[i]) \in Nat BY PathsAreSequences
    <3> QED BY <2>1, <2>2, <3>1 DEF Reducing
  <2> QED BY <1>7, <2>1, <2>2, <2>3
<1>10. CASE Group!Arrive(p, i)
  <2>1. vals' = vals /\ active' = active BY <1>10 DEF Group!Arrive, Group!slots
  <2> QED BY <1>7, <1>10, <2>1, ArriveSteps
<1>11. CASE Group!Look(p, i)
  <2>1. vals' = vals /\ active' = active BY <1>11 DEF Group!Look, Group!slots
  <2> QED BY <1>7, <1>11, <2>1, LookSteps
<1>12. CASE Group!Retire(p, i)
  <2>1. vals' = vals /\ active' = active BY <1>12 DEF Group!Retire, Group!slots
  <2> QED BY <1>7, <1>12, <2>1, RetireSteps
<1> QED BY <1>5, <1>6, <1>8, <1>9, <1>10, <1>11, <1>12 DEF Group!Goroutine

-----------------------------------------------------------------------------
\* In a program nothing of which is contested, accesses that clash are of different epochs.
LEMMA ClashesAreApart ==
  ASSUME NEW p, Obeys(p), NEW q \in Group!Places(p), NEW r \in Group!Places(p), Group!Conflict(p, q, r)
  PROVE  /\ Group!EpochOf(p, q) \in Nat /\ Group!EpochOf(p, r) \in Nat
         /\ Group!EpochOf(p, q) # Group!EpochOf(p, r)
         /\ Group!Conflict(p, r, q)
<1>1. p \in Group!Programs BY DEF Obeys
<1>2. Place(p, q) /\ Place(p, r) BY <1>1, PlacesAre
<1>3. Group!EpochOf(p, q) \in Nat /\ Group!EpochOf(p, r) \in Nat
  BY <1>1, <1>2, EpochsOfPlaces
<1>4. Group!EpochOf(p, q) # Group!EpochOf(p, r)
  <2>1. SUFFICES ASSUME Group!EpochOf(p, q) = Group!EpochOf(p, r)
                 PROVE  Group!At(p, q).at \in Group!Contested(p)
    BY DEF Obeys
  <2> QED BY <2>1 DEF Group!Contested
<1>5. Group!Conflict(p, r, q) BY DEF Group!Conflict
<1> QED BY <1>3, <1>4, <1>5

\* There is one latest of the writes to an element.
LEMMA LatestIsUnique ==
  ASSUME NEW p, Obeys(p), NEW x, NEW set,
         \A q \in set : q \in Group!Places(p) /\ Group!At(p, q) = [op |-> "write", at |-> x],
         NEW q, NEW r, Latest(p, q, set), Latest(p, r, set)
  PROVE  q = r
<1>1. p \in Group!Programs BY DEF Obeys
<1>2. /\ q \in set /\ r \in set /\ Place(p, q) /\ Place(p, r)
      /\ Group!At(p, q) = [op |-> "write", at |-> x] /\ Group!At(p, r) = [op |-> "write", at |-> x]
  BY <1>1, PlacesAre DEF Latest
<1>3. Group!EpochOf(p, q) \in Nat /\ Group!EpochOf(p, r) \in Nat
  BY <1>1, <1>2, EpochsOfPlaces
<1>4. Len(p[q[1]]) \in Nat /\ Len(p[r[1]]) \in Nat BY <1>1, <1>2, PathsAreSequences DEF Place
<1>5. Group!EpochOf(p, q) = Group!EpochOf(p, r) /\ q[2] = r[2]
  BY <1>2, <1>3, <1>4 DEF Latest, Place
<1>6. q[1] = r[1]
  <2>1. SUFFICES ASSUME q[1] # r[1] PROVE Group!Conflict(p, q, r)
    BY <1>2, <1>5, ClashesAreApart
  <2> QED BY <1>2, <2>1 DEF Group!Conflict, Group!IsAccess
<1> QED BY <1>2, <1>5, <1>6 DEF Place

\* What is executed grows by the write a goroutine makes.
LEMMA ExecutedGrows ==
  ASSUME NEW p \in Group!Programs, AuthoredTyped(p), NEW i \in Group!Invocations, OneMoves(i), NEW x,
         \/ at'[i] = at[i]
         \/ at'[i] = at[i] + 1 /\ at[i] \in 1 .. Len(p[i])
  PROVE  Executed(p, x)' = Executed(p, x) \union
           (IF at'[i] = at[i] + 1 /\ p[i][at[i]] = [op |-> "write", at |-> x] THEN {<<i, at[i]>>} ELSE {})
<1>1. at[i] \in Nat /\ at \in [Group!Invocations -> Nat] BY DEF AuthoredTyped
<1>2. ASSUME NEW q \in Group!Places(p)
      PROVE  q[2] < at'[q[1]] <=> (q[2] < at[q[1]] \/ (at'[i] = at[i] + 1 /\ q = <<i, at[i]>>))
  <2>1. q = <<q[1], q[2]>> /\ q[1] \in Group!Invocations /\ q[2] \in 1 .. Len(p[q[1]])
    BY <1>2, PlacesAre DEF Place
  <2>2. Len(p[q[1]]) \in Nat BY <2>1, PathsAreSequences
  <2>3. CASE q[1] = i
    <3>1. q = <<i, at[i]>> <=> q[2] = at[i] BY <2>1, <2>3
    <3>2. CASE at'[i] = at[i] BY <1>1, <2>1, <2>2, <2>3, <3>2
    <3>3. CASE at'[i] = at[i] + 1
      <4>1. q[2] < at[i] + 1 <=> (q[2] < at[i] \/ q[2] = at[i]) BY <1>1, <2>1, <2>2
      <4> QED BY <2>3, <3>1, <3>3, <4>1
    <3> QED BY <3>2, <3>3
  <2>4. CASE q[1] # i
    <3>1. at'[q[1]] = at[q[1]] BY <2>1, <2>4 DEF OneMoves
    <3>2. q # <<i, at[i]>> BY <2>4
    <3> QED BY <3>1, <3>2
  <2> QED BY <2>3, <2>4
<1>3. Executed(p, x)' = {q \in Group!Places(p) : Group!At(p, q) = [op |-> "write", at |-> x] /\ q[2] < at'[q[1]]}
  BY DEF Executed
<1>4. ASSUME at'[i] = at[i] + 1
      PROVE  <<i, at[i]>> \in Group!Places(p) /\ Group!At(p, <<i, at[i]>>) = p[i][at[i]]
  <2>1. at[i] \in 1 .. Len(p[i]) BY <1>1, <1>4
  <2>2. Place(p, <<i, at[i]>>) BY <2>1 DEF Place
  <2> QED BY <2>2, PlacesAre DEF Group!At
<1>5. CASE at'[i] = at[i] + 1 /\ p[i][at[i]] = [op |-> "write", at |-> x]
  <2>1. ASSUME NEW q
        PROVE  q \in Executed(p, x)' <=> (q \in Executed(p, x) \/ q = <<i, at[i]>>)
    <3>1. CASE q \in Group!Places(p) BY <1>2, <1>3, <1>4, <1>5, <3>1 DEF Executed
    <3>2. CASE q \notin Group!Places(p) BY <1>3, <1>4, <1>5, <3>2 DEF Executed
    <3> QED BY <3>1, <3>2
  <2> QED BY <1>5, <2>1
<1>6. CASE ~(at'[i] = at[i] + 1 /\ p[i][at[i]] = [op |-> "write", at |-> x])
  <2>1. ASSUME NEW q
        PROVE  q \in Executed(p, x)' <=> q \in Executed(p, x)
    <3>1. CASE q \in Group!Places(p) /\ q = <<i, at[i]>> /\ at'[i] = at[i] + 1
      <4>1. Group!At(p, q) # [op |-> "write", at |-> x] BY <1>4, <1>6, <3>1
      <4> QED BY <1>3, <4>1 DEF Executed
    <3>2. CASE q \in Group!Places(p) /\ ~(q = <<i, at[i]>> /\ at'[i] = at[i] + 1)
      BY <1>2, <1>3, <3>2 DEF Executed
    <3>3. CASE q \notin Group!Places(p) BY <1>3, <3>3 DEF Executed
    <3> QED BY <3>1, <3>2, <3>3
  <2> QED BY <1>6, <2>1
<1> QED BY <1>5, <1>6

\* A write is the latest of those executed when it is made.
LEMMA StoreIsLatest ==
  ASSUME NEW p, Obeys(p), AuthoredTyped(p), \A b \in Group!Barriers : Round(p, b),
         NEW i \in Group!Invocations, at[i] \in 1 .. Len(p[i]), NEW x,
         p[i][at[i]] = [op |-> "write", at |-> x]
  PROVE  Latest(p, <<i, at[i]>>, Executed(p, x) \union {<<i, at[i]>>})
<1> DEFINE w == <<i, at[i]>>
<1>1. p \in Group!Programs BY DEF Obeys
<1>2. w[1] = i /\ w[2] = at[i] /\ w \in Group!Places(p) /\ Group!At(p, w) = [op |-> "write", at |-> x]
  <2>1. Place(p, w) BY DEF Place
  <2> QED BY <1>1, <2>1, PlacesAre DEF Group!At
<1>3. Group!EpochOf(p, w) = Epoch(p, i, at[i]) BY DEF Epoch
<1> HIDE DEF w
<1>4. SUFFICES ASSUME NEW r \in Executed(p, x)
               PROVE  \/ Group!EpochOf(p, r) < Group!EpochOf(p, w)
                      \/ Group!EpochOf(p, r) = Group!EpochOf(p, w) /\ r[2] =< w[2]
  <2>1. at[i] =< at[i] BY DEF AuthoredTyped
  <2> QED BY <1>2, <2>1 DEF Latest, w
<1>5. /\ r \in Group!Places(p) /\ Group!At(p, r) = [op |-> "write", at |-> x] /\ r[2] < at[r[1]]
      /\ r = <<r[1], r[2]>> /\ r[1] \in Group!Invocations /\ r[2] \in 1 .. Len(p[r[1]])
  BY <1>1, PlacesAre DEF Executed, Place
<1>6. Len(p[i]) \in Nat /\ Len(p[r[1]]) \in Nat /\ at[r[1]] \in Nat
  BY <1>1, <1>5, PathsAreSequences DEF AuthoredTyped
<1>7. CASE r[1] = i
  <2>1. r[2] \in 1 .. Len(p[i]) + 1 /\ at[i] \in 1 .. Len(p[i]) + 1 /\ r[2] =< at[i]
    BY <1>5, <1>6, <1>7
  <2>2. Epoch(p, i, r[2]) =< Epoch(p, i, at[i]) /\ Epoch(p, i, r[2]) \in Nat /\ Epoch(p, i, at[i]) \in Nat
    BY <1>1, <2>1, EpochsMonotone
  <2>3. Group!EpochOf(p, r) = Epoch(p, i, r[2]) BY <1>5, <1>7 DEF Epoch
  <2> QED BY <1>2, <1>3, <2>1, <2>2, <2>3
<1>8. CASE r[1] # i
  <2>1. Group!Conflict(p, w, r) BY <1>2, <1>5, <1>8 DEF Group!Conflict, Group!IsAccess
  <2>2. /\ Group!EpochOf(p, w) \in Nat /\ Group!EpochOf(p, r) \in Nat
        /\ Group!EpochOf(p, w) # Group!EpochOf(p, r)
    BY <1>2, <1>5, <2>1, ClashesAreApart
  <2>3. ASSUME Group!EpochOf(p, w) < Group!EpochOf(p, r) PROVE FALSE
    <3>1. at[r[1]] >= r[2] BY <1>5, <1>6
    <3>2. at[w[1]] > w[2] BY <1>2, <1>5, <2>1, <2>3, <3>1, AccessesInOrder
    <3> QED BY <1>2, <1>6, <3>2
  <2> QED BY <2>2, <2>3
<1> QED BY <1>7, <1>8

\* A read comes when the writes before it were executed, and no others.
LEMMA LoadFinds ==
  ASSUME NEW p, Obeys(p), AuthoredTyped(p), \A b \in Group!Barriers : Round(p, b),
         NEW i \in Group!Invocations, at[i] \in 1 .. Len(p[i]), NEW x,
         p[i][at[i]].op = "read", p[i][at[i]].at = x
  PROVE  Executed(p, x) = Group!WritesBefore(p, <<i, at[i]>>)
<1> DEFINE r == <<i, at[i]>>
<1>1. p \in Group!Programs BY DEF Obeys
<1>2. /\ r[1] = i /\ r[2] = at[i] /\ r \in Group!Places(p)
      /\ Group!At(p, r).op = "read" /\ Group!At(p, r).at = x
  <2>1. Place(p, r) BY DEF Place
  <2> QED BY <1>1, <2>1, PlacesAre DEF Group!At
<1>3. Group!EpochOf(p, r) = Epoch(p, i, at[i]) BY DEF Epoch
<1>4. Len(p[i]) \in Nat /\ at[i] \in Nat BY <1>1, PathsAreSequences
<1> HIDE DEF r
<1>5. ASSUME NEW q \in Group!Places(p), Group!At(p, q) = [op |-> "write", at |-> x]
      PROVE  q[2] < at[q[1]]
               <=> (q[1] = r[1] /\ q[2] < r[2]) \/ Group!EpochOf(p, q) < Group!EpochOf(p, r)
  <2>1. /\ q = <<q[1], q[2]>> /\ q[1] \in Group!Invocations /\ q[2] \in 1 .. Len(p[q[1]])
    BY <1>1, <1>5, PlacesAre DEF Place
  <2>2. Len(p[q[1]]) \in Nat /\ at[q[1]] \in Nat BY <1>1, <2>1, PathsAreSequences DEF AuthoredTyped
  <2>3. CASE q[1] = i
    <3>1. q[2] \in 1 .. Len(p[i]) + 1 /\ at[i] \in 1 .. Len(p[i]) + 1 BY <1>4, <2>1, <2>3
    <3>2. /\ Epoch(p, i, q[2]) \in Nat /\ Epoch(p, i, at[i]) \in Nat
          /\ at[i] =< q[2] => Epoch(p, i, at[i]) =< Epoch(p, i, q[2])
      BY <1>1, <3>1, EpochsMonotone
    <3>3. Group!EpochOf(p, q) = Epoch(p, i, q[2]) BY <2>1, <2>3 DEF Epoch
    <3> QED BY <1>2, <1>3, <1>4, <2>1, <2>2, <2>3, <3>2, <3>3
  <2>4. CASE q[1] # i
    <3>1. Group!Conflict(p, q, r) BY <1>2, <1>5, <2>4 DEF Group!Conflict, Group!IsAccess
    <3>2. /\ Group!EpochOf(p, q) \in Nat /\ Group!EpochOf(p, r) \in Nat
          /\ Group!EpochOf(p, q) # Group!EpochOf(p, r) /\ Group!Conflict(p, r, q)
      BY <1>2, <1>5, <3>1, ClashesAreApart
    <3>3. ASSUME Group!EpochOf(p, q) < Group!EpochOf(p, r) PROVE q[2] < at[q[1]]
      <4>1. at[r[1]] >= r[2] BY <1>2, <1>4
      <4>2. at[q[1]] > q[2] BY <1>2, <1>5, <3>1, <3>3, <4>1, AccessesInOrder
      <4> QED BY <2>1, <2>2, <4>2
    <3>4. ASSUME Group!EpochOf(p, r) < Group!EpochOf(p, q), q[2] < at[q[1]] PROVE FALSE
      <4>1. at[q[1]] >= q[2] BY <2>1, <2>2, <3>4
      <4>2. at[r[1]] > r[2] BY <1>2, <1>5, <3>2, <3>4, <4>1, AccessesInOrder
      <4> QED BY <1>2, <1>4, <4>2
    <3> QED BY <1>2, <2>4, <3>2, <3>3, <3>4
  <2> QED BY <2>3, <2>4
<1>6. Group!WritesBefore(p, r) =
        {q \in Group!Places(p) : /\ Group!At(p, q) = [op |-> "write", at |-> x]
                                 /\ \/ q[1] = r[1] /\ q[2] < r[2]
                                    \/ Group!EpochOf(p, q) < Group!EpochOf(p, r)}
  BY <1>2 DEF Group!WritesBefore
<1>7. Executed(p, x) = Group!WritesBefore(p, r) BY <1>5, <1>6 DEF Executed
<1> QED BY <1>7 DEF r

-----------------------------------------------------------------------------
\* An invocation is at one rendezvous of an epoch.
LEMMA StopIs ==
  ASSUME NEW p \in Group!Programs, NEW i \in Group!Invocations, NEW k \in 1 .. Len(p[i]),
         ~Group!IsAccess(p[i][k])
  PROVE  StopAt(p, i, Epoch(p, i, k)) = k
<1>1. Len(p[i]) \in Nat BY PathsAreSequences
<1>2. ASSUME NEW m \in 1 .. Len(p[i]), ~Group!IsAccess(p[i][m]), Epoch(p, i, m) = Epoch(p, i, k)
      PROVE  m = k
  <2>1. m \in 1 .. Len(p[i]) + 1 /\ k \in 1 .. Len(p[i]) + 1 BY <1>1
  <2>2. /\ Epoch(p, i, k) \in Nat /\ Epoch(p, i, m) \in Nat
        /\ k < m => Epoch(p, i, k) < Epoch(p, i, m)
        /\ m < k => Epoch(p, i, m) < Epoch(p, i, k)
    BY <1>2, <2>1, EpochsMonotone
  <2> QED BY <1>1, <1>2, <2>1, <2>2
<1> QED BY <1>2 DEF StopAt

\* While one lane folds, its subgroup's barrier holds the others of that epoch's operation
\* in theirs, and nobody of another epoch's is in one.
LEMMA FoldersAre ==
  ASSUME NEW p, Obeys(p), AuthoredTyped(p), \A b \in Group!Barriers : Round(p, b), Marked(p),
         NEW i \in Group!Invocations, at[i] \in 1 .. Len(p[i]), p[i][at[i]].op = "combine", part[i] = 2,
         cond[i] = "running"
  PROVE  /\ active \intersect Group!Lanes(i) = CombinesAt(p, i, Epoch(p, i, at[i]))
         /\ \A j \in active \intersect Group!Lanes(i) :
              /\ at[j] \in 1 .. Len(p[j]) /\ p[j][at[j]].op = "combine"
              /\ Epoch(p, j, at[j]) = Epoch(p, i, at[i])
<1>1. p \in Group!Programs BY DEF Obeys
<1>2. PICK b : b = Group!Subgroup(i) OBVIOUS
<1>3. b \in Group!Barriers /\ b # Group!Everybody BY <1>2, SubgroupsAreNatural DEF Group!Barriers
<1>4. Group!Members(b) = Group!Lanes(i) BY <1>2, <1>3 DEF Group!Members, Group!Lanes
<1>5. i \in Group!Members(b) BY <1>4 DEF Group!Lanes
<1> DEFINE d == Epoch(p, i, at[i])
           n == Passed(p, b, i, at[i])
<1>6. ASSUME NEW j \in Group!Members(b)
      PROVE  /\ j \in Group!Invocations /\ Len(p[j]) \in Nat /\ at[j] \in Nat
             /\ at[j] \in 1 .. Len(p[j]) + 1 /\ part[j] \in Nat
             /\ part[j] =< (IF at[j] > Len(p[j]) THEN 2 ELSE IF p[j][at[j]].op = "combine" THEN 4 ELSE 0)
  <2>1. j \in Group!Invocations BY <1>6 DEF Group!Members
  <2> QED BY <1>1, <2>1, PathsAreSequences DEF AuthoredTyped
<1>7. n \in Nat /\ d \in Nat BY <1>1, <1>5, <1>6, PassedMonotone, EpochsMonotone
<1>8. bars[b].round = n + 1
  <2>1. Waits(p, b, i) = n + 1
    <3>1. 2 \div 2 = 1 OBVIOUS
    <3>2. at[i] =< Len(p[i]) BY <1>5, <1>6
    <3> QED BY <1>3, <3>1, <3>2 DEF Waits
  <2>2. i \in Staying(p, b) /\ ~InWait(p, b, i) BY <1>5, <1>6 DEF Staying, InWait
  <2> QED BY <1>3, <1>5, <2>1, <2>2 DEF Round
<1>9. ASSUME NEW j \in Group!Members(b), at[j] =< Len(p[j])
      PROVE  /\ Waits(p, b, j) \in Nat /\ Passed(p, b, j, at[j]) \in Nat
             /\ Waits(p, b, j) = Passed(p, b, j, at[j]) + (part[j] \div 2)
             /\ Waits(p, b, j) =< Passed(p, b, j, at[j] + 1) /\ Passed(p, b, j, at[j] + 1) \in Nat
             /\ \/ Waits(p, b, j) = n + 1
                \/ /\ InWait(p, b, j) /\ Waits(p, b, j) = n
                   /\ Waits(p, b, j) + 1 =< Passed(p, b, j, at[j] + 1)
  <2>1. /\ Waits(p, b, j) \in Nat /\ Passed(p, b, j, at[j]) \in Nat
        /\ Waits(p, b, j) =< Passed(p, b, j, at[j] + 1) /\ Passed(p, b, j, at[j] + 1) \in Nat
        /\ InWait(p, b, j) => Waits(p, b, j) + 1 =< Passed(p, b, j, at[j] + 1)
    BY <1>1, <1>6, <1>9, WaitsBounded
  <2>2. j \in Staying(p, b) BY <1>9 DEF Staying
  <2>3. \/ Waits(p, b, j) = n + 1
        \/ InWait(p, b, j) /\ Waits(p, b, j) + 1 = n + 1
    BY <1>3, <1>8, <1>9, <2>2 DEF Round
  <2>4. Waits(p, b, j) = Passed(p, b, j, at[j]) + (part[j] \div 2) BY <1>3, <1>9 DEF Waits
  <2> HIDE DEF n
  <2> QED BY <1>7, <2>1, <2>3, <2>4
<1>10. Cost(b, "combine") = 2 BY <1>3 DEF Cost
<1>11. ASSUME NEW j \in Group!Members(b), NEW k \in 1 .. Len(p[j]), p[j][k].op = "combine",
              Epoch(p, j, k) = d
       PROVE  at[j] = k /\ part[j] > 0
  <2>1. k \in 1 .. Len(p[j]) + 1 /\ k + 1 \in 1 .. Len(p[j]) + 1 BY <1>6, <1>11
  <2>2. Passed(p, b, j, k) = n
    <3>1. at[i] \in 1 .. Len(p[i]) + 1 BY <1>5, <1>6
    <3> QED BY <1>3, <1>5, <1>11, <2>1, <3>1, PassedAligned
  <2>3. Passed(p, b, j, k + 1) = n + 2 BY <1>1, <1>6, <1>10, <1>11, <2>2, PassedGrows
  <2> HIDE DEF n, d
  <2>4. at[j] =< k
    <3>1. SUFFICES ASSUME k + 1 =< at[j] PROVE FALSE BY <1>6, <1>11
    <3>2. Passed(p, b, j, k + 1) =< Passed(p, b, j, at[j]) BY <1>1, <1>6, <1>11, <2>1, <3>1, PassedMonotone
    <3>3. Passed(p, b, j, at[j]) =< Waits(p, b, j) /\ Waits(p, b, j) \in Nat
          /\ Passed(p, b, j, at[j]) \in Nat
      BY <1>1, <1>6, <1>11, WaitsBounded
    <3>4. Waits(p, b, j) =< n + 1 BY <1>3, <1>8, <1>11 DEF Round
    <3> QED BY <1>7, <2>3, <3>2, <3>3, <3>4
  <2>5. at[j] =< Len(p[j]) BY <1>6, <1>11, <2>4
  <2>6. at[j] = k
    <3>1. SUFFICES ASSUME at[j] < k PROVE FALSE BY <1>6, <1>11, <2>4
    <3>2. at[j] + 1 =< k /\ at[j] + 1 \in 1 .. Len(p[j]) + 1 BY <1>6, <1>11, <3>1
    <3>3. Passed(p, b, j, at[j] + 1) =< n BY <1>1, <1>6, <1>11, <2>1, <2>2, <3>2, PassedMonotone
    <3> QED BY <1>7, <1>9, <1>11, <2>5, <3>3
  <2>7. part[j] > 0
    <3>1. SUFFICES ASSUME part[j] = 0 PROVE FALSE BY <1>6, <1>11
    <3>2. 0 \div 2 = 0 OBVIOUS
    <3>3. InWait(p, b, j) BY <1>7, <1>9, <1>11, <2>2, <2>5, <2>6, <3>1, <3>2
    <3>4. Group!AtWait(p, j) BY <1>6, <1>11, <3>3 DEF InWait, AuthoredTyped
    <3> QED BY <1>11, <2>6, <3>1, <3>4 DEF Group!AtWait, Group!IsBarrier
  <2> QED BY <2>6, <2>7
<1>12. ASSUME NEW j \in Group!Members(b), Reducing(p, j)
       PROVE  at[j] \in 1 .. Len(p[j]) /\ p[j][at[j]].op = "combine" /\ Epoch(p, j, at[j]) = d
  <2>1. at[j] \in 1 .. Len(p[j]) /\ at[j] =< Len(p[j]) /\ p[j][at[j]].op = "combine" /\ part[j] \in 1 .. 4
    BY <1>6, <1>12, SMTT(30) DEF Reducing
  <2> DEFINE k == at[j]
             m == Passed(p, b, j, k)
  <2>2. k \in 1 .. Len(p[j]) + 1 /\ ~Group!IsAccess(p[j][k]) /\ Epoch(p, j, k) \in Nat
    <3>1. k \in 1 .. Len(p[j]) + 1 /\ ~Group!IsAccess(p[j][k]) BY <1>6, <1>12, <2>1 DEF Group!IsAccess
    <3> QED BY <1>1, <1>6, <1>12, <3>1, EpochsMonotone
  <2>3. /\ m \in Nat /\ part[j] \div 2 \in 0 .. 2
        /\ m + (part[j] \div 2) = n + 1 \/ m + (part[j] \div 2) = n
        /\ part[j] = 4 => m + (part[j] \div 2) = n + 1
    <3>1. part[j] \div 2 \in 0 .. 2 BY <2>1
    <3>2. InWait(p, b, j) => part[j] # 4
      <4>1. InWait(p, b, j) => Group!AtWait(p, j) BY <1>6, <1>12 DEF InWait, AuthoredTyped
      <4> QED BY <2>1, <4>1 DEF Group!AtWait, Group!IsBarrier
    <3> HIDE DEF n
    <3> QED BY <1>9, <1>12, <2>1, <3>1, <3>2
  <2>4. n - 1 =< m /\ m =< n + 1
    <3>1. CASE part[j] = 4
      <4>1. part[j] \div 2 = 2 BY <3>1
      <4> HIDE DEF n, m
      <4> QED BY <1>7, <2>3, <3>1, <4>1
    <3>2. CASE part[j] # 4
      <4>1. part[j] \div 2 \in 0 .. 1 BY <2>1, <3>2
      <4> HIDE DEF n, m
      <4> QED BY <1>7, <2>3, <4>1
    <3> QED BY <3>1, <3>2
  <2>5. ASSUME Epoch(p, j, k) < d PROVE FALSE
    <3>1. at[i] \in 1 .. Len(p[i]) + 1 /\ i \in Group!Invocations BY <1>5, <1>6
    <3>2. PICK u \in 1 .. Len(p[i]) :
             u < at[i] /\ ~Group!IsAccess(p[i][u]) /\ Epoch(p, i, u) = Epoch(p, j, k)
      BY <1>1, <2>2, <2>5, <3>1, Stopped
    <3>3. j \in Group!Lanes(i) /\ ~Group!IsAccess(p[j][k]) BY <1>4, <1>12, <2>1 DEF Group!IsAccess
    <3>4. p[i][u] = p[j][k]
      <4>1. /\ k \in 1 .. Len(p[j]) /\ Epoch(p, i, u) = Epoch(p, j, k)
            /\ ~Group!IsAccess(p[i][u]) /\ ~Group!IsAccess(p[j][k])
        BY <2>1, <3>2, <3>3
      <4> HIDE DEF k, m, n, d
      <4> QED BY <3>1, <3>3, <4>1, LanesMeet, SMTT(30)
    <3>5. u \in 1 .. Len(p[i]) + 1 /\ u + 1 \in 1 .. Len(p[i]) + 1 /\ u + 1 =< at[i]
      BY <1>5, <1>6, <3>2
    <3>6. Passed(p, b, i, u) = m BY <1>3, <1>5, <1>12, <2>2, <3>2, <3>5, PassedAligned
    <3>7. Passed(p, b, i, u + 1) = m + 2
      <4>1. p[i][u].op = "combine" BY <2>1, <3>4
      <4>2. Passed(p, b, i, u + 1) = Passed(p, b, i, u) + Cost(b, p[i][u].op)
        BY <1>1, <3>1, <3>2, PassedGrows
      <4> QED BY <1>10, <3>6, <4>1, <4>2
    <3>8. m + 2 =< n BY <1>1, <3>1, <3>5, <3>7, PassedMonotone
    <3> HIDE DEF n, m
    <3> QED BY <1>7, <2>3, <2>4, <3>8
  <2>6. ASSUME d < Epoch(p, j, k) PROVE FALSE
    <3>1. j \in Group!Invocations BY <1>6, <1>12
    <3>2. PICK u \in 1 .. Len(p[j]) : u < k /\ ~Group!IsAccess(p[j][u]) /\ Epoch(p, j, u) = d
      <4> HIDE DEF d
      <4> QED BY <1>1, <1>7, <2>2, <2>6, <3>1, Stopped
    <3>3. j \in Group!Lanes(i) BY <1>4, <1>12
    <3>4. p[i][at[i]] = p[j][u]
      <4>1. ~Group!IsAccess(p[i][at[i]]) BY DEF Group!IsAccess
      <4> QED BY <3>2, <3>3, <4>1, LanesMeet
    <3>5. u \in 1 .. Len(p[j]) + 1 /\ u + 1 \in 1 .. Len(p[j]) + 1 /\ u + 1 =< k
      BY <1>6, <1>12, <2>1, <3>2
    <3>6. Passed(p, b, j, u) = n
      <4>1. at[i] \in 1 .. Len(p[i]) + 1 BY <1>5, <1>6
      <4> QED BY <1>3, <1>5, <1>12, <3>2, <3>5, <4>1, PassedAligned
    <3>7. Passed(p, b, j, u + 1) = n + 2 BY <1>1, <1>10, <3>1, <3>2, <3>4, <3>6, PassedGrows
    <3>8. n + 2 =< m BY <1>1, <2>2, <3>1, <3>5, <3>7, PassedMonotone
    <3> HIDE DEF n, m
    <3> QED BY <1>7, <2>3, <2>4, <3>8
  <2>7. Epoch(p, j, k) = d
    <3> HIDE DEF d
    <3> QED BY <1>7, <2>2, <2>5, <2>6
  <2> QED BY <2>1, <2>7
<1> HIDE DEF d, n
<1>13. active = {j \in Group!Invocations : Reducing(p, j)} BY DEF Marked
<1>14. CombinesAt(p, i, d) =
         {j \in Group!Members(b) : \E k \in 1 .. Len(p[j]) : p[j][k].op = "combine" /\ Epoch(p, j, k) = d}
  BY <1>4 DEF CombinesAt
<1>15. active \intersect Group!Lanes(i) = CombinesAt(p, i, d)
  <2>1. ASSUME NEW j \in Group!Members(b)
        PROVE  Reducing(p, j) <=> j \in CombinesAt(p, i, d)
    <3>1. ASSUME j \in CombinesAt(p, i, d) PROVE Reducing(p, j)
      <4>1. PICK k \in 1 .. Len(p[j]) : p[j][k].op = "combine" /\ Epoch(p, j, k) = d BY <1>14, <3>1
      <4>2. at[j] = k /\ part[j] > 0 BY <1>11, <2>1, <4>1
      <4>3. at[j] =< Len(p[j]) BY <1>6, <2>1, <4>2
      <4> QED BY <4>1, <4>2, <4>3 DEF Reducing
    <3>2. ASSUME Reducing(p, j) PROVE j \in CombinesAt(p, i, d)
      BY <1>12, <1>14, <2>1, <3>2
    <3> QED BY <3>1, <3>2
  <2>2. CombinesAt(p, i, d) \subseteq Group!Members(b) BY <1>14
  <2>3. \A j \in Group!Members(b) : j \in Group!Invocations BY DEF Group!Members
  <2> QED BY <1>4, <1>13, <2>1, <2>2, <2>3
<1>16. \A j \in active \intersect Group!Lanes(i) :
         at[j] \in 1 .. Len(p[j]) /\ p[j][at[j]].op = "combine" /\ Epoch(p, j, at[j]) = d
  BY <1>4, <1>12, <1>13
<1> QED BY <1>15, <1>16 DEF d

\* So what a lane folds is what the scheduler combined.
LEMMA FoldsAlike ==
  ASSUME NEW p, Obeys(p), AuthoredTyped(p), \A b \in Group!Barriers : Round(p, b), Marked(p),
         NEW i \in Group!Invocations, at[i] \in 1 .. Len(p[i]), p[i][at[i]].op = "combine", part[i] = 2,
         cond[i] = "running"
  PROVE  LET lanes == Group!InLaneOrder(active \intersect Group!Lanes(i))
         IN  <<p[i][at[i]].at, [k \in DOMAIN lanes |-> vals[lanes[k]]]>> = Folded(p, i, Epoch(p, i, at[i]))
<1>1. p \in Group!Programs BY DEF Obeys
<1>2. PICK d : d = Epoch(p, i, at[i]) OBVIOUS
<1>3. PICK set : set = active \intersect Group!Lanes(i) OBVIOUS
<1>4. /\ set = CombinesAt(p, i, d)
      /\ \A j \in set : at[j] \in 1 .. Len(p[j]) /\ p[j][at[j]].op = "combine" /\ Epoch(p, j, at[j]) = d
  BY <1>2, <1>3, FoldersAre
<1>5. set \subseteq Group!Lanes(i) /\ set \subseteq Group!Invocations BY <1>3 DEF Group!Lanes
<1>6. \A j \in set : vals[j] = <<j, at[j]>> BY <1>3 DEF Marked
<1>7. ASSUME NEW j \in set PROVE StopAt(p, j, d) = at[j] /\ p[j][at[j]] = p[i][at[i]]
  <2>1. ~Group!IsAccess(p[j][at[j]]) /\ ~Group!IsAccess(p[i][at[i]]) BY <1>4, <1>7 DEF Group!IsAccess
  <2>2. StopAt(p, j, Epoch(p, j, at[j])) = at[j] BY <1>1, <1>4, <1>5, <1>7, <2>1, StopIs
  <2>3. p[i][at[i]] = p[j][at[j]] BY <1>2, <1>4, <1>5, <1>7, <2>1, LanesMeet
  <2> QED BY <1>4, <1>7, <2>2, <2>3
<1>8. PICK lanes : lanes = Group!InLaneOrder(set) OBVIOUS
<1>9. IsFiniteSet(set) /\ lanes \in [1 .. Cardinality(set) -> set] BY <1>5, <1>8, LanesHaveAnOrder
<1>10. i \in set
  <2>1. i \in Group!Lanes(i) BY DEF Group!Lanes
  <2> QED BY <1>2, <1>4, <2>1 DEF CombinesAt
<1>11. Cardinality(set) \in Nat /\ 1 \in 1 .. Cardinality(set)
  <2>1. Cardinality(set) \in Nat /\ Cardinality(set) # 0
    BY <1>9, <1>10, FS_CardinalityType, FS_EmptySet
  <2> QED BY <2>1
<1>12. lanes[1] \in set /\ \A k \in DOMAIN lanes : lanes[k] \in set BY <1>9, <1>11
<1>13. p[i][at[i]].at = p[lanes[1]][StopAt(p, lanes[1], d)].at BY <1>7, <1>12
<1>14. [k \in DOMAIN lanes |-> vals[lanes[k]]] = [k \in DOMAIN lanes |-> <<lanes[k], StopAt(p, lanes[k], d)>>]
  BY <1>6, <1>7, <1>12
<1>15. Folded(p, i, d) = <<p[lanes[1]][StopAt(p, lanes[1], d)].at,
                          [k \in DOMAIN lanes |-> <<lanes[k], StopAt(p, lanes[k], d)>>]>>
  BY <1>4, <1>8 DEF Folded
<1> QED BY <1>2, <1>3, <1>8, <1>13, <1>14, <1>15

-----------------------------------------------------------------------------
LEMMA RememberedSteps ==
  ASSUME NEW p, Obeys(p), AuthoredTyped(p), \A b \in Group!Barriers : Round(p, b), Remembered(p),
         NEW i \in Group!Invocations, Group!Goroutine(p, i)
  PROVE  Remembered(p)'
<1>1. p \in Group!Programs BY DEF Obeys
<1>2. /\ OneMoves(i)
      /\ \/ at'[i] = at[i]
         \/ at'[i] = at[i] + 1 /\ at[i] \in 1 .. Len(p[i])
              /\ (p[i][at[i]].op = "write" => Group!Store(p, i))
  BY <1>1, GoroutineMoves
<1>3. \A x : Executed(p, x)' = Executed(p, x) \union
        (IF at'[i] = at[i] + 1 /\ p[i][at[i]] = [op |-> "write", at |-> x] THEN {<<i, at[i]>>} ELSE {})
  BY <1>1, <1>2, ExecutedGrows
<1>4. memory = [x \in Elements |-> memory[x]] /\ at[i] \in Nat BY DEF AuthoredTyped
<1>5. SUFFICES ASSUME NEW x \in Elements, Executed(p, x)' # {}
               PROVE  Latest(p, memory'[x], Executed(p, x)')
  BY DEF Remembered
<1>6. Executed(p, x) # {} => Latest(p, memory[x], Executed(p, x)) BY <1>5 DEF Remembered
<1>7. CASE Group!Store(p, i)
  <2>1. /\ p[i][at[i]].op = "write" /\ memory' = [memory EXCEPT ![p[i][at[i]].at] = <<i, at[i]>>]
        /\ at' = [at EXCEPT ![i] = @ + 1]
    BY <1>7 DEF Group!Store, Group!Doing, Group!NextStep
  <2>2. at[i] \in 1 .. Len(p[i]) BY <1>1, <1>7, QuietMoves
  <2>3. at'[i] = at[i] + 1 BY <2>1 DEF AuthoredTyped
  <2>4. PICK y \in Elements : p[i][at[i]] = [op |-> "write", at |-> y]
    <3>1. p[i][at[i]] \in Group!Step BY <1>1, <2>2, PathsAreSequences
    <3> QED BY <2>1, <3>1 DEF Group!Step
  <2>5. CASE x = y
    <3>1. Executed(p, x)' = Executed(p, x) \union {<<i, at[i]>>} BY <1>3, <2>3, <2>4, <2>5
    <3>2. memory'[x] = <<i, at[i]>> BY <1>4, <2>1, <2>4, <2>5
    <3> QED BY <2>2, <2>4, <2>5, <3>1, <3>2, StoreIsLatest
  <2>6. CASE x # y
    <3>1. p[i][at[i]] # [op |-> "write", at |-> x] BY <2>4, <2>6
    <3>2. Executed(p, x)' = Executed(p, x) BY <1>3, <3>1
    <3>3. memory'[x] = memory[x] BY <1>4, <2>1, <2>4, <2>6
    <3> QED BY <1>5, <1>6, <3>2, <3>3
  <2> QED BY <2>5, <2>6
<1>8. CASE ~Group!Store(p, i)
  <2>1. ~(at'[i] = at[i] + 1 /\ p[i][at[i]] = [op |-> "write", at |-> x]) BY <1>2, <1>4, <1>8
  <2>2. Executed(p, x)' = Executed(p, x) BY <1>3, <2>1
  <2>3. memory' = memory
    BY <1>8 DEF Group!Goroutine, Group!Load, Group!Arrive, Group!Look, Group!Mark, Group!Fold, Group!Clear,
                Group!Retire
  <2> QED BY <1>5, <1>6, <2>2, <2>3
<1> QED BY <1>7, <1>8

LEMMA AgreedStays ==
  ASSUME NEW p, AuthoredTyped(p), Agreed(p), NEW i \in Group!Invocations, OneMoves(i), log' = log,
         \/ result' = result /\ Given(p, i)' = Given(p, i)
         \/ \E v : Group!Return(i, v) /\ Given(p, i)' = Given(p, i) + 1 /\ v = log[i][Given(p, i) + 1]
  PROVE  Agreed(p)'
<1>1. \A j \in Group!Invocations : j # i => Given(p, j)' = Given(p, j)
  BY OthersWaitOn DEF Stands
<1>2. \A j \in Group!Invocations : /\ IsSeq(result[j]) /\ Len(result[j]) = Given(p, j)
                                   /\ \A n \in 1 .. Len(result[j]) : result[j][n] = log[j][n]
  BY DEF Agreed
<1>3. result = [j \in Group!Invocations |-> result[j]] BY DEF AuthoredTyped
<1>4. CASE result' = result /\ Given(p, i)' = Given(p, i)
  <2>1. \A j \in Group!Invocations : Given(p, j)' = Given(p, j) BY <1>1, <1>4
  <2> QED BY <1>2, <1>4, <2>1 DEF Agreed
<1>5. ASSUME NEW v, Group!Return(i, v), Given(p, i)' = Given(p, i) + 1, v = log[i][Given(p, i) + 1]
      PROVE  Agreed(p)'
  <2>1. result'[i] = Append(result[i], v) /\ \A j \in Group!Invocations : j # i => result'[j] = result[j]
    BY <1>3, <1>5 DEF Group!Return
  <2>2. /\ IsSeq(Append(result[i], v)) /\ Len(Append(result[i], v)) = Len(result[i]) + 1
        /\ Append(result[i], v)[Len(result[i]) + 1] = v
        /\ \A k \in 1 .. Len(result[i]) : Append(result[i], v)[k] = result[i][k]
    BY <1>2, AppendExtends
  <2>3. Len(result[i]) \in Nat /\ Len(result[i]) = Given(p, i) BY <1>2 DEF IsSeq
  <2>4. \A n \in 1 .. Len(result'[i]) : result'[i][n] = log[i][n]
    <3>1. SUFFICES ASSUME NEW n \in 1 .. Len(result[i]) + 1 PROVE Append(result[i], v)[n] = log[i][n]
      BY <2>1, <2>2
    <3>2. n \in 1 .. Len(result[i]) \/ n = Len(result[i]) + 1 BY <2>3
    <3>3. CASE n = Len(result[i]) + 1 BY <1>5, <2>2, <2>3, <3>3
    <3>4. CASE n \in 1 .. Len(result[i]) BY <1>2, <2>2, <3>4
    <3> QED BY <3>2, <3>3, <3>4
  <2>5. IsSeq(result'[i]) /\ Len(result'[i]) = Given(p, i)' BY <1>5, <2>1, <2>2, <2>3
  <2>6. ASSUME NEW j \in Group!Invocations
        PROVE  /\ IsSeq(result'[j]) /\ Len(result'[j]) = Given(p, j)'
               /\ \A n \in 1 .. Len(result'[j]) : result'[j][n] = log'[j][n]
    <3>1. CASE j = i BY <1>5, <2>4, <2>5, <3>1
    <3>2. CASE j # i
      <4>1. result'[j] = result[j] /\ Given(p, j)' = Given(p, j) BY <1>1, <2>1, <2>6, <3>2
      <4> QED BY <1>2, <2>6, <4>1
    <3> QED BY <3>1, <3>2
  <2>7. Agreed(p)' <=> \A j \in Group!Invocations :
          /\ IsSeq(result'[j]) /\ Len(result'[j]) = Given(p, j)'
          /\ \A n \in 1 .. Len(result'[j]) : result'[j][n] = log'[j][n]
    BY DEF Agreed, IsSeq
  <2> QED BY <2>6, <2>7
<1> QED BY <1>4, <1>5

LEMMA AgreedSteps ==
  ASSUME NEW p, Obeys(p), Returned(p), Comparing(p), log' = log,
         NEW i \in Group!Invocations, Group!Goroutine(p, i)
  PROVE  Agreed(p)'
<1>1. p \in Group!Programs BY DEF Obeys
<1>2. AuthoredTyped(p) /\ (\A b \in Group!Barriers : Round(p, b)) /\ Marked(p) /\ Remembered(p) /\ Agreed(p)
  BY DEF Comparing
<1>3. OneMoves(i) BY <1>1, <1>2, GoroutineMoves
<1>4. CASE Group!Load(p, i)
  <2>1. p[i][at[i]].op = "read" /\ Group!Return(i, memory[p[i][at[i]].at])
    BY <1>4 DEF Group!Load, Group!Doing
  <2>2. at[i] \in 1 .. Len(p[i]) /\ Given(p, i)' = Given(p, i) + 1 BY <1>1, <1>2, <1>4, <2>1, QuietMoves
  <2>3. PICK x \in Elements : p[i][at[i]].at = x
    <3>1. p[i][at[i]] \in Group!Step BY <1>1, <2>2, PathsAreSequences
    <3> QED BY <2>1, <3>1 DEF Group!Step
  <2>4. Given(p, i) = Results(p, i, at[i])
    <3>1. Results(p, i, at[i]) \in Nat BY <1>1, <2>2, ResultsGrow
    <3>2. ~(at[i] =< Len(p[i]) /\ part[i] > 2)
      <4>1. part[i] \in Nat /\ part[i] =< 0
        BY <1>1, <1>2, <2>1, <2>2, PathsAreSequences DEF AuthoredTyped
      <4> QED BY <4>1
    <3> QED BY <3>1, <3>2 DEF Given
  <2> DEFINE r == <<i, at[i]>>
  <2>5. Latest(p, log[i][Results(p, i, at[i]) + 1], Group!WritesBefore(p, r)) BY <2>1, <2>2 DEF Returned
  <2>6. Executed(p, x) = Group!WritesBefore(p, r) BY <1>2, <2>1, <2>2, <2>3, LoadFinds
  <2>7. Latest(p, memory[x], Executed(p, x))
    <3>1. Executed(p, x) # {} BY <2>5, <2>6 DEF Latest
    <3> QED BY <1>2, <3>1 DEF Remembered
  <2>8. \A q \in Executed(p, x) : q \in Group!Places(p) /\ Group!At(p, q) = [op |-> "write", at |-> x]
    BY DEF Executed
  <2> HIDE DEF r
  <2>9. memory[x] = log[i][Results(p, i, at[i]) + 1]
    <3>1. PICK set, u, w : set = Executed(p, x) /\ u = memory[x] /\ w = log[i][Results(p, i, at[i]) + 1]
      OBVIOUS
    <3>2. Latest(p, u, set) /\ Latest(p, w, set) BY <2>5, <2>6, <2>7, <3>1
    <3>3. \A q \in set : q \in Group!Places(p) /\ Group!At(p, q) = [op |-> "write", at |-> x]
      BY <2>8, <3>1
    <3>4. u = w BY <3>2, <3>3, LatestIsUnique
    <3> QED BY <3>1, <3>4
  <2> QED BY <1>2, <1>3, <2>1, <2>2, <2>3, <2>4, <2>9, AgreedStays
<1>5. CASE Group!Fold(p, i)
  <2> DEFINE lanes == Group!InLaneOrder(active \intersect Group!Lanes(i))
             v == <<p[i][at[i]].at, [k \in DOMAIN lanes |-> vals[lanes[k]]]>>
  <2>1. p[i][at[i]].op = "combine" /\ part[i] = 2 /\ cond[i] = "running" /\ Group!Return(i, v)
    BY <1>5 DEF Group!Fold, Group!Doing
  <2>2. at[i] \in 1 .. Len(p[i]) /\ Given(p, i)' = Given(p, i) + 1 BY <1>1, <1>2, <1>5, <2>1, QuietMoves
  <2>3. Given(p, i) = Results(p, i, at[i])
    <3>1. Results(p, i, at[i]) \in Nat BY <1>1, <2>2, ResultsGrow
    <3> QED BY <2>1, <3>1 DEF Given
  <2>4. v = Folded(p, i, Epoch(p, i, at[i])) BY <1>2, <2>1, <2>2, FoldsAlike
  <2>5. log[i][Results(p, i, at[i]) + 1] = Folded(p, i, Epoch(p, i, at[i])) BY <2>1, <2>2 DEF Returned
  <2> HIDE DEF v
  <2>6. v = log[i][Given(p, i) + 1] BY <2>3, <2>4, <2>5
  <2> QED BY <1>2, <1>3, <2>1, <2>2, <2>6, AgreedStays
<1>6. CASE Group!Store(p, i) \/ Group!Mark(p, i) \/ Group!Clear(p, i)
  <2>1. /\ result' = result
        /\ ~(p[i][at[i]].op = "read" \/ (p[i][at[i]].op = "combine" /\ part[i] = 2))
    BY <1>6 DEF Group!Store, Group!Mark, Group!Clear, Group!Doing
  <2>2. Given(p, i)' = Given(p, i)
    <3>1. /\ Given(p, i) \in Nat
          /\ Given(p, i)' = Given(p, i)
               + (IF p[i][at[i]].op = "read" \/ (p[i][at[i]].op = "combine" /\ part[i] = 2) THEN 1 ELSE 0)
      BY <1>1, <1>2, <1>6, QuietMoves
    <3> QED BY <2>1, <3>1
  <2> QED BY <1>2, <1>3, <2>1, <2>2, AgreedStays
<1>7. CASE Group!Arrive(p, i) \/ Group!Look(p, i) \/ Group!Retire(p, i)
  <2>1. result' = result BY <1>7 DEF Group!Arrive, Group!Look, Group!Retire
  <2>2. Given(p, i)' = Given(p, i) BY <1>1, <1>2, <1>7, ArriveSteps, LookSteps, RetireSteps
  <2> QED BY <1>2, <1>3, <2>1, <2>2, AgreedStays
<1> QED BY <1>4, <1>5, <1>6, <1>7 DEF Group!Goroutine

\* A goroutine's step, in whatever interleaving, keeps the comparison.
LEMMA GoroutineKeeps ==
  ASSUME NEW p, Obeys(p), Returned(p), Comparing(p), log' = log,
         NEW i \in Group!Invocations, Group!Goroutine(p, i)
  PROVE  Comparing(p)'
<1>1. p \in Group!Programs BY DEF Obeys
<1>2. AuthoredTyped(p) /\ (\A b \in Group!Barriers : Round(p, b)) /\ Marked(p) /\ Remembered(p)
  BY DEF Comparing
<1>3. AuthoredTyped(p)' /\ (\A b \in Group!Barriers : Round(p, b)') BY <1>1, <1>2, GoroutineMoves
<1>4. Marked(p)' BY <1>1, <1>2, MarkedSteps
<1>5. Remembered(p)' BY <1>2, RememberedSteps
<1>6. Agreed(p)' BY AgreedSteps
<1> QED BY <1>3, <1>4, <1>5, <1>6 DEF Comparing

-----------------------------------------------------------------------------
\* What the authored run starts from, and what a step of the scheduler leaves alone.
LEMMA ComparisonStarts == \A p \in Group!Programs : Group!AuthoredInit => Comparing(p)
<1>1. SUFFICES ASSUME NEW p \in Group!Programs, Group!AuthoredInit PROVE Comparing(p)
  OBVIOUS
<1>2. /\ at = [i \in Group!Invocations |-> 1] /\ part = [i \in Group!Invocations |-> 0]
      /\ cond = [i \in Group!Invocations |-> "running"] /\ seen = [i \in Group!Invocations |-> 0]
      /\ bars = [b \in Group!Barriers |->
                  [total |-> Cardinality(Group!Members(b)), waiting |-> 0, round |-> 0]]
      /\ memory = [x \in Elements |-> <<>>]
      /\ vals = [i \in Group!Invocations |-> <<>>] /\ active = {}
      /\ result = [i \in Group!Invocations |-> <<>>]
  BY <1>1, SameCount DEF Group!AuthoredInit
<1>3. ASSUME NEW b PROVE IsFiniteSet(Group!Members(b)) /\ Cardinality(Group!Members(b)) \in Nat
  <2>1. Size - 1 \in Int BY GroupAssumption DEF Group!KernelAssumption
  <2>2. IsFiniteSet(Group!Invocations) BY <2>1, FS_Interval DEF Group!Invocations
  <2>3. Group!Members(b) \subseteq Group!Invocations BY DEF Group!Members
  <2> QED BY <2>2, <2>3, FS_Subset, FS_CardinalityType
<1>4. \A i \in Group!Invocations :
        /\ Len(p[i]) \in Nat /\ Epoch(p, i, 1) = 0 /\ Results(p, i, 1) = 0
        /\ at[i] = 1 /\ part[i] = 0 /\ cond[i] = "running" /\ seen[i] = 0 /\ result[i] = <<>>
  BY <1>2, PathsAreSequences, EpochsStart
<1>5. AuthoredTyped(p)
  <2>1. bars \in [Group!Barriers -> [total : Nat, waiting : Nat, round : Nat]] BY <1>2, <1>3
  <2>2. /\ at \in [Group!Invocations -> Nat] /\ part \in [Group!Invocations -> Nat]
        /\ cond \in [Group!Invocations -> {"running", "asleep", "woken"}]
        /\ seen \in [Group!Invocations -> Nat]
    BY <1>2
  <2>3. /\ memory = [x \in Elements |-> memory[x]] /\ vals = [i \in Group!Invocations |-> vals[i]]
        /\ result = [i \in Group!Invocations |-> result[i]]
    BY <1>2
  <2> QED BY <1>4, <2>1, <2>2, <2>3 DEF AuthoredTyped
<1>6. ASSUME NEW b \in Group!Barriers PROVE Round(p, b)
  <2>1. \A i \in Group!Members(b) : i \in Group!Invocations BY DEF Group!Members
  <2>2. Staying(p, b) = Group!Members(b) BY <1>4, <2>1 DEF Staying
  <2>3. \A i \in Group!Members(b) : ~InWait(p, b, i) BY <1>4, <2>1 DEF InWait
  <2>4. Inside(p, b) = {} BY <2>3 DEF Inside
  <2>5. \A i \in Group!Members(b) : Waits(p, b, i) = 0
    <3>1. 0 \div 2 = 0 OBVIOUS
    <3>2. \A i \in Group!Members(b) : Passed(p, b, i, at[i]) = 0 BY <1>4, <2>1, PassedStarts
    <3> QED BY <1>4, <2>1, <3>1, <3>2 DEF Waits
  <2>6. bars[b] = [total |-> Cardinality(Group!Members(b)), waiting |-> 0, round |-> 0] BY <1>2, <1>6
  <2> QED BY <2>2, <2>3, <2>4, <2>5, <2>6, FS_EmptySet DEF Round
<1>7. Marked(p)
  <2>1. \A i \in Group!Invocations : ~Reducing(p, i) BY <1>4 DEF Reducing
  <2> QED BY <1>2, <2>1 DEF Marked
<1>8. Remembered(p)
  <2>1. ASSUME NEW x \in Elements, NEW q \in Executed(p, x) PROVE FALSE
    <3>1. q \in Group!Places(p) /\ q[2] < at[q[1]] BY <2>1 DEF Executed
    <3>2. q[1] \in Group!Invocations /\ q[2] \in 1 .. Len(p[q[1]]) BY <3>1, PlacesAre DEF Place
    <3> QED BY <1>4, <3>1, <3>2
  <2> QED BY <2>1 DEF Remembered
<1>9. Agreed(p)
  <2>1. IsSeq(<<>>) /\ Len(<<>>) = 0 BY DEF IsSeq
  <2>2. \A i \in Group!Invocations : Given(p, i) = 0 BY <1>4 DEF Given
  <2> QED BY <1>4, <2>1, <2>2 DEF Agreed
<1> QED BY <1>5, <1>6, <1>7, <1>8, <1>9 DEF Comparing

LEMMA ComparisonStartsAgain == (\A p \in Group!Programs : Group!AuthoredInit => Comparing(p))'
BY ComparisonStarts, PTL

LEMMA ComparisonStays ==
  ASSUME NEW p, Comparing(p),
         UNCHANGED <<at, part, cond, seen, bars, memory, vals, active, result, log>>
  PROVE  Comparing(p)'
<1>1. \A i \in Group!Invocations :
        /\ Stands(p, i) /\ (Reducing(p, i)' <=> Reducing(p, i))
        /\ Group!BarrierAt(p, i)' = Group!BarrierAt(p, i)
        /\ Group!AtWait(p, i)' <=> Group!AtWait(p, i)
  BY OthersStand
<1>2. AuthoredTyped(p)' BY <1>1 DEF Comparing, AuthoredTyped
<1>3. ASSUME NEW b \in Group!Barriers PROVE Round(p, b)'
  <2>1. \A i \in Group!Members(b) :
          /\ i \in Staying(p, b)' <=> i \in Staying(p, b)
          /\ Waits(p, b, i)' = Waits(p, b, i)
          /\ InWait(p, b, i)' <=> InWait(p, b, i)
          /\ seen'[i] = seen[i] /\ cond'[i] = cond[i]
    BY <1>1, <1>3 DEF Stands, InWait, Group!Members
  <2>2. AuthoredTyped(p) /\ Round(p, b) BY <1>3 DEF Comparing
  <2> QED BY <1>3, <2>1, <2>2, RoundKept
<1>4. Marked(p)' BY <1>1 DEF Comparing, Marked
<1>5. Remembered(p)' BY DEF Comparing, Remembered, Executed
<1>6. Agreed(p)' BY <1>1 DEF Comparing, Agreed, Stands, IsSeq
<1> QED BY <1>2, <1>3, <1>4, <1>5, <1>6 DEF Comparing

\* What a clean verdict says of a program within the rules.
LEMMA CleanObeys ==
  ASSUME GInv, verdict = "clean", NEW p, p = Group!prog,
         Group!Legal(p), Group!RaceFree(p), Group!OneSiteAtATime(p)
  PROVE  Obeys(p) /\ Returned(p)
<1>1. PICK e : e \in Nat /\ InEpoch(p, e) BY DEF GInv
<1>2. /\ Typed(p) /\ Frame(p, e) /\ Found(p) /\ Whole(p, e) /\ p \in Group!Programs
      /\ done = Group!Invocations /\ conflicts = {} /\ undefined = {}
  BY <1>1 DEF InEpoch, GInv, Ended, Typed
<1>3. Group!Contested(p) = {}
  <2>1. Group!OrderDoesNotShow BY OrderFollows
  <2> QED BY <1>2, <2>1 DEF Group!OrderDoesNotShow, Group!DiagnosticsIgnoreTheOrder
<1>4. ASSUME NEW i \in Group!Invocations
      PROVE  /\ Len(p[i]) \in Nat /\ pos[i] = Len(p[i]) + 1 /\ Epoch(p, i, pos[i]) =< e
             /\ pos[i] \in 1 .. Len(p[i]) + 1
  <2>1. Len(p[i]) \in Nat BY <1>2, PathsAreSequences
  <2> QED BY <1>2, <2>1 DEF Frame
<1>5. ASSUME NEW d \in Nat PROVE Whole(p, d)
  <2>1. SUFFICES ASSUME NEW c \in Nat, NEW i \in Group!Invocations, c < d, NEW s \in Group!Stop(p, i, c)
                 PROVE  c < e
    BY <1>2 DEF Whole
  <2>2. PICK k \in 1 .. Len(p[i]) : Epoch(p, i, k) = c /\ ~Group!IsAccess(p[i][k])
    BY <1>2, StopsAre
  <2>3. k \in 1 .. Len(p[i]) + 1 /\ k < pos[i] BY <1>4
  <2>4. c < Epoch(p, i, pos[i]) /\ Epoch(p, i, pos[i]) \in Nat
    BY <1>2, <1>4, <2>2, <2>3, EpochsMonotone
  <2> QED BY <1>1, <1>4, <2>4
<1>6. Obeys(p) BY <1>2, <1>3, <1>5 DEF Obeys
<1>7. ASSUME NEW i \in Group!Invocations
      PROVE  /\ IsSeq(log[i]) /\ Len(log[i]) = Results(p, i, Len(p[i]) + 1)
             /\ \A k \in 1 .. Len(p[i]) :
                  /\ p[i][k].op = "read" =>
                       Latest(p, log[i][Results(p, i, k) + 1], Group!WritesBefore(p, <<i, k>>))
                  /\ p[i][k].op = "combine" => log[i][Results(p, i, k) + 1] = Folded(p, i, Epoch(p, i, k))
  <2>1. IsSeq(log[i]) /\ Len(log[i]) = Results(p, i, Len(p[i]) + 1)
    BY <1>2, <1>4 DEF Typed, Found
  <2>2. ASSUME NEW k \in 1 .. Len(p[i]), p[i][k].op = "read"
        PROVE  Latest(p, log[i][Results(p, i, k) + 1], Group!WritesBefore(p, <<i, k>>))
    <3>1. PICK q : q = <<i, k>> OBVIOUS
    <3>2. q[1] = i /\ q[2] = k BY <3>1
    <3>3. Place(p, q) BY <3>1, <3>2 DEF Place
    <3>4. q \in Group!Places(p) /\ Group!At(p, q).op = "read" BY <1>2, <2>2, <3>2, <3>3, PlacesAre DEF Group!At
    <3>5. q \in Accessed(p) BY <1>4, <3>2, <3>4 DEF Accessed, Group!IsAccess
    <3>6. Latest(p, log[q[1]][Results(p, q[1], q[2]) + 1], Group!WritesBefore(p, q))
      BY <1>2, <3>4, <3>5 DEF Found
    <3> QED BY <3>1, <3>2, <3>6
  <2>3. ASSUME NEW k \in 1 .. Len(p[i]), p[i][k].op = "combine"
        PROVE  log[i][Results(p, i, k) + 1] = Folded(p, i, Epoch(p, i, k))
    <3>1. k < pos[i] BY <1>4
    <3> QED BY <1>2, <2>3, <3>1 DEF Found
  <2> QED BY <2>1, <2>2, <2>3
<1>8. Returned(p) BY <1>7 DEF Returned
<1> QED BY <1>6, <1>8

-----------------------------------------------------------------------------
LEMMA DifferentialStarts ==
  ASSUME Group!DInit PROVE DifferentialInv
<1>1. GInv BY GroupInitHolds DEF Group!DInit
<1>2. verdict # "clean" BY DEF Group!DInit, Group!Init
<1> QED BY <1>1, <1>2 DEF DifferentialInv, Group!DInit

LEMMA DifferentialKeeps ==
  ASSUME DifferentialInv, Group!DNext \/ UNCHANGED groupVars
  PROVE  DifferentialInv'
<1>1. GInv /\ (verdict # "clean" => Group!AuthoredInit)
      /\ (verdict = "clean" /\ Obeys(Group!prog) => Comparing(Group!prog))
  BY DEF DifferentialInv
<1>2. GInv'
  <2>1. Group!Next \/ UNCHANGED Group!vars
    BY DEF Group!DNext, Group!Schedule, Group!Author, groupVars, Group!vars
  <2> QED BY <1>1, <2>1, GroupNextKeeps
<1>3. CASE Group!Schedule
  <2>1. verdict = "running"
    <3>1. running # {} => verdict = "running" BY <1>1 DEF GInv, InEpoch, Typed
    <3> QED BY <1>3, <3>1 DEF Group!Schedule, Group!Next, Group!EndEpoch, Group!Finish, Group!NextGroup,
              Group!EpochOver, Group!Advance, Group!Begin, Group!Write, Group!Read, Group!Yield
  <2>2. UNCHANGED <<at, part, cond, seen, bars, memory, vals, active, result>>
    BY <1>3 DEF Group!Schedule, Group!avars, Group!goroutines, Group!slots
  <2>3. Group!AuthoredInit' BY <1>1, <2>1, <2>2 DEF Group!AuthoredInit
  <2>4. PICK p : p = Group!prog' OBVIOUS
  <2>5. p \in Group!Programs BY <1>2, <2>4 DEF GInv, InEpoch, Typed
  <2>6. Comparing(p)' BY <2>3, <2>5, ComparisonStartsAgain
  <2>7. Comparing(Group!prog)' BY <2>4, <2>6
  <2> QED BY <1>2, <2>3, <2>7 DEF DifferentialInv
<1>4. ASSUME NEW i \in Group!Invocations, Group!Author(i) PROVE DifferentialInv'
  <2>1. PICK p : p = Group!prog OBVIOUS
  <2>2. verdict = "clean" /\ Group!Goroutine(p, i) /\ UNCHANGED <<work, group, verdict, log>>
    BY <1>4, <2>1 DEF Group!Author, Group!vars
  <2>3. Group!prog' = p BY <2>1, <2>2 DEF Group!prog
  <2>4. ASSUME Obeys(p) PROVE Comparing(p)'
    <3>1. Comparing(p) BY <1>1, <2>1, <2>2, <2>4
    <3>2. Returned(p) BY <1>1, <2>1, <2>2, <2>4, CleanObeys DEF Obeys
    <3> QED BY <2>2, <2>4, <3>1, <3>2, GoroutineKeeps
  <2>5. Obeys(Group!prog)' => Comparing(Group!prog)' BY <2>3, <2>4
  <2> QED BY <1>2, <2>2, <2>5 DEF DifferentialInv
<1>5. CASE UNCHANGED groupVars
  <2>1. PICK p : p = Group!prog OBVIOUS
  <2>2. UNCHANGED <<work, group, verdict, log, at, part, cond, seen, bars, memory, vals, active, result>>
    BY <1>5 DEF groupVars
  <2>3. Group!prog' = p BY <2>1, <2>2 DEF Group!prog
  <2>4. verdict' # "clean" => Group!AuthoredInit' BY <1>1, <2>2 DEF Group!AuthoredInit
  <2>5. ASSUME verdict = "clean", Obeys(p) PROVE Comparing(p)'
    <3>1. Comparing(p) BY <1>1, <2>1, <2>5
    <3> QED BY <2>2, <3>1, ComparisonStays
  <2>6. verdict' = "clean" /\ Obeys(Group!prog)' => Comparing(Group!prog)' BY <2>2, <2>3, <2>5
  <2> QED BY <1>2, <2>4, <2>6 DEF DifferentialInv
<1> QED BY <1>3, <1>4, <1>5 DEF Group!DNext

LEMMA AgreementFollows ==
  ASSUME DifferentialInv PROVE Group!AuthoredAgrees
<1>1. SUFFICES ASSUME NEW p, p = Group!prog, verdict = "clean", Group!AllGone(p),
                      Group!Legal(p), Group!RaceFree(p), Group!OneSiteAtATime(p)
               PROVE  result = log
  BY DEF Group!AuthoredAgrees
<1>2. GInv BY DEF DifferentialInv
<1>3. Obeys(p) /\ Returned(p) BY <1>1, <1>2, CleanObeys
<1>4. Comparing(p) BY <1>1, <1>3 DEF DifferentialInv
<1>5. result = [i \in Group!Invocations |-> result[i]] /\ log = [i \in Group!Invocations |-> log[i]]
  BY <1>1, <1>2, <1>4 DEF Comparing, AuthoredTyped, GInv, InEpoch, Typed
<1>6. ASSUME NEW i \in Group!Invocations PROVE result[i] = log[i]
  <2>1. Len(p[i]) \in Nat /\ at[i] \in 1 .. Len(p[i]) + 1 /\ at[i] > Len(p[i])
    BY <1>1, <1>3, <1>4, PathsAreSequences DEF Obeys, Comparing, AuthoredTyped, Group!AllGone, Group!Returned
  <2>2. at[i] = Len(p[i]) + 1 /\ ~(at[i] =< Len(p[i])) BY <2>1
  <2>3. Len(log[i]) = Results(p, i, Len(p[i]) + 1) /\ IsSeq(log[i]) BY <1>3 DEF Returned
  <2>4. Given(p, i) = Len(log[i])
    <3>1. Len(log[i]) \in Nat BY <2>3 DEF IsSeq
    <3> QED BY <2>2, <2>3, <3>1 DEF Given
  <2>5. /\ IsSeq(result[i]) /\ Len(result[i]) = Len(log[i])
        /\ \A n \in 1 .. Len(result[i]) : result[i][n] = log[i][n]
    BY <1>4, <2>4 DEF Comparing, Agreed
  <2> QED BY <2>3, <2>5 DEF IsSeq
<1> QED BY <1>5, <1>6

\* For every number of invocations, subgroup size and program within the rules: what the
\* goroutines of the authored run read and combine, in whatever interleaving, is what the
\* scheduler returned in the run it reported clean (authored.go, schedule.go).
THEOREM AuthoredAlwaysAgrees == MCSpec => []AuthoredAgrees
<1>1. MCInit => DifferentialInv BY DifferentialStarts DEF MCInit
<1>2. DifferentialInv /\ [MCNext]_<<level, vars, groupVars>> => DifferentialInv'
  BY DifferentialKeeps DEF MCNext
<1>3. DifferentialInv => AuthoredAgrees BY AgreementFollows DEF AuthoredAgrees
<1> QED BY <1>1, <1>2, <1>3, PTL DEF MCSpec
=============================================================================
