------------------------------- MODULE GridWalk -------------------------------
(***************************************************************************)
(* One dispatch's walk over its workgroups (internal/kernel/parallel.go):  *)
(* workers claim chunks of consecutive workgroups from an atomic cursor,   *)
(* stop claiming once one of them failed, and the caller reports one       *)
(* failure when all have returned.  The kernel's body is a function from   *)
(* workgroups to outcomes, since workgroups do not depend on each other.   *)
(***************************************************************************)
EXTENDS Integers, FiniteSets

CONSTANTS
  Totals,      \* the workgroup counts of the dispatches considered
  MaxWorkers,  \* bound: GOMAXPROCS, and the workers a caller may ask for
  MaxChunk,    \* chunkSize's cap on a claim, 64 in the code
  PerWorker,   \* the claims it wants each worker to make, 64 in the code
  Threshold    \* parallelThreshold, in workgroups

ASSUME GridAssumption ==
  /\ Totals \subseteq Nat \ {0}
  /\ MaxWorkers \in Nat \ {0} /\ MaxChunk \in Nat \ {0} /\ PerWorker \in Nat \ {0}
  /\ Threshold \in Nat

VARIABLES
  total,              \* workgroups of this dispatch
  body,               \* workgroup -> what running it does
  pool,               \* workers started; one means the serial loop
  cursor, stopped,    \* the two atomics
  failedAt, panicAt,  \* lowest failure recorded so far, total for none
  pc, cur, end,       \* worker -> place in its loop, its workgroup, its claim's end
  runs,               \* workgroup -> how often its body was called
  report              \* what the caller gets

vars == <<total, body, pool, cursor, stopped, failedAt, panicAt, pc, cur, end, runs, report>>

Workers == 0 .. MaxWorkers - 1
Groups == 0 .. total - 1
AtLeast1(n) == IF n < 1 THEN 1 ELSE n
Smaller(m, n) == IF m < n THEN m ELSE n

\* workerCount: a kernel whose result may depend on workgroup order gets one.
WorkerCount(orderIndependent, groups, want) ==
  IF ~orderIndependent THEN 1
  ELSE IF want > 0 THEN want
  ELSE IF groups < Threshold THEN 1 ELSE MaxWorkers

ChunkSize == AtLeast1(Smaller(MaxChunk, total \div (pool * PerWorker)))

Pending == [kind |-> "pending", at |-> 0]
Success == [kind |-> "ok", at |-> 0]

Init ==
  /\ total \in Totals
  /\ body \in [0 .. total - 1 -> {"ok", "error", "panic"}]
  /\ \E independent \in BOOLEAN, want \in 0 .. MaxWorkers :
       pool = Smaller(WorkerCount(independent, total, want), total)
  /\ cursor = 0 /\ stopped = FALSE
  /\ failedAt = total /\ panicAt = total
  /\ pc = [w \in Workers |-> IF w < pool THEN (IF pool < 2 THEN "serial" ELSE "check") ELSE "done"]
  /\ cur = [w \in Workers |-> 0] /\ end = [w \in Workers |-> 0]
  /\ runs = [g \in 0 .. total - 1 |-> 0]
  /\ report = Pending

-----------------------------------------------------------------------------
Go(w, to) == pc' = [pc EXCEPT ![w] = to]
RunBody(w) == runs' = [runs EXCEPT ![cur[w]] = @ + 1]

\* The loop of a pool of one: it stops at the first failure, which is its answer.
SerialStep(w) ==
  /\ pc[w] = "serial"
  /\ RunBody(w)
  /\ IF body[cur[w]] # "ok"
     THEN /\ report' = [kind |-> body[cur[w]], at |-> cur[w]]
          /\ Go(w, "done") /\ UNCHANGED cur
     ELSE /\ cur' = [cur EXCEPT ![w] = @ + 1]
          /\ IF cur[w] + 1 = total THEN report' = Success /\ Go(w, "done")
                                   ELSE UNCHANGED <<report, pc>>
  /\ UNCHANGED <<total, body, pool, cursor, stopped, failedAt, panicAt, end>>

\* The stop is looked at between claims, never inside one.
CheckStop(w) ==
  /\ pc[w] = "check"
  /\ Go(w, IF stopped THEN "done" ELSE "claim")
  /\ UNCHANGED <<total, body, pool, cursor, stopped, failedAt, panicAt, cur, end, runs, report>>

Claim(w) ==
  /\ pc[w] = "claim"
  /\ cursor' = cursor + ChunkSize
  /\ cur' = [cur EXCEPT ![w] = cursor]
  /\ end' = [end EXCEPT ![w] = Smaller(cursor + ChunkSize, total)]
  /\ Go(w, IF cursor < total THEN "run" ELSE "done")
  /\ UNCHANGED <<total, body, pool, stopped, failedAt, panicAt, runs, report>>

Run(w) ==
  /\ pc[w] = "run"
  /\ RunBody(w)
  /\ IF body[cur[w]] = "ok"
     THEN /\ cur' = [cur EXCEPT ![w] = @ + 1]
          /\ Go(w, IF cur[w] + 1 < end[w] THEN "run" ELSE "check")
     ELSE Go(w, body[cur[w]]) /\ UNCHANGED cur
  /\ UNCHANGED <<total, body, pool, cursor, stopped, failedAt, panicAt, end, report>>

\* Mutant: the last failure recorded wins.
RecordLast(w) ==
  /\ pc[w] = "error"
  /\ failedAt' = cur[w] /\ Go(w, "stop")
  /\ UNCHANGED <<total, body, pool, cursor, stopped, panicAt, cur, end, runs, report>>

\* Under mu: the lowest error and the lowest panic are kept apart.
RecordError(w) ==
  /\ pc[w] = "error"
  /\ failedAt' = Smaller(cur[w], failedAt) /\ Go(w, "stop")
  /\ UNCHANGED <<total, body, pool, cursor, stopped, panicAt, cur, end, runs, report>>

RecordPanic(w) ==
  /\ pc[w] = "panic"
  /\ panicAt' = Smaller(cur[w], panicAt) /\ Go(w, "unwind")
  /\ UNCHANGED <<total, body, pool, cursor, stopped, failedAt, cur, end, runs, report>>

\* Mutant: a worker that panicked does not sign off.
StopWithoutDone(w) ==
  /\ pc[w] = "stop"
  /\ stopped' = TRUE /\ Go(w, "check")
  /\ UNCHANGED <<total, body, pool, cursor, failedAt, panicAt, cur, end, runs, report>>

\* A worker that returned an error goes round its loop; one that panicked is gone.
Stop(w) ==
  /\ pc[w] \in {"stop", "unwind"}
  /\ stopped' = TRUE
  /\ Go(w, IF pc[w] = "stop" THEN "check" ELSE "done")
  /\ UNCHANGED <<total, body, pool, cursor, failedAt, panicAt, cur, end, runs, report>>

\* After wg.Wait: the panic is raised again if it came first in workgroup order.
Finish ==
  /\ report = Pending /\ \A w \in Workers : pc[w] = "done"
  /\ report' = IF panicAt < failedAt THEN [kind |-> "panic", at |-> panicAt]
               ELSE IF failedAt < total THEN [kind |-> "error", at |-> failedAt]
               ELSE Success
  /\ UNCHANGED <<total, body, pool, cursor, stopped, failedAt, panicAt, pc, cur, end, runs>>

Worker(w) == SerialStep(w) \/ CheckStop(w) \/ Claim(w) \/ Run(w) \/ RecordError(w)
               \/ RecordPanic(w) \/ Stop(w)

Next == Finish \/ \E w \in Workers : Worker(w)

\* A goroutine that can run is eventually scheduled, and a workgroup's body ends.
Fairness == WF_vars(Finish) /\ \A w \in Workers : WF_vars(Worker(w))

Spec == Init /\ [][Next]_vars /\ Fairness

-----------------------------------------------------------------------------
Failing == {g \in Groups : body[g] # "ok"}

\* Shapes only.
TypeOK ==
  /\ total \in Totals /\ pool \in 1 .. MaxWorkers
  /\ body \in [Groups -> {"ok", "error", "panic"}]
  /\ cursor \in Nat /\ stopped \in BOOLEAN
  /\ failedAt \in 0 .. total /\ panicAt \in 0 .. total
  /\ pc \in [Workers -> {"serial", "check", "claim", "run", "error", "panic", "stop", "unwind", "done"}]
  /\ cur \in [Workers -> Nat] /\ end \in [Workers -> Nat]
  /\ runs \in [Groups -> Nat]
  /\ report \in [kind : {"pending", "ok", "error", "panic"}, at : Nat]

\* runGrid's promise: whatever the workers' interleaving, the caller gets the
\* failure, error or panic, that a loop over the workgroups in order would have
\* stopped at, and success only if there is none.
ReportIsTheSerialOne ==
  report # Pending =>
    IF Failing = {} THEN report = Success
    ELSE /\ report.at \in Failing /\ report.kind = body[report.at]
         /\ \A g \in Failing : report.at =< g

\* No workgroup's body is called twice, and when the caller is answered every
\* workgroup up to the reported one has run, or every one if none failed.
GroupsRunOnce ==
  /\ \A g \in Groups : runs[g] =< 1
  /\ report # Pending =>
       \A g \in Groups : (\A f \in Failing : g =< f) => runs[g] = 1

\* The pool always drains: the caller is answered.
DispatchEnds == <>(report # Pending)
=============================================================================
