---------------------------- MODULE GraphExecution ----------------------------
(***************************************************************************)
(* One submission of a built plan by a backend that promises no more than  *)
(* the driver contract (driver/plan.go, PlanNode.BarrierBefore): a node    *)
(* whose plan asks for a barrier waits for every earlier node; nodes       *)
(* between two barriers may overlap and finish in any order.               *)
(*                                                                         *)
(* Memory remembers, per byte, which node last wrote it and as what.  The  *)
(* reference is the record-order execution of the recording.               *)
(***************************************************************************)
EXTENDS TransientPlan

VARIABLES
  running,  \* nodes started and not finished
  done,     \* nodes finished
  mem       \* location -> [node, res, byte] last written there

execVars == <<running, done, mem>>
everything == <<allVars, execVars>>

\* Where a byte of a resource lives: transients share the pool.
Location(r, x) ==
  IF r \in Transients THEN [pool |-> TRUE, at |-> offset[r] + x, of |-> Declared[1]]
                      ELSE [pool |-> FALSE, at |-> x, of |-> r]

Accessed(n) == {nodes[n][k] : k \in DOMAIN nodes[n]}
BytesRead(n)    == UNION {{<<a.res, x>> : x \in BytesOf(a)} : a \in {c \in Accessed(n) : Reads(c)}}
BytesWritten(n) == UNION {{<<a.res, x>> : x \in BytesOf(a)} : a \in {c \in Accessed(n) : Writes(c)}}
ReadSet(n)  == {Location(b[1], b[2]) : b \in BytesRead(n)}
WriteSet(n) == {Location(b[1], b[2]) : b \in BytesWritten(n)}

\* What record order would have node n find in a byte: the last earlier
\* writer's value, or the content from before the submission (node 0).
Expected(n, b) ==
  LET ws == {m \in Node : m < n /\ b \in BytesWritten(m)}
  IN  [node |-> IF ws = {} THEN 0 ELSE Max(ws), res |-> b[1], byte |-> b[2]]

Found(b) ==
  LET l == Location(b[1], b[2])
  IN  IF l \in DOMAIN mem THEN mem[l] ELSE [node |-> 0, res |-> b[1], byte |-> b[2]]

ExecInit == PlanInit /\ running = {} /\ done = {} /\ mem = <<>>

\* The barriers at or before n hold n back until all before them are done.
MayStart(n) ==
  \A k \in Node : k =< n /\ barrier[k] # "none" => 1 .. (k - 1) \subseteq done

Start ==
  /\ stage = "built"
  /\ \E n \in Node \ (running \union done) :
       /\ MayStart(n)
       /\ running' = running \union {n}
  /\ UNCHANGED <<allVars, done, mem>>

Complete ==
  \E n \in running :
    /\ running' = running \ {n} /\ done' = done \union {n}
    /\ mem' = [l \in WriteSet(n) \union DOMAIN mem |->
                 LET b == CHOOSE c \in BytesWritten(n) : Location(c[1], c[2]) = l
                 IN  IF l \in WriteSet(n) THEN [node |-> n, res |-> b[1], byte |-> b[2]]
                                          ELSE mem[l]]
    /\ UNCHANGED allVars

ExecNext == (PlanNext /\ UNCHANGED execVars) \/ Start \/ Complete

ExecSpec == ExecInit /\ [][ExecNext]_everything
-----------------------------------------------------------------------------
\* Two nodes in flight at once never touch one location with a write: the
\* plan's barriers leave no race, data flow and aliasing alike.
NoRace ==
  \A m, n \in running :
    m # n => WriteSet(m) \intersect (ReadSet(n) \union WriteSet(n)) = {}

\* The whole-plan oracle (BuildNaive's doc): while a node runs, every byte it
\* reads holds what record-order execution would have put there, so neither an
\* omitted barrier nor shared bytes can change a result.
ReadsMatchRecordOrder ==
  \A n \in running : \A b \in BytesRead(n) : Found(b) = Expected(n, b)

\* And what a submission leaves in the caller's own resources is what record
\* order leaves there.
ResultsMatchRecordOrder ==
  stage = "built" /\ done = Node =>
    \A n \in Node : \A b \in BytesWritten(n) :
      b[1] \notin Transients => Found(b) = Expected(N + 1, b)

\* A submission is indistinguishable from record order: no race while it runs,
\* no read and no result that differs (driver.PlanNode, BuildNaive).
RunsMatchRecordOrder == NoRace /\ ReadsMatchRecordOrder /\ ResultsMatchRecordOrder
=============================================================================
