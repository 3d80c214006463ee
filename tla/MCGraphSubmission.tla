--------------------------- MODULE MCGraphSubmission ---------------------------
(* Two graphs of one transient pool, the second larger so that building it     *)
(* grows the pool under the first, and a third graph without transients.       *)
EXTENDS Naturals

CONSTANTS
  Graphs, Streams, Resources, Slotted, NoGraph, Need, MaxSubmissions, CanBeLost,
  small, large, plain

VARIABLES stage, inFlight, bound, binding, open, pool, lost, queue, run, submissions

G == INSTANCE GraphSubmission WITH None <- NoGraph

ASSUME G!SubmissionAssumption

Needs == [g \in {small, large, plain} |-> IF g = small THEN 1 ELSE IF g = large THEN 2 ELSE 0]

MCSpec == G!Spec

-----------------------------------------------------------------------------
\* A graph is in flight exactly while one goroutine is inside it, and it is not
\* closed there: no two submissions of a graph run together (Graph.run, Graph.Close).
GraphsRunAlone == G!GraphsRunAlone

\* The claim of the shared transient pool and the count of its graphs are exact on
\* every path through Build, run and Close, so that what a running graph resolved its
\* operands to stays its own (transientpool.go).
AccountsAreExact == G!AccountsAreExact

\* Every submission ends, refused, failed or done, and gives back its claims (Graph.run).
SubmissionsEnd == G!SubmissionsEnd
=============================================================================
