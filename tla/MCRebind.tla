------------------------------- MODULE MCRebind -------------------------------
(* Two slots, of which one needs two bytes, a buffer the nodes name, and two   *)
(* buffers only slots reach.  Recordings that treat the three as independent,  *)
(* writing through one, the other or none of them.  Batches bind one slot or   *)
(* move both, or name a slot twice, and come from two callers.                 *)
EXTENDS Rebind, TLC

CONSTANTS s, t, con, x, y

MCMinCount == s :> 2 @@ t :> 1
MCSize     == con :> 2 @@ x :> 2 @@ y :> 1

On(r, o, n, m) == <<[res |-> r, off |-> o, size |-> n, mode |-> m]>>

MCPrograms ==
  {<<On(s, 0, 2, m1), On(t, 0, 1, m2), On(con, 1, 1, m3)>> :
     m1, m2 \in {"read", "write"}, m3 \in {"read", "readwrite"}}

Whole(b) == [off |-> 0, size |-> MCSize[b], buf |-> b]
High(b)  == [off |-> 1, size |-> 1, buf |-> b]

To(r, v) == [slot |-> r, view |-> v]

MCBatches ==
  {<<To(s, Whole(x))>>, <<To(s, Whole(con))>>, <<To(s, High(x))>>,
   <<To(t, High(x))>>, <<To(t, Whole(y))>>, <<To(t, High(con))>>,
   <<To(t, Whole(y)), To(t, High(x))>>,
   <<To(s, Whole(con)), To(t, Whole(y)), To(s, Whole(x))>>,
   <<To(s, Whole(x)), To(t, High(x))>>,
   <<To(t, High(x)), To(s, Whole(con))>>}

Symmetry == Permutations(Callers)
=============================================================================
