--------------------------- MODULE MCGraphExecution ---------------------------
(* Recordings for TLC: four kernels over three transients of one or two units *)
(* and one output buffer.  A kernel reads any of the resources introduced     *)
(* before it and writes one resource, or only reads, or writes two.  Reads of *)
(* a transient nothing wrote first and pools above the budget are included,   *)
(* so that Build has something to refuse.                                     *)
EXTENDS GraphExecution

CONSTANTS t, u, v, out

MCDeclared == <<t, u, v>>

Whole(r, m) == [res |-> r, off |-> 0, size |-> 1, mode |-> m]

\* Reads in a fixed order, then the write.
Kernel(rs, w) ==
  (IF t \in rs THEN <<Whole(t, "read")>> ELSE <<>>)
    \o (IF u \in rs THEN <<Whole(u, "read")>> ELSE <<>>)
    \o (IF v \in rs THEN <<Whole(v, "read")>> ELSE <<>>)
    \o <<Whole(w, "write")>>

First  == {Kernel({}, t)}
Second == {Kernel(rs, w) : rs \in SUBSET {t}, w \in {t, u, out}}
            \union {<<Whole(t, "read"), Whole(out, "read")>>}
Third  == {Kernel(rs, w) : rs \in SUBSET {t, u}, w \in {t, u, v, out}}
            \union {<<Whole(out, "write"), Whole(v, "write")>>}
Fourth == {Kernel(rs, w) : rs \in SUBSET {t, u, v}, w \in {u, v, out}}

Kernels == {<<p, q, r, s>> : p \in First, q \in Second, r \in Third, s \in Fourth}

\* Equal, disjoint and partly overlapping ranges of one buffer of two units.
Parts == {<<0, 1>>, <<1, 1>>, <<0, 2>>}
OnOut == {[res |-> out, off |-> p[1], size |-> p[2], mode |-> m] : p \in Parts, m \in Modes}
Partial == {<<<<a>>, <<b>>, <<c>>>> : a, b, c \in OnOut}

\* The handover before the fourth kernel makes the barrier before the fifth, planned
\* for the third's write, superfluous.
Late == <<Kernel({}, t), Kernel({t}, u), Kernel({u}, out), Kernel({u}, v), <<Whole(out, "read")>>>>

MCPrograms == Kernels \union Partial \union {<<>>, Late}
=============================================================================
