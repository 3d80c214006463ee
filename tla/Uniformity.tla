------------------------------ MODULE Uniformity ------------------------------
(***************************************************************************)
(* The uniformity analysis (internal/kernelc/uniform): how widely each     *)
(* local and the control flow at each statement is known to be equal, and  *)
(* which barriers that lets through.                                       *)
(***************************************************************************)
EXTENDS KernelIR, TLC

NoLoop == 0

Join(a, b) == IF a > b THEN a ELSE b
LeastUniform(S) == CHOOSE l \in S \union {Workgroup} : \A k \in S : k =< l

\* Info: levels found so far, none for what the walk has not reached.
NoInfo == [locals |-> << >>, control |-> << >>, escapes |-> << >>]

LevelOf(f, k, default) == IF k \in DOMAIN f THEN f[k] ELSE default

\* Mutant: what has not been reached yet counts as non-uniform.
RaiseFromNon(f, k, l)  == (k :> Join(l, LevelOf(f, k, Non))) @@ f

\* set: a recorded level only rises.
Raise(f, k, l)         == (k :> Join(l, LevelOf(f, k, Workgroup))) @@ f

RECURSIVE Value(_, _)
RECURSIVE WalkBlock(_, _, _, _)
RECURSIVE FixedPoint(_, _)
RECURSIVE AcceptBlock(_, _, _, _)

\* Of: passes over the body until one changes nothing.
Again(body, in, after) == IF after = in THEN in ELSE FixedPoint(body, after)

FixedPoint(body, in) == Again(body, in, WalkBlock(body, Workgroup, NoLoop, in).in)

Of(body) == FixedPoint(body, NoInfo)

\* Mutant: a helper is as uniform as its arguments.
SummaryOfArguments(helper) == Workgroup

\* A helper's level when its arguments are uniform: the join over its returns
\* of the value and of the control it is under.
OverReturns(helper, in) ==
  LeastUniform({Join(in.control[r.at], Value(in, r.value)) :
                  r \in {s \in Within(helper) : s.kind = "return"}})

Summary(helper) == OverReturns(helper, Of(helper))

Value(in, v) ==
  CASE v.op \in {"const", "param"}  -> Workgroup
    [] v.op = "subgroup"            -> Subgroup
    [] v.op = "lane"                -> Non
    [] v.op = "local"               -> LevelOf(in.locals, v.var, Non)
    [] v.op \in {"add", "less"}     -> Join(Value(in, v.x), Value(in, v.y))
    [] v.op = "call"                -> Join(Summary(v.helper), Value(in, v.arg))

-----------------------------------------------------------------------------
Found(i, esc) == [in |-> i, esc |-> esc]

\* A conditional whose branches are under the level `cond`.
WalkBranches(s, cond, loop, in) ==
  LET t == WalkBlock(s.then, cond, loop, in)
      e == WalkBlock(s.els, cond, loop, t.in)
  IN  Found(e.in, Join(t.esc, e.esc))

\* walkStmt: the levels after the statement and the least uniform escape from
\* the loop's pass it contains.
WalkStmt(s, ctrl, loop, in) ==
  LET at == [in EXCEPT !.control = Raise(@, s.at, ctrl)]
  IN  CASE s.kind = "assign" ->
             Found([at EXCEPT !.locals = Raise(@, s.var, Join(Value(at, s.value), ctrl))], Workgroup)
        [] s.kind = "if" -> WalkBranches(s, Join(Value(at, s.cond), ctrl), loop, at)
        [] s.kind = "for" ->
             LET init  == WalkBlock(s.init, ctrl, loop, at).in
                 inner == Join(Join(ctrl, Value(init, s.cond)), LevelOf(init.escapes, s.at, Workgroup))
                 body  == WalkBlock(s.body, inner, s.at, init).in
             IN  Found(WalkBlock(s.post, inner, s.at, body).in, Workgroup)
        [] s.kind = "break"    -> Found([at EXCEPT !.escapes = Raise(@, loop, ctrl)], ctrl)
        [] s.kind = "continue" -> Found(at, ctrl)
        [] OTHER               -> Found(at, Workgroup)

\* Mutant: an escape does not raise what follows it.
WalkBlockPastEscapes(list, ctrl, loop, in) ==
  IF list = << >> THEN Found(in, Workgroup)
  ELSE WalkBlock(Tail(list), ctrl, loop, WalkStmt(Head(list), ctrl, loop, in).in)

\* What follows an escape in its block is as uniform as the escape.
WalkRest(list, ctrl, loop, w) ==
  [WalkBlock(list, Join(ctrl, w.esc), loop, w.in) EXCEPT !.esc = Join(@, w.esc)]

WalkBlock(list, ctrl, loop, in) ==
  IF list = << >> THEN Found(in, Workgroup)
  ELSE WalkRest(Tail(list), ctrl, loop, WalkStmt(Head(list), ctrl, loop, in))

-----------------------------------------------------------------------------
(* AcceptBarriers.  The lists of escapes and returns are kept as the least *)
(* uniform level in them, since a barrier asks only for that.              *)

\* breaks: those that leave this loop, collected when it is entered.
Breaks(in, body) ==
  LeastUniform({in.control[s.at] : s \in {b \in Own(body) : b.kind = "break"}})

AcceptBranches(s, cond, in, c) == AcceptBlock(s.els, cond, in, AcceptBlock(s.then, cond, in, c))

AcceptLoop(s, inner, in, c) ==
  [AcceptBlock(s.body, inner, in, [c EXCEPT !.escapes = Breaks(in, s.body)]) EXCEPT !.escapes = c.escapes]

AcceptStmt(s, ctrl, in, c) ==
  CASE s.kind = "if"       -> AcceptBranches(s, Join(ctrl, Value(in, s.cond)), in, c)
    [] s.kind = "for"      -> AcceptLoop(s, Join(ctrl, Value(in, s.cond)), in, c)
    [] s.kind = "continue" -> [c EXCEPT !.escapes = Join(@, ctrl)]
    [] s.kind = "return"   -> [c EXCEPT !.returns = Join(@, ctrl)]
    [] s.kind = "barrier"  ->
         IF Join(ctrl, Join(c.escapes, c.returns)) > s.scope
         THEN [c EXCEPT !.out = @ \union {s.at}] ELSE c
    [] OTHER               -> c

AcceptBlock(list, ctrl, in, c) ==
  IF list = << >> THEN c
  ELSE AcceptBlock(Tail(list), ctrl, in, AcceptStmt(Head(list), ctrl, in, c))

\* The barriers refused.
AcceptBarriers(body) ==
  AcceptBlock(body, Workgroup, Of(body), [escapes |-> Workgroup, returns |-> Workgroup, out |-> {}]).out
=============================================================================
