------------------------------- MODULE KernelIR -------------------------------
(***************************************************************************)
(* The kernel compiler's intermediate representation (internal/kernelc/ir) *)
(* reduced to what barriers, uniformity and the cooperative lowering tell  *)
(* apart, and what a statement list means: the authored kernel as one      *)
(* invocation executes it.  A statement knows its place `at`; a value      *)
(* counts as true when it is positive.                                     *)
(***************************************************************************)
EXTENDS Integers, Sequences, SequencesExt

CONSTANT SubgroupSize
ASSUME SubgroupAssumption == SubgroupSize \in Nat \ {0}

\* Level (uniform.go): how widely a value is known to be equal.
Workgroup == 0
Subgroup  == 1
Non       == 2

\* Values: literals, the kernel's uniform parameter, per-invocation sources,
\* locals, and a helper applied to an argument.
Const(v)        == [op |-> "const", v |-> v]
Param           == [op |-> "param"]
LocalIndex      == [op |-> "lane"]
SubgroupIndex   == [op |-> "subgroup"]
Local(x)        == [op |-> "local", var |-> x]
Binary(op, x, y) == [op |-> op, x |-> x, y |-> y]
Call(h, arg)    == [op |-> "call", helper |-> h, arg |-> arg]

\* Statements.  A loop without a condition has Const(1); init and post are
\* lists of at most one statement.
Declare(at, x, v)    == [kind |-> "assign", at |-> at, var |-> x, value |-> v, declares |-> TRUE]
Assign(at, x, v)     == [kind |-> "assign", at |-> at, var |-> x, value |-> v, declares |-> FALSE]
If(at, c, then, els) == [kind |-> "if", at |-> at, cond |-> c, then |-> then, els |-> els]
For(at, init, c, post, body) ==
  [kind |-> "for", at |-> at, init |-> init, cond |-> c, post |-> post, body |-> body]
Break(at)            == [kind |-> "break", at |-> at]
Continue(at)         == [kind |-> "continue", at |-> at]
Return(at, v)        == [kind |-> "return", at |-> at, value |-> v]
Barrier(at, scope)   == [kind |-> "barrier", at |-> at, scope |-> scope]

-----------------------------------------------------------------------------
(* The statements of a list, at any depth, or without entering its loops.  *)

RECURSIVE Statements(_, _)
Statements(list, deep) ==
  UNION {{s} \union
         CASE s.kind = "if"  -> Statements(s.then, deep) \union Statements(s.els, deep)
           [] s.kind = "for" -> IF deep THEN Statements(s.init \o s.body \o s.post, deep) ELSE {}
           [] OTHER          -> {}
         : s \in ToSet(list)}

Within(list) == Statements(list, TRUE)
Own(list)    == Statements(list, FALSE)

HasBarrier(list) == \E s \in Within(list) : s.kind = "barrier"

-----------------------------------------------------------------------------
(* Execution.  What is left to do is a list, in which a running loop has   *)
(* its next test ("test") and the end of the current pass ("pass").        *)

Test(loop) == [kind |-> "test", loop |-> loop]
Pass(loop) == [kind |-> "pass", loop |-> loop]

RECURSIVE Eval(_, _, _)
RECURSIVE Step(_, _)
RECURSIVE Returned(_, _)

Holds(v, env, lane) == Eval(v, env, lane) > 0

Eval(v, env, lane) ==
  CASE v.op = "const"    -> v.v
    [] v.op = "param"    -> env.param
    [] v.op = "lane"     -> lane
    [] v.op = "subgroup" -> lane \div SubgroupSize
    [] v.op = "local"    -> env[v.var]
    [] v.op = "add"      -> Eval(v.x, env, lane) + Eval(v.y, env, lane)
    [] v.op = "less"     -> IF Eval(v.x, env, lane) < Eval(v.y, env, lane) THEN 1 ELSE 0
    [] v.op = "call"     ->
         Returned([env |-> [env EXCEPT !.param = Eval(v.arg, env, lane)], todo |-> v.helper], lane)

\* The part of a list from the end of the innermost running pass on; empty
\* when no loop is running.
FromPass(todo) ==
  LET ends == {k \in DOMAIN todo : todo[k].kind = "pass"}
  IN  IF ends = {} THEN << >>
      ELSE SubSeq(todo, CHOOSE k \in ends : \A j \in ends : k =< j, Len(todo))

\* One statement of invocation `lane`, other than a barrier.
Step(m, lane) ==
  LET s == Head(m.todo)  rest == Tail(m.todo)
      Then(list) == [m EXCEPT !.todo = list]
  IN  CASE s.kind = "assign"   -> [env  |-> [m.env EXCEPT ![s.var] = Eval(s.value, m.env, lane)],
                                   todo |-> rest]
        [] s.kind = "if"       -> Then((IF Holds(s.cond, m.env, lane) THEN s.then ELSE s.els) \o rest)
        [] s.kind = "for"      -> Then(s.init \o <<Test(s)>> \o rest)
        [] s.kind = "test"     -> Then(IF Holds(s.loop.cond, m.env, lane)
                                       THEN s.loop.body \o <<Pass(s.loop)>> \o rest ELSE rest)
        [] s.kind = "pass"     -> Then(s.loop.post \o <<Test(s.loop)>> \o rest)
        [] s.kind = "break"    -> Then(Tail(FromPass(rest)))
        [] s.kind = "continue" -> Then(FromPass(rest))
        [] s.kind = "return"   -> Then(<< >>)

Returned(m, lane) ==
  IF Head(m.todo).kind = "return" THEN Eval(Head(m.todo).value, m.env, lane)
  ELSE Returned(Step(m, lane), lane)
=============================================================================
