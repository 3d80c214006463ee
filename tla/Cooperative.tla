----------------------------- MODULE Cooperative -----------------------------
(***************************************************************************)
(* From a kernel to its Go lowering (kernelc.go, emit/coop.go,             *)
(* emit/emit.go): the uniformity check, the split into the states of a     *)
(* resumable function, and then each invocation of a workgroup run twice,  *)
(* as it was authored and as it was lowered.  What an invocation reads     *)
(* does not depend on the others, so they run one after the other; of each *)
(* are kept the barriers it arrived at, its end, and its locals there.     *)
(***************************************************************************)
EXTENDS Uniformity

CONSTANTS
  Kernels,   \* bodies
  Params,    \* values of the uniform parameter
  Locals,    \* names of locals
  Lanes      \* invocations of a workgroup

ASSUME CooperativeAssumption == Lanes \in Nat \ {0} /\ Params \subseteq Int

VARIABLES
  kernel, param,
  verdict,   \* "new", "refused", "unplaced", "lowered"
  states,    \* the machine's states, last one first entered
  lane,      \* the invocation that runs as authored, Lanes when all have
  authored,  \* its frame and what it has left to do
  slot,      \* the invocation that runs as lowered
  lowered,   \* its frame and what it has left of the state pc; 0 is the end
  arrived,   \* invocation -> its barriers and its end, as authored
  suspended  \* invocation -> the same, as lowered

vars == <<kernel, param, verdict, states, lane, authored, slot, lowered, arrived, suspended>>

-----------------------------------------------------------------------------
(* The split.  States are added back to front, so that a successor has its *)
(* number; a state suspends, tests a loop, or runs statements.             *)

Split(first, segs) == [first |-> first, segs |-> segs]
Add(segs, s)       == Split(Len(segs) + 1, Append(segs, s))

RunOf(stmts, next)     == [kind |-> "run", stmts |-> stmts, next |-> next]
SuspendAt(s, next)     == [kind |-> "suspend", stmts |-> << >>, barrier |-> s, next |-> next]
TestOf(loop, in, out)  == [kind |-> "test", stmts |-> << >>, cond |-> loop.cond, body |-> in, exit |-> out]

\* flush: the statements gathered since the last boundary become a state.
Flush(run, next, segs) == IF run = << >> THEN Split(next, segs) ELSE Add(segs, RunOf(run, next))

SplitsLoop(s) == s.kind = "for" /\ HasBarrier(s.body)

\* Mutant: a loop's body goes straight back to its check.
BackToTheCheck(loop, check, segs) == Split(check, segs)

\* postState: a state for the post statement, if there is one.
PostState(loop, check, segs) == Flush(loop.post, check, segs)

RECURSIVE Emit(_, _, _, _)

\* What comes before the state added last.
Before(list, to) == Emit(list, << >>, to.first, to.segs)

\* A loop with a barrier: its check, its post, its body, its init, back to front.
InitState(s, check, body) ==
  Flush(s.init, check, [body.segs EXCEPT ![check].body = body.first])
BodyStates(s, check, segs) ==
  InitState(s, check, Before(s.body, PostState(s, check, segs)))
LoopStates(s, check) == BodyStates(s, check.first, check.segs)

\* The state of a barrier, or the states of a loop, in front of the state `f`.
SuspendState(s, f)  == Add(f.segs, SuspendAt(s, f.first))
SplitLoop(s, f)     == LoopStates(s, Add(f.segs, TestOf(s, 0, f.first)))

\* splitter.emit over list, whose tail `run` is gathered and not yet a state.
Emit(list, run, next, segs) ==
  IF list = << >> THEN Flush(run, next, segs)
  ELSE CASE Last(list).kind = "barrier" ->
              Before(Front(list), SuspendState(Last(list), Flush(run, next, segs)))
         [] SplitsLoop(Last(list)) ->
              Before(Front(list), SplitLoop(Last(list), Flush(run, next, segs)))
         [] OTHER -> Emit(Front(list), <<Last(list)>> \o run, next, segs)

\* Mutant: the machine starts in the state built first.
FirstBuilt(segs) == IF segs = << >> THEN 0 ELSE 1

\* renumber: the state added last is the one the machine starts in.
Entry(segs) == Len(segs)

RECURSIVE CheckBarrierPlacement(_, _)
CheckBarrierPlacement(list, top) ==
  \A s \in ToSet(list) :
    CASE s.kind = "barrier" -> top
      [] s.kind = "if"      -> CheckBarrierPlacement(s.then, FALSE) /\ CheckBarrierPlacement(s.els, FALSE)
      [] s.kind = "for"     -> CheckBarrierPlacement(s.body, TRUE)
      [] OTHER              -> TRUE

RECURSIVE Plain(_)
\* forStmt and stmt: a plain loop keeps an init that declares its variable.
Plain(list) ==
  [k \in DOMAIN list |->
    LET s == list[k] IN
    CASE s.kind = "if"  -> [s EXCEPT !.then = Plain(@), !.els = Plain(@)]
      [] s.kind = "for" -> [s EXCEPT !.body = Plain(@),
                                     !.init = SelectSeq(@, LAMBDA d : d.declares)]
      [] OTHER          -> s]

Emitted(segs) == [k \in DOMAIN segs |-> [segs[k] EXCEPT !.stmts = Plain(@)]]

\* The emitter has no lowering for a barrier among plain statements.
Lowerable(segs) == \A k \in DOMAIN segs : ~HasBarrier(segs[k].stmts)

Compilation(body) ==
  LET segs == Emit(body, << >>, 0, << >>).segs
      Answer(v, s) == [verdict |-> v, states |-> s, locals |-> Of(body).locals]
  IN  IF AcceptBarriers(body) # {} THEN Answer("refused", << >>)
      ELSE IF ~CheckBarrierPlacement(body, TRUE) \/ ~Lowerable(segs) THEN Answer("unplaced", << >>)
      ELSE Answer("lowered", Emitted(segs))

\* The compiler's answers: it is a function of the kernel.
Compiled == [body \in Kernels |-> Compilation(body)]

-----------------------------------------------------------------------------
Frame(p) == [x \in Locals \union {"param"} |-> IF x = "param" THEN p ELSE 0]

\* An invocation in state pc of the machine.
At(env, segs, pc) == [env |-> env, pc |-> pc, todo |-> IF pc = 0 THEN << >> ELSE segs[pc].stmts]

Nothing == [n \in 0..Lanes-1 |-> << >>]

Init ==
  /\ kernel \in Kernels /\ param \in Params
  /\ verdict = "new" /\ states = << >> /\ lane = 0 /\ slot = 0
  /\ authored = [env |-> Frame(param), todo |-> kernel]
  /\ lowered = At(Frame(param), << >>, 0)
  /\ arrived = Nothing /\ suspended = Nothing

Answers(c) == verdict' = c.verdict /\ states' = c.states

\* compile and cooperativeKernel, up to the emitted function.
Compile ==
  /\ verdict = "new"
  /\ Answers(Compiled[kernel])
  /\ lowered' = At(Frame(param), states', Entry(states'))
  /\ UNCHANGED <<kernel, param, lane, authored, slot, arrived, suspended>>

-----------------------------------------------------------------------------
(* The authored kernel.  Accepted kernels run whether or not the split can *)
(* express them: other targets lower the authored structure.               *)

Note(s, env) == [at |-> s.at, scope |-> s.scope, env |-> env]
End          == [at |-> 0, scope |-> Non]

Authored == verdict \in {"unplaced", "lowered"} /\ lane < Lanes

StepAuthored ==
  /\ Authored /\ authored.todo # << >> /\ Head(authored.todo).kind # "barrier"
  /\ authored' = Step(authored, lane)
  /\ UNCHANGED <<kernel, param, verdict, states, lane, slot, lowered, arrived, suspended>>

Arrive ==
  /\ Authored /\ authored.todo # << >> /\ Head(authored.todo).kind = "barrier"
  /\ arrived' = [arrived EXCEPT ![lane] = Append(@, Note(Head(authored.todo), authored.env))]
  /\ authored' = [authored EXCEPT !.todo = Tail(@)]
  /\ UNCHANGED <<kernel, param, verdict, states, lane, slot, lowered, suspended>>

EndAuthored ==
  /\ Authored /\ authored.todo = << >>
  /\ arrived' = [arrived EXCEPT ![lane] = Append(@, Note(End, authored.env))]
  /\ lane' = lane + 1
  /\ authored' = [env |-> Frame(param), todo |-> kernel]
  /\ UNCHANGED <<kernel, param, verdict, states, slot, lowered, suspended>>

-----------------------------------------------------------------------------
(* The lowered kernel: a loop over a switch on pc.                         *)

Lowered == verdict = "lowered" /\ lane = Lanes /\ slot < Lanes

\* One statement of a state.  Outside a plain loop Go's break leaves the
\* switch, after which the function returns false, and its continue enters
\* the same state again.
RunState ==
  /\ Lowered /\ lowered.todo # << >>
  /\ LET s == Head(lowered.todo)
         leaves == s.kind \in {"break", "continue"} /\ FromPass(Tail(lowered.todo)) = << >>
         m == Step([env |-> lowered.env, todo |-> lowered.todo], slot)
     IN  lowered' = CASE s.kind = "return"             -> At(lowered.env, states, 0)
                      [] leaves /\ s.kind = "break"    -> At(lowered.env, states, 0)
                      [] leaves /\ s.kind = "continue" -> At(lowered.env, states, lowered.pc)
                      [] OTHER -> [lowered EXCEPT !.env = m.env, !.todo = m.todo]
  /\ UNCHANGED <<kernel, param, verdict, states, lane, authored, slot, arrived, suspended>>

\* The end of a state: the jump, the loop's test, or the suspension.
EndState ==
  /\ Lowered /\ lowered.todo = << >> /\ lowered.pc # 0
  /\ LET seg == states[lowered.pc]
         Jump(pc) == lowered' = At(lowered.env, states, pc)
     IN  /\ CASE seg.kind = "test" -> Jump(IF Holds(seg.cond, lowered.env, slot) THEN seg.body ELSE seg.exit)
              [] OTHER             -> Jump(seg.next)
         /\ suspended' = IF seg.kind = "suspend"
                         THEN [suspended EXCEPT ![slot] = Append(@, Note(seg.barrier, lowered.env))]
                         ELSE suspended
  /\ UNCHANGED <<kernel, param, verdict, states, lane, authored, slot, arrived>>

EndLowered ==
  /\ Lowered /\ lowered.pc = 0
  /\ suspended' = [suspended EXCEPT ![slot] = Append(@, Note(End, lowered.env))]
  /\ slot' = slot + 1
  /\ lowered' = At(Frame(param), states, Entry(states))
  /\ UNCHANGED <<kernel, param, verdict, states, lane, authored, arrived>>

Next == Compile \/ StepAuthored \/ Arrive \/ EndAuthored \/ RunState \/ EndState \/ EndLowered

Spec     == Init /\ [][Next]_vars
FairSpec == Spec /\ WF_vars(Next)
-----------------------------------------------------------------------------
(* Correctness.                                                            *)

Met == lane = Lanes

Peers(n, m) == n \div SubgroupSize = m \div SubgroupSize
OfWorkgroup(notes) == SelectSeq(notes, LAMBDA b : b.scope = Workgroup)
OfSubgroup(notes)  == SelectSeq(notes, LAMBDA b : b.scope =< Subgroup)
Places(notes) == [k \in DOMAIN notes |-> notes[k].at]

\* A loop with a barrier and a return in it: AcceptBarriers holds a return
\* only against what comes after it in the text.
LeavesABarrierLoop ==
  \E f \in Within(kernel) : /\ f.kind = "for" /\ HasBarrier(f.body)
                            /\ \E s \in Within(f.body) : s.kind = "return"

\* Two loops with a barrier in the inner one and a break or continue of the
\* outer one, which is dropped when the inner one is entered.  An init of the
\* inner loop inherits its level and keeps it.
LeavesPastAnInnerLoop ==
  \E f \in Within(kernel) :
    /\ f.kind = "for"
    /\ \E s \in Own(f.body) : s.kind \in {"break", "continue"}
    /\ \E g \in Own(f.body) : SplitsLoop(g) /\ g.init = << >>

MeetAtBarriers ==
  Met => \A n, m \in 0..Lanes-1 :
    /\ Places(OfWorkgroup(arrived[n])) = Places(OfWorkgroup(arrived[m]))
    /\ Peers(n, m) => Places(OfSubgroup(arrived[n])) = Places(OfSubgroup(arrived[m]))

\* Every invocation of an accepted kernel reaches the same workgroup barriers,
\* and those of a subgroup the same barriers of both scopes, in the same order.
AcceptedBarriersAreReached == ~LeavesABarrierLoop /\ ~LeavesPastAnInnerLoop => MeetAtBarriers

\* The rule as accept.go:57-60 states it, with nothing excepted.
AcceptedBarriersAreReachedByAll == MeetAtBarriers

\* Where invocations meet at a workgroup barrier, a local called uniform has
\* one value in all of them; within a subgroup, one called subgroup-uniform.
LocalsAgree(levels) ==
  \A n, m \in 0..Lanes-1 :
    LET Agree(a, b, level) ==
          \A k \in DOMAIN a \intersect DOMAIN b :
            \A x \in DOMAIN levels : levels[x] =< level => a[k].env[x] = b[k].env[x]
    IN  /\ Agree(OfWorkgroup(arrived[n]), OfWorkgroup(arrived[m]), Workgroup)
        /\ Peers(n, m) => Agree(OfSubgroup(arrived[n]), OfSubgroup(arrived[m]), Subgroup)
UniformLocalsAgree == Met => LocalsAgree(Compiled[kernel].locals)

\* The least uniform source among the values of a list's statements.
RECURSIVE SourceOf(_)
RECURSIVE LeastUniformSource(_)
SourceOf(v) ==
  CASE v.op \in {"add", "less"} -> Join(SourceOf(v.x), SourceOf(v.y))
    [] v.op = "call"            -> Join(LeastUniformSource(v.helper), SourceOf(v.arg))
    [] v.op = "local"           -> Workgroup
    [] OTHER                    -> Value(NoInfo, v)
ValuesOf(s) ==
  CASE s.kind \in {"assign", "return"} -> {s.value}
    [] s.kind \in {"if", "for"}        -> {s.cond}
    [] OTHER                           -> {}
LeastUniformSource(list) ==
  LeastUniform({SourceOf(v) : v \in UNION {ValuesOf(s) : s \in Within(list)}})

\* A barrier is refused only for a source less uniform than the scope of some
\* barrier, somewhere in the kernel.
RefusalsHaveASource ==
  verdict = "refused" =>
    \E b \in Within(kernel) : b.kind = "barrier" /\ b.scope < LeastUniformSource(kernel)

\* The analysis errs on neither side: what it calls uniform agrees where invocations
\* meet, and it refuses no kernel all of whose sources are uniform (uniform.go).
LevelsAreRight == UniformLocalsAgree /\ RefusalsHaveASource

\* What the lowering does not keep: a break or continue that would leave a
\* pass of a split loop, an init that assigns in a plain loop, and a kernel
\* that begins with the test of a split loop.
EscapesASplitLoop ==
  \E f \in Within(kernel) : /\ SplitsLoop(f)
                            /\ \E s \in Own(f.body) : s.kind \in {"break", "continue"}
AssignsInItsInit ==
  \E f \in Within(kernel) : /\ f.kind = "for" /\ ~SplitsLoop(f)
                            /\ \E s \in ToSet(f.init) : ~s.declares
BeginsWithATest == kernel # << >> /\ SplitsLoop(Head(kernel)) /\ Head(kernel).init = << >>

Kept == ~EscapesASplitLoop /\ ~AssignsInItsInit /\ ~BeginsWithATest

SameRuns == \A n \in 0..slot-1 : suspended[n] = arrived[n]

\* An invocation of the lowered kernel suspends where the authored one meets a
\* barrier, with the same locals, and ends with the same locals.
LoweringKeepsTheKernel == Kept => SameRuns

\* The agreement as specs/018 section 4 states it, with nothing excepted.
LoweringIsTheKernel == SameRuns

\* Where the authored invocation ends, so does the lowered one.
LoweredLanesEnd == []<>(Kept => ~Lowered)
=============================================================================
