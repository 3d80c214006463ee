---------------------------- MODULE MCCooperative ----------------------------
\* Small kernels: a local x of each level, then a conditional or a loop, then a
\* barrier or a loop around one.  Predicates are of every level and way, loops
\* counted, bare, nested or with an init that assigns, and the escapes stand
\* before and after the barriers.
EXTENDS Cooperative

MCLocals == {"x", "i", "j"}

\* Helpers: one reads an id on its own, the others return literals under their
\* argument or under an id.
ReadsAnId  == <<Return(901, LocalIndex)>>
Selects(v) == <<If(911, v, <<Return(912, Const(0))>>, << >>), Return(913, Const(1))>>

Calls      == {Call(ReadsAnId, Const(0)), Call(Selects(Param), SubgroupIndex), Call(Selects(LocalIndex), Param)}
Predicates == {Param, SubgroupIndex, LocalIndex, Local("x")}

Inc(at, x) == Assign(at, x, Binary("add", Local(x), Const(1)))
Below(x, bound) == Binary("less", Local(x), bound)
Counted(at, x, bound, body) ==
  For(at, <<Declare(at + 1, x, Const(0))>>, Below(x, bound), <<Inc(at + 2, x)>>, body)

Barriers(at) == {Barrier(at, Workgroup), Barrier(at, Subgroup)}
Escapes(at)  == {Break(at), Continue(at), Return(at, Const(0))}
Small(at)    == {Assign(at, "x", Const(1)), Assign(at, "x", Local("x"))} \union Barriers(at)

Branches(at) ==
  {If(at, c, <<s>>, e) : c \in Predicates \union Calls,
     s \in Small(at + 1) \union {Return(at + 1, Const(0)), Counted(at + 3, "j", Const(2), <<Barrier(at + 6, Workgroup)>>)},
     e \in {<< >>, <<Assign(at + 2, "x", Const(0))>>}}

\* A pass of a loop: something under a predicate, before or after a statement.
Guards(at) == {If(at, c, <<s>>, << >>) : c \in Predicates, s \in Escapes(at + 1) \union {Assign(at + 1, "x", Local("i"))}}
Passes(at, ss) == UNION {{<<s, g>>, <<g, s>>} : s \in ss, g \in Guards(at + 1)}
Loops(at) ==
  {Counted(at, "i", Const(2), p) : p \in Passes(at + 3, Small(at + 3))}
  \union {Counted(at, "i", Local("x"), p) : p \in Passes(at + 3, Barriers(at + 3))}

\* A loop in a loop, with an escape from either and a barrier in either.
Nested(at) ==
  UNION {{Counted(at, "i", Const(2), <<g, Counted(at + 5, "j", Const(2), <<b>>)>>),
          Counted(at, "i", Const(2), <<Counted(at + 5, "j", Const(2), <<b>>), g>>),
          Counted(at, "i", Const(2), <<Counted(at + 5, "j", Const(2), <<g>>), b>>)}
         : g \in {If(at + 3, c, <<e>>, << >>) : c \in Predicates, e \in Escapes(at + 4)}, b \in Barriers(at + 9)}

\* The inner loop without a clause.
Inner(at) ==
  {Counted(at, "i", Const(2), <<If(at + 3, c, <<e>>, << >>), For(at + 5, << >>, Below("x", Const(2)), << >>, <<b, Inc(at + 6, "x")>>)>>)
   : c \in Predicates, e \in Escapes(at + 4), b \in Barriers(at + 7)}

\* Loops without a clause: the condition alone, or none.
Bare(at) ==
  {For(at, << >>, Below("x", Const(2)), << >>, <<b, Inc(at + 1, "x")>>) : b \in Small(at + 2)}
  \union {For(at, << >>, Const(1), << >>, <<Inc(at + 1, "x"), If(at + 3, Binary("less", v, Local("x")), <<Break(at + 4)>>, << >>), b>>)
          : v \in {Const(2), LocalIndex}, b \in Small(at + 2)}

\* An init that assigns.
Assigning(at) == {For(at, <<Assign(at + 1, "x", v)>>, Below("x", Const(2)), <<Inc(at + 2, "x")>>, <<b>>)
                  : v \in {Const(0), LocalIndex}, b \in Barriers(at + 3)}

Firsts == {Declare(1, "x", v) : v \in {Param, SubgroupIndex, LocalIndex}}
Lasts  == {<<Barrier(80, Workgroup)>>} \union {<<Counted(80, "j", Local("x"), <<b>>)>> : b \in Barriers(83)}

MCKernels == {<<f, s>> \o l : f \in Firsts, l \in Lasts,
                s \in Branches(10) \union Loops(20) \union Nested(30) \union Inner(40) \union Bare(50) \union Assigning(60)}

\* Kernels of one kind each, for what the code does otherwise than it says.
ReturnKernels == {<<Counted(20, "i", Const(2), <<Barrier(23, Workgroup), If(24, LocalIndex, <<Return(25, Const(0))>>, << >>)>>)>>}
SkipKernels   == {<<Counted(20, "i", Const(2), <<If(24, LocalIndex, <<Continue(25)>>, << >>),
                    For(30, << >>, Const(1), << >>, <<Barrier(31, Workgroup), Return(32, Const(0))>>)>>)>>}
BreakKernels  == {<<Counted(20, "i", Const(2), <<Barrier(23, Workgroup), If(24, Param, <<Break(25)>>, << >>)>>), Barrier(80, Workgroup)>>}
InitKernels   == {<<Declare(1, "x", Const(1)), For(20, <<Assign(21, "x", Const(0))>>, Below("x", Const(2)), <<Inc(22, "x")>>, << >>),
                    Barrier(80, Workgroup)>>,
                  <<Declare(1, "x", Const(1)), Declare(2, "i", Const(0)),
                    For(20, <<Assign(21, "x", Const(0))>>, Below("x", Const(2)), <<Inc(22, "x")>>, <<Inc(23, "i")>>),
                    Barrier(80, Workgroup)>>}
TestKernels   == {<<For(20, << >>, Param, << >>, <<Barrier(23, Workgroup), Return(24, Const(0))>>)>>}
=============================================================================
