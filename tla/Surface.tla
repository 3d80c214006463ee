------------------------------- MODULE Surface -------------------------------
(***************************************************************************)
(* A surface's frame loop (surface.go): images handed out in rotation and  *)
(* taken back, resizes, and for a windowed surface the compositor's        *)
(* drawables.  Frames may be in different goroutines' hands, each in one   *)
(* at a time.  A call that holds s.mu throughout is one step, except that  *)
(* a windowed Acquire holds it while it waits for a drawable.              *)
(***************************************************************************)
EXTENDS Integers, FiniteSets, Sequences, SequencesExt

CONSTANTS
  FrameIds,   \* bound: frames in callers' hands at once
  Images,     \* how many images rotate
  Drawables,  \* how many the compositor has
  Extents,    \* sizes
  MaxGen,     \* bound on resizes
  None

SurfaceAssumption ==
  /\ Images \in Nat \ {0} /\ Drawables \in Nat /\ MaxGen \in Nat
  /\ None \notin FrameIds /\ IsFiniteSet(FrameIds)

VARIABLES
  windowed,               \* does the surface present to a window
  mu,                     \* the frame whose Acquire holds the lock while it waits
  gen, extent, inFlight, next, outOfDate, closed,
  images,                 \* index -> None, or the generation and extent it was made for
  frames,                 \* frame -> where it is, and what Acquire wrote in it
  drawables, onScreen,    \* with the compositor: free, and being shown
  slot,                   \* what PresentSlot recorded in a graph
  broken,                 \* the last resize failed half way; no code reads it
  order, overtaken        \* frames out, oldest first; has a later one gone back first

surface == <<gen, extent, inFlight, next, outOfDate, closed>>
history == <<broken, order, overtaken>>
vars == <<windowed, mu, surface, images, frames, drawables, onScreen, slot, history>>

Index == 0 .. Images - 1
NoFrame == [at |-> "free", gen |-> 0, index |-> 0, view |-> None, drawable |-> FALSE]

Init ==
  /\ windowed \in BOOLEAN /\ mu = None
  /\ gen = 0 /\ extent \in Extents /\ inFlight = 0 /\ next = 0 /\ outOfDate = FALSE /\ closed = FALSE
  /\ images = [i \in Index |-> [made |-> 0, extent |-> extent]]
  /\ frames = [f \in FrameIds |-> NoFrame]
  /\ drawables = Drawables /\ onScreen = 0 /\ slot = None
  /\ broken = FALSE /\ order = <<>> /\ overtaken = FALSE

At(f, where) == frames[f].at = where
Move(f, to) == frames' = [frames EXCEPT ![f].at = to]
Out == {f \in FrameIds : frames[f].at \notin {"free", "acquiring"}}

\* Its place among the frames out.
Turn(f) == CHOOSE i \in DOMAIN order : order[i] = f

\* A frame leaves its caller's hands.
GoBack(f) ==
  /\ frames' = [frames EXCEPT ![f] = NoFrame]
  /\ order' = RemoveAt(order, Turn(f))
  /\ overtaken' = (order' # <<>> /\ (overtaken \/ Head(order) # f))
  /\ UNCHANGED broken

-----------------------------------------------------------------------------
HandOut(f, drawable) ==
  /\ frames' = [frames EXCEPT ![f] = [at |-> "held", gen |-> gen, index |-> next,
                                      view |-> images[next], drawable |-> drawable]]
  /\ next' = (next + 1) % Images /\ inFlight' = inFlight + 1
  /\ order' = Append(order, f)
  /\ UNCHANGED <<gen, extent, outOfDate, closed, broken, overtaken>>

\* Mutant: frames on their way back are not counted.
AcquireByHolders(f) ==
  /\ At(f, "free") /\ mu = None
  /\ ~closed /\ ~outOfDate /\ Cardinality({g \in FrameIds : At(g, "held")}) < Images /\ images[next] # None
  /\ IF windowed THEN mu' = f /\ Move(f, "acquiring") /\ UNCHANGED <<surface, history>>
                 ELSE HandOut(f, FALSE) /\ UNCHANGED mu
  /\ UNCHANGED <<windowed, images, drawables, onScreen, slot>>

\* An image a failed resize left missing ends the call in a panic that changes nothing.
Acquire(f) ==
  /\ At(f, "free") /\ mu = None
  /\ ~closed /\ ~outOfDate /\ inFlight < Images /\ images[next] # None
  /\ IF windowed THEN mu' = f /\ Move(f, "acquiring") /\ UNCHANGED <<surface, history>>
                 ELSE HandOut(f, FALSE) /\ UNCHANGED mu
  /\ UNCHANGED <<windowed, images, drawables, onScreen, slot>>

TakeDrawable(f) ==
  /\ At(f, "acquiring") /\ drawables > 0
  /\ drawables' = drawables - 1 /\ mu' = None
  /\ HandOut(f, TRUE)
  /\ UNCHANGED <<windowed, images, onScreen, slot>>

\* Mutant: the wait for a drawable has no deadline.
PollForever(f) == At(f, "acquiring") /\ UNCHANGED vars

\* The deadline passes with no drawable free.
Expire(f) ==
  /\ At(f, "acquiring") /\ mu' = None /\ Move(f, "free")
  /\ UNCHANGED <<windowed, surface, images, drawables, onScreen, slot, history>>

-----------------------------------------------------------------------------
\* Present waits for the submission's fence without the lock; a failed one leaves
\* the frame with its caller.
Present(f) ==
  /\ At(f, "held") /\ Move(f, "waiting")
  /\ UNCHANGED <<windowed, mu, surface, images, drawables, onScreen, slot, history>>

FenceAnswers(f) ==
  /\ At(f, "waiting") /\ \E to \in {"held", "checking"} : Move(f, to)
  /\ UNCHANGED <<windowed, mu, surface, images, drawables, onScreen, slot, history>>

\* A frame of an earlier generation is dropped, and not counted out.
CheckStale(f) ==
  /\ At(f, "checking") /\ mu = None
  /\ IF frames[f].gen = gen
     THEN Move(f, "showing") /\ UNCHANGED <<drawables, history>>
     ELSE GoBack(f) /\ drawables' = drawables + (IF frames[f].drawable THEN 1 ELSE 0)
  /\ UNCHANGED <<windowed, mu, surface, images, onScreen, slot>>

\* The drawable is shown, or released by a conversion that failed.
Show(f) ==
  /\ At(f, "showing")
  /\ frames' = [frames EXCEPT ![f].at = "ending", ![f].drawable = FALSE]
  /\ IF frames[f].drawable
     THEN \/ onScreen' = onScreen + 1 /\ UNCHANGED drawables
          \/ drawables' = drawables + 1 /\ UNCHANGED onScreen
     ELSE UNCHANGED <<drawables, onScreen>>
  /\ UNCHANGED <<windowed, mu, surface, images, slot, history>>

EndPresent(f) ==
  /\ At(f, "ending") /\ mu = None
  /\ inFlight' = inFlight - 1 /\ GoBack(f)
  /\ UNCHANGED <<windowed, mu, gen, extent, next, outOfDate, closed, images, drawables, onScreen, slot>>

\* Mutant: a discarded frame keeps its drawable.
DiscardImageOnly(f) ==
  /\ At(f, "held")
  /\ frames' = [frames EXCEPT ![f].at = "discarding", ![f].drawable = FALSE]
  /\ UNCHANGED <<windowed, mu, surface, images, drawables, onScreen, slot, history>>

Discard(f) ==
  /\ At(f, "held")
  /\ frames' = [frames EXCEPT ![f].at = "discarding", ![f].drawable = FALSE]
  /\ drawables' = drawables + (IF frames[f].drawable THEN 1 ELSE 0)
  /\ UNCHANGED <<windowed, mu, surface, images, onScreen, slot, history>>

EndDiscard(f) ==
  /\ At(f, "discarding") /\ mu = None
  /\ inFlight' = inFlight - (IF frames[f].gen = gen THEN 1 ELSE 0) /\ GoBack(f)
  /\ UNCHANGED <<windowed, mu, gen, extent, next, outOfDate, closed, images, drawables, onScreen, slot>>

FreeDrawable ==
  /\ onScreen > 0 /\ onScreen' = onScreen - 1 /\ drawables' = drawables + 1
  /\ UNCHANGED <<windowed, mu, surface, images, frames, slot, history>>

-----------------------------------------------------------------------------
\* reconfigure closes every image, then makes new ones; the k-th may fail.
Reconfigure(e, k) ==
  images' = [i \in Index |-> IF i < k THEN [made |-> gen + 1, extent |-> e] ELSE None]

\* Mutant: a resize does not ask for outstanding frames.
ResizeAnyway(e) ==
  /\ mu = None /\ ~closed /\ gen < MaxGen
  /\ Reconfigure(e, Images)
  /\ gen' = gen + 1 /\ extent' = e /\ inFlight' = 0 /\ next' = 0 /\ outOfDate' = FALSE
  /\ broken' = FALSE
  /\ UNCHANGED <<windowed, mu, closed, frames, drawables, onScreen, slot, order, overtaken>>

Resize(e) ==
  /\ mu = None /\ ~closed /\ inFlight = 0 /\ gen < MaxGen
  /\ Reconfigure(e, Images)
  /\ gen' = gen + 1 /\ extent' = e /\ inFlight' = 0 /\ next' = 0 /\ outOfDate' = FALSE
  /\ broken' = FALSE
  /\ UNCHANGED <<windowed, mu, closed, frames, drawables, onScreen, slot, order, overtaken>>

\* An image could not be allocated, or the target not configured: the surface
\* keeps its generation and its extent.
ResizeFails(e) ==
  /\ mu = None /\ ~closed /\ inFlight = 0 /\ gen < MaxGen
  /\ \E k \in 0 .. Images : (k = Images => windowed) /\ Reconfigure(e, k)
  /\ broken' = TRUE
  /\ UNCHANGED <<windowed, mu, surface, frames, drawables, onScreen, slot, order, overtaken>>

Invalidate ==
  /\ mu = None /\ ~outOfDate /\ outOfDate' = TRUE
  /\ UNCHANGED <<windowed, mu, gen, extent, inFlight, next, closed, images, frames, drawables, onScreen,
                 slot, history>>

\* Close takes the images from frames still out.
Close ==
  /\ mu = None /\ ~closed /\ closed' = TRUE
  /\ images' = [i \in Index |-> None]
  /\ UNCHANGED <<windowed, mu, gen, extent, inFlight, next, outOfDate, frames, drawables, onScreen,
                 slot, history>>

\* configuration reads extent and generation together.
PresentSlot ==
  /\ mu = None /\ slot' = [gen |-> gen, extent |-> extent]
  /\ UNCHANGED <<windowed, mu, surface, images, frames, drawables, onScreen, history>>

\* What BindPresent asks of a frame of the right surface.
BindPresentAccepts(f) == slot # None /\ f \in Out /\ frames[f].gen = slot.gen

-----------------------------------------------------------------------------
\* What a goroutine inside a call does next.
InCall(f) ==
  \/ TakeDrawable(f) \/ Expire(f) \/ FenceAnswers(f) \/ CheckStale(f) \/ Show(f)
  \/ EndPresent(f) \/ EndDiscard(f)

Next ==
  \/ \E f \in FrameIds : Acquire(f) \/ Present(f) \/ Discard(f) \/ InCall(f)
  \/ \E e \in Extents : Resize(e) \/ ResizeFails(e)
  \/ FreeDrawable \/ Invalidate \/ Close \/ PresentSlot

\* Calls run on; s.mu is handed to whoever starves; fences and deadlines come.
Fairness == \A f \in FrameIds : SF_vars(InCall(f))

Spec == Init /\ [][Next]_vars /\ Fairness

-----------------------------------------------------------------------------
\* Every frame out is counted, is of the current generation and still has the
\* image Acquire gave it, so the stale branch of Present, which forgets to count
\* a frame out, is never taken and a frame never names a closed image of an open
\* surface (Resize's refusal against Present's unlocked steps).
FramesAreCurrent ==
  /\ inFlight = Cardinality(Out)
  /\ ~closed => \A f \in Out : frames[f].gen = gen /\ images[frames[f].index] = frames[f].view

\* As long as frames go back oldest first, an image has one holder: rotation and
\* the count of frames alone decide which image Acquire hands out.
ImagesHaveOneHolder ==
  ~overtaken => \A f, g \in Out : f # g => frames[f].index # frames[g].index

\* A frame that BindPresent accepts has the extent the graph was built for,
\* however resizes and recordings interleave, unless the last resize failed.
BoundFramesFit ==
  \A f \in FrameIds : BindPresentAccepts(f) /\ ~broken => frames[f].view.extent = slot.extent

\* No drawable is lost: each is free, shown, or with a frame that is out.
DrawablesComeBack ==
  drawables + onScreen + Cardinality({f \in Out : frames[f].drawable}) = Drawables

\* A call on a frame ends, though a windowed Acquire waits with the lock held that
\* the Present which would free a drawable needs.
CallsEnd == \A f \in FrameIds : []<>(frames[f].at \in {"free", "held"})

\* A frame names an image that is there, that is its own, and that has the extent
\* its graph was recorded for (Acquire, Present, BindPresent).
FramesKeepTheirImage == FramesAreCurrent /\ ImagesHaveOneHolder /\ BoundFramesFit
=============================================================================
