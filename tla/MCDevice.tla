------------------------------- MODULE MCDevice -------------------------------
(* A device's children, or a surface's frames: the two share nothing here, so  *)
(* a behaviour is of one of them and the other stays where it started.         *)
(* Two goroutines, a cap of one pool, which their race can exceed, three pool  *)
(* handles, a graph, a pipeline, and room for one buffer in a pool.            *)
(* Two images in rotation and three frames, so that an image can be asked for  *)
(* while all are out; one drawable for two images, so that Acquire waits.      *)
EXTENDS Naturals

CONSTANTS
  Workers, PoolIds, GraphIds, MaxPlain, MaxPools, Room, NoOne,
  FrameIds, Images, Drawables, Extents, MaxGen, None

VARIABLES
  component,
  open, readers, writer, setMu, pools, graphs, plain, blocks, implicitBlocks,
  handle, live, driver, backendOpen, found, pc, doing, arg, idx,
  windowed, mu, gen, extent, inFlight, next, outOfDate, shut, images, frames,
  drawables, onScreen, slot, broken, order, overtaken

deviceVars == <<open, readers, writer, setMu, pools, graphs, plain, blocks, implicitBlocks,
                handle, live, driver, backendOpen, found, pc, doing, arg, idx>>
frameVars == <<windowed, mu, gen, extent, inFlight, next, outOfDate, shut, images, frames,
               drawables, onScreen, slot, broken, order, overtaken>>

Dev == INSTANCE DeviceLifecycle WITH Callers <- Workers, call <- doing
Frame == INSTANCE Surface WITH closed <- shut

ASSUME Dev!DeviceAssumption /\ Frame!SurfaceAssumption

MCInit ==
  /\ Dev!Init /\ Frame!Init
  /\ component \in {"device", "surface"}
  /\ component = "device" => ~windowed /\ extent = CHOOSE e \in Extents : TRUE

MCNext ==
  /\ \/ component = "device" /\ Dev!Next /\ UNCHANGED frameVars
     \/ component = "surface" /\ Frame!Next /\ UNCHANGED deviceVars
  /\ UNCHANGED component

\* The fairness of the component that moves; goroutines are named alike in both.
CallGoesOn(t) ==
  \/ t \in Workers /\ Dev!InCall(t) /\ UNCHANGED frameVars
  \/ Frame!InCall(t) /\ UNCHANGED deviceVars

MCFairness == \A t \in FrameIds : SF_<<deviceVars, frameVars>>(CallGoesOn(t))

MCSpec == MCInit /\ [][MCNext]_<<component, deviceVars, frameVars>> /\ MCFairness

-----------------------------------------------------------------------------
\* What the device says and what the backend holds agree while it is open, near the
\* cap, and once it is closed (device.go, pool.go).
BooksMatchTheBackend == Dev!BooksMatchTheBackend

\* The device with its locks and counts is the registry: a child joins only an open
\* device, and the device closes only without one (device.go).
ImplementsRegistry == Dev!ImplementsRegistry

\* What a frame names is there and is its own: its image is of the surface's
\* generation, of the extent its graph was recorded for, and, while frames go back
\* oldest first, no other frame's (Acquire, Present, Resize, BindPresent).
FramesKeepTheirImage == Frame!FramesKeepTheirImage

\* No drawable of the compositor is lost between Acquire, Present and Discard.
DrawablesComeBack == Frame!DrawablesComeBack

\* Every call on a device or its children and every call on a frame ends, however
\* they contend for lifecycle, the implicit set's lock and the surface's.
CallsEnd ==
  \A t \in FrameIds :
    []<>((t \in Workers => pc[t] = "idle") /\ frames[t].at \in {"free", "held"})
=============================================================================
