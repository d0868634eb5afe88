----------------------------- MODULE XcbClient -----------------------------
(***************************************************************************)
(* kmr_xcb_window (src/src/xclient.c) and the event loop of an XCB example *)
(* around the renderer of SwapchainFrames: the window is made, every turn  *)
(* of the loop polls for one event and draws one frame, and Escape, q, the *)
(* close button or a signal end it.                                        *)
(***************************************************************************)
EXTENDS SwapchainFrames

VARIABLES
  held   \* what the window struct owns: "struct", "conn", "window", "delWindow"
vars == <<frameVars, held>>

Init ==
  /\ FramesInit /\ cpu = "calloc" /\ held = {}

Unchanged == UNCHANGED <<index, recorded, fence, imageSem, renderSem, queue, drawing,
                         owner, waiting, running, prun, failed>>

(* kmr_xcb_window_create.  A reply is NULL when the server is gone by then; *)
(* the two of the close button, and that of the opacity, are not checked.   *)
(* A window is made fullscreen or not, transparent or not: of the create    *)
(* info each is looked at once.                                             *)

kmr_xcb_window_destroy == held' = {}

CreateFails ==
  /\ cpu \in {"calloc", "connect", "screen", "ewmh"}
  /\ cpu' = "return" /\ kmr_xcb_window_destroy /\ Unchanged

Calloc ==
  /\ cpu = "calloc" /\ cpu' = "connect"
  /\ held' = {"struct"} /\ Unchanged

Connect ==
  /\ cpu = "connect" /\ cpu' = "screen"
  /\ held' = held \cup {"conn"} /\ Unchanged

CreateWindow ==
  /\ cpu = "screen" /\ cpu' \in {"ewmh", "opacity"}
  /\ held' = held \cup {"window"} /\ Unchanged

Fullscreen == cpu = "ewmh" /\ cpu' = "opacity" /\ UNCHANGED held /\ Unchanged

Opacity ==
  /\ cpu = "opacity"
  /\ cpu' \in {"protocols", "crashed"}
  /\ UNCHANGED held /\ Unchanged

WatchDelete ==
  /\ cpu = "protocols" /\ Unchanged
  /\ \/ cpu' = "loop" /\ held' = held \cup {"delWindow"}
     \/ cpu' = "crashed" /\ UNCHANGED held

(* kmr_xcb_window_handle_event, and the loop it is the condition of.       *)

\* Escape, q, or the window manager's delete message: 0 is returned without
\* a frame.
QuitEvent ==
  /\ cpu = "loop" /\ running
  /\ cpu' = "exit" /\ UNCHANGED held /\ Unchanged

\* Any other event, or none.
OtherEvent ==
  /\ cpu = "loop" /\ running
  /\ cpu' = "wait" /\ UNCHANGED held /\ Unchanged

LoopEnds ==
  /\ cpu = "loop" /\ ~running
  /\ cpu' = "exit" /\ UNCHANGED held /\ Unchanged

Destroy ==
  /\ DeviceWaitIdle
  /\ cpu' = "return" /\ kmr_xcb_window_destroy /\ Unchanged

\* What the GPU still executes is destroyed under it.
DestroyBusy ==
  /\ DeviceWaitIdleFails
  /\ cpu' = "return" /\ kmr_xcb_window_destroy
  /\ UNCHANGED <<index, recorded, fence, imageSem, renderSem, queue, drawing, owner,
                 waiting, running, prun>>

Program ==
  \/ CreateFails \/ Calloc \/ Connect \/ CreateWindow \/ Fullscreen \/ Opacity
  \/ WatchDelete \/ OtherEvent \/ LoopEnds \/ Destroy
  \/ Render /\ UNCHANGED held
\* The calls that block, ended by an error.
Interrupted ==
  \/ (WaitFails \/ AcquireFails) /\ UNCHANGED held
  \/ DestroyBusy
World == (Device \/ RunStop) /\ UNCHANGED held
Next == Program \/ Interrupted \/ QuitEvent \/ World

Spec == Init /\ [][Next]_vars

\* The program runs while it can, the GPU and the X server do their part, and
\* the server keeps showing frames.  A call that blocks need not ever fail.
Fairness == WF_vars(Program) /\ WF_vars(Device /\ UNCHANGED held)
FairSpec == Spec /\ Fairness

-----------------------------------------------------------------------------
(* Properties.                                                             *)

\* A program that is asked to stop, by an event or by a signal in whatever
\* step it is, ends: it neither waits for a fence nobody will signal, nor for
\* an image nobody gives back, nor for a device that never gets idle.  That
\* recording or presenting has failed before is no excuse; a failed acquire,
\* submission, wait or reset is one, as it may leave a semaphore or the fence
\* behind that nobody signals any more.
StopsWhenAsked ==
  ~prun \/ cpu = "exit" ~> cpu \in {"return", "crashed"} \/ ~SignalsCome
=============================================================================
