---------------------------- MODULE WaylandClient ----------------------------
(***************************************************************************)
(* The Wayland client (src/src/wclient.c) under the programs that use it,  *)
(* and the compositor it talks to.  The program connects, binds globals,   *)
(* may make shared-memory buffers, makes a surface and dispatches events;  *)
(* every frame is drawn from within an event handler.  A dispatch runs the *)
(* handlers of all events that have arrived and only then does main look   *)
(* at its flag.  What happens inside a Vulkan renderer is in               *)
(* SwapchainFrames.                                                        *)
(***************************************************************************)
EXTENDS Naturals, Sequences, FiniteSets

CONSTANTS
  BufferCount,    \* what the shm program asks for
  MaxConfigures   \* configure events the compositor sends

ASSUME ClientAssumption == BufferCount \in Nat \ {0} /\ MaxConfigures \in Nat \ {0}

Globals == {"wlCompositor", "xdgWmBase", "wlShm", "fullScreenShell"}
Buffers == 0 .. BufferCount - 1
Events == {"configure", "done", "close"}

VARIABLES
  info,        \* what main asks for: [shm, fullscreen]
  step,        \* where main is
  globals,     \* the interfaces bound
  made,        \* how many of the shared-memory buffers are complete
  held,        \* what has been made and not destroyed
  waitForConfigure,
  running,     \* *rendererRunning
  prun,        \* cleared by a signal
  cbuf,        \* *rendererCurrentBuffer
  batch,       \* events being dispatched
  \* the compositor:
  sent,        \* events on their way
  requested,   \* frame callbacks asked for and not answered
  configures,  \* configure events handled by the client
  ackPending,  \* the first configure event is not acknowledged yet
  attached,    \* a buffer has been committed to the surface
  early,       \* one was, before the first configure event was acknowledged
  toSend       \* configure events the compositor will still send
vars == <<info, step, globals, made, held, waitForConfigure, running, prun, cbuf, batch,
          sent, requested, configures, ackPending, attached, early, toSend>>

client == <<info, globals, made, held>>
loop == <<waitForConfigure, running, cbuf, batch>>
surface == <<requested, configures, ackPending, attached, early>>

Init ==
  /\ info \in [shm : BOOLEAN, fullscreen : BOOLEAN] /\ (info.shm => ~info.fullscreen)
  /\ step = "connect" /\ globals = {} /\ made = 0 /\ held = {}
  /\ waitForConfigure = FALSE /\ running = TRUE /\ prun = TRUE /\ cbuf = 0
  /\ batch = <<>> /\ sent = <<>>
  /\ requested = 0 /\ configures = 0 /\ ackPending = TRUE
  /\ attached = FALSE /\ early = FALSE /\ toSend = 0

-----------------------------------------------------------------------------
(* Start-up and clean-up.                                                  *)

\* A calloc, the connection or the registry fails, or the roundtrip finds
\* nothing to dispatch.  The shm program then destroys slots it never set.
kmr_wc_core_create_fails ==
  /\ step = "connect" /\ step' = IF info.shm THEN "crashed" ELSE "return"
  /\ UNCHANGED <<client, loop, surface, prun, sent, toSend>>

\* The registry announces the globals of the compositor during the roundtrip.
\* A roundtrip that fails (-1) is taken for one that has succeeded.
kmr_wc_core_create ==
  /\ step = "connect"
  /\ globals' \in SUBSET Globals
  /\ held' = {"core"}
  /\ step' = IF info.shm THEN "buffers" ELSE "surface"
  /\ UNCHANGED <<info, made, loop, surface, prun, sent, toSend>>

\* One turn of the loop: file, mapping, pool and buffer.
kmr_wc_buffer_create ==
  /\ step = "buffers" /\ "wlShm" \in globals
  /\ made' = made + 1
  /\ held' = held \cup {"shmBuffers"}
  /\ step' = IF made' = BufferCount THEN "surface" ELSE "buffers"
  /\ UNCHANGED <<info, globals, loop, surface, prun, sent, toSend>>

\* The shm program's surface slot is garbage then, and is destroyed.
kmr_wc_buffer_create_fails ==
  /\ step = "buffers" /\ step' = "crashed"
  /\ UNCHANGED <<client, loop, surface, prun, sent, toSend>>

UsesShell == info.fullscreen /\ "fullScreenShell" \in globals

\* A request to an interface that is not bound goes through a null pointer.
kmr_wc_surface_create ==
  /\ step = "surface"
  /\ IF "wlCompositor" \in globals /\ (UsesShell \/ "xdgWmBase" \in globals)
     THEN /\ step' = "loop" /\ waitForConfigure' = TRUE
          /\ held' = held \cup {"surface"}
          /\ toSend' = IF UsesShell THEN 0 ELSE MaxConfigures
     ELSE step' = "crashed" /\ UNCHANGED <<waitForConfigure, held, toSend>>
  /\ UNCHANGED <<info, globals, made, running, cbuf, batch, surface, prun, sent>>

kmr_wc_surface_create_fails ==
  /\ step = "surface" /\ step' = "cleanup"
  /\ UNCHANGED <<client, loop, surface, prun, sent, toSend>>

\* Mutant: main forgets the surface.
Cleanup_keeps ==
  /\ step = "cleanup" /\ step' = "return"
  /\ held' = held \ {"core"}
  /\ sent' = <<>> /\ toSend' = 0
  /\ UNCHANGED <<info, globals, made, loop, surface, prun>>

\* The surface, the buffers and the core are destroyed.  Of the shared-memory
\* buffers only the arrays are: bufferCount was never set, so the loop over
\* them does not run.  Disconnecting ends the conversation.
Cleanup ==
  /\ step = "cleanup" /\ step' = "return"
  /\ held' = held \ {"surface", "core"}
  /\ sent' = <<>> /\ toSend' = 0
  /\ UNCHANGED <<info, globals, made, loop, surface, prun>>

-----------------------------------------------------------------------------
(* The loop and the handlers.                                              *)

\* The renderer passes the signal flag on.  Shared-memory buffers are always
\* drawn and attached at cbuf, which never moves: the surface's bufferCount
\* was copied from the one that was never set.
Renders == running' = prun /\ attached' = TRUE /\ UNCHANGED cbuf

\* wl_display_dispatch returns once everything that had arrived is handled.
DispatchStarts ==
  /\ step = "loop" /\ batch = <<>> /\ sent # <<>>
  /\ step' = "dispatch" /\ batch' = sent /\ sent' = <<>>
  /\ UNCHANGED <<client, waitForConfigure, running, cbuf, surface, prun, toSend>>

DispatchEnds ==
  /\ step = "dispatch" /\ batch = <<>>
  /\ step' = IF running THEN "loop" ELSE "cleanup"
  /\ UNCHANGED <<client, loop, surface, prun, sent, toSend>>

\* The connection is lost.
DispatchFails ==
  /\ step = "loop" /\ step' = "cleanup"
  /\ UNCHANGED <<client, loop, surface, prun, sent, toSend>>

Handle(event) == step = "dispatch" /\ batch # <<>> /\ Head(batch) = event /\ batch' = Tail(batch)

\* Mutant: the frame is drawn before the event is acknowledged.
xdg_surface_handle_configure_late ==
  /\ Handle("configure")
  /\ configures' = configures + 1
  /\ requested' = requested + 1
  /\ Renders /\ early' = (early \/ ackPending) /\ ackPending' = FALSE
  /\ UNCHANGED <<client, step, waitForConfigure, prun, sent, toSend>>

\* Acknowledged, then drawframe: a callback of its own, and a frame.  The flag
\* meant for the first event only is set again.
xdg_surface_handle_configure ==
  /\ Handle("configure")
  /\ configures' = configures + 1 /\ ackPending' = FALSE
  /\ IF waitForConfigure
     THEN requested' = requested + 1 /\ Renders /\ early' = (early \/ ackPending')
     ELSE UNCHANGED <<requested, running, attached, cbuf, early>>
  /\ UNCHANGED <<client, step, waitForConfigure, prun, sent, toSend>>

\* Mutant: a frame does not ask for the next one.
drawframe_last ==
  /\ Handle("done")
  /\ Renders /\ early' = (early \/ ackPending)
  /\ UNCHANGED <<client, step, waitForConfigure, requested, configures, ackPending,
                 prun, sent, toSend>>

\* Mutant: the renderer does not pass the signal on.
drawframe_deaf ==
  /\ Handle("done")
  /\ requested' = requested + 1
  /\ attached' = TRUE /\ early' = (early \/ ackPending)
  /\ UNCHANGED <<client, step, waitForConfigure, running, cbuf, configures, ackPending,
                 prun, sent, toSend>>

\* Called back: the callback is destroyed and the next one asked for.
drawframe ==
  /\ Handle("done")
  /\ requested' = requested + 1
  /\ Renders /\ early' = (early \/ ackPending)
  /\ UNCHANGED <<client, step, waitForConfigure, configures, ackPending, prun, sent, toSend>>

xdg_toplevel_handle_close ==
  /\ Handle("close")
  /\ running' = FALSE
  /\ UNCHANGED <<client, step, waitForConfigure, cbuf, surface, prun, sent, toSend>>

-----------------------------------------------------------------------------
(* The compositor, the user and signals.                                   *)

InLoop == step \in {"loop", "dispatch"}

SendConfigure ==
  /\ InLoop /\ toSend > 0
  /\ toSend' = toSend - 1 /\ sent' = Append(sent, "configure")
  /\ UNCHANGED <<client, step, loop, surface, prun>>

SendDone ==
  /\ InLoop /\ requested > 0 /\ attached
  /\ requested' = requested - 1 /\ sent' = Append(sent, "done")
  /\ UNCHANGED <<client, step, loop, configures, ackPending, attached, early, prun, toSend>>

CloseWindow ==
  /\ InLoop /\ attached /\ \A k \in DOMAIN (batch \o sent) : (batch \o sent)[k] # "close"
  /\ sent' = Append(sent, "close")
  /\ UNCHANGED <<client, step, loop, surface, prun, toSend>>

run_stop ==
  /\ prun /\ prun' = FALSE
  /\ UNCHANGED <<client, step, loop, surface, sent, toSend>>

-----------------------------------------------------------------------------
Main ==
  \/ kmr_wc_core_create \/ kmr_wc_core_create_fails
  \/ kmr_wc_buffer_create \/ kmr_wc_buffer_create_fails
  \/ kmr_wc_surface_create \/ kmr_wc_surface_create_fails \/ Cleanup
  \/ DispatchStarts \/ DispatchEnds
  \/ xdg_surface_handle_configure \/ drawframe \/ xdg_toplevel_handle_close

Next ==
  \/ Main \/ DispatchFails
  \/ SendConfigure \/ SendDone \/ CloseWindow \/ run_stop

Spec == Init /\ [][Next]_vars

\* The program runs, the compositor configures the surface and answers every
\* frame callback, as it does while the surface is visible.
Fairness == WF_vars(Main) /\ WF_vars(SendConfigure) /\ WF_vars(SendDone)
FairSpec == Spec /\ Fairness

-----------------------------------------------------------------------------
(* Properties.                                                             *)

Count(event, seq) == Cardinality({k \in DOMAIN seq : seq[k] = event})

TypeOK ==
  /\ step \in {"connect", "buffers", "surface", "loop", "dispatch", "cleanup", "return", "crashed"}
  /\ globals \subseteq Globals /\ made \in 0 .. BufferCount
  /\ held \subseteq {"core", "shmBuffers", "surface"}
  /\ cbuf \in Buffers
  /\ \A k \in DOMAIN (batch \o sent) : (batch \o sent)[k] \in Events
  /\ step # "dispatch" => batch = <<>>
  /\ requested \in 0 .. MaxConfigures /\ configures \in 0 .. MaxConfigures
  /\ (attached \/ configures > 0) => "xdgWmBase" \in globals /\ ~UsesShell
  /\ step = "return" => held \subseteq {"shmBuffers"}

\* A buffer is attached to the surface only after the first configure event
\* was acknowledged, as the comment in the handler says the protocol asks:
\* neither the frames drawn later from callbacks nor those of a second
\* configure event overtake it.
BufferAfterConfigure == ~early

\* Every configure event starts a chain of frame callbacks, and no chain ever
\* ends or forks: as many callbacks are underway as events have been handled.
\* (One chain would do; that there are more is the price of setting
\* waitForConfigure again.)
ChainsPerConfigure ==
  step \in {"loop", "dispatch"} =>
    requested + Count("done", batch) + Count("done", sent) = configures

\* A signal stops the program, although it is noticed in a frame only: a
\* frame is always on its way, except on the fullscreen shell, where none is
\* ever drawn.
SignalStops == ~prun ~> step \in {"return", "crashed"} \/ (UsesShell /\ step = "loop")

\* "Handles what happens when a window is closed" (wclient.c:390): once the
\* close event is handled the program ends.
CloseStops ==
  (step = "dispatch" /\ batch # <<>> /\ Head(batch) = "close") ~> step = "return"
=============================================================================
