------------------------------- MODULE PageFlip -------------------------------
(***************************************************************************)
(* The page-flip loop: kmr_drm_node_atomic_request_{create,destroy} and    *)
(* handle_page_flip_event of src/src/drm-node.c, driven by the main loop   *)
(* every KMS example has (double-buffer-atomic-modeset.c and triangle.c).  *)
(*                                                                         *)
(* The program is one thread.  Around it run the kernel (which latches a   *)
(* committed framebuffer at the next vertical blank and queues the         *)
(* page-flip event), the seat (which takes DRM master away on a VT switch),*)
(* the keyboard, the signals and the GPU.  A framebuffer is named by the   *)
(* index of its buffer.  The calls of the renderer are numbered, wrapping  *)
(* at LastFrame, to tell which of them a buffer was drawn for.  The        *)
(* renderers check none of the calls they make: MayFail says which of them *)
(* may fail.                                                               *)
(***************************************************************************)
EXTENDS Integers, Sequences

CONSTANTS
  BufferCount,     \* buffers of the kmr_buffer
  LastFrame,       \* frame numbers wrap after this one
  MaxInput,        \* bound: input events underway
  Devices,         \* input devices: DEVICE_ADDED events queued by assign_seat
  MaxPrepared,     \* bound: the preparations a request is counted to hold
  VtMaySwitch,     \* whether DRM master can be lost and regained
  DriverMayReject, \* whether the driver may refuse a commit of the DRM master
  MayFail          \* the unchecked calls that may fail, see UncheckedCalls

\* gbm_bo_write, record_vk_draw_commands, vkMapMemory, vkQueueSubmit,
\* vkWaitSemaphores and vkDeviceWaitIdle.
UncheckedCalls == {"write", "record", "map", "submit", "wait", "idle"}

ASSUME PageFlipAssumption ==
  /\ BufferCount \in Nat \ {0, 1}
  /\ LastFrame \in Nat \ {0, 1}
  /\ MaxInput \in Nat
  /\ Devices \in Nat
  /\ MaxPrepared \in Nat \ {0}
  /\ VtMaySwitch \in BOOLEAN
  /\ DriverMayReject \in BOOLEAN
  /\ MayFail \subseteq UncheckedCalls

VARIABLES
  \* the application
  pc,        \* where main() is
  index,     \* the loop counter of the mode-set and of the buffer-destroy loop
  cbuf,      \* *rendererCurrentBuffer
  fbid,      \* *rendererFbId
  running,   \* *rendererRunning
  prun,      \* the flag the signal handler clears
  batch,     \* events of this epoll_wait that are still to be handled
  inq,       \* libinput's event queue
  \* the library
  heap,      \* the allocations of kmr_drm_node_atomic_request_create
  prepared,  \* preparations held by the drmModeAtomicReq (counted up to MaxPrepared)
  reqFb,     \* value of FB_ID in effect in the drmModeAtomicReq: the last one added
  \* the kernel
  master,    \* kmsfd is DRM master
  front,     \* the framebuffer scanned out, or last scanned out
  lit,       \* the CRTC is on
  pending,   \* framebuffer of the commit waiting for the vertical blank
  events,    \* page-flip events queued on kmsfd
  fbs,       \* registered framebuffers
  raw,       \* evdev events queued on inputfd
  \* the drawing
  vulkan,    \* the renderer draws with Vulkan, not with gbm_bo_write
  frame,     \* the number of the last call of the renderer that returned
  turn,      \* the call of the renderer each buffer was last drawn for
  whole,     \* buffers that hold all of what was drawn for their turn
  recorded,  \* the buffer the command buffer draws to
  gpu,       \* buffers the GPU is drawing to
  failed     \* calls that failed since a frame was last begun with the GPU idle

appVars    == <<pc, index, cbuf, fbid, running, prun, batch, inq>>
libVars    == <<heap, prepared, reqFb>>
kernelVars == <<master, front, lit, pending, events, fbs, raw>>
drawVars   == <<vulkan, frame, turn, whole, recorded, gpu, failed>>
vars       == <<appVars, libVars, kernelVars, drawVars>>

Buffers == 0 .. BufferCount - 1
Frames  == 0 .. LastFrame
NoFb    == -1

Starting  == {"modeset", "alloc", "test", "commit0", "setup"}
InLoop    == {"loop", "wait", "batch"}
Drawing   == {"write", "record", "update", "submit", "sync", "stuck"}
InHandler == {"render", "commit"} \cup Drawing
Leaving   == {"exit", "free", "close", "done"}
Ended     == {"done", "crashed"}
Locations == Starting \cup InLoop \cup InHandler \cup Leaving \cup Ended

NextFrame(f)  == IF f = LastFrame THEN 0 ELSE f + 1
CapAt(n, max) == IF n > max THEN max ELSE n

FlagsOK ==
  /\ running \in BOOLEAN
  /\ prun \in BOOLEAN
  /\ master \in BOOLEAN
  /\ lit \in BOOLEAN
  /\ vulkan \in BOOLEAN

DataOK ==
  /\ pc \in Locations
  /\ index \in Nat
  /\ cbuf \in Buffers
  /\ fbid \in Buffers \cup {NoFb}
  /\ batch \subseteq {"kms", "input"}
  /\ inq \in Seq({"quit", "other"})
  /\ heap \subseteq {"atomic", "request", "info"}
  /\ prepared \in 0 .. MaxPrepared
  /\ reqFb \in Buffers \cup {NoFb}
  /\ front \in Buffers
  /\ pending \in Buffers \cup {NoFb}
  /\ events \in Nat
  /\ fbs \subseteq Buffers
  /\ raw \in 0 .. MaxInput

DrawOK ==
  /\ frame \in Frames
  /\ turn \in [Buffers -> Frames]
  /\ whole \subseteq Buffers
  /\ recorded \in Buffers \cup {NoFb}
  /\ gpu \subseteq Buffers
  /\ failed \subseteq UncheckedCalls

TypeOK == FlagsOK /\ DataOK /\ DrawOK

-----------------------------------------------------------------------------
(* Helpers.  Each is preceded by the faulty versions of it that the        *)
(* mutation runs put in its place.                                         *)

StopsOneEarly(i) == i + 2 >= BufferCount

\* The exit condition of the two loops over the buffers.
IsLast(i) == i + 1 = BufferCount

SameBuffer(b)        == b
NextBufferPastEnd(b) == b + 1

\* *cbuf ^= 1 with two buffers, *imageIndex = (*imageIndex + 1) % bufferCount.
NextBuffer(b) == IF b = BufferCount - 1 THEN 0 ELSE b + 1

StopFlagNotCopied == running

\* What the renderer assigns to *running.
StopFlag == prun

\* What the three bytes after the uint8_t cbuf hold: nothing else lies there, and
\* static memory begins as zeros.
BytesAbove == 0

\* *((uint32_t*) imageIndex), on the little-endian machines the library builds for.
Uint32At(byte) == byte + 256 * BytesAbove

\* An unchecked call fails.
Fails(call) ==
  /\ call \in MayFail
  /\ failed' = failed \cup {call}

\* The end of render().
RenderReturns ==
  /\ frame' = NextFrame(frame)
  /\ turn' = [turn EXCEPT ![cbuf] = frame']
  /\ running' = StopFlag
  /\ pc' = "commit"

InfoOnStack == {"atomic", "request"}

\* What kmr_drm_node_atomic_request_create allocates.
Allocations == {"atomic", "request", "info"}

NoEventRequested == 0
TestCommitIsReal == 2

\* Only the second of the two commits at start-up is real and asks for an event.
StartEvents == 1

-----------------------------------------------------------------------------
(***************************************************************************)
(* The state in which main() enters create_kms_set_crtc: node, display and *)
(* buffers exist, nothing has been drawn.                                  *)
(***************************************************************************)
Init ==
  /\ pc = "modeset" /\ index = 0
  /\ cbuf = 0 /\ fbid = NoFb
  /\ running = TRUE /\ prun = TRUE
  /\ batch = {} /\ inq = <<>>
  /\ heap = {} /\ prepared = 0 /\ reqFb = NoFb
  /\ master = TRUE /\ front = 0 /\ lit = FALSE
  /\ pending = NoFb /\ events = 0 /\ fbs = Buffers /\ raw = 0
  /\ vulkan \in BOOLEAN
  /\ frame = 0 /\ turn = [b \in Buffers |-> 0] /\ whole = Buffers
  /\ recorded = NoFb /\ gpu = {} /\ failed = {}

(***************************************************************************)
(* The kernel's answer to drmModeSetCrtc and drmModeAtomicCommit: DRM      *)
(* master only; a nonblocking commit is refused (EBUSY) while another one  *)
(* waits for the vertical blank.                                           *)
(***************************************************************************)
Accepts == master
Refuses == ~master \/ DriverMayReject

-----------------------------------------------------------------------------
(* Start-up.  Every failure jumps to the clean-up at the end of main().    *)

\* kmr_drm_node_display_mode_set, called for every buffer in turn.
ModeSet ==
  /\ pc = "modeset"
  /\ \/ /\ Accepts
        /\ front' = index /\ lit' = TRUE
        /\ index' = index + 1
        /\ pc' = IF IsLast(index) THEN "alloc" ELSE "modeset"
     \/ /\ Refuses
        /\ index' = 0 /\ pc' = "exit"
        /\ UNCHANGED <<front, lit>>
  /\ UNCHANGED <<cbuf, fbid, running, prun, batch, inq, libVars, drawVars>>
  /\ UNCHANGED <<master, pending, events, fbs, raw>>

FirstValueWins(fb) ==
  /\ prepared' = CapAt(prepared + 1, MaxPrepared)
  /\ reqFb' = IF reqFb = NoFb THEN fb ELSE reqFb

\* modeset_atomic_prepare_commit: appends to the request, never empties it.
Prepare(fb) ==
  /\ prepared' = CapAt(prepared + 1, MaxPrepared)
  /\ reqFb' = fb

FreeRequest(kept) ==
  /\ heap' = heap \cap kept
  /\ prepared' = 0
  /\ reqFb' = NoFb

\* create_kms_atomic_request_instance, and kmr_drm_node_atomic_request_create
\* up to the first commit; an allocation may fail.
AllocRequest ==
  /\ pc = "alloc"
  /\ fbid' = cbuf
  /\ index' = 0
  /\ \/ /\ heap' = Allocations
        /\ Prepare(fbid')
        /\ pc' = "test"
     \/ /\ pc' = "exit"
        /\ UNCHANGED libVars
  /\ UNCHANGED <<cbuf, running, prun, batch, inq, kernelVars, drawVars>>

\* The TEST_ONLY commit.
TestCommit ==
  /\ pc = "test"
  /\ \/ Accepts /\ pc' = "commit0" /\ UNCHANGED libVars
     \/ Refuses /\ pc' = "exit" /\ FreeRequest({})
  /\ UNCHANGED <<index, cbuf, fbid, running, prun, batch, inq, kernelVars, drawVars>>

\* The blocking modeset commit that asks for the first page-flip event.
FirstCommit ==
  /\ pc = "commit0"
  /\ \/ /\ Accepts
        /\ front' = reqFb /\ lit' = TRUE /\ events' = events + StartEvents
        /\ pc' = "setup"
        /\ UNCHANGED libVars
     \/ /\ Refuses
        /\ pc' = "exit"
        /\ FreeRequest({})
        /\ UNCHANGED <<front, lit, events>>
  /\ UNCHANGED <<index, cbuf, fbid, running, prun, batch, inq, drawVars>>
  /\ UNCHANGED <<master, pending, fbs, raw>>

\* kmr_input_create and the epoll set-up, each of which may fail.
Setup ==
  /\ pc = "setup"
  /\ \/ pc' = "loop" /\ inq' = [d \in 1 .. Devices |-> "other"]
     \/ pc' = "exit" /\ UNCHANGED inq
  /\ UNCHANGED <<index, cbuf, fbid, running, prun, batch, libVars, kernelVars, drawVars>>

-----------------------------------------------------------------------------
(* The main loop.                                                          *)

Readable == {s \in {"kms", "input"} : IF s = "kms" THEN events > 0 ELSE raw > 0}

\* while (running): the test that precedes epoll_wait.
LoopTest ==
  /\ pc = "loop"
  /\ pc' = IF running THEN "wait" ELSE "exit"
  /\ UNCHANGED <<index, cbuf, fbid, running, prun, batch, inq, libVars, kernelVars, drawVars>>

\* epoll_wait returns every readable descriptor.
EpollReturn ==
  /\ pc = "wait"
  /\ Readable # {}
  /\ batch' = Readable
  /\ pc' = "batch"
  /\ UNCHANGED <<index, cbuf, fbid, running, prun, inq, libVars, kernelVars, drawVars>>

BatchDone ==
  /\ pc = "batch"
  /\ batch = {}
  /\ pc' = "loop"
  /\ UNCHANGED <<index, cbuf, fbid, running, prun, batch, inq, libVars, kernelVars, drawVars>>

\* What libinput_dispatch makes of n evdev events: one event each, or none.
Decoded(n) == UNION {[1 .. k -> {"quit", "other"}] : k \in 0 .. n}

\* inputfd is readable: dispatch, take ONE event off libinput's queue, and
\* leave the loop when it is ESC or Q.
HandleInput ==
  /\ pc = "batch"
  /\ "input" \in batch
  /\ batch' = batch \ {"input"}
  /\ raw' = 0
  /\ \E new \in Decoded(raw) :
       LET queue == inq \o new
       IN  \/ /\ queue = <<>>
              /\ UNCHANGED <<inq, pc>>
           \/ /\ queue # <<>>
              /\ inq' = Tail(queue)
              /\ pc' = IF Head(queue) = "quit" THEN "exit" ELSE "batch"
  /\ UNCHANGED <<index, cbuf, fbid, running, prun, libVars, drawVars>>
  /\ UNCHANGED <<master, front, lit, pending, events, fbs>>

\* kmr_drm_node_handle_drm_event: drmHandleEvent reads the page-flip event
\* and calls handle_page_flip_event.
HandleDrmEvent ==
  /\ pc = "batch"
  /\ "kms" \in batch
  /\ batch' = batch \ {"kms"}
  /\ events' = events - 1
  /\ pc' = "render"
  /\ UNCHANGED <<index, cbuf, fbid, running, prun, inq, libVars, drawVars>>
  /\ UNCHANGED <<master, front, lit, pending, fbs, raw>>

\* render(): choose the next buffer, which is then no longer whole.
RenderBegin ==
  /\ pc = "render"
  /\ cbuf' = NextBuffer(cbuf)
  /\ fbid' = cbuf'
  /\ whole' = whole \ {cbuf'}
  /\ failed' = IF gpu = {} THEN {} ELSE failed
  /\ pc' = IF vulkan THEN "record" ELSE "write"
  /\ UNCHANGED <<index, running, prun, batch, inq, libVars, kernelVars>>
  /\ UNCHANGED <<vulkan, frame, turn, recorded, gpu>>

\* gbm_bo_write.
WriteBuffer ==
  /\ pc = "write"
  /\ RenderReturns
  /\ \/ whole' = whole \cup {cbuf} /\ UNCHANGED failed
     \/ Fails("write") /\ UNCHANGED whole
  /\ UNCHANGED <<index, cbuf, fbid, prun, batch, inq, libVars, kernelVars>>
  /\ UNCHANGED <<vulkan, recorded, gpu>>

\* record_vk_draw_commands.  Recording a command buffer the GPU still executes may
\* turn what it draws to the new buffer.  After a failure the old commands may be
\* left, or none.
RecordDrawCommands ==
  /\ pc = "record"
  /\ pc' = "update"
  /\ \/ /\ recorded' = Uint32At(cbuf)
        /\ gpu' \in {gpu, IF gpu = {} THEN {} ELSE {recorded'}}
        /\ UNCHANGED failed
     \/ /\ Fails("record")
        /\ recorded' \in {recorded, NoFb}
        /\ UNCHANGED gpu
  /\ UNCHANGED <<index, cbuf, fbid, running, prun, batch, inq, libVars, kernelVars>>
  /\ UNCHANGED <<vulkan, frame, turn, whole>>

\* update_uniform_buffer, where the example has one: kmr_vk_memory_map writes to what
\* vkMapMemory returned, which is NULL when it failed.  The kernel then closes kmsfd.
UpdateUniformBuffer ==
  /\ pc = "update"
  /\ \/ pc' = "submit" /\ UNCHANGED <<kernelVars, failed>>
     \/ /\ Fails("map")
        /\ pc' = "crashed"
        /\ fbs' = {} /\ lit' = FALSE /\ pending' = NoFb /\ events' = 0
        /\ UNCHANGED <<master, front, raw>>
  /\ UNCHANGED <<index, cbuf, fbid, running, prun, batch, inq, libVars>>
  /\ UNCHANGED <<vulkan, frame, turn, whole, recorded, gpu>>

\* vkQueueSubmit, which is to signal the semaphore once the GPU has drawn.
QueueSubmit ==
  /\ pc = "submit"
  /\ \/ /\ gpu' = gpu \cup ({recorded} \ {NoFb})
        /\ whole' = whole \ {recorded}
        /\ pc' = "sync"
        /\ UNCHANGED failed
     \/ /\ Fails("submit")
        /\ pc' = "stuck"
        /\ UNCHANGED <<gpu, whole>>
  /\ UNCHANGED <<index, cbuf, fbid, running, prun, batch, inq, libVars, kernelVars>>
  /\ UNCHANGED <<vulkan, frame, turn, recorded>>

WaitSkipped ==
  /\ pc = "sync"
  /\ RenderReturns
  /\ UNCHANGED <<index, cbuf, fbid, prun, batch, inq, libVars, kernelVars>>
  /\ UNCHANGED <<vulkan, whole, recorded, gpu, failed>>

\* vkWaitSemaphores, with no timeout: it returns once the GPU has drawn what was
\* submitted, and never when nothing was.
WaitSemaphores ==
  /\ pc = "sync"
  /\ gpu = {}
  /\ RenderReturns
  /\ UNCHANGED <<index, cbuf, fbid, prun, batch, inq, libVars, kernelVars>>
  /\ UNCHANGED <<vulkan, whole, recorded, gpu, failed>>

\* vkWaitSemaphores returns an error, which the renderer does not see.
WaitFails ==
  /\ pc \in {"sync", "stuck"}
  /\ Fails("wait")
  /\ RenderReturns
  /\ UNCHANGED <<index, cbuf, fbid, prun, batch, inq, libVars, kernelVars>>
  /\ UNCHANGED <<vulkan, whole, recorded, gpu>>

\* The rest of handle_page_flip_event: prepare and the nonblocking commit,
\* whose result is ignored.
CommitFlip ==
  /\ pc = "commit"
  /\ Prepare(fbid)
  /\ \/ /\ Accepts /\ pending = NoFb
        /\ pending' = reqFb'
     \/ /\ Refuses \/ pending # NoFb
        /\ UNCHANGED pending
  /\ pc' = "batch"
  /\ UNCHANGED <<index, cbuf, fbid, running, prun, batch, inq, heap, drawVars>>
  /\ UNCHANGED <<master, front, lit, events, fbs, raw>>

-----------------------------------------------------------------------------
(* Clean-up at exit_error, in the order of the examples.                   *)

\* The framebuffer in the plane's newest state.
PlaneFb == IF pending = NoFb THEN front ELSE pending

\* kmr_buffer_destroy, one buffer a step, after the vkDeviceWaitIdle of
\* kmr_vk_destroy.  Removing the framebuffer the plane uses waits for the flip
\* underway and switches the CRTC off.
DestroyBuffer ==
  /\ pc = "exit"
  /\ \/ (index = 0 => gpu = {}) /\ UNCHANGED failed
     \/ index = 0 /\ gpu # {} /\ Fails("idle")
  /\ (lit /\ index = PlaneFb) => pending = NoFb
  /\ fbs' = fbs \ {index}
  /\ lit' = (lit /\ index # PlaneFb)
  /\ index' = IF IsLast(index) THEN 0 ELSE index + 1
  /\ pc' = IF IsLast(index) THEN "free" ELSE "exit"
  /\ UNCHANGED <<cbuf, fbid, running, prun, batch, inq, libVars>>
  /\ UNCHANGED <<master, front, pending, events, raw>>
  /\ UNCHANGED <<vulkan, frame, turn, whole, recorded, gpu>>

\* kmr_input_destroy, then kmr_drm_node_atomic_request_destroy, which frees
\* the request and the renderer info and keeps the struct itself.
DestroyRequest ==
  /\ pc = "free"
  /\ FreeRequest({"atomic"})
  /\ inq' = <<>>
  /\ pc' = "close"
  /\ UNCHANGED <<index, cbuf, fbid, running, prun, batch, kernelVars, drawVars>>

\* kmr_drm_node_destroy closes kmsfd: the kernel drops what is queued on it.
CloseNode ==
  /\ pc = "close"
  /\ events' = 0 /\ pending' = NoFb
  /\ pc' = "done"
  /\ UNCHANGED <<index, cbuf, fbid, running, prun, batch, inq, libVars, drawVars>>
  /\ UNCHANGED <<master, front, lit, fbs, raw>>

-----------------------------------------------------------------------------
(* The environment.                                                        *)

\* The vertical blank latches the pending framebuffer and queues the event.
VBlank ==
  /\ pending # NoFb
  /\ front' = pending
  /\ pending' = NoFb
  /\ events' = events + 1
  /\ UNCHANGED <<appVars, libVars, drawVars, master, lit, fbs, raw>>

\* The seat takes DRM master away on a VT switch, and gives it back.
VtSwitch ==
  /\ VtMaySwitch
  /\ pc \notin Ended
  /\ master' = ~master
  /\ UNCHANGED <<appVars, libVars, drawVars, front, lit, pending, events, fbs, raw>>

InputArrives ==
  /\ pc \in InLoop \cup InHandler
  /\ raw + Len(inq) < MaxInput
  /\ raw' = raw + 1
  /\ UNCHANGED <<appVars, libVars, drawVars, master, front, lit, pending, events, fbs>>

\* The GPU is done with a buffer.
GpuDone(b) ==
  /\ b \in gpu
  /\ gpu' = gpu \ {b}
  /\ whole' = whole \cup {b}
  /\ UNCHANGED <<appVars, libVars, kernelVars, vulkan, frame, turn, recorded, failed>>

\* run_stop on SIGINT, SIGABRT or SIGTERM; a blocked epoll_wait fails with EINTR.
Signal ==
  /\ pc \notin Ended
  /\ prun' = FALSE
  /\ pc' = IF pc = "wait" THEN "exit" ELSE pc
  /\ UNCHANGED <<index, cbuf, fbid, running, batch, inq, libVars, kernelVars, drawVars>>

-----------------------------------------------------------------------------
Start    == ModeSet \/ AllocRequest \/ TestCommit \/ FirstCommit \/ Setup
Loop     == LoopTest \/ EpollReturn \/ BatchDone \/ HandleInput \/ HandleDrmEvent
Renderer == \/ RenderBegin \/ WriteBuffer \/ RecordDrawCommands \/ UpdateUniformBuffer
            \/ QueueSubmit \/ WaitSemaphores
Handler  == Renderer \/ CommitFlip
Teardown == DestroyBuffer \/ DestroyRequest \/ CloseNode
Program  == Start \/ Loop \/ Handler \/ Teardown

GpuFinishes == \E b \in Buffers : GpuDone(b)

Next == Program \/ WaitFails \/ GpuFinishes \/ VBlank \/ VtSwitch \/ InputArrives \/ Signal

Spec == Init /\ [][Next]_vars

(***************************************************************************)
(* The thread runs whenever it is not blocked in epoll_wait, in a blocking *)
(* ioctl or in a wait for the GPU; the GPU finishes what it was given and  *)
(* the display keeps refreshing.  A VT that was left is entered again some *)
(* day.  Nothing makes a key or a signal arrive, or a wait that would      *)
(* block fail.                                                             *)
(***************************************************************************)
Fairness ==
  /\ WF_vars(Program)
  /\ WF_vars(GpuFinishes)
  /\ WF_vars(VBlank)
  /\ WF_vars(VtSwitch /\ ~master)

FairSpec == Spec /\ Fairness

-----------------------------------------------------------------------------
(* Safety.                                                                 *)

FlipsInFlight ==
  events + (IF pending = NoFb THEN 0 ELSE 1) + (IF pc \in InHandler THEN 1 ELSE 0)

\* A flip is requested only once the one before has been reported and drawn
\* for: the commit of handle_page_flip_event never meets EBUSY, and no second
\* event can reach the handler while the first is being served.
OneFlipInFlight == FlipsInFlight <= 1

\* The renderer never writes the buffer that is scanned out or about to be,
\* although nothing but the order of the events tells it which one that is.
RendererOwnsBuffer == pc \in Drawing => cbuf \notin {front, pending}

\* Whether every call among these succeeded.
NoneFailed(calls) == failed \cap calls = {}

\* No tearing: neither the GPU nor gbm_bo_write is at work on the buffer the screen
\* shows, although the GPU draws behind the program's back and to where the command
\* buffer says.  Two unchecked calls break it: a failed recording leaves the commands
\* for the buffer before, a failed wait commits a buffer the GPU still draws to.
NoTearing ==
  lit /\ NoneFailed({"record", "wait"}) => front \notin gpu /\ ~(pc = "write" /\ cbuf = front)

\* "@rendererFbId should be an already populated buffer": what waits for the
\* vertical blank is the buffer of the renderer's last call, and holds all of its
\* frame unless one of the calls that draw it failed: the renderer returns, and the
\* buffer is committed, all the same.
CommitsPopulated ==
  pending # NoFb =>
    /\ turn[pending] = frame
    /\ failed = {} => pending \in whole

\* handle_page_flip_event is never given a renderer info that was freed, and
\* never commits a request or a framebuffer that is gone.
HandlerDataAlive ==
  pc \in InHandler => {"request", "info"} \subseteq heap /\ cbuf \in fbs

\* Whatever step of main() failed, or wherever it was interrupted, the clean-up
\* leaves no framebuffer registered and the CRTC not scanning one of them.
TeardownComplete == pc = "done" => fbs = {} /\ ~lit

\* epoll_wait is entered with a flip underway or reported, as long as every
\* commit was accepted: the loop then never sleeps for good.
ChainAlive ==
  (~VtMaySwitch /\ ~DriverMayReject /\ pc = "wait") => FlipsInFlight = 1

(***************************************************************************)
(* The buffers the renderer was called for reach the screen in the order   *)
(* of the calls, none skipped, none returned before its predecessor is     *)
(* visible.                                                                *)
(***************************************************************************)
Pipeline == INSTANCE FramePipeline WITH drawn <- frame, shown <- turn[front]

ShownInOrder == Pipeline!Spec

(***************************************************************************)
(* Why all of the above holds.  The right to draw is a token: the kernel   *)
(* holds it as a pending flip, the event queue as an event, the handler    *)
(* while it runs.  It is never doubled, and whoever holds it knows what is *)
(* on the screen.  A refused commit loses it.                              *)
(***************************************************************************)
TokenInv ==
  /\ events <= 1
  /\ pending # NoFb => events = 0
  /\ pc \in InHandler => events = 0 /\ pending = NoFb /\ "kms" \notin batch
  /\ pc \in Starting \ {"setup"} => events = 0 /\ pending = NoFb
  /\ pc = "batch" /\ "kms" \in batch => events = 1
  /\ pc \in Starting \cup {"loop", "wait"} => batch = {}

BufferInv ==
  /\ pc \in Starting \ {"setup"} => frame = 0 /\ turn = [b \in Buffers |-> 0]
  /\ pc \in {"test", "commit0"} => reqFb = cbuf
  /\ events = 1 \/ pc = "render" => cbuf = front
  /\ events = 1 \/ pc \in InHandler \ {"commit"} => turn[front] = frame
  /\ pc \in Drawing \cup {"commit"} => cbuf # front /\ fbid = cbuf
  /\ pending # NoFb => pending = cbuf /\ pending # front
  /\ pc = "commit" \/ pending # NoFb =>
       turn[cbuf] = frame /\ frame = NextFrame(turn[front])

\* The GPU works only while the renderer waits for it, and on the buffer the renderer
\* chose, as long as the calls that see to it succeed.
DrawInv ==
  /\ gpu # {} /\ NoneFailed({"wait"}) => pc = "sync"
  /\ pc \in {"update", "submit", "sync"} /\ NoneFailed({"record"}) => recorded = cbuf
  /\ pc = "sync" /\ NoneFailed({"record", "wait"}) => gpu \subseteq {cbuf}
  /\ pc = "sync" /\ failed = {} => cbuf \in gpu \cup whole
  /\ (pc = "commit" \/ pending # NoFb) /\ failed = {} => cbuf \in whole
  /\ pc = "stuck" => "submit" \in failed

ResourceInv ==
  /\ pc \in {"modeset", "exit"} => index \in Buffers
  /\ pc \in {"test", "commit0", "setup"} \cup InLoop \cup InHandler =>
       index = 0 /\ heap = Allocations
  /\ pc \in Starting \cup InLoop \cup InHandler => fbs = Buffers
  /\ pc = "exit" => \A b \in fbs : b >= index
  /\ pc \in Leaving \ {"exit"} => fbs = {}
  /\ lit => PlaneFb \in fbs

ChainInv ==
  ~VtMaySwitch /\ ~DriverMayReject =>
    /\ master
    /\ pc \in InLoop \cup {"setup"} => events = 1 \/ pending # NoFb

FlipInv == TypeOK /\ TokenInv /\ BufferInv /\ DrawInv /\ ResourceInv /\ ChainInv

-----------------------------------------------------------------------------
(* Liveness, under FairSpec.                                               *)

\* drm-node.h: after atomic_request_create "all the application needs to do is
\* wait for page-flip events to happen": a wait ends in a page-flip event,
\* unless main() leaves the loop.
WaitEndsInFlip == pc = "wait" ~> (events > 0 \/ pc \in Leaving)

\* A frame on the screen is followed by the next one for as long as the loop
\* runs, unless the renderer waits for a submission that failed, or dies of a
\* mapping that failed.
FramesKeepComing ==
  \A f \in Frames :
    (pc \in InLoop /\ turn[front] = f) ~>
      (turn[front] # f \/ pc \in Leaving \cup {"stuck", "crashed"})

\* build.rst: "Examples can exit with either CTRL-C, ESC, or Q".  CTRL-C ends the
\* program, wherever it is, unless the renderer waits for a submission that failed.
CtrlCStops == ~prun ~> pc \in Ended \cup {"stuck"}
=============================================================================
