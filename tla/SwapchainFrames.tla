--------------------------- MODULE SwapchainFrames ---------------------------
(***************************************************************************)
(* One renderer of a Wayland or XCB example, the GPU and the presentation  *)
(* engine.  The renderer has one command buffer, one uniform buffer, one   *)
(* fence, a semaphore that says an acquired image may be drawn to and one  *)
(* that says it has been.  None of the results of its Vulkan calls is      *)
(* looked at: MayFail says which of them may fail, and what the program    *)
(* then does is to go on.                                                  *)
(*                                                                         *)
(* The queue executes what is submitted to it in order, each operation     *)
(* once its semaphore is signalled.  The presentation engine may hand out  *)
(* an image before it has stopped reading it, shows images in the order    *)
(* they were presented or only the newest (the programs ask for MAILBOX    *)
(* and take what they get), and refuses to work with a window that was     *)
(* resized or lost.                                                        *)
(***************************************************************************)
EXTENDS Naturals, Sequences, FiniteSets

CONSTANTS
  ImageCount,  \* images in the swapchain
  MayFail,     \* the unchecked calls that may fail, see UncheckedCalls
  MaxFailed    \* bound: after one of the fence, no call fails if this many have

UncheckedCalls ==
  {"wait", "acquire", "record", "map", "reset", "submit", "present", "idle"}

\* An image's index goes through a uint8_t of main.
ASSUME SwapchainAssumption ==
  /\ ImageCount \in Nat /\ ImageCount >= 2 /\ ImageCount <= 256
  /\ MayFail \subseteq UncheckedCalls
  /\ MaxFailed \in Nat

Images == 0 .. ImageCount - 1
NoImage == ImageCount

VARIABLES
  cpu,        \* the call the program is about to make
  index,      \* the four bytes at imageIndex, the image acquired last
  recorded,   \* the image the command buffer draws to
  fence,      \* imageFence is signalled
  imageSem,   \* imageSemaphore: "unsignalled", "pending" or "signalled"
  renderSem,  \* renderSemaphore is signalled
  queue,      \* submitted and not executed, [op, image]
  drawing,    \* the GPU is executing the draw at the head of the queue
  owner,      \* of each image: "engine", "program", "waiting" or "screen"
  waiting,    \* images presented and not shown yet, in order
  running,    \* what the event loop looks at
  prun,       \* cleared by SIGINT, SIGABRT and SIGTERM
  failed      \* the calls that have failed
frameVars == <<cpu, index, recorded, fence, imageSem, renderSem, queue, drawing,
               owner, waiting, running, prun, failed>>

FramesInit ==
  /\ index = 0 /\ recorded = NoImage
  /\ fence = TRUE /\ imageSem = "unsignalled" /\ renderSem = FALSE
  /\ queue = <<>> /\ drawing = FALSE
  /\ owner = [i \in Images |-> "engine"] /\ waiting = <<>>
  /\ running = TRUE /\ prun = TRUE /\ failed = {}

\* Every wait for the fence was one, and every frame began with the fence reset.
FenceKept == failed \cap {"wait", "reset"} = {}

\* And no semaphore was left without the signal that is waited for.
SignalsCome == FenceKept /\ failed \cap {"acquire", "submit"} = {}

\* An unchecked call fails.
Fails(call) ==
  /\ call \in MayFail
  /\ FenceKept \/ Cardinality(failed) < MaxFailed
  /\ failed' = failed \cup {call}

-----------------------------------------------------------------------------
(* The renderer, call by call.                                             *)

\* Mutant: the fence is not waited for.
WaitForFences_not ==
  /\ cpu = "wait" /\ cpu' = "acquire"
  /\ UNCHANGED <<index, recorded, fence, imageSem, renderSem, queue, drawing,
                 owner, waiting, running, prun, failed>>

WaitForFences ==
  /\ cpu = "wait" /\ fence
  /\ cpu' = "acquire"
  /\ UNCHANGED <<index, recorded, fence, imageSem, renderSem, queue, drawing,
                 owner, waiting, running, prun, failed>>

\* The wait ends with an error, and the fence is not signalled.  (An error with
\* the fence signalled is no different from none.)
WaitFails ==
  /\ cpu = "wait" /\ ~fence /\ Fails("wait")
  /\ cpu' = "acquire"
  /\ UNCHANGED <<index, recorded, fence, imageSem, renderSem, queue, drawing, owner,
                 waiting, running, prun>>

\* Blocks while the engine has no image to give.  The index is written as a
\* uint32_t to main's uint8_t cbuf; nothing else lies in the three bytes after.
AcquireNextImage ==
  /\ cpu = "acquire"
  /\ \E i \in Images :
       /\ owner[i] = "engine"
       /\ index' = i /\ owner' = [owner EXCEPT ![i] = "program"]
  /\ imageSem' = "pending" /\ cpu' = "record"
  /\ UNCHANGED <<recorded, fence, renderSem, queue, drawing, waiting, running, prun, failed>>

\* The index stays that of the frame before, and nobody signals the semaphore.
AcquireFails ==
  /\ cpu = "acquire" /\ Fails("acquire")
  /\ cpu' = "record"
  /\ UNCHANGED <<index, recorded, fence, imageSem, renderSem, queue, drawing, owner,
                 waiting, running, prun>>

\* *imageIndex, the uint8_t.
LowByte(i) == i % 256

\* Mutant: the framebuffer of the next image is drawn to.
RecordDrawCommands_next ==
  /\ cpu = "record" /\ cpu' = "update"
  /\ recorded' = (LowByte(index) + 1) % ImageCount
  /\ UNCHANGED <<index, fence, imageSem, renderSem, queue, drawing, owner, waiting,
                 running, prun, failed>>

\* When recording fails the command buffer keeps the commands of before.  What
\* becomes of a submission that still uses the buffer is left out: there is one
\* only after a failure that every property about drawing excepts.
RecordDrawCommands ==
  /\ cpu = "record"
  /\ \/ recorded' = LowByte(index) /\ failed' = failed
     \/ Fails("record") /\ UNCHANGED recorded
  /\ cpu' = "update"
  /\ UNCHANGED <<index, fence, imageSem, renderSem, queue, drawing, owner, waiting,
                 running, prun>>

\* The spinning programs write matrices to the uniform buffer, through NULL when
\* it could not be mapped; the others have nothing to do here.
UpdateUniformBuffer ==
  /\ cpu = "update"
  /\ \/ cpu' = "reset" /\ failed' = failed
     \/ cpu' = "crashed" /\ Fails("map")
  /\ UNCHANGED <<index, recorded, fence, imageSem, renderSem, queue, drawing, owner,
                 waiting, running, prun>>

ResetFences ==
  /\ cpu = "reset"
  /\ \/ fence' = FALSE /\ failed' = failed
     \/ Fails("reset") /\ UNCHANGED fence
  /\ cpu' = "submit"
  /\ UNCHANGED <<index, recorded, imageSem, renderSem, queue, drawing, owner, waiting,
                 running, prun>>

QueueSubmit ==
  /\ cpu = "submit"
  /\ \/ queue' = Append(queue, [op |-> "draw", image |-> recorded]) /\ failed' = failed
     \/ Fails("submit") /\ UNCHANGED queue
  /\ cpu' = "present"
  /\ UNCHANGED <<index, recorded, fence, imageSem, renderSem, drawing, owner, waiting,
                 running, prun>>

\* Mutant: a frame is drawn and not presented.
QueuePresent_not ==
  /\ cpu = "present" /\ cpu' = "loop" /\ running' = prun
  /\ UNCHANGED <<index, recorded, fence, imageSem, renderSem, queue, drawing, owner,
                 waiting, prun, failed>>

\* Mutant: the stop flag is not passed on.
QueuePresent_flag ==
  /\ cpu = "present" /\ cpu' = "loop"
  /\ queue' = Append(queue, [op |-> "present", image |-> index])
  /\ UNCHANGED <<index, recorded, fence, imageSem, renderSem, drawing, owner, waiting,
                 running, prun, failed>>

\* A present that is refused still waits for the semaphore; the image goes
\* back to the engine.  All four bytes of the index are read.
QueuePresent ==
  /\ cpu = "present"
  /\ \/ queue' = Append(queue, [op |-> "present", image |-> index]) /\ failed' = failed
     \/ Fails("present") /\ queue' = Append(queue, [op |-> "discard", image |-> index])
  /\ cpu' = "loop" /\ running' = prun
  /\ UNCHANGED <<index, recorded, fence, imageSem, renderSem, drawing, owner, waiting, prun>>

Render ==
  \/ WaitForFences \/ AcquireNextImage \/ RecordDrawCommands \/ UpdateUniformBuffer
  \/ ResetFences \/ QueueSubmit \/ QueuePresent

\* kmr_vk_destroy starts with vkDeviceWaitIdle, and goes on when that fails.
DeviceWaitIdle == cpu = "exit" /\ queue = <<>>
DeviceWaitIdleFails == cpu = "exit" /\ queue # <<>> /\ Fails("idle")

-----------------------------------------------------------------------------
(* The GPU and the presentation engine.                                    *)

StartDraw ==
  /\ queue # <<>> /\ Head(queue).op = "draw" /\ ~drawing /\ imageSem = "signalled"
  /\ drawing' = TRUE /\ imageSem' = "unsignalled"
  /\ UNCHANGED <<cpu, index, recorded, fence, renderSem, queue, owner, waiting,
                 running, prun, failed>>

FinishDraw ==
  /\ drawing
  /\ drawing' = FALSE /\ queue' = Tail(queue) /\ renderSem' = TRUE /\ fence' = TRUE
  /\ UNCHANGED <<cpu, index, recorded, imageSem, owner, waiting, running, prun, failed>>

ExecutePresent ==
  /\ queue # <<>> /\ Head(queue).op # "draw" /\ renderSem
  /\ renderSem' = FALSE /\ queue' = Tail(queue)
  /\ LET i == Head(queue).image IN
       IF Head(queue).op = "present"
       THEN owner' = [owner EXCEPT ![i] = "waiting"] /\ waiting' = Append(waiting, i)
       ELSE owner' = [owner EXCEPT ![i] = "engine"] /\ UNCHANGED waiting
  /\ UNCHANGED <<cpu, index, recorded, fence, imageSem, drawing, running, prun, failed>>

\* The engine stops reading an image it has handed out.
ReadDone ==
  /\ imageSem = "pending" /\ imageSem' = "signalled"
  /\ UNCHANGED <<cpu, index, recorded, fence, renderSem, queue, drawing, owner, waiting,
                 running, prun, failed>>

\* The n-th image that waits goes to the screen, n being the first or the
\* last; the images before it and the one on the screen are free again.
Show ==
  \E n \in {1, Len(waiting)} :
    /\ waiting # <<>>
    /\ owner' = [i \in Images |->
                   IF i = waiting[n] THEN "screen"
                   ELSE IF owner[i] = "screen" \/ \E k \in 1 .. n - 1 : waiting[k] = i
                        THEN "engine" ELSE owner[i]]
    /\ waiting' = SubSeq(waiting, n + 1, Len(waiting))
    /\ UNCHANGED <<cpu, index, recorded, fence, imageSem, renderSem, queue, drawing,
                   running, prun, failed>>

Device == StartDraw \/ FinishDraw \/ ExecutePresent \/ ReadDone \/ Show

RunStop ==
  /\ prun /\ prun' = FALSE
  /\ UNCHANGED <<cpu, index, recorded, fence, imageSem, renderSem, queue, drawing,
                 owner, waiting, running, failed>>

-----------------------------------------------------------------------------
(* Properties.                                                             *)

Draws == {k \in DOMAIN queue : queue[k].op = "draw"}

\* The command buffer and the uniform buffer are written while no submission
\* uses them: there is one of each, and the fence alone stands between the CPU
\* and the frame before.  Acquiring, recording, submitting or presenting may
\* fail; only the two calls on the fence must not fail unnoticed.
CpuWaitsForGpu ==
  FenceKept /\ cpu \in {"acquire", "record", "update", "reset", "submit"} => Draws = {}

\* The GPU draws to an image that the program has acquired and not presented.
\* It does so even when acquiring failed and a stale index was used: the
\* submission then never starts.  Recording and the calls on the fence must
\* not fail unnoticed.
DrawsOwnImage ==
  FenceKept /\ "record" \notin failed /\ drawing => owner[Head(queue).image] = "program"

\* A semaphore is signalled once for each wait: none is signalled when it is
\* signalled already, or asked to be while a signal is underway.  It is the
\* fence that says so; if it is not waited for or not reset, nothing does.
SemaphoresPaired ==
  FenceKept =>
    /\ drawing => ~renderSem
    /\ cpu = "acquire" => imageSem = "unsignalled"
=============================================================================
