---------------------------- MODULE PageFlip_proofs ----------------------------
(***************************************************************************)
(* Proofs about the page-flip loop, for any number of buffers, any bound   *)
(* and any combination of VT switches and refused commits.                 *)
(*                                                                         *)
(* FlipInv is inductive.  Its parts are proved one after the other, each   *)
(* from itself and the parts before it; the theorems follow from it.  The  *)
(* last ones count steps: to the next frame, and to the end of main().     *)
(***************************************************************************)
EXTENDS PageFlip, TLAPS

USE PageFlipAssumption DEF Buffers, Frames, NoFb, Starting, InLoop, Drawing,
  InHandler, Leaving, Ended, Locations

-----------------------------------------------------------------------------
(* Types.                                                                  *)

\* Freeing the request keeps the types of what it resets.
LEMMA FreeRequestType ==
  ASSUME DataOK, NEW kept, FreeRequest(kept)
  PROVE  /\ heap' \subseteq {"atomic", "request", "info"}
         /\ prepared' \in 0 .. MaxPrepared
         /\ reqFb' \in Buffers \cup {NoFb}
  <1>1. heap' = heap \cap kept /\ prepared' = 0 /\ reqFb' = NoFb
    BY DEF FreeRequest
  <1>2. heap \subseteq {"atomic", "request", "info"} /\ 0 \in 0 .. MaxPrepared
    BY DEF DataOK
  <1>3. QED
    BY ONLY <1>1, <1>2

\* So does preparing a commit of a buffer.
LEMMA PrepareType ==
  ASSUME DataOK, NEW fb \in Buffers, Prepare(fb)
  PROVE  prepared' \in 0 .. MaxPrepared /\ reqFb' \in Buffers
  BY DEF DataOK, Prepare, CapAt

\* Taking one event off libinput's queue leaves a queue.
LEMMA TailType ==
  ASSUME NEW S, NEW s \in Seq(S), NEW t \in Seq(S), s \o t # <<>>
  PROVE  Tail(s \o t) \in Seq(S)
  OBVIOUS

\* libinput_dispatch yields a sequence of input events.
LEMMA DecodedType ==
  ASSUME DataOK, NEW new \in Decoded(raw)
  PROVE  new \in Seq({"quit", "other"})
  BY DEF DataOK, Decoded

\* The flags stay Boolean.
LEMMA FlagsStep ==
  ASSUME FlagsOK, [Next]_vars
  PROVE  FlagsOK'
  <1> USE DEF FlagsOK, vars, appVars, libVars, kernelVars, drawVars
  <1>1. CASE ModeSet
    BY <1>1 DEF ModeSet, IsLast
  <1>2. CASE AllocRequest
    BY <1>2 DEF AllocRequest, Prepare, CapAt, Allocations
  <1>3. CASE TestCommit
    BY <1>3 DEF TestCommit, FreeRequest
  <1>4. CASE FirstCommit
    BY <1>4 DEF FirstCommit, StartEvents, FreeRequest
  <1>5. CASE Setup
    BY <1>5 DEF Setup
  <1>6. CASE LoopTest
    BY <1>6 DEF LoopTest
  <1>7. CASE EpollReturn
    BY <1>7 DEF EpollReturn, Readable
  <1>8. CASE BatchDone
    BY <1>8 DEF BatchDone
  <1>9. CASE HandleInput
    BY <1>9 DEF HandleInput
  <1>10. CASE HandleDrmEvent
    BY <1>10 DEF HandleDrmEvent
  <1>11. CASE RenderBegin
    BY <1>11 DEF RenderBegin, NextBuffer
  <1>12. CASE WriteBuffer
    BY <1>12 DEF WriteBuffer, RenderReturns, NextFrame, StopFlag, Fails, UncheckedCalls
  <1>13. CASE RecordDrawCommands
    BY <1>13 DEF RecordDrawCommands, Uint32At, BytesAbove, Fails, UncheckedCalls
  <1>14. CASE UpdateUniformBuffer
    BY <1>14 DEF UpdateUniformBuffer, Fails, UncheckedCalls
  <1>15. CASE QueueSubmit
    BY <1>15 DEF QueueSubmit, Fails, UncheckedCalls
  <1>16. CASE WaitSemaphores
    BY <1>16 DEF WaitSemaphores, RenderReturns, NextFrame, StopFlag
  <1>17. CASE WaitFails
    BY <1>17 DEF WaitFails, RenderReturns, NextFrame, StopFlag, Fails, UncheckedCalls
  <1>18. CASE GpuFinishes
    BY <1>18 DEF GpuFinishes, GpuDone
  <1>19. CASE CommitFlip
    BY <1>19 DEF CommitFlip, Prepare, CapAt
  <1>20. CASE DestroyBuffer
    BY <1>20 DEF DestroyBuffer, IsLast, PlaneFb
  <1>21. CASE DestroyRequest
    BY <1>21 DEF DestroyRequest, FreeRequest
  <1>22. CASE CloseNode
    BY <1>22 DEF CloseNode
  <1>23. CASE VBlank
    BY <1>23 DEF VBlank
  <1>24. CASE VtSwitch
    BY <1>24 DEF VtSwitch
  <1>25. CASE InputArrives
    BY <1>25 DEF InputArrives
  <1>26. CASE Signal
    BY <1>26 DEF Signal
  <1>27. CASE UNCHANGED vars
    BY <1>27
  <1>28. QED
    BY <1>1, <1>2, <1>3, <1>4, <1>5, <1>6, <1>7, <1>8, <1>9, <1>10,
       <1>11, <1>12, <1>13, <1>14, <1>15, <1>16, <1>17, <1>18, <1>19, <1>20, <1>21, <1>22, <1>23, <1>24, <1>25, <1>26, <1>27
       DEF Next, Program, Start, Loop, Handler, Renderer, Teardown

\* So do the types of what is drawn.
LEMMA DrawTypeStep ==
  ASSUME DrawOK, DataOK, [Next]_vars
  PROVE  DrawOK'
  <1> USE DEF DrawOK, DataOK, vars, appVars, libVars, kernelVars, drawVars
  <1>1. CASE ModeSet
    BY <1>1 DEF ModeSet, IsLast
  <1>2. CASE AllocRequest
    BY <1>2 DEF AllocRequest, Prepare, CapAt, Allocations
  <1>3. CASE TestCommit
    BY <1>3 DEF TestCommit, FreeRequest
  <1>4. CASE FirstCommit
    BY <1>4 DEF FirstCommit, StartEvents, FreeRequest
  <1>5. CASE Setup
    BY <1>5 DEF Setup
  <1>6. CASE LoopTest
    BY <1>6 DEF LoopTest
  <1>7. CASE EpollReturn
    BY <1>7 DEF EpollReturn, Readable
  <1>8. CASE BatchDone
    BY <1>8 DEF BatchDone
  <1>9. CASE HandleInput
    BY <1>9 DEF HandleInput
  <1>10. CASE HandleDrmEvent
    BY <1>10 DEF HandleDrmEvent
  <1>11. CASE RenderBegin
    BY <1>11 DEF RenderBegin, NextBuffer
  <1>12. CASE WriteBuffer
    <2>1. /\ frame' = NextFrame(frame) /\ turn' = [turn EXCEPT ![cbuf] = frame']
          /\ UNCHANGED <<recorded, gpu>>
      BY <1>12 DEF WriteBuffer, RenderReturns
    <2>2. whole' \subseteq whole \cup {cbuf} /\ failed' \subseteq failed \cup {"write"}
      BY <1>12 DEF WriteBuffer, Fails
    <2>3. NextFrame(frame) \in Frames
      BY DEF NextFrame
    <2>4. QED
      BY <2>1, <2>2, <2>3 DEF UncheckedCalls
  <1>13. CASE RecordDrawCommands
    <2>1. Uint32At(cbuf) = cbuf
      BY DEF Uint32At, BytesAbove
    <2>2. /\ recorded' \in {cbuf, recorded, NoFb} /\ gpu' \subseteq gpu \cup {cbuf}
          /\ failed' \subseteq failed \cup {"record"}
      BY <1>13, <2>1 DEF RecordDrawCommands, Fails
    <2>3. UNCHANGED <<frame, turn, whole>>
      BY <1>13 DEF RecordDrawCommands
    <2>4. QED
      BY <2>2, <2>3 DEF UncheckedCalls
  <1>14. CASE UpdateUniformBuffer
    BY <1>14 DEF UpdateUniformBuffer, Fails, UncheckedCalls
  <1>15. CASE QueueSubmit
    BY <1>15 DEF QueueSubmit, Fails, UncheckedCalls
  <1>16. CASE WaitSemaphores
    BY <1>16 DEF WaitSemaphores, RenderReturns, NextFrame, StopFlag
  <1>17. CASE WaitFails
    BY <1>17 DEF WaitFails, RenderReturns, NextFrame, StopFlag, Fails, UncheckedCalls
  <1>18. CASE GpuFinishes
    BY <1>18 DEF GpuFinishes, GpuDone
  <1>19. CASE CommitFlip
    BY <1>19 DEF CommitFlip, Prepare, CapAt
  <1>20. CASE DestroyBuffer
    <2>1. failed' \in {failed, failed \cup {"idle"}}
      BY <1>20 DEF DestroyBuffer, Fails
    <2>2. UNCHANGED <<vulkan, frame, turn, whole, recorded, gpu>>
      BY <1>20 DEF DestroyBuffer
    <2>3. QED
      BY ONLY <2>1, <2>2, DrawOK DEF DrawOK, UncheckedCalls
  <1>21. CASE DestroyRequest
    BY <1>21 DEF DestroyRequest, FreeRequest
  <1>22. CASE CloseNode
    BY <1>22 DEF CloseNode
  <1>23. CASE VBlank
    BY <1>23 DEF VBlank
  <1>24. CASE VtSwitch
    BY <1>24 DEF VtSwitch
  <1>25. CASE InputArrives
    BY <1>25 DEF InputArrives
  <1>26. CASE Signal
    BY <1>26 DEF Signal
  <1>27. CASE UNCHANGED vars
    BY <1>27
  <1>28. QED
    BY <1>1, <1>2, <1>3, <1>4, <1>5, <1>6, <1>7, <1>8, <1>9, <1>10,
       <1>11, <1>12, <1>13, <1>14, <1>15, <1>16, <1>17, <1>18, <1>19, <1>20, <1>21, <1>22, <1>23, <1>24, <1>25, <1>26, <1>27
       DEF Next, Program, Start, Loop, Handler, Renderer, Teardown

\* What every other variable needs to keep its type: the counters of the two
\* loops are in range and an event is there when it is read.
DataNeeds ==
  /\ pc \in {"modeset", "exit"} => index \in Buffers
  /\ pc = "batch" /\ "kms" \in batch => events = 1
  /\ pc = "commit0" => reqFb \in Buffers

\* Every other variable keeps to its type.
LEMMA DataStep ==
  ASSUME DataOK, DataNeeds, [Next]_vars
  PROVE  DataOK'
  <1> USE DEF DataOK, DataNeeds, vars, appVars, libVars, kernelVars, drawVars
  <1>1. CASE ModeSet
    BY <1>1 DEF ModeSet, IsLast
  <1>2. CASE AllocRequest
    <2>1. CASE UNCHANGED libVars
      BY <1>2, <2>1 DEF AllocRequest
    <2>2. CASE heap' = Allocations /\ Prepare(cbuf)
      BY <1>2, <2>2, PrepareType DEF AllocRequest, Allocations
    <2>3. QED
      BY <1>2, <2>1, <2>2 DEF AllocRequest
  <1>3. CASE TestCommit
    <2>1. CASE FreeRequest({})
      BY <1>3, <2>1, FreeRequestType DEF TestCommit
    <2>2. CASE UNCHANGED libVars
      BY <1>3, <2>2 DEF TestCommit
    <2>3. QED
      BY <1>3, <2>1, <2>2 DEF TestCommit
  <1>4. CASE FirstCommit
    <2>1. CASE FreeRequest({})
      <3>1. /\ heap' \subseteq {"atomic", "request", "info"}
            /\ prepared' \in 0 .. MaxPrepared
            /\ reqFb' \in Buffers \cup {NoFb}
        BY <2>1, FreeRequestType
      <3>2. QED
        BY <1>4, <3>1 DEF FirstCommit, StartEvents
    <2>2. CASE UNCHANGED libVars
      BY <1>4, <2>2 DEF FirstCommit, StartEvents
    <2>3. QED
      BY <1>4, <2>1, <2>2 DEF FirstCommit
  <1>5. CASE Setup
    <2>1. [d \in 1 .. Devices |-> "other"] \in Seq({"quit", "other"})
      OBVIOUS
    <2>2. QED
      BY <1>5, <2>1 DEF Setup
  <1>6. CASE LoopTest
    BY <1>6 DEF LoopTest
  <1>7. CASE EpollReturn
    BY <1>7 DEF EpollReturn, Readable
  <1>8. CASE BatchDone
    BY <1>8 DEF BatchDone
  <1>9. CASE HandleInput
    <2>1. PICK new \in Decoded(raw) :
            inq' = inq \/ (inq \o new # <<>> /\ inq' = Tail(inq \o new))
      BY <1>9 DEF HandleInput
    <2>2. inq \in Seq({"quit", "other"}) /\ new \in Seq({"quit", "other"})
      BY DecodedType
    <2>3. inq' \in Seq({"quit", "other"})
      <3> HIDE DEF DataOK, DataNeeds
      <3>1. CASE inq \o new # <<>> /\ inq' = Tail(inq \o new)
        BY <2>2, <3>1, TailType
      <3>2. QED
        BY <2>1, <2>2, <3>1
    <2>4. pc' \in {"exit", "batch"} /\ raw' = 0 /\ batch' \subseteq batch
      BY <1>9 DEF HandleInput
    <2>5. QED
      BY <1>9, <2>3, <2>4 DEF HandleInput
  <1>10. CASE HandleDrmEvent
    BY <1>10 DEF HandleDrmEvent
  <1>11. CASE RenderBegin
    BY <1>11 DEF RenderBegin, NextBuffer
  <1>12. CASE WriteBuffer
    BY <1>12 DEF WriteBuffer, RenderReturns, NextFrame, StopFlag, Fails, UncheckedCalls
  <1>13. CASE RecordDrawCommands
    BY <1>13 DEF RecordDrawCommands, Uint32At, BytesAbove, Fails, UncheckedCalls
  <1>14. CASE UpdateUniformBuffer
    <2>1. /\ pc' \in {"submit", "crashed"} /\ fbs' \subseteq fbs
          /\ pending' \in {pending, NoFb} /\ events' \in {events, 0}
      BY <1>14 DEF UpdateUniformBuffer
    <2>2. UNCHANGED <<index, cbuf, fbid, batch, inq, libVars, front, raw>>
      BY <1>14 DEF UpdateUniformBuffer
    <2>3. QED
      BY <2>1, <2>2
  <1>15. CASE QueueSubmit
    BY <1>15 DEF QueueSubmit, Fails, UncheckedCalls
  <1>16. CASE WaitSemaphores
    BY <1>16 DEF WaitSemaphores, RenderReturns, NextFrame, StopFlag
  <1>17. CASE WaitFails
    BY <1>17 DEF WaitFails, RenderReturns, NextFrame, StopFlag, Fails, UncheckedCalls
  <1>18. CASE GpuFinishes
    BY <1>18 DEF GpuFinishes, GpuDone
  <1>19. CASE CommitFlip
    BY <1>19 DEF CommitFlip, Prepare, CapAt
  <1>20. CASE DestroyBuffer
    BY <1>20 DEF DestroyBuffer, IsLast, PlaneFb
  <1>21. CASE DestroyRequest
    BY <1>21, FreeRequestType DEF DestroyRequest
  <1>22. CASE CloseNode
    BY <1>22 DEF CloseNode
  <1>23. CASE VBlank
    BY <1>23 DEF VBlank
  <1>24. CASE VtSwitch
    BY <1>24 DEF VtSwitch
  <1>25. CASE InputArrives
    BY <1>25 DEF InputArrives
  <1>26. CASE Signal
    BY <1>26 DEF Signal
  <1>27. CASE UNCHANGED vars
    BY <1>27
  <1>28. QED
    BY <1>1, <1>2, <1>3, <1>4, <1>5, <1>6, <1>7, <1>8, <1>9, <1>10,
       <1>11, <1>12, <1>13, <1>14, <1>15, <1>16, <1>17, <1>18, <1>19, <1>20, <1>21, <1>22, <1>23, <1>24, <1>25, <1>26, <1>27
       DEF Next, Program, Start, Loop, Handler, Renderer, Teardown

-----------------------------------------------------------------------------
(* The parts of FlipInv.                                                   *)

\* The token is never doubled.
LEMMA TokenStep ==
  ASSUME DataOK, TokenInv, [Next]_vars
  PROVE  TokenInv'
  <1> USE DEF DataOK, TokenInv, vars, appVars, libVars, kernelVars, drawVars
  <1>1. CASE ModeSet
    BY <1>1 DEF ModeSet, IsLast
  <1>2. CASE AllocRequest
    BY <1>2 DEF AllocRequest, Prepare, CapAt, Allocations
  <1>3. CASE TestCommit
    BY <1>3 DEF TestCommit, FreeRequest
  <1>4. CASE FirstCommit
    BY <1>4 DEF FirstCommit, StartEvents, FreeRequest
  <1>5. CASE Setup
    BY <1>5 DEF Setup
  <1>6. CASE LoopTest
    BY <1>6 DEF LoopTest
  <1>7. CASE EpollReturn
    BY <1>7 DEF EpollReturn, Readable
  <1>8. CASE BatchDone
    BY <1>8 DEF BatchDone
  <1>9. CASE HandleInput
    <2>1. pc' \in {"exit", "batch"}
      BY <1>9 DEF HandleInput
    <2>2. QED
      BY <1>9, <2>1 DEF HandleInput
  <1>10. CASE HandleDrmEvent
    BY <1>10 DEF HandleDrmEvent
  <1>11. CASE RenderBegin
    BY <1>11 DEF RenderBegin, NextBuffer
  <1>12. CASE WriteBuffer
    BY <1>12 DEF WriteBuffer, RenderReturns, NextFrame, StopFlag, Fails, UncheckedCalls
  <1>13. CASE RecordDrawCommands
    BY <1>13 DEF RecordDrawCommands, Uint32At, BytesAbove, Fails, UncheckedCalls
  <1>14. CASE UpdateUniformBuffer
    BY <1>14 DEF UpdateUniformBuffer, Fails, UncheckedCalls
  <1>15. CASE QueueSubmit
    BY <1>15 DEF QueueSubmit, Fails, UncheckedCalls
  <1>16. CASE WaitSemaphores
    BY <1>16 DEF WaitSemaphores, RenderReturns, NextFrame, StopFlag
  <1>17. CASE WaitFails
    BY <1>17 DEF WaitFails, RenderReturns, NextFrame, StopFlag, Fails, UncheckedCalls
  <1>18. CASE GpuFinishes
    BY <1>18 DEF GpuFinishes, GpuDone
  <1>19. CASE CommitFlip
    BY <1>19 DEF CommitFlip, Prepare, CapAt
  <1>20. CASE DestroyBuffer
    BY <1>20 DEF DestroyBuffer, IsLast, PlaneFb
  <1>21. CASE DestroyRequest
    BY <1>21 DEF DestroyRequest, FreeRequest
  <1>22. CASE CloseNode
    BY <1>22 DEF CloseNode
  <1>23. CASE VBlank
    BY <1>23 DEF VBlank
  <1>24. CASE VtSwitch
    BY <1>24 DEF VtSwitch
  <1>25. CASE InputArrives
    BY <1>25 DEF InputArrives
  <1>26. CASE Signal
    BY <1>26 DEF Signal
  <1>27. CASE UNCHANGED vars
    BY <1>27
  <1>28. QED
    BY <1>1, <1>2, <1>3, <1>4, <1>5, <1>6, <1>7, <1>8, <1>9, <1>10,
       <1>11, <1>12, <1>13, <1>14, <1>15, <1>16, <1>17, <1>18, <1>19, <1>20, <1>21, <1>22, <1>23, <1>24, <1>25, <1>26, <1>27
       DEF Next, Program, Start, Loop, Handler, Renderer, Teardown

\* Whoever holds the token knows what is on the screen.
LEMMA BufferStep ==
  ASSUME DataOK, DrawOK, DataNeeds, TokenInv, BufferInv, [Next]_vars
  PROVE  BufferInv'
  <1> USE DEF DataOK, DrawOK, DataNeeds, TokenInv, BufferInv, vars, appVars, libVars, kernelVars, drawVars
  <1>1. CASE ModeSet
    BY <1>1 DEF ModeSet, IsLast
  <1>2. CASE AllocRequest
    BY <1>2 DEF AllocRequest, Prepare, CapAt, Allocations
  <1>3. CASE TestCommit
    BY <1>3 DEF TestCommit, FreeRequest
  <1>4. CASE FirstCommit
    BY <1>4 DEF FirstCommit, StartEvents, FreeRequest
  <1>5. CASE Setup
    BY <1>5 DEF Setup
  <1>6. CASE LoopTest
    BY <1>6 DEF LoopTest
  <1>7. CASE EpollReturn
    BY <1>7 DEF EpollReturn, Readable
  <1>8. CASE BatchDone
    BY <1>8 DEF BatchDone
  <1>9. CASE HandleInput
    <2>1. pc' \in {"exit", "batch"}
      BY <1>9 DEF HandleInput
    <2>2. QED
      BY <1>9, <2>1 DEF HandleInput
  <1>10. CASE HandleDrmEvent
    BY <1>10 DEF HandleDrmEvent
  <1>11. CASE RenderBegin
    BY <1>11 DEF RenderBegin, NextBuffer
  <1>12. CASE WriteBuffer
    BY <1>12 DEF WriteBuffer, RenderReturns, NextFrame, StopFlag, Fails, UncheckedCalls
  <1>13. CASE RecordDrawCommands
    BY <1>13 DEF RecordDrawCommands, Uint32At, BytesAbove, Fails, UncheckedCalls
  <1>14. CASE UpdateUniformBuffer
    BY <1>14 DEF UpdateUniformBuffer, Fails, UncheckedCalls
  <1>15. CASE QueueSubmit
    BY <1>15 DEF QueueSubmit, Fails, UncheckedCalls
  <1>16. CASE WaitSemaphores
    BY <1>16 DEF WaitSemaphores, RenderReturns, NextFrame, StopFlag
  <1>17. CASE WaitFails
    BY <1>17 DEF WaitFails, RenderReturns, NextFrame, StopFlag, Fails, UncheckedCalls
  <1>18. CASE GpuFinishes
    BY <1>18 DEF GpuFinishes, GpuDone
  <1>19. CASE CommitFlip
    BY <1>19 DEF CommitFlip, Prepare, CapAt
  <1>20. CASE DestroyBuffer
    BY <1>20 DEF DestroyBuffer, IsLast, PlaneFb
  <1>21. CASE DestroyRequest
    BY <1>21 DEF DestroyRequest, FreeRequest
  <1>22. CASE CloseNode
    BY <1>22 DEF CloseNode
  <1>23. CASE VBlank
    BY <1>23 DEF VBlank
  <1>24. CASE VtSwitch
    BY <1>24 DEF VtSwitch
  <1>25. CASE InputArrives
    BY <1>25 DEF InputArrives
  <1>26. CASE Signal
    BY <1>26 DEF Signal
  <1>27. CASE UNCHANGED vars
    BY <1>27
  <1>28. QED
    BY <1>1, <1>2, <1>3, <1>4, <1>5, <1>6, <1>7, <1>8, <1>9, <1>10,
       <1>11, <1>12, <1>13, <1>14, <1>15, <1>16, <1>17, <1>18, <1>19, <1>20, <1>21, <1>22, <1>23, <1>24, <1>25, <1>26, <1>27
       DEF Next, Program, Start, Loop, Handler, Renderer, Teardown

\* The GPU draws what, and while, the renderer expects.
LEMMA DrawStep ==
  ASSUME DataOK, DrawOK, TokenInv, DrawInv, [Next]_vars
  PROVE  DrawInv'
  <1> USE DEF DataOK, DrawOK, TokenInv, DrawInv, NoneFailed, vars, appVars, libVars, kernelVars, drawVars
  <1>1. CASE ModeSet
    BY <1>1 DEF ModeSet, IsLast
  <1>2. CASE AllocRequest
    BY <1>2 DEF AllocRequest, Prepare, CapAt, Allocations
  <1>3. CASE TestCommit
    BY <1>3 DEF TestCommit, FreeRequest
  <1>4. CASE FirstCommit
    BY <1>4 DEF FirstCommit, StartEvents, FreeRequest
  <1>5. CASE Setup
    BY <1>5 DEF Setup
  <1>6. CASE LoopTest
    BY <1>6 DEF LoopTest
  <1>7. CASE EpollReturn
    BY <1>7 DEF EpollReturn, Readable
  <1>8. CASE BatchDone
    BY <1>8 DEF BatchDone
  <1>9. CASE HandleInput
    <2>1. pc' \in {"exit", "batch"}
      BY <1>9 DEF HandleInput
    <2>2. QED
      BY <1>9, <2>1 DEF HandleInput
  <1>10. CASE HandleDrmEvent
    BY <1>10 DEF HandleDrmEvent
  <1>11. CASE RenderBegin
    BY <1>11 DEF RenderBegin, NextBuffer
  <1>12. CASE WriteBuffer
    BY <1>12 DEF WriteBuffer, RenderReturns, NextFrame, StopFlag, Fails, UncheckedCalls
  <1>13. CASE RecordDrawCommands
    BY <1>13 DEF RecordDrawCommands, Uint32At, BytesAbove, Fails, UncheckedCalls
  <1>14. CASE UpdateUniformBuffer
    BY <1>14 DEF UpdateUniformBuffer, Fails, UncheckedCalls
  <1>15. CASE QueueSubmit
    BY <1>15 DEF QueueSubmit, Fails, UncheckedCalls
  <1>16. CASE WaitSemaphores
    BY <1>16 DEF WaitSemaphores, RenderReturns, NextFrame, StopFlag
  <1>17. CASE WaitFails
    BY <1>17 DEF WaitFails, RenderReturns, NextFrame, StopFlag, Fails, UncheckedCalls
  <1>18. CASE GpuFinishes
    BY <1>18 DEF GpuFinishes, GpuDone
  <1>19. CASE CommitFlip
    BY <1>19 DEF CommitFlip, Prepare, CapAt
  <1>20. CASE DestroyBuffer
    <2>1. failed \subseteq failed'
      BY <1>20 DEF DestroyBuffer, Fails
    <2>2. pc = "exit" /\ pc' \in {"exit", "free"}
      BY <1>20 DEF DestroyBuffer
    <2>3. UNCHANGED <<cbuf, pending, whole, gpu>>
      BY <1>20 DEF DestroyBuffer
    <2>4. QED
      BY <2>1, <2>2, <2>3
  <1>21. CASE DestroyRequest
    BY <1>21 DEF DestroyRequest, FreeRequest
  <1>22. CASE CloseNode
    BY <1>22 DEF CloseNode
  <1>23. CASE VBlank
    BY <1>23 DEF VBlank
  <1>24. CASE VtSwitch
    BY <1>24 DEF VtSwitch
  <1>25. CASE InputArrives
    BY <1>25 DEF InputArrives
  <1>26. CASE Signal
    BY <1>26 DEF Signal
  <1>27. CASE UNCHANGED vars
    BY <1>27
  <1>28. QED
    BY <1>1, <1>2, <1>3, <1>4, <1>5, <1>6, <1>7, <1>8, <1>9, <1>10,
       <1>11, <1>12, <1>13, <1>14, <1>15, <1>16, <1>17, <1>18, <1>19, <1>20, <1>21, <1>22, <1>23, <1>24, <1>25, <1>26, <1>27
       DEF Next, Program, Start, Loop, Handler, Renderer, Teardown

\* What the loop uses exists, and the clean-up removes it in order.
LEMMA ResourceStep ==
  ASSUME DataOK, TokenInv, BufferInv, ResourceInv, [Next]_vars
  PROVE  ResourceInv'
  <1> USE DEF DataOK, TokenInv, BufferInv, ResourceInv, PlaneFb, vars, appVars, libVars, kernelVars, drawVars
  <1>1. CASE ModeSet
    BY <1>1 DEF ModeSet, IsLast
  <1>2. CASE AllocRequest
    BY <1>2 DEF AllocRequest, Prepare, CapAt, Allocations
  <1>3. CASE TestCommit
    BY <1>3 DEF TestCommit, FreeRequest
  <1>4. CASE FirstCommit
    BY <1>4 DEF FirstCommit, StartEvents, FreeRequest
  <1>5. CASE Setup
    BY <1>5 DEF Setup
  <1>6. CASE LoopTest
    BY <1>6 DEF LoopTest
  <1>7. CASE EpollReturn
    BY <1>7 DEF EpollReturn, Readable
  <1>8. CASE BatchDone
    BY <1>8 DEF BatchDone
  <1>9. CASE HandleInput
    <2>1. pc' \in {"exit", "batch"}
      BY <1>9 DEF HandleInput
    <2>2. QED
      BY <1>9, <2>1 DEF HandleInput
  <1>10. CASE HandleDrmEvent
    BY <1>10 DEF HandleDrmEvent
  <1>11. CASE RenderBegin
    BY <1>11 DEF RenderBegin, NextBuffer
  <1>12. CASE WriteBuffer
    BY <1>12 DEF WriteBuffer, RenderReturns, NextFrame, StopFlag, Fails, UncheckedCalls
  <1>13. CASE RecordDrawCommands
    BY <1>13 DEF RecordDrawCommands, Uint32At, BytesAbove, Fails, UncheckedCalls
  <1>14. CASE UpdateUniformBuffer
    BY <1>14 DEF UpdateUniformBuffer, Fails, UncheckedCalls
  <1>15. CASE QueueSubmit
    BY <1>15 DEF QueueSubmit, Fails, UncheckedCalls
  <1>16. CASE WaitSemaphores
    BY <1>16 DEF WaitSemaphores, RenderReturns, NextFrame, StopFlag
  <1>17. CASE WaitFails
    BY <1>17 DEF WaitFails, RenderReturns, NextFrame, StopFlag, Fails, UncheckedCalls
  <1>18. CASE GpuFinishes
    BY <1>18 DEF GpuFinishes, GpuDone
  <1>19. CASE CommitFlip
    BY <1>19 DEF CommitFlip, Prepare, CapAt
  <1>20. CASE DestroyBuffer
    <2>1. lit' => PlaneFb' \in fbs'
      BY <1>20 DEF DestroyBuffer
    <2>2. pc' = "exit" => index' = index + 1 /\ index' \in Buffers
      BY <1>20 DEF DestroyBuffer, IsLast
    <2>3. pc' = "exit" => \A b \in fbs' : b >= index'
      BY <1>20, <2>2 DEF DestroyBuffer, IsLast
    <2>4. pc' = "free" => fbs' = {}
      BY <1>20 DEF DestroyBuffer, IsLast
    <2>5. pc' \in {"exit", "free"}
      BY <1>20 DEF DestroyBuffer
    <2>6. QED
      BY <2>1, <2>2, <2>3, <2>4, <2>5
  <1>21. CASE DestroyRequest
    BY <1>21 DEF DestroyRequest, FreeRequest
  <1>22. CASE CloseNode
    BY <1>22 DEF CloseNode
  <1>23. CASE VBlank
    BY <1>23 DEF VBlank
  <1>24. CASE VtSwitch
    BY <1>24 DEF VtSwitch
  <1>25. CASE InputArrives
    BY <1>25 DEF InputArrives
  <1>26. CASE Signal
    BY <1>26 DEF Signal
  <1>27. CASE UNCHANGED vars
    BY <1>27
  <1>28. QED
    BY <1>1, <1>2, <1>3, <1>4, <1>5, <1>6, <1>7, <1>8, <1>9, <1>10,
       <1>11, <1>12, <1>13, <1>14, <1>15, <1>16, <1>17, <1>18, <1>19, <1>20, <1>21, <1>22, <1>23, <1>24, <1>25, <1>26, <1>27
       DEF Next, Program, Start, Loop, Handler, Renderer, Teardown

\* The token is lost only to a refused commit.
LEMMA ChainStep ==
  ASSUME DataOK, TokenInv, BufferInv, ChainInv, [Next]_vars
  PROVE  ChainInv'
  <1> USE DEF DataOK, TokenInv, BufferInv, ChainInv, Accepts, Refuses, vars, appVars, libVars, kernelVars, drawVars
  <1>1. CASE ModeSet
    BY <1>1 DEF ModeSet, IsLast
  <1>2. CASE AllocRequest
    BY <1>2 DEF AllocRequest, Prepare, CapAt, Allocations
  <1>3. CASE TestCommit
    BY <1>3 DEF TestCommit, FreeRequest
  <1>4. CASE FirstCommit
    BY <1>4 DEF FirstCommit, StartEvents, FreeRequest
  <1>5. CASE Setup
    BY <1>5 DEF Setup
  <1>6. CASE LoopTest
    BY <1>6 DEF LoopTest
  <1>7. CASE EpollReturn
    BY <1>7 DEF EpollReturn, Readable
  <1>8. CASE BatchDone
    BY <1>8 DEF BatchDone
  <1>9. CASE HandleInput
    <2>1. pc' \in {"exit", "batch"}
      BY <1>9 DEF HandleInput
    <2>2. QED
      BY <1>9, <2>1 DEF HandleInput
  <1>10. CASE HandleDrmEvent
    BY <1>10 DEF HandleDrmEvent
  <1>11. CASE RenderBegin
    BY <1>11 DEF RenderBegin, NextBuffer
  <1>12. CASE WriteBuffer
    BY <1>12 DEF WriteBuffer, RenderReturns, NextFrame, StopFlag, Fails, UncheckedCalls
  <1>13. CASE RecordDrawCommands
    BY <1>13 DEF RecordDrawCommands, Uint32At, BytesAbove, Fails, UncheckedCalls
  <1>14. CASE UpdateUniformBuffer
    BY <1>14 DEF UpdateUniformBuffer, Fails, UncheckedCalls
  <1>15. CASE QueueSubmit
    BY <1>15 DEF QueueSubmit, Fails, UncheckedCalls
  <1>16. CASE WaitSemaphores
    BY <1>16 DEF WaitSemaphores, RenderReturns, NextFrame, StopFlag
  <1>17. CASE WaitFails
    BY <1>17 DEF WaitFails, RenderReturns, NextFrame, StopFlag, Fails, UncheckedCalls
  <1>18. CASE GpuFinishes
    BY <1>18 DEF GpuFinishes, GpuDone
  <1>19. CASE CommitFlip
    BY <1>19 DEF CommitFlip, Prepare, CapAt
  <1>20. CASE DestroyBuffer
    BY <1>20 DEF DestroyBuffer, IsLast, PlaneFb
  <1>21. CASE DestroyRequest
    BY <1>21 DEF DestroyRequest, FreeRequest
  <1>22. CASE CloseNode
    BY <1>22 DEF CloseNode
  <1>23. CASE VBlank
    BY <1>23 DEF VBlank
  <1>24. CASE VtSwitch
    BY <1>24 DEF VtSwitch
  <1>25. CASE InputArrives
    BY <1>25 DEF InputArrives
  <1>26. CASE Signal
    BY <1>26 DEF Signal
  <1>27. CASE UNCHANGED vars
    BY <1>27
  <1>28. QED
    BY <1>1, <1>2, <1>3, <1>4, <1>5, <1>6, <1>7, <1>8, <1>9, <1>10,
       <1>11, <1>12, <1>13, <1>14, <1>15, <1>16, <1>17, <1>18, <1>19, <1>20, <1>21, <1>22, <1>23, <1>24, <1>25, <1>26, <1>27
       DEF Next, Program, Start, Loop, Handler, Renderer, Teardown

-----------------------------------------------------------------------------
(* The theorems.                                                           *)

\* The initial state satisfies it.
LEMMA InvInit == Init => FlipInv
  <1> SUFFICES ASSUME Init PROVE FlipInv
    OBVIOUS
  <1>1. FlagsOK
    BY DEF Init, FlagsOK
  <1>2. DataOK
    BY DEF Init, DataOK
  <1>3. DrawOK
    BY DEF Init, DrawOK
  <1>4. TokenInv
    BY DEF Init, TokenInv
  <1>5. BufferInv
    BY DEF Init, BufferInv
  <1>6. DrawInv
    BY DEF Init, DrawInv, NoneFailed
  <1>7. ResourceInv
    BY DEF Init, ResourceInv
  <1>8. ChainInv
    BY DEF Init, ChainInv
  <1>9. QED
    BY <1>1, <1>2, <1>3, <1>4, <1>5, <1>6, <1>7, <1>8 DEF FlipInv, TypeOK

\* Every step keeps it.
LEMMA InvStep == FlipInv /\ [Next]_vars => FlipInv'
  <1> SUFFICES ASSUME FlagsOK, DataOK, DrawOK, TokenInv, BufferInv, DrawInv, ResourceInv,
                      ChainInv, [Next]_vars
               PROVE  FlipInv'
    BY DEF FlipInv, TypeOK
  <1>1. DataNeeds
    BY DEF DataOK, DataNeeds, TokenInv, BufferInv, ResourceInv
  <1>2. QED
    BY <1>1, FlagsStep, DataStep, DrawTypeStep, TokenStep, BufferStep, DrawStep, ResourceStep,
       ChainStep
       DEF FlipInv, TypeOK

\* The page-flip loop keeps FlipInv.
THEOREM Invariance == Spec => []FlipInv
  <1>1. QED
    BY InvInit, InvStep, PTL DEF Spec

\* Type correctness.
THEOREM TypeCorrect == Spec => []TypeOK
  <1>1. FlipInv => TypeOK
    BY DEF FlipInv
  <1>2. QED
    BY <1>1, Invariance, PTL

\* At most one flip is underway, so that no commit meets EBUSY.
THEOREM OneFlip == Spec => []OneFlipInFlight
  <1>1. FlipInv => OneFlipInFlight
    BY DEF FlipInv, TypeOK, DataOK, TokenInv, OneFlipInFlight, FlipsInFlight
  <1>2. QED
    BY <1>1, Invariance, PTL

\* With two buffers or more, the renderer never writes to what is scanned out or
\* about to be, although all it does is count.
THEOREM BufferSafety == Spec => []RendererOwnsBuffer
  <1>1. FlipInv => RendererOwnsBuffer
    BY DEF FlipInv, TypeOK, DataOK, TokenInv, BufferInv, RendererOwnsBuffer
  <1>2. QED
    BY <1>1, Invariance, PTL

\* The GPU is never at work on what is on the screen, unless a recording or a wait has
\* failed unseen: the renderer waits for the GPU before it commits, and the command
\* buffer draws to the buffer the renderer chose.
THEOREM WholeFrames == Spec => []NoTearing
  <1>1. FlipInv => NoTearing
    BY DEF FlipInv, TypeOK, DataOK, TokenInv, BufferInv, DrawInv, NoneFailed, NoTearing
  <1>2. QED
    BY <1>1, Invariance, PTL

\* What waits for the vertical blank is the buffer of the renderer's last call, with all
\* of its frame unless one of the calls that draw it has failed.
THEOREM NewestCommitted == Spec => []CommitsPopulated
  <1>1. FlipInv => CommitsPopulated
    BY DEF FlipInv, TypeOK, DataOK, TokenInv, BufferInv, DrawInv, CommitsPopulated
  <1>2. QED
    BY <1>1, Invariance, PTL

\* The handler works on memory and framebuffers that exist.
THEOREM HandlerSafety == Spec => []HandlerDataAlive
  <1>1. FlipInv => HandlerDataAlive
    BY DEF FlipInv, TypeOK, DataOK, ResourceInv, HandlerDataAlive, Allocations
  <1>2. QED
    BY <1>1, Invariance, PTL

\* The clean-up leaves no framebuffer behind and the CRTC off.
THEOREM CleanUp == Spec => []TeardownComplete
  <1>1. FlipInv => TeardownComplete
    BY DEF FlipInv, ResourceInv, TeardownComplete
  <1>2. QED
    BY <1>1, Invariance, PTL

\* While no commit can be refused, epoll_wait is entered with one flip underway.
THEOREM Chain == Spec => []ChainAlive
  <1>1. FlipInv => ChainAlive
    BY DEF FlipInv, TypeOK, DataOK, TokenInv, ChainInv, ChainAlive, FlipsInFlight
  <1>2. QED
    BY <1>1, Invariance, PTL

-----------------------------------------------------------------------------
(* The loop implements FramePipeline.                                      *)

\* Every step draws a frame, shows a frame, or leaves the pipeline alone.
LEMMA PipelineStep ==
  ASSUME FlipInv, [Next]_vars
  PROVE  [Pipeline!Next]_(Pipeline!pipeline)
  <1> USE DEF FlipInv, TypeOK, DataOK, DrawOK, TokenInv, BufferInv, Pipeline!Next,
        Pipeline!pipeline, Pipeline!Draw, Pipeline!Show, NextFrame, Pipeline!NextFrame,
        vars, appVars, libVars, kernelVars, drawVars
  <1>1. CASE ModeSet
    BY <1>1 DEF ModeSet, IsLast, ResourceInv
  <1>2. CASE AllocRequest
    BY <1>2 DEF AllocRequest, Prepare, CapAt, Allocations
  <1>3. CASE TestCommit
    BY <1>3 DEF TestCommit, FreeRequest
  <1>4. CASE FirstCommit
    BY <1>4 DEF FirstCommit, StartEvents, FreeRequest
  <1>5. CASE Setup
    BY <1>5 DEF Setup
  <1>6. CASE LoopTest
    BY <1>6 DEF LoopTest
  <1>7. CASE EpollReturn
    BY <1>7 DEF EpollReturn, Readable
  <1>8. CASE BatchDone
    BY <1>8 DEF BatchDone
  <1>9. CASE HandleInput
    <2>1. UNCHANGED <<frame, turn, front>>
      BY <1>9 DEF HandleInput
    <2>2. QED
      BY <2>1
  <1>10. CASE HandleDrmEvent
    BY <1>10 DEF HandleDrmEvent
  <1>11. CASE RenderBegin
    BY <1>11 DEF RenderBegin, NextBuffer
  <1>12. CASE WriteBuffer
    BY <1>12 DEF WriteBuffer, RenderReturns, NextFrame, StopFlag, Fails, UncheckedCalls
  <1>13. CASE RecordDrawCommands
    BY <1>13 DEF RecordDrawCommands, Uint32At, BytesAbove, Fails, UncheckedCalls
  <1>14. CASE UpdateUniformBuffer
    BY <1>14 DEF UpdateUniformBuffer, Fails, UncheckedCalls
  <1>15. CASE QueueSubmit
    BY <1>15 DEF QueueSubmit, Fails, UncheckedCalls
  <1>16. CASE WaitSemaphores
    BY <1>16 DEF WaitSemaphores, RenderReturns, NextFrame, StopFlag
  <1>17. CASE WaitFails
    BY <1>17 DEF WaitFails, RenderReturns, NextFrame, StopFlag, Fails, UncheckedCalls
  <1>18. CASE GpuFinishes
    BY <1>18 DEF GpuFinishes, GpuDone
  <1>19. CASE CommitFlip
    BY <1>19 DEF CommitFlip, Prepare, CapAt
  <1>20. CASE DestroyBuffer
    BY <1>20 DEF DestroyBuffer, IsLast, PlaneFb
  <1>21. CASE DestroyRequest
    BY <1>21 DEF DestroyRequest, FreeRequest
  <1>22. CASE CloseNode
    BY <1>22 DEF CloseNode
  <1>23. CASE VBlank
    BY <1>23 DEF VBlank
  <1>24. CASE VtSwitch
    BY <1>24 DEF VtSwitch
  <1>25. CASE InputArrives
    BY <1>25 DEF InputArrives
  <1>26. CASE Signal
    BY <1>26 DEF Signal
  <1>27. CASE UNCHANGED vars
    BY <1>27
  <1>28. QED
    BY <1>1, <1>2, <1>3, <1>4, <1>5, <1>6, <1>7, <1>8, <1>9, <1>10,
       <1>11, <1>12, <1>13, <1>14, <1>15, <1>16, <1>17, <1>18, <1>19, <1>20, <1>21, <1>22, <1>23, <1>24, <1>25, <1>26, <1>27
       DEF Next, Program, Start, Loop, Handler, Renderer, Teardown

\* Frames reach the screen in order, none skipped, each before the next is drawn.
THEOREM Refinement == Spec => ShownInOrder
  <1>1. Init => Pipeline!Init
    BY DEF Init, Pipeline!Init
  <1>2. FlipInv /\ [Next]_vars => [Pipeline!Next]_(Pipeline!pipeline)
    BY PipelineStep
  <1>3. QED
    BY <1>1, <1>2, Invariance, PTL DEF Spec, ShownInOrder, Pipeline!Spec

-----------------------------------------------------------------------------
(* What the liveness properties rest on, when no commit can be refused:    *)
(* the program never sleeps with nothing on its way, and what is left      *)
(* until the next frame, or until main() returns, gets less.               *)

Steady == ~VtMaySwitch /\ ~DriverMayReject

Flip == IF pending = NoFb THEN 0 ELSE 1
Busy == IF "input" \in batch THEN 1 ELSE 0

\* Steps of the loop until a page-flip event that is queued reaches the handler.
ToHandler ==
  CASE pc = "batch" /\ "kms" \in batch -> 1 + Busy
    [] pc = "wait" -> 3
    [] pc = "loop" -> 4
    [] OTHER -> 5 + Busy

\* Steps until the next frame is on the screen, the last of them the vertical blank.
FrameLeft ==
  CASE pending # NoFb -> 1
    [] pending = NoFb /\ pc = "commit" -> 2
    [] pending = NoFb /\ pc \in {"write", "sync", "stuck"} -> 3
    [] pending = NoFb /\ pc = "submit" -> 4
    [] pending = NoFb /\ pc = "update" -> 5
    [] pending = NoFb /\ pc = "record" -> 6
    [] pending = NoFb /\ pc = "render" -> 7
    [] OTHER -> 7 + ToHandler

\* Steps until the program ends once the signal flag is cleared: the flag is copied by
\* the renderer, which needs a page-flip event to be called.
StepsLeft ==
  CASE pc \in Ended -> 0
    [] pc = "close" -> 1 + Flip
    [] pc = "free" -> 2 + Flip
    [] pc = "exit" -> 3 + (BufferCount - index) + Flip
    [] pc = "loop" /\ ~running -> 4 + BufferCount + Flip
    [] pc = "batch" /\ ~running -> 5 + BufferCount + Flip + Busy
    [] pc = "commit" /\ ~running -> 8 + BufferCount
    [] pc \in {"write", "sync", "stuck"} -> 9 + BufferCount
    [] pc = "submit" -> 10 + BufferCount
    [] pc = "update" -> 11 + BufferCount
    [] pc = "record" -> 12 + BufferCount
    [] pc = "render" -> 13 + BufferCount
    [] pc \in InLoop /\ running /\ pending = NoFb -> 13 + BufferCount + ToHandler
    [] pc \in InLoop /\ running /\ pending # NoFb -> 20 + BufferCount
    [] pc = "commit" /\ running -> 21 + BufferCount
    [] pc = "setup" -> 22 + BufferCount + Flip
    [] pc = "commit0" -> 24 + BufferCount
    [] pc = "test" -> 25 + BufferCount
    [] pc = "alloc" -> 26 + BufferCount
    [] OTHER -> 26 + BufferCount + (BufferCount - index)

\* epoll_wait sleeps only while a vertical blank is due; the renderer waits for a
\* semaphore nobody will signal only after a submission that failed.
SleepsForVBlank ==
  /\ Steady /\ pc = "wait" /\ Readable = {} => pending # NoFb
  /\ pc = "stuck" => "submit" \in failed

\* The loop turns for the keyboard while the flip is underway.
Turns == Program /\ pc \in InLoop /\ pending # NoFb

FrameNearer ==
  [][Steady /\ pc \in InLoop \cup InHandler =>
       \/ turn[front]' # turn[front]
       \/ pc' \in Leaving \cup {"crashed"}
       \/ FrameLeft' < FrameLeft
       \/ FrameLeft' = FrameLeft
          /\ (Turns \/ InputArrives \/ Signal \/ GpuFinishes)]_vars

EndNearer ==
  [][Steady /\ ~prun =>
       \/ StepsLeft' < StepsLeft
       \/ StepsLeft' = StepsLeft
          /\ ((Turns /\ running) \/ InputArrives \/ Signal \/ GpuFinishes)]_vars

\* The renderer clears the flag the loop looks at; no event is handled after that, and no
\* flip is underway on a node that is closed.
RunInv ==
  /\ ~running =>
       /\ pc \in {"commit", "batch", "loop"} \cup Leaving
       /\ pc = "batch" => "kms" \notin batch
  /\ pc \in Ended => pending = NoFb

LEMMA RunInvStep ==
  ASSUME DataOK, FlagsOK, TokenInv, RunInv, [Next]_vars
  PROVE  RunInv'
  <1> USE DEF DataOK, FlagsOK, TokenInv, RunInv, vars, appVars, libVars, kernelVars, drawVars
  <1>1. CASE ModeSet
    BY <1>1 DEF ModeSet, IsLast
  <1>2. CASE AllocRequest
    BY <1>2 DEF AllocRequest, Prepare, CapAt, Allocations
  <1>3. CASE TestCommit
    BY <1>3 DEF TestCommit, FreeRequest
  <1>4. CASE FirstCommit
    BY <1>4 DEF FirstCommit, StartEvents, FreeRequest
  <1>5. CASE Setup
    BY <1>5 DEF Setup
  <1>6. CASE LoopTest
    BY <1>6 DEF LoopTest
  <1>7. CASE EpollReturn
    BY <1>7 DEF EpollReturn, Readable
  <1>8. CASE BatchDone
    BY <1>8 DEF BatchDone
  <1>9. CASE HandleInput
    <2>1. pc' \in {"exit", "batch"} /\ running' = running /\ batch' \subseteq batch /\ pc = "batch"
      BY <1>9 DEF HandleInput
    <2>2. QED
      BY <2>1
  <1>10. CASE HandleDrmEvent
    BY <1>10 DEF HandleDrmEvent
  <1>11. CASE RenderBegin
    BY <1>11 DEF RenderBegin, NextBuffer
  <1>12. CASE WriteBuffer
    BY <1>12 DEF WriteBuffer, RenderReturns, NextFrame, StopFlag, Fails, UncheckedCalls
  <1>13. CASE RecordDrawCommands
    BY <1>13 DEF RecordDrawCommands, Uint32At, BytesAbove, Fails, UncheckedCalls
  <1>14. CASE UpdateUniformBuffer
    BY <1>14 DEF UpdateUniformBuffer, Fails, UncheckedCalls
  <1>15. CASE QueueSubmit
    BY <1>15 DEF QueueSubmit, Fails, UncheckedCalls
  <1>16. CASE WaitSemaphores
    BY <1>16 DEF WaitSemaphores, RenderReturns, NextFrame, StopFlag
  <1>17. CASE WaitFails
    BY <1>17 DEF WaitFails, RenderReturns, NextFrame, StopFlag, Fails, UncheckedCalls
  <1>18. CASE GpuFinishes
    BY <1>18 DEF GpuFinishes, GpuDone
  <1>19. CASE CommitFlip
    BY <1>19 DEF CommitFlip, Prepare, CapAt
  <1>20. CASE DestroyBuffer
    BY <1>20 DEF DestroyBuffer, IsLast, PlaneFb
  <1>21. CASE DestroyRequest
    BY <1>21 DEF DestroyRequest, FreeRequest
  <1>22. CASE CloseNode
    BY <1>22 DEF CloseNode
  <1>23. CASE VBlank
    BY <1>23 DEF VBlank
  <1>24. CASE VtSwitch
    BY <1>24 DEF VtSwitch
  <1>25. CASE InputArrives
    BY <1>25 DEF InputArrives
  <1>26. CASE Signal
    BY <1>26 DEF Signal
  <1>27. CASE UNCHANGED vars
    BY <1>27
  <1>28. QED
    BY <1>1, <1>2, <1>3, <1>4, <1>5, <1>6, <1>7, <1>8, <1>9, <1>10, <1>11, <1>12, <1>13, <1>14, <1>15, <1>16, <1>17, <1>18,
       <1>19, <1>20, <1>21, <1>22, <1>23, <1>24, <1>25, <1>26, <1>27
       DEF Next, Program, Start, Loop, Handler, Renderer, Teardown

LEMMA EndStep ==
  ASSUME FlipInv, RunInv, Steady, ~prun, Next
  PROVE  \/ StepsLeft' < StepsLeft
         \/ StepsLeft' = StepsLeft
            /\ ((Turns /\ running) \/ InputArrives \/ Signal \/ GpuFinishes)
  <1> USE DEF FlipInv, TypeOK, DataOK, FlagsOK, TokenInv, RunInv, ChainInv, ResourceInv, DrawInv,
        Steady, Accepts, Refuses, vars, appVars, libVars, kernelVars, drawVars
  <1>1. CASE ModeSet
    <2>1. /\ pc = "modeset" /\ index \in 0 .. BufferCount - 1
          /\ \/ pc' = "alloc"
             \/ pc' = "modeset" /\ index' = index + 1
      BY <1>1 DEF ModeSet
    <2>2. StepsLeft = 26 + BufferCount + (BufferCount - index)
      BY <2>1 DEF StepsLeft
    <2>3. \/ StepsLeft' = 26 + BufferCount
          \/ StepsLeft' = 26 + BufferCount + (BufferCount - (index + 1))
      BY <2>1 DEF StepsLeft
    <2>4. QED
      BY <2>1, <2>2, <2>3
  <1>2. CASE AllocRequest
    <2>1. /\ pc = "alloc" /\ index' = 0 /\ pending' = pending
          /\ pc' \in {"test", "exit"}
      BY <1>2 DEF AllocRequest, Prepare, CapAt, Allocations
    <2>2. StepsLeft = 26 + BufferCount
      BY <2>1 DEF StepsLeft, InLoop
    <2>3. BufferCount \in Nat
      BY PageFlipAssumption
    <2>4. StepsLeft' \in {25 + BufferCount, 4 + BufferCount, 3 + BufferCount}
      <3>1. CASE pc' = "test"
        BY <3>1 DEF StepsLeft, InLoop
      <3>2. CASE pc' = "exit"
        <4>1. StepsLeft' = 3 + (BufferCount - index') + Flip'
          BY <3>2 DEF StepsLeft
        <4>2. Flip' \in {0, 1}
          BY DEF Flip
        <4>3. \A f \in {0, 1} : 3 + (BufferCount - 0) + f \in {4 + BufferCount, 3 + BufferCount}
          BY <2>3
        <4>4. QED
          BY <2>1, <4>1, <4>2, <4>3, Zenon
      <3>3. QED
        BY <2>1, <3>1, <3>2
    <2>5. StepsLeft' < StepsLeft
      BY ONLY <2>2, <2>3, <2>4
    <2>6. QED
      BY <2>5
  <1>3. CASE TestCommit
    BY <1>3 DEF TestCommit, FreeRequest, StepsLeft, Flip, Busy, ToHandler
  <1>4. CASE FirstCommit
    BY <1>4 DEF FirstCommit, StartEvents, FreeRequest, StepsLeft, Flip, Busy, ToHandler
  <1>5. CASE Setup
    <2>1. /\ pc = "setup" /\ pc' \in {"loop", "exit"} /\ running /\ index = 0
          /\ UNCHANGED <<running, index, pending>>
      BY <1>5 DEF Setup
    <2>2. Flip \in {0, 1} /\ (pending = NoFb => Flip = 0) /\ Flip' = Flip
      BY <2>1 DEF Flip
    <2>3. StepsLeft = 22 + BufferCount + Flip
      BY <2>1 DEF StepsLeft
    <2>4. \/ StepsLeft' = 3 + (BufferCount - 0) + Flip
          \/ StepsLeft' = 13 + BufferCount + 4
          \/ StepsLeft' = 20 + BufferCount
      BY <2>1, <2>2 DEF StepsLeft, ToHandler
    <2>5. QED
      BY <2>2, <2>3, <2>4
  <1>6. CASE LoopTest
    <2>1. /\ pc = "loop" /\ pc' = IF running THEN "wait" ELSE "exit"
          /\ index = 0 /\ UNCHANGED <<running, index, pending>>
      BY <1>6 DEF LoopTest
    <2>2. Flip \in {0, 1} /\ Flip' = Flip
      BY <2>1 DEF Flip
    <2>3. CASE ~running
      <3>1. StepsLeft = 4 + BufferCount + Flip /\ StepsLeft' = 3 + (BufferCount - 0) + Flip
        BY <2>1, <2>2, <2>3 DEF StepsLeft
      <3>2. QED
        BY <2>2, <3>1
    <2>4. CASE running /\ pending = NoFb
      <3>1. StepsLeft = 13 + BufferCount + 4 /\ StepsLeft' = 13 + BufferCount + 3
        BY <2>1, <2>4 DEF StepsLeft, ToHandler
      <3>2. QED
        BY <3>1
    <2>5. CASE running /\ pending # NoFb
      <3>1. StepsLeft' = StepsLeft
        BY <2>1, <2>5 DEF StepsLeft
      <3>2. Turns
        BY <1>6, <2>1, <2>5 DEF Turns, Program, Loop
      <3>3. QED
        BY <2>5, <3>1, <3>2
    <2>6. QED
      BY <2>3, <2>4, <2>5
  <1>7. CASE EpollReturn
    <2>1. /\ pc = "wait" /\ pc' = "batch" /\ batch' = Readable
          /\ running /\ UNCHANGED <<running, index, pending>>
      BY <1>7 DEF EpollReturn
    <2>2. CASE pending = NoFb
      <3>1. "kms" \in batch'
        BY <2>1, <2>2 DEF Readable
      <3>2. Busy' \in {0, 1}
        BY DEF Busy
      <3>3. StepsLeft = 13 + BufferCount + 3 /\ StepsLeft' \in {13 + BufferCount + (1 + 0), 13 + BufferCount + (1 + 1)}
        BY <2>1, <2>2, <3>1, <3>2 DEF StepsLeft, ToHandler
      <3>4. QED
        BY <3>3
    <2>3. CASE pending # NoFb
      <3>1. StepsLeft' = StepsLeft
        BY <2>1, <2>3 DEF StepsLeft
      <3>2. Turns
        BY <1>7, <2>1, <2>3 DEF Turns, Program, Loop
      <3>3. QED
        BY <2>1, <3>1, <3>2
    <2>4. QED
      BY <2>2, <2>3
  <1>8. CASE BatchDone
    <2>1. /\ pc = "batch" /\ pc' = "loop" /\ batch = {} /\ Busy = 0
          /\ UNCHANGED <<running, index, pending>>
      BY <1>8 DEF BatchDone, Busy
    <2>2. Flip \in {0, 1} /\ Flip' = Flip
      BY <2>1 DEF Flip
    <2>3. CASE ~running
      <3>1. StepsLeft = 5 + BufferCount + Flip + 0 /\ StepsLeft' = 4 + BufferCount + Flip
        BY <2>1, <2>2, <2>3 DEF StepsLeft
      <3>2. QED
        BY <2>2, <3>1
    <2>4. CASE running /\ pending = NoFb
      <3>1. StepsLeft = 13 + BufferCount + (5 + 0) /\ StepsLeft' = 13 + BufferCount + 4
        BY <2>1, <2>4 DEF StepsLeft, ToHandler
      <3>2. QED
        BY <3>1
    <2>5. CASE running /\ pending # NoFb
      <3>1. StepsLeft' = StepsLeft
        BY <2>1, <2>5 DEF StepsLeft
      <3>2. Turns
        BY <1>8, <2>1, <2>5 DEF Turns, Program, Loop
      <3>3. QED
        BY <2>5, <3>1, <3>2
    <2>6. QED
      BY <2>3, <2>4, <2>5
  <1>9. CASE HandleInput
    <2>1. pc' \in {"exit", "batch"}
      BY <1>9 DEF HandleInput
    <2>2. /\ pc = "batch" /\ "input" \in batch /\ batch' = batch \ {"input"} /\ index = 0
          /\ UNCHANGED <<running, index, pending>>
      BY <1>9 DEF HandleInput
    <2>3. /\ "kms" \in batch' <=> "kms" \in batch
          /\ Busy = 1 /\ Busy' = 0 /\ Flip \in {0, 1} /\ Flip' = Flip
          /\ pending = NoFb => Flip = 0
      BY <2>2 DEF Busy, Flip
    <2>4. CASE pc' = "exit"
      <3>1. StepsLeft' = 3 + (BufferCount - 0) + Flip
        BY <2>2, <2>3, <2>4 DEF StepsLeft
      <3>2. \/ StepsLeft = 5 + BufferCount + Flip + 1
            \/ StepsLeft \in {13 + BufferCount + (1 + 1), 13 + BufferCount + (5 + 1)}
            \/ StepsLeft = 20 + BufferCount
        BY <2>2, <2>3 DEF StepsLeft, ToHandler
      <3>3. QED
        BY <2>3, <3>1, <3>2
    <2>5. CASE pc' = "batch" /\ ~running
      <3>1. StepsLeft = 5 + BufferCount + Flip + 1 /\ StepsLeft' = 5 + BufferCount + Flip + 0
        BY <2>2, <2>3, <2>5 DEF StepsLeft
      <3>2. QED
        BY <2>3, <3>1
    <2>6. CASE pc' = "batch" /\ running /\ pending = NoFb
      <3>1. \/ StepsLeft = 13 + BufferCount + (1 + 1) /\ StepsLeft' = 13 + BufferCount + (1 + 0)
            \/ StepsLeft = 13 + BufferCount + (5 + 1) /\ StepsLeft' = 13 + BufferCount + (5 + 0)
        BY <2>2, <2>3, <2>6 DEF StepsLeft, ToHandler
      <3>2. QED
        BY <3>1
    <2>7. CASE pc' = "batch" /\ running /\ pending # NoFb
      <3>1. StepsLeft' = StepsLeft
        BY <2>2, <2>7 DEF StepsLeft
      <3>2. Turns
        BY <1>9, <2>2, <2>7 DEF Turns, Program, Loop
      <3>3. QED
        BY <2>7, <3>1, <3>2
    <2>8. QED
      BY <2>1, <2>4, <2>5, <2>6, <2>7
  <1>10. CASE HandleDrmEvent
    BY <1>10 DEF HandleDrmEvent, StepsLeft, Flip, Busy, ToHandler
  <1>11. CASE RenderBegin
    BY <1>11 DEF RenderBegin, NextBuffer, StepsLeft, Flip, Busy, ToHandler
  <1>12. CASE WriteBuffer
    BY <1>12 DEF WriteBuffer, RenderReturns, NextFrame, StopFlag, Fails, UncheckedCalls, StepsLeft, Flip, Busy, ToHandler
  <1>13. CASE RecordDrawCommands
    BY <1>13 DEF RecordDrawCommands, Uint32At, BytesAbove, Fails, UncheckedCalls, StepsLeft, Flip, Busy, ToHandler
  <1>14. CASE UpdateUniformBuffer
    <2>1. pc = "update" /\ pc' \in {"submit", "crashed"}
      BY <1>14 DEF UpdateUniformBuffer
    <2>2. StepsLeft = 11 + BufferCount
      BY <2>1 DEF StepsLeft
    <2>3. StepsLeft' \in {10 + BufferCount, 0}
      BY <2>1 DEF StepsLeft
    <2>4. QED
      BY <2>2, <2>3
  <1>15. CASE QueueSubmit
    BY <1>15 DEF QueueSubmit, Fails, UncheckedCalls, StepsLeft, Flip, Busy, ToHandler
  <1>16. CASE WaitSemaphores
    BY <1>16 DEF WaitSemaphores, RenderReturns, NextFrame, StopFlag, StepsLeft, Flip, Busy, ToHandler
  <1>17. CASE WaitFails
    BY <1>17 DEF WaitFails, RenderReturns, NextFrame, StopFlag, Fails, UncheckedCalls, StepsLeft, Flip, Busy, ToHandler
  <1>18. CASE GpuFinishes
    BY <1>18 DEF GpuFinishes, GpuDone, StepsLeft, Flip, Busy, ToHandler
  <1>19. CASE CommitFlip
    <2>1. /\ pc = "commit" /\ pc' = "batch" /\ UNCHANGED <<running, batch>>
          /\ pending = NoFb /\ "kms" \notin batch
      BY <1>19 DEF CommitFlip
    <2>2. pending' # NoFb
      BY <1>19, <2>1 DEF CommitFlip, Prepare, BufferInv
    <2>3. Flip' = 1 /\ Busy' \in {0, 1}
      BY <2>2 DEF Flip, Busy
    <2>4. CASE running
      <3>1. StepsLeft = 21 + BufferCount /\ StepsLeft' = 20 + BufferCount
        BY <2>1, <2>2, <2>4 DEF StepsLeft
      <3>2. QED
        BY <3>1
    <2>5. CASE ~running
      <3>1. StepsLeft = 8 + BufferCount
            /\ StepsLeft' \in {5 + BufferCount + 1 + 0, 5 + BufferCount + 1 + 1}
        BY <2>1, <2>3, <2>5 DEF StepsLeft
      <3>2. QED
        BY <3>1
    <2>6. QED
      BY <2>4, <2>5
  <1>20. CASE DestroyBuffer
    <2>1. /\ pc = "exit" /\ index \in 0 .. BufferCount - 1 /\ pending' = pending
          /\ \/ pc' = "free"
             \/ pc' = "exit" /\ index' = index + 1
      BY <1>20 DEF DestroyBuffer
    <2>2. Flip \in {0, 1} /\ Flip' = Flip
      BY <2>1 DEF Flip
    <2>3. StepsLeft = 3 + (BufferCount - index) + Flip
      BY <2>1 DEF StepsLeft
    <2>4. \/ StepsLeft' = 2 + Flip
          \/ StepsLeft' = 3 + (BufferCount - (index + 1)) + Flip
      BY <2>1, <2>2 DEF StepsLeft
    <2>5. QED
      BY <2>1, <2>2, <2>3, <2>4
  <1>21. CASE DestroyRequest
    BY <1>21 DEF DestroyRequest, FreeRequest, StepsLeft, Flip, Busy, ToHandler
  <1>22. CASE CloseNode
    BY <1>22 DEF CloseNode, StepsLeft, Flip, Busy, ToHandler
  <1>23. CASE VBlank
    <2>1. /\ pending # NoFb /\ pending' = NoFb /\ UNCHANGED <<pc, index, running, batch>>
          /\ Flip = 1 /\ Flip' = 0 /\ Busy' = Busy /\ Busy \in {0, 1}
      BY <1>23 DEF VBlank, Flip, Busy
    <2>2. pc \in {"close", "free", "exit", "loop", "batch", "wait", "setup"} /\ index \in Nat
      BY <2>1
    <2>3. CASE pc \in {"close", "free", "setup"}
      <3>1. \/ StepsLeft = 1 + 1 /\ StepsLeft' = 1 + 0
            \/ StepsLeft = 2 + 1 /\ StepsLeft' = 2 + 0
            \/ StepsLeft = 22 + BufferCount + 1 /\ StepsLeft' = 22 + BufferCount + 0
        BY <2>1, <2>3 DEF StepsLeft
      <3>2. QED
        BY <3>1
    <2>4. CASE pc = "exit"
      <3>1. /\ StepsLeft = 3 + (BufferCount - index) + 1
            /\ StepsLeft' = 3 + (BufferCount - index) + 0
        BY <2>1, <2>4 DEF StepsLeft
      <3>2. QED
        BY <2>2, <3>1
    <2>5. CASE pc \in InLoop /\ running
      <3>1. StepsLeft = 20 + BufferCount
            /\ \/ StepsLeft' \in {13 + BufferCount + 3, 13 + BufferCount + 4}
               \/ StepsLeft' \in {13 + BufferCount + (1 + 0), 13 + BufferCount + (1 + 1),
                                 13 + BufferCount + (5 + 0), 13 + BufferCount + (5 + 1)}
        BY <2>1, <2>5 DEF StepsLeft, ToHandler
      <3>2. QED
        BY <3>1
    <2>6. CASE pc \in InLoop /\ ~running
      <3>1. \/ StepsLeft = 4 + BufferCount + 1 /\ StepsLeft' = 4 + BufferCount + 0
            \/ StepsLeft = 5 + BufferCount + 1 + Busy /\ StepsLeft' = 5 + BufferCount + 0 + Busy
        BY <2>1, <2>6 DEF StepsLeft
      <3>2. QED
        BY <2>1, <3>1
    <2>7. QED
      BY <2>2, <2>3, <2>4, <2>5, <2>6
  <1>24. CASE VtSwitch
    BY <1>24 DEF VtSwitch, StepsLeft, Flip, Busy, ToHandler
  <1>25. CASE InputArrives
    BY <1>25 DEF InputArrives, StepsLeft, Flip, Busy, ToHandler
  <1>26. CASE Signal
    <2>1. UNCHANGED <<index, running, batch, pending>> /\ pc' = IF pc = "wait" THEN "exit" ELSE pc
      BY <1>26 DEF Signal
    <2>2. Flip \in {0, 1} /\ Flip' = Flip /\ Busy' = Busy /\ (pending = NoFb => Flip = 0)
      BY <2>1 DEF Flip, Busy
    <2>3. CASE pc = "wait"
      <3>1. index = 0 /\ running
        BY <2>3
      <3>2. StepsLeft' = 3 + (BufferCount - 0) + Flip
        BY <2>1, <2>2, <2>3, <3>1 DEF StepsLeft
      <3>3. StepsLeft \in {13 + BufferCount + 3, 20 + BufferCount}
        BY <2>3, <3>1 DEF StepsLeft, ToHandler
      <3>4. QED
        BY <2>2, <3>2, <3>3
    <2>4. CASE pc # "wait"
      <3>1. pc' = pc
        BY <2>1, <2>4
      <3>2. ToHandler' = ToHandler
        BY <2>1, <2>2, <3>1 DEF ToHandler
      <3>3. StepsLeft' = StepsLeft
        BY <2>1, <2>2, <3>1, <3>2 DEF StepsLeft
      <3>4. QED
        BY <1>26, <3>3
    <2>5. QED
      BY <2>3, <2>4
  <1>27. QED
    BY <1>1, <1>2, <1>3, <1>4, <1>5, <1>6, <1>7, <1>8, <1>9, <1>10, <1>11, <1>12, <1>13, <1>14, <1>15, <1>16, <1>17, <1>18,
       <1>19, <1>20, <1>21, <1>22, <1>23, <1>24, <1>25, <1>26
       DEF Next, Program, Start, Loop, Handler, Renderer, Teardown

\* What is queued for the handler reaches it, whatever else the turns of the loop handle.
LEMMA FrameStep ==
  ASSUME FlipInv, Steady, pc \in InLoop \cup InHandler, pc' \notin Leaving \cup {"crashed"},
         Next
  PROVE  \/ turn[front]' # turn[front]
         \/ FrameLeft' < FrameLeft
         \/ FrameLeft' = FrameLeft /\ (Turns \/ InputArrives \/ Signal \/ GpuFinishes)
  <1> USE DEF FlipInv, TypeOK, DataOK, DrawOK, FlagsOK, TokenInv, ChainInv, ResourceInv, DrawInv, BufferInv,
        Steady, Accepts, Refuses, vars, appVars, libVars, kernelVars, drawVars
  <1>1. CASE Start \/ Teardown \/ VtSwitch
    BY <1>1 DEF Start, Teardown, ModeSet, AllocRequest, TestCommit, FirstCommit, Setup,
       DestroyBuffer, DestroyRequest, CloseNode, VtSwitch
  <1>2. CASE pending # NoFb /\ (Loop \/ Handler)
    <2>1. pc \in InLoop
      BY <1>2
    <2>2. pending' # NoFb
      BY <1>2, <2>1 DEF Loop, Handler, Renderer, LoopTest, EpollReturn, BatchDone, HandleInput,
         HandleDrmEvent, RenderBegin, WriteBuffer, RecordDrawCommands, UpdateUniformBuffer,
         QueueSubmit, WaitSemaphores, CommitFlip
    <2>3. FrameLeft = 1 /\ FrameLeft' = 1
      BY <1>2, <2>2 DEF FrameLeft
    <2>4. QED
      BY <1>2, <2>1, <2>3 DEF Turns, Program
  <1>3. CASE pending = NoFb /\ LoopTest
    BY <1>3 DEF LoopTest, FrameLeft, ToHandler
  <1>4. CASE pending = NoFb /\ EpollReturn
    BY <1>4 DEF EpollReturn, Readable, FrameLeft, ToHandler, Busy
  <1>5. CASE pending = NoFb /\ BatchDone
    BY <1>5 DEF BatchDone, FrameLeft, ToHandler, Busy
  <1>6. CASE pending = NoFb /\ HandleInput
    <2>1. pc' = "batch"
      BY <1>6 DEF HandleInput
    <2>2. /\ pc = "batch" /\ "input" \in batch /\ batch' = batch \ {"input"} /\ pending' = pending
      BY <1>6 DEF HandleInput
    <2>3. ("kms" \in batch' <=> "kms" \in batch) /\ Busy = 1 /\ Busy' = 0
      BY <2>2 DEF Busy
    <2>4. \/ FrameLeft = 7 + (1 + 1) /\ FrameLeft' = 7 + (1 + 0)
          \/ FrameLeft = 7 + (5 + 1) /\ FrameLeft' = 7 + (5 + 0)
      BY <1>6, <2>1, <2>2, <2>3 DEF FrameLeft, ToHandler
    <2>5. QED
      BY <2>4
  <1>7. CASE pending = NoFb /\ HandleDrmEvent
    <2>1. pc = "batch" /\ "kms" \in batch /\ pc' = "render" /\ pending' = pending /\ Busy \in {0, 1}
      BY <1>7 DEF HandleDrmEvent, Busy
    <2>2. FrameLeft \in {7 + (1 + 0), 7 + (1 + 1)} /\ FrameLeft' = 7
      BY <1>7, <2>1 DEF FrameLeft, ToHandler
    <2>3. QED
      BY <2>2
  <1>8. CASE RenderBegin
    BY <1>8 DEF RenderBegin, FrameLeft
  <1>9. CASE WriteBuffer \/ RecordDrawCommands \/ UpdateUniformBuffer \/ QueueSubmit
           \/ WaitSemaphores \/ WaitFails
    <2>1. pending' = pending /\ pending = NoFb
      BY <1>9 DEF WriteBuffer, RecordDrawCommands, UpdateUniformBuffer, QueueSubmit,
         WaitSemaphores, WaitFails
    <2>2. \/ pc = "record" /\ pc' = "update"
          \/ pc = "update" /\ pc' = "submit"
          \/ pc = "submit" /\ pc' \in {"sync", "stuck"}
          \/ pc \in {"write", "sync", "stuck"} /\ pc' = "commit"
      BY <1>9 DEF WriteBuffer, RecordDrawCommands, UpdateUniformBuffer, QueueSubmit,
         WaitSemaphores, WaitFails, RenderReturns
    <2>3. FrameLeft' < FrameLeft
      BY ONLY <2>1, <2>2 DEF FrameLeft
    <2>4. QED
      BY <2>3
  <1>10. CASE CommitFlip
    BY <1>10 DEF CommitFlip, Prepare, FrameLeft
  <1>11. CASE VBlank
    <2>1. /\ front' = pending /\ turn' = turn /\ turn[pending] = frame
          /\ frame = NextFrame(turn[front]) /\ turn[front] \in Frames
      BY <1>11 DEF VBlank
    <2>2. NextFrame(turn[front]) # turn[front]
      BY <2>1 DEF NextFrame
    <2>3. QED
      BY <2>1, <2>2
  <1>12. CASE InputArrives \/ Signal \/ GpuFinishes
    <2>1. pc' = pc /\ UNCHANGED <<pending, batch>>
      BY <1>12 DEF InputArrives, Signal, GpuFinishes, GpuDone
    <2>2. FrameLeft' = FrameLeft
      BY <2>1 DEF FrameLeft, ToHandler, Busy
    <2>3. QED
      BY <1>12, <2>2
  <1>13. QED
    BY <1>1, <1>2, <1>3, <1>4, <1>5, <1>6, <1>7, <1>8, <1>9, <1>10, <1>11, <1>12
       DEF Next, Program, Loop, Handler, Renderer

LEMMA RunInvariant == Spec => []RunInv
  <1>1. Init => RunInv
    BY DEF Init, RunInv
  <1>2. FlipInv /\ RunInv /\ [Next]_vars => RunInv'
    BY RunInvStep DEF FlipInv, TypeOK
  <1>3. QED
    BY <1>1, <1>2, Invariance, PTL DEF Spec

\* While no commit can be refused, epoll_wait sleeps only with a flip underway: the
\* vertical blank wakes it.  The other wait that could be for ever, for the semaphore
\* in the renderer, is so only after a submission that failed.
THEOREM WokenByVBlank == Spec => []SleepsForVBlank
  <1>1. FlipInv => SleepsForVBlank
    BY DEF FlipInv, TypeOK, DataOK, ChainInv, DrawInv, Steady, SleepsForVBlank, Readable
  <1>2. QED
    BY <1>1, Invariance, PTL

\* While no commit can be refused, every step of the loop brings the next frame nearer to
\* the screen, until it is there, the loop is left or the program dies of a mapping that
\* failed: keys, signals and the GPU never set it back, nor do the turns of the loop
\* that handle keys while the flip is underway, which the vertical blank ends.  With
\* WokenByVBlank, by which the steps cease for good only in a wait for a submission that
\* failed, this is what FramesKeepComing needs of the code.
THEOREM NextFrameNears == Spec => FrameNearer /\ [](FrameLeft \in Nat)
  <1>1. FlipInv => FrameLeft \in Nat
    BY DEF FrameLeft, ToHandler, Busy
  <1>2. FlipInv /\ [Next]_vars =>
          [Steady /\ pc \in InLoop \cup InHandler =>
             \/ turn[front]' # turn[front]
             \/ pc' \in Leaving \cup {"crashed"}
             \/ FrameLeft' < FrameLeft
             \/ FrameLeft' = FrameLeft
                /\ (Turns \/ InputArrives \/ Signal \/ GpuFinishes)]_vars
    BY FrameStep
  <1>3. QED
    BY <1>1, <1>2, Invariance, PTL DEF Spec, FrameNearer

\* While no commit can be refused, and once a signal has cleared the flag, wherever main()
\* is: every step brings its end nearer, except that keys may keep the loop turning while
\* the flip is underway that the vertical blank will end.  With WokenByVBlank, by which
\* the steps cease for good only in a wait for a submission that failed, this is what
\* CtrlCStops needs of the code.
THEOREM EndNears == Spec => EndNearer /\ [](StepsLeft \in Nat)
  <1>1. FlipInv => StepsLeft \in Nat
    <2> SUFFICES ASSUME FlipInv PROVE StepsLeft \in Nat
      OBVIOUS
    <2>1. Flip \in {0, 1} /\ Busy \in {0, 1} /\ ToHandler \in Nat
      BY DEF Flip, Busy, ToHandler
    <2>2. pc \in {"modeset", "wait", "exit"} => BufferCount - index \in Nat
      BY PageFlipAssumption DEF FlipInv, ResourceInv, InLoop, Buffers
    <2>3. BufferCount \in Nat
      BY PageFlipAssumption
    <2>4. /\ pc \in Starting \cup InLoop \cup InHandler \cup Leaving \cup Ended
          /\ running \in BOOLEAN
      BY DEF FlipInv, TypeOK, FlagsOK, DataOK, Locations
    <2>5. CASE pc = "modeset"
      BY <2>2, <2>3, <2>5 DEF StepsLeft, InLoop
    <2>6. CASE pc \in Starting \ {"modeset"}
      BY <2>1, <2>3, <2>6 DEF StepsLeft, Starting, InLoop
    <2>7. CASE pc \in InLoop \cup InHandler
      <3>1. CASE pc \in InHandler
        BY <2>1, <2>3, <3>1 DEF StepsLeft, InLoop, InHandler
      <3>2. CASE pc \in InLoop /\ running
        BY <2>1, <2>3, <3>2 DEF StepsLeft, InLoop
      <3>3. CASE pc \in {"loop", "batch"} /\ ~running
        BY <2>1, <2>3, <3>3 DEF StepsLeft, InLoop
      <3>4. CASE pc = "wait" /\ ~running
        BY <2>2, <2>3, <3>4 DEF StepsLeft, InLoop
      <3>5. QED
        BY <2>4, <2>7, <3>1, <3>2, <3>3, <3>4 DEF InLoop
    <2>8. CASE pc \in Leaving \cup Ended
      BY <2>1, <2>2, <2>3, <2>8 DEF StepsLeft, Leaving, Ended
    <2>9. QED
      BY <2>4, <2>5, <2>6, <2>7, <2>8
  <1>2. FlipInv /\ RunInv /\ [Next]_vars =>
          [Steady /\ ~prun =>
             \/ StepsLeft' < StepsLeft
             \/ StepsLeft' = StepsLeft
                /\ ((Turns /\ running) \/ InputArrives \/ Signal \/ GpuFinishes)]_vars
    BY EndStep
  <1>3. QED
    BY <1>1, <1>2, Invariance, RunInvariant, PTL DEF Spec, EndNearer
=============================================================================
