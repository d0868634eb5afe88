--------------------------- MODULE XcbClient_proofs ---------------------------
(***************************************************************************)
(* Why one command buffer, one fence and two semaphores are enough for the *)
(* frames of an XCB program, for any number of images, and which calls may *)
(* fail.  The fence makes the frames take turns, as long as it is waited   *)
(* for and reset: the calls that do so must not fail unnoticed.            *)
(* A failure of vkAcquireNextImageKHR leaves a frame without the semaphore *)
(* its draw waits for; nothing can be said of the images from then on, and *)
(* nothing needs to be, as no draw ever starts again.                      *)
(* Unless one of these calls or vkQueueSubmit has failed, whatever the     *)
(* program waits for has its next step before it; and once it is asked to  *)
(* stop there are only so many steps left, whatever has failed.            *)
(***************************************************************************)
EXTENDS XcbClient, TLAPS

Ops == {"draw", "present", "discard"}
Presents == {k \in DOMAIN queue : queue[k].op # "draw"}
FramesTypeOK ==
  /\ index \in Images /\ recorded \in Images \cup {NoImage}
  /\ fence \in BOOLEAN /\ renderSem \in BOOLEAN /\ drawing \in BOOLEAN
  /\ imageSem \in {"unsignalled", "pending", "signalled"}
  /\ queue \in Seq([op : Ops, image : Images \cup {NoImage}])
  /\ owner \in [Images -> {"engine", "program", "waiting", "screen"}]
  /\ waiting \in Seq(Images)
  /\ \A k \in Presents : queue[k].image \in Images
  /\ drawing => queue # <<>> /\ queue[1].op = "draw"

Preparing == {"acquire", "record", "update", "reset"}

\* There is one draw at most in the queue, and none while the fence is
\* signalled or the next one is prepared.
FenceInv ==
  /\ fence \/ cpu \in Preparing \cup {"submit"} => Draws = {}
  /\ cpu \in Preparing => fence
  /\ cpu = "submit" => ~fence
  /\ \A j, k \in Draws : j = k

\* Whether the semaphores are signalled is told by the queue and the fence.
SemaphoreInv ==
  /\ drawing \/ (fence /\ cpu \notin {"record", "update", "reset", "crashed"})
       => imageSem = "unsignalled"
  /\ \A k \in Draws : IF cpu = "present" THEN k = Len(queue) ELSE k < Len(queue)
  /\ renderSem /\ queue = <<>> => cpu = "present" /\ fence
  /\ renderSem /\ queue # <<>> =>
       /\ queue[1].op # "draw"
       /\ imageSem # "unsignalled" => queue[1].image # index
  /\ cpu = "present" /\ fence => queue = <<>>

\* A frame was drawn, is being drawn or can be drawn.
Alive == fence \/ drawing \/ imageSem # "unsignalled"

\* The images in the queue and the one in use are the program's own.
ImageInv ==
  /\ "record" \notin failed =>
       /\ cpu \in {"update", "reset", "submit"} => recorded = index
       /\ \A k \in Draws : queue[k].image = index
  /\ Alive =>
       /\ \A k \in Presents : owner[queue[k].image] = "program"
       /\ \A j, k \in Presents : queue[j].image = queue[k].image => j = k
       /\ \A k \in DOMAIN waiting : owner[waiting[k]] = "waiting"
       /\ \A j, k \in DOMAIN waiting : waiting[j] = waiting[k] => j = k
       /\ imageSem # "unsignalled" \/ drawing \/ (cpu = "present" /\ fence)
            => owner[index] = "program"
       /\ cpu \in {"record", "update", "reset", "submit", "present"}
            /\ (imageSem # "unsignalled" \/ drawing)
            => \A k \in Presents : queue[k].image # index

\* While the fence is kept, the frames take turns.
TurnsInv == FramesTypeOK /\ FenceInv /\ SemaphoreInv /\ ImageInv
FramesInv == FramesTypeOK /\ (FenceKept => TurnsInv)

-----------------------------------------------------------------------------
(* Sequences.                                                              *)

LEMMA AppendFacts ==
  ASSUME NEW S, NEW s \in Seq(S), NEW e \in S
  PROVE  /\ Append(s, e) \in Seq(S) /\ Append(s, e) # <<>>
         /\ Len(s) \in Nat /\ Len(Append(s, e)) = Len(s) + 1
         /\ DOMAIN s = 1 .. Len(s) /\ DOMAIN Append(s, e) = 1 .. Len(s) + 1
         /\ \A k \in 1 .. Len(s) : Append(s, e)[k] = s[k]
         /\ Append(s, e)[Len(s) + 1] = e
  OBVIOUS

LEMMA EmptyFacts ==
  ASSUME NEW S, NEW s \in Seq(S)
  PROVE  s = <<>> <=> Len(s) = 0
  OBVIOUS

LEMMA TailFacts ==
  ASSUME NEW S, NEW s \in Seq(S), s # <<>>
  PROVE  /\ Tail(s) \in Seq(S)
         /\ Len(s) \in Nat /\ Len(s) > 0 /\ Len(Tail(s)) = Len(s) - 1
         /\ DOMAIN s = 1 .. Len(s) /\ DOMAIN Tail(s) = 1 .. Len(s) - 1
         /\ \A k \in 1 .. Len(s) - 1 : Tail(s)[k] = s[k + 1]
         /\ Head(s) = s[1] /\ s[1] \in S
         /\ Tail(s) = <<>> <=> Len(s) = 1
  <1>1. Tail(s) \in Seq(S) /\ Len(Tail(s)) = Len(s) - 1 /\ Len(s) \in Nat
    OBVIOUS
  <1>2. Tail(s) = <<>> <=> Len(Tail(s)) = 0
    BY <1>1, EmptyFacts
  <1>3. QED
    BY <1>1, <1>2

LEMMA SubSeqFacts ==
  ASSUME NEW S, NEW s \in Seq(S), NEW n \in 1 .. Len(s)
  PROVE  /\ SubSeq(s, n + 1, Len(s)) \in Seq(S)
         /\ DOMAIN s = 1 .. Len(s) /\ Len(s) \in Nat
         /\ DOMAIN SubSeq(s, n + 1, Len(s)) = 1 .. Len(s) - n
         /\ \A k \in 1 .. Len(s) - n : SubSeq(s, n + 1, Len(s))[k] = s[k + n]
  OBVIOUS

-----------------------------------------------------------------------------
(* What holds whatever has failed: the state has its type, and only a draw *)
(* is being executed.                                                      *)

LEMMA LowByteFact ==
  ASSUME NEW i \in Images
  PROVE  LowByte(i) = i
  BY SwapchainAssumption DEF LowByte, Images

LEMMA TypeQuiet ==
  ASSUME FramesTypeOK, UNCHANGED <<queue, waiting>>,
         index' \in Images, recorded' \in Images \cup {NoImage},
         fence' \in BOOLEAN, renderSem' \in BOOLEAN,
         drawing' \in BOOLEAN, drawing' => queue # <<>> /\ queue[1].op = "draw",
         imageSem' \in {"unsignalled", "pending", "signalled"},
         owner' \in [Images -> {"engine", "program", "waiting", "screen"}]
  PROVE  FramesTypeOK'
  BY DEF FramesTypeOK, Presents

LEMMA TypeRender ==
  ASSUME FramesTypeOK,
         \/ WaitForFences \/ WaitFails \/ AcquireNextImage \/ AcquireFails
         \/ RecordDrawCommands \/ UpdateUniformBuffer \/ ResetFences
  PROVE  FramesTypeOK'
  <1>1. UNCHANGED <<queue, waiting, drawing, renderSem>>
    BY DEF WaitForFences, WaitFails, AcquireNextImage, AcquireFails, RecordDrawCommands,
           UpdateUniformBuffer, ResetFences
  <1>2. index' \in Images /\ owner' \in [Images -> {"engine", "program", "waiting", "screen"}]
    BY DEF WaitForFences, WaitFails, AcquireNextImage, AcquireFails, RecordDrawCommands,
           UpdateUniformBuffer, ResetFences, FramesTypeOK
  <1>3. recorded' \in Images \cup {NoImage}
    BY LowByteFact
       DEF WaitForFences, WaitFails, AcquireNextImage, AcquireFails, RecordDrawCommands,
           UpdateUniformBuffer, ResetFences, FramesTypeOK
  <1>4. fence' \in BOOLEAN /\ imageSem' \in {"unsignalled", "pending", "signalled"}
    BY DEF WaitForFences, WaitFails, AcquireNextImage, AcquireFails, RecordDrawCommands,
           UpdateUniformBuffer, ResetFences, FramesTypeOK
  <1>5. renderSem' \in BOOLEAN /\ drawing' \in BOOLEAN
        /\ (drawing' => queue # <<>> /\ queue[1].op = "draw")
    BY <1>1 DEF FramesTypeOK
  <1>6. QED
    BY <1>1, <1>2, <1>3, <1>4, <1>5, TypeQuiet

\* What is submitted or presented goes to the end of the queue.
LEMMA TypeAppend ==
  ASSUME FramesTypeOK, QueueSubmit \/ QueuePresent
  PROVE  FramesTypeOK'
  <1>1. UNCHANGED <<index, recorded, fence, imageSem, renderSem, drawing, owner, waiting>>
    BY DEF QueueSubmit, QueuePresent
  <1>2. CASE queue' = queue
    BY <1>1, <1>2, TypeQuiet DEF FramesTypeOK
  <1>3. ASSUME NEW e \in [op : Ops, image : Images \cup {NoImage}],
               e.op # "draw" => e.image \in Images, queue' = Append(queue, e)
        PROVE  FramesTypeOK'
    <2> DEFINE Entries == [op : Ops, image : Images \cup {NoImage}]
    <2>0. queue \in Seq(Entries) /\ e \in Entries
      BY DEF FramesTypeOK
    <2> HIDE DEF Entries
    <2>1. /\ queue' \in Seq(Entries) /\ queue' # <<>>
          /\ Len(queue) \in Nat
          /\ DOMAIN queue = 1 .. Len(queue) /\ DOMAIN queue' = 1 .. Len(queue) + 1
          /\ \A k \in 1 .. Len(queue) : queue'[k] = queue[k]
          /\ queue'[Len(queue) + 1] = e
      BY <1>3, <2>0, AppendFacts
    <2>2. ASSUME NEW k \in Presents'
          PROVE  queue'[k].image \in Images
      <3>1. CASE k = Len(queue) + 1
        BY <1>3, <2>1, <3>1 DEF Presents
      <3>2. CASE k \in 1 .. Len(queue)
        <4>1. k \in Presents /\ queue'[k] = queue[k]
          BY <2>1, <3>2 DEF Presents
        <4>2. QED
          BY <4>1 DEF FramesTypeOK
      <3>3. QED
        BY <2>1, <3>1, <3>2 DEF Presents
    <2>3. drawing' => queue'[1].op = "draw"
      <3>1. queue # <<>> => Len(queue) # 0
        BY EmptyFacts DEF FramesTypeOK
      <3>2. QED
        BY <1>1, <2>1, <3>1 DEF FramesTypeOK
    <2>4. QED
      BY <1>1, <2>1, <2>2, <2>3 DEF FramesTypeOK, Entries
  <1>4. CASE QueueSubmit /\ queue' # queue
    <2>1. queue' = Append(queue, [op |-> "draw", image |-> recorded])
      BY <1>4 DEF QueueSubmit
    <2>2. [op |-> "draw", image |-> recorded] \in [op : Ops, image : Images \cup {NoImage}]
      BY DEF Ops, FramesTypeOK
    <2>3. QED
      BY <1>3, <2>1, <2>2
  <1>5. CASE QueuePresent
    <2>1. PICK op \in {"present", "discard"} :
            queue' = Append(queue, [op |-> op, image |-> index])
      BY <1>5 DEF QueuePresent
    <2>2. [op |-> op, image |-> index] \in [op : Ops, image : Images \cup {NoImage}]
          /\ index \in Images
      BY DEF Ops, FramesTypeOK
    <2>3. QED
      BY <1>3, <2>1, <2>2
  <1>6. QED
    BY <1>2, <1>4, <1>5

\* What is executed leaves it at the head.
LEMMA TypeExecute ==
  ASSUME FramesTypeOK, FinishDraw \/ ExecutePresent
  PROVE  FramesTypeOK'
  <1>1. queue # <<>> /\ queue' = Tail(queue) /\ UNCHANGED <<index, recorded, imageSem>>
    BY DEF FinishDraw, ExecutePresent, FramesTypeOK
  <1>2. /\ queue' \in Seq([op : Ops, image : Images \cup {NoImage}])
        /\ Len(queue) \in Nat /\ Len(queue) > 0
        /\ DOMAIN queue = 1 .. Len(queue) /\ DOMAIN queue' = 1 .. Len(queue) - 1
        /\ \A k \in 1 .. Len(queue) - 1 : queue'[k] = queue[k + 1]
        /\ Head(queue) = queue[1]
    BY <1>1, TailFacts DEF FramesTypeOK
  <1>3. \A k \in Presents' : queue'[k].image \in Images
    <2>1. \A k \in Presents' : k + 1 \in Presents /\ queue'[k] = queue[k + 1]
      BY <1>2 DEF Presents
    <2>2. QED
      BY <2>1 DEF FramesTypeOK
  <1>4. CASE FinishDraw
    <2>1. renderSem' = TRUE /\ fence' = TRUE /\ drawing' = FALSE
          /\ UNCHANGED <<owner, waiting>>
      BY <1>4 DEF FinishDraw
    <2>2. QED
      BY <1>1, <1>2, <1>3, <2>1 DEF FramesTypeOK
  <1>5. CASE ExecutePresent
    <2>1. /\ renderSem' = FALSE /\ fence' = fence /\ drawing' = drawing /\ ~drawing
          /\ queue[1].op # "draw"
      BY <1>2, <1>5 DEF ExecutePresent, FramesTypeOK
    <2>2. 1 \in Presents
      BY <1>2, <2>1 DEF Presents
    <2>3. queue[1].image \in Images
      BY <2>2 DEF FramesTypeOK
    <2>4. /\ owner' \in [Images -> {"engine", "program", "waiting", "screen"}]
          /\ waiting' \in Seq(Images)
      <3>1. \/ /\ owner' = [owner EXCEPT ![queue[1].image] = "waiting"]
               /\ waiting' = Append(waiting, queue[1].image)
            \/ owner' = [owner EXCEPT ![queue[1].image] = "engine"] /\ waiting' = waiting
        BY <1>2, <1>5 DEF ExecutePresent
      <3>2. Append(waiting, queue[1].image) \in Seq(Images)
        BY <2>3, AppendFacts DEF FramesTypeOK
      <3> DEFINE i == queue[1].image
      <3>3. i \in Images
        BY <2>3
      <3> HIDE DEF i
      <3>4. \A o \in {"waiting", "engine"} : [owner EXCEPT ![i] = o]
              \in [Images -> {"engine", "program", "waiting", "screen"}]
        BY <3>3 DEF FramesTypeOK
      <3>5. QED
        BY <3>1, <3>2, <3>4 DEF i, FramesTypeOK
    <2>5. QED
      BY <1>1, <1>2, <1>3, <2>1, <2>4 DEF FramesTypeOK
  <1>6. QED
    BY <1>4, <1>5

LEMMA TypeDevice ==
  ASSUME FramesTypeOK, StartDraw \/ ReadDone \/ Show
  PROVE  FramesTypeOK'
  <1>1. CASE StartDraw
    <2>1. queue # <<>> /\ queue[1].op = "draw"
      BY <1>1, TailFacts DEF StartDraw, FramesTypeOK
    <2>2. QED
      BY <1>1, <2>1, TypeQuiet DEF StartDraw, FramesTypeOK
  <1>2. CASE ReadDone
    BY <1>2, TypeQuiet DEF ReadDone, FramesTypeOK
  <1>3. CASE Show
    <2>1. PICK n \in {1, Len(waiting)} :
            /\ waiting # <<>>
            /\ owner' = [i \in Images |->
                   IF i = waiting[n] THEN "screen"
                   ELSE IF owner[i] = "screen" \/ \E k \in 1 .. n - 1 : waiting[k] = i
                        THEN "engine" ELSE owner[i]]
            /\ waiting' = SubSeq(waiting, n + 1, Len(waiting))
      BY <1>3 DEF Show
    <2>2. UNCHANGED <<index, recorded, fence, imageSem, renderSem, queue, drawing>>
      BY <1>3 DEF Show
    <2>3. n \in 1 .. Len(waiting)
      BY <2>1, EmptyFacts DEF FramesTypeOK
    <2>4. waiting' \in Seq(Images)
      BY <2>1, <2>3, SubSeqFacts DEF FramesTypeOK
    <2>5. owner' \in [Images -> {"engine", "program", "waiting", "screen"}]
      BY <2>1 DEF FramesTypeOK
    <2>6. QED
      BY <2>2, <2>4, <2>5 DEF FramesTypeOK, Presents
  <1>4. QED
    BY <1>1, <1>2, <1>3

-----------------------------------------------------------------------------
(* Each action keeps the invariant.                                        *)

\* Steps that leave the queue, the images and the semaphores alone, and only
\* move the program on between places where no frame is prepared.
Idle == {"calloc", "connect", "screen", "ewmh", "opacity", "protocols", "loop",
         "wait", "exit", "return"}
Changes == <<index, recorded, fence, imageSem, renderSem, queue, drawing, owner, waiting>>

IdleMove == cpu' = cpu \/ (cpu \in Idle /\ cpu' \in Idle \cup {"crashed"})

LEMMA IdleStep ==
  ASSUME TurnsInv, FramesTypeOK', UNCHANGED Changes, IdleMove,
         failed' = failed \/ failed' = failed \cup {"idle"}
  PROVE  TurnsInv'
  <1>1. "record" \in failed' <=> "record" \in failed
    OBVIOUS
  <1>2. QED
    BY <1>1 DEF TurnsInv, FramesTypeOK, FenceInv, SemaphoreInv, ImageInv, Draws, Presents,
         Alive, Changes, Idle, IdleMove, Preparing

LEMMA WaitStep ==
  ASSUME TurnsInv, FramesTypeOK', WaitForFences
  PROVE  TurnsInv'
  BY DEF TurnsInv, FramesTypeOK, FenceInv, SemaphoreInv, ImageInv, Draws, Presents,
         Alive, Preparing, WaitForFences

LEMMA AcquireStep ==
  ASSUME TurnsInv, FramesTypeOK', AcquireNextImage \/ AcquireFails
  PROVE  TurnsInv'
  <1> USE DEF TurnsInv, FramesTypeOK, FenceInv, SemaphoreInv, ImageInv, Draws, Presents,
        Alive, Preparing
  <1>1. CASE AcquireNextImage
    BY <1>1 DEF AcquireNextImage
  <1>2. CASE AcquireFails
    BY <1>2 DEF AcquireFails, Fails
  <1>3. QED
    BY <1>1, <1>2

LEMMA RecordStep ==
  ASSUME TurnsInv, FramesTypeOK', RecordDrawCommands
  PROVE  TurnsInv'
  BY LowByteFact
     DEF TurnsInv, FramesTypeOK, FenceInv, SemaphoreInv, ImageInv, Draws, Presents,
         Alive, Preparing, RecordDrawCommands, Fails

LEMMA UpdateResetStep ==
  ASSUME TurnsInv, FramesTypeOK', FenceKept', UpdateUniformBuffer \/ ResetFences
  PROVE  TurnsInv'
  <1> USE DEF TurnsInv, FramesTypeOK, FenceInv, SemaphoreInv, ImageInv, Draws, Presents,
        Alive, Preparing
  <1>1. CASE UpdateUniformBuffer
    BY <1>1 DEF UpdateUniformBuffer, Fails
  <1>2. CASE ResetFences
    <2>1. fence' = FALSE /\ failed' = failed
      BY <1>2 DEF ResetFences, Fails, FenceKept
    <2>2. FenceInv' /\ SemaphoreInv'
      BY <1>2, <2>1 DEF ResetFences
    <2>3. ImageInv'
      BY <1>2, <2>1 DEF ResetFences
    <2>4. QED
      BY <2>2, <2>3
  <1>3. QED
    BY <1>1, <1>2

LEMMA ReadDoneStep ==
  ASSUME TurnsInv, FramesTypeOK', ReadDone
  PROVE  TurnsInv'
  BY DEF TurnsInv, FramesTypeOK, FenceInv, SemaphoreInv, ImageInv, Draws, Presents,
         Alive, Preparing, ReadDone

LEMMA StartDrawStep ==
  ASSUME TurnsInv, FramesTypeOK', StartDraw
  PROVE  TurnsInv'
  BY DEF TurnsInv, FramesTypeOK, FenceInv, SemaphoreInv, ImageInv, Draws, Presents,
         Alive, Preparing, StartDraw

\* The image presented becomes the last entry of the queue.
LEMMA SubmitStep ==
  ASSUME TurnsInv, FramesTypeOK', QueueSubmit
  PROVE  TurnsInv'
  <1> DEFINE e == [op |-> "draw", image |-> recorded]
  <1> USE DEF TurnsInv, FramesTypeOK, FenceInv, SemaphoreInv, ImageInv, Draws, Presents,
        Alive, Preparing
  <1>1. CASE queue' = Append(queue, e) /\ failed' = failed
    <2>1. e \in [op : Ops, image : Images \cup {NoImage}] /\ e.op = "draw" /\ e.image = recorded
      BY DEF Ops
    <2> HIDE DEF e
    <2>2. /\ queue' \in Seq([op : Ops, image : Images \cup {NoImage}]) /\ queue' # <<>>
          /\ Len(queue) \in Nat /\ Len(queue') = Len(queue) + 1
          /\ DOMAIN queue = 1 .. Len(queue) /\ DOMAIN queue' = 1 .. Len(queue) + 1
          /\ \A k \in 1 .. Len(queue) : queue'[k] = queue[k]
          /\ queue'[Len(queue) + 1] = e
      BY <1>1, <2>1, AppendFacts
    <2>3. queue = <<>> <=> Len(queue) = 0
      BY EmptyFacts
    <2>4. Presents' = Presents /\ Draws' = {Len(queue) + 1}
      BY <2>1, <2>2, QueueSubmit DEF QueueSubmit
    <2>5. FramesTypeOK' /\ FenceInv'
      BY <2>1, <2>2, <2>3, <2>4 DEF QueueSubmit
    <2>6. SemaphoreInv'
      BY <2>1, <2>2, <2>3, <2>4 DEF QueueSubmit
    <2>7. ImageInv'
      <3>1. /\ cpu = "submit" /\ cpu' = "present" /\ ~fence
            /\ UNCHANGED <<index, recorded, fence, imageSem, drawing, owner, waiting, failed>>
        BY <1>1 DEF QueueSubmit
      <3>2. \A k \in Presents : queue'[k] = queue[k]
        BY <2>2
      <3>3. queue'[Len(queue) + 1].image = recorded
        BY <2>1, <2>2
      <3> HIDE DEF Presents, Draws
      <3>4. "record" \notin failed' => recorded = index
        BY <3>1
      <3>5. \A k \in Draws' : "record" \notin failed' => queue'[k].image = index'
        BY <2>4, <3>1, <3>3, <3>4
      <3>6. \A k \in Presents' : queue'[k].image = queue[k].image /\ k \in Presents
        BY <2>4, <3>2
      <3>7. Alive' <=> Alive
        BY <3>1
      <3>8. \A k \in Presents' : queue'[k].image \in Images
        BY <3>6
      <3> HIDE DEF Alive
      <3>9. QED
        BY <3>1, <3>5, <3>6, <3>7, <3>8
    <2>8. QED
      BY <2>5, <2>6, <2>7
  <1>2. CASE queue' = queue /\ Fails("submit")
    BY <1>2 DEF QueueSubmit, Fails
  <1>3. QED
    BY <1>1, <1>2 DEF QueueSubmit

LEMMA PresentStep ==
  ASSUME TurnsInv, FramesTypeOK', QueuePresent
  PROVE  TurnsInv'
  <1> USE DEF TurnsInv, FramesTypeOK, FenceInv, SemaphoreInv, ImageInv, Draws, Presents,
        Alive, Preparing
  <1>1. PICK op \in {"present", "discard"} : queue' = Append(queue, [op |-> op, image |-> index])
    BY DEF QueuePresent, Fails
  <1> DEFINE e == [op |-> op, image |-> index]
  <1>2. e \in [op : Ops, image : Images \cup {NoImage}] /\ e.op # "draw" /\ e.image = index
    BY DEF Ops
  <1> HIDE DEF e
  <1>3. /\ queue' \in Seq([op : Ops, image : Images \cup {NoImage}]) /\ queue' # <<>>
        /\ Len(queue) \in Nat /\ Len(queue') = Len(queue) + 1
        /\ DOMAIN queue = 1 .. Len(queue) /\ DOMAIN queue' = 1 .. Len(queue) + 1
        /\ \A k \in 1 .. Len(queue) : queue'[k] = queue[k]
        /\ queue'[Len(queue) + 1] = e
    BY <1>1, <1>2, AppendFacts DEF e
  <1>4. queue = <<>> <=> Len(queue) = 0
    BY EmptyFacts
  <1>5. Presents' = Presents \cup {Len(queue) + 1} /\ Draws' = Draws
    BY <1>2, <1>3
  <1>6. FramesTypeOK' /\ FenceInv'
    BY <1>2, <1>3, <1>4, <1>5 DEF QueuePresent
  <1>7. SemaphoreInv'
    BY <1>2, <1>3, <1>4, <1>5 DEF QueuePresent
  <1>8. ImageInv'
    <2>1. /\ cpu = "present" /\ cpu' = "loop"
          /\ UNCHANGED <<index, recorded, fence, imageSem, drawing, owner, waiting>>
          /\ failed \subseteq failed'
      BY DEF QueuePresent, Fails
    <2>2. Alive => owner[index] = "program" /\ \A k \in Presents : queue[k].image # index
      <3>1. CASE fence
        BY <1>4, <2>1, <3>1
      <3>2. CASE imageSem # "unsignalled" \/ drawing
        BY <2>1, <3>2
      <3>3. QED
        BY <3>1, <3>2
    <2>3. /\ \A k \in Presents : queue'[k] = queue[k] /\ k # Len(queue) + 1
          /\ \A k \in Draws : queue'[k] = queue[k]
          /\ queue'[Len(queue) + 1].image = index /\ index \in Images
      BY <1>2, <1>3
    <2>4. ImageInv
      OBVIOUS
    <2> HIDE DEF Presents, Draws, TurnsInv, FramesTypeOK, FenceInv, SemaphoreInv
    <2>5. QED
      BY <1>5, <2>1, <2>2, <2>3, <2>4
  <1>9. QED
    BY <1>6, <1>7, <1>8

\* The draw at the head was the only one.
LEMMA FinishStep ==
  ASSUME TurnsInv, FramesTypeOK', FinishDraw
  PROVE  TurnsInv'
  <1> USE DEF TurnsInv, FramesTypeOK, FenceInv, SemaphoreInv, ImageInv, Draws, Presents,
        Alive, Preparing
  <1>1. /\ queue # <<>> /\ queue' = Tail(queue) /\ queue[1].op = "draw"
        /\ drawing /\ drawing' = FALSE /\ renderSem' = TRUE /\ fence' = TRUE
        /\ UNCHANGED <<cpu, index, recorded, imageSem, owner, waiting, failed>>
    BY DEF FinishDraw
  <1>2. /\ queue' \in Seq([op : Ops, image : Images \cup {NoImage}])
        /\ Len(queue) \in Nat /\ Len(queue) > 0 /\ Len(queue') = Len(queue) - 1
        /\ DOMAIN queue = 1 .. Len(queue) /\ DOMAIN queue' = 1 .. Len(queue) - 1
        /\ \A k \in 1 .. Len(queue) - 1 : queue'[k] = queue[k + 1]
        /\ queue' = <<>> <=> Len(queue) = 1
    BY <1>1, TailFacts
  <1>3. Draws = {1} /\ Draws' = {} /\ 1 \notin Presents
    BY <1>1, <1>2
  <1>4. \A k \in Presents' : k + 1 \in Presents /\ queue'[k] = queue[k + 1] /\ k \in Nat
    BY <1>2
  <1>5. FramesTypeOK' /\ FenceInv'
    BY <1>1, <1>2, <1>3
  <1>6. SemaphoreInv'
    <2>1. queue' # <<>> => queue'[1].op # "draw"
      BY <1>2, <1>3
    <2>2. IF cpu = "present" THEN Len(queue) = 1 ELSE Len(queue) > 1
      BY <1>2, <1>3
    <2>3. imageSem' = "unsignalled" /\ Draws' = {}
      BY <1>1, <1>3
    <2>4. QED
      BY <1>1, <1>2, <2>1, <2>2, <2>3
  <1>7. ImageInv'
    <2>1. drawing /\ cpu \notin Preparing \cup {"submit"} /\ imageSem = "unsignalled"
      BY <1>1, <1>3
    <2> HIDE DEF Presents, Draws
    <2>2. /\ \A k \in Presents : queue[k].image \in Images /\ owner[queue[k].image] = "program"
          /\ \A j, k \in Presents : queue[j].image = queue[k].image => j = k
      BY <1>1
    <2>3. \A k \in Presents' : queue'[k].image \in Images /\ owner[queue'[k].image] = "program"
      BY <1>4, <2>2
    <2>4. ASSUME NEW j \in Presents', NEW k \in Presents', queue'[j].image = queue'[k].image
          PROVE  j = k
      <3>1. j + 1 = k + 1 /\ j \in Nat /\ k \in Nat
        BY <1>4, <2>2, <2>4
      <3>2. QED
        BY <3>1
    <2>5. QED
      BY <1>1, <1>3, <2>1, <2>3, <2>4
  <1>8. QED
    BY <1>5, <1>6, <1>7

\* An image leaves the queue for the presentation engine.
LEMMA ExecuteStep ==
  ASSUME TurnsInv, FramesTypeOK', ExecutePresent
  PROVE  TurnsInv'
  <1> USE DEF TurnsInv, FramesTypeOK, FenceInv, SemaphoreInv, ImageInv, Draws, Presents,
        Alive, Preparing
  <1> DEFINE i == queue[1].image
  <1>1. /\ queue # <<>> /\ queue' = Tail(queue) /\ queue[1].op # "draw" /\ Head(queue) = queue[1]
        /\ renderSem /\ renderSem' = FALSE
        /\ UNCHANGED <<cpu, index, recorded, fence, imageSem, drawing, failed>>
    BY TailFacts DEF ExecutePresent
  <1>2. /\ queue' \in Seq([op : Ops, image : Images \cup {NoImage}])
        /\ Len(queue) \in Nat /\ Len(queue) > 0 /\ Len(queue') = Len(queue) - 1
        /\ DOMAIN queue = 1 .. Len(queue) /\ DOMAIN queue' = 1 .. Len(queue) - 1
        /\ \A k \in 1 .. Len(queue) - 1 : queue'[k] = queue[k + 1]
        /\ queue' = <<>> <=> Len(queue) = 1
    BY <1>1, TailFacts
  <1>3. 1 \in Presents /\ i \in Images
    <2>1. 1 \in Presents
      BY <1>1, <1>2
    <2> HIDE DEF Presents, Draws
    <2>2. QED
      BY <2>1
  <1>4. \A k \in Presents' : k \in Nat /\ k + 1 \in Presents /\ k + 1 # 1 /\ queue'[k] = queue[k + 1]
    BY <1>2
  <1>5. \A k \in Draws' : k \in Nat /\ k + 1 \in Draws /\ queue'[k] = queue[k + 1]
    BY <1>2
  <1>6. \/ waiting' = Append(waiting, i) /\ owner' = [owner EXCEPT ![i] = "waiting"]
        \/ waiting' = waiting /\ owner' = [owner EXCEPT ![i] = "engine"]
    BY <1>1 DEF ExecutePresent
  <1>7. /\ Append(waiting, i) \in Seq(Images) /\ Len(waiting) \in Nat
        /\ DOMAIN waiting = 1 .. Len(waiting)
        /\ DOMAIN Append(waiting, i) = 1 .. Len(waiting) + 1
        /\ \A k \in 1 .. Len(waiting) : Append(waiting, i)[k] = waiting[k]
        /\ Append(waiting, i)[Len(waiting) + 1] = i
    BY <1>3, AppendFacts
  <1>8. ~drawing /\ ~(cpu = "present" /\ fence)
    BY <1>1
  <1>9. FramesTypeOK'
    BY <1>1, <1>2, <1>3, <1>6, <1>7
  <1>10. FenceInv'
    <2>1. Draws = {} => Draws' = {}
      BY <1>5
    <2>2. \A j, k \in Draws' : j = k
      BY <1>5
    <2> HIDE DEF Draws
    <2>3. QED
      BY <1>1, <1>8, <2>1, <2>2
  <1>11. SemaphoreInv'
    <2>1. SemaphoreInv /\ FenceInv /\ queue[1] = Head(queue)
      BY <1>1
    <2>2. Draws' = {} \/ Draws # {}
      BY <1>5
    <2>3. renderSem' = FALSE /\ (cpu = "present" => ~fence)
      BY <1>1, <1>8
    <2>4. \A k \in Draws' : IF cpu = "present" THEN k = Len(queue') ELSE k < Len(queue')
      <3> HIDE DEF Draws, TurnsInv, FramesTypeOK
      <3>1. QED
        BY <1>2, <1>5, <2>1
    <2> HIDE DEF Draws, TurnsInv, FramesTypeOK, FenceInv
    <2>5. QED
      BY <1>1, <2>1, <2>3, <2>4
  <1>12. ImageInv'
    <2> HIDE DEF Draws, Presents
    <2>1. "record" \notin failed' =>
            /\ cpu' \in {"update", "reset", "submit"} => recorded' = index'
            /\ \A k \in Draws' : queue'[k].image = index'
      <3>1. "record" \notin failed =>
              /\ cpu \in {"update", "reset", "submit"} => recorded = index
              /\ \A k \in Draws : queue[k].image = index
        OBVIOUS
      <3> HIDE DEF TurnsInv
      <3>2. QED
        BY <1>1, <1>5, <3>1
    <2>2. \A k \in Presents' : queue'[k].image \in Images
      BY <1>4
    <2>3. ASSUME Alive
          PROVE  /\ \A k \in Presents' : owner'[queue'[k].image] = "program"
                 /\ \A j, k \in Presents' : queue'[j].image = queue'[k].image => j = k
                 /\ imageSem # "unsignalled" => owner'[index] = "program"
                 /\ owner[i] = "program"
      <3>1. /\ \A k \in Presents : queue[k].image \in Images /\ owner[queue[k].image] = "program"
            /\ \A j, k \in Presents : queue[j].image = queue[k].image => j = k
            /\ imageSem # "unsignalled" => owner[index] = "program" /\ i # index
            /\ index \in Images /\ owner \in [Images -> {"engine", "program", "waiting", "screen"}]
        BY <1>1, <2>3
      <3>2. \A k \in Presents' : queue'[k].image # i
        BY <1>3, <1>4, <3>1
      <3>3. \A m \in Images : m # i => owner'[m] = owner[m]
        BY <1>3, <1>6, <3>1
      <3>4. ASSUME NEW j \in Presents', NEW k \in Presents', queue'[j].image = queue'[k].image
            PROVE  j = k
        <4>1. j + 1 = k + 1 /\ j \in Nat /\ k \in Nat
          BY <1>4, <3>1, <3>4
        <4>2. QED
          BY <4>1
      <3>5. \A k \in Presents' : owner'[queue'[k].image] = "program"
        BY <1>4, <2>2, <3>1, <3>2, <3>3
      <3>6. QED
        BY <1>3, <3>1, <3>3, <3>4, <3>5
    <2>4. ASSUME Alive
          PROVE  /\ \A k \in DOMAIN waiting' : owner'[waiting'[k]] = "waiting"
                 /\ \A j, k \in DOMAIN waiting' : waiting'[j] = waiting'[k] => j = k
      <3>1. /\ \A k \in DOMAIN waiting : owner[waiting[k]] = "waiting" /\ waiting[k] \in Images
            /\ \A j, k \in DOMAIN waiting : waiting[j] = waiting[k] => j = k
            /\ owner \in [Images -> {"engine", "program", "waiting", "screen"}]
        BY <2>4
      <3>2. \A k \in DOMAIN waiting : waiting[k] # i
        BY <2>3, <2>4, <3>1
      <3> HIDE DEF i, TurnsInv
      <3>3. CASE waiting' = waiting /\ owner' = [owner EXCEPT ![i] = "engine"]
        BY <3>1, <3>2, <3>3
      <3>4. CASE waiting' = Append(waiting, i) /\ owner' = [owner EXCEPT ![i] = "waiting"]
        <4>1. \A k \in DOMAIN waiting' : owner'[waiting'[k]] = "waiting"
          BY <1>3, <1>7, <3>1, <3>2, <3>4
        <4>2. \A j, k \in DOMAIN waiting' : waiting'[j] = waiting'[k] => j = k
          BY <1>7, <3>1, <3>2, <3>4
        <4>3. QED
          BY <4>1, <4>2
      <3>5. QED
        BY <1>6, <3>3, <3>4
    <2>5. ASSUME cpu \in {"record", "update", "reset", "submit", "present"}, imageSem # "unsignalled"
          PROVE  \A k \in Presents' : queue'[k].image # index
      BY <1>4, <2>5
    <2>6. QED
      BY <1>1, <1>8, <2>1, <2>2, <2>3, <2>4, <2>5
  <1>13. QED
    BY <1>9, <1>10, <1>11, <1>12

\* The images that wait are not the program's.
LEMMA ShowStep ==
  ASSUME TurnsInv, FramesTypeOK', Show
  PROVE  TurnsInv'
  <1> USE DEF TurnsInv, FramesTypeOK, FenceInv, SemaphoreInv, ImageInv, Draws, Presents,
        Alive, Preparing
  <1>1. PICK n \in {1, Len(waiting)} :
          /\ waiting # <<>>
          /\ owner' = [i \in Images |->
                 IF i = waiting[n] THEN "screen"
                 ELSE IF owner[i] = "screen" \/ \E k \in 1 .. n - 1 : waiting[k] = i
                      THEN "engine" ELSE owner[i]]
          /\ waiting' = SubSeq(waiting, n + 1, Len(waiting))
          /\ UNCHANGED <<cpu, index, recorded, fence, imageSem, renderSem, queue, drawing, failed>>
    BY DEF Show
  <1>2. Len(waiting) \in Nat /\ n \in Nat /\ 1 <= n /\ n <= Len(waiting)
    BY <1>1, EmptyFacts
  <1>3. /\ waiting' \in Seq(Images)
        /\ DOMAIN waiting = 1 .. Len(waiting)
        /\ DOMAIN waiting' = 1 .. Len(waiting) - n
        /\ \A k \in 1 .. Len(waiting) - n : waiting'[k] = waiting[k + n]
    <2>1. n \in 1 .. Len(waiting) /\ waiting \in Seq(Images)
      BY <1>2
    <2>2. QED
      BY <1>1, <2>1, SubSeqFacts
  <1>4. Presents' = Presents /\ Draws' = Draws
    BY <1>1
  <1>5. /\ \A k \in DOMAIN waiting : waiting[k] \in Images
        /\ owner \in [Images -> {"engine", "program", "waiting", "screen"}]
    OBVIOUS
  <1> HIDE DEF Presents, Draws
  <1>6. FenceInv' /\ SemaphoreInv'
    BY <1>1, <1>4
  <1>7. ImageInv'
    <2>1. ASSUME Alive
          PROVE  /\ \A k \in DOMAIN waiting : owner[waiting[k]] = "waiting"
                 /\ \A j, k \in DOMAIN waiting : waiting[j] = waiting[k] => j = k
      BY <2>1
    <2> HIDE DEF TurnsInv, FramesTypeOK, FenceInv, SemaphoreInv
    <2>2. ASSUME Alive, NEW i \in Images, owner[i] = "program"
          PROVE  owner'[i] = "program"
      <3>1. \A k \in 1 .. Len(waiting) : waiting[k] # i
        BY <1>3, <2>1, <2>2
      <3>2. i # waiting[n] /\ \A k \in 1 .. n - 1 : waiting[k] # i
        BY <1>2, <3>1
      <3>3. QED
        BY <1>1, <2>2, <3>2
    <2>3. ASSUME Alive
          PROVE  /\ \A k \in DOMAIN waiting' : owner'[waiting'[k]] = "waiting"
                 /\ \A j, k \in DOMAIN waiting' : waiting'[j] = waiting'[k] => j = k
      <3>1. ASSUME NEW k \in DOMAIN waiting'
            PROVE  k + n \in DOMAIN waiting /\ waiting'[k] = waiting[k + n] /\ k \in Nat /\ k > 0
        <4>1. k \in 1 .. Len(waiting) - n
          BY <1>3
        <4>2. k \in Nat /\ k > 0 /\ k + n \in 1 .. Len(waiting)
          BY <1>2, <4>1
        <4>3. QED
          BY <1>3, <4>1, <4>2
      <3>2. ASSUME NEW k \in DOMAIN waiting', NEW m \in 1 .. n
            PROVE  waiting[m] # waiting'[k]
        <4>1. m \in DOMAIN waiting /\ m # k + n
          <5>1. m \in Nat /\ m >= 1 /\ m <= n /\ k \in Nat /\ k > 0
            BY <1>2, <3>1
          <5>2. m \in 1 .. Len(waiting) /\ m # k + n
            BY <1>2, <5>1
          <5>3. QED
            BY <1>3, <5>2
        <4>2. QED
          BY <2>1, <2>3, <3>1, <4>1
      <3>3. \A k \in DOMAIN waiting' : waiting'[k] \in Images /\ owner[waiting'[k]] = "waiting"
        BY <1>5, <2>1, <2>3, <3>1
      <3>4. ASSUME NEW k \in DOMAIN waiting'
            PROVE  owner'[waiting'[k]] = "waiting"
        <4>1. waiting'[k] # waiting[n] /\ \A m \in 1 .. n - 1 : waiting[m] # waiting'[k]
          BY <1>2, <3>2
        <4>2. QED
          BY <1>1, <3>3, <4>1
      <3>5. ASSUME NEW j \in DOMAIN waiting', NEW k \in DOMAIN waiting', waiting'[j] = waiting'[k]
            PROVE  j = k
        <4>1. j + n = k + n
          BY <2>1, <2>3, <3>1, <3>5
        <4>2. QED
          BY <1>2, <3>1, <4>1
      <3>6. QED
        BY <3>4, <3>5
    <2>4. ImageInv /\ index \in Images /\ \A k \in Presents : queue[k].image \in Images
      BY DEF TurnsInv, FramesTypeOK
    <2>5. /\ Alive' <=> Alive
          /\ index' = index /\ queue' = queue /\ failed' = failed /\ cpu' = cpu
      BY <1>1
    <2>6. Alive => \A k \in Presents' : owner'[queue'[k].image] = "program"
      BY <1>4, <2>2, <2>4, <2>5
    <2>7. QED
      BY <1>1, <1>4, <2>2, <2>3, <2>4, <2>5, <2>6
  <1>8. QED
    BY <1>6, <1>7

LEMMA InvInit == Init => FramesInv
  <1> SUFFICES ASSUME Init PROVE FramesInv
    OBVIOUS
  <1>1. 0 \in Images /\ Images # {}
    BY SwapchainAssumption DEF Images
  <1>2. queue = <<>> /\ DOMAIN queue = {} /\ waiting = <<>> /\ DOMAIN waiting = {}
    BY DEF Init, FramesInit
  <1>3. Draws = {} /\ Presents = {}
    BY <1>2 DEF Draws, Presents
  <1>4. FramesTypeOK
    BY <1>1, <1>2, <1>3 DEF Init, FramesInit, FramesTypeOK
  <1>5. FenceInv /\ SemaphoreInv /\ ImageInv
    BY <1>1, <1>2, <1>3 DEF Init, FramesInit, FenceInv, SemaphoreInv, ImageInv, Preparing
  <1>6. QED
    BY <1>4, <1>5 DEF FramesInv, TurnsInv

\* The steps of the program outside the renderer, and the signal.
LEMMA EventSteps ==
  ASSUME \/ CreateFails \/ Calloc \/ Connect \/ CreateWindow \/ Fullscreen \/ Opacity
         \/ WatchDelete \/ OtherEvent \/ LoopEnds \/ Destroy \/ QuitEvent \/ RunStop
  PROVE  UNCHANGED Changes /\ IdleMove /\ failed' = failed
  <1> USE DEF Changes, Idle, IdleMove, Unchanged
  <1>1. CASE CreateFails \/ Calloc \/ Connect \/ CreateWindow
    BY <1>1 DEF CreateFails, Calloc, Connect, CreateWindow
  <1>2. CASE Fullscreen \/ Opacity \/ WatchDelete \/ OtherEvent
    BY <1>2 DEF Fullscreen, Opacity, WatchDelete, OtherEvent
  <1>3. CASE LoopEnds \/ Destroy \/ QuitEvent \/ RunStop
    BY <1>3 DEF LoopEnds, Destroy, DeviceWaitIdle, QuitEvent, RunStop
  <1>4. QED
    BY <1>1, <1>2, <1>3

LEMMA BusyStep ==
  ASSUME DestroyBusy
  PROVE  UNCHANGED Changes /\ IdleMove /\ failed' = failed \cup {"idle"}
  BY DEF DestroyBusy, DeviceWaitIdleFails, Fails, Changes, Idle, IdleMove

\* What failed has failed.
LEMMA FailedGrows ==
  ASSUME [Next]_vars
  PROVE  failed \subseteq failed'
  <1>1. CASE Render \/ WaitFails \/ AcquireFails
    BY <1>1 DEF Render, WaitForFences, AcquireNextImage, RecordDrawCommands,
                UpdateUniformBuffer, ResetFences, QueueSubmit, QueuePresent, WaitFails,
                AcquireFails, Fails
  <1>2. CASE Device
    BY <1>2 DEF Device, StartDraw, FinishDraw, ExecutePresent, ReadDone, Show
  <1>3. CASE UNCHANGED vars
    BY <1>3 DEF vars, frameVars
  <1>4. QED
    BY <1>1, <1>2, <1>3, EventSteps, BusyStep DEF Next, Program, Interrupted, World

LEMMA TypeStep == FramesTypeOK /\ [Next]_vars => FramesTypeOK'
  <1> SUFFICES ASSUME FramesTypeOK, [Next]_vars PROVE FramesTypeOK'
    OBVIOUS
  <1>1. CASE UNCHANGED Changes
    BY <1>1, TypeQuiet DEF Changes, FramesTypeOK
  <1>2. CASE Render \/ WaitFails \/ AcquireFails
    BY <1>2, TypeRender, TypeAppend DEF Render
  <1>3. CASE Device
    BY <1>3, TypeExecute, TypeDevice DEF Device
  <1>4. CASE UNCHANGED vars
    BY <1>1, <1>4 DEF vars, frameVars, Changes
  <1>5. QED
    BY <1>1, <1>2, <1>3, <1>4, EventSteps, BusyStep DEF Next, Program, Interrupted, World

LEMMA TurnsStep ==
  ASSUME TurnsInv, FramesTypeOK', FenceKept', [Next]_vars
  PROVE  TurnsInv'
  <1>1. CASE Render
    BY <1>1, WaitStep, AcquireStep, RecordStep, UpdateResetStep, SubmitStep, PresentStep
       DEF Render
  <1>2. CASE Device
    BY <1>2, StartDrawStep, FinishStep, ExecuteStep, ReadDoneStep, ShowStep DEF Device
  <1>3. CASE WaitFails
    BY <1>3 DEF WaitFails, Fails, FenceKept
  <1>4. CASE AcquireFails
    BY <1>4, AcquireStep
  <1>5. CASE DestroyBusy
    BY <1>5, BusyStep, IdleStep
  <1>6. CASE UNCHANGED vars
    BY <1>6, IdleStep DEF vars, frameVars, Changes, IdleMove
  <1>7. QED
    BY <1>1, <1>2, <1>3, <1>4, <1>5, <1>6, EventSteps, IdleStep
       DEF Next, Program, Interrupted, World

LEMMA InvStep == FramesInv /\ [Next]_vars => FramesInv'
  <1> SUFFICES ASSUME FramesInv, [Next]_vars PROVE FramesInv'
    OBVIOUS
  <1>1. FramesTypeOK'
    BY TypeStep DEF FramesInv
  <1>2. FenceKept' => FenceKept
    BY FailedGrows DEF FenceKept
  <1>3. QED
    BY <1>1, <1>2, TurnsStep DEF FramesInv

\* The invariant of the frames: the fence lets one frame after the other
\* through, and tells what the semaphores and the images are.
THEOREM FramesInvariant == Spec => []FramesInv
  BY InvInit, InvStep, PTL DEF Spec

\* With any number of images, and whichever calls of the renderer fail besides the
\* wait for the fence and its reset, the command buffer and the uniform buffer are
\* never written while the GPU reads them.
THEOREM OneFrameAtATime == Spec => []CpuWaitsForGpu
  <1>1. FramesInv => CpuWaitsForGpu
    BY DEF FramesInv, TurnsInv, FenceInv, CpuWaitsForGpu, Preparing
  <1>2. QED
    BY <1>1, FramesInvariant, PTL

\* The two semaphores are reused in every frame, and neither is signalled twice in a
\* row, as long as neither the wait for the fence nor its reset has failed.
THEOREM SemaphoresReused == Spec => []SemaphoresPaired
  <1>1. FramesInv => SemaphoresPaired
    BY DEF FramesInv, TurnsInv, FramesTypeOK, FenceInv, SemaphoreInv, SemaphoresPaired,
           Preparing
  <1>2. QED
    BY <1>1, FramesInvariant, PTL

\* The GPU draws to no image but the one that was acquired for the frame, also when
\* acquiring, submitting or presenting has failed; recording and the calls on the
\* fence must not have.
THEOREM DrawsToOwnImage == Spec => []DrawsOwnImage
  <1>1. FramesInv => DrawsOwnImage
    <2> SUFFICES ASSUME TurnsInv, drawing, "record" \notin failed
                 PROVE  owner[Head(queue).image] = "program"
      BY DEF DrawsOwnImage, FramesInv
    <2>1. queue # <<>> /\ queue[1].op = "draw"
      BY DEF TurnsInv, FramesTypeOK
    <2>2. Head(queue) = queue[1] /\ 1 \in DOMAIN queue
      BY <2>1, TailFacts DEF TurnsInv, FramesTypeOK
    <2>3. queue[1].image = index
      BY <2>1, <2>2 DEF TurnsInv, ImageInv, Draws
    <2>4. owner[index] = "program"
      BY DEF TurnsInv, ImageInv, Alive
    <2>5. QED
      BY <2>2, <2>3, <2>4
  <1>2. QED
    BY <1>1, FramesInvariant, PTL

-----------------------------------------------------------------------------
(* That the program never waits in vain: what StopsWhenAsked, a liveness   *)
(* property, rests on.                                                     *)

\* Calls that do not return yet: the wait for the fence, for an image to be free and
\* for the device to be idle.
Waits ==
  \/ cpu = "wait" /\ ~fence
  \/ cpu = "acquire" /\ \A i \in Images : owner[i] # "engine"
  \/ cpu = "exit" /\ queue # <<>>

\* One of the actions of the device may be taken: ReadDone, StartDraw, FinishDraw or
\* ExecutePresent.
QueueMoves ==
  \/ imageSem = "pending" \/ drawing
  \/ /\ queue # <<>>
     /\ IF Head(queue).op = "draw" THEN imageSem = "signalled" ELSE renderSem

\* What the program waits for is underway: the queue moves on, or else it is an image
\* that is waited for, and one is on its way to the screen.
NeverInVain ==
  SignalsCome /\ Waits =>
    QueueMoves \/ (cpu = "acquire" /\ waiting # <<>>)

InUse == {"record", "update", "reset", "submit", "present", "crashed"}

\* Every image is free, the program's for a frame that is in the queue or being
\* made, among those that wait, or the one on the screen.
CoverInv ==
  /\ \A i \in Images : owner[i] = "program" =>
       (\E k \in Presents : queue[k].image = i) \/ (i = index /\ cpu \in InUse)
  /\ \A i \in Images : owner[i] = "waiting" => \E k \in DOMAIN waiting : waiting[k] = i
  /\ \A i, j \in Images : owner[i] = "screen" /\ owner[j] = "screen" => i = j

\* As long as every frame is acquired and submitted, and the fence kept: a fence that
\* is not signalled has its draw in the queue, the draw its semaphore, and each present
\* its draw before it or its semaphore.
PairsInv ==
  SignalsCome =>
    /\ Alive
    /\ ~fence /\ cpu # "submit" => Draws # {}
    /\ cpu \in {"record", "update", "reset"} => imageSem # "unsignalled"
    /\ queue # <<>> /\ queue[1].op # "draw" => renderSem
    /\ cpu = "present" /\ queue = <<>> => renderSem
    /\ \A k \in Presents : k # 1 => k - 1 \in Draws

WaitInv == FramesInv /\ CoverInv /\ PairsInv

LEMMA SignalsFacts ==
  ASSUME WaitInv
  PROVE  /\ FramesTypeOK /\ CoverInv /\ PairsInv
         /\ SignalsCome => FenceInv /\ SemaphoreInv
  BY DEF WaitInv, FramesInv, TurnsInv, SignalsCome

LEMMA CoverInit == Init => CoverInv /\ PairsInv
  BY DEF Init, FramesInit, CoverInv, PairsInv, Alive, Draws, Presents

LEMMA WaitIdleStep ==
  ASSUME CoverInv, PairsInv, UNCHANGED Changes,
         IdleMove, failed \subseteq failed'
  PROVE  CoverInv' /\ PairsInv'
  <1>1. SignalsCome' => SignalsCome
    BY DEF SignalsCome, FenceKept
  <1>2. QED
    BY <1>1 DEF CoverInv, PairsInv, InUse, Changes, Idle, IdleMove, Alive, Draws, Presents

\* Steps that leave the queue and the presentation engine alone.
LEMMA WaitQuietStep ==
  ASSUME WaitInv,
         \/ WaitForFences \/ WaitFails \/ RecordDrawCommands \/ UpdateUniformBuffer
         \/ ResetFences \/ ReadDone \/ StartDraw
  PROVE  CoverInv' /\ PairsInv'
  <1>1. UNCHANGED <<index, queue, owner, waiting>> /\ failed \subseteq failed'
    BY DEF WaitForFences, WaitFails, RecordDrawCommands, UpdateUniformBuffer, ResetFences,
           ReadDone, StartDraw, Fails
  <1>2. Draws' = Draws /\ Presents' = Presents
    BY <1>1 DEF Draws, Presents
  <1>3. CoverInv'
    <2>1. cpu' = cpu \/ cpu \notin InUse \/ cpu' \in InUse
      BY DEF WaitForFences, WaitFails, RecordDrawCommands, UpdateUniformBuffer,
             ResetFences, ReadDone, StartDraw, InUse
    <2>2. cpu \in InUse => cpu' \in InUse
      BY <2>1 DEF WaitForFences, WaitFails, RecordDrawCommands, UpdateUniformBuffer,
                  ResetFences, ReadDone, StartDraw, InUse
    <2>3. QED
      BY <1>1, <1>2, <2>2 DEF WaitInv, CoverInv
  <1>4. PairsInv'
    <2> SUFFICES ASSUME SignalsCome' PROVE PairsInv'
      BY DEF PairsInv
    <2>1. SignalsCome
      BY <1>1 DEF SignalsCome, FenceKept
    <2>2. FenceInv /\ SemaphoreInv /\ PairsInv /\ FramesTypeOK
      BY <2>1, SignalsFacts
    <2> HIDE DEF Draws, Presents
    <2>3. CASE WaitForFences \/ RecordDrawCommands \/ UpdateUniformBuffer
      BY <1>1, <1>2, <2>1, <2>2, <2>3
         DEF WaitForFences, RecordDrawCommands, UpdateUniformBuffer, Fails, PairsInv, Alive
    <2>4. CASE ResetFences
      <3>1. fence' = FALSE
        BY <2>4 DEF ResetFences, Fails, SignalsCome, FenceKept
      <3>2. QED
        BY <1>1, <1>2, <2>1, <2>2, <2>4, <3>1 DEF ResetFences, PairsInv, Alive
    <2>5. CASE ReadDone
      BY <1>1, <1>2, <2>1, <2>2, <2>5 DEF ReadDone, PairsInv, Alive
    <2>6. CASE StartDraw
      <3>1. 1 \in Draws /\ fence' = fence
        BY <2>2, <2>6, TailFacts DEF StartDraw, FramesTypeOK, Draws
      <3>2. ~fence /\ cpu \notin Preparing
        BY <2>2, <3>1 DEF FenceInv
      <3>3. QED
        BY <1>1, <1>2, <2>1, <2>2, <2>6, <3>2 DEF StartDraw, PairsInv, Alive, Preparing
    <2>7. CASE WaitFails
      BY <2>7 DEF WaitFails, Fails, SignalsCome, FenceKept
    <2>8. QED
      BY <2>3, <2>4, <2>5, <2>6, <2>7
  <1>5. QED
    BY <1>3, <1>4

LEMMA WaitAcquireStep ==
  ASSUME WaitInv, AcquireNextImage \/ AcquireFails
  PROVE  CoverInv' /\ PairsInv'
  <1>1. /\ cpu = "acquire" /\ cpu' = "record"
        /\ UNCHANGED <<fence, renderSem, queue, drawing, waiting>>
        /\ Draws' = Draws /\ Presents' = Presents
    BY DEF AcquireNextImage, AcquireFails, Draws, Presents
  <1> HIDE DEF Draws, Presents
  <1>2. CASE AcquireFails
    <2>1. ~SignalsCome'
      BY <1>2 DEF AcquireFails, Fails, SignalsCome
    <2>2. QED
      BY <1>1, <1>2, <2>1, SignalsFacts DEF AcquireFails, CoverInv, PairsInv, InUse
  <1>3. CASE AcquireNextImage
    <2>1. CoverInv'
      BY <1>1, <1>3, SignalsFacts DEF AcquireNextImage, CoverInv, InUse, FramesTypeOK
    <2>2. PairsInv'
      <3>1. SignalsCome' <=> SignalsCome
        BY <1>3 DEF AcquireNextImage, SignalsCome, FenceKept
      <3>2. imageSem' = "pending"
        BY <1>3 DEF AcquireNextImage
      <3>3. QED
        BY <1>1, <3>1, <3>2, SignalsFacts DEF PairsInv, FenceInv, Preparing, Alive
    <2>3. QED
      BY <2>1, <2>2
  <1>4. QED
    BY <1>2, <1>3

LEMMA WaitSubmitStep ==
  ASSUME WaitInv, QueueSubmit
  PROVE  CoverInv' /\ PairsInv'
  <1>1. /\ cpu = "submit" /\ cpu' = "present"
        /\ UNCHANGED <<index, fence, imageSem, renderSem, drawing, owner, waiting>>
    BY DEF QueueSubmit
  <1>2. FramesTypeOK /\ CoverInv /\ PairsInv /\ (SignalsCome => FenceInv /\ SemaphoreInv)
    BY SignalsFacts
  <1> DEFINE e == [op |-> "draw", image |-> recorded]
  <1>3. CASE queue' = Append(queue, e) /\ failed' = failed
    <2>1. e \in [op : Ops, image : Images \cup {NoImage}] /\ e.op = "draw"
      BY <1>2 DEF Ops, FramesTypeOK
    <2> HIDE DEF e
    <2>2. /\ queue' # <<>> /\ Len(queue) \in Nat
          /\ DOMAIN queue = 1 .. Len(queue) /\ DOMAIN queue' = 1 .. Len(queue) + 1
          /\ \A k \in 1 .. Len(queue) : queue'[k] = queue[k]
          /\ queue'[Len(queue) + 1] = e
          /\ queue # <<>> => Len(queue) # 0
      BY <1>2, <1>3, <2>1, AppendFacts, EmptyFacts DEF FramesTypeOK
    <2>3. Presents' = Presents /\ Draws' = Draws \cup {Len(queue) + 1}
      BY <1>1, <1>2, <2>1, <2>2 DEF Presents, Draws
    <2>4. \A k \in Presents : queue'[k] = queue[k]
      BY <2>2 DEF Presents
    <2>5. queue'[1] = IF queue = <<>> THEN e ELSE queue[1]
      BY <1>2, <2>2, EmptyFacts DEF FramesTypeOK
    <2> HIDE DEF Draws, Presents
    <2>6. CoverInv'
      BY <1>1, <1>2, <2>3, <2>4 DEF CoverInv, InUse
    <2>7. PairsInv'
      <3>1. SignalsCome' <=> SignalsCome
        BY <1>3 DEF SignalsCome, FenceKept
      <3>2. SignalsCome => Draws = {}
        BY <1>1, <1>2 DEF FenceInv
      <3>3. QED
        BY <1>1, <1>2, <2>1, <2>2, <2>3, <2>5, <3>1, <3>2 DEF PairsInv, Alive
    <2>8. QED
      BY <2>6, <2>7
  <1>4. CASE Fails("submit") /\ UNCHANGED queue
    <2>1. Draws' = Draws /\ Presents' = Presents /\ ~SignalsCome'
      BY <1>4 DEF Draws, Presents, Fails, SignalsCome
    <2>2. QED
      BY <1>1, <1>2, <1>4, <2>1 DEF CoverInv, PairsInv, InUse
  <1>5. QED
    BY <1>3, <1>4 DEF QueueSubmit

LEMMA WaitPresentStep ==
  ASSUME WaitInv, QueuePresent
  PROVE  CoverInv' /\ PairsInv'
  <1>1. /\ cpu = "present" /\ cpu' = "loop" /\ failed \subseteq failed'
        /\ UNCHANGED <<index, fence, imageSem, renderSem, drawing, owner, waiting>>
    BY DEF QueuePresent, Fails
  <1>2. FramesTypeOK /\ CoverInv /\ PairsInv /\ (SignalsCome => FenceInv /\ SemaphoreInv)
    BY SignalsFacts
  <1>3. PICK op \in {"present", "discard"} : queue' = Append(queue, [op |-> op, image |-> index])
    BY DEF QueuePresent, Fails
  <1> DEFINE e == [op |-> op, image |-> index]
  <1>4. e \in [op : Ops, image : Images \cup {NoImage}] /\ e.op # "draw" /\ e.image = index
    BY <1>2 DEF Ops, FramesTypeOK
  <1> HIDE DEF e
  <1>5. /\ queue' # <<>> /\ Len(queue) \in Nat
        /\ DOMAIN queue = 1 .. Len(queue) /\ DOMAIN queue' = 1 .. Len(queue) + 1
        /\ \A k \in 1 .. Len(queue) : queue'[k] = queue[k]
        /\ queue'[Len(queue) + 1] = e
        /\ queue # <<>> <=> Len(queue) # 0
    BY <1>2, <1>3, <1>4, AppendFacts, EmptyFacts DEF FramesTypeOK, e
  <1>6. Presents' = Presents \cup {Len(queue) + 1} /\ Draws' = Draws
    BY <1>4, <1>5 DEF Presents, Draws
  <1>7. \A k \in Presents : queue'[k] = queue[k]
    BY <1>5 DEF Presents
  <1>8. queue'[1] = IF queue = <<>> THEN e ELSE queue[1]
    BY <1>5
  <1>9. SignalsCome /\ Draws # {} => Len(queue) \in Draws
    BY <1>1, <1>2 DEF SemaphoreInv
  <1>10. SignalsCome /\ fence => queue = <<>>
    BY <1>1, <1>2 DEF SemaphoreInv
  <1> HIDE DEF Draws, Presents
  <1>11. CoverInv'
    BY <1>1, <1>2, <1>4, <1>5, <1>6, <1>7 DEF CoverInv, InUse
  <1>12. PairsInv'
    <2> SUFFICES ASSUME SignalsCome' PROVE PairsInv'
      BY DEF PairsInv
    <2>1. SignalsCome
      BY <1>1 DEF SignalsCome, FenceKept
    <2>2. \A k \in Presents' : k # 1 => k - 1 \in Draws'
      BY <1>1, <1>2, <1>5, <1>6, <1>9, <1>10, <2>1 DEF PairsInv
    <2>3. queue'[1].op # "draw" => renderSem'
      BY <1>1, <1>2, <1>4, <1>8, <2>1 DEF PairsInv
    <2>4. Alive' /\ (~fence' => Draws' # {})
      BY <1>1, <1>2, <1>6, <2>1 DEF PairsInv, Alive
    <2>5. QED
      BY <1>1, <2>2, <2>3, <2>4 DEF PairsInv
  <1>13. QED
    BY <1>11, <1>12

\* The queue without its head.
LEMMA QueueTail ==
  ASSUME FramesTypeOK, queue # <<>>, queue' = Tail(queue)
  PROVE  /\ Head(queue) = queue[1] /\ 1 \in DOMAIN queue
         /\ \A k \in Presents' : k \in Nat /\ k # 0 /\ k + 1 \in Presents /\ queue'[k] = queue[k + 1]
         /\ \A k \in Presents : k # 1 => k - 1 \in Presents' /\ queue'[k - 1] = queue[k]
         /\ \A k \in Draws' : k \in Nat /\ k # 0 /\ k + 1 \in Draws
         /\ \A k \in Draws : k \in Nat /\ (k # 1 => k - 1 \in Draws')
         /\ queue' # <<>> => queue'[1] = queue[2] /\ 2 \in DOMAIN queue
  <1>1. /\ Len(queue) \in Nat /\ Len(queue) > 0
        /\ DOMAIN queue = 1 .. Len(queue) /\ DOMAIN queue' = 1 .. Len(queue) - 1
        /\ \A k \in 1 .. Len(queue) - 1 : queue'[k] = queue[k + 1]
        /\ queue' = <<>> <=> Len(queue) = 1
        /\ Head(queue) = queue[1]
    BY TailFacts DEF FramesTypeOK
  <1>2. \A k \in DOMAIN queue' : k \in Nat /\ k # 0 /\ k + 1 \in DOMAIN queue
                                /\ queue'[k] = queue[k + 1]
    BY <1>1
  <1>3. \A k \in DOMAIN queue : k \in Nat /\ (k # 1 => k - 1 \in DOMAIN queue' /\ queue'[k - 1] = queue[k])
    BY <1>1
  <1>4. queue' # <<>> => queue'[1] = queue[2] /\ 2 \in DOMAIN queue
    BY <1>1
  <1>5. QED
    BY <1>1, <1>2, <1>3, <1>4 DEF Presents, Draws

LEMMA WaitFinishStep ==
  ASSUME WaitInv, FinishDraw
  PROVE  CoverInv' /\ PairsInv'
  <1>1. FramesTypeOK /\ CoverInv /\ PairsInv /\ (SignalsCome => FenceInv /\ SemaphoreInv)
    BY SignalsFacts
  <1>2. /\ drawing /\ queue # <<>> /\ queue[1].op = "draw" /\ queue' = Tail(queue)
        /\ renderSem' = TRUE /\ fence' = TRUE
        /\ UNCHANGED <<cpu, index, imageSem, owner, waiting, failed>>
    BY <1>1 DEF FinishDraw, FramesTypeOK
  <1>3. 1 \in Draws /\ 1 \notin Presents
    BY <1>1, <1>2, QueueTail DEF Draws, Presents
  <1> HIDE DEF Draws, Presents
  <1>4. CoverInv'
    <2>1. \A k \in Presents : k - 1 \in Presents' /\ queue'[k - 1] = queue[k]
      BY <1>1, <1>2, <1>3, QueueTail
    <2>2. ASSUME NEW i \in Images, NEW k \in Presents, queue[k].image = i
          PROVE  \E m \in Presents' : queue'[m].image = i
      BY <2>1, <2>2
    <2>3. QED
      BY <1>1, <1>2, <2>2 DEF CoverInv
  <1>5. PairsInv'
    <2> SUFFICES ASSUME SignalsCome' PROVE PairsInv'
      BY DEF PairsInv
    <2>1. SignalsCome
      BY <1>2 DEF SignalsCome, FenceKept
    <2>2. cpu \notin Preparing /\ \A k \in Draws : k = 1
      BY <1>1, <1>3, <2>1 DEF FenceInv
    <2>3. Draws' = {}
      <3>1. \A k \in Draws' : k \in Nat /\ k # 0 /\ k + 1 = 1
        BY <1>1, <1>2, <2>2, QueueTail
      <3>2. QED
        BY <3>1
    <2>4. \A k \in Presents' : k = 1
      <3>1. SUFFICES ASSUME NEW k \in Presents' PROVE k = 1
        OBVIOUS
      <3>2. k \in Nat /\ k # 0 /\ k + 1 \in Presents
        BY <1>1, <1>2, QueueTail
      <3>3. (k + 1) - 1 \in Draws /\ (k + 1) - 1 = k
        BY <1>1, <2>1, <3>2 DEF PairsInv
      <3>4. QED
        BY <2>2, <3>3
    <2>5. QED
      BY <1>1, <1>2, <2>1, <2>2, <2>3, <2>4 DEF PairsInv, Alive, Preparing
  <1>6. QED
    BY <1>4, <1>5

LEMMA WaitExecuteStep ==
  ASSUME WaitInv, ExecutePresent
  PROVE  CoverInv' /\ PairsInv'
  <1>1. FramesTypeOK /\ CoverInv /\ PairsInv /\ (SignalsCome => FenceInv /\ SemaphoreInv)
    BY SignalsFacts
  <1> DEFINE i == queue[1].image
  <1>2. /\ renderSem /\ queue # <<>> /\ queue[1].op # "draw" /\ queue' = Tail(queue)
        /\ UNCHANGED <<cpu, index, imageSem, fence, drawing, failed>>
    BY <1>1, TailFacts DEF ExecutePresent, FramesTypeOK
  <1>3. 1 \in Presents /\ 1 \notin Draws
    BY <1>1, <1>2, QueueTail DEF Draws, Presents
  <1>4. i \in Images
    BY <1>1, <1>3 DEF FramesTypeOK
  <1>5. \/ waiting' = Append(waiting, i) /\ owner' = [owner EXCEPT ![i] = "waiting"]
        \/ waiting' = waiting /\ owner' = [owner EXCEPT ![i] = "engine"]
    BY <1>1, <1>2, TailFacts DEF ExecutePresent, FramesTypeOK
  <1> HIDE DEF Draws, Presents, i
  <1>6. CoverInv'
    <2>1. /\ Len(waiting) \in Nat /\ DOMAIN waiting = 1 .. Len(waiting)
          /\ DOMAIN Append(waiting, i) = 1 .. Len(waiting) + 1
          /\ \A k \in 1 .. Len(waiting) : Append(waiting, i)[k] = waiting[k]
          /\ Append(waiting, i)[Len(waiting) + 1] = i
      BY <1>1, <1>4, AppendFacts DEF FramesTypeOK
    <2>2. \A j \in Images : j # i => owner'[j] = owner[j]
      BY <1>1, <1>5 DEF FramesTypeOK
    <2>3. owner'[i] \in {"waiting", "engine"}
      BY <1>1, <1>4, <1>5 DEF FramesTypeOK
    <2>4. ASSUME NEW j \in Images, owner'[j] = "program"
          PROVE  (\E k \in Presents' : queue'[k].image = j) \/ (j = index' /\ cpu' \in InUse)
      <3>1. j # i /\ owner[j] = "program"
        BY <2>2, <2>3, <2>4
      <3>2. CASE j = index /\ cpu \in InUse
        BY <1>2, <3>2
      <3>3. ASSUME NEW k \in Presents, queue[k].image = j
            PROVE  \E m \in Presents' : queue'[m].image = j
        <4>1. k # 1
          BY <3>1, <3>3 DEF i
        <4>2. QED
          BY <1>1, <1>2, <3>3, <4>1, QueueTail
      <3>4. QED
        BY <1>1, <3>1, <3>2, <3>3 DEF CoverInv
    <2>5. ASSUME NEW j \in Images, owner'[j] = "waiting"
          PROVE  \E k \in DOMAIN waiting' : waiting'[k] = j
      <3>1. CASE j = i
        <4>1. waiting' = Append(waiting, i)
          BY <1>1, <1>4, <1>5, <2>5, <3>1 DEF FramesTypeOK
        <4>2. QED
          BY <2>1, <3>1, <4>1
      <3>2. CASE j # i
        <4>1. PICK k \in DOMAIN waiting : waiting[k] = j
          BY <1>1, <2>2, <2>5, <3>2 DEF CoverInv
        <4>2. k \in DOMAIN waiting' /\ waiting'[k] = j
          BY <1>5, <2>1, <4>1
        <4>3. QED
          BY <4>2
      <3>3. QED
        BY <3>1, <3>2
    <2>6. \A j, k \in Images : owner'[j] = "screen" /\ owner'[k] = "screen" => j = k
      BY <1>1, <2>2, <2>3 DEF CoverInv
    <2>7. QED
      BY <2>4, <2>5, <2>6 DEF CoverInv
  <1>7. PairsInv'
    <2> SUFFICES ASSUME SignalsCome PROVE PairsInv'
      BY <1>2 DEF PairsInv, SignalsCome, FenceKept
    <2>1. \A k \in Presents' : k \in Nat /\ k # 0 /\ k + 1 \in Presents /\ k \in Draws
      <3>1. SUFFICES ASSUME NEW k \in Presents'
                     PROVE  k \in Nat /\ k # 0 /\ k + 1 \in Presents /\ k \in Draws
        OBVIOUS
      <3>2. k \in Nat /\ k # 0 /\ k + 1 \in Presents
        BY <1>1, <1>2, QueueTail
      <3>3. k + 1 # 1 /\ (k + 1) - 1 = k
        BY <3>2
      <3>4. QED
        BY <1>1, <3>2, <3>3 DEF PairsInv
    <2>2. \A k \in Presents' : k # 1 /\ k - 1 \in Draws'
      BY <1>1, <1>2, <1>3, <2>1, QueueTail
    <2>3. queue' # <<>> => queue'[1].op = "draw"
      <3>1. queue' # <<>> => 1 \in DOMAIN queue'
        BY <1>1, <1>2, TailFacts DEF FramesTypeOK
      <3>2. QED
        BY <2>2, <3>1 DEF Presents
    <2>4. Draws # {} => Draws' # {}
      BY <1>1, <1>2, <1>3, QueueTail
    <2>5. cpu = "present" => queue' # <<>>
      BY <1>1, <1>2, <1>3, <2>4, QueueTail DEF PairsInv, SemaphoreInv, Draws
    <2>6. QED
      BY <1>1, <1>2, <2>2, <2>3, <2>4, <2>5 DEF PairsInv, Alive
  <1>8. QED
    BY <1>6, <1>7

LEMMA WaitShowStep ==
  ASSUME WaitInv, Show
  PROVE  CoverInv' /\ PairsInv'
  <1>1. FramesTypeOK /\ CoverInv /\ PairsInv
    BY DEF WaitInv, FramesInv
  <1>2. PICK n \in {1, Len(waiting)} :
          /\ waiting # <<>>
          /\ owner' = [i \in Images |->
                 IF i = waiting[n] THEN "screen"
                 ELSE IF owner[i] = "screen" \/ \E k \in 1 .. n - 1 : waiting[k] = i
                      THEN "engine" ELSE owner[i]]
          /\ waiting' = SubSeq(waiting, n + 1, Len(waiting))
    BY DEF Show
  <1>3. UNCHANGED <<cpu, index, fence, imageSem, renderSem, queue, drawing, failed>>
    BY DEF Show
  <1>4. Draws' = Draws /\ Presents' = Presents
    BY <1>3 DEF Draws, Presents
  <1>5. n \in 1 .. Len(waiting) /\ Len(waiting) \in Nat
    BY <1>1, <1>2, EmptyFacts DEF FramesTypeOK
  <1>6. /\ DOMAIN waiting = 1 .. Len(waiting)
        /\ DOMAIN waiting' = 1 .. Len(waiting) - n
        /\ \A k \in 1 .. Len(waiting) - n : waiting'[k] = waiting[k + n]
    BY <1>1, <1>2, <1>5, SubSeqFacts DEF FramesTypeOK
  <1> HIDE DEF Draws, Presents
  <1>7. PairsInv'
    BY <1>1, <1>3, <1>4 DEF PairsInv, Alive, SignalsCome, FenceKept
  <1>8. \A i \in Images : owner'[i] = IF i = waiting[n] THEN "screen"
          ELSE IF owner[i] = "screen" \/ \E k \in 1 .. n - 1 : waiting[k] = i
               THEN "engine" ELSE owner[i]
    BY <1>2
  <1>9. ASSUME NEW i \in Images, owner'[i] = "waiting"
        PROVE  \E k \in DOMAIN waiting' : waiting'[k] = i
    <2>1. owner[i] = "waiting" /\ i # waiting[n] /\ \A k \in 1 .. n - 1 : waiting[k] # i
      BY <1>8, <1>9
    <2>2. PICK k \in DOMAIN waiting : waiting[k] = i
      BY <1>1, <2>1 DEF CoverInv
    <2>3. k \in 1 .. Len(waiting) /\ k # n /\ k \notin 1 .. n - 1
      BY <1>6, <2>1, <2>2
    <2>4. k - n \in 1 .. Len(waiting) - n /\ (k - n) + n = k
      BY <1>5, <2>3
    <2>5. QED
      BY <1>6, <2>2, <2>4
  <1>10. \A i \in Images : owner'[i] = "program" => owner[i] = "program"
    BY <1>8
  <1>11. \A i \in Images : owner'[i] = "screen" => i = waiting[n]
    BY <1>8
  <1>12. CoverInv'
    BY <1>1, <1>3, <1>4, <1>9, <1>10, <1>11 DEF CoverInv
  <1>13. QED
    BY <1>7, <1>12

LEMMA WaitInvStep == WaitInv /\ [Next]_vars => WaitInv'
  <1> SUFFICES ASSUME WaitInv, [Next]_vars PROVE WaitInv'
    OBVIOUS
  <1>1. FramesInv' /\ CoverInv /\ PairsInv
    BY InvStep DEF WaitInv
  <1>2. CASE UNCHANGED Changes /\ IdleMove /\ failed \subseteq failed'
    BY <1>1, <1>2, WaitIdleStep DEF WaitInv
  <1>3. CASE Render \/ WaitFails \/ AcquireFails
    BY <1>1, <1>3, WaitQuietStep, WaitAcquireStep, WaitSubmitStep, WaitPresentStep
       DEF Render, WaitInv
  <1>4. CASE Device
    BY <1>1, <1>4, WaitQuietStep, WaitFinishStep, WaitExecuteStep, WaitShowStep
       DEF Device, WaitInv
  <1>5. CASE UNCHANGED vars
    BY <1>2, <1>5 DEF vars, frameVars, Changes, IdleMove
  <1>6. CASE DestroyBusy
    BY <1>2, <1>6, BusyStep
  <1>7. QED
    BY <1>2, <1>3, <1>4, <1>5, <1>6, EventSteps DEF Next, Program, Interrupted, World

\* Two images are enough: when every image is taken, one of them is not on the screen,
\* and its way there leads through the queue.
LEMMA TwoImages ==
  ASSUME WaitInv, \A i \in Images : owner[i] # "engine", cpu = "acquire"
  PROVE  queue # <<>> \/ waiting # <<>>
  <1>1. 0 \in Images /\ 1 \in Images
    BY SwapchainAssumption DEF Images
  <1>2. PICK i \in Images : owner[i] # "screen"
    BY <1>1 DEF WaitInv, CoverInv
  <1>3. owner[i] \in {"program", "waiting"}
    BY <1>2 DEF WaitInv, FramesInv, FramesTypeOK
  <1>4. Presents # {} \/ DOMAIN waiting # {}
    BY <1>3 DEF WaitInv, CoverInv, InUse
  <1>5. QED
    BY <1>4 DEF Presents

\* With two images or more, and as long as no acquire, no submission and no call on the
\* fence has failed, a program that waits for the fence, for an image or for the device
\* to be idle has something to wait for: the GPU or the presentation engine has its next
\* step before it.  The step from here to StopsWhenAsked is that they take it.
THEOREM NobodyWaitsInVain == Spec => []NeverInVain
  <1>1. Init => WaitInv
    BY InvInit, CoverInit DEF WaitInv
  <1>2. WaitInv => NeverInVain
    <2> SUFFICES ASSUME WaitInv, SignalsCome, Waits
                 PROVE  QueueMoves \/ (cpu = "acquire" /\ waiting # <<>>)
      BY DEF NeverInVain
    <2>1. FramesTypeOK /\ FenceInv /\ SemaphoreInv /\ PairsInv
      BY SignalsFacts
    <2>2. queue # <<>> => Head(queue) = queue[1] /\ 1 \in DOMAIN queue
      BY <2>1, TailFacts DEF FramesTypeOK
    <2>3. CASE queue = <<>>
      <3>1. Draws = {}
        BY <2>3 DEF Draws
      <3>2. cpu = "acquire"
        BY <2>1, <2>3, <3>1 DEF Waits, PairsInv
      <3>3. QED
        BY <2>3, <3>2, TwoImages DEF Waits
    <2>4. CASE queue # <<>> /\ queue[1].op # "draw"
      BY <2>1, <2>2, <2>4 DEF PairsInv, QueueMoves
    <2>5. CASE queue # <<>> /\ queue[1].op = "draw"
      <3>1. ~fence
        BY <2>1, <2>2, <2>5 DEF FenceInv, Draws
      <3>2. drawing \/ imageSem \in {"pending", "signalled"}
        BY <2>1, <3>1 DEF PairsInv, Alive, FramesTypeOK
      <3>3. QED
        BY <2>2, <2>5, <3>2 DEF QueueMoves
    <2>6. QED
      BY <2>3, <2>4, <2>5
  <1>3. QED
    BY <1>1, <1>2, WaitInvStep, PTL DEF Spec

-----------------------------------------------------------------------------
(* That it does not go on forever: how many steps are left once the        *)
(* program is asked to stop.                                               *)

\* What the device has still to do: a submission is executed, an image shown or freed,
\* a semaphore signalled and waited for.
SemaphoreLeft ==
  CASE imageSem = "pending" -> 2 [] imageSem = "signalled" -> 1 [] OTHER -> 0
DeviceLeft == 2 * Len(queue) + Len(waiting) + SemaphoreLeft

\* How far the program is from its end.  A frame that is begun is finished; the flag
\* is looked at when it is presented.  Every stage has room for the work that it gives
\* the device: two steps at most.
Stage ==
  CASE cpu \in {"return", "crashed"} -> 0
    [] cpu = "exit" -> 3
    [] cpu = "loop" -> IF running THEN 30 ELSE 6
    [] cpu = "present" -> 9 [] cpu = "submit" -> 12 [] cpu = "reset" -> 15
    [] cpu = "update" -> 18 [] cpu = "record" -> 21 [] cpu = "acquire" -> 24
    [] cpu = "wait" -> 27
    [] cpu = "protocols" -> 33 [] cpu = "opacity" -> 36 [] cpu = "ewmh" -> 39
    [] cpu = "screen" -> 42 [] cpu = "connect" -> 45 [] OTHER -> 48

\* A program that ends by an event can still be told to by a signal.
SignalLeft == IF prun THEN 1 ELSE 0
StepsLeft == Stage + DeviceLeft + SignalLeft

\* The program was asked to stop or has ended.
Stopping == ~prun \/ cpu \in {"exit", "return", "crashed"}

Begun == Idle \cup InUse \cup {"acquire"}
StopInv == FramesTypeOK /\ cpu \in Begun /\ running \in BOOLEAN /\ prun \in BOOLEAN

\* What is left gets less with every step.
EveryStepCounts == [][Stopping => Stopping' /\ StepsLeft' < StepsLeft]_vars

LEMMA StopTypes ==
  StopInv => DeviceLeft \in Nat /\ Stage \in Nat /\ SignalLeft \in Nat /\ StepsLeft \in Nat
  <1> SUFFICES ASSUME StopInv
               PROVE  DeviceLeft \in Nat /\ Stage \in Nat /\ SignalLeft \in Nat
                      /\ StepsLeft \in Nat
    OBVIOUS
  <1>1. Len(queue) \in Nat /\ Len(waiting) \in Nat
    BY DEF StopInv, FramesTypeOK
  <1>2. DeviceLeft \in Nat
    BY <1>1 DEF DeviceLeft, SemaphoreLeft, StopInv, FramesTypeOK
  <1>3. Stage \in Nat
    BY DEF Stage, StopInv
  <1>4. QED
    BY <1>2, <1>3 DEF StepsLeft, SignalLeft

LEMMA StopInvStep == StopInv /\ [Next]_vars => StopInv'
  <1> SUFFICES ASSUME StopInv, [Next]_vars PROVE StopInv'
    OBVIOUS
  <1>1. FramesTypeOK'
    BY TypeStep DEF StopInv
  <1>2. cpu' \in Begun /\ running' \in BOOLEAN /\ prun' \in BOOLEAN
    <2> USE DEF StopInv, Begun, Idle, InUse
    <2>1. CASE CreateFails \/ Calloc \/ Connect \/ CreateWindow \/ Fullscreen \/ Opacity
      BY <2>1 DEF CreateFails, Calloc, Connect, CreateWindow, Fullscreen, Opacity, Unchanged
    <2>2. CASE WatchDelete \/ OtherEvent \/ LoopEnds \/ Destroy \/ QuitEvent
      BY <2>2 DEF WatchDelete, OtherEvent, LoopEnds, Destroy, DeviceWaitIdle, QuitEvent,
                  Unchanged
    <2>3. CASE Render \/ Interrupted
      BY <2>3 DEF Interrupted, WaitFails, AcquireFails, DestroyBusy, Fails, Render,
                  WaitForFences, AcquireNextImage, RecordDrawCommands,
                  UpdateUniformBuffer, ResetFences, QueueSubmit, QueuePresent
    <2>4. CASE Device \/ RunStop
      BY <2>4 DEF Device, StartDraw, FinishDraw, ExecutePresent, ReadDone, Show, RunStop
    <2>5. CASE UNCHANGED vars
      BY <2>5 DEF vars, frameVars
    <2>6. QED
      BY <2>1, <2>2, <2>3, <2>4, <2>5 DEF Next, Program, World
  <1>3. QED
    BY <1>1, <1>2 DEF StopInv

\* Every step of the device leaves it less to do, and the program where it is.
LEMMA DeviceStepsLeft ==
  ASSUME StopInv, Device
  PROVE  DeviceLeft' < DeviceLeft /\ UNCHANGED <<cpu, running, prun>>
  <1>1. FramesTypeOK
    BY DEF StopInv
  <1>2. Len(queue) \in Nat /\ Len(waiting) \in Nat
    BY <1>1 DEF FramesTypeOK
  <1>3. CASE StartDraw
    BY <1>2, <1>3 DEF StartDraw, DeviceLeft, SemaphoreLeft
  <1>4. CASE ReadDone
    BY <1>2, <1>4 DEF ReadDone, DeviceLeft, SemaphoreLeft
  <1>5. CASE FinishDraw
    <2>1. Len(queue') = Len(queue) - 1 /\ Len(queue) > 0
      BY <1>1, <1>5, TailFacts DEF FinishDraw, FramesTypeOK
    <2>2. UNCHANGED <<waiting, imageSem, cpu, running, prun>>
      BY <1>5 DEF FinishDraw
    <2>3. QED
      BY <1>2, <2>1, <2>2 DEF DeviceLeft, SemaphoreLeft
  <1>6. CASE ExecutePresent
    <2>1. Len(queue') = Len(queue) - 1 /\ Len(queue) > 0
      BY <1>1, <1>6, TailFacts DEF ExecutePresent, FramesTypeOK
    <2>2. Len(waiting') \in {Len(waiting), Len(waiting) + 1}
      <3>1. CASE Head(queue).op # "present"
        BY <1>6, <3>1 DEF ExecutePresent
      <3>2. CASE Head(queue).op = "present"
        BY <1>1, <1>6, <3>2 DEF ExecutePresent, FramesTypeOK
      <3>3. QED
        BY <3>1, <3>2
    <2>3. imageSem' = imageSem
      BY <1>6 DEF ExecutePresent
    <2>4. QED
      BY <1>2, <1>6, <2>1, <2>2, <2>3 DEF ExecutePresent, DeviceLeft, SemaphoreLeft
  <1>7. CASE Show
    <2>1. PICK n \in {1, Len(waiting)} :
            waiting # <<>> /\ waiting' = SubSeq(waiting, n + 1, Len(waiting))
      BY <1>7 DEF Show
    <2>2. n \in 1 .. Len(waiting)
      BY <1>1, <1>2, <2>1, EmptyFacts DEF FramesTypeOK
    <2>3. waiting' \in Seq(Images) /\ DOMAIN waiting' = 1 .. Len(waiting) - n
      BY <1>1, <2>1, <2>2, SubSeqFacts DEF FramesTypeOK
    <2>4. Len(waiting') = Len(waiting) - n
      BY <1>2, <2>2, <2>3
    <2>5. QED
      BY <1>2, <1>7, <2>2, <2>4 DEF Show, DeviceLeft, SemaphoreLeft
  <1>8. QED
    BY <1>3, <1>4, <1>5, <1>6, <1>7
       DEF Device, StartDraw, FinishDraw, ExecutePresent, ReadDone, Show

\* A step of the renderer takes the program a stage on and gives the device work for two
\* steps at most.
LEMMA RenderStepsLeft ==
  ASSUME StopInv, Render \/ WaitFails \/ AcquireFails, ~prun
  PROVE  Stage' + 3 <= Stage /\ DeviceLeft' <= DeviceLeft + 2 /\ prun' = prun
  <1>1. FramesTypeOK
    BY DEF StopInv
  <1>2. Len(queue) \in Nat /\ Len(waiting) \in Nat
    BY <1>1 DEF FramesTypeOK
  <1>3. CASE \/ WaitForFences \/ WaitFails \/ AcquireFails \/ RecordDrawCommands
             \/ UpdateUniformBuffer \/ ResetFences
    <2>1. UNCHANGED <<queue, waiting, imageSem, prun>>
      BY <1>3 DEF WaitForFences, WaitFails, AcquireFails, RecordDrawCommands,
                  UpdateUniformBuffer, ResetFences
    <2>2. DeviceLeft' = DeviceLeft /\ DeviceLeft \in Nat
      BY <2>1, StopTypes DEF DeviceLeft, SemaphoreLeft
    <2>3. Stage' + 3 <= Stage
      BY <1>3 DEF WaitForFences, WaitFails, AcquireFails, RecordDrawCommands,
                  UpdateUniformBuffer, ResetFences, Stage
    <2>4. QED
      BY <2>1, <2>2, <2>3
  <1>4. CASE AcquireNextImage
    <2>1. UNCHANGED <<queue, waiting, prun>>
      BY <1>4 DEF AcquireNextImage
    <2>2. imageSem' \in {imageSem, "pending"}
      BY <1>4 DEF AcquireNextImage
    <2>3. DeviceLeft' <= DeviceLeft + 2
      BY <1>1, <1>2, <2>1, <2>2 DEF DeviceLeft, SemaphoreLeft, FramesTypeOK
    <2>4. Stage' + 3 <= Stage
      BY <1>4 DEF AcquireNextImage, Stage
    <2>5. QED
      BY <2>1, <2>3, <2>4
  <1>5. CASE QueueSubmit \/ QueuePresent
    <2>1. UNCHANGED <<waiting, imageSem, prun>>
      BY <1>5 DEF QueueSubmit, QueuePresent
    <2>2. \/ queue' = queue
          \/ queue' = Append(queue, [op |-> "draw", image |-> recorded])
          \/ queue' = Append(queue, [op |-> "present", image |-> index])
          \/ queue' = Append(queue, [op |-> "discard", image |-> index])
      BY <1>5 DEF QueueSubmit, QueuePresent
    <2>3. Len(queue') \in {Len(queue), Len(queue) + 1}
      BY <1>1, <1>2, <2>2 DEF FramesTypeOK, Ops
    <2>4. DeviceLeft' <= DeviceLeft + 2
      BY <1>1, <1>2, <2>1, <2>3 DEF DeviceLeft, SemaphoreLeft, FramesTypeOK
    <2>5. Stage' + 3 <= Stage
      BY <1>5 DEF QueueSubmit, QueuePresent, Stage
    <2>6. QED
      BY <2>1, <2>4, <2>5
  <1>6. QED
    BY <1>3, <1>4, <1>5 DEF Render

\* The other steps of the program give the device nothing to do.
LEMMA EventStepsLeft ==
  ASSUME StopInv, Stopping, Program \/ QuitEvent \/ DestroyBusy, ~Render
  PROVE  Stage' + 3 <= Stage /\ DeviceLeft' = DeviceLeft /\ prun' = prun /\ Stopping'
  <1>1. CASE CreateFails \/ Calloc \/ Connect \/ CreateWindow \/ Fullscreen \/ Opacity
    BY <1>1 DEF CreateFails, Calloc, Connect, CreateWindow, Fullscreen, Opacity, Unchanged,
                Stage, DeviceLeft, SemaphoreLeft, Stopping
  <1>2. CASE WatchDelete \/ OtherEvent \/ LoopEnds \/ Destroy \/ QuitEvent
    BY <1>2 DEF WatchDelete, OtherEvent, LoopEnds, Destroy, DeviceWaitIdle, QuitEvent,
                Unchanged, Stage, DeviceLeft, SemaphoreLeft, Stopping
  <1>3. CASE DestroyBusy
    BY <1>3 DEF DestroyBusy, DeviceWaitIdleFails, Stage, DeviceLeft, SemaphoreLeft, Stopping
  <1>4. QED
    BY <1>1, <1>2, <1>3 DEF Program

LEMMA SumLess ==
  \A s, d, l, s1, d1, l1 \in Nat :
    \/ s1 + 3 <= s /\ d1 <= d + 2 /\ l1 = l
    \/ s1 + 3 <= s /\ d1 = d /\ l1 = l
    \/ s1 = s /\ d1 < d /\ l1 = l
    \/ s1 = s /\ d1 = d /\ l1 < l
    => s1 + d1 + l1 < s + d + l
  OBVIOUS

\* Once the program is asked to stop, by a signal in whatever step it is or by an event,
\* there are StepsLeft steps left to it and to the device, and with every step fewer:
\* whatever calls fail, it neither draws on nor makes work for the device without end.
\* With NobodyWaitsInVain this is what StopsWhenAsked needs of the code; fairness
\* says that the steps are taken.
THEOREM StepsToTheEnd == Spec => EveryStepCounts /\ [](StepsLeft \in Nat)
  <1>1. Init => StopInv
    BY InvInit DEF Init, FramesInit, FramesInv, StopInv, Begun, Idle
  <1>2. StopInv => StepsLeft \in Nat
    BY StopTypes
  <1>3. StopInv /\ [Next]_vars => [Stopping => Stopping' /\ StepsLeft' < StepsLeft]_vars
    <2> SUFFICES ASSUME StopInv, Next, Stopping PROVE Stopping' /\ StepsLeft' < StepsLeft
      OBVIOUS
    <2>1. /\ DeviceLeft \in Nat /\ Stage \in Nat /\ SignalLeft \in Nat
          /\ DeviceLeft' \in Nat /\ Stage' \in Nat /\ SignalLeft' \in Nat
      <3>1. StopInv'
        BY StopInvStep
      <3>2. (DeviceLeft \in Nat /\ Stage \in Nat /\ SignalLeft \in Nat)'
        BY <3>1, StopTypes, PTL
      <3>3. QED
        BY <3>2, StopTypes
    <2>2. CASE Render \/ WaitFails \/ AcquireFails
      <3>1. ~prun
        BY <2>2 DEF Stopping, WaitFails, AcquireFails, Render, WaitForFences,
                    AcquireNextImage, RecordDrawCommands,
                    UpdateUniformBuffer, ResetFences, QueueSubmit, QueuePresent
      <3>2. Stage' + 3 <= Stage /\ DeviceLeft' <= DeviceLeft + 2 /\ prun' = prun
        BY <2>2, <3>1, RenderStepsLeft
      <3>3. SignalLeft' = SignalLeft /\ Stopping'
        BY <3>1, <3>2 DEF SignalLeft, Stopping
      <3>4. QED
        BY <2>1, <3>2, <3>3, SumLess DEF StepsLeft
    <2>3. CASE (Program \/ QuitEvent \/ DestroyBusy) /\ ~Render
      <3>1. Stage' + 3 <= Stage /\ DeviceLeft' = DeviceLeft /\ prun' = prun /\ Stopping'
        BY <2>3, EventStepsLeft
      <3>2. SignalLeft' = SignalLeft
        BY <3>1 DEF SignalLeft
      <3>3. QED
        BY <2>1, <3>1, <3>2, SumLess DEF StepsLeft
    <2>4. CASE Device
      <3>1. DeviceLeft' < DeviceLeft /\ UNCHANGED <<cpu, running, prun>>
        BY <2>4, DeviceStepsLeft
      <3>2. Stage' = Stage /\ SignalLeft' = SignalLeft /\ Stopping'
        BY <3>1 DEF Stage, SignalLeft, Stopping
      <3>3. QED
        BY <2>1, <3>1, <3>2, SumLess DEF StepsLeft
    <2>5. CASE RunStop
      <3>1. prun /\ ~prun' /\ UNCHANGED <<cpu, running, queue, waiting, imageSem>>
        BY <2>5 DEF RunStop
      <3>2. /\ Stage' = Stage /\ DeviceLeft' = DeviceLeft /\ SignalLeft' < SignalLeft
            /\ Stopping'
        BY <3>1 DEF Stage, DeviceLeft, SemaphoreLeft, SignalLeft, Stopping
      <3>3. QED
        BY <2>1, <3>1, <3>2, SumLess DEF StepsLeft
    <2>6. QED
      BY <2>2, <2>3, <2>4, <2>5 DEF Next, World, Interrupted, Program
  <1>4. QED
    BY <1>1, <1>2, <1>3, StopInvStep, PTL DEF Spec, EveryStepCounts
=============================================================================
