---------------------------- MODULE BufferObjects ----------------------------
(***************************************************************************)
(* kmr_buffer_create and kmr_buffer_destroy (src/src/buffer.c): one step   *)
(* for each call that may fail or that acquires or releases something.     *)
(*                                                                         *)
(* The model keeps the three name spaces the code mixes apart as the       *)
(* kernel does: file descriptors (lowest free number of the process), GEM  *)
(* handles (lowest free number of the DRM file) and framebuffer ids.  All  *)
(* three are small integers.                                               *)
(***************************************************************************)
EXTENDS Integers, FiniteSets, FiniteSetsExt

CONSTANTS
  BufferCount,   \* bufferInfo->bufferCount
  MaxPlanes,     \* planes a bo may have (4 in the code)
  OpenFds,       \* descriptors the program already holds
  OtherHandles   \* GEM handles of the program's that are not the buffers'

ASSUME BufferAssumption ==
  /\ BufferCount \in Nat \ {0}
  /\ MaxPlanes \in Nat \ {0}
  /\ IsFiniteSet(OpenFds) /\ OpenFds \subseteq Nat
  /\ IsFiniteSet(OtherHandles) /\ OtherHandles \subseteq Nat \ {0}

VARIABLES
  pc,       \* where create or destroy is
  type,     \* bufferInfo->bufferType
  heap,     \* allocations: the kmr_buffer, its bufferObjects, the gbm device
  count,    \* buffer->bufferCount
  i, j,     \* currentBuffer and currentPlane, or the two counters of destroy
  objs,     \* buffer->bufferObjects
  planeGem, \* gemHandles[4] of create_gbm_buffers
  dmaBufs,  \* kernel: DMA-BUF descriptors open
  gem,      \* kernel: open GEM handles
  fbs       \* kernel: registered framebuffers, with the GEM handles they were given

vars == <<pc, type, heap, count, i, j, objs, planeGem, dmaBufs, gem, fbs>>

Indices == 0 .. BufferCount - 1
Planes  == 0 .. MaxPlanes - 1

\* A kmr_buffer_object: bo is the GEM handle behind the gbm_bo, 0 without one.
NoObject == [bo |-> 0, planeCount |-> 0, fds |-> [p \in Planes |-> 0], fbid |-> 0]

Lowest(taken, first) ==
  Min({n \in first .. first + Cardinality(taken) : n \notin taken})
NewFd     == Lowest(OpenFds \cup dmaBufs, 0)
NewHandle == Lowest(gem, 1)

Locations == {"start", "objects", "device", "bo", "plane", "addfb", "created",
              "rmfb", "destroy_bo", "close", "free", "done"}
Types == {"gbm", "modifiers", "unsupported"}

TypeOK ==
  /\ pc \in Locations
  /\ type \in Types
  /\ heap \subseteq {"buffer", "objects", "gbm"}
  /\ count \in {0, BufferCount}
  /\ i \in 0 .. BufferCount /\ j \in 0 .. MaxPlanes
  /\ \A b \in Indices :
       /\ objs[b].bo \in Nat
       /\ objs[b].planeCount \in 0 .. MaxPlanes
       /\ objs[b].fds \in [Planes -> Nat]
       /\ objs[b].fbid \in -1 .. BufferCount
  /\ planeGem \in [Planes -> Nat]
  /\ dmaBufs \subseteq Nat /\ gem \subseteq Nat \ {0}
  /\ \A fb \in fbs : fb.id \in 1 .. BufferCount /\ fb.handles \subseteq Nat

Init ==
  /\ pc = "start" /\ type \in Types
  /\ heap = {} /\ count = 0 /\ i = 0 /\ j = 0
  /\ objs = [b \in Indices |-> NoObject]
  /\ planeGem = [p \in Planes |-> 0]
  /\ dmaBufs = {} /\ gem = OtherHandles /\ fbs = {}

\* goto exit_error_kmr_buffer_create: kmr_buffer_destroy, which starts its loop
\* or, with no buffer counted, skips it.
Fail ==
  /\ i' = 0 /\ j' = 0
  /\ pc' = IF count' = 0 THEN "free" ELSE "rmfb"

-----------------------------------------------------------------------------
(* kmr_buffer_create.                                                      *)

AllocBuffer ==
  /\ pc = "start"
  /\ \/ heap' = {"buffer"} /\ pc' = "objects"
     \/ UNCHANGED heap /\ pc' = "done"
  /\ UNCHANGED <<type, count, i, j, objs, planeGem, dmaBufs, gem, fbs>>

CountedLate == 0
CountedOneMore == BufferCount + 1

\* buffer->bufferCount is assigned before any buffer is created.
CountAtAlloc == BufferCount

AllocObjects ==
  /\ pc = "objects"
  /\ \/ /\ heap' = heap \cup {"objects"}
        /\ count' = CountAtAlloc
        /\ IF type = "unsupported" THEN Fail ELSE pc' = "device" /\ UNCHANGED <<i, j>>
     \/ UNCHANGED <<heap, count>> /\ Fail
  /\ UNCHANGED <<type, objs, planeGem, dmaBufs, gem, fbs>>

CreateDevice ==
  /\ pc = "device"
  /\ UNCHANGED <<type, count, objs, planeGem, dmaBufs, gem, fbs>>
  /\ \/ heap' = heap \cup {"gbm"} /\ pc' = "bo" /\ UNCHANGED <<i, j>>
     \/ UNCHANGED heap /\ Fail

StaleHandles == planeGem

\* memset(gemHandles, 0) before the planes of each buffer.
ClearedHandles == [p \in Planes |-> 0]

\* gbm_bo_create: the driver chooses the number of planes, which share one handle.
CreateBo ==
  /\ pc = "bo"
  /\ UNCHANGED <<type, heap, count, dmaBufs, fbs>>
  /\ \/ \E planes \in 1 .. MaxPlanes :
          /\ objs' = [objs EXCEPT ![i].bo = NewHandle, ![i].planeCount = planes]
          /\ gem' = gem \cup {NewHandle}
          /\ planeGem' = ClearedHandles
          /\ pc' = "plane" /\ j' = 0 /\ UNCHANGED i
     \/ UNCHANGED <<objs, gem, planeGem>> /\ Fail

FirstPlaneOnly == TRUE

LastPlane == j + 1 = objs[i].planeCount

\* The handle and the pitch of plane j, and a DMA-BUF descriptor for it; any of
\* the three may fail.
ExportPlane ==
  /\ pc = "plane"
  /\ UNCHANGED <<type, heap, count, gem, fbs>>
  /\ \/ /\ planeGem' = [planeGem EXCEPT ![j] = objs[i].bo]
        /\ dmaBufs' = dmaBufs \cup {NewFd}
        /\ objs' = [objs EXCEPT ![i].fds[j] = NewFd]
        /\ j' = j + 1
        /\ pc' = IF LastPlane THEN "addfb" ELSE "plane"
        /\ UNCHANGED i
     \/ /\ planeGem' \in {planeGem, [planeGem EXCEPT ![j] = objs[i].bo]}
        /\ UNCHANGED <<dmaBufs, objs>>
        /\ Fail

\* ADDFB takes the first handle, ADDFB2 all four.
FbHandles ==
  IF type = "gbm" THEN {planeGem[0]} ELSE {planeGem[p] : p \in Planes} \ {0}

AddFb ==
  /\ pc = "addfb"
  /\ UNCHANGED <<type, heap, count, planeGem, dmaBufs, gem>>
  /\ \/ /\ fbs' = fbs \cup {[id |-> i + 1, handles |-> FbHandles]}
        /\ objs' = [objs EXCEPT ![i].fbid = i + 1]
        /\ i' = i + 1 /\ j' = 0
        /\ pc' = IF i' = BufferCount THEN "created" ELSE "bo"
     \/ /\ objs' = [objs EXCEPT ![i].fbid = -1]
        /\ UNCHANGED fbs
        /\ Fail

-----------------------------------------------------------------------------
(* kmr_buffer_destroy, on its own or from the error path.                  *)

Destroy ==
  /\ pc = "created"
  /\ pc' = "rmfb" /\ i' = 0 /\ j' = 0
  /\ UNCHANGED <<type, heap, count, objs, planeGem, dmaBufs, gem, fbs>>

FramebufferKept == fbs

\* DRM_IOCTL_MODE_RMFB refuses an id no framebuffer has, -1 included; an fbid of 0
\* is not passed to it. The fsync of the id before it has no effect here.
FramebuffersLeft == {fb \in fbs : fb.id # objs[i].fbid}

RmFb ==
  /\ pc = "rmfb"
  /\ fbs' = FramebuffersLeft
  /\ pc' = "destroy_bo"
  /\ UNCHANGED <<type, heap, count, i, j, objs, planeGem, dmaBufs, gem>>

\* gbm_bo_destroy closes the GEM handle behind the bo.
DestroyBo ==
  /\ pc = "destroy_bo"
  /\ gem' = gem \ {objs[i].bo}
  /\ pc' = "close" /\ j' = 0
  /\ UNCHANGED <<type, heap, count, i, objs, planeGem, dmaBufs, fbs>>

\* drmCloseBufferHandle is given the DMA-BUF descriptor: GEM_CLOSE closes the
\* handle of that number, if there is one, and the descriptor stays open.
CloseHandle(fd) ==
  /\ gem' = gem \ {fd}
  /\ UNCHANGED dmaBufs

ClosePlane ==
  /\ pc = "close"
  /\ j < objs[i].planeCount
  /\ CloseHandle(objs[i].fds[j])
  /\ j' = j + 1
  /\ UNCHANGED <<pc, type, heap, count, i, objs, planeGem, fbs>>

NextBuffer ==
  /\ pc = "close"
  /\ j = objs[i].planeCount
  /\ i' = i + 1
  /\ pc' = IF i' = count THEN "free" ELSE "rmfb"
  /\ UNCHANGED <<type, heap, count, j, objs, planeGem, dmaBufs, gem, fbs>>

Free ==
  /\ pc = "free"
  /\ heap' = {}
  /\ pc' = "done"
  /\ UNCHANGED <<type, count, i, j, objs, planeGem, dmaBufs, gem, fbs>>

-----------------------------------------------------------------------------
Create == AllocBuffer \/ AllocObjects \/ CreateDevice \/ CreateBo \/ ExportPlane \/ AddFb
Delete == Destroy \/ RmFb \/ DestroyBo \/ ClosePlane \/ NextBuffer \/ Free

Next == Create \/ Delete

Spec == Init /\ [][Next]_vars

-----------------------------------------------------------------------------
(* Properties.                                                             *)

\* A framebuffer is built from the GEM handle of its own buffer: nothing of the
\* previous turn of create_gbm_buffers is left in gemHandles[4], whatever the
\* number of planes the driver gives each bo (buffer.c:170, :111).
FbUsesOwnHandle == \A fb \in fbs : fb.handles = {objs[fb.id - 1].bo}

\* A buffer set that kmr_buffer_create returns is complete: each object has a bo
\* of the set's own, a framebuffer that was registered for it, and an open DMA-BUF
\* descriptor for every plane; no two planes share one and none is open beyond
\* those (buffer.c:155-240).
PlanesOf(b) == 0 .. objs[b].planeCount - 1
CreatedComplete ==
  pc = "created" =>
    /\ {objs[b].fbid : b \in Indices} = {fb.id : fb \in fbs}
    /\ Cardinality(fbs) = BufferCount
    /\ {objs[b].bo : b \in Indices} = gem \ OtherHandles
    /\ UNION {{objs[b].fds[p] : p \in PlanesOf(b)} : b \in Indices} = dmaBufs
    /\ \A a, b \in Indices : \A p \in PlanesOf(a), q \in PlanesOf(b) :
         objs[a].fds[p] = objs[b].fds[q] => a = b /\ p = q

\* When a bo is destroyed no framebuffer is built on it any more: the RMFB of
\* buffer.c:292 comes first, also when the creation failed half way.
FbRemovedFirst ==
  pc = "destroy_bo" => \A fb \in fbs : objs[i].bo \notin fb.handles

\* However far kmr_buffer_create got before a step failed, and after a successful
\* one, kmr_buffer_destroy leaves no framebuffer, no GEM handle of its own and
\* no allocation behind (buffer.c:266-307).
NothingLeft ==
  pc = "done" => heap = {} /\ fbs = {} /\ gem \subseteq OtherHandles

=============================================================================
