------------------------- MODULE BufferObjects_proofs -------------------------
(***************************************************************************)
(* For any number of buffers and planes and whichever call fails: every    *)
(* framebuffer is built on its own buffer's handle and removed before that *)
(* handle goes, and destroy finds everything create has made.              *)
(***************************************************************************)
EXTENDS BufferObjects, FiniteSetTheorems, WellFoundedInduction, TLAPS

-----------------------------------------------------------------------------
\* The lowest free number exists and is free.
LEMMA LowestFree ==
  ASSUME NEW taken, IsFiniteSet(taken), NEW first \in Nat
  PROVE  /\ Lowest(taken, first) \in Nat /\ Lowest(taken, first) >= first
         /\ Lowest(taken, first) \notin taken
  <1> DEFINE c == Cardinality(taken)
             S == {n \in first .. first + c : n \notin taken}
  <1>1. c \in Nat
    BY FS_CardinalityType
  <1>2. S # {}
    <2>1. SUFFICES ASSUME S = {} PROVE FALSE
      OBVIOUS
    <2>2. first .. first + c \subseteq taken
      BY <2>1
    <2>3. Cardinality(first .. first + c) <= c
      BY <2>2, FS_Subset
    <2>4. Cardinality(first .. first + c) = c + 1
      BY <1>1, FS_Interval
    <2>5. QED
      BY <1>1, <2>3, <2>4
  <1>3. \E x \in S : \A y \in S : x <= y
    <2> DEFINE R == OpToRel(<, Nat)
    <2>1. S \subseteq Nat
      BY <1>1
    <2>2. PICK x \in S : \A y \in S : ~(<<y, x>> \in R)
      <3> HIDE DEF S
      <3>1. QED
        BY <1>2, <2>1, NatLessThanWellFounded, WFMin
    <2>3. \A y \in S : ~(y < x)
      BY <2>1, <2>2 DEF OpToRel
    <2>4. QED
      BY <2>1, <2>3
  <1>4. Min(S) \in S
    BY <1>3 DEF Min
  <1>5. QED
    BY <1>1, <1>4 DEF Lowest

-----------------------------------------------------------------------------
(* The invariant.                                                          *)

Before == {"start", "objects", "device"}
Making == {"bo", "plane", "addfb"}
Unmaking == {"rmfb", "destroy_bo", "close"}
After == {"free", "done"}

Object == [bo : Nat, planeCount : 0 .. MaxPlanes, fds : [Planes -> Nat], fbid : -1 .. BufferCount]

ObjectTypes ==
  /\ pc \in Locations /\ type \in Types
  /\ heap \subseteq {"buffer", "objects", "gbm"} /\ (pc \in {"start", "done"} => heap = {})
  /\ count \in {0, BufferCount} /\ (pc \notin {"start", "objects", "free", "done"} => count = BufferCount)
  /\ pc \in {"start", "objects"} => count = 0
  /\ i \in 0 .. BufferCount /\ j \in 0 .. MaxPlanes
  /\ pc \in Before => i = 0
  /\ pc \in Making \cup Unmaking => i \in Indices
  /\ objs \in [Indices -> Object]
  /\ planeGem \in [Planes -> Nat]
  /\ dmaBufs \subseteq Nat /\ IsFiniteSet(dmaBufs)
  /\ gem \subseteq Nat \ {0} /\ IsFiniteSet(gem)

\* Where the planes of buffer i are: gemHandles[4] holds its handle j times.
PlanesInv ==
  /\ pc = "plane" => j < objs[i].planeCount
  /\ pc = "addfb" => j > 0
  /\ pc = "close" => j <= objs[i].planeCount
  /\ pc \in {"plane", "addfb"} =>
       \A p \in Planes : planeGem[p] = IF p < j THEN objs[i].bo ELSE 0

\* A framebuffer belongs to a buffer create has been through and destroy not.
FbInv ==
  /\ \A fb \in fbs :
       /\ fb.id \in 1 .. BufferCount
       /\ fb.handles = {objs[fb.id - 1].bo} /\ objs[fb.id - 1].bo # 0
       /\ objs[fb.id - 1].fbid = fb.id
       /\ pc \in Making => fb.id <= i
       /\ pc = "rmfb" => fb.id > i
       /\ pc \in {"destroy_bo", "close"} => fb.id > i + 1
  /\ pc \in Before \cup After => fbs = {}

\* The first buffer whose handle destroy has not closed.
FirstLeft ==
  CASE pc \in {"rmfb", "destroy_bo"} -> i
    [] pc = "close" -> i + 1
    [] pc \in After -> BufferCount
    [] OTHER -> 0

\* While buffers are made each has a handle of its own, and no open handle is
\* forgotten until its buffer is destroyed.
GemInv ==
  /\ \A a, b \in Indices : a # b /\ objs[a].bo # 0 => objs[a].bo # objs[b].bo
  /\ pc \in Before \cup Making \cup {"created"} =>
       \A b \in Indices : objs[b].bo # 0 => objs[b].bo \in gem
  /\ pc \in Before \cup {"bo"} => \A b \in Indices : b >= i => objs[b].bo = 0
  /\ pc \in {"plane", "addfb"} =>
       objs[i].bo # 0 /\ \A b \in Indices : b > i => objs[b].bo = 0
  /\ \A h \in gem : h \in OtherHandles \/ \E b \in Indices : b >= FirstLeft /\ objs[b].bo = h

BufferInv == ObjectTypes /\ PlanesInv /\ FbInv /\ GemInv

LEMMA BoundsAreNat ==
  /\ BufferCount \in Nat /\ BufferCount > 0 /\ MaxPlanes \in Nat /\ MaxPlanes > 0
  /\ 0 \in Indices /\ 0 \in Planes
  /\ \A b \in Indices : b \in Nat /\ b < BufferCount
  /\ \A p \in Planes : p \in Nat /\ p < MaxPlanes
  BY BufferAssumption DEF Indices, Planes

LEMMA BufferInit == Init => BufferInv
  <1> SUFFICES ASSUME Init PROVE BufferInv
    OBVIOUS
  <1>1. NoObject \in Object
    BY BoundsAreNat DEF NoObject, Object
  <1>2. \A b \in Indices : objs[b].bo = 0
    BY DEF Init, NoObject
  <1>3. ObjectTypes
    <2>1. objs \in [Indices -> Object] /\ planeGem \in [Planes -> Nat]
      BY <1>1 DEF Init
    <2>2. i \in 0 .. BufferCount /\ j \in 0 .. MaxPlanes
      BY BoundsAreNat DEF Init
    <2>3. /\ dmaBufs \subseteq Nat /\ IsFiniteSet(dmaBufs)
          /\ gem \subseteq Nat \ {0} /\ IsFiniteSet(gem)
      BY FS_EmptySet, BufferAssumption DEF Init
    <2>4. QED
      BY <2>1, <2>2, <2>3 DEF Init, ObjectTypes, Locations, Making, Unmaking, Before
  <1>4. PlanesInv /\ FbInv
    BY DEF Init, PlanesInv, FbInv
  <1>5. GemInv
    BY <1>2 DEF Init, GemInv, Making
  <1>6. QED
    BY <1>3, <1>4, <1>5 DEF BufferInv

\* Giving up: destroy starts at the first buffer, and has everything to find.
LEMMA GivingUp ==
  ASSUME BufferInv, pc \in {"objects", "device", "bo", "plane", "addfb"},
         pc' = "rmfb", i' = 0, j' = 0, count' = BufferCount,
         UNCHANGED <<type, dmaBufs, gem, fbs>>,
         heap' \subseteq {"buffer", "objects", "gbm"},
         planeGem' \in [Planes -> Nat], objs' \in [Indices -> Object],
         \A b \in Indices : objs'[b].bo = objs[b].bo,
         \A b \in Indices : b # i => objs'[b].fbid = objs[b].fbid
  PROVE  BufferInv'
  <1>0. ObjectTypes /\ PlanesInv /\ FbInv /\ GemInv
    BY DEF BufferInv
  <1>1. ObjectTypes'
    <2>1. i' \in 0 .. BufferCount /\ j' \in 0 .. MaxPlanes /\ i' \in Indices
      BY BoundsAreNat
    <2>2. QED
      BY <1>0, <2>1 DEF ObjectTypes, Locations, Before
  <1>2. PlanesInv'
    BY DEF PlanesInv
  <1>3. FbInv'
    <2>1. ASSUME NEW fb \in fbs
          PROVE  /\ fb.id \in 1 .. BufferCount /\ fb.id > 0
                 /\ fb.handles = {objs'[fb.id - 1].bo} /\ objs'[fb.id - 1].bo # 0
                 /\ objs'[fb.id - 1].fbid = fb.id
      <3>1. fb.id \in 1 .. BufferCount /\ fb.id - 1 \in Indices /\ fb.id > 0
        BY <1>0, BoundsAreNat DEF FbInv, Indices
      <3>2. pc \in Making /\ fb.id <= i
        BY <1>0 DEF FbInv, Making, Before
      <3>3. fb.id - 1 # i
        BY <1>0, <3>1, <3>2 DEF ObjectTypes
      <3>4. QED
        BY <1>0, <3>1, <3>3 DEF FbInv
    <2>2. QED
      BY <2>1 DEF FbInv, Making, Before, After
  <1>4. GemInv'
    <2>1. FirstLeft' = 0 /\ FirstLeft = 0
      BY DEF FirstLeft, After
    <2>2. QED
      BY <1>0, <2>1 DEF GemInv, Before, Making
  <1>5. QED
    BY <1>1, <1>2, <1>3, <1>4 DEF BufferInv

\* Before the first buffer nothing is held.
LEMMA AllocStep ==
  ASSUME BufferInv, AllocBuffer \/ AllocObjects \/ CreateDevice
  PROVE  BufferInv'
  <1>0. ObjectTypes /\ PlanesInv /\ FbInv /\ GemInv
    BY DEF BufferInv
  <1>1. /\ UNCHANGED <<type, objs, planeGem, dmaBufs, gem, fbs>> /\ pc \in Before
        /\ heap' \subseteq {"buffer", "objects", "gbm"}
    BY <1>0 DEF AllocBuffer, AllocObjects, CreateDevice, Before, ObjectTypes
  <1>2. /\ i = 0 /\ fbs = {} /\ \A b \in Indices : objs[b].bo = 0
        /\ gem \subseteq OtherHandles
    <2>1. i = 0 /\ fbs = {}
      BY <1>0, <1>1 DEF ObjectTypes, FbInv
    <2>2. \A b \in Indices : b >= 0
      BY BoundsAreNat
    <2>3. \A b \in Indices : objs[b].bo = 0
      BY <1>0, <1>1, <2>1, <2>2 DEF GemInv
    <2>4. gem \subseteq OtherHandles
      BY <1>0, <1>1, <2>3 DEF GemInv, ObjectTypes
    <2>5. QED
      BY <2>1, <2>3, <2>4
  <1>3. CASE pc' = "rmfb"
    <2>1. Fail /\ count' = BufferCount /\ pc \in {"objects", "device"}
      BY <1>0, <1>1, <1>3, BoundsAreNat DEF AllocBuffer, AllocObjects, CreateDevice, CountAtAlloc,
         Fail, ObjectTypes, Before
    <2>2. QED
      BY <1>0, <1>1, <1>3, <2>1, GivingUp DEF Fail, ObjectTypes
  <1>4. CASE pc' # "rmfb"
    <2>1. /\ i' = 0 /\ j' \in {0, j}
          /\ pc' \in {"objects", "device", "bo", "free", "done"}
          /\ pc' = "done" => heap' = {}
          /\ pc' = "objects" => count' = 0
          /\ pc' \in {"device", "bo"} => count' = BufferCount
          /\ count' \in {0, BufferCount}
      BY <1>0, <1>2, <1>4, BoundsAreNat DEF AllocBuffer, AllocObjects, CreateDevice, CountAtAlloc,
         Fail, ObjectTypes
    <2>2. i' \in 0 .. BufferCount /\ j' \in 0 .. MaxPlanes /\ i' \in Indices
      BY <1>0, <2>1, BoundsAreNat DEF ObjectTypes
    <2>3. ObjectTypes'
      BY <1>0, <1>1, <2>1, <2>2 DEF ObjectTypes, Locations, Before
    <2>4. PlanesInv'
      BY <2>1 DEF PlanesInv
    <2>5. FbInv'
      BY <1>1, <1>2 DEF FbInv
    <2>6. GemInv'
      BY <1>1, <1>2, <2>1 DEF GemInv, Before, Making
    <2>7. QED
      BY <2>3, <2>4, <2>5, <2>6 DEF BufferInv
  <1>5. QED
    BY <1>3, <1>4

LEMMA CreateBoStep ==
  ASSUME BufferInv, CreateBo
  PROVE  BufferInv'
  <1>0. ObjectTypes /\ PlanesInv /\ FbInv /\ GemInv
    BY DEF BufferInv
  <1>1. /\ UNCHANGED <<type, heap, count, dmaBufs, fbs>> /\ pc = "bo" /\ i \in Indices
        /\ count = BufferCount
    BY <1>0 DEF CreateBo, ObjectTypes, Making
  <1>2. CASE UNCHANGED <<objs, gem, planeGem>> /\ Fail
    <2>1. pc' = "rmfb" /\ i' = 0 /\ j' = 0
      BY <1>1, <1>2, BoundsAreNat DEF Fail
    <2>2. QED
      BY <1>0, <1>1, <1>2, <2>1, GivingUp DEF ObjectTypes
  <1>3. ASSUME NEW planes \in 1 .. MaxPlanes,
               objs' = [objs EXCEPT ![i].bo = NewHandle, ![i].planeCount = planes],
               gem' = gem \cup {NewHandle}, planeGem' = ClearedHandles,
               pc' = "plane", j' = 0, i' = i
        PROVE  BufferInv'
    <2> DEFINE h == NewHandle
    <2>1. h \in Nat /\ h # 0 /\ h \notin gem
      BY <1>0, LowestFree DEF NewHandle, ObjectTypes
    <2> HIDE DEF h
    <2>2. objs \in [Indices -> Object] /\ objs[i] \in Object
      BY <1>0, <1>1 DEF ObjectTypes
    <2>3. objs' \in [Indices -> Object]
      <3>1. [objs[i] EXCEPT !.bo = h, !.planeCount = planes] \in Object
        <4>1. planes \in 0 .. MaxPlanes
          BY BoundsAreNat
        <4>2. QED
          BY <2>1, <2>2, <4>1 DEF Object
      <3>2. QED
        BY <1>1, <1>3, <2>2, <3>1 DEF h
    <2>4. /\ objs'[i].bo = h /\ objs'[i].planeCount = planes
          /\ \A b \in Indices : b # i => objs'[b] = objs[b]
      BY <1>1, <1>3, <2>2 DEF Object, h
    <2>5. ObjectTypes'
      <3>1. gem' \subseteq Nat \ {0} /\ IsFiniteSet(gem')
        BY <1>0, <1>3, <2>1, FS_AddElement DEF ObjectTypes, h
      <3>2. j' \in 0 .. MaxPlanes /\ planeGem' \in [Planes -> Nat] /\ i' \in 0 .. BufferCount
        BY <1>0, <1>3, BoundsAreNat DEF ClearedHandles, ObjectTypes
      <3>3. pc' \in Locations
        BY <1>3 DEF Locations
      <3>4. QED
        BY <1>0, <1>1, <1>3, <2>3, <3>1, <3>2, <3>3 DEF ObjectTypes, Before
    <2>6. PlanesInv'
      <3>1. 0 < planes /\ \A p \in Planes : ~(p < 0)
        BY BoundsAreNat
      <3>2. \A p \in Planes : planeGem'[p] = 0
        BY <1>3 DEF ClearedHandles
      <3>3. QED
        BY <1>3, <2>4, <3>1, <3>2 DEF PlanesInv
    <2>7. FbInv'
      <3>1. ASSUME NEW fb \in fbs
            PROVE  /\ fb.id \in 1 .. BufferCount /\ fb.id <= i
                   /\ objs'[fb.id - 1] = objs[fb.id - 1]
        <4>1. fb.id \in 1 .. BufferCount /\ fb.id <= i
          BY <1>0, <1>1 DEF FbInv, Making
        <4>2. fb.id - 1 \in Indices /\ fb.id - 1 # i
          BY <1>1, <4>1, BoundsAreNat DEF Indices
        <4>3. QED
          BY <2>4, <4>1, <4>2
      <3>2. QED
        BY <1>0, <1>1, <1>3, <3>1 DEF FbInv, Before, After
    <2>8. GemInv'
      <3>1. FirstLeft' = 0 /\ FirstLeft = 0
        BY <1>1, <1>3 DEF FirstLeft, After
      <3>2. \A b \in Indices : objs[b].bo # 0 => objs[b].bo \in gem
        BY <1>0, <1>1 DEF GemInv, Making
      <3>3. /\ \A b \in Indices : objs'[b].bo = IF b = i THEN h ELSE objs[b].bo
            /\ objs[i].bo = 0
        <4>1. i >= i
          BY <1>1, BoundsAreNat
        <4>2. objs[i].bo = 0
          BY <1>0, <1>1, <4>1 DEF GemInv
        <4>3. QED
          BY <2>4, <4>2
      <3>4. \A a, b \in Indices : a # b /\ objs'[a].bo # 0 => objs'[a].bo # objs'[b].bo
        BY <1>0, <2>1, <3>2, <3>3 DEF GemInv
      <3>5. \A b \in Indices : objs'[b].bo # 0 => objs'[b].bo \in gem'
        <4>1. h \in gem' /\ gem \subseteq gem'
          BY <1>3 DEF h
        <4>2. QED
          BY <3>2, <3>3, <4>1
      <3>6. objs'[i].bo # 0 /\ \A b \in Indices : b > i => objs'[b].bo = 0
        <4>1. \A b \in Indices : b > i => b >= i /\ b # i
          BY <1>1, BoundsAreNat
        <4>2. QED
          BY <1>0, <1>1, <2>1, <3>3, <4>1 DEF GemInv
      <3>7. ASSUME NEW k \in gem'
            PROVE  k \in OtherHandles \/ \E b \in Indices : b >= 0 /\ objs'[b].bo = k
        <4>1. CASE k = h
          <5>1. i >= 0
            BY <1>1, BoundsAreNat
          <5>2. QED
            BY <1>1, <3>3, <4>1, <5>1
        <4>2. CASE k # h /\ k \notin OtherHandles
          <5>1. k \in gem
            BY <1>3, <4>2 DEF h
          <5>2. PICK b \in Indices : b >= 0 /\ objs[b].bo = k
            BY <1>0, <3>1, <4>2, <5>1 DEF GemInv
          <5>3. k # 0
            BY <1>0, <5>1 DEF ObjectTypes
          <5>4. b # i
            BY <3>3, <5>2, <5>3
          <5>5. QED
            BY <3>3, <5>2, <5>4
        <4>3. QED
          BY <4>1, <4>2
      <3>8. QED
        BY <1>3, <3>1, <3>4, <3>5, <3>6, <3>7 DEF GemInv, Before
    <2>9. QED
      BY <2>5, <2>6, <2>7, <2>8 DEF BufferInv
  <1>4. QED
    BY <1>2, <1>3 DEF CreateBo

LEMMA ExportPlaneStep ==
  ASSUME BufferInv, ExportPlane
  PROVE  BufferInv'
  <1>0. ObjectTypes /\ PlanesInv /\ FbInv /\ GemInv
    BY DEF BufferInv
  <1>1. /\ UNCHANGED <<type, heap, count, gem, fbs>> /\ pc = "plane" /\ i \in Indices
        /\ count = BufferCount
    BY <1>0 DEF ExportPlane, ObjectTypes, Making
  <1>2. objs \in [Indices -> Object] /\ objs[i] \in Object /\ planeGem \in [Planes -> Nat]
    BY <1>0, <1>1 DEF ObjectTypes
  <1>3. /\ objs[i].bo \in Nat /\ objs[i].planeCount \in 0 .. MaxPlanes
        /\ objs[i].fds \in [Planes -> Nat] /\ j \in Nat /\ j < objs[i].planeCount
    BY <1>0, <1>1, <1>2 DEF Object, PlanesInv, ObjectTypes
  <1>4. j \in Planes /\ j + 1 \in 0 .. MaxPlanes
    BY <1>3, BoundsAreNat DEF Planes
  <1>5. [planeGem EXCEPT ![j] = objs[i].bo] \in [Planes -> Nat]
    BY <1>2, <1>3
  <1>6. CASE /\ planeGem' \in {planeGem, [planeGem EXCEPT ![j] = objs[i].bo]}
             /\ UNCHANGED <<dmaBufs, objs>> /\ Fail
    <2>1. pc' = "rmfb" /\ i' = 0 /\ j' = 0
      BY <1>1, <1>6, BoundsAreNat DEF Fail
    <2>2. planeGem' \in [Planes -> Nat]
      BY <1>2, <1>5, <1>6
    <2>3. QED
      BY <1>0, <1>1, <1>6, <2>1, <2>2, GivingUp DEF ObjectTypes
  <1>7. CASE /\ planeGem' = [planeGem EXCEPT ![j] = objs[i].bo]
             /\ dmaBufs' = dmaBufs \cup {NewFd}
             /\ objs' = [objs EXCEPT ![i].fds[j] = NewFd]
             /\ j' = j + 1 /\ pc' = (IF LastPlane THEN "addfb" ELSE "plane") /\ i' = i
    <2>1. NewFd \in Nat
      <3>1. IsFiniteSet(OpenFds \cup dmaBufs)
        BY <1>0, BufferAssumption, FS_Union DEF ObjectTypes
      <3>2. QED
        BY <3>1, LowestFree DEF NewFd
    <2>2. [objs[i].fds EXCEPT ![j] = NewFd] \in [Planes -> Nat]
      BY <1>3, <2>1
    <2>3. [objs[i] EXCEPT !.fds = [objs[i].fds EXCEPT ![j] = NewFd]] \in Object
      BY <1>2, <2>2 DEF Object
    <2>4. /\ objs' \in [Indices -> Object]
          /\ \A b \in Indices : b # i => objs'[b] = objs[b]
          /\ objs'[i] = [objs[i] EXCEPT !.fds = [objs[i].fds EXCEPT ![j] = NewFd]]
      BY <1>1, <1>2, <1>7, <2>3
    <2>5. \A b \in Indices : /\ objs'[b].bo = objs[b].bo /\ objs'[b].fbid = objs[b].fbid
                             /\ objs'[b].planeCount = objs[b].planeCount
      BY <1>2, <2>4 DEF Object
    <2>6. pc' \in {"plane", "addfb"} /\ (pc' = "plane" => j + 1 # objs[i].planeCount)
      BY <1>7 DEF LastPlane
    <2>7. ObjectTypes'
      <3>1. dmaBufs' \subseteq Nat /\ IsFiniteSet(dmaBufs')
        BY <1>0, <1>7, <2>1, FS_AddElement DEF ObjectTypes
      <3>2. pc' \in Locations
        BY <2>6 DEF Locations
      <3>3. j' \in 0 .. MaxPlanes /\ planeGem' \in [Planes -> Nat]
        BY <1>4, <1>5, <1>7
      <3>4. QED
        BY <1>0, <1>1, <1>7, <2>4, <2>6, <3>1, <3>2, <3>3 DEF ObjectTypes, Before
    <2>8. PlanesInv'
      <3>1. pc' = "plane" => j + 1 < objs[i].planeCount
        BY <1>3, <2>6
      <3>2. ASSUME NEW p \in Planes
            PROVE  planeGem'[p] = IF p < j + 1 THEN objs[i].bo ELSE 0
        <4>1. planeGem[p] = IF p < j THEN objs[i].bo ELSE 0
          BY <1>0, <1>1 DEF PlanesInv
        <4>2. CASE p = j
          BY <1>2, <1>3, <1>7, <4>2
        <4>3. CASE p # j
          <5>1. planeGem'[p] = planeGem[p] /\ (p < j + 1 <=> p < j)
            BY <1>2, <1>3, <1>7, <4>3, BoundsAreNat
          <5>2. QED
            BY <4>1, <5>1
        <4>4. QED
          BY <4>2, <4>3
      <3>3. j + 1 > 0 /\ pc' # "close"
        BY <1>3, <2>6
      <3>4. QED
        BY <1>1, <1>7, <2>5, <3>1, <3>2, <3>3 DEF PlanesInv
    <2>9. FbInv'
      <3>1. \A fb \in fbs : fb.id \in 1 .. BufferCount /\ fb.id - 1 \in Indices
        BY <1>0, BoundsAreNat DEF FbInv, Indices
      <3>2. QED
        BY <1>0, <1>1, <1>7, <2>5, <2>6, <3>1 DEF FbInv, Making, Before, After
    <2>10. GemInv'
      <3>1. FirstLeft' = 0 /\ FirstLeft = 0
        BY <1>1, <2>6 DEF FirstLeft, After
      <3>2. QED
        BY <1>0, <1>1, <1>7, <2>5, <2>6, <3>1 DEF GemInv, Before, Making
    <2>11. QED
      BY <2>7, <2>8, <2>9, <2>10 DEF BufferInv
  <1>8. QED
    BY <1>6, <1>7 DEF ExportPlane

LEMMA AddFbStep ==
  ASSUME BufferInv, AddFb
  PROVE  BufferInv'
  <1>0. ObjectTypes /\ PlanesInv /\ FbInv /\ GemInv
    BY DEF BufferInv
  <1>1. /\ UNCHANGED <<type, heap, count, planeGem, dmaBufs, gem>> /\ pc = "addfb" /\ i \in Indices
        /\ count = BufferCount
    BY <1>0 DEF AddFb, ObjectTypes, Making
  <1>2. objs \in [Indices -> Object] /\ objs[i] \in Object /\ i \in Nat /\ i < BufferCount
    BY <1>0, <1>1, BoundsAreNat DEF ObjectTypes
  <1>3. ASSUME NEW id \in -1 .. BufferCount, objs' = [objs EXCEPT ![i].fbid = id]
        PROVE  /\ objs' \in [Indices -> Object] /\ objs'[i].fbid = id
               /\ \A b \in Indices : objs'[b].bo = objs[b].bo
               /\ \A b \in Indices : b # i => objs'[b].fbid = objs[b].fbid
    <2>1. [objs[i] EXCEPT !.fbid = id] \in Object
      BY <1>2 DEF Object
    <2>2. /\ objs'[i] = [objs[i] EXCEPT !.fbid = id]
          /\ \A b \in Indices : b # i => objs'[b] = objs[b]
      BY <1>1, <1>2, <1>3
    <2>3. objs' \in [Indices -> Object]
      BY <1>1, <1>2, <1>3, <2>1
    <2>4. objs'[i].fbid = id /\ objs'[i].bo = objs[i].bo
      BY <1>2, <2>2 DEF Object
    <2>5. QED
      BY <2>2, <2>3, <2>4
  <1>4. CASE objs' = [objs EXCEPT ![i].fbid = -1] /\ UNCHANGED fbs /\ Fail
    <2>1. pc' = "rmfb" /\ i' = 0 /\ j' = 0
      BY <1>1, <1>4, BoundsAreNat DEF Fail
    <2>2. -1 \in -1 .. BufferCount
      BY BoundsAreNat
    <2>3. /\ objs' \in [Indices -> Object]
          /\ \A b \in Indices : objs'[b].bo = objs[b].bo
          /\ \A b \in Indices : b # i => objs'[b].fbid = objs[b].fbid
      BY <1>3, <1>4, <2>2
    <2>4. QED
      BY <1>0, <1>1, <1>4, <2>1, <2>3, GivingUp DEF ObjectTypes
  <1>5. CASE /\ fbs' = fbs \cup {[id |-> i + 1, handles |-> FbHandles]}
             /\ objs' = [objs EXCEPT ![i].fbid = i + 1]
             /\ i' = i + 1 /\ j' = 0
             /\ pc' = (IF i' = BufferCount THEN "created" ELSE "bo")
    <2>1. i + 1 \in -1 .. BufferCount /\ i + 1 \in 1 .. BufferCount /\ i + 1 \in 0 .. BufferCount
      BY <1>2, BoundsAreNat
    <2>2. /\ objs' \in [Indices -> Object] /\ objs'[i].fbid = i + 1
          /\ \A b \in Indices : objs'[b].bo = objs[b].bo
          /\ \A b \in Indices : b # i => objs'[b].fbid = objs[b].fbid
      BY <1>3, <1>5, <2>1
    <2>3. FbHandles = {objs[i].bo} /\ objs[i].bo # 0
      <3>1. 0 \in Planes /\ 0 < j
        BY <1>0, <1>1, BoundsAreNat DEF PlanesInv, ObjectTypes
      <3>2. planeGem[0] = objs[i].bo /\ \A p \in Planes : planeGem[p] \in {objs[i].bo, 0}
        BY <1>0, <1>1, <3>1 DEF PlanesInv
      <3>3. objs[i].bo # 0
        BY <1>0, <1>1 DEF GemInv
      <3>4. QED
        BY <3>1, <3>2, <3>3 DEF FbHandles
    <2>4. /\ pc' \in {"created", "bo"} /\ (pc' = "bo" => i' \in Indices)
      BY <1>2, <1>5, BoundsAreNat DEF Indices
    <2>5. ObjectTypes'
      <3>1. j' \in 0 .. MaxPlanes /\ pc' \in Locations
        BY <1>5, <2>4, BoundsAreNat DEF Locations
      <3>2. QED
        BY <1>0, <1>1, <1>5, <2>1, <2>2, <2>4, <3>1 DEF ObjectTypes, Before, Making, Unmaking
    <2>6. PlanesInv'
      BY <2>4 DEF PlanesInv
    <2>7. FbInv'
      <3>1. ASSUME NEW fb \in fbs'
            PROVE  /\ fb.id \in 1 .. BufferCount
                   /\ fb.handles = {objs'[fb.id - 1].bo} /\ objs'[fb.id - 1].bo # 0
                   /\ objs'[fb.id - 1].fbid = fb.id
                   /\ fb.id <= i + 1
        <4>1. CASE fb = [id |-> i + 1, handles |-> FbHandles]
          <5>1. fb.id = i + 1 /\ fb.id - 1 = i /\ fb.handles = FbHandles /\ fb.id <= i + 1
            BY <1>2, <4>1
          <5>2. QED
            BY <1>1, <2>1, <2>2, <2>3, <5>1
        <4>2. CASE fb \in fbs
          <5>1. fb.id \in 1 .. BufferCount /\ fb.id <= i
            BY <1>0, <1>1, <4>2 DEF FbInv, Making
          <5>2. fb.id - 1 \in Indices /\ fb.id - 1 # i /\ fb.id <= i + 1
            BY <1>2, <5>1, BoundsAreNat DEF Indices
          <5>3. QED
            BY <1>0, <2>2, <4>2, <5>1, <5>2 DEF FbInv
        <4>3. QED
          BY <1>5, <4>1, <4>2
      <3>2. QED
        BY <1>5, <2>4, <3>1 DEF FbInv, Before, After
    <2>8. GemInv'
      <3>1. FirstLeft' = 0 /\ FirstLeft = 0
        BY <1>1, <2>4 DEF FirstLeft, After
      <3>2. \A b \in Indices : b >= i + 1 => b > i
        BY <1>2, BoundsAreNat
      <3>3. QED
        BY <1>0, <1>1, <1>5, <2>2, <2>4, <3>1, <3>2 DEF GemInv, Before, Making
    <2>9. QED
      BY <2>5, <2>6, <2>7, <2>8 DEF BufferInv
  <1>6. QED
    BY <1>4, <1>5 DEF AddFb

-----------------------------------------------------------------------------
(* Destroy.                                                                *)

LEMMA RmFbStep ==
  ASSUME BufferInv, Destroy \/ RmFb
  PROVE  BufferInv'
  <1>0. ObjectTypes /\ PlanesInv /\ FbInv /\ GemInv
    BY DEF BufferInv
  <1>1. /\ UNCHANGED <<type, heap, count, objs, planeGem, dmaBufs, gem>>
        /\ count = BufferCount
    BY <1>0 DEF Destroy, RmFb, ObjectTypes
  <1>2. CASE Destroy
    <2>1. pc = "created" /\ pc' = "rmfb" /\ i' = 0 /\ j' = 0 /\ fbs' = fbs
      BY <1>2 DEF Destroy
    <2>2. i' \in Indices /\ i' \in 0 .. BufferCount /\ j' \in 0 .. MaxPlanes /\ pc' \in Locations
      BY <2>1, BoundsAreNat DEF Locations
    <2>3. ObjectTypes'
      BY <1>0, <1>1, <2>1, <2>2 DEF ObjectTypes, Before
    <2>4. PlanesInv'
      BY <2>1 DEF PlanesInv
    <2>5. \A fb \in fbs : fb.id > 0
      BY <1>0 DEF FbInv
    <2>6. FbInv'
      BY <1>0, <1>1, <2>1, <2>5 DEF FbInv, Making, Before, After
    <2>7. FirstLeft' = 0 /\ FirstLeft = 0
      BY <2>1 DEF FirstLeft, After
    <2>8. GemInv'
      BY <1>0, <1>1, <2>1, <2>7 DEF GemInv, Before, Making
    <2>9. QED
      BY <2>3, <2>4, <2>6, <2>8 DEF BufferInv
  <1>3. CASE RmFb
    <2>1. /\ pc = "rmfb" /\ pc' = "destroy_bo" /\ i' = i /\ j' = j
          /\ fbs' = {fb \in fbs : fb.id # objs[i].fbid} /\ i \in Indices
      BY <1>0, <1>3 DEF RmFb, FramebuffersLeft, ObjectTypes, Unmaking
    <2>2. ObjectTypes'
      BY <1>0, <1>1, <2>1 DEF ObjectTypes, Locations, Before, Unmaking
    <2>3. PlanesInv'
      BY <2>1 DEF PlanesInv
    <2>4. ASSUME NEW fb \in fbs' PROVE fb.id > i + 1
      <3>1. fb \in fbs /\ fb.id # objs[i].fbid
        BY <2>1
      <3>2. fb.id \in 1 .. BufferCount /\ fb.id > i /\ objs[fb.id - 1].fbid = fb.id /\ i \in Nat
        BY <1>0, <2>1, <3>1, BoundsAreNat DEF FbInv
      <3>3. fb.id # i + 1
        <4>1. fb.id = i + 1 => fb.id - 1 = i
          BY <3>2
        <4>2. QED
          BY <3>1, <3>2, <4>1
      <3>4. QED
        BY <3>2, <3>3
    <2>5. FbInv'
      BY <1>0, <1>1, <2>1, <2>4 DEF FbInv, Making, Before, After
    <2>6. FirstLeft' = i /\ FirstLeft = i
      BY <2>1 DEF FirstLeft, After
    <2>7. GemInv'
      BY <1>0, <1>1, <2>1, <2>6 DEF GemInv, Before, Making
    <2>8. QED
      BY <2>2, <2>3, <2>5, <2>7 DEF BufferInv
  <1>4. QED
    BY <1>2, <1>3

LEMMA CloseStep ==
  ASSUME BufferInv, DestroyBo \/ ClosePlane
  PROVE  BufferInv'
  <1>0. ObjectTypes /\ PlanesInv /\ FbInv /\ GemInv
    BY DEF BufferInv
  <1>1. /\ UNCHANGED <<type, heap, count, i, objs, planeGem, dmaBufs, fbs>>
        /\ pc \in {"destroy_bo", "close"} /\ pc' = "close" /\ gem' \subseteq gem
        /\ i \in Indices
    BY <1>0 DEF DestroyBo, ClosePlane, CloseHandle, ObjectTypes, Unmaking
  <1>2. objs[i] \in Object
    BY <1>0, <1>1 DEF ObjectTypes
  <1>3. objs[i].planeCount \in 0 .. MaxPlanes
    BY <1>2 DEF Object
  <1>4. j' \in 0 .. MaxPlanes /\ j' <= objs[i].planeCount
    <2>1. CASE DestroyBo
      BY <1>3, <2>1, BoundsAreNat DEF DestroyBo
    <2>2. CASE ClosePlane
      <3>1. j' = j + 1 /\ j < objs[i].planeCount /\ j \in Nat
        BY <1>0, <2>2, BoundsAreNat DEF ClosePlane, ObjectTypes
      <3>2. QED
        BY <1>3, <3>1, BoundsAreNat
    <2>3. QED
      BY <2>1, <2>2
  <1>5. ObjectTypes'
    <2>1. gem' \subseteq Nat \ {0} /\ IsFiniteSet(gem')
      BY <1>0, <1>1, FS_Subset DEF ObjectTypes
    <2>2. pc' \in Locations
      BY <1>1 DEF Locations
    <2>3. QED
      BY <1>0, <1>1, <1>4, <2>1, <2>2 DEF ObjectTypes, Before
  <1>6. PlanesInv'
    BY <1>1, <1>4 DEF PlanesInv
  <1>7. FbInv'
    BY <1>0, <1>1 DEF FbInv, Making, Before, After
  <1>8. GemInv'
    <2>1. FirstLeft' = i + 1
      BY <1>1 DEF FirstLeft, After
    <2>2. ASSUME NEW h \in gem', h \notin OtherHandles
          PROVE  \E b \in Indices : b >= i + 1 /\ objs[b].bo = h
      <3>1. PICK b \in Indices : b >= FirstLeft /\ objs[b].bo = h
        BY <1>0, <1>1, <2>2 DEF GemInv
      <3>2. CASE ClosePlane
        <4>1. FirstLeft = i + 1
          BY <3>2 DEF ClosePlane, FirstLeft, After
        <4>2. QED
          BY <3>1, <4>1
      <3>3. CASE DestroyBo
        <4>1. FirstLeft = i /\ h # objs[i].bo
          BY <3>3 DEF DestroyBo, FirstLeft, After
        <4>2. b # i
          BY <3>1, <4>1
        <4>3. b >= i + 1
          BY <1>1, <3>1, <4>1, <4>2, BoundsAreNat
        <4>4. QED
          BY <3>1, <4>3
      <3>4. QED
        BY <3>2, <3>3
    <2>3. QED
      BY <1>0, <1>1, <2>1, <2>2 DEF GemInv, Before, Making
  <1>9. QED
    BY <1>5, <1>6, <1>7, <1>8 DEF BufferInv

LEMMA NextBufferStep ==
  ASSUME BufferInv, NextBuffer \/ Free
  PROVE  BufferInv'
  <1>0. ObjectTypes /\ PlanesInv /\ FbInv /\ GemInv
    BY DEF BufferInv
  <1>1. UNCHANGED <<type, count, objs, planeGem, dmaBufs, gem, fbs, j>>
    BY DEF NextBuffer, Free
  <1>2. CASE NextBuffer
    <2>1. /\ pc = "close" /\ i' = i + 1 /\ heap' = heap /\ count = BufferCount /\ i \in Indices
          /\ pc' = IF i + 1 = BufferCount THEN "free" ELSE "rmfb"
      BY <1>0, <1>2 DEF NextBuffer, ObjectTypes, Unmaking
    <2>2. i + 1 \in 0 .. BufferCount /\ (pc' = "rmfb" => i + 1 \in Indices) /\ pc' \in {"free", "rmfb"}
      BY <2>1, BoundsAreNat DEF Indices
    <2>3. ObjectTypes'
      <3>1. pc' \in Locations
        BY <2>2 DEF Locations
      <3>2. QED
        BY <1>0, <1>1, <2>1, <2>2, <3>1 DEF ObjectTypes, Before, Making, Unmaking
    <2>4. PlanesInv'
      BY <2>2 DEF PlanesInv
    <2>5. pc' = "free" => fbs = {}
      <3>1. \A fb \in fbs : fb.id \in 1 .. BufferCount /\ fb.id > i + 1
        BY <1>0, <2>1 DEF FbInv
      <3>2. QED
        BY <2>1, <3>1, BoundsAreNat
    <2>6. FbInv'
      BY <1>0, <1>1, <2>1, <2>2, <2>5 DEF FbInv, Making, Before, After
    <2>7. FirstLeft' = i + 1 /\ FirstLeft = i + 1
      BY <2>1 DEF FirstLeft, After
    <2>8. GemInv'
      BY <1>0, <1>1, <2>2, <2>7 DEF GemInv, Before, Making
    <2>9. QED
      BY <2>3, <2>4, <2>6, <2>8 DEF BufferInv
  <1>3. CASE Free
    <2>1. pc = "free" /\ pc' = "done" /\ heap' = {} /\ i' = i
      BY <1>3 DEF Free
    <2>2. ObjectTypes'
      BY <1>0, <1>1, <2>1 DEF ObjectTypes, Locations, Before, Making, Unmaking
    <2>3. PlanesInv'
      BY <2>1 DEF PlanesInv
    <2>4. FbInv'
      BY <1>0, <1>1, <2>1 DEF FbInv, Making, Before, After
    <2>5. FirstLeft' = BufferCount /\ FirstLeft = BufferCount
      BY <2>1 DEF FirstLeft, After
    <2>6. GemInv'
      BY <1>0, <1>1, <2>1, <2>5 DEF GemInv, Before, Making
    <2>7. QED
      BY <2>2, <2>3, <2>4, <2>6 DEF BufferInv
  <1>4. QED
    BY <1>2, <1>3

LEMMA BufferStep == BufferInv /\ [Next]_vars => BufferInv'
  <1> SUFFICES ASSUME BufferInv, [Next]_vars PROVE BufferInv'
    OBVIOUS
  <1>1. CASE UNCHANGED vars
    BY <1>1 DEF BufferInv, ObjectTypes, PlanesInv, FbInv, GemInv, FirstLeft, vars
  <1>2. QED
    BY <1>1, AllocStep, CreateBoStep, ExportPlaneStep, AddFbStep, RmFbStep, CloseStep, NextBufferStep
       DEF Next, Create, Delete

-----------------------------------------------------------------------------
(* What create has made so far, exactly.  Destroy needs no such thing: it  *)
(* asks each object what it holds.                                         *)

Creating == Before \cup Making \cup {"created"}

\* The planes that have their descriptor, and the buffers that have their bo.
Exported(b) == {p \in Planes : p < objs[b].planeCount /\ (b < i \/ (b = i /\ p < j))}
Made == {b \in Indices : b < i \/ (b = i /\ pc \in {"plane", "addfb"})}
Framebuffer(b) == [id |-> b + 1, handles |-> {objs[b].bo}]

CountersInv ==
  /\ pc \in Before \cup {"bo", "created"} => j = 0
  /\ pc = "addfb" => j = objs[i].planeCount
  /\ pc = "created" => i = BufferCount

FdsInv ==
  /\ \A b \in Indices : \A p \in Exported(b) : objs[b].fds[p] \in dmaBufs
  /\ \A fd \in dmaBufs : \E b \in Indices : \E p \in Exported(b) : objs[b].fds[p] = fd
  /\ \A a, b \in Indices : \A p \in Exported(a), q \in Exported(b) :
       objs[a].fds[p] = objs[b].fds[q] => a = b /\ p = q

FbsInv ==
  /\ fbs = {Framebuffer(b) : b \in {b \in Indices : b < i}}
  /\ \A b \in Indices : b < i => objs[b].fbid = b + 1

HandlesInv ==
  /\ OtherHandles \subseteq gem
  /\ \A b \in Made : objs[b].bo \in gem \ OtherHandles
  /\ \A h \in gem \ OtherHandles : \E b \in Made : objs[b].bo = h

CompleteInv == pc \in Creating => CountersInv /\ FdsInv /\ FbsInv /\ HandlesInv

LEMMA CompleteInit == Init => CompleteInv
  <1> SUFFICES ASSUME Init PROVE CompleteInv
    OBVIOUS
  <1>1. pc = "start" /\ i = 0 /\ j = 0 /\ fbs = {} /\ dmaBufs = {} /\ gem = OtherHandles
    BY DEF Init
  <1>2. \A b \in Indices : ~(b < i) /\ Exported(b) = {} /\ b \notin Made
    BY <1>1, BoundsAreNat DEF Exported, Made
  <1>3. CountersInv
    BY <1>1 DEF CountersInv
  <1>4. FdsInv
    BY <1>1, <1>2 DEF FdsInv
  <1>5. FbsInv
    BY <1>1, <1>2 DEF FbsInv
  <1>6. HandlesInv
    <2>1. Made = {}
      BY <1>2 DEF Made
    <2>2. QED
      BY <1>1, <2>1 DEF HandlesInv
  <1>7. QED
    BY <1>3, <1>4, <1>5, <1>6 DEF CompleteInv

\* Before the first buffer nothing that is counted here changes.
LEMMA AllocCompletes ==
  ASSUME BufferInv, CompleteInv, AllocBuffer \/ AllocObjects \/ CreateDevice, pc' \in Creating
  PROVE  CompleteInv'
  <1>1. /\ UNCHANGED <<objs, dmaBufs, gem, fbs>> /\ pc \in Before /\ i = 0
        /\ pc' \in {"objects", "device", "bo"} /\ UNCHANGED <<i, j>>
    BY BoundsAreNat DEF AllocBuffer, AllocObjects, CreateDevice, Fail, Before, Making, Creating, BufferInv,
       ObjectTypes
  <1>2. CountersInv /\ FdsInv /\ FbsInv /\ HandlesInv /\ j = 0
    BY <1>1 DEF CompleteInv, Creating, CountersInv
  <1>3. CountersInv'
    BY <1>1, <1>2 DEF CountersInv, Before
  <1>4. /\ \A b \in Indices : Exported(b)' = Exported(b)
        /\ Made' = Made
    BY <1>1 DEF Exported, Made, Before
  <1>5. FdsInv'
    BY <1>1, <1>2, <1>4 DEF FdsInv
  <1>6. FbsInv' /\ HandlesInv'
    BY <1>1, <1>2, <1>4 DEF FbsInv, HandlesInv, Framebuffer
  <1>7. QED
    BY <1>3, <1>5, <1>6 DEF CompleteInv

LEMMA CreateBoCompletes ==
  ASSUME BufferInv, CompleteInv, CreateBo, pc' \in Creating
  PROVE  CompleteInv'
  <1>0. ObjectTypes /\ PlanesInv /\ FbInv /\ GemInv /\ pc = "bo" /\ i \in Indices
    BY DEF BufferInv, CreateBo, ObjectTypes, Making
  <1>1. CountersInv /\ FdsInv /\ FbsInv /\ HandlesInv /\ j = 0
    BY <1>0 DEF CompleteInv, Creating, CountersInv, Making
  <1>2. PICK planes \in 1 .. MaxPlanes :
          /\ objs' = [objs EXCEPT ![i].bo = NewHandle, ![i].planeCount = planes]
          /\ gem' = gem \cup {NewHandle}
          /\ pc' = "plane" /\ j' = 0 /\ UNCHANGED <<i, dmaBufs, fbs>>
    BY DEF CreateBo, Fail, Creating, Before, Making
  <1> DEFINE h == NewHandle
  <1>3. h \in Nat /\ h \notin gem
    BY <1>0, LowestFree DEF NewHandle, ObjectTypes
  <1> HIDE DEF h
  <1>4. /\ objs'[i].bo = h
        /\ \A b \in Indices : b # i => objs'[b] = objs[b]
        /\ \A b \in Indices : objs'[b].fds = objs[b].fds /\ objs'[b].fbid = objs[b].fbid
    <2>1. objs \in [Indices -> Object]
      BY <1>0 DEF ObjectTypes
    <2>2. QED
      BY <1>0, <1>2, <2>1 DEF Object, h
  <1>5. \A b \in Indices : Exported(b)' = Exported(b)
    <2>1. SUFFICES ASSUME NEW b \in Indices PROVE Exported(b)' = Exported(b)
      OBVIOUS
    <2>2. CASE b = i
      BY <1>0, <1>1, <1>2, <2>2, BoundsAreNat DEF Exported
    <2>3. CASE b # i
      BY <1>1, <1>2, <1>4, <2>3 DEF Exported
    <2>4. QED
      BY <2>2, <2>3
  <1>6. Made' = Made \cup {i} /\ i \notin Made
    BY <1>0, <1>2, BoundsAreNat DEF Made
  <1>7. CountersInv'
    BY <1>2 DEF CountersInv, Before
  <1>8. FdsInv'
    <2>1. \A b \in Indices : \A p : objs'[b].fds[p] = objs[b].fds[p]
      BY <1>4
    <2>2. dmaBufs' = dmaBufs
      BY <1>2
    <2>3. QED
      BY <1>1, <1>5, <2>1, <2>2 DEF FdsInv
  <1>9. FbsInv'
    <2>1. \A b \in Indices : b < i => Framebuffer(b)' = Framebuffer(b)
      BY <1>0, <1>4, BoundsAreNat DEF Framebuffer
    <2>2. QED
      BY <1>1, <1>2, <1>4, <2>1 DEF FbsInv
  <1>10. HandlesInv'
    <2>1. OtherHandles \subseteq gem' /\ h \in gem' \ OtherHandles
      BY <1>1, <1>2, <1>3 DEF HandlesInv, h
    <2>2. \A b \in Made : objs'[b].bo = objs[b].bo /\ objs[b].bo \in gem \ OtherHandles
      BY <1>1, <1>4, <1>6 DEF HandlesInv, Made
    <2>3. \A b \in Made' : objs'[b].bo \in gem' \ OtherHandles
      <3>1. gem \subseteq gem'
        BY <1>2
      <3>2. QED
        BY <1>4, <1>6, <2>1, <2>2, <3>1
    <2>4. ASSUME NEW k \in gem' \ OtherHandles PROVE \E b \in Made' : objs'[b].bo = k
      <3>1. CASE k = h
        BY <1>4, <1>6, <3>1
      <3>2. CASE k # h
        <4>1. k \in gem \ OtherHandles
          BY <1>2, <2>4, <3>2 DEF h
        <4>2. PICK b \in Made : objs[b].bo = k
          BY <1>1, <4>1 DEF HandlesInv
        <4>3. QED
          BY <1>6, <2>2, <4>2
      <3>3. QED
        BY <3>1, <3>2
    <2>5. QED
      BY <2>1, <2>3, <2>4 DEF HandlesInv
  <1>11. QED
    BY <1>7, <1>8, <1>9, <1>10 DEF CompleteInv

LEMMA ExportPlaneCompletes ==
  ASSUME BufferInv, CompleteInv, ExportPlane, pc' \in Creating
  PROVE  CompleteInv'
  <1>0. ObjectTypes /\ PlanesInv /\ FbInv /\ GemInv /\ pc = "plane" /\ i \in Indices
    BY DEF BufferInv, ExportPlane, ObjectTypes, Making
  <1>1. FdsInv /\ FbsInv /\ HandlesInv
    BY <1>0 DEF CompleteInv, Creating, Making
  <1>2. /\ dmaBufs' = dmaBufs \cup {NewFd}
        /\ objs' = [objs EXCEPT ![i].fds[j] = NewFd]
        /\ j' = j + 1 /\ UNCHANGED <<i, gem, fbs>>
        /\ pc' = IF LastPlane THEN "addfb" ELSE "plane"
    BY DEF ExportPlane, Fail, Creating, Before, Making
  <1>3. pc' \in {"plane", "addfb"} /\ (pc' = "addfb" => j + 1 = objs[i].planeCount)
    BY <1>2 DEF LastPlane
  <1> DEFINE fd == NewFd
  <1>4. fd \in Nat /\ fd \notin dmaBufs
    <2>1. IsFiniteSet(OpenFds \cup dmaBufs)
      BY <1>0, BufferAssumption, FS_Union DEF ObjectTypes
    <2>2. QED
      BY <2>1, LowestFree DEF NewFd
  <1> HIDE DEF fd
  <1>5. /\ j \in Nat /\ j < objs[i].planeCount /\ j \in Planes
        /\ objs[i].planeCount \in 0 .. MaxPlanes
    <2>1. objs[i] \in Object
      BY <1>0 DEF ObjectTypes
    <2>2. objs[i].planeCount \in 0 .. MaxPlanes
      BY <2>1 DEF Object
    <2>3. j \in Nat /\ j < objs[i].planeCount
      BY <1>0, BoundsAreNat DEF ObjectTypes, PlanesInv
    <2>4. QED
      BY <2>2, <2>3, BoundsAreNat DEF Planes
  <1>6. \A b \in Indices :
          /\ objs'[b].bo = objs[b].bo /\ objs'[b].fbid = objs[b].fbid
          /\ objs'[b].planeCount = objs[b].planeCount
          /\ \A p \in Planes : objs'[b].fds[p] = IF b = i /\ p = j THEN fd ELSE objs[b].fds[p]
    <2>1. \A b \in Indices : objs[b] \in Object /\ objs[b].fds \in [Planes -> Nat]
      BY <1>0 DEF ObjectTypes, Object
    <2>2. /\ objs'[i] = [objs[i] EXCEPT !.fds = [objs[i].fds EXCEPT ![j] = fd]]
          /\ \A b \in Indices : b # i => objs'[b] = objs[b]
      BY <1>0, <1>2 DEF ObjectTypes, fd
    <2>3. objs'[i].fds = [objs[i].fds EXCEPT ![j] = fd]
      BY <1>0, <2>1, <2>2 DEF Object
    <2>4. QED
      BY <1>0, <2>1, <2>2, <2>3 DEF Object
  <1>7. /\ \A b \in Indices : \A p \in Planes :
             p \in Exported(b)' <=> p \in Exported(b) \/ (b = i /\ p = j)
        /\ \A b \in Indices : Exported(b)' \subseteq Planes
        /\ \A b \in Indices : Exported(b) \subseteq Planes
        /\ j \notin Exported(i)
    <2>1. \A b \in Indices : Exported(b) \subseteq Planes
      BY DEF Exported
    <2>2. j \notin Exported(i)
      BY <1>0, <1>5, BoundsAreNat DEF Exported
    <2>3. ASSUME NEW b \in Indices, b # i PROVE Exported(b)' = Exported(b)
      BY <1>2, <1>6, <2>3 DEF Exported
    <2>4. ASSUME NEW b \in Indices, b = i, NEW p \in Planes
          PROVE  p \in Exported(b)' <=> p \in Exported(b) \/ p = j
      BY <1>0, <1>2, <1>5, <1>6, <2>4, BoundsAreNat DEF Exported
    <2>5. \A b \in Indices : Exported(b)' \subseteq Planes
      BY DEF Exported
    <2>6. QED
      BY <1>5, <2>1, <2>2, <2>3, <2>4, <2>5
  <1>8. Made' = Made
    BY <1>0, <1>2, <1>3 DEF Made
  <1>9. CountersInv'
    BY <1>0, <1>2, <1>3, <1>6 DEF CountersInv, Before
  <1>10. FdsInv'
    <2>1. ASSUME NEW b \in Indices, NEW p \in Exported(b)'
          PROVE  \/ b = i /\ p = j /\ objs'[b].fds[p] = fd
                 \/ /\ p \in Exported(b) /\ objs'[b].fds[p] = objs[b].fds[p]
                    /\ objs[b].fds[p] \in dmaBufs
      <3>1. CASE b = i /\ p = j
        BY <1>5, <1>6, <3>1
      <3>2. CASE ~(b = i /\ p = j)
        <4>1. p \in Exported(b) /\ p \in Planes
          BY <1>7, <2>1, <3>2
        <4>2. QED
          BY <1>1, <1>6, <3>2, <4>1 DEF FdsInv
      <3>3. QED
        BY <3>1, <3>2
    <2>2. \A b \in Indices : \A p \in Exported(b)' : objs'[b].fds[p] \in dmaBufs'
      BY <1>2, <2>1 DEF fd
    <2>3. ASSUME NEW f \in dmaBufs'
          PROVE  \E b \in Indices : \E p \in Exported(b)' : objs'[b].fds[p] = f
      <3>1. CASE f = fd
        <4>1. ASSUME NEW b \in Indices, b = i PROVE j \in Exported(b)' /\ objs'[b].fds[j] = f
          BY <1>5, <1>6, <1>7, <3>1, <4>1
        <4>2. QED
          BY <1>0, <4>1
      <3>2. CASE f # fd
        <4>0. PICK b \in Indices : \E p \in Exported(b) : objs[b].fds[p] = f
          BY <1>1, <1>2, <3>2 DEF FdsInv, fd
        <4>1. PICK p \in Exported(b) : objs[b].fds[p] = f
          BY <4>0
        <4>2. p \in Exported(b)' /\ p \in Planes /\ ~(b = i /\ p = j)
          BY <1>7, <4>1
        <4>3. objs'[b].fds[p] = f
          BY <1>6, <4>1, <4>2
        <4>4. QED
          BY <4>2, <4>3
      <3>3. QED
        BY <3>1, <3>2
    <2>4. ASSUME NEW a \in Indices, NEW b \in Indices, NEW p \in Exported(a)', NEW q \in Exported(b)',
                 objs'[a].fds[p] = objs'[b].fds[q]
          PROVE  a = b /\ p = q
      <3>1. /\ \/ a = i /\ p = j /\ objs'[a].fds[p] = fd
               \/ p \in Exported(a) /\ objs'[a].fds[p] = objs[a].fds[p] /\ objs[a].fds[p] \in dmaBufs
            /\ \/ b = i /\ q = j /\ objs'[b].fds[q] = fd
               \/ q \in Exported(b) /\ objs'[b].fds[q] = objs[b].fds[q] /\ objs[b].fds[q] \in dmaBufs
        BY <2>1
      <3>2. CASE p \in Exported(a) /\ q \in Exported(b) /\ objs[a].fds[p] = objs[b].fds[q]
        BY <1>1, <3>2 DEF FdsInv
      <3>3. QED
        BY <1>4, <2>4, <3>1, <3>2
    <2>5. QED
      BY <2>2, <2>3, <2>4 DEF FdsInv
  <1>11. FbsInv'
    <2>1. \A b \in Indices : Framebuffer(b)' = Framebuffer(b)
      BY <1>6 DEF Framebuffer
    <2>2. QED
      BY <1>1, <1>2, <1>6, <2>1 DEF FbsInv
  <1>12. HandlesInv'
    <2>1. \A b \in Made : objs'[b].bo = objs[b].bo
      BY <1>6 DEF Made
    <2>2. QED
      BY <1>1, <1>2, <1>8, <2>1 DEF HandlesInv
  <1>13. QED
    BY <1>9, <1>10, <1>11, <1>12 DEF CompleteInv

LEMMA AddFbCompletes ==
  ASSUME BufferInv, CompleteInv, AddFb, pc' \in Creating
  PROVE  CompleteInv'
  <1>0. ObjectTypes /\ PlanesInv /\ FbInv /\ GemInv /\ pc = "addfb" /\ i \in Indices
    BY DEF BufferInv, AddFb, ObjectTypes, Making
  <1>1. CountersInv /\ FdsInv /\ FbsInv /\ HandlesInv /\ j = objs[i].planeCount
    BY <1>0 DEF CompleteInv, Creating, CountersInv, Making
  <1>2. /\ fbs' = fbs \cup {[id |-> i + 1, handles |-> FbHandles]}
        /\ objs' = [objs EXCEPT ![i].fbid = i + 1]
        /\ i' = i + 1 /\ j' = 0 /\ UNCHANGED <<dmaBufs, gem>>
        /\ pc' = IF i + 1 = BufferCount THEN "created" ELSE "bo"
    BY DEF AddFb, Fail, Creating, Before, Making
  <1>3. /\ objs'[i].fbid = i + 1
        /\ \A b \in Indices : b # i => objs'[b] = objs[b]
        /\ \A b \in Indices : /\ objs'[b].bo = objs[b].bo /\ objs'[b].fds = objs[b].fds
                              /\ objs'[b].planeCount = objs[b].planeCount
    <2>1. objs \in [Indices -> Object]
      BY <1>0 DEF ObjectTypes
    <2>2. QED
      BY <1>0, <1>2, <2>1 DEF Object
  <1>4. \A b \in Indices : (b < i + 1 <=> b < i \/ b = i)
    BY <1>0, BoundsAreNat
  <1>5. \A b \in Indices : Exported(b)' = Exported(b)
    <2>1. SUFFICES ASSUME NEW b \in Indices, NEW p \in Planes
                   PROVE  p \in Exported(b)' <=> p \in Exported(b)
      BY DEF Exported
    <2>2. ~(p < 0)
      BY BoundsAreNat
    <2>3. QED
      BY <1>0, <1>1, <1>2, <1>3, <1>4, <2>2, BoundsAreNat DEF Exported
  <1>6. Made' = Made
    BY <1>0, <1>2, <1>4, BoundsAreNat DEF Made
  <1>7. CountersInv'
    BY <1>2 DEF CountersInv, Before
  <1>8. FdsInv'
    BY <1>1, <1>2, <1>3, <1>5 DEF FdsInv
  <1>9. FbsInv'
    <2>1. FbHandles = {objs[i].bo}
      <3>1. 0 \in Planes /\ 0 < j
        BY <1>0, BoundsAreNat DEF PlanesInv, ObjectTypes
      <3>2. planeGem[0] = objs[i].bo /\ \A p \in Planes : planeGem[p] \in {objs[i].bo, 0}
        BY <1>0, <3>1 DEF PlanesInv
      <3>3. objs[i].bo # 0
        BY <1>0 DEF GemInv
      <3>4. QED
        BY <3>1, <3>2, <3>3 DEF FbHandles
    <2>2. \A b \in Indices : Framebuffer(b)' = Framebuffer(b)
      BY <1>3 DEF Framebuffer
    <2>3. fbs' = fbs \cup {Framebuffer(i)}
      BY <1>2, <2>1 DEF Framebuffer
    <2>4. {b \in Indices : b < i'} = {b \in Indices : b < i} \cup {i}
      BY <1>0, <1>2, <1>4
    <2>5. fbs' = {Framebuffer(b) : b \in {b \in Indices : b < i'}}
      BY <1>1, <2>3, <2>4 DEF FbsInv
    <2>6. \A b \in Indices : b < i' => objs'[b].fbid = b + 1
      BY <1>1, <1>2, <1>3, <1>4 DEF FbsInv
    <2>7. QED
      BY <2>2, <2>5, <2>6 DEF FbsInv
  <1>10. HandlesInv'
    <2>1. \A b \in Made : objs'[b].bo = objs[b].bo
      BY <1>3 DEF Made
    <2>2. QED
      BY <1>1, <1>2, <1>6, <2>1 DEF HandlesInv
  <1>11. QED
    BY <1>7, <1>8, <1>9, <1>10 DEF CompleteInv

LEMMA CompleteStep == BufferInv /\ CompleteInv /\ [Next]_vars => CompleteInv'
  <1> SUFFICES ASSUME BufferInv, CompleteInv, [Next]_vars, pc' \in Creating PROVE CompleteInv'
    BY DEF CompleteInv
  <1>1. CASE UNCHANGED vars
    BY <1>1 DEF vars, CompleteInv, CountersInv, FdsInv, FbsInv, HandlesInv, Exported, Made, Framebuffer
  <1>2. CASE Delete
    BY <1>2 DEF Delete, Destroy, RmFb, DestroyBo, ClosePlane, NextBuffer, Free, Creating, Before, Making
  <1>3. QED
    BY <1>1, <1>2, AllocCompletes, CreateBoCompletes, ExportPlaneCompletes, AddFbCompletes
       DEF Next, Create

-----------------------------------------------------------------------------
\* What is known of planes, framebuffers and handles at each place of create and
\* destroy, in every reachable state.
THEOREM BufferInvariant == Spec => []BufferInv
  BY BufferInit, BufferStep, PTL DEF Spec

\* Every variable keeps to its type: a plane always gets a descriptor, a
\* buffer a handle that is not 0.
THEOREM BufferTypeCorrect == Spec => []TypeOK
  <1>1. BufferInv => TypeOK
    <2> SUFFICES ASSUME BufferInv PROVE TypeOK
      OBVIOUS
    <2>1. ASSUME NEW b \in Indices
          PROVE  /\ objs[b].bo \in Nat /\ objs[b].planeCount \in 0 .. MaxPlanes
                 /\ objs[b].fds \in [Planes -> Nat] /\ objs[b].fbid \in -1 .. BufferCount
      <3>1. objs[b] \in Object
        BY DEF BufferInv, ObjectTypes
      <3>2. QED
        BY <3>1 DEF Object
    <2>2. ASSUME NEW fb \in fbs PROVE fb.id \in 1 .. BufferCount /\ fb.handles \subseteq Nat
      <3>1. fb.id \in 1 .. BufferCount /\ fb.handles = {objs[fb.id - 1].bo}
        BY DEF BufferInv, FbInv
      <3>2. fb.id - 1 \in Indices
        BY <3>1, BoundsAreNat DEF Indices
      <3>3. QED
        BY <2>1, <3>1, <3>2
    <2>3. QED
      BY <2>1, <2>2 DEF BufferInv, ObjectTypes, TypeOK
  <1>2. QED
    BY <1>1, BufferInvariant, PTL

\* No framebuffer is ever built on another buffer's handle, for any numbers
\* of buffers and of planes.
THEOREM OwnHandle == Spec => []FbUsesOwnHandle
  <1>1. BufferInv => FbUsesOwnHandle
    BY DEF BufferInv, FbInv, FbUsesOwnHandle
  <1>2. QED
    BY <1>1, BufferInvariant, PTL

\* The handle of a buffer is closed after the framebuffers on it are gone.
THEOREM RemovedFirst == Spec => []FbRemovedFirst
  <1>1. BufferInv => FbRemovedFirst
    <2> SUFFICES ASSUME BufferInv, pc = "destroy_bo", NEW fb \in fbs
                 PROVE  objs[i].bo \notin fb.handles
      BY DEF FbRemovedFirst
    <2>1. /\ fb.id \in 1 .. BufferCount /\ fb.id > i + 1 /\ i \in Indices
          /\ fb.handles = {objs[fb.id - 1].bo} /\ objs[fb.id - 1].bo # 0
      BY DEF BufferInv, FbInv, ObjectTypes, Unmaking
    <2>2. fb.id - 1 \in Indices /\ fb.id - 1 # i
      BY <2>1, BoundsAreNat DEF Indices
    <2>3. objs[fb.id - 1].bo # objs[i].bo
      BY <2>1, <2>2 DEF BufferInv, GemInv
    <2>4. QED
      BY <2>1, <2>3
  <1>2. QED
    BY <1>1, BufferInvariant, PTL

\* However far create got, destroy leaves no framebuffer, no handle of the
\* buffers' and no allocation.
THEOREM NothingIsLeft == Spec => []NothingLeft
  <1>1. BufferInv => NothingLeft
    <2> SUFFICES ASSUME BufferInv, pc = "done"
                 PROVE  heap = {} /\ fbs = {} /\ gem \subseteq OtherHandles
      BY DEF NothingLeft
    <2>1. heap = {} /\ fbs = {}
      BY DEF BufferInv, ObjectTypes, FbInv, After
    <2>2. FirstLeft = BufferCount
      BY DEF FirstLeft, After
    <2>3. ~ \E b \in Indices : b >= BufferCount
      BY BoundsAreNat
    <2>4. QED
      BY <2>1, <2>2, <2>3 DEF BufferInv, GemInv
  <1>2. QED
    BY <1>1, BufferInvariant, PTL

\* A buffer set that kmr_buffer_create returns is complete, whatever the number of
\* buffers and of planes the driver gives each: a bo, a framebuffer and one
\* descriptor of its own for every plane.
THEOREM WholeWhenCreated == Spec => []CreatedComplete
  <1>1. BufferInv /\ CompleteInv => CreatedComplete
    <2> SUFFICES ASSUME BufferInv, CompleteInv, pc = "created" PROVE CreatedComplete
      BY DEF CreatedComplete
    <2>1. FdsInv /\ FbsInv /\ HandlesInv /\ i = BufferCount /\ ObjectTypes
      BY DEF CompleteInv, Creating, CountersInv, BufferInv
    <2>2. \A b \in Indices : b < i
      BY <2>1, BoundsAreNat
    <2>3. \A b \in Indices : Exported(b) = PlanesOf(b)
      <3>1. SUFFICES ASSUME NEW b \in Indices PROVE Exported(b) = PlanesOf(b)
        OBVIOUS
      <3>2. objs[b] \in Object
        BY <2>1 DEF ObjectTypes
      <3>3. objs[b].planeCount \in 0 .. MaxPlanes
        BY <3>2 DEF Object
      <3>4. QED
        BY <2>2, <3>3, BoundsAreNat DEF Exported, PlanesOf, Planes
    <2>4. fbs = {Framebuffer(b) : b \in Indices}
      BY <2>1, <2>2 DEF FbsInv
    <2>5. {objs[b].fbid : b \in Indices} = {fb.id : fb \in fbs}
      <3>1. \A b \in Indices : objs[b].fbid = Framebuffer(b).id
        BY <2>1, <2>2 DEF FbsInv, Framebuffer
      <3>2. QED
        BY <2>4, <3>1
    <2>6. Cardinality(fbs) = BufferCount
      <3> DEFINE f == [b \in Indices |-> Framebuffer(b)]
      <3>1. f \in Bijection(Indices, fbs)
        <4>1. \A a, b \in Indices : Framebuffer(a) = Framebuffer(b) => a = b
          <5>1. SUFFICES ASSUME NEW a \in Indices, NEW b \in Indices, Framebuffer(a) = Framebuffer(b)
                         PROVE  a = b
            OBVIOUS
          <5>2. a + 1 = b + 1
            BY <5>1 DEF Framebuffer
          <5>3. QED
            BY <5>2, BoundsAreNat
        <4>2. f \in [Indices -> fbs]
          BY <2>4
        <4>3. \A a, b \in Indices : f[a] = f[b] => a = b
          BY <4>1
        <4>4. \A fb \in fbs : \E b \in Indices : f[b] = fb
          BY <2>4
        <4>5. QED
          <5> HIDE DEF f
          <5>1. QED
            BY <4>2, <4>3, <4>4 DEF Bijection, Injection, Surjection, IsInjective
      <3>2. IsFiniteSet(Indices) /\ Cardinality(Indices) = BufferCount
        <4>1. BufferCount \in Nat /\ BufferCount > 0
          BY BoundsAreNat
        <4>2. QED
          BY <4>1, FS_Interval DEF Indices
      <3>3. QED
        BY <3>1, <3>2, FS_Bijection DEF ExistsBijection
    <2>7. {objs[b].bo : b \in Indices} = gem \ OtherHandles
      <3>1. Made = Indices
        BY <2>2 DEF Made
      <3>2. QED
        BY <2>1, <3>1 DEF HandlesInv
    <2>8. UNION {{objs[b].fds[p] : p \in PlanesOf(b)} : b \in Indices} = dmaBufs
      BY <2>1, <2>3 DEF FdsInv
    <2>9. \A a, b \in Indices : \A p \in PlanesOf(a), q \in PlanesOf(b) :
            objs[a].fds[p] = objs[b].fds[q] => a = b /\ p = q
      BY <2>1, <2>3 DEF FdsInv
    <2>10. QED
      BY <2>5, <2>6, <2>7, <2>8, <2>9 DEF CreatedComplete
  <1>2. Spec => []CompleteInv
    BY BufferInvariant, CompleteInit, CompleteStep, PTL DEF Spec
  <1>3. QED
    BY <1>1, <1>2, BufferInvariant, PTL
=============================================================================
