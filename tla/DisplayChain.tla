---------------------------- MODULE DisplayChain ----------------------------
(***************************************************************************)
(* kmr_drm_node_display_create and kmr_drm_node_display_destroy            *)
(* (src/src/drm-node.c:346-768): the search for a display output chain     *)
(* connector -> encoder -> CRTC -> plane, and what it allocates.           *)
(*                                                                         *)
(* The hardware is chosen in Init: connector k has encoder k, CRTC c has   *)
(* primary plane c.  Active CRTCs start on one framebuffer, the console's; *)
(* a flip by another session, possible while the VT is switched away,      *)
(* puts a CRTC on a new one.                                               *)
(***************************************************************************)
EXTENDS Integers, FiniteSets

CONSTANTS
  ConnectorCount, CrtcCount,   \* of the card
  MaxFlips,     \* flips by another session while create runs
  CallsFail,    \* TRUE when a call into libdrm or calloc may fail
  ShortLists    \* TRUE when an object may have fewer than propsDataCount properties

ASSUME DisplayAssumption ==
  /\ ConnectorCount \in Nat \ {0}
  /\ CrtcCount \in Nat \ {0}
  /\ MaxFlips \in Nat
  /\ CallsFail \in BOOLEAN
  /\ ShortLists \in BOOLEAN

VARIABLES
  pc,        \* where create or destroy is
  connected, \* hardware: connectors with a monitor and an encoder
  crtcOf,    \* hardware: the CRTC of each encoder, 0 without one
  fbOf,      \* hardware: framebuffer of each CRTC and its primary plane, 0 if off
  short,     \* hardware: the objects with fewer than propsDataCount properties
  flips,     \* flips by another session so far
  planeFb,   \* planes[]: the framebuffer of each plane when it was read, 0 if unread
  chain,     \* the pointers connector, encoder, crtc and plane, 0 for NULL
  set,       \* members of display that are not zero: propsData by object, "mode"
  live,      \* allocations not freed
  blobs,     \* kernel: property blobs of this file
  mishap     \* undefined behaviour the program ran into

hardware == <<connected, crtcOf, fbOf, short, flips>>
vars == <<pc, hardware, planeFb, chain, set, live, blobs, mishap>>

Connectors == 1 .. ConnectorCount
Crtcs == 1 .. CrtcCount
Objects == {"connector", "crtc", "plane"}
NoChain == [connector |-> 0, encoder |-> 0, crtc |-> 0, plane |-> 0]

\* What create gets from libdrm for its own use; planes[] is one entry a plane.
Planes == {<<"plane", p>> : p \in Crtcs}
Temporary == {<<"resources", 0>>, <<"planeResources", 0>>} \cup Planes
               \cup {<<"connector", 0>>, <<"encoder", 0>>, <<"crtc", 0>>}
Display == <<"display", 0>>
PropsData(o) == <<"propsData", o>>

Locations == {"start", "resources", "planeResources", "planes", "connector",
              "encoder", "crtc", "blob", "properties", "error", "unwind",
              "created", "failed", "done", "crashed"}

TypeOK ==
  /\ pc \in Locations
  /\ connected \subseteq Connectors
  /\ crtcOf \in [Connectors -> {0} \cup Crtcs]
  /\ fbOf \in [Crtcs -> 0 .. MaxFlips + 1]
  /\ short \subseteq Objects
  /\ flips \in 0 .. MaxFlips
  /\ planeFb \in [Crtcs -> 0 .. MaxFlips + 1]
  /\ chain \in [connector : {0} \cup Connectors, encoder : {0} \cup Connectors,
                crtc : {0} \cup Crtcs, plane : {0} \cup Crtcs]
  /\ set \subseteq Objects \cup {"mode"}
  /\ live \subseteq {Display} \cup {PropsData(o) : o \in Objects} \cup Temporary
  /\ blobs \in 0 .. 1
  /\ mishap \subseteq {"double free", "null plane"}

Init ==
  /\ pc = "start"
  /\ connected \in SUBSET Connectors
  /\ crtcOf \in [Connectors -> {0} \cup Crtcs]
  /\ fbOf \in [Crtcs -> {0, 1}]
  /\ short \in SUBSET (IF ShortLists THEN Objects ELSE {})
  /\ flips = 0
  /\ planeFb = [c \in Crtcs |-> 0]
  /\ chain = NoChain
  /\ set = {} /\ live = {} /\ blobs = 0 /\ mishap = {}

-----------------------------------------------------------------------------
(* kmr_drm_node_display_create: what it asks libdrm for, in order.         *)

AllocDisplay ==
  /\ pc = "start"
  /\ \/ live' = {Display} /\ pc' = "resources"
     \/ CallsFail /\ pc' = "failed" /\ UNCHANGED live
  /\ UNCHANGED <<hardware, planeFb, chain, set, blobs, mishap>>

GetResources ==
  /\ pc \in {"resources", "planeResources"}
  /\ \/ /\ live' = live \cup {<<pc, 0>>}
        /\ pc' = IF pc = "resources" THEN "planeResources" ELSE "planes"
     \/ CallsFail /\ pc' = "error" /\ UNCHANGED live
  /\ UNCHANGED <<hardware, planeFb, chain, set, blobs, mishap>>

\* drmModeGetPlane of each plane in turn: what it shows is remembered in planes[].
GetPlane ==
  /\ pc = "planes"
  /\ LET p == Cardinality(Planes \cap live) + 1
     IN  \/ /\ live' = live \cup {<<"plane", p>>}
            /\ planeFb' = [planeFb EXCEPT ![p] = fbOf[p]]
            /\ pc' = IF p + 1 \in Crtcs THEN "planes" ELSE "connector"
         \/ CallsFail /\ pc' = "error" /\ UNCHANGED <<live, planeFb>>
  /\ UNCHANGED <<hardware, chain, set, blobs, mishap>>

OnePastLast(k) == k > ConnectorCount + 1
PastLast(k) == k > ConnectorCount

\* The loop over the connectors is left for the error path after the last one.
GetConnector ==
  /\ pc = "connector"
  /\ LET k == chain.connector + 1
     IN  IF PastLast(k)
         THEN pc' = "error" /\ chain' = NoChain /\ UNCHANGED live
         ELSE /\ chain' = [chain EXCEPT !.connector = k]
              /\ \/ /\ k \in connected
                    /\ live' = live \cup {<<"connector", 0>>}
                    /\ pc' = "encoder"
                 \/ /\ k \notin connected \/ CallsFail
                    /\ UNCHANGED <<pc, live>>
  /\ UNCHANGED <<hardware, planeFb, set, blobs, mishap>>

\* An encoder without a CRTC ends the search.
GetEncoder ==
  /\ pc = "encoder"
  /\ \/ /\ crtcOf[chain.connector] # 0
        /\ chain' = [chain EXCEPT !.encoder = chain.connector]
        /\ live' = live \cup {<<"encoder", 0>>}
        /\ pc' = "crtc"
     \/ /\ crtcOf[chain.connector] = 0 \/ CallsFail
        /\ pc' = "error" /\ UNCHANGED <<chain, live>>
  /\ UNCHANGED <<hardware, planeFb, set, blobs, mishap>>

AnyPlaneShowing(c, fb) == {p \in Crtcs : planeFb[p] = fb}

\* The planes, as planes[] remembers them, on CRTC c with its framebuffer.
PlanesShowing(c, fb) == {p \in Crtcs : p = c /\ planeFb[p] = fb}

\* A CRTC that is off ends the search; a framebuffer no plane shows does not.
GetCrtc ==
  /\ pc = "crtc"
  /\ LET c == crtcOf[chain.encoder]
         shown == PlanesShowing(c, fbOf[c])
     IN  \/ /\ fbOf[c] # 0
            /\ \E p \in IF shown = {} THEN {0} ELSE shown :
                 /\ \A q \in shown : p <= q
                 /\ chain' = [chain EXCEPT !.crtc = c, !.plane = p]
            /\ live' = live \cup {<<"crtc", 0>>}
            /\ pc' = "blob"
         \/ /\ fbOf[c] = 0 \/ CallsFail
            /\ pc' = "error" /\ UNCHANGED <<chain, live>>
  /\ UNCHANGED <<hardware, planeFb, set, blobs, mishap>>

CreateBlob ==
  /\ pc = "blob"
  /\ \/ blobs' = blobs + 1 /\ set' = set \cup {"mode"} /\ pc' = "properties"
     \/ CallsFail /\ pc' = "error" /\ UNCHANGED <<blobs, set>>
  /\ UNCHANGED <<hardware, planeFb, chain, live, mishap>>

Unacquired ==
  IF "connector" \notin set THEN "connector" ELSE IF "crtc" \notin set THEN "crtc" ELSE "plane"

\* acquire_kms_object_properties reads exactly propsDataCount entries of the
\* object's list, past the end of a shorter one whatever is there: no property
\* has that id, or one has.  On failure it frees and clears propsData.
AcquireProperties(o) ==
  \/ /\ live' = live \cup {PropsData(o)}
     /\ set' = set \cup {o}
     /\ UNCHANGED pc
  \/ /\ o \in short \/ CallsFail
     /\ pc' = "error" /\ UNCHANGED <<live, set>>

\* plane->plane_id is read without a look at plane.
Acquire ==
  /\ pc = "properties"
  /\ ~ Objects \subseteq set
  /\ IF Unacquired = "plane" /\ chain.plane = 0
     THEN /\ pc' = "crashed" /\ mishap' = {"null plane"}
          /\ UNCHANGED <<live, set>>
     ELSE AcquireProperties(Unacquired) /\ UNCHANGED mishap
  /\ UNCHANGED <<hardware, planeFb, chain, blobs>>

EncoderKept == live \ (Temporary \ {<<"encoder", 0>>})
UnusedFreed == live \ Temporary

Return ==
  /\ pc = "properties"
  /\ Objects \subseteq set
  /\ live' = UnusedFreed
  /\ pc' = "created"
  /\ UNCHANGED <<hardware, planeFb, chain, set, blobs, mishap>>

-----------------------------------------------------------------------------
(* The error path and kmr_drm_node_display_destroy, which it ends with.    *)

BlobKept == blobs
BlobDestroyed == IF "mode" \in set THEN 0 ELSE blobs

\* free(propsData) of the three objects: the members of display keep their value.
ErrorPath ==
  /\ pc = "error"
  /\ live' = live \ (Temporary \cup {PropsData(o) : o \in Objects})
  /\ blobs' = BlobDestroyed
  /\ pc' = "unwind"
  /\ UNCHANGED <<hardware, planeFb, chain, set, mishap>>

\* On the error path display->kmsfd is still 0 and nothing comes of the second
\* drmModeDestroyPropertyBlob.  A second free of propsData aborts the program or
\* corrupts its heap.
Destroy ==
  /\ pc \in {"created", "unwind"}
  /\ live' = live \ ({Display} \cup {PropsData(o) : o \in set})
  /\ blobs' = IF pc = "created" THEN BlobDestroyed ELSE blobs
  /\ IF \E o \in set \cap Objects : PropsData(o) \notin live
     THEN mishap' = {"double free"} /\ pc' \in {"crashed", "failed"}
     ELSE UNCHANGED mishap /\ pc' = IF pc = "created" THEN "done" ELSE "failed"
  /\ UNCHANGED <<hardware, planeFb, chain, set>>

\* Another session, in the foreground, flips a CRTC.
OtherFlip(c) ==
  /\ pc \notin {"created", "failed", "done", "crashed"}
  /\ flips < MaxFlips
  /\ fbOf[c] # 0
  /\ flips' = flips + 1
  /\ fbOf' = [fbOf EXCEPT ![c] = flips + 2]
  /\ UNCHANGED <<pc, connected, crtcOf, short, planeFb, chain, set, live, blobs, mishap>>

-----------------------------------------------------------------------------
Create == AllocDisplay \/ GetResources \/ GetPlane \/ GetConnector \/ GetEncoder
            \/ GetCrtc \/ CreateBlob \/ Acquire \/ Return \/ ErrorPath

Next == Create \/ Destroy \/ \E c \in Crtcs : OtherFlip(c)

Spec == Init /\ [][Next]_vars

-----------------------------------------------------------------------------
(* Properties.                                                             *)

\* The four objects of a display that create returns are one output chain: the
\* encoder is the connector's, the CRTC the encoder's, and the plane the one that
\* scans out that CRTC, also when several CRTCs show the console's framebuffer
\* (drm-node.c:646-676).
OneChain ==
  pc = "created" =>
    /\ chain.connector \in connected
    /\ chain.encoder = chain.connector
    /\ chain.crtc = crtcOf[chain.encoder] /\ fbOf[chain.crtc] # 0
    /\ chain.plane = chain.crtc

\* A display that create returns holds its property arrays and its mode blob, and
\* nothing libdrm allocated on the way is left (drm-node.c:719-728).
OnlyDisplayKept ==
  pc = "created" => live = {Display} \cup {PropsData(o) : o \in Objects} /\ blobs = 1

\* Wherever create fails, and after destroy, no object of libdrm, no allocation
\* and no property blob is left (drm-node.c:731-768).
NothingLeft == pc \in {"failed", "done"} => live = {} /\ blobs = 0

=============================================================================
