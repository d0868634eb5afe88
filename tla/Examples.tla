------------------------------ MODULE Examples ------------------------------
(***************************************************************************)
(* The example programs of src/examples, run.  A program is three things:  *)
(* the calls its main makes before the event loop, those of its renderer   *)
(* and those under its exit_error label; each has a module.  Any call that *)
(* can fail may fail, which sends the program to exit_error when the call  *)
(* is checked and goes unnoticed when it is not; the renderer may be       *)
(* called any number of times, for any image the display or the swapchain  *)
(* would hand it, and the program may be asked to stop.                    *)
(***************************************************************************)
EXTENDS LibraryCalls

CONSTANT Programs  \* the programs to run, named as their modules

KT == INSTANCE KmsTriangle        KI == INSTANCE KmsTriangleIndex
KR == INSTANCE KmsSpinRectangle   KX == INSTANCE KmsTextureMapping
KM == INSTANCE KmsModelLoad       KD == INSTANCE KmsDoubleBuffer
WT == INSTANCE WaylandTriangle    WI == INSTANCE WaylandTriangleIndex
WR == INSTANCE WaylandSpinRectangle
WX == INSTANCE WaylandTextureMapping
WM == INSTANCE WaylandModelLoad   WS == INSTANCE WaylandShmBuffer
XT == INSTANCE XcbTriangle        XI == INSTANCE XcbTriangleIndex
XR == INSTANCE XcbSpinRectangle   XX == INSTANCE XcbTextureMapping
XM == INSTANCE XcbModelLoad

KmsPrograms == {"KmsTriangle", "KmsTriangleIndex", "KmsSpinRectangle",
                "KmsTextureMapping", "KmsModelLoad", "KmsDoubleBuffer"}
WaylandPrograms == {"WaylandTriangle", "WaylandTriangleIndex", "WaylandSpinRectangle",
                    "WaylandTextureMapping", "WaylandModelLoad", "WaylandShmBuffer"}
XcbPrograms == {"XcbTriangle", "XcbTriangleIndex", "XcbSpinRectangle",
                "XcbTextureMapping", "XcbModelLoad"}
AllPrograms == KmsPrograms \cup WaylandPrograms \cup XcbPrograms
ModelLoadPrograms == {"KmsModelLoad", "WaylandModelLoad", "XcbModelLoad"}

\* Whether the GPU is a discrete one, and the libseat option of the build.
Builds == [discrete : BOOLEAN, libseat : BOOLEAN]

\* The images a frame can be drawn to: two GBM buffers, three of a swapchain.
Images(p) == IF p \in KmsPrograms THEN 0..1 ELSE 0..2

Text(p, main(_), render(_, _), exit_error(_)) ==
  [main |-> [b \in Builds |-> main(b)],
   render |-> [b \in Builds |-> [i \in Images(p) |-> render(b, i)]],
   exit_error |-> [b \in Builds |-> exit_error(b)]]

Source == [p \in AllPrograms |->
  CASE p = "KmsTriangle"           -> Text(p, KT!main, KT!render, KT!exit_error)
    [] p = "KmsTriangleIndex"      -> Text(p, KI!main, KI!render, KI!exit_error)
    [] p = "KmsSpinRectangle"      -> Text(p, KR!main, KR!render, KR!exit_error)
    [] p = "KmsTextureMapping"     -> Text(p, KX!main, KX!render, KX!exit_error)
    [] p = "KmsModelLoad"          -> Text(p, KM!main, KM!render, KM!exit_error)
    [] p = "KmsDoubleBuffer"       -> Text(p, KD!main, KD!render, KD!exit_error)
    [] p = "WaylandTriangle"       -> Text(p, WT!main, WT!render, WT!exit_error)
    [] p = "WaylandTriangleIndex"  -> Text(p, WI!main, WI!render, WI!exit_error)
    [] p = "WaylandSpinRectangle"  -> Text(p, WR!main, WR!render, WR!exit_error)
    [] p = "WaylandTextureMapping" -> Text(p, WX!main, WX!render, WX!exit_error)
    [] p = "WaylandModelLoad"      -> Text(p, WM!main, WM!render, WM!exit_error)
    [] p = "WaylandShmBuffer"      -> Text(p, WS!main, WS!render, WS!exit_error)
    [] p = "XcbTriangle"           -> Text(p, XT!main, XT!render, XT!exit_error)
    [] p = "XcbTriangleIndex"      -> Text(p, XI!main, XI!render, XI!exit_error)
    [] p = "XcbSpinRectangle"      -> Text(p, XR!main, XR!render, XR!exit_error)
    [] p = "XcbTextureMapping"     -> Text(p, XX!main, XX!render, XX!exit_error)
    [] p = "XcbModelLoad"          -> Text(p, XM!main, XM!render, XM!exit_error)]

-----------------------------------------------------------------------------
VARIABLES
  prog, build,  \* what runs; they do not change
  status,       \* "setup", "loop", "frame", "cleanup", "done", "crashed"
  todo,         \* the steps left before status moves on
  live,         \* the slots that hold an object
  dangling,     \* the slots that hold neither an object nor NULL
  data,         \* what has been written to the objects: <<slot, what>>
  missed,       \* what a call said it wrote, and did not
  image,        \* the image of the current frame
  fault         \* what stopped a crashed program
vars == <<prog, build, status, todo, live, dangling, data, missed, image, fault>>

Init ==
  /\ prog \in Programs
  /\ build \in {b \in Builds : b.libseat => prog \in KmsPrograms}
  /\ status = "setup" /\ todo = Source[prog].main[build]
  /\ live = {} /\ data = {} /\ missed = {} /\ image = 0 /\ fault = "none"
  /\ dangling = IF prog = "WaylandShmBuffer" THEN WS!uninitialised ELSE {}

Running == status \in {"setup", "frame", "cleanup"} /\ todo # <<>>
Next1 == Head(todo)
Pass == todo' = Tail(todo) /\ UNCHANGED <<prog, build, image, status, fault>>
Forget(slot) ==
  /\ data' = {d \in data : d[1] # slot}
  /\ missed' = {d \in missed : d[1] # slot}

\* The function undoes what it did and returns -1; main goes to exit_error.
Bail ==
  /\ todo' = Next1.undo \o Source[prog].exit_error[build]
  /\ status' = "cleanup"
  /\ UNCHANGED <<prog, build, image, fault>>

Crash(what) ==
  /\ status' = "crashed" /\ todo' = <<>> /\ fault' = what
  /\ UNCHANGED <<prog, build, live, dangling, data, missed, image>>

\* Reaching past the last entry may read anything: the check of what was
\* created is passed, is failed with the object there, or is a crash.
CreateSucceeds ==
  /\ Running /\ Next1.does \in {"create", "deref", "past"}
  /\ live' = live \cup {Next1.slot} /\ dangling' = dangling \ {Next1.slot}
  /\ Forget(Next1.slot)
  /\ Pass \/ (Next1.does = "past" /\ Bail)

CreateFails ==
  /\ Running /\ Next1.does = "create"
  /\ dangling' = dangling \ {Next1.slot}
  /\ UNCHANGED <<live, data, missed>>
  /\ Bail

CreateCrashes == Running /\ Next1.does \in {"deref", "past"} /\ Crash("deref")

\* A copy of what was never written, or of an image in another layout,
\* writes nothing of use.
Effects ==
  LET good == IF Next1.reads \cap missed = {} THEN Next1.writes ELSE {}
  IN /\ data' = (data \ Next1.clears) \cup good
     /\ missed' = (missed \ (Next1.clears \cup good)) \cup (Next1.writes \ good)
     /\ UNCHANGED <<live, dangling>>
NoEffect == UNCHANGED <<live, dangling, data, missed>>

CallSucceeds ==
  /\ Running /\ Next1.does \in {"call", "attempt", "submit", "map", "always"}
  /\ Effects /\ Pass
CallFails == Running /\ Next1.does \in {"call", "submit"} /\ NoEffect /\ Bail
AttemptFails == Running /\ Next1.does = "attempt" /\ NoEffect /\ Pass

\* vkQueueSubmit or vkQueueWaitIdle fails, and the function returns 0.
SubmitLost ==
  /\ Running /\ Next1.does = "submit"
  /\ missed' = missed \cup Next1.writes
  /\ UNCHANGED <<live, dangling, data>>
  /\ Pass

\* vkMapMemory fails, and memcpy is given NULL.
MapCrashes == Running /\ Next1.does = "map" /\ Crash("map")

\* A destroy function returns at once when it is given NULL.
DestroyStep ==
  /\ Running /\ Next1.does = "destroy"
  /\ IF Next1.slot \in dangling THEN Crash("dangling")
     ELSE /\ live' = live \ {Next1.slot} /\ Forget(Next1.slot)
          /\ dangling' = IF Next1.slot \in live THEN dangling \cup {Next1.slot} ELSE dangling
          /\ Pass

NullStep ==
  /\ Running /\ Next1.does = "null"
  /\ dangling' = dangling \ {Next1.slot}
  /\ UNCHANGED <<live, data, missed>>
  /\ Pass

\* Nothing left to do: the event loop, or the end.
EnterLoop ==
  /\ status \in {"setup", "frame"} /\ todo = <<>>
  /\ status' = "loop"
  /\ UNCHANGED <<prog, build, todo, live, dangling, data, missed, image, fault>>

Frame ==
  /\ status = "loop"
  /\ image' \in IF prog \in KmsPrograms THEN {(image + 1) % 2} ELSE Images(prog)
  /\ status' = "frame" /\ todo' = Source[prog].render[build][image']
  /\ UNCHANGED <<prog, build, live, dangling, data, missed, fault>>

Quit ==
  /\ status = "loop"
  /\ status' = "cleanup" /\ todo' = Source[prog].exit_error[build]
  /\ UNCHANGED <<prog, build, live, dangling, data, missed, image, fault>>

Finish ==
  /\ status = "cleanup" /\ todo = <<>>
  /\ status' = "done"
  /\ UNCHANGED <<prog, build, todo, live, dangling, data, missed, image, fault>>

Next ==
  \/ CreateSucceeds \/ CreateFails \/ CreateCrashes
  \/ CallSucceeds \/ CallFails \/ AttemptFails \/ SubmitLost \/ MapCrashes
  \/ DestroyStep \/ NullStep
  \/ EnterLoop \/ Frame \/ Quit \/ Finish

Spec == Init /\ [][Next]_vars

-----------------------------------------------------------------------------
(* Properties.                                                             *)

\* Every call of a program is given objects that are there: on every path,
\* whatever failed before it, and in every frame.  The unchecked results and
\* the handles freed half way through main (mesh, material) are what would
\* break it.
UsesLive == Running => Next1.uses \subseteq live

\* What an object was made from, and may not outlive.
DeviceObjects ==
  Range(DestroyOrder) \ {"lgdev", "surface", "instance"}
Parents(slot) ==
  (IF slot \in DeviceObjects THEN {"lgdev"} ELSE {})
    \cup (IF slot \in {"lgdev", "surface"} THEN {"instance"} ELSE {})
    \cup (IF slot = "surface"
          THEN IF prog \in WaylandPrograms THEN {"wc_core", "wc_surface"} ELSE {"window"}
          ELSE {})
    \cup (IF slot = "swapchain" THEN {"surface"} ELSE {})
    \cup (IF slot = "image0" /\ prog \notin KmsPrograms THEN {"swapchain"} ELSE {})
    \cup (IF slot \in {"wc_surface", "wc_buffer"} THEN {"wc_core"} ELSE {})
    \cup (IF slot \in {"gbm", "display"} THEN {"node"} ELSE {})
    \cup (IF slot = "atomic_request" THEN {"display"} ELSE {})
    \cup (IF slot \in {"node", "input"} THEN Session(build) ELSE {})

\* Objects are destroyed before what they were made from: the views of the
\* swapchain's images before the swapchain, everything of the device before
\* the device, buffers before the DRM node they live on, and the node and the
\* input devices before the session that opened them.
ParentsOutliveChildren == \A slot \in live : Parents(slot) \subseteq live

\* Nothing is lost: no handle is overwritten or nulled while its object
\* exists, and a program that ends has destroyed everything it made.  (The
\* physical device is a handle, not an object.  The model programs keep the
\* texture images and the materials when a function between fails: main's
\* exit_error does not know of them.)
Leaked == live \ (IF prog \in ModelLoadPrograms
                  THEN {"phdev", "texture_image", "material"} ELSE {"phdev"})
NothingLeaks ==
  /\ Running /\ Next1.does \in {"create", "deref", "past", "null"} => Next1.slot \notin live
  /\ status = "done" => Leaked = {}

\* A frame's commands read nothing that was never written, and sample no
\* image in another layout: vertices, indices, textures and model matrices
\* have all been copied by the time the first frame is drawn, on discrete and
\* integrated GPUs.  Two things are left out.  One is what a copy or a barrier
\* should have done whose submission failed: the library returns 0 all the
\* same, and the program draws with it.  The other is the scene: it is bound
\* at the offset of image 0, and written at that of the image drawn, which is
\* 1 in the first frame of the KMS programs.
DrawsWritten ==
  Running /\ Next1.does # "attempt" =>
    Next1.reads \subseteq data \cup missed \cup {<<"buffer2", "scene0">>}

\* No destroy function is given a handle that was destroyed before or never
\* set, except in the shm program, whose app struct holds whatever was on the
\* stack when its first or second create function fails.
DestroysValid == fault = "dangling" => prog = "WaylandShmBuffer"

\* vulkan.h:549 says of kmr_vk_image_create, like the other create functions
\* that return arrays: on failure a struct with its member nulled.  The
\* programs check a member of the first entry of the array.
FailureChecked == fault # "deref"
=============================================================================
