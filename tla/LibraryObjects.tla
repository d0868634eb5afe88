--------------------------- MODULE LibraryObjects ---------------------------
(***************************************************************************)
(* The create and destroy functions of src/src, run: a function is called, *)
(* each of its calls may fail, it undoes what it did or returns, and what  *)
(* it returned is destroyed.                                               *)
(***************************************************************************)
EXTENDS VulkanObjects, LoaderObjects

CONSTANT Sizes  \* the lengths of the arrays a function is asked for
ASSUME SizesAssumption == Sizes \subseteq Nat

Source == [n \in Sizes |->
  [instance |-> kmr_vk_instance_create, surface |-> kmr_vk_surface_create,
   phdev |-> kmr_vk_phdev_create, lgdev |-> kmr_vk_lgdev_create(n),
   swapchain |-> kmr_vk_swapchain_create,
   swapchain_image |-> swapchain_image_create(n),
   image |-> own_image_create(n, 1, FALSE), dmabuf_image |-> own_image_create(n, 2, TRUE),
   shader_module |-> kmr_vk_shader_module_create,
   pipeline_layout |-> kmr_vk_pipeline_layout_create,
   render_pass |-> kmr_vk_render_pass_create,
   graphics_pipeline |-> kmr_vk_graphics_pipeline_create,
   framebuffer |-> kmr_vk_framebuffer_create(n),
   command_buffer |-> kmr_vk_command_buffer_create, sync_obj |-> kmr_vk_sync_obj_create(n),
   import_sync_fd |-> kmr_vk_sync_obj_import_external_sync_fd,
   export_sync_fd |-> kmr_vk_sync_obj_export_external_sync_fd,
   buffer |-> kmr_vk_buffer_create,
   descriptor_set_layout |-> kmr_vk_descriptor_set_layout_create,
   descriptor_set |-> kmr_vk_descriptor_set_create, sampler |-> kmr_vk_sampler_create,
   surface_formats |-> kmr_vk_get_surface_formats,
   present_modes |-> kmr_vk_get_surface_present_modes,
   format_properties |-> kmr_vk_get_phdev_format_properties,
   memory_fd |-> kmr_vk_memory_export_external_fd,
   aligned_buffer |-> kmr_utils_aligned_buffer_create,
   image_buffer |-> kmr_utils_image_buffer_create, file_load |-> kmr_utils_file_load,
   concat_file |-> kmr_utils_concat_file_to_dir, shm_file |-> allocate_shm_file,
   spirv |-> kmr_shader_spirv_create, gltf_file |-> kmr_gltf_loader_file_create,
   mesh |-> kmr_gltf_loader_mesh_create(n),
   texture_image |-> kmr_gltf_loader_texture_image_create(n),
   material |-> kmr_gltf_loader_material_create(n), node |-> kmr_gltf_loader_node_create,
   import_dmabuf |-> kmr_dma_buf_import_sync_file_create(n),
   export_dmabuf |-> kmr_dma_buf_export_sync_file_create(n),
   input |-> kmr_input_create, session |-> kmr_session_create,
   drm_node_udev |-> open_drm_node_udev(n)]]

Names == DOMAIN Source[CHOOSE n \in Sizes : TRUE]

-----------------------------------------------------------------------------
VARIABLES
  fn, size,  \* the function, and how much it is asked for
  status,    \* "running", "unwinding", "failed", "returned", "destroying",
             \* "destroyed", "crashed"
  pc,        \* the step the function is at
  todo,      \* what is still to be released
  live,      \* the slots that hold an object
  junk,      \* the slots that hold neither an object nor NULL
  released   \* the slots released, or handed over to something else, so far
vars == <<fn, size, status, pc, todo, live, junk, released>>

Code == Source[size][fn]

Init ==
  /\ fn \in Names /\ size \in Sizes
  /\ status = "running" /\ pc = 1 /\ todo = <<>> /\ released = {}
  /\ live = Code.given /\ junk = Code.junk

Calls(kinds) == status = "running" /\ pc \in DOMAIN Code.steps /\ Code.steps[pc].does \in kinds
This == Code.steps[pc]
GoOn == pc' = pc + 1 /\ UNCHANGED <<fn, size, status, todo>>

Succeeds ==
  /\ Calls({"get", "skip", "maybe", "crash"})
  /\ live' = (live \ This.from) \cup ({This.slot} \ {none})
  /\ junk' = junk \ {This.slot}
  /\ released' = released \cup This.from
  /\ GoOn

\* The variable is not written: it stays NULL, or junk.
FailsSeen ==
  /\ Calls({"get", "maybe"})
  /\ status' = "unwinding" /\ todo' = Unwind(Code.undo, This.label)
  /\ UNCHANGED <<fn, size, pc, live, junk, released>>

NotMade == Calls({"skip", "maybe"}) /\ GoOn /\ UNCHANGED <<live, junk, released>>

FailsUnseen ==
  /\ Calls({"crash"})
  /\ status' = "crashed"
  /\ UNCHANGED <<fn, size, pc, todo, live, junk, released>>

Assigns == Calls({"set"}) /\ GoOn /\ junk' = junk \ {This.slot} /\ UNCHANGED <<live, released>>

Frees ==
  /\ Calls({"free"})
  /\ live' = live \ {This.slot} /\ released' = released \cup ({This.slot} \cap live)
  /\ UNCHANGED junk
  /\ GoOn

Returns ==
  /\ status = "running" /\ pc > Len(Code.steps)
  /\ status' = "returned"
  /\ UNCHANGED <<fn, size, pc, todo, live, junk, released>>

\* Whoever called the function, when the program ends.
Destroy ==
  /\ status = "returned"
  /\ status' = "destroying" /\ todo' = Code.destroy
  /\ UNCHANGED <<fn, size, pc, live, junk, released>>

\* Releasing what is NULL does nothing.
Release ==
  /\ todo # <<>>
  /\ todo' = Tail(todo)
  /\ live' = live \ {Head(todo)}
  /\ released' = released \cup ({Head(todo)} \cap live)
  /\ UNCHANGED <<fn, size, status, pc, junk>>

Ends ==
  /\ status \in {"unwinding", "destroying"} /\ todo = <<>>
  /\ status' = IF status = "unwinding" THEN "failed" ELSE "destroyed"
  /\ UNCHANGED <<fn, size, pc, todo, live, junk, released>>

Next ==
  \/ Succeeds \/ FailsSeen \/ NotMade \/ FailsUnseen \/ Assigns \/ Frees
  \/ Returns \/ Destroy \/ Release \/ Ends

Spec == Init /\ [][Next]_vars

-----------------------------------------------------------------------------
(* Properties.                                                             *)

\* No function releases what it has released before, or what was never set:
\* on every path, whichever call failed, for the label that path leaves by.
\* Two do: kmr_vk_image_create, whose memory counts and handles are junk for
\* the images it did not get to (memset clears too little, vulkan.c:594), and
\* the export of sync files, which closes descriptor 0 for those it did not
\* get to.
ReleasesOwn ==
  todo # <<>> /\ Head(todo) \notin live =>
    /\ Head(todo) \notin released
    /\ Head(todo) \in junk =>
         status = "unwinding" /\ fn \in {"image", "dmabuf_image", "export_dmabuf"}

\* What a function that failed leaves behind.
KnownLeaks ==
  CASE fn = "dmabuf_image"  -> {<<"dupFd", i, p>> : i \in 1..size, p \in 1..2}
    [] fn = "buffer"        -> {<<"buffer">>}
    [] fn = "texture_image" -> {<<"pixels", i>> : i \in 1..size}
    [] fn = "import_dmabuf" -> {<<"syncFileFd">>}
    [] OTHER -> {}

\* Nothing is lost: a function that fails has released everything it made,
\* however far it got in whichever loop, except for the copy of a DMA-BUF's
\* descriptor, a buffer without memory, the textures before the one that is
\* missing and a sync file that the kernel cannot import; and the destroy
\* function of one that succeeds releases everything.
NothingLost ==
  /\ status = "failed" => live \subseteq KnownLeaks \cup Code.kept
  /\ status = "destroyed" => live = {}

\* A function that reports success has made all it promises: what its destroy
\* function will look for is there, except for the indices of a mesh without
\* any and a material's name, whose strndup is not checked.
Optional == {<<name, i>> : name \in {"memoryCount", "indexBufferData", "materialName"}, i \in 1..size}
ReturnsWhole == status = "returned" => ToSet(Code.destroy) \subseteq live \cup Optional
=============================================================================
