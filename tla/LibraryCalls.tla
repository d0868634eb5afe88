---------------------------- MODULE LibraryCalls ----------------------------
(***************************************************************************)
(* The functions of the library as the example programs call them: which   *)
(* object each one makes, from which objects, how the programs check what  *)
(* comes back, and in which order kmr_vk_destroy takes things down.  What  *)
(* the functions do inside is modelled in modules of their own.            *)
(***************************************************************************)
EXTENDS ExampleSteps, SequencesExt

Image(i)  == <<"image0", "image1", "image2">>[i + 1]
Buffer(i) == <<"buffer0", "buffer1", "buffer2", "buffer3">>[i + 1]
Shader(i) == <<"shader0", "shader1">>[i + 1]
Spirv(i)  == <<"spirv0", "spirv1">>[i + 1]
Scene(i)  == <<"scene0", "scene1", "scene2">>[i + 1]

\* A program built with libseat has a session; what is drawn from is the
\* copy of the buffer on a discrete GPU, and the buffer itself elsewhere.
Session(build) == IF build.libseat THEN {"session"} ELSE {}
DrawBuffer(build) == IF build.discrete THEN Buffer(1) ELSE Buffer(0)

-----------------------------------------------------------------------------
(* The device.                                                             *)

kmr_vk_instance_create == Create("instance", {})
kmr_vk_surface_create(window) == Create("surface", {"instance"} \cup window)
kmr_vk_phdev_create(kms) == Create("phdev", {"instance"} \cup kms)
kmr_vk_queue_create == Call({"phdev"})
kmr_vk_lgdev_create == Create("lgdev", {"instance", "phdev"})

(* What frames are drawn to.  The images of a swapchain are not checked    *)
(* otherwise than images that are created: a member of the array is read.  *)

kmr_vk_get_surface_capabilities == Use({"phdev", "surface"}, {}, {}, {})
kmr_vk_swapchain_create == Create("swapchain", {"lgdev", "surface"})
kmr_vk_image_create(i, uses) == CreateDeref(Image(i), {"lgdev"} \cup uses)
kmr_vk_get_external_fd_memory_properties == Use({"lgdev", "gbm"}, {}, {}, {})
kmr_vk_get_phdev_format_properties == Call({"phdev"})
kmr_vk_framebuffer_create(images) ==
  CreateDeref("framebuffer", {"lgdev", "render_pass"} \cup images)

(* The pipeline.                                                           *)

kmr_vk_shader_module_create(i) == Create(Shader(i), {"lgdev", Spirv(i)})
kmr_vk_pipeline_layout_create(setLayouts) ==
  Create("pipeline_layout", {"lgdev"} \cup setLayouts)
kmr_vk_render_pass_create == Create("render_pass", {"lgdev"})
kmr_vk_graphics_pipeline_create ==
  Create("pipeline", {"lgdev", "pipeline_layout", "render_pass", Shader(0), Shader(1)})
kmr_vk_descriptor_set_layout_create == Create("ds_layout", {"lgdev"})
kmr_vk_descriptor_set_create == Create("descriptor_set", {"lgdev", "ds_layout"})
kmr_vk_sampler_create == Create("sampler", {"lgdev", "phdev"})

(* Commands and what orders them.  Only the semaphores and fences come     *)
(* back in arrays that are read unchecked.                                 *)

kmr_vk_command_buffer_create == Create("command_buffer", {"lgdev"})
kmr_vk_sync_obj_create == CreateDeref("sync_obj", {"lgdev"})

(* Memory.  A copy or a barrier is recorded, submitted and waited for: the *)
(* recording is checked, the submission and the wait are not.              *)

kmr_vk_buffer_create(i) == Create(Buffer(i), {"lgdev", "phdev"})
kmr_vk_memory_map(i, data) ==
  Mapped(Use({"lgdev", Buffer(i)}, {}, {}, {<<Buffer(i), d>> : d \in data}))
Transfer(slots) == {"command_buffer", "lgdev"} \cup slots
kmr_vk_resource_copy(from, to, data, layout) ==
  Submitted(Use(Transfer({from, to}),
                {<<from, d>> : d \in data} \cup {<<to, l>> : l \in layout},
                {}, {<<to, d>> : d \in data}))
kmr_vk_resource_pipeline_barrier(i, old, new) ==
  Submitted(Use(Transfer({Image(i)}), {<<Image(i), l>> : l \in old},
                {<<Image(i), l>> : l \in old}, {<<Image(i), new>>}))

\* Mutant: the swapchain goes before the views of its images.
DestroyOrder_SwapchainFirst ==
  <<"sync_obj", "command_buffer", "buffer0", "buffer1", "buffer2", "buffer3",
    "descriptor_set", "ds_layout", "framebuffer", "pipeline", "pipeline_layout",
    "render_pass", "shader0", "shader1", "sampler", "swapchain", "image0", "image1",
    "image2", "lgdev", "surface", "instance">>

\* Every destroy call of kmr_vk_destroy is guarded: a slot that is not in
\* the struct it is given, or is NULL, is passed over.
DestroyOrder ==
  <<"sync_obj", "command_buffer", "buffer0", "buffer1", "buffer2", "buffer3",
    "descriptor_set", "ds_layout", "framebuffer", "pipeline", "pipeline_layout",
    "render_pass", "shader0", "shader1", "sampler", "image0", "image1", "image2",
    "swapchain", "lgdev", "surface", "instance">>
kmr_vk_destroy(appd) == DestroyAll(SelectSeq(DestroyOrder, LAMBDA s : s \in appd))

-----------------------------------------------------------------------------
(* The rest of the library.                                                *)

kmr_session_create == Create("session", {})
kmr_drm_node_create(session) == Create("node", session)
kmr_drm_node_display_create == Create("display", {"node"})
kmr_drm_node_display_mode_set == Call({"display", "gbm"})
kmr_drm_node_atomic_request_create == Create("atomic_request", {"display", "gbm"})
kmr_buffer_create == Create("gbm", {"node", "display"})
kmr_input_create(session) == Create("input", session)

kmr_wc_core_create == Create("wc_core", {})
kmr_wc_surface_create(buffer) == Create("wc_surface", {"wc_core"} \cup buffer)
kmr_wc_buffer_create == Create("wc_buffer", {"wc_core"})
kmr_xcb_window_create == Create("window", {})

kmr_utils_aligned_buffer_create == Create("modelTransferSpace", {"phdev"})
kmr_utils_image_buffer_create == Create("pixels", {})
kmr_shader_spirv_create(i) == Create(Spirv(i), {})

kmr_gltf_loader_file_create == CreateDeref("gltf_file", {})
kmr_gltf_loader_mesh_create == Create("mesh", {"gltf_file"})
kmr_gltf_loader_texture_image_create == Create("texture_image", {"gltf_file"})
kmr_gltf_loader_node_create == CreateDeref("gltf_node", {"gltf_file"})
kmr_gltf_loader_material_create == Create("material", {"gltf_file"})
=============================================================================
