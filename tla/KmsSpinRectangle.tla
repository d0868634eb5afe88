-------------------------- MODULE KmsSpinRectangle --------------------------
(* src/examples/kms/spin-rectangle.c: draws two turning rectangles, with a *)
(* depth image and uniform buffers, straight to the display.  Each         *)
(* definition is the C function of its name, main without its event loop   *)
(* and exit_error its last label.                                          *)
EXTENDS LibraryCalls

create_kms_instance(build) ==
  If(build.libseat, <<kmr_session_create>>)
    \o <<kmr_drm_node_create(Session(build)), kmr_drm_node_display_create>>

create_kms_gbm_buffers == <<kmr_buffer_create>>

\* A mode set for each of the buffers.
create_kms_set_crtc ==
  <<kmr_drm_node_display_mode_set, kmr_drm_node_display_mode_set>>

create_kms_atomic_request_instance == <<kmr_drm_node_atomic_request_create>>

create_vk_instance == <<kmr_vk_instance_create>>

create_vk_device ==
  <<kmr_vk_phdev_create({"node"}), kmr_vk_queue_create, kmr_vk_lgdev_create>>

\* The format may be one the library has no name for; each of the two
\* images imports the DMA-BUF of a buffer.
create_vk_swapchain_images ==
  <<Call({"gbm", "display"}),
    kmr_vk_get_external_fd_memory_properties,
    kmr_vk_get_external_fd_memory_properties,
    kmr_vk_image_create(0, {"phdev", "gbm"})>>

choose_depth_image_format == <<kmr_vk_get_phdev_format_properties>>

create_vk_depth_image ==
  choose_depth_image_format \o <<kmr_vk_image_create(1, {"phdev"})>>

\* The SPIR-V of both shaders is given back whatever happens.
create_vk_shader_modules ==
  LET exit_destroy_shader == DestroyAndNull(Spirv(0)) \o DestroyAndNull(Spirv(1))
  IN OnFailure(<<kmr_shader_spirv_create(0), kmr_shader_spirv_create(1),
                 kmr_vk_shader_module_create(0), kmr_vk_shader_module_create(1)>>,
               exit_destroy_shader)
       \o exit_destroy_shader

create_vk_command_buffers == <<kmr_vk_command_buffer_create>>

\* Drawn from by the GPU: the second buffer, a copy of the first, on a discrete one.
create_vk_buffers(build) ==
  <<kmr_vk_buffer_create(0), kmr_vk_memory_map(0, {"vertices"}),
    kmr_vk_memory_map(0, {"indices"})>>
    \o If(build.discrete,
          <<kmr_vk_buffer_create(1),
            kmr_vk_resource_copy(Buffer(0), Buffer(1), {"vertices", "indices"}, {})>>)
    \o <<kmr_utils_aligned_buffer_create, kmr_vk_buffer_create(2)>>

create_vk_resource_descriptor_sets ==
  <<kmr_vk_descriptor_set_layout_create, kmr_vk_descriptor_set_create,
    Use({"buffer2", "descriptor_set"}, {}, {}, {})>>

create_vk_graphics_pipeline ==
  <<kmr_vk_pipeline_layout_create({"ds_layout"}), kmr_vk_render_pass_create,
    kmr_vk_graphics_pipeline_create>>

create_vk_framebuffers ==
  <<kmr_vk_framebuffer_create({Image(0), Image(1)})>>

create_vk_sync_objs == <<kmr_vk_sync_obj_create>>

\* What the recorded commands read when the GPU runs them.  The scene is
\* bound at offset 0, whichever image is drawn.
bound(build) ==
  {<<DrawBuffer(build), d>> : d \in {"vertices", "indices"}}
    \cup {<<Buffer(2), d>> : d \in {Scene(0), "models"}}

record_vk_draw_commands(build) ==
  <<Unchecked(Use({"command_buffer", "framebuffer", "render_pass", "pipeline", "pipeline_layout",
                 "descriptor_set",
                 DrawBuffer(build)}, {}, {}, {}))>>

update_uniform_buffer(image) ==
  <<kmr_vk_memory_map(2, {Scene(image)}), Use({"modelTransferSpace"}, {}, {}, {}),
    kmr_vk_memory_map(2, {"models"})>>

\* Waits on the semaphore until the GPU is done.
render(build, image) ==
  record_vk_draw_commands(build) \o update_uniform_buffer(image)
    \o <<Use({"display", "gbm", "sync_obj", "command_buffer"}, bound(build), {}, {})>>

\* After the last create function: the input, and the epoll descriptors.
main(build) ==
  create_vk_instance \o create_kms_instance(build)
    \o create_kms_gbm_buffers \o create_kms_set_crtc \o create_vk_device
    \o create_vk_swapchain_images \o create_vk_depth_image
    \o create_vk_shader_modules \o create_vk_command_buffers
    \o create_vk_buffers(build) \o create_vk_resource_descriptor_sets
    \o create_vk_graphics_pipeline \o create_vk_framebuffers
    \o create_vk_sync_objs \o create_kms_atomic_request_instance
    \o <<kmr_input_create(Session(build)), Call({"node", "input"})>>

exit_error(build) ==
  DestroyAll(<<"modelTransferSpace">>) \o kmr_vk_destroy(
    {"instance", "lgdev", "image0", "image1", "shader0", "shader1",
     "pipeline_layout", "render_pass", "pipeline", "framebuffer",
     "command_buffer", "sync_obj", "buffer0", "buffer1", "buffer2",
     "ds_layout", "descriptor_set"})
    \o DestroyAll(<<"gbm", "input", "atomic_request", "display", "node">>)
    \o If(build.libseat, <<Destroy("session")>>)
=============================================================================
