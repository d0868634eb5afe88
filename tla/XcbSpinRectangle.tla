-------------------------- MODULE XcbSpinRectangle --------------------------
(* src/examples/xcb/spin-rectangle.c: draws two turning rectangles, with a *)
(* depth image and uniform buffers, to an X11 window.  Each definition is  *)
(* the C function of its name, main without its event loop and exit_error  *)
(* its last label.                                                         *)
EXTENDS LibraryCalls

create_xcb_vk_surface ==
  <<kmr_xcb_window_create, kmr_vk_surface_create({"window"})>>

create_vk_instance == <<kmr_vk_instance_create>>

create_vk_device ==
  <<kmr_vk_phdev_create({}), kmr_vk_queue_create, kmr_vk_lgdev_create>>

create_vk_swapchain == <<kmr_vk_get_surface_capabilities, kmr_vk_swapchain_create>>

create_vk_swapchain_images == <<kmr_vk_image_create(0, {"swapchain"})>>

choose_depth_image_format == <<kmr_vk_get_phdev_format_properties>>

create_vk_depth_image ==
  choose_depth_image_format \o <<kmr_vk_image_create(1, {"phdev"})>>

\* The SPIR-V of both shaders is given back whatever happens.
create_vk_shader_modules ==
  LET exit_destroy_shader == DestroyAndNull(Spirv(0)) \o DestroyAndNull(Spirv(1))
  IN OnFailure(<<kmr_shader_spirv_create(0), kmr_shader_spirv_create(1),
                 kmr_vk_shader_module_create(0), kmr_vk_shader_module_create(1)>>,
               exit_destroy_shader)
       \o exit_destroy_shader

create_vk_command_buffers == <<kmr_vk_command_buffer_create>>

\* Mutant: the copy for a discrete GPU is forgotten.
create_vk_buffers_uncopied(build) ==
  <<kmr_vk_buffer_create(0), kmr_vk_memory_map(0, {"vertices"}),
    kmr_vk_memory_map(0, {"indices"})>>
    \o If(build.discrete, <<kmr_vk_buffer_create(1)>>)
    \o <<kmr_utils_aligned_buffer_create, kmr_vk_buffer_create(2)>>

\* Drawn from by the GPU: the second buffer, a copy of the first, on a discrete one.
create_vk_buffers(build) ==
  <<kmr_vk_buffer_create(0), kmr_vk_memory_map(0, {"vertices"}),
    kmr_vk_memory_map(0, {"indices"})>>
    \o If(build.discrete,
          <<kmr_vk_buffer_create(1),
            kmr_vk_resource_copy(Buffer(0), Buffer(1), {"vertices", "indices"}, {})>>)
    \o <<kmr_utils_aligned_buffer_create, kmr_vk_buffer_create(2)>>

create_vk_resource_descriptor_sets ==
  <<kmr_vk_descriptor_set_layout_create, kmr_vk_descriptor_set_create,
    Use({"buffer2", "descriptor_set"}, {}, {}, {})>>

create_vk_graphics_pipeline ==
  <<kmr_vk_pipeline_layout_create({"ds_layout"}), kmr_vk_render_pass_create,
    kmr_vk_graphics_pipeline_create>>

create_vk_framebuffers ==
  <<kmr_vk_framebuffer_create({Image(0), Image(1)})>>

create_vk_sync_objs == <<kmr_vk_sync_obj_create>>

\* What the recorded commands read when the GPU runs them.  The scene is
\* bound at offset 0, whichever image is drawn.
bound(build) ==
  {<<DrawBuffer(build), d>> : d \in {"vertices", "indices"}}
    \cup {<<Buffer(2), d>> : d \in {Scene(0), "models"}}

record_vk_draw_commands(build) ==
  <<Unchecked(Use({"command_buffer", "framebuffer", "render_pass", "pipeline", "pipeline_layout",
                 "descriptor_set",
                 DrawBuffer(build)}, {}, {}, {}))>>

update_uniform_buffer(image) ==
  <<kmr_vk_memory_map(2, {Scene(image)}), Use({"modelTransferSpace"}, {}, {}, {}),
    kmr_vk_memory_map(2, {"models"})>>

\* Waits for the fence of the frame before, acquires, draws and presents.
render(build, image) ==
  <<Use({"sync_obj", "swapchain"}, {}, {}, {})>>
    \o record_vk_draw_commands(build) \o update_uniform_buffer(image)
    \o <<Use({"sync_obj", "command_buffer"}, bound(build), {}, {}),
         Use({"sync_obj", "swapchain"}, {}, {}, {})>>

\* The window is mapped once everything is there.
main(build) ==
  create_vk_instance \o create_xcb_vk_surface \o create_vk_device
    \o create_vk_swapchain \o create_vk_swapchain_images
    \o create_vk_depth_image \o create_vk_shader_modules
    \o create_vk_command_buffers \o create_vk_buffers(build)
    \o create_vk_resource_descriptor_sets \o create_vk_graphics_pipeline
    \o create_vk_framebuffers \o create_vk_sync_objs
    \o <<Use({"window"}, {}, {}, {})>>

exit_error(build) ==
  DestroyAll(<<"modelTransferSpace">>) \o kmr_vk_destroy(
    {"instance", "surface", "lgdev", "swapchain", "image0", "image1",
     "shader0", "shader1", "pipeline_layout", "render_pass", "pipeline",
     "framebuffer", "command_buffer", "sync_obj", "buffer0", "buffer1",
     "buffer2", "ds_layout", "descriptor_set"})
    \o DestroyAll(<<"window">>)
=============================================================================
