-------------------------- MODULE WaylandTriangle --------------------------
(* src/examples/wayland/triangle.c: draws one triangle from a vertex       *)
(* buffer, to a Wayland surface.  Each definition is the C function of its *)
(* name, main without its event loop and exit_error its last label.        *)
EXTENDS LibraryCalls

create_wc_vk_surface ==
  <<kmr_wc_core_create, kmr_wc_surface_create({}),
    kmr_vk_surface_create({"wc_core", "wc_surface"})>>

create_vk_instance == <<kmr_vk_instance_create>>

create_vk_device ==
  <<kmr_vk_phdev_create({}), kmr_vk_queue_create, kmr_vk_lgdev_create>>

create_vk_swapchain == <<kmr_vk_get_surface_capabilities, kmr_vk_swapchain_create>>

create_vk_swapchain_images == <<kmr_vk_image_create(0, {"swapchain"})>>

\* The SPIR-V of both shaders is given back whatever happens.
create_vk_shader_modules ==
  LET exit_destroy_shader == DestroyAndNull(Spirv(0)) \o DestroyAndNull(Spirv(1))
  IN OnFailure(<<kmr_shader_spirv_create(0), kmr_shader_spirv_create(1),
                 kmr_vk_shader_module_create(0), kmr_vk_shader_module_create(1)>>,
               exit_destroy_shader)
       \o exit_destroy_shader

create_vk_command_buffers == <<kmr_vk_command_buffer_create>>

\* Drawn from by the GPU: the second buffer, a copy of the first, on a discrete one.
create_vk_buffers(build) ==
  <<kmr_vk_buffer_create(0), kmr_vk_memory_map(0, {"vertices"})>>
    \o If(build.discrete,
          <<kmr_vk_buffer_create(1),
            kmr_vk_resource_copy(Buffer(0), Buffer(1), {"vertices"}, {})>>)

create_vk_graphics_pipeline ==
  <<kmr_vk_pipeline_layout_create({}), kmr_vk_render_pass_create,
    kmr_vk_graphics_pipeline_create>>

create_vk_framebuffers ==
  <<kmr_vk_framebuffer_create({Image(0)})>>

create_vk_sync_objs == <<kmr_vk_sync_obj_create>>

\* What the recorded commands read when the GPU runs them.
bound(build) ==
  {<<DrawBuffer(build), d>> : d \in {"vertices"}}

record_vk_draw_commands(build) ==
  <<Unchecked(Use({"command_buffer", "framebuffer", "render_pass", "pipeline", DrawBuffer(build)}, {}, {}, {}))>>

\* Waits for the fence of the frame before, acquires, draws and presents.
render(build, image) ==
  <<Use({"sync_obj", "swapchain"}, {}, {}, {})>>
    \o record_vk_draw_commands(build)
    \o <<Use({"sync_obj", "command_buffer"}, bound(build), {}, {}),
         Use({"sync_obj", "swapchain"}, {}, {}, {})>>

main(build) ==
  create_vk_instance \o create_wc_vk_surface \o create_vk_device
    \o create_vk_swapchain \o create_vk_swapchain_images
    \o create_vk_shader_modules \o create_vk_graphics_pipeline
    \o create_vk_framebuffers \o create_vk_command_buffers
    \o create_vk_sync_objs \o create_vk_buffers(build)

exit_error(build) ==
  kmr_vk_destroy(
    {"instance", "surface", "lgdev", "swapchain", "image0", "shader0",
     "shader1", "pipeline_layout", "render_pass", "pipeline", "framebuffer",
     "command_buffer", "sync_obj", "buffer0", "buffer1"})
    \o DestroyAll(<<"wc_surface", "wc_core">>)
=============================================================================
