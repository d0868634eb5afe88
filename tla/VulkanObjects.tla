---------------------------- MODULE VulkanObjects ----------------------------
(***************************************************************************)
(* The create functions of src/src/vulkan.c, the labels they leave by and  *)
(* the parts of kmr_vk_destroy that take down what they return.  n is the  *)
(* size of the arrays a function makes.  Physical devices, queues,         *)
(* descriptor sets, command buffers and the images of a swapchain are      *)
(* handles that belong to something else: nothing is made or released.     *)
(***************************************************************************)
EXTENDS FunctionSteps

kmr_vk_instance_create == Single(<<"instance">>)
kmr_vk_surface_create  == Single(<<"surface">>)

\* The enumeration twice, fstat on the DRM node, and a device that fits.
kmr_vk_phdev_create == Function(TryEach(4, "return"), <<>>, <<>>)

kmr_vk_lgdev_create(n) ==
  Function(
    <<Get(<<"queueCreateInfo">>, "create"), Get(<<"device">>, "free_queueCreateInfo")>>
      \o TryEach(n, "destroy") \o <<Free(<<"queueCreateInfo">>)>>,
    <<At("destroy", <<<<"device">>>>),
      At("free_queueCreateInfo", <<<<"queueCreateInfo">>>>)>>,
    <<<<"device">>>>)

kmr_vk_swapchain_create         == Single(<<"swapchain">>)
kmr_vk_shader_module_create     == Single(<<"shader_module">>)
kmr_vk_pipeline_layout_create   == Single(<<"pipeline_layout">>)
kmr_vk_render_pass_create       == Single(<<"render_pass">>)
kmr_vk_graphics_pipeline_create == Single(<<"graphics_pipeline">>)
kmr_vk_descriptor_set_layout_create == Single(<<"descriptor_set_layout">>)
kmr_vk_sampler_create           == Single(<<"sampler">>)

-----------------------------------------------------------------------------
(* Images.  Those of a swapchain only need views; otherwise the function   *)
(* makes n images and their memory, one block of it or one for each plane  *)
(* of a DMA-BUF.                                                           *)

views(n) ==
  <<Get(<<"imageHandles">>, "free_images"), Get(<<"imageViewHandles">>, "free_images")>>
    \o GetEach("view", n, "free_image_views")
free_image_views(n) == At("free_image_views", Each("view", n) \o <<<<"imageViewHandles">>>>)

swapchain_image_create(n) ==
  Function(TryEach(2, "return") \o views(n),
           <<free_image_views(n), At("free_images", <<<<"imageHandles">>>>)>>,
           Each("view", n) \o <<<<"imageHandles">>, <<"imageViewHandles">>>>)

\* The memory type is looked up, and then the memory allocated.  Importing
\* hands the copy of the descriptor over to the memory.
memory(i, p) == <<"memory", i, p>>
image_memory(i, p, dmabuf) ==
  IF dmabuf
  THEN <<Get(<<"dupFd", i, p>>, "free_images"), Try("free_images"),
         GetFrom(memory(i, p), {<<"dupFd", i, p>>}, "free_images")>>
  ELSE <<Try("free_images"), Get(memory(i, p), "free_images")>>

\* The number of memory blocks is written when image i exists.
own_image(i, planes, dmabuf) ==
  <<Get(<<"image", i>>, "free_images"), Set(<<"memoryCount", i>>)>>
    \o Loop([p \in 1..planes |-> image_memory(i, p, dmabuf)])

\* What is released for image i, as often as the number of blocks says.
image_slots(i, planes) ==
  <<<<"image", i>>, <<"memoryCount", i>>>> \o [p \in 1..planes |-> memory(i, p)]

\* memset clears n handles' worth of the n structs, which is the first n
\* memory handles of the first image: the rest is what was on the stack.
own_image_create(n, planes, dmabuf) ==
  [Function(
     Loop([i \in 1..n |-> own_image(i, planes, dmabuf)]) \o views(n),
     <<free_image_views(n),
       At("free_images", Loop([i \in 1..n |-> image_slots(i, planes)]) \o <<<<"imageHandles">>>>)>>,
     Loop([i \in 1..n |-> Append(image_slots(i, planes), <<"view", i>>)])
       \o <<<<"imageHandles">>, <<"imageViewHandles">>>>)
   EXCEPT !.junk = {<<"memoryCount", i>> : i \in 1..n}
                     \cup ({memory(i, p) : i \in 1..n, p \in 1..planes} \ {memory(1, p) : p \in 1..n})]

-----------------------------------------------------------------------------
(* Arrays of handles.                                                      *)

\* Mutant: the result of vkCreateFramebuffer is not looked at.
framebuffer_unchecked(n) ==
  Function(
    <<Get(<<"framebufferHandles">>, "framebuffer")>>
      \o [i \in 1..n |-> GetOrSkip(<<"framebuffer", i>>)],
    <<>>, Each("framebuffer", n) \o <<<<"framebufferHandles">>>>)

kmr_vk_framebuffer_create(n) ==
  Function(
    <<Get(<<"framebufferHandles">>, "framebuffer")>>
      \o GetEach("framebuffer", n, "destroy_framebuffer"),
    <<At("destroy_framebuffer", Each("framebuffer", n) \o <<<<"framebufferHandles">>>>)>>,
    Each("framebuffer", n) \o <<<<"framebufferHandles">>>>)

\* A pool, what is allocated from it, and the array of what was allocated.
Pool(handles) ==
  Function(<<Get(<<"pool">>, "return"), Try("destroy_pool"), Get(handles, "destroy_pool")>>,
           <<At("destroy_pool", <<<<"pool">>>>)>>,
           <<<<"pool">>, handles>>)

kmr_vk_command_buffer_create == Pool(<<"commandBufferHandles">>)
kmr_vk_descriptor_set_create == Pool(<<"descriptorSetHandles">>)

\* Mutant: a semaphore that cannot be made leaves by the label of the fences.
sync_obj_by_fence_label(n) ==
  Function(
    <<Get(<<"fenceHandles">>, "sync_obj"), Get(<<"semaphoreHandles">>, "free_sync_handles")>>
      \o GetEach("fence", n, "destroy_fence") \o GetEach("semaphore", n, "destroy_fence"),
    <<At("destroy_semaphore", Each("semaphore", n)), At("destroy_fence", Each("fence", n)),
      At("free_sync_handles", <<<<"semaphoreHandles">>, <<"fenceHandles">>>>)>>,
    Each("fence", n) \o Each("semaphore", n) \o <<<<"fenceHandles">>, <<"semaphoreHandles">>>>)

kmr_vk_sync_obj_create(n) ==
  Function(
    <<Get(<<"fenceHandles">>, "sync_obj"), Get(<<"semaphoreHandles">>, "free_sync_handles")>>
      \o GetEach("fence", n, "destroy_fence") \o GetEach("semaphore", n, "destroy_semaphore"),
    <<At("destroy_semaphore", Each("semaphore", n)), At("destroy_fence", Each("fence", n)),
      At("free_sync_handles", <<<<"semaphoreHandles">>, <<"fenceHandles">>>>)>>,
    Each("fence", n) \o Each("semaphore", n) \o <<<<"fenceHandles">>, <<"semaphoreHandles">>>>)

\* A buffer, its memory type, its memory; every failure just returns.
kmr_vk_buffer_create ==
  Function(<<Get(<<"buffer">>, "return"), Try("return"), Get(<<"deviceMemory">>, "return")>>,
           <<>>, <<<<"buffer">>, <<"deviceMemory">>>>)

-----------------------------------------------------------------------------
(* Descriptors: one that is imported goes to the driver when that works    *)
(* and stays the caller's when not, one that is exported is the caller's   *)
(* to close.                                                               *)

kmr_vk_sync_obj_import_external_sync_fd ==
  [Function(<<GetFrom(none, {<<"syncFd">>}, "return")>>, <<>>, <<>>)
   EXCEPT !.given = {<<"syncFd">>}, !.kept = {<<"syncFd">>}]
kmr_vk_sync_obj_export_external_sync_fd == Single(<<"fd">>)
kmr_vk_memory_export_external_fd        == Single(<<"fd">>)

(* What the caller has to free.                                            *)

Query(array) ==
  Function(<<Try("return"), Get(array, "return"), Try("free")>>,
           <<At("free", <<array>>)>>, <<array>>)
kmr_vk_get_surface_formats         == Query(<<"surfaceFormats">>)
kmr_vk_get_surface_present_modes   == Query(<<"presentModes">>)
kmr_vk_get_phdev_format_properties == Single(<<"formatProperties">>)
=============================================================================
