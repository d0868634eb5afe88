---------------------------- MODULE LoaderObjects ----------------------------
(***************************************************************************)
(* The create functions of src/src/utils.c, shader.c, gltf-loader.c,       *)
(* dma-buf.c, input.c and session.c, the labels they leave by and the      *)
(* destroy functions; n is the number of meshes, images, materials or      *)
(* descriptors.  Most labels call the destroy function with the struct as  *)
(* far as it is filled in.                                                 *)
(***************************************************************************)
EXTENDS FunctionSteps

(* utils.c.  What is returned is freed by the caller.                      *)

kmr_utils_aligned_buffer_create == Single(<<"alignedBufferMemory">>)

kmr_utils_image_buffer_create ==
  Function(<<Get(<<"imageFile">>, "image_buffer"), Get(<<"bytes">>, "free_imageFile"),
             Get(<<"pixels">>, "free_bytes"), Free(<<"imageFile">>), Free(<<"bytes">>)>>,
           <<At("free_bytes", <<<<"bytes">>>>), At("free_imageFile", <<<<"imageFile">>>>)>>,
           <<<<"pixels">>>>)

\* Seek and tell, and the reading of the whole file.
kmr_utils_file_load ==
  Function(<<Get(<<"stream">>, "file_load"), Try("fclose"), Try("fclose"),
             Get(<<"bytes">>, "fclose"), Try("free_bytes"), Free(<<"stream">>)>>,
           <<At("free_bytes", <<<<"bytes">>>>), At("fclose", <<<<"stream">>>>)>>,
           <<<<"bytes">>>>)

\* dirname takes the NULL of a failed strndup.
kmr_utils_concat_file_to_dir ==
  Function(<<Get(<<"filepath">>, "return"), Try("stat"),
             GetOrSkip(<<"str">>), Free(<<"str">>)>>,
           <<At("stat", <<<<"filepath">>>>)>>, <<<<"filepath">>>>)

\* A name that is not taken, and the size of the file.
allocate_shm_file ==
  Function(<<Get(<<"fd">>, "return"), Try("close")>>,
           <<At("close", <<<<"fd">>>>)>>, <<<<"fd">>>>)

(* shader.c.  The error message of a result that is NULL is asked for.     *)

\* Mutant: options and compiler are released as soon as they have been used,
\* and again under the label.
spirv_releases_early ==
  LET label == "spirv_create"
      destroy == <<<<"result">>, <<"spirv">>>>
  IN Function(<<Get(<<"spirv">>, label), Get(<<"compiler">>, label), Get(<<"options">>, label),
                GetOrCrash(<<"result">>),
                Free(<<"options">>), Free(<<"compiler">>), Try(label)>>,
              <<At(label, <<<<"options">>, <<"compiler">>>> \o destroy)>>, destroy)

kmr_shader_spirv_create ==
  LET label == "spirv_create"
      destroy == <<<<"result">>, <<"spirv">>>>
  IN Function(<<Get(<<"spirv">>, label), Get(<<"compiler">>, label), Get(<<"options">>, label),
                GetOrCrash(<<"result">>), Try(label),
                Free(<<"options">>), Free(<<"compiler">>)>>,
              <<At(label, <<<<"options">>, <<"compiler">>>> \o destroy)>>, destroy)

-----------------------------------------------------------------------------
(* gltf-loader.c.                                                          *)

\* A function whose one label destroys what has been filled in.
Filled(steps, destroy) == Function(steps, <<At("destroy", destroy)>>, destroy)

kmr_gltf_loader_file_create ==
  Filled(<<Get(<<"gltfFile">>, "return"), Get(<<"gltfData">>, "destroy"),
           Try("destroy"), Try("destroy")>>,
         <<<<"gltfData">>, <<"gltfFile">>>>)

\* The vertices are written whether there is memory or not; a mesh may have
\* no indices, and indices may be of a type that is not known.
mesh_data(i) ==
  <<GetOrCrash(<<"vertexBufferData", i>>),
    GetMaybe(<<"indexBufferData", i>>, "destroy"), Try("destroy")>>
kmr_gltf_loader_mesh_create(n) ==
  Filled(<<Get(<<"mesh">>, "return"), Get(<<"meshData">>, "destroy")>>
           \o Loop([i \in 1..n |-> mesh_data(i)]),
         Each("vertexBufferData", n) \o Each("indexBufferData", n)
           \o <<<<"meshData">>, <<"mesh">>>>)

\* The number of images is written at the end: before that, the images that
\* were loaded are not seen by the destroy function.
kmr_gltf_loader_texture_image_create(n) ==
  LET arrays == <<<<"imageData">>, <<"textureImage">>>>
  IN Function(<<Get(<<"textureImage">>, "destroy"), Get(<<"imageData">>, "destroy")>>
                \o GetEach("pixels", n, "destroy"),
              <<At("destroy", arrays)>>, Each("pixels", n) \o arrays)

\* Of each material, its name, and four textures that are taken to be there.
material_data(i) == <<GetOrSkip(<<"materialName", i>>), GetOrCrash(none)>>
kmr_gltf_loader_material_create(n) ==
  Filled(<<Get(<<"material">>, "destroy"), Get(<<"materialData">>, "destroy")>>
           \o Loop([i \in 1..n |-> material_data(i)]),
         Each("materialName", n) \o <<<<"materialData">>, <<"material">>>>)

kmr_gltf_loader_node_create ==
  Filled(<<Get(<<"node">>, "destroy"), Get(<<"nodeData">>, "destroy")>>,
         <<<<"nodeData">>, <<"node">>>>)

-----------------------------------------------------------------------------
(* dma-buf.c.  The sync file is closed whether the import works or not,    *)
(* but not when the kernel is too old for it.  The descriptors of an       *)
(* export are 0 until they are filled in, and the array of them is read    *)
(* by the destroy function when it could not be allocated.                 *)

kmr_dma_buf_import_sync_file_create(n) ==
  [Function(<<Try("return")>> \o TryEach(n, "close") \o <<Free(<<"syncFileFd">>)>>,
            <<At("close", <<<<"syncFileFd">>>>)>>, <<>>)
   EXCEPT !.given = {<<"syncFileFd">>}]

kmr_dma_buf_export_sync_file_create(n) ==
  [Filled(<<Try("return"), Get(<<"exportSyncFile">>, "return"), GetOrCrash(<<"syncFileFds">>)>>
            \o GetEach("fd", n, "destroy"),
          Each("fd", n) \o <<<<"syncFileFds">>, <<"exportSyncFile">>>>)
   EXCEPT !.junk = {<<"fd", i>> : i \in 1..n}]

(* input.c, session.c and the udev objects of drm-node.c.  A libinput      *)
(* context that is NULL is no trouble to libinput_unref.                   *)

kmr_input_create ==
  LET destroy == <<<<"inputInst">>, <<"input">>>>
  IN Function(<<Get(<<"input">>, "input_create"), Get(<<"udev">>, "input_create"),
                Get(<<"inputInst">>, "input_create"), Try("input_create"), Free(<<"udev">>)>>,
              <<At("input_create", <<<<"udev">>>> \o destroy)>>, destroy)

\* Waiting for the seat to be enabled, its name and its descriptor.
kmr_session_create ==
  Filled(<<Get(<<"session">>, "destroy"), Get(<<"seat">>, "destroy")>> \o TryEach(3, "destroy"),
         <<<<"seat">>, <<"session">>>>)

\* Each udev device is given back before the next is looked at; the last Try
\* is for there being none that will do.
open_drm_node_udev(n) ==
  Function(<<Get(<<"udev">>, "open_node_udev"), Get(<<"udevEnum">>, "open_node_udev"),
             Try("open_node_udev")>>
             \o Loop([i \in 1..n |-> <<GetOrSkip(<<"device", i>>), Free(<<"device", i>>)>>])
             \o <<Try("open_node_udev"), Free(<<"udevEnum">>), Free(<<"udev">>)>>,
           <<At("open_node_udev", <<<<"udevEnum">>, <<"udev">>>>)>>, <<>>)
=============================================================================
