--------------------------- MODULE KmsDoubleBuffer ---------------------------
(* src/examples/kms/double-buffer-atomic-modeset.c: fills the screen with  *)
(* a colour that changes, without Vulkan.  Each definition is the C        *)
(* function of its name, main without its event loop.                      *)
EXTENDS LibraryCalls

create_kms_instance(build) ==
  If(build.libseat, <<kmr_session_create>>)
    \o <<kmr_drm_node_create(Session(build)), kmr_drm_node_display_create>>

create_kms_gbm_buffers == <<kmr_buffer_create>>

create_kms_set_crtc ==
  <<kmr_drm_node_display_mode_set, kmr_drm_node_display_mode_set>>

\* Memory of the size of the screen, mapped.
create_kms_pixel_buffer == <<Create("pixel_buffer", {"display", "gbm"})>>

create_kms_atomic_request_instance == <<kmr_drm_node_atomic_request_create>>

\* Written to the mapped memory and from there to the buffer of the turn.
render(build, image) ==
  <<Use({"display", "pixel_buffer"}, {}, {}, {<<"pixel_buffer", "colour">>}),
    Use({"gbm", "pixel_buffer"}, {<<"pixel_buffer", "colour">>}, {}, {})>>

main(build) ==
  create_kms_instance(build) \o create_kms_gbm_buffers \o create_kms_set_crtc
    \o create_kms_pixel_buffer \o create_kms_atomic_request_instance
    \o <<kmr_input_create(Session(build)), Call({"node", "input"})>>

exit_error(build) ==
  DestroyAll(<<"pixel_buffer", "gbm", "input", "atomic_request", "display", "node">>)
    \o If(build.libseat, <<Destroy("session")>>)
=============================================================================
