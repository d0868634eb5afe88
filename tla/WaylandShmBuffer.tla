-------------------------- MODULE WaylandShmBuffer --------------------------
(* src/examples/wayland/shm-buffer.c: fills a Wayland surface with a       *)
(* colour that changes, without Vulkan.  It is the one program that does   *)
(* not clear its app struct before it uses it.                             *)
EXTENDS LibraryCalls

uninitialised == {"wc_core", "wc_surface", "wc_buffer"}

render(build, image) == <<Use({"wc_buffer"}, {}, {}, {})>>

main(build) ==
  <<kmr_wc_core_create, kmr_wc_buffer_create, kmr_wc_surface_create({"wc_buffer"})>>

exit_error(build) == DestroyAll(<<"wc_surface", "wc_buffer", "wc_core">>)
=============================================================================
