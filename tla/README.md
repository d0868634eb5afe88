# kmsroots in TLA+

Models, model-checking runs and machine-checked proofs for kmsroots, the C
library in `src/src` and `src/include` that puts a renderer (Vulkan or plain
pixels) on a screen through DRM/KMS, Wayland or XCB, and for the programs in
`src/examples`.

kmsroots is single-threaded. What makes it hard is what runs around it: the
kernel that latches framebuffers and queues events, the GPU that runs behind,
the seat that takes DRM master away, the compositor that answers when it likes,
signals, and a C library in which every step of a constructor may fail after
others succeeded.

## 1. Inventory

| Component | Source | State | Operations | What is hard | What makes it correct |
|---|---|---|---|---|---|
| Page-flip loop | `drm-node.c:779-1104`, `examples/kms/*.c` | atomic request, renderer info, current buffer, fb id, running flag; in the kernel: scanout, pending flip, events | mode_set, atomic_request_create/destroy, handle_drm_event, renderer, main loop | kernel, GPU, signals and VT switches interleave with the handler; commits and the renderer's calls fail silently; clean-up with a flip underway | one flip at a time, the renderer never touches a visible buffer, frames in order, the loop neither stalls nor ignores the user |
| Buffers | `buffer.c` | per buffer: GBM bo, GEM handles, DMA-BUF fds, framebuffer id | create, destroy | failure in the middle of a nested loop; handles and fds are both small integers | what was acquired is released, once, and by its own name |
| Display output chain | `drm-node.c:352-768` | connector, CRTC and plane ids and property arrays, mode blob | create, destroy | search over connectors, error path that frees and then calls destroy | each allocation freed; a chain that belongs together |
| DRM node | `drm-node.c:89-335` | kmsfd, session | create, destroy, get_device_capabilities | search over devices with early `continue`s, error path shared with destroy | kmsfd is open on a usable card until destroyed |
| Session | `session.c` | libseat handle, active flag | create, destroy, take control, release, switch VT | device number and fd are both integers | devices are given back, and no other |
| Input | `input.c` | libinput context and its fds | create, destroy, open/close_restricted | devices come and go while others open and close | each fd closed once |
| Frames of the swapchain programs | the `render` functions of `examples/wayland`, `examples/xcb` | command buffer, fence, two semaphores, swapchain images | renderer | GPU and presentation engine run behind the program; no result is checked | nothing is written while the GPU reads it |
| XCB client | `xclient.c`, `examples/xcb` | connection, window, atoms | create, destroy, handle_event, loop | unchecked replies; the stop flag goes through a pointer | the stop request reaches the loop |
| Wayland client | `wclient.c`, `examples/wayland` | registry objects, shm buffers, surface, frame callback | core/buffer/surface create and destroy, configure, close and frame handlers | asynchronous events, callbacks that re-arm themselves | no buffer before the configure event, unbroken callback chains |
| Vulkan helpers | `vulkan.c` | device, swapchain, images, buffers, pipelines, sync objects | create functions, `kmr_vk_destroy` | partial failure in loops, order of destruction | children destroyed before parents, all of them, once |
| glTF loader | `gltf-loader.c` | file, meshes, images, materials, nodes | create/destroy of each | failure between two arrays | everything given back on every path |
| Shader, utils | `shader.c`, `utils.c` | buffers | compile, file and image load, aligned buffer, shm file | failure between two allocations | as above |
| DMA-BUF sync files | `dma-buf.c` | arrays of sync file fds | import, export, destroy | failure in a loop over fds; zero is a valid fd | each fd closed once, no foreign fd closed |
| Example programs | `examples/*/*.c` | one struct of handles each | main, render, exit_error | sixty calls that may fail, one label for all | calls get live objects, nothing leaks, frames read what was written |
| Pixel formats | `pixel-format.c` | none (tables) | look-ups | - | not modelled |

Interactions: the session opens the device the node uses and the input devices;
the node's fd carries the display, the buffers and the page-flip events; the
display's ids and the buffers' framebuffer ids go into the atomic request; the
page-flip handler calls back into the program's renderer, which writes a buffer
and reads the program's stop flag; sync files tie Vulkan images to the buffers.
Wayland and XCB programs replace node, display, buffers and page flips by the
client's surface and its frame callbacks, or by a polling loop, around a Vulkan
swapchain.

What each component is exposed to, line by line, is the list `hazards` of
`PROJECT.json`, with the properties that watch it.

## 2. The modules

| Module | Models | Proofs |
|---|---|---|
| `FramePipeline` | abstract: frames reach the screen in order, one at a time | |
| `PageFlip` | start-up, main loop, page-flip handler and clean-up of the KMS programs; implements `FramePipeline` | `PageFlip_proofs` |
| `BufferObjects` | `kmr_buffer_create`, `kmr_buffer_destroy` | `BufferObjects_proofs` |
| `DisplayChain` | `kmr_drm_node_display_create`, `kmr_drm_node_display_destroy` | `DisplayChain_proofs` |
| `SeatDevices` | session, DRM node and input over one table of descriptors and one of device numbers | `SeatDevices_proofs` |
| `SwapchainFrames`, `XcbClient` | the renderer, the GPU and the presentation engine; with the XCB window and its loop around it | `XcbClient_proofs` |
| `WaylandClient` | core, buffers, surface and handlers of the Wayland client, and the compositor | `WaylandClient_proofs` |
| `ExampleSteps`, `LibraryCalls`, `Examples` and one module a program | the 17 example programs, call by call, and what runs them | |
| `FunctionSteps`, `VulkanObjects`, `LoaderObjects`, `LibraryObjects` | the create and destroy functions of the library, call by call, and what runs them | `TidyFunctions`, `LibraryObjects_proofs` |

The models meet at calls. `Examples` takes a library function for one step that
succeeds, fails, or fails unnoticed where the function ignores a result itself;
`LibraryObjects` (and `BufferObjects`, `DisplayChain`, `SeatDevices`, for what
interacts with the kernel) opens that step up.
`PageFlip` starts where `BufferObjects` and `DisplayChain` end, and takes the
loss of DRM master from its environment; `Examples` has the clean-up of every
program in full. `XcbClient` composes `SwapchainFrames` with the window.
`WaylandClient` has the callbacks around the same renderer, whose frame is one
step there.

Further work, in order: a composition of `WaylandClient` and `SwapchainFrames`
in which a frame callback waits for the compositor to release an image; resize
and re-creation of a swapchain, should the library come to do it; VT switching
in `SeatDevices`, should the library come to dispatch libseat's events.

## 3. The page-flip loop: `PageFlip`

### The model

The program is one thread and `pc` says where it is; one action is what happens
between two points at which the kernel, the seat, the keyboard or a signal can be
noticed.

| Actions | Code |
|---|---|
| `ModeSet` | `create_kms_set_crtc`, calling `kmr_drm_node_display_mode_set` for each buffer |
| `AllocRequest`, `TestCommit`, `FirstCommit` | `kmr_drm_node_atomic_request_create`: allocations, `TEST_ONLY` commit, blocking commit asking for the first event |
| `Setup` | `kmr_input_create` and the epoll set-up |
| `LoopTest`, `EpollReturn`, `BatchDone` | `while (running)`, `epoll_wait`, the loop over the returned events |
| `HandleInput` | `libinput_dispatch`, one `libinput_get_event`, the test for ESC and Q |
| `HandleDrmEvent`, `CommitFlip` | `kmr_drm_node_handle_drm_event`, `handle_page_flip_event` around the example's `render` |
| `RenderBegin`, `WriteBuffer` | `render` of the double-buffer program |
| `RenderBegin`, `RecordDrawCommands`, `UpdateUniformBuffer`, `QueueSubmit`, `WaitSemaphores`, `WaitFails` | `render` of the Vulkan programs |
| `DestroyBuffer`, `DestroyRequest`, `CloseNode` | the label `exit_error` of `main` |
| `VBlank`, `VtSwitch`, `InputArrives`, `GpuFinishes`, `Signal` | kernel, seat, evdev, GPU, `run_stop` |

`vulkan` says which of the two renderers the program has. Each of their calls is an
action, because a vertical blank may fall between them, the GPU works meanwhile, and
none of their results is looked at: `MayFail` says which of them may fail. What a
failure does is what the code does then. `gbm_bo_write` leaves the buffer half
written, and it is committed. A failed recording leaves the commands of the frame
before, or none, and they are submitted. Memory that cannot be mapped is written all
the same, through NULL. A failed submission leaves the renderer waiting, without a
timeout, for a value nobody signals (`stuck`). A wait that returns an error lets the
buffer be committed while the GPU draws to it, and `vkDeviceWaitIdle` lets it be
destroyed. `turn` is the call of the renderer a buffer was last drawn for, `whole`
the buffers that hold all of that frame, `failed` what has failed since a frame was
begun with the GPU idle.

A framebuffer is named by the index of its buffer. `fpsCounter`, logging and the
property values other than `FB_ID` are left out. `drmModeAtomicReq` is reduced to how
many preparations it holds (`prepared`) and which `FB_ID` wins (`reqFb`, the last one
added). The buffer's number is a `uint8_t` the renderer reads as a `uint32_t`
(`triangle.c:192`): `Uint32At` adds the three bytes behind it, which nothing else uses
(the variable is static, and the linker aligns what follows) and which stay zero.

The kernel as the code uses it: only the DRM master may commit; a nonblocking
commit is refused while another one waits for its vertical blank; the blocking
modeset commit queues its event before it returns; the vertical blank latches the
pending framebuffer and queues the event; removing a framebuffer the plane uses
waits for the flip underway and switches the CRTC off.

### What is checked

- `flip_safety`: three buffers, VT switches, refused commits, failures at every
  step of the start-up, every unchecked call failing at any time, input and signals
  at any moment. `OneFlipInFlight`: the right to draw is a token that is never
  doubled, so no commit meets EBUSY. `RendererOwnsBuffer`: the renderer, which only
  counts buffers, never chooses one that is scanned out or waiting. `NoTearing`: what
  is shown is not drawn to, by the program or by the GPU behind it, unless a recording
  or a wait has failed. `CommitsPopulated`: what waits is the buffer of the newest
  call, and whole unless a call has failed. `HandlerDataAlive`: the handler never
  meets a freed renderer info or a removed framebuffer. `TeardownComplete`: every way
  out leaves no framebuffer and no lit CRTC. `ShownInOrder`: the loop implements
  `FramePipeline` with `drawn <- frame, shown <- turn[front]`.
- `flip_steady`: with DRM master kept and every commit accepted, the loop never
  sleeps without a flip underway (`ChainAlive`), each frame is followed by the
  next (`FramesKeepComing`) and a signal ends the program (`CtrlCStops`), whatever
  unchecked call fails, except that a failed submission leaves the renderer stuck
  and a failed mapping is the end of the program. Keys arrive at any moment.
- `flip_wait`: a statement of the documentation that the code does not keep, see
  section 10.

Bounds: three buffers are the smallest number for which the buffer on the screen,
the one waiting and the one drawn are different, and two the smallest the code
allows; frame numbers wrap at 2, which tells a frame from its predecessor and its
successor; two input events, one of which may be the DEVICE_ADDED of the start,
suffice for one to be left in the queue when the other is taken. The theorems below
do not depend on these bounds.

### Fairness

`FairSpec` states weak fairness of `Program` (the thread runs unless it is blocked
in `epoll_wait`, in `DRM_IOCTL_MODE_RMFB` or in a wait for the GPU), of `GpuFinishes`
(the GPU finishes what it was given), of `VBlank` (a lit display keeps refreshing) and
of the return to the VT. No fairness is assumed of keys, of signals, or of a wait
that would block failing instead. `flip_wait` fails although the VT is entered again
each time, so the failure is not a matter of a VT left for good.

### What is proved

For every number of buffers from two on, every bound and every combination of VT
switches, refused commits and failing calls (`PageFlipAssumption`), in `PageFlip_proofs`:
`FlipInv` is inductive (`Invariance`), and `TypeOK`, `OneFlipInFlight`, the three
buffer properties, `HandlerDataAlive`, `TeardownComplete` and `ChainAlive` follow
from it; each step of `PageFlip` is a step of `FramePipeline` or leaves its
variables alone (`Refinement`).

None of these properties is inductive by itself. `RendererOwnsBuffer` speaks of
the moment of drawing, but whether `NextBuffer(cbuf)` is free then depends on what
was committed a frame ago. `FlipInv` says what is known in between:

- `TokenInv`: a page-flip event, a pending commit and a running handler exclude
  one another, and an event taken by `epoll_wait` is still queued;
- `BufferInv`: whoever holds the token knows the screen: with an event queued or
  at the start of the handler `cbuf` is the buffer shown, and was drawn to last;
  while drawing, `cbuf` is not the buffer shown; a pending framebuffer is `cbuf`,
  drawn for the call after that of the buffer shown;
- `DrawInv`: the GPU works only while the renderer waits for it, and on the buffer
  the renderer chose, until one of the calls that see to it fails;
- `ResourceInv`: which allocations and framebuffers exist at each place of the
  program, and that a lit CRTC scans out a registered one;
- `ChainInv`: with no refusal possible the token is never lost in the loop.

Each part is proved from itself and the parts before it, one step per action.
Booleans and data are typed in two lemmas (`FlagsStep`, `DataStep`), and facts
about sequences (`TailType`, `DecodedType`) are lemmas of their own. Assumed:
`PageFlipAssumption` and the model of the kernel above, nothing else.

`FramesKeepComing` and `CtrlCStops` are liveness, and fairness and ENABLED are
outside what the prover treats. What the two rest on is proved, for any number of
buffers, as safety of the case they are checked in (master kept, every commit
accepted: `Steady`):

- `WokenByVBlank`: `epoll_wait` sleeps only while a flip is pending or reported, so
  the vertical blank wakes it;
- `NextFrameNears`: `FrameLeft`, the steps left until the next frame is shown, is a
  natural number, and a step of the loop makes it smaller, shows the frame, leaves the
  loop or dies of a failed mapping. It stays as it is only when a key or the signal
  arrives, when the GPU finishes a buffer, of which there are finitely many, and when
  the loop turns for the keyboard while the flip is pending, which the vertical blank
  ends;
- `EndNears`: from the signal on, wherever it finds `main`, the same holds of
  `StepsLeft`, the steps until `main` returns. The renderer alone copies the flag,
  so this number counts the turns until the handler runs once more.

All three hold whichever calls fail; `WokenByVBlank` also says that the renderer waits
for ever only for a submission that failed.

## 4. Buffers: `BufferObjects`

One step per call that may fail or acquires or releases something: the
allocations, `gbm_create_device`, and per buffer `gbm_bo_create`, the export of
each plane, ADDFB or ADDFB2; then, from a successful creation or from the error
path alike, RMFB, `gbm_bo_destroy` and `drmCloseBufferHandle` per buffer, and the
frees. Descriptors and GEM handles are numbers given out lowest first, as the
kernel does, because `kmr_buffer_destroy` passes one where the other is expected.
Pitches, offsets, formats and modifiers are not kept.

- `buffer_lifecycle` (three buffers, one to three planes each, both buffer types
  and an unsupported one, any call failing): a framebuffer uses its own buffer's
  handles although `gemHandles[4]` is shared by all turns of the loop
  (`FbUsesOwnHandle`); what create returns is complete (`CreatedComplete`);
  a framebuffer is removed before its bo (`FbRemovedFirst`); however far create
  got, destroy leaves no framebuffer, handle of its own or allocation
  (`NothingLeft`).

Three buffers and planes of different number are needed for a stale handle of an
earlier buffer to show; a fourth plane adds nothing new. Descriptors 0 to 3 are
taken, as in the programs, and a foreign GEM handle exists so that its closing by
mistake is part of the state space. No fairness: all properties are safety. The
DMA-BUF descriptors stay open on every path (section 10).

Proved for any number of buffers and planes (`BufferAssumption`): that a
framebuffer is built on its own handle says nothing of the step at which it is
removed, so `FbInv` says which buffers have one at each place of the two loops,
`PlanesInv` what the shared handles hold between two planes, and `GemInv` that
the handles of different buffers differ and which of them are still open; that a
free number always exists is a counting argument (`LowestFree`). For
`CreatedComplete`, `CompleteInv` says what every finished buffer has, and that
the framebuffers are as many as the buffers follows from their handles differing.

## 5. Display output chain: `DisplayChain`

Init chooses the card: which connectors have a monitor, the CRTC of each encoder,
which CRTCs are on, and whether an object has fewer properties than the library
reads. Then one action per call of `kmr_drm_node_display_create`, its error path
and `kmr_drm_node_display_destroy`. `live` is the set of allocations, `set` the
members of the struct that are not zero: a member in `set` whose allocation is
not in `live` dangles. `OtherFlip` is another session's flip while the VT is
switched away; it can fall between the reading of the planes and of the CRTC.
Reading past the end of a short property list is a choice between the outcomes:
the number found there is the id of a property or it is not. After a double free
the program aborts or goes on.

- `display_lifecycle` (two connectors, two CRTCs, all wirings, one foreign flip,
  any call failing): the four objects of a returned display belong together even
  when both CRTCs show the console's framebuffer (`OneChain`); only the display
  and its arrays and blob are kept (`OnlyDisplayKept`); nothing is left after a
  failure or a destroy (`NothingLeft`).

Two connectors are needed for a first one that is skipped or fails; two CRTCs for
a wrong plane to exist. Every behaviour is finite, so no fairness is assumed.
What `mishap` records is in section 10.

Proved for any number of connectors, CRTCs and foreign flips, any wiring and any
failing call: all four properties. `LiveInv` says what is allocated at each place,
so that the one label and the destroy function after it find exactly that;
`ChainInv` how far the chain is known to belong together as it grows, up to
`OneChain`.

## 6. Session, DRM node and input: `SeatDevices`

`fds` is the table of the process's descriptors, given out lowest first; `held`
is the session's own table, the number under which it has handed out each
device. `kmr_session_take_control_of_device` throws that number away and
`kmr_session_release_device` passes the descriptor instead, so the three
builds differ: without libseat there are no numbers, with logind the number of a
device is its descriptor, with seatd it is any number not in use.

| Actions | Code |
|---|---|
| `kmr_session_create`, `kmr_session_destroy` | `session.c` |
| `OpenNamed`, `open_drm_node_udev`, `SearchFails`, `setup_atomic_modeset`, `kmr_drm_node_create_fails` | `kmr_drm_node_create` with a node named or searched, one turn of the udev list a step |
| `DeviceAdded`, `DeviceRemoved`, `kmr_input_create`, `kmr_input_destroy` | libinput calling `open_restricted` and `close_restricted` |
| `Plug`, `Unplug`, `Stop` | the user |

- `seat` (two cards, each usable, lacking a capability, not to be opened or
  without a node; two input devices that come and go; all three builds; any open
  failing): `kmsfd` and libinput's descriptors stay open on what they were opened
  on (`DescriptorsNameDevices`); with logind the session holds what is open and
  nothing else (`HeldWhileOpen`); at the end only rejected cards are left open
  (`ClosedAtEnd`, which names the one way to lose standard input).

Two cards are needed for one that is rejected before one that is taken, two
input devices for a descriptor that is freed and used again by the other.
`MaxFd = 8` leaves more descriptors than can be open. All properties are safety;
no fairness is assumed. With seatd `HeldWhileOpen` does not hold; the numbers
get mixed up (section 10).

Proved for any number of cards and input devices (`SeatAssumption`: enough
descriptors). `OneEach`, no two descriptors on one device, is what carries the
argument: it gives a free descriptor by counting (`FreeDescriptor`), and it makes
releasing a number free one device. `StdInv` says who may close descriptor 0;
`CardsInv` and `InputsInv` tie `kmsfd` and libinput's table to `fds` at each
place of the program; `HeldInv` is `HeldWhileOpen`.

## 7. Frames of the swapchain programs: `SwapchainFrames`, `XcbClient`

One action a Vulkan call of the renderer, in its order: wait for the fence,
acquire, record, update the uniform buffer, reset the fence, submit, present; in the
clean-up, wait for the device to be idle. None of the calls' results is looked at by
the code, so each may fail (`MayFail`) and the next follows all the same: with the
fence unsignalled, with the index of the image before, with the commands of the frame
before, with a NULL mapping, with the fence still signalled, with a semaphore nobody
signals, or with the GPU still at work on what is destroyed. A call that blocks may
end by an error at any time (`WaitFails`, `AcquireFails`, `DestroyBusy`), and need not.

The device is an environment of five actions: a draw starts when the image's semaphore
is signalled and ends by signalling the other one and the fence; a present is executed
after the draw; an acquired image may still be read for a while; the screen shows
presented images in order or skips to the newest. `XcbClient` puts window creation, its
error paths and unchecked replies, the event loop and the clean-up around it.

The image's number is a `uint8_t` of `main` that acquiring and presenting access as a
`uint32_t`: `index` is the four bytes there, and the renderer's own reads take its
`LowByte`. Nothing else lies in the three bytes after it (the variable is static and
the linker aligns what follows), so for the 256 images `SwapchainAssumption` allows
the two are the same number.

Assumed of the outside: submissions to the queue start in order, a present among
them; a failed acquire leaves semaphore and index alone; a failed submission
leaves fence and semaphores alone, and a failed present still waits, as the
Vulkan specification says.

- `frames` (three images, all eight calls failing at any time): the single command
  buffer and uniform buffer are not written while the GPU reads them
  (`CpuWaitsForGpu`), a semaphore is not signalled twice or asked for while it is
  pending (`SemaphoresPaired`), and the GPU draws to the program's image
  (`DrawsOwnImage`), as long as no wait for the fence and no reset has failed
  unnoticed (`FenceKept`), and, for the last, no recording. `StopsWhenAsked`: Escape,
  the close button and signals end the program, unless a call has failed that leaves
  the fence or a semaphore without a signal (`SignalsCome`: wait, reset, acquire,
  submit), after which it may wait for ever. TLC finds each of these exceptions to be
  needed.

Three images make the one shown, the one waiting and the one drawn different,
and let MAILBOX skip one. `MaxFailed = 2` bounds what the queue can hold: without the
fence submissions pile up, so once a call on the fence has failed, another kind of call
fails only if fewer than two kinds have; while the fence is kept there is no bound.
Fairness: the program runs while it can, and the device and the X server do their part
(`WF` of `Program` and of `Device`). The GPU has no other work that could hold it up,
and `vkQueuePresentKHR` hands the image to a server that runs on its own. Keys and
signals are not fair, nor are the errors of calls that block.

Proved for any number of images from two on and any set of failing calls:
`CpuWaitsForGpu`, `SemaphoresPaired`, `DrawsOwnImage`. `FramesInv` is types, which
always hold, and `TurnsInv`, which holds while the fence is kept and has three parts.
`FenceInv`: at most one draw is in the queue, none while the fence is signalled or the
next is prepared. `SemaphoreInv`: what the semaphores are follows from the fence, the
queue and the call the program is at. `ImageInv`: while a frame has been drawn, is being
drawn or can still be drawn (`Alive`), the images in the queue are the program's, one
entry each; once acquiring or submitting has failed nothing can be said of the images,
and nothing needs to be, as no draw starts again.

`StopsWhenAsked` is liveness and stays model-checked; the two facts it rests on are
proved.
`NobodyWaitsInVain`: while `SignalsCome`, whenever the program waits for its fence, for
a free image or for the device to be idle, the GPU or the presentation engine has a
step to take. `WaitInv` adds two parts to `FramesInv`. `PairsInv`, while `SignalsCome`:
an unsignalled fence has its draw in the queue, that draw its semaphore, and each
present its draw before it or its semaphore signalled. `CoverInv`, always: every image
is free, in the queue or in use, among those that wait, or the one on the screen; with
two images or more, one that is taken is therefore on its way. `StepsToTheEnd`: from
the moment the program is asked to stop, every step of it and of the device makes
`StepsLeft` smaller, a natural number that adds up where the program is in its last
frame and clean-up, what the queue still has to do and which images still wait; this
holds whichever calls fail. Between these and the property is only that the steps are
taken, which is the fairness.

## 8. The Wayland client: `WaylandClient`

`batch` holds the events one `wl_display_dispatch` has taken, `sent` those still
on their way; handlers run one a step until the batch is empty, and only then
does `main` look at its flag. The renderer inside a handler is one step that returns;
what may keep the Vulkan renderers from returning is in section 7.

| Actions | Code |
|---|---|
| `kmr_wc_core_create`, `kmr_wc_buffer_create`, `kmr_wc_surface_create` and their `_fails` | `wclient.c`, and what each program does about it |
| `DispatchStarts`, `DispatchEnds`, `DispatchFails` | `while (wl_display_dispatch(...) != -1 && running)` |
| `xdg_surface_handle_configure`, `drawframe`, `xdg_toplevel_handle_close` | the listeners, with the renderer inside |
| `Cleanup` | `exit_error` |
| `SendConfigure`, `SendDone`, `CloseWindow`, `run_stop` | compositor, user, signal |

- `wayland` (up to three configure events, with and without shared-memory
  buffers and fullscreen shell, any set of globals): no buffer is attached before
  the first configure event is acknowledged (`BufferAfterConfigure`); each
  configure event starts a chain of frame callbacks that never breaks or forks
  (`ChainsPerConfigure`); a signal ends the program (`SignalStops`).
- `wayland_close`: the close event can be lost, see section 10.

Three configure events give two chains on top of the first; two buffers are what
the shm program asks for. Fairness: the program runs (`Main`), and the compositor
sends its configure events and answers frame callbacks, as it does while a surface
is visible. It does not answer for a hidden one: `SignalStops` says nothing then.
The close event and signals are not fair.

Proved for any number of configure events: `TypeOK`, `BufferAfterConfigure`,
`ChainsPerConfigure`. That a handler keeps the count of chains needs the count of
an event in a sequence after `Append`, `Tail` and at the start of a dispatch
(`CountAppend`, `CountTail`); `CountInv` adds up what is on its way, in the batch
and handled, and bounds it; `OrderInv` says that nothing is attached and no
callback asked for before the first event.

`SignalStops` is liveness; what it rests on is proved. `SomethingToDispatch`: when
`main` waits in the loop and nothing is on its way, there is a configure event to
send or, the frame being on the surface, a frame callback to answer, unless the
surface is one of the fullscreen shell. `StepsToTheEnd`: from the signal on every
step makes `StepsLeft` smaller, a natural number. It counts the turn of the loop the
signal came in, the one that is left after it, the events of both, and what the
compositor can still answer or send meanwhile.

## 9. Programs and functions, call by call

### The example programs: `Examples`

Each of the 17 programs has a module in which each C function is the sequence of
its calls: what a call makes, which objects it is given, what it reads and writes
(vertices, textures, image layouts), how its result is checked, and what the
function undoes before it returns -1. `LibraryCalls` has what the programs share
and the order of `kmr_vk_destroy`. `Examples` runs a program: `main`, then any
number of frames for any image, then `exit_error`, with every call that may fail
failing or not, on a discrete or an integrated GPU, with or without libseat. A call
whose result the programs look at sends them to `exit_error`. `kmr_vk_resource_copy` and
`kmr_vk_resource_pipeline_barrier` ignore what submitting and waiting return
(`vulkan.c:1520`), so they may also return 0 with nothing done: `missed` holds what
they should have written and what was copied from it (`SubmitLost`).
`kmr_vk_memory_map` writes through NULL when the memory cannot be mapped
(`MapCrashes`).

- `programs`: `UsesLive`, `ParentsOutliveChildren`, `NothingLeaks`,
  `DrawsWritten`, `DestroysValid`, for all 17 programs. What is excepted is named
  in the property: the scene of image 0, what a lost copy or barrier should have
  written, the texture images and materials the model programs keep on an error path,
  and the shm program's uncleared struct.
- `programs_unchecked`: `FailureChecked`, see section 10.

There is no bound: the tables are the programs, and frames repeat states. The
programs' differences are the point, so nothing is shared that the sources do not
share. The event loop is left to `PageFlip`, `WaylandClient` and `XcbClient`.

### The library's functions: `LibraryObjects`

`VulkanObjects` and `LoaderObjects` have a definition for each create function:
its calls in order, with the label each jumps to on failure, what each label
releases, and what the destroy function releases. `LibraryObjects` runs one: any
call fails, the labels run, or the function returns and its result is destroyed.

- `library` (41 functions, arrays of one, two and three entries): nothing is
  released twice or before it was set (`ReleasesOwn`), nothing is lost
  (`NothingLost`), and success means whole (`ReturnsWhole`). The exceptions are in
  the properties, by name; each is listed in section 10.

Three entries give a failure with something before it, something after it, and
more than one of either.

Proved for arrays of every length (`SizesAssumption`: lengths are natural
numbers): all three properties. The functions are sequences of steps, so what can
go wrong in a run can be read off the text. `TidyFunctions` says what to read: a
function is `Tidy` when the label of every step that may fail releases all that the
steps before it made (but for what is known to be left), nothing they gave away,
and no thing twice; when what was given away is not made again; and when the
destroy function releases once, and only, what is there in the end. `FunctionInv`
says what the function holds while it
runs, undoes and is destroyed; it is inductive for any tidy function (`NextKeeps`).
That each of the 41 is tidy takes one lemma apiece, for an unknown number of array
entries: `TidyFunctions` has the facts about loops and about stretches of steps put
one after the other that these lemmas are made of. A function whose result takes
over what another made counts as releasing it, so that a destroy function that
released it again would be seen. The exceptions are the same as in the properties;
`FunctionInv` was model-checked on the run before it was proved.

The programs of `Examples` are a finite table without a parameter. Every value
there is to check is checked, and a theorem would add nothing to it.

## 10. Where the code, its documentation and its intent disagree

Shown by runs that end in a counterexample:

- `flip_wait`: the result of the nonblocking commit is ignored
  (`drm-node.c:1071`). After one refusal, a VT switch suffices, no event comes
  again, although `drm-node.h:374` says that all an application needs to do is
  wait for page-flip events. Nothing but the renderer copies the signal handler's
  flag (`double-buffer-atomic-modeset.c:152`), so a signal that arrives outside
  `epoll_wait` is not noticed then either, although `build.rst:187` promises
  CTRL-C.
- `programs_unchecked`: fifteen programs find out whether an array was created by
  reading a member of its first entry (`triangle.c:734` and its like), which is a
  null pointer when it was not (`vulkan.h:549`).
- `wayland_close`: the renderer stores the signal flag into the flag the close
  event has cleared (`triangle.c:201` of the Wayland programs). A frame handled in
  the same dispatch keeps the window open.

Certain, without any search; the models have them, and the properties name or
work around them:

- Page-flip loop: the request grows by one set of properties a frame
  (`drm-node.c:1063`, where `:832` calls them temporary); one libinput event is
  taken a wake-up, and DEVICE_ADDED events come first, so ESC waits for later
  input (`double-buffer-atomic-modeset.c:259`); atomic_request_destroy keeps the
  struct itself (`drm-node.c:1016`).
- Buffers: descriptors are passed to `drmCloseBufferHandle` and never closed
  (`buffer.c:300` against `buffer.h:128`). Where the DRM file has a GEM handle of
  that number, it is closed instead.
- Display: an encoder without a CRTC, or a CRTC that is off, ends the search
  (`drm-node.c:651`, `:659`) where `:636` says connectors are tried one by one; the
  error path frees the property arrays and calls the destroy function, which frees
  them again (`:750`); with no matching plane `plane->plane_id` is read through a
  null pointer (`:701`).
- DRM node: the error path of `kmr_drm_node_create` reads the session of a node
  that has none yet, a null pointer with libseat; without it descriptor 0 may be
  closed (`drm-node.c:286`). Rejected cards stay open (`:215`).
- Session: with seatd the number given to `libseat_close_device` may be another
  device's (`session.c:160`): unplugging a keyboard can take the card away.
  `session->active` is not updated after creation (`session.c:37`).
- Wayland: `buffer->bufferCount` is never set (`wclient.c:311`), so the
  shared-memory objects are not released and frames never alternate between
  buffers, although `wclient.h:278` says that swapping goes up to it. A failed
  roundtrip (-1) is taken for success (`wclient.c:155`).
- XCB: replies are read unchecked (`xclient.c:122`).
- Vulkan renderers of the KMS programs: the result of `vkQueueSubmit` is ignored, and the
  value the submission should have signalled is waited for without a timeout
  (`triangle.c:223`, `:237`), inside the page-flip handler. After one failed submission
  neither CTRL-C nor a key ends the program, although `build.rst:187` promises it.
- Renderers of the KMS programs, and `gbm_bo_write`: no result is looked at; a
  buffer that was not drawn, or half written, is committed (`triangle.c:192`,
  `double-buffer-atomic-modeset.c:150`), and after a wait that returns an error so is
  one the GPU still draws to.
- Swapchain programs: nobody looks at any result; after a failed acquire or submission
  the next frame waits for its fence for ever (`texture-mapping.c:241`), after a failed
  wait for the fence the buffers are rewritten and the semaphores reused while the GPU
  works (`:239`).
- Copies and barriers return 0 when their submission failed (`vulkan.c:1520`, `:1562`),
  and `kmr_vk_memory_map` does not look at what `vkMapMemory` returned (`:1744`).
- Vulkan: memory counts and handles of images not reached are junk on the error
  path (`vulkan.c:594`); the copy of a DMA-BUF's descriptor is lost when no memory
  is found for it (`:691`), and so is a buffer without memory (`:1304`).
- Sync files: export closes descriptor 0 for entries it did not reach
  (`dma-buf.c:187`); import does not close `syncFileFd` on an old kernel
  (`dma-buf.c:122` against `dma-buf.h:32`).
- glTF: textures loaded before one that fails are lost (`gltf-loader.c:280`); a
  material's name may be NULL.
- Spinning and model programs: the scene is written at the offset of the image
  drawn and read at that of image 0 (`spin-rectangle.c:1706`).

Seen while reading, outside what the models keep: the match with the DRM node
does not matter, since any device of the wanted type is taken (`vulkan.c:308`,
against the comment at `:297`); `familyIndex` is not set when no queue family
fits (`vulkan.c:369`); the size of a 16-bit image counts one byte a channel
(`utils.c:105`); a mesh's array has the size of its first primitive
(`gltf-loader.c:128`); `aligned_alloc` is given an alignment that need not be a
power of two (`utils.c:34`); `drmModeAtomicAddProperty` may fail for lack of
memory and nobody looks (`drm-node.c:841`); the first mode is read without a look
at their number (`drm-node.c:681`).

## 11. Checked, proved, open

| | Proved for every value of the constants | Model-checked only |
|---|---|---|
| `PageFlip` | all safety properties, the refinement of `FramePipeline`; the next frame and the end come nearer | `FramesKeepComing`, `CtrlCStops` (liveness) |
| `BufferObjects` | all properties | |
| `DisplayChain` | all properties | |
| `SeatDevices` | all properties | |
| `XcbClient` | `CpuWaitsForGpu`, `DrawsOwnImage`, `SemaphoresPaired`; nobody waits in vain, the end comes nearer | `StopsWhenAsked` (liveness) |
| `WaylandClient` | `TypeOK`, `BufferAfterConfigure`, `ChainsPerConfigure`; nobody waits in vain, the end comes nearer | `SignalStops` (liveness) |
| `LibraryObjects` | all properties | |
| `Examples` | | all properties: finite tables, section 9 |

Liveness rests on fairness and ENABLED, which the prover does not treat. For the
liveness properties in the table two things are proved instead, which together with
the fairness imply them: the program never waits for what is not on its way, and a
natural number becomes smaller with every step that counts. That induction on this
number gives the property, and that a step which is on its way is enabled, is left
to TLC. Each proof assumes the named ASSUME of its module and the model of kernel, seat,
compositor or GPU described above, nothing else. The inductive invariants were
model-checked before they were proved.

Each property of a passing run is also run against a faulty version of one
definition, kept next to the definition it replaces (`SameBuffer` for
`NextBuffer`, `WaitForFences_not` for `WaitForFences`, ...): the property then
fails, so it does depend on that code.

## 12. Not modelled

- Pixel formats: three constant tables and linear searches through them.
- Seat enabling and disabling after creation and `kmr_session_switch_vt`: nothing
  dispatches the one or calls the other; the loss of DRM master is in `PageFlip`.
- `kmr_drm_node_display_mode_reset`: no program calls it.
- Which GPU, queue family and memory type is chosen: what the driver reports.
- Contents of frames, matrices, vertices, textures, shaders and create infos:
  data no property tells apart. Logging, clocks and file names.
- Vendored code (`src/external`, `stb_image.c`), build files and tests.
