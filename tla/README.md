# TLA+ models of the Vulkan WSI layer swapchain

These modules model the swapchain engine of this repository
(`src/wsi/swapchain_base.cpp`), the two presenters that drive it (the
headless one and the X11 one), and the X11 shared-memory presenter
(`src/wsi/x11/shm_presenter.cpp`), and the layer's instance and device
entry points with the extension lists they pass down
(`src/layer/layer.cpp`, `src/util/extension_list.cpp`), the headless and
display surface creation, the display back end's enumerations
(`src/wsi/*/surface_properties.cpp`), and the per-swapchain extensions
(`src/wsi/extensions/`) as `init` and `queue_present` use them. TLC checks them. Every action is translated
from the C++ source. `PROJECT.json` maps each definition to the lines it
models. It also lists the runs, the mutants, the findings and the hazards.

## 1. The system

### Components

| Component | Source | Modelled in | Status |
|---|---|---|---|
| Swapchain core | `src/wsi/swapchain_base.cpp`, `.hpp` | `Swapchain`, `X11Swapchain` | partly: not init's failure paths, FIFO_RELAXED, or the error returns of `queue_present` before `notify_presentation_engine` |
| Headless presenter | `src/wsi/headless/swapchain.cpp` | `Swapchain` | modelled |
| X11 presenter and event thread | `src/wsi/x11/swapchain.cpp` | `X11Swapchain` | modelled, except deferred allocation |
| X11 SHM presenter | `src/wsi/x11/shm_presenter.*` | `ShmPresenter` | partly: not the frame pacing, XRandR events or 16-bit copy |
| X11 DRM display and X11 surface | `src/wsi/x11/drm_display.hpp`, `surface.cpp` | none | not modelled |
| Surface properties | `src/wsi/headless/surface_properties.cpp`, `src/wsi/display/surface_properties.cpp` | `Swapchain` (the headless mode list), `LayerSetup` (headless and display-plane surface creation), `DisplayProperties` (the display enumerations), `SwapchainExtensions` (the headless present-mode compatibilities) | partly: not the format, capability and present-mode queries |
| Swapchain maintenance1 | `src/wsi/extensions/swapchain_maintenance.*` | `SwapchainExtensions` | partly: the create-info check, the scaling check and the mode switch; not the present and release fences |
| Present timing | `src/wsi/extensions/present_timing.*` | `SwapchainExtensions` | partly: its registration, and `add_presentation_entry` only as a call in `queue_present` that may fail (the queue's contents are not modelled); not `set_size`, time domains or calibration |
| Extension registry, small extensions | `src/wsi/extensions/wsi_extension.*`, `present_id.hpp`, `frame_boundary.hpp`, `image_compression_control.*` | `SwapchainExtensions` | partly: `add_extension`, `get_extension` and which extensions init registers; not the values they pass to the driver |
| Layer entry points and extension name list | `src/layer/layer.cpp`, `src/util/extension_list.cpp` | `LayerSetup` | partly: create and destroy of instances, devices and surfaces, and `vkGet*ProcAddr`; not `wsi::get_proc_addr`, the loader negotiation or the physical-device queries |

### How they interact

Application threads call four entry points:

- `acquire_next_image`;
- `queue_present`, which calls `notify_presentation_engine`;
- `release_images`;
- `vkDestroySwapchainKHR`, which calls `teardown` and then the presenter's
  destructor.

Vulkan requires calls on one swapchain to be externally synchronised.
Calls on different swapchains of one surface may run at the same time.

`notify_presentation_engine` marks an image PENDING. Then it does one of
two things:

- It pushes the request to the ring buffer `m_pending_buffer_pool` and
  posts the page-flip semaphore.
- When the presenter runs no page-flip thread, it calls `call_present`
  inline instead. Headless runs no thread in SHARED_DEMAND; X11 runs none
  in MAILBOX.

The page-flip thread works as follows:

- It pops the request, waits for the image's present fence, and calls
  `call_present`. That hands the image to the presenter's `present_image`.
- In SHARED_CONTINUOUS it does not pop. It waits once for the first
  present, then re-presents image 0 in a loop.

What happens to a presented image depends on the presenter:

- **Headless.** `present_image` calls `unpresent_image` at once. The image
  becomes FREE, or stays ACQUIRED in the shared modes, and the free-image
  semaphore is posted.
- **X11.** `present_image` sends a present to the X server and records a
  pending completion. The event thread reads the server's events:
  - COMPLETE_NOTIFY removes the completion;
  - IDLE_NOTIFY puts the pixmap in the free-buffer pool;
  - CONFIGURE_NOTIFY sets SUBOPTIMAL (window resize) or SURFACE_LOST.

  `get_free_buffer` is X11's `wait_for_free_buffer`. It unpresents the
  pooled images and waits on `m_thread_status_cond`.

A new swapchain made with `oldSwapchain` becomes the old one's
descendant, and `deprecate` destroys the old one's FREE images. On the
descendant's first present, `call_present` runs
`ancestor->wait_for_pending_buffers()`. That takes `size - acquired - 1`
free-image tokens of the ancestor while holding the ancestor's acquire
lock. It then posts the descendant's start-present semaphore.

`teardown` runs in this order:

1. If the descendant has started presenting, it waits on the
   descendant's start-present semaphore.
2. Otherwise, unless the error state is set, it runs
   `wait_for_pending_buffers` on itself.
3. It stops and joins the page-flip thread, clears the links, and
   destroys the images.

## 2. Module `Swapchain` (core with the headless presenter)

A chain of swapchains of one surface (constant `Chain`, swapchains
`s1..s3`), each replacing the one before it. `MCSwapchain` defines the
chains for TLC.

### State

| Variable | Code |
|---|---|
| `mode[s]` | `m_present_mode`, chosen at `init` from `Modes` |
| `status[s][i]` | `m_swapchain_images[i].status` |
| `freeSem[s]`, `pfSem[s]`, `startSem[s]` | the counts of `m_free_image_semaphore`, `m_page_flip_semaphore`, `m_start_present_semaphore` |
| `pending[s]` | `m_pending_buffer_pool`, a ring of capacity `RingSize` (`MAX_SWAPCHAIN_IMAGE_COUNT` in the code) |
| `pfRun[s]`, `pfAlive[s]` | `m_page_flip_thread_run`; whether the thread has not yet returned |
| `cp[s]` | where `call_present` of `s` is: `payload`, or `ancLock`/`ancWait` inside the ancestor's `wait_for_pending_buffers`, with the ancestor pointer it read |
| `firstPresent`, `started`, `err` | `m_first_present`, `m_started_presenting`, `m_error_state != VK_SUCCESS` |
| `ancestor`, `descendant` | `m_ancestor`, `m_descendant` |
| `td[s]` | where `teardown` of `s` is |
| `acqLock[s]` | who holds `m_image_acquire_lock` across a `wait_for_pending_buffers` |
| `phase[s]`, `created` | the lifecycle of each swapchain |

### Actions

- `Create`: `init` of the next swapchain (mode, images, and a thread
  unless SHARED_DEMAND), then `deprecate` of the old one. Shared modes
  create one image. With `Deferred`, images start UNALLOCATED.
- `Acquire`, `AcquireError`, `AcquireAllocFails`: `acquire_next_image`,
  including the headless allocation failure. That failure has two
  outcomes: the image stays UNALLOCATED, or it becomes INVALID through
  `destroy_image`.
- `PresentOutOfDate`, `PresentEnqueue`, `PresentInline`: the three branches
  of `notify_presentation_engine`. `PresentEnqueue` includes the ring push,
  which drops the request when the ring is full, as the release build does.
- `Release`: `release_images`.
- `PFTake`, `PFContinuous`, `PFExit`, `PFPayloadFails`, `PFPayloadReady`:
  the page-flip loop, in both the queued and the continuous mode.
- `AncLock`, `AncTake`, `AncDone`: `wait_for_pending_buffers` on the
  ancestor, and the rest of `call_present`.
- `TDBegin`, `TDWaitStart`, `TDLock`, `TDTake`, `TDWaitDone`, `TDJoin`:
  `teardown`.

Four helpers are used inside these actions:

- `InitPageFlipThread` (`init_page_flip_thread`);
- `Deprecate` (`deprecate`);
- `DestroyImages` (headless `destroy_image`), used by `Deprecate` and
  `TDJoin`;
- `PresentImage` (headless `present_image`, which unpresents at once).

The page-flip semaphore's 250 ms timeout and the retries on `VK_TIMEOUT`
only repeat a wait, so they are stuttering steps.

Environment assumptions:

- The application replaces the newest swapchain.
- It never acquires from a retired swapchain. This is a Vulkan valid-usage
  rule.
- `AppThreads` bounds the number of calls in progress at once.
- `MaxFreeCount` bounds the free-image count that out-of-date presents
  post. It only matters for a retired SHARED_CONTINUOUS swapchain (see
  hazard `ordering` at line 69).

### Fairness

Weak fairness is assumed on each page-flip thread, `PageFlipStep(s)`,
including a `call_present` in progress. It is also assumed, separately, on
each teardown in progress, `TeardownStep(s)`. The code runs each of these
as its own OS thread, and no thread is descheduled forever.

The two are kept separate on purpose. A single fairness condition over
their disjunction would let the continuous page-flip loop starve the
teardown.

Application calls and failures are not fair: an application may stop
calling at any time.

### Properties

| Property | What it says |
|---|---|
| `TypeOK` | types, and `Len(pending) <= RingSize` |
| `TokenBackedByImage` | Every free-image token of a live swapchain is backed by a FREE or UNALLOCATED image. This is the assert at line 451. |
| `NoUseOfDestroyedSwapchain` | No page-flip thread or teardown works on a destroyed swapchain. |
| `AncestorAtMostOneInFlight` | The comment in `wait_for_pending_buffers`: once the descendant presents, the ancestor has at most one PENDING image. |
| `RingPushSucceeds` | An action property: the assert at line 596. A present that posts the page-flip semaphore has been queued. |
| `TeardownTerminates` | A liveness property: every teardown finishes. |
| `PendingEventuallyReleased` | A liveness property: a PENDING image comes back, unless the swapchain errs. Checked in `main`, which has no failures, so the `err` escape is never taken there. |
| `ImplementsImageOwnership` | Refinement: `Swapchain` implements `ImageOwnership` (section 3). |

## 3. Module `ImageOwnership` (abstract) and the refinement

`ImageOwnership` states what a chain of swapchains promises about its
images, with no semaphores, threads or presenters. Each image is owned by
one of four parties:

- nobody (`none`);
- the pool, from which the application may acquire it;
- the application;
- the presentation engine.

Its actions are:

- `Create` (the replaced swapchain may give up pool images);
- `Acquire`, `GiveBack`, `Drop` and `Present`;
- `Show`, which takes the oldest queued present and returns its image to
  the pool, or to the application when `keeps[s]` (the shared modes);
- `Lose`, a present whose wait failed, whose image stays with the engine;
- `Destroy`.

Weak fairness on `Show \/ Lose` says that the engine keeps working
through its queue.

`Swapchain` defines the refinement mapping:

| Abstract | Concrete |
|---|---|
| `owner` | INVALID → none, FREE/UNALLOCATED → pool, ACQUIRED → app, PENDING → engine |
| `queue` | the request `call_present` is working on, followed by the ring buffer. In SHARED_CONTINUOUS, which never pops the ring, it is image 0 while that image is PENDING. |
| `keeps` | the shared present modes |

`ImplementsImageOwnership == Ownership!Spec` is checked as a PROPERTY of
`main` and `errors`. It catches a page-flip thread that pops the ring from
the wrong end (mutant `PFTakeNewest`).

One limit applies. A retired SHARED_CONTINUOUS swapchain's loop turns a
FREE image 0 back into ACQUIRED. The mapping shows that step as an
`Acquire`, because the abstract spec does not say who acquires (see the
`ordering` hazard at line 69).

## 4. Module `X11Swapchain`

One swapchain driven by the X11 presenter, with the X server as its
environment. There are three threads:

- the application;
- the page-flip thread, in FIFO only;
- the present event thread.

`m_thread_status_lock` makes every step of `present_image`,
`get_free_buffer` and the event loop atomic with respect to the others. A
wait on `m_thread_status_cond` releases it. `waiting` holds the sleepers
until a `notify_all`.

The server executes presents in order. For each one, it sends COMPLETE
and, once it stops reading the pixmap, IDLE:

- With `ServerOrder = "copy"`, IDLE comes before COMPLETE.
- With `"any"`, IDLE may come later.

The server may also send one CONFIGURE (a resize, or a lost window), and
its connection may break.

### State

| Variable | Code |
|---|---|
| `mode`, `status`, `freeSem`, `pfSem`, `pending`, `pfRun`, `pfAlive`, `err` | as in `Swapchain` |
| `pf`, `app` | where the page-flip thread and the application are; `app.caller` tells acquire (0 or infinite timeout), present and destructor apart |
| `comps` | `pending_completions` per image |
| `pool` | `m_free_buffer_pool` |
| `evRun`, `evPc`, `evJoined` | `m_present_event_thread_run`; the event thread's place in its loop; whether it has been joined |
| `waiting` | threads asleep on `m_thread_status_cond` |
| `srvQ`, `idleOwed`, `xq`, `configures`, `connLost` | the server's queue, the IDLEs it still owes, the connection's special-event queue, and the events sent |
| `lastAcq` | the result of the last `acquire_next_image` (for `AcquireSuccessYieldsImage`) |

### Actions

- Application calls: `AcquireFast` and `AcquireSlow`, then `GfbFound`,
  `GfbNotFound`, `GfbSleep` and `AcqScan` (`acquire_next_image` and
  `get_free_buffer`).
- `PresentEnqueue`, `PresentInline` and `PresentWaitFails` for
  `queue_present`; `Release` for `release_images`.
- `TDStart`, `TDWait`, `TDNext`, `TDStopPf`, `TDJoinPf`, `DtorBegin`,
  `DtorJoin` and `DestroyImages` for teardown and `~swapchain`.
- `present_image`: `PresentGiveBack`, `PresentFull`, `PresentSend`,
  `PresentFifoDone`, `PresentFifoWait`.
- The event thread: `EvStart`, `EvStop`, `EvSleep`, `EvToX`, `EvConfigure`,
  `EvIdle`, `EvComplete`, `EvDisconnected`, `EvExit`.
- The page-flip thread as in `Swapchain`.

### Fairness

Weak fairness is assumed on four kinds of step:

- the event thread, the page-flip thread, and a `present_image` in
  progress (OS threads);
- the steps of an application call already in progress (`AppBusy`);
- the server's COMPLETE and IDLE, because a live X server answers every
  present.

CONFIGURE, disconnection and new application calls are not fair.

### Properties

| Property | What it says |
|---|---|
| `ServerNeverReadsOwnedImage` | An ACQUIRED or FREE image is never in flight at the server: not queued, owing an IDLE, with an IDLE unread, or in the pool. |
| `TokensMatchFreeImages` | Outside teardown and errors, the free-image semaphore counts the FREE images exactly. It allows for the token held between `get_free_buffer` and the scan. |
| `DestructorReturns` | Liveness: `vkDestroySwapchainKHR` returns. |
| `AcquireReturns` | Liveness: every acquire returns. |
| `DestructorJoinsEventThread` | A destroyed swapchain has joined its event thread. |
| `AcquireSuccessYieldsImage` | A success result of acquire names an image. |

## 5. Module `ShmPresenter`

The shared-memory presenter copies a host-visible image into a SysV
shared-memory segment and asks the X server to blit it with
`ShmPutImage`. The server reads the segment only when it processes that
request, so the client must not write the segment again before then.
Two mechanisms pace the client:

- an XSync fence, when `init_fence_sync` succeeded: each present queues
  `AwaitFence` and `ResetFence` before its put and `TriggerFence` after
  it, except on the first frame;
- otherwise a `GetGeometry` request after each put, whose reply
  `ensure_sync_completion` waits for at the start of the next present.

The X server is the environment. The client's requests form one FIFO
stream (`reqs`), and `ServerStep` processes its head. It blocks on an
`AwaitFence` while the fence is untriggered.

### State and actions

| Variable | Code |
|---|---|
| `phase` | constructed, `init` failed or succeeded, destroyed |
| `fenceAvailable`, `fenceTriggered` | `m_fence_available`; the server-side state of `m_presentation_fence` |
| `firstFrame`, `syncPending` | `m_first_frame`, `m_sync_pending` |
| `res[i]`, `useAlt[i]` | which of an image's two segments are attached; `use_alt_buffer` |
| `reqs` | the requests sent and not yet processed |
| `width`, `height`, `rowPitch`, `hwThreads` | the image extent, the host row pitch, `hardware_concurrency()`; chosen in `Init` |
| `written` | the destination pixels the last `present_image` wrote, in order |

The actions are `InitPresenter` (with `InitFenceSync`),
`CreateImageResources`, `PresentImage`, `DestroyImageResources`,
`Destroy` (the destructor, with `CleanupFenceSync`) and `ServerStep`.
`PresentImage` is the whole of `present_image`: the sync wait, the fence
requests, the buffer toggle, the pixel copy and the put. Its error path
returns after the fence requests were queued, as the code does.

The pixel copy is a set of pure operators. `RowColumns` is the unrolled
column loop, `ThreadRanges` (RECURSIVE) the per-worker row ranges of
`copy_pixels_threaded`, and `CopyPixelsOptimized` the whole dispatch.
The scaling table is always empty here, because `present_image` clears
it, so the NEON and scalar paths write the same pixels.

### Fairness

Weak fairness on `ServerStep`: a live X server keeps processing the
connection unless it is blocked on a fence.

### Properties

| Property | What it says |
|---|---|
| `AwaitNeverBlocks` | While every present has succeeded, the server never blocks on a queued `AwaitFence`. |
| `GeometrySyncNeverOverwritesQueued` | An action property: with geometry-based sync, a present never puts a segment that still has an unprocessed put. |
| `CopyWritesEveryPixelOnce` | Every copy writes each destination pixel exactly once and nothing else, for every extent, padding and thread count. |

Bounds (run `shm_main`, about 5.1 million states):

- **Two images, four presents.** This gives both segments of an image,
  a fence cycle after the first frame, and an error in between.
- **Widths {1,3,4,5,8,9}, heights {1,2,3,9}.** These cover widths below,
  at and above the 4-wide unrolled block, with and without a remainder.
  They also cover fewer rows than workers and a row count that does not
  divide evenly.
- **`Threshold = 6`.** This stands for `THREADING_PIXEL_THRESHOLD`, scaled
  down with the sizes, so that both the threaded and the single-thread
  branch are taken.
- **Paddings {0,1}.** These give the contiguous memcpy and the per-row path.
- **Concurrency {0,2,3,12}.** This gives no workers, an uneven split and
  the cap of 8.

## 6. Modules `LayerSetup`, `DisplayProperties` and `SwapchainExtensions`

The layer interposes `vkCreateInstance`, `vkCreateDevice`,
`vkDestroyInstance` and `vkDestroyDevice`. It keeps its per-instance and
per-device data in a registry keyed by the dispatchable handle
(`instance_private_data::associate`, `device_private_data::associate`).
Handles are addresses the driver hands out, and the driver reuses an
address once its object is destroyed. Several application threads may
create and destroy at the same time. Each registry operation is atomic,
because the registry is locked, but a call as a whole is not.

| Variable | Code |
|---|---|
| `live[k]` | the driver's objects of kind instance or device, by address |
| `reg[k][a]` | the private data associated with address `a`; `gen` tells a reused address apart |
| `owned[k]` | the handles the application holds |
| `pc[t]` | the call thread `t` is in, with its locals (handle, extension lists, step) |
| `failures` | failed calls and allocations so far, at most `MaxFailures` |
| `live["surface"]`, `reg["surface"]`, `owned["surface"]` | the driver's surfaces, the layer's `add_surface` entries on their instance, and the surfaces the application holds |
| `result[t]` | the `VkResult` of thread `t`'s last call or, for a `vkGet*ProcAddr`, the name asked for and whether the layer's own entry point came back |

Each create call is three actions, with a point between them where
another thread can run:

1. the call of the next layer (`CreateInstance`, `CreateDevice`);
2. `associate` (`CIAssociate`, `CDAssociate`);
3. `set_*_enabled_extensions` (`CISetExts`, `CDSetExts`).

Every one of these steps may fail. Each error path undoes what was done
before it, as the code does. Each destroy call is `DestroyBegin` (which
looks up the dispatch table) followed by two steps, disassociate and then
destroy. The extension lists are sequences of names. `ExtListAdd`,
`ExtensionStrings` and `ExtListContains` translate `util::extension_list`.
`InstanceExtensions` and `DeviceExtensions` give the list passed down.

`GetInstanceProcAddr` and `GetDeviceProcAddr` look a name up on a handle
the application holds. `InstanceProcAddr` and `DeviceProcAddr` are the
`GET_PROC_ADDR` chains of `wsi_layer_vkGetInstanceProcAddr` and
`wsi_layer_vkGetDeviceProcAddr`, over the extensions the create call
recorded. The two create calls record different lists.
`create_instance` records the application's names (`pCreateInfo`).
`create_device` records the modified list, which includes the layer's
additions.

Surfaces are created on an instance whose application enabled the
platform, which is what `SurfaceCaller` requires:

- `CreateHeadlessSurfaceEXT` (`headless/surface_properties.cpp:156-177`)
  allocates the layer's surface first. It then calls the next layer and
  `add_surface`, and destroys the driver surface if `add_surface` fails.
- `CreateDisplayPlaneSurfaceKHR` (`display/surface_properties.cpp:228-255`)
  calls the next layer first. When the layer's surface object then cannot
  be allocated, it returns `VK_ERROR_OUT_OF_HOST_MEMORY` and leaves the
  driver surface live, with no owner and no registry entry. The model
  keeps this path (see section 8).
- `DestroySurfaceKHR` removes the entry and the driver surface.
  `vkDestroyInstance` waits until no surface of the instance is held.

`DisplayProperties` is a module of operators, with no state. The display
back end's queries read only `drm_display::get_display()`, which is an
optional display with its array of modes, opened once. `Displays` is
every such display within the bounds: absent, or present with one or two
modes. A mode has a width, a height and a refresh rate. The six operators
translate the code of
`vkGetPhysicalDeviceDisplayPropertiesKHR`,
`vkGetPhysicalDeviceDisplayPlanePropertiesKHR`,
`vkGetDisplayPlaneSupportedDisplaysKHR`, `vkGetDisplayModePropertiesKHR`,
`vkCreateDisplayModeKHR` (which returns an existing mode with the
requested parameters) and `vkGetDisplayPlaneCapabilitiesKHR`.
`Enumerates` is the reference: the Vulkan two-call enumeration over a
list of entries, with a null array, a count of 0, a count below the list,
a count equal to it, and a count past it.

Properties:

| Property | What it says |
|---|---|
| `DisplayQueriesFollowContract` | Once an instance with the display platform exists, every display query answers the two-call enumeration at every count from 0 to 3 and with a null array, for every display in the bounds. With no display, the display list is empty. Every mode handle the application can obtain passes `vkGetDisplayPlaneCapabilitiesKHR`'s assertion and yields that mode's extent. `vkCreateDisplayModeKHR` succeeds exactly for the parameters of an existing mode. |
| `RegistryMatchesDriver` | Every held handle, and every create call past its associate, finds its own private data, not that of an earlier object at the same address. Every held surface has its entry and its driver surface, and every surface entry belongs to a held surface. An entry outlives its object only while a call holds it, and every driver object is held. |
| `DriverSeesRequestedExtensions` | The list passed to the next layer holds exactly the application's extensions plus, when a platform is handled, the layer's required ones. |
| `ProcAddrFollowsAppExtensions` | A lookup returns the layer's entry point of an extension exactly when the application enabled that extension on that handle, whatever the layer enabled downstream for itself. Its mutant records the modified list for instances, as `create_device` does for devices. The layer's `VK_KHR_get_physical_device_properties2` then exposes `vkGetPhysicalDeviceFeatures2KHR` to an application that never enabled it. |

Bounds (run `layer_main`, about 702 000 states, under two minutes): two threads, two
addresses, three generations, one failure, and symmetry over all three
sets. The application's instance lists cover no platform, headless
without `VK_KHR_surface`, the display platform with it, and headless with
it plus `VK_KHR_get_physical_device_properties2` and
`VK_KHR_get_surface_capabilities2`. The lookups ask three instance names
and one device name (`vkCreateSwapchainKHR`, which a device without the
swapchain extension passes through). The display bounds are widths
{0, 1, 2}, heights and refresh rates {0, 1}, at most two modes and
counts up to 3. A zero parameter is an invalid `vkCreateDisplayModeKHR`
request, two modes make a count of 1 fall short of the list, and 3 goes
past it. Two addresses and two
threads are the least that show a destroy on one thread racing a create
on the other that gets the same address back. The mutant that swaps the
two destroy steps shows this race in TLC's trace. No fairness is
assumed and no liveness is checked: every call here returns after a
bounded number of its own steps.

`SwapchainExtensions` is a module of operators, with no state. A
swapchain's `init` and its presents run on the application's thread, one
call at a time, so each is a function from its inputs to its result:

- `AddExtension` is `wsi_ext_maintainer::add_extension`: it refuses a null
  extension (a failed `make_unique`), replaces a duplicate, and otherwise
  calls `try_push_back`, which may fail. `GetExtension` is the lookup.
- `AddRequiredExtensions` is the headless `add_required_extensions`. In
  order, it adds compression control (when the device enabled it and the
  create info chains it, as `image_compression_control::create` decides),
  present_id, maintenance1, frame_boundary and, in experimental builds,
  present timing. It stops at the first failure.
- `InitExtensions` is the extension part of `swapchain_base::init`: the
  adds, then, when maintenance1 is registered,
  `HandlePresentModesCreateInfo` and `HandleScalingCreateInfo`. The first
  checks each listed mode against the extension's `m_present_mode`, which
  no constructor initialises. The model takes that value as any present
  mode or as `Garbage`, a value naming none. `CompatibleModes` is the
  headless compatibility table.
- `QueuePresentExtensions` is `queue_present`'s extension steps in code
  order: `add_presentation_entry` (which may fail), the maintenance1
  switch (`HandleSwitchingPresentationMode`, which may return
  `VK_ERROR_SURFACE_LOST_KHR`), the rest of the present failing, being out
  of date or succeeding, and then the headless `present_image`, which looks
  present_id up as required. `missing` collects each required lookup that
  finds nothing.

`ExtensionContract` ranges over every set of device features, every
create info (compression, timing flag, no mode list or a list of one or
two of FIFO, FIFO_RELAXED and SHARED_DEMAND, and a scaling request),
every single failure (each extension's allocation or registration, or
the mode-list resize) and every value of `m_present_mode`. For each
successful init it checks every present in `PresentCalls`. It is a
constant, which TLC evaluates once. `LayerSetup` states it for each
device that enabled `VK_KHR_swapchain`, as `SwapchainExtensionsFollowDevice`.

| Property | What it says |
|---|---|
| `SwapchainExtensionsFollowDevice` | For a device with the swapchain extension, a swapchain whose init succeeds has registered exactly the extensions its device features and create info ask for, each once. The lookups that `queue_present` and `present_image` require therefore never come back null, whichever single allocation failed and whatever `m_present_mode` held. Its mutant ignores a failed `try_push_back`: init then succeeds without an extension the device enabled, and `present_image` would dereference null. |

## 7. Runs

There are twelve runs: five on `MCSwapchain`, five on `X11Swapchain`,
one on `ShmPresenter` and one on `MCLayerSetup`.

| Run | Bounds | Checks | Result |
|---|---|---|---|
| `main` | 2 swapchains, 2 images, modes FIFO/SHARED_DEMAND/SHARED_CONTINUOUS, ring 2, deferred allocation, 1 application thread | `TypeOK`, `TokenBackedByImage`, `NoUseOfDestroyedSwapchain`, `AncestorAtMostOneInFlight`, `TeardownTerminates`, `PendingEventuallyReleased`, `ImplementsImageOwnership` | pass, about 107 000 states |
| `errors` | 1 swapchain, 2 images, three modes, 1 failed allocation, 1 failed present wait | `TokenBackedByImage`, `TeardownTerminates`, `ImplementsImageOwnership` | pass |
| `v_teardown_race` | as `main`, FIFO, 2 application threads | `NoUseOfDestroyedSwapchain` | violated |
| `v_ancestor_after_descendant` | 2 swapchains, 3 images, FIFO | `TeardownTerminates` | violated |
| `v_continuous_ring_overflow` | 1 swapchain, SHARED_CONTINUOUS, ring 2 | `RingPushSucceeds` | violated |
| `x11_main` | 2 images, FIFO/MAILBOX, 1 pending completion, copying server, 1 CONFIGURE, disconnect | `TypeOK`, `ServerNeverReadsOwnedImage`, `TokensMatchFreeImages`, `DestructorReturns`, `AcquireReturns` | pass, about 256 000 states |
| `x11_faults` | as `x11_main` plus `ServerOrder = "any"` and 1 failed present wait; no deadlock check | `ServerNeverReadsOwnedImage`, `TokensMatchFreeImages` | pass, about 1.5 million states |
| `x11_v_no_join` | 2 images, FIFO, no CONFIGURE, no disconnect | `DestructorJoinsEventThread` | violated |
| `x11_v_suboptimal_acquire` | 2 images, FIFO, 1 CONFIGURE | `AcquireSuccessYieldsImage` | violated |
| `x11_v_payload_failure_hang` | 2 images, FIFO, 1 failed present wait | `AcquireReturns` | violated |
| `shm_main` | see section 5 | `AwaitNeverBlocks`, `GeometrySyncNeverOverwritesQueued`, `CopyWritesEveryPixelOnce` | pass |
| `layer_main` | see section 6 | `TypeOK`, `RegistryMatchesDriver`, `DriverSeesRequestedExtensions`, `ProcAddrFollowsAppExtensions`, `DisplayQueriesFollowContract`, `SwapchainExtensionsFollowDevice` | pass, about 702 000 states, under two minutes |

Why these bounds are enough:

- **Two swapchains** give every ancestor/descendant interaction: both
  teardown orders, and a present racing a teardown.
- **Two images** let one image be PENDING while another is ACQUIRED or
  FREE.
- **The `-1` of `wait_for_pending_buffers`** only matters from three
  images on, so `v_ancestor_after_descendant` uses three.
- **Failures** are bounded to one each, so every failure path is taken.
- **Ring capacity 2** equals the image count. In the code the capacity is
  the maximum image count, and the overflow depends only on posts
  outrunning pops, which one more present than the capacity shows.
- **One pending completion in X11** makes the presenter meet
  `X11_SWAPCHAIN_MAX_PENDING_COMPLETIONS` on the second present. The code
  behaves the same at 128.

Every property of a passing run has a mutant in `PROJECT.json`. The
mutant is a plausible bug in a mapped definition, such as a dropped guard
or a missing notify, and TLC finds the property violated under the run's
own configuration.

## 8. Findings

1. **Use after destroy** (`v_teardown_race`, line 353/133). Teardown of an
   ancestor decides that the descendant is not presenting. The
   descendant's page-flip thread may already hold the ancestor pointer
   and be blocked on the ancestor's acquire lock. After teardown returns,
   that thread waits on the destroyed ancestor's semaphore.
2. **Double drain** (`v_ancestor_after_descendant`, line 364). The
   descendant's first present takes `size-acquired-1` tokens from the
   ancestor. If the descendant is destroyed first, the ancestor's own
   teardown takes the `wait_for_pending_buffers` branch and needs as many
   tokens again. With three images, `vkDestroySwapchainKHR` hangs.
3. **Continuous mode overflows the ring** (`v_continuous_ring_overflow`,
   line 596). In SHARED_CONTINUOUS the page-flip thread never pops
   `m_pending_buffer_pool`, but every `queue_present` still pushes. The
   push after the ring fills fails the assert. In a release build the
   request is silently dropped, although the page-flip semaphore is
   posted.
4. **The destructor skips the join** (`x11_v_no_join`, x11 line 86). The
   event thread clears `m_present_event_thread_run` itself when it leaves
   its loop. A later destructor then does not join it, and the joinable
   `std::thread` calls `std::terminate`.
5. **SUBOPTIMAL without an image** (`x11_v_suboptimal_acquire`, line 425).
   After a resize the sticky error is `VK_SUBOPTIMAL_KHR`, a success code.
   `acquire_next_image` returns it without choosing an image.
6. **A failed present wait hangs a blocking acquire on X11**
   (`x11_v_payload_failure_hang`, line 117). The page-flip thread posts
   the semaphore but does not notify `m_thread_status_cond`, where
   `get_free_buffer` sleeps.

Further observations, made while modelling, have no run of their own
because the project keeps twelve runs. Each is listed as a hazard or
described here:

- **Failed first present** (line 118). A failed `image_wait_present` on
  the descendant's first present `continue`s, so the start-present
  semaphore is never posted, and the ancestor's teardown blocks in
  `sem_wait` (line 359). Run `errors` has one swapchain, where this cannot
  happen. With two two-image FIFO swapchains and one failed present wait,
  `TeardownTerminates` fails in an eight-state trace.
- **A null `DestroyInstance` leaks the instance** (`layer.cpp:160`). When
  the next layer's `vkGetInstanceProcAddr` returns no
  `vkDestroyInstance`, the error path of `create_instance` returns without
  destroying the instance it just created. `LayerSetup` assumes the
  loader always supplies it.
- **The loader-data chain entry is used before the null check**
  (`layer.cpp:90`, and line 208 in `create_device`). The code reads
  `loader_data_callback->u.pfnSetInstanceLoaderData` before it tests
  `loader_data_callback` for null.
- **An allocation failure consumes a token** (line 439). Spec section 4.1
  says it must not. `TokenBackedByImage` and `TeardownTerminates` still
  hold, because the image stays UNALLOCATED or becomes INVALID without
  its token, and a missing token breaks neither.
- **A fatal error is overwritten** (x11 line 550 with 579). With
  `ServerOrder = "any"`, a resize after a failed present wait replaces
  `VK_ERROR_DEVICE_LOST` with `VK_SUBOPTIMAL_KHR`.
- **Unread IDLEs** (x11 line 546). The event thread sleeps whenever no
  completion is pending, so IDLEs that arrive after the last COMPLETE are
  not read until the next present. A blocking acquire can wait for them.
- **X11 deferred allocation** (x11 lines 436-441).
  `allocate_and_bind_swapchain_image` sets the image FREE before
  allocating. If the allocation fails, the image stays FREE with no
  memory and no pixmap, and the next acquire hands it out.
- **Maintenance1** (`swapchain_maintenance.cpp`), three observations:
  - `handle_swapchain_present_modes_create_info` compares against the
    extension's `m_present_mode`, which is never initialised.
  - `handle_switching_presentation_mode` returns
    `VK_ERROR_SURFACE_LOST_KHR` for a mode that was not listed; the spec
    says `VK_ERROR_INITIALIZATION_FAILED`.
  - The switch changes only the extension's copy of the mode, never
    `swapchain_base::m_present_mode`, which the page-flip thread and
    `unpresent_image` read.
  - With `m_present_mode` holding a value that names no present mode,
    any `VkSwapchainPresentModesCreateInfoEXT` makes init fail with
    `VK_ERROR_INITIALIZATION_FAILED`. With a FIFO value, a list holding
    SHARED_DEMAND fails. `SwapchainExtensions` covers every value.
  - A switch on a swapchain created without a mode list trips the
    assertion in a debug build. A release build returns
    `VK_ERROR_SURFACE_LOST_KHR`, and the model follows the release build.
- **Extension steps before later failures** (`swapchain_base.cpp:607-629`).
  `queue_present` queues the present-timing entry and applies the mode
  switch before the image wait, the payload and the submit. A present
  that then fails has still queued an entry and changed the extension's
  mode. `QueuePresentExtensions` keeps these effects on the failing
  paths.
- **Present timing** (`present_timing.cpp:91`). `add_presentation_entry`
  appends entries that are never outstanding, so the queue grows on every
  present and ignores the size set by `present_timing_queue_set_size`.
- **SHM presenter**, four observations:
  - With the XSync fence the client never waits. The await is executed
    by the server, so `present_image` may write a segment whose previous
    `ShmPutImage` the server has not processed. Without the
    `~fenceAvailable` premise, `GeometrySyncNeverOverwritesQueued` fails
    in five states.
  - A present that fails after `wait_for_presentation_fence` (line 869)
    leaves an `AwaitFence` that nothing triggers, and the server blocks
    the connection. Without its `presentFailed` disjunct,
    `AwaitNeverBlocks` fails in four states.
  - Without NEON, a padded row pitch takes the scaling branch of
    `copy_pixels_scalar` (line 336). That branch reads `m_scaling_lut`,
    which `present_image` has just cleared.
  - Nothing in `x11/swapchain.cpp` creates an `shm_presenter`, and the
    segment fields of `x11_image_data` that it uses are declared nowhere
    in `src`.
- **A display-plane surface leaks when the layer is out of memory**
  (`display/surface_properties.cpp:242`). `CreateDisplayPlaneSurfaceKHR`
  asks the next layer for the surface before allocating its own surface
  object. If that allocation fails, it returns
  `VK_ERROR_OUT_OF_HOST_MEMORY` without calling `DestroySurfaceKHR`, and
  the application never receives the handle. The headless path allocates
  first. `LayerSetup` takes this path, and TLC reaches states in which
  the driver surface is live but has no owner.
- **Display formats** (`display/surface_properties.cpp:155-158`). The
  sRGB entry's device support is checked with the UNORM `vk_format`, not
  `vk_srgb_format`. Each DRM format may add two entries to an array of
  `max_core_1_0_formats`, while the assertion bounds only the number of
  DRM formats.
- **The extension registry** (`wsi_extension.cpp`). On a duplicate,
  `add_extension` asserts, then replaces the extension and returns true.
  In a release build the first extension's state is lost silently.

## 9. Not modelled

- Fence and semaphore signalling in `acquire_next_image`. This is GPU-side
  handshaking that changes no state a property reads.
- Logging, and surface format, capability and present-mode enumeration
  (tables and driver queries).
- In `layer.cpp`: the platform lookup `wsi::get_proc_addr` (its source is
  not in `src`), so a surface entry point is taken to be reachable exactly
  when the application enabled the platform's extensions, the loader
  interface negotiation and the physical-device queries. They change no
  state.
  `create_instance` and `create_device` are modelled from the call of the
  next layer on; the chain-walking before it only fails when the loader
  is broken.
- FIFO_RELAXED. Headless treats it exactly like FIFO.
- The failure paths of `swapchain_base::init` (`try_resize`, `init_platform`,
  starting the page-flip thread). `Create` always succeeds; a failed
  create returns before the new swapchain is handed out.
- In `Swapchain` and `X11Swapchain`, the early error returns of
  `queue_present` before `notify_presentation_engine`, such as a failed
  payload submit. They change no state those modules hold. The extension
  state they leave behind is modelled in `SwapchainExtensions`.
- In the SHM presenter: the refresh-rate query and frame pacing, the
  XRandR event forwarding and the 16-bit row copy. These are timing and
  data paths that change no state a property reads.
- The DRM display and the X11 surface. Their work is DRM and X queries.
- In the extensions: present timing's `set_size`, time-domain queries and
  calibration (clock and driver queries; the queue's contents do not
  matter, because no entry ever becomes outstanding), maintenance1's
  present and release fences, the values that present_id,
  frame_boundary and compression control pass to the driver, and
  `handle_frame_boundary_event`. The extensions are not composed with the
  `Swapchain` module's actions, because no action there reads them.

## 10. Plan for later work

1. Present timing's queue bounds (`set_size`), once the code marks
   entries outstanding.
2. X11 deferred allocation in `X11Swapchain`.
3. A refinement of `ImageOwnership` by `X11Swapchain`, where the free-buffer
   pool and the server's IDLE make the mapping of "engine" less direct.
4. The SHM presenter's 16-bit copy and its scaling table, for the case
   where the display width differs from the image width.
