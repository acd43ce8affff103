# A verification project for linuxviewer

linuxviewer is a Vulkan engine: an `Application` opens windows, every window
runs a render loop as a task on a thread pool, and everything that is slow
(copying data, compiling shaders, creating pipelines) is done by other tasks that
talk to each other and to the render loops by means of flags, conditions, atomic
counters and queues. This directory holds TLA+ models of those conversations, what TLC
checks about them, and the theorems that TLAPS proves. All paths below are
relative to `src/src/vulkan` unless they start with `src/`; line numbers are those
of `PROJECT.json`.

## 1. The system

### 1.1 Tasks

All components are built on `AIStatefulTask` (submodule `statefultask`, external to
the repository). What the modules use of it:

- `multiplex_impl(state)` of a task is run by one thread at a time, until the task
  waits, yields, finishes or is aborted.
- `signal(c)` wakes up a task that waits for `c`; when the task doesn't wait for `c`,
  the next `wait(c)` returns at once (the signal is remembered, but not counted).
- `abort()` of a task leads to `abort_impl()` and `finish_impl()`, never concurrently
  with `multiplex_impl()`.

The parts of it that a module uses are marked `external` in the map.

### 1.2 Inventory

| Component | State it keeps | Operations | Talks to | What is hard | What makes it correct |
|---|---|---|---|---|---|
| Special circumstances (`SpecialCircumstances.*`) | two atomic words: flags, map flags | `set_*`, `reset_*`, `handled_map_changed` | X server thread and task threads set, the render loop reads and resets | two words are read and written one at a time | no event is forgotten, however often it is undone and redone |
| Render loop (`SynchronousWindow.cxx`) | local copy of the flags, frame rate limiter, swapchain | one pass per frame: synchronous tasks, (un)map, resize, draw, close | all of the above; the timer thread | decisions on stale copies; stopping a timer that fires | only renders when it can, always gets out of a wait, follows the window |
| Synchronous tasks (`SynchronousTask.*`, `SynchronousEngine.h`) | queue of tasks, one flag | `run`, `signal`, `mainloop` | run in the render loop of their window | the queue and its flag are two variables | "An added task will never be forgotten" |
| Frames and swapchain (`Swapchain.*`, `CurrentFrameData.h`, `FrameResourcesData.h`) | fence and command buffer per frame resource, two semaphores per image, one for acquire, a queue of semaphores to destroy | `start_frame`, `acquire_image`, submit, present, `recreate` | GPU and presentation engine | images come back in any order; any call may find the swapchain out of date | nothing is reused or destroyed while the device uses it |
| Semaphore watcher (`SemaphoreWatcher.*`, `TimelineSemaphore.*`) | watch set (two parallel arrays), poll timer | `add`, `remove`, `poll` | any task; GPU counters | add during poll, swap-and-pop during iteration, timer | every waiting task is signalled once and not early |
| Immediate submit (`queues/ImmediateSubmit*`) | deque of requests, the first of which are pending; pool of command buffers | request, record, submit, release, terminate | clients, GPU, watcher | one condition for three wake-ups; iterators kept over pushes of other threads | in order, once, no command buffer reused early, nobody waits forever |
| `TaskToTaskDeque` (`vk_utils/TaskToTaskDeque.h`) | deque, finished flag | `have_new_datum`, `flush_new_data`, `set_producer_finished` | a producer and a consumer task | the last datum and the finished flag | everything is consumed |
| Pipeline caches (`pipeline/PipelineCache.*`, `Application.cxx`) | a `vk::PipelineCache` per factory, a merger per cache name, a file | load, use, detach, merge, save, destroy | factories, windows, application | many factories end at the same time, two of them with a special role | externally synchronized use; saved once, after every factory handed its cache over |
| Pipeline factory (`pipeline/PipelineFactory.*`, `CharacteristicRange.*`) | a task per characteristic, counters of running tasks and updates | start, fill, preprocess, compile, create for every combination | characteristic tasks, updaters, caches | fan-out and fan-in over atomic counters | every combination once, with all ranges at the same index |
| Shared by factories (`AddShaderStage.cxx`, `ShaderResourceBase.h`, `PipelineFactory.cxx:1160-1660`) | a task mutex per shader, per shader resource and per layout binding | compile, create, find or allocate descriptor sets | all factories | tasks that wait for a mutex while they own others | done once, and nobody waits forever |
| Shader registration (`Application.cxx:328`) | deque of shaders, map of hashes | `register_shaders` | windows | two critical sections | an index belongs to one shader |
| Queue pool (`queues/QueuePool.*`, `queues/QueueReply.*`) | map of pools, queues acquired | `instance`, `get_immediate_submit_queue_task`, `acquire_queue` | clients of immediate submit | read lock converted to write lock; fast path without lock | never more queues than there are, at least one task to choose from |
| Lifetimes (`Application.cxx`, `PersistentAsyncTask.*`) | window list, gates, counters of tasks | `add`, `remove`, `run` | all windows and persistent tasks | a counter that reaches zero early | nothing is destroyed while a task uses it |
| Layout caches (`LogicalDevice.cxx:1299`) | maps of layouts | `realize_descriptor_set_layout`, `realize_pipeline_layout` | factories | read lock converted to write lock, retry | one handle per layout |
| Descriptor updater (`descriptor/CombinedImageSamplerUpdater.*`) | descriptor per characteristic range, textures | join of two streams | factories, windows | any order of arrival | every descriptor gets its texture |
| Render graph (`rendergraph/`) | graph of passes and attachments | `generate` | none: sequential | load/store ops follow from the whole graph | ops agree with a reference definition |
| Partitions (`pipeline/partitions/`) | sets as bit masks | search for the best partition | none: sequential | exhaustive and random search | finds the best score |
| Shader builder, memory, ImGui, input, infos, debug, data types and protocols | | | | | see `components` in `PROJECT.json` for why they are left out |

The list of hazards in `PROJECT.json` names, for every component, the lines where
this goes wrong most easily, and the properties that cover them.

## 2. Modules

| Module | Models | Used by |
|---|---|---|
| `SpecialCircumstances` | the bits and what the functions do to them (operators, no variables) | `RenderLoop` |
| `RenderLoop` | one window: render loop, X server thread, task threads, timer | `MCRenderLoop`, `WindowProofs` |
| `SemaphoreNotification` | abstract: what the watcher promises | `SemaphoreWatcher`, `ImmediateSubmit` |
| `SemaphoreWatcher` | watcher, its clients, its timer, the GPU's counters | `MCSemaphoreWatcher`, `SemaphoreWatcherProofs` |
| `ImmediateSubmit` | tasks that copy data, the window they do it for, the queue task, command buffer pool, GPU, and the watcher by its promise | `MCImmediateSubmit`, `ImmediateSubmitProofs` |
| `FrameSync` | render_frame and recreate against the graphics queue and the presentation engine | `MCFrameSync`, `FrameSyncProofs` |
| `PipelineCaches` | factories, MoveNewPipelines, PipelineCache tasks, the merger, the window's main loop | `MCPipelineCaches`, `PipelineCachesProofs` |
| `PipelineSequence` | abstract: every combination of characteristic values once, in order | `PipelineFactory` |
| `PipelineFactory` | one factory, its characteristic tasks, the updaters of its descriptor sets | `MCPipelineFactory`, `PipelineFactoryProofs` |
| `PipelineResources` | several factories that share shaders, shader resources and descriptor sets | `MCPipelineResources`, `PipelineResourcesProofs` |
| `QueueFamilies` | the division of the queues of a device over the requests (operators, no variables) | `QueuePool` |
| `QueuePool` | threads that look up or create a pool, and acquire queues | `MCQueuePool`, `QueuePoolProofs` |
| `ImageSamplerUpdater` | the join of descriptors and textures | `MCImageSamplerUpdater`, `PipelineFactoryProofs` |
| `RenderGraph` | the notation of a render graph, and what `generate` makes of it | `MCRenderGraph`, `WindowProofs` |
| `ShaderRegistry` | windows that register shaders | `MCShaderRegistry` |

The modules cut the system where the code does, at a task boundary with a narrow promise.
`SemaphoreNotification` is such a promise: `SemaphoreWatcher` implements it and `ImmediateSubmit` is
composed with it. `PipelineFactory`, `PipelineResources` and `PipelineCaches` are three cuts through the same factory:
its own tasks, what it shares with other factories, and what it does at its end.

The `MC` modules are what the configurations instantiate; every bound is a constant or a guard of the
module itself, and no run needs a state constraint or symmetry. A definition whose comment starts with "Mutant"
is not part of the model: it is a plausible bug in the definition it stands above, and
`PROJECT.json` names the property that catches it.

### 2.1 RenderLoop

Every access to a variable that another thread writes is a step of its own: the
atomic words `m_flags` and `m_map_flags`, the extent with its mutex, the queue of the engine.
`pc` is the place in `SynchronousWindow::multiplex_impl`; `special`, `map_flags`,
`extent` and `need_draw_frame` are its local variables. Locals that are dead get
their initial value back, which keeps the state space small and changes nothing that
is observable. The model starts in `SynchronousWindow_initialize_vulkan` and skips to the
creation of the swapchain; a `Task` has been created, and may be run and signalled any
number of times. `draw_frame` either ends a frame or throws because the swapchain is out of
date (after `set_extent_changed`).

- The X server thread: `set_mapped`, `set_unmapped` (first the map flags, then the bit),
  `set_extent` (both under the mutex), `set_must_close`.
- Threads of tasks: `Enqueue` (the base class), then `set_have_synchronous_task`.
- The timer: `TimerFires`, `expire`.

### 2.2 SemaphoreWatcher and SemaphoreNotification

The two parallel arrays of the watch set are one sequence of records, since every function
changes them together; `poll_semaphore` is one iteration of the loop of `poll()`, which
holds the lock: clients can only come in between two calls of `poll()`. The read through the
iterator that `erase` invalidated (`SemaphoreWatcher.h:202`) is modelled as what the build
does (`erased_iterator`): elements move down, so the iterator, a pointer, reads what is now in the slot
it points to, or, past the new end, what that slot held before.

`SemaphoreNotification` is the promise: a task is signalled at most once, not before
its value was reached and not after its semaphore was removed. `Notifies` says that
the watcher implements it, with `waiting` mapped to the values in the watch set.

### 2.3 ImmediateSubmit

One `CopyDataToGPU` task per request; it is the only class derived from `ImmediateSubmit`. The queue task is cut where
it takes or releases the lock of the deque or of the pool, and at each signal that it gives: `front_n`, `get_counter_value`,
`finished` (one request), `release_processed`, `pop_front_n`, `acquire`, `record`, `submit`, `add_poll`, `wait`. So a task that
was signalled can end, and its window be destructed, while its request is still in the deque; what is certain is that
`pop_front_n` comes before `abort_impl` can. Recording and what it does with the pool is one step, since only this task uses the
pool; the buffers of the pool are handed out in a fixed order. The deque is a sequence with the number of
elements that were popped, so that an iterator is a position (`pos`) plus the number of times that the deque's
map was reallocated (`map`). The semaphore watcher is represented by its promise, `SemaphoreNotification`, with one
semaphore.

The window is the gate `m_task_counter_gate` and what it protects (`queues/CopyDataToGPU.cxx:35`). The gate is external: `increment` may
throw from the moment that the window started to wait, and always throws once the wait is over. A task whose `increment` threw is aborted
before it made a request. The wait ends the window; the end of the program then ends the queue task (`terminate`).

### 2.4 FrameSync

`pc` walks through `render_frame` of `src/src/LinuxViewerApplication.cxx`. Fences, semaphores, and
images have the state the Vulkan specification gives them; the device executes the graphics
queue in order (`image_available`, `execute`) and the presents in order
(`display`). Assumptions on the device, which is not in the repository: it keeps at
least one image, so an acquire returns only when there are at least two that are free;
presents of one swapchain are executed first in, first out.

### 2.5 PipelineCaches

A factory is `start`, any number of `create_pipeline` and `finish`; its synchronous task `MoveNewPipelines`
runs in the main loop of the window (`at`, `mover`), and ends with `pipeline_factory_done`,
cut at the unlock of `m_pipeline_factory_list`. A `PipelineCache` is its states. All windows of an
instance have the same `pipeline_cache_name`, which is the case in which they meet. A
`vk::PipelineCache` is the set of factories whose pipelines it has. `ClosesEarly = FALSE` is
an assumption of the run (not of the theorems) about the user: a window is closed only after the tasks of its factories started.

### 2.6 PipelineFactory and PipelineSequence

`pc` is the state of `PipelineFactory::multiplex_impl`; `at` that of every characteristic task. A phase of the fan-out
("initialize", "fill", "preprocess", "compile") is one protocol with four names in the code: count the tasks that take part, signal them one by
one (`signal_task`), wait until the last calls back (`characteristic_range_done`). The signals carry their name, since
a characteristic that gets the wrong one remembers it. The multiloop is its counters
and the current loop. A part of a pipeline is the value for which it was filled in; `cache` is
`m_per_fill_index_cache`, by which a part is filled in once for every value. The lock of a descriptor
set is obtained at once or later; who holds it is the subject of `PipelineResources`. Abort can come whenever the factory waits or
yields (`pc` is "wait", "wait_for_lock" or "wait_for_updates"), since it never runs concurrently with `multiplex_impl`.

`ImplementsSequence` is the refinement: with `pipelines` mapped to the values in what was passed to `have_new_datum`, every step is a
step `Create` of `PipelineSequence`, or a stutter.

### 2.7 PipelineResources

Every task mutex (`AIStatefulTaskMutex`, external) is a sequence: the owner, followed by those that
wait in order of arrival; `woken` is who was handed the mutex that it waits for and did not run yet. A
factory goes through its shaders (`AddShaderStage::realize_shaders`), the creation of shader resources
(`acquire_create_lock` to `release_create_lock`), and the search, allocation and update of descriptor sets. Resources are
numbered by their address, the order in which the code visits them. Descriptor sets are numbers; `handles` is what is stored with each
layout binding.

Left out: a first resource that is not bound (then `PipelineFactory.cxx:1556` takes a lock that
`:1645` never gives back: the lists of the instance are bound), and the create lock is not locked twice by the same factory.

### 2.8 QueueFamilies and QueuePool

`QueueFamilies` translates the search of `LogicalDevice::prepare` for the division of minimal penalty; penalties are scaled by 600 to
integers, exact for up to six queues of a kind. `QueuePool` starts with any device and any best division for it. The read/write lock of the
map is external: `readers` and `converter`, where the conversion waits until its thread is the only reader. A pool is
its mutex, its tasks, its rotating index and `m_no_more_queues`. `fetch_add` and the subtraction that undoes it are steps of their own.
`LogicalDevice::realize_descriptor_set_layout` and `realize_pipeline_layout` follow the same
read-to-write protocol and are not modelled again. Nothing calls `release_queue`.

### 2.9 ImageSamplerUpdater

The deque between the producers (`AddDatum`, then `SignalNeedAction`) and the task; a flush handles one
update per step (`HandleDescriptor`, `HandleRequest`): the two sorted vectors, the searches in them, the splitting of a
subrange. `run_state` is the state of its `multiplex_impl`. `shown` is what `vkUpdateDescriptorSets` wrote last, `given` what the user gave last.
The inputs are restricted to what the callers do: one factory thread and one user thread; a descriptor is announced once;
array element 0.

What a debug build tests (`CW_DEBUG`) is part of the model: `cw_debug` says whether this is one, and where a test fails or does not
end the task is "stopped". The tests are the fatal error of two textures that match (`TwoMatch`, `:71`), the ASSERTs after an extension
(`OverlapsNext`, `:289` and `:319`), and the loop after an insertion (`:302-307`). That loop never moves on from the next element
of the same id (`LoopsForEver`), and it uses an iterator from before the insertion: when the vector had to be reallocated it reads freed
memory, and it may end or not (`Dangles`). A release build goes on in all these cases.

The vectors agree only on some inputs. The conditions on those of the run are in `MCImageSamplerUpdater`: `Separate` (the subranges of
requests are equal or disjoint, and none ends inside what shows in a descriptor), `Contiguous` (no part is replaced of a texture that adjacent
subranges share) and `LastIdHasFillIndexes`. The callers don't guarantee them; the theorems don't assume them.

### 2.10 RenderGraph

The build is a state machine, since C++ evaluates the notation from left to right: `FirstStores`,
`FirstRaw`, `ThenStores`, `ThenRaw`, then `Assign`. `Generate` is the whole of `RenderGraph::generate`. Its recursive search is
`SearchStep`, one call or return of `for_all_render_passes_until`, repeated by a recursive function: every pass
is put on the path and taken from it at most once, so that `2 * NumberOfPasses` steps are enough. A path is the set of its passes, as a vertex always leads
to a pass with a higher number. The properties compare the result with a reference definition
over the paths of the graph (`Paths`, `VisibleStores`), which does not search.

### 2.11 ShaderRegistry

The two critical sections of `Application::register_shaders`; a shader is its hash.

## 3. Runs

| Run | Instance | States | Question |
|---|---|---|---|
| `render_loop` | two sizes, one task | 189,274 | Is any map change, resize, task, timer signal or close lost, in any interleaving? |
| `semaphore_watcher` | two semaphores, values up to 2 | 104,878 | Does the watcher keep its promise, and does it never sleep on work? |
| `immediate_submit` | three copies, two command buffers, two requests per run, one window | 427,746 | Is every copy executed once, in order, with a command buffer of its own, before its window is gone? |
| `frame_sync` | one frame resource, three images, one recreation | 130,560 | Are fences, semaphores and command buffers never used twice at the same time? |
| `pipeline_caches` | one window, two factories, two pipelines each, any file | 26,108 | Is a cache used by one task at a time, and is the file written once, after every factory handed its cache over? |
| `pipeline_factory` | a characteristic and ranges of 3, 2 and 2 values, two with shaders, two sets, abort at any time | 1,293 | Does every round of the fan-out end exactly when its last task is done, and is every combination made once? |
| `pipeline_resources` | three factories, two shaders, four resources, two of them created before | 152,453 | Is everything made once, and does nobody wait forever? |
| `pipeline_resources_lock` | three factories that need the same new resource | | (violated) Does every factory get past the create lock? |
| `queue_pool` | two threads with two requests each, two windows, three devices | 110,502 | Is every pool made once and every queue handed out once, and is none left? |
| `image_sampler_updater` | four descriptors, four textures, any order, debug and release build | 127,738 | Does every descriptor show the last texture, and is every update handled, unless a test of the debug build stops the task? |
| `render_graph` | all graphs of at most two statements over three passes | 39,303 | Does every load have one store, which is kept along some route? |
| `shader_registry` | two windows, two lists | | (violated) Does everybody find its own shaders? |

### 3.1 What the violations show

Each is described under `findings`, with the comment it disagrees with.

- `pipeline_resources_lock`: the second factory is handed the create lock when the resource is created, skips the resource
  because it is created, and with it the line that would make it release the lock. The third waits for ever.
  Two factories are not enough, and a resource that was already created doesn't show it.
- `shader_registry`: both windows take the size of the deque as their first free index, since the deque grows in the
  second critical section.

More invariants of the modules fail on instances that have no run. What to change in a configuration to see each:

| Invariant | Instance | What TLC shows |
|---|---|---|
| `RenderLoop!SwapchainCatchesUp` | `Extents = {0, 1}` | `Swapchain::recreate` returns early for an empty extent with `have_no_swapchain` set; from then on `!can_render` is tested before `extent_changed`, so the resize that makes the window visible again is never handled |
| `RenderLoop!RenderSafe` | `Extents = {0, 1}` | a window that has no area when it starts has no swapchain, but the last state before the render loop sets `have_swapchain` unconditionally (`SynchronousWindow.cxx:323`), and it is rendered |
| `SemaphoreWatcher!WatchesFirstValue` | one semaphore, `MaxValue = 3` | after `erase` the iterator refers to another element (`SemaphoreWatcher.h:202`) |
| `ImmediateSubmit!IteratorsValid` | `NodeSize = 2` | `std::deque::push_back` keeps references valid, not iterators (`ImmediateSubmitQueue.cxx:84`) |
| `PipelineCaches!PipelinesMoved` | one window with one factory | `flush_new_data` and `producer_not_finished` are two steps; what is added between them, followed by the finished flag, stays behind |
| `PipelineCaches!MergedAll` | the instance of the run | the same two steps in the merger: a cache that is handed over between them, by the last factory, stays in the deque. `Application.cxx:444` says "We merged all pipeline caches"; the file is written without it |
| `PipelineCaches!MergerPresent` | two windows of one factory each | the last factory moves the merger out between the unlock and `set_is_merger` |
| `PipelineCaches!LoadExists` | two factories, an invalid file | the second loads what the first removes |
| `PipelineCaches!FactoriesAborted` | `ClosesEarly = TRUE` | a factory that did not start yet has no cache, and the gate of the window lets it be destructed |
| `PipelineFactory!AllPipelinesCreated` | `N = 2`, `End <- OneTwo`, `Ranges = {2}`, `Shaders = {1}` | a Characteristic with shaders in front of a range of two values: it runs once but is counted again, and the factory waits for ever |
| `ImageSamplerUpdater!SortedByKey`, `DescriptorsShowLatest` | `TwoDescriptors`, `TwoRequests` | the search at `CombinedImageSamplerUpdater.cxx:149` compares fill indexes beyond the end of its own id; a descriptor that ends up among those of another id is not found by the next request |
| `ImageSamplerUpdater!EveryUpdateHandled` without its last disjunct | the instance of the run | in a debug build, a texture for `[1,2)` and then one for `[0,1)` of the same id: the loop at `CombinedImageSamplerUpdater.cxx:302-307` never advances |
| `QueuePool!NothingLeftBehind` | two keys that get one reply (`any_cookie`, the default of `QueueRequest.h:29`) | the first pool takes every queue of the reply; the second is left with none and divides by zero (`QueuePool.cxx:78`). What holds is `NoQueueLost` |
| `RenderGraph!PreservedOnAllPaths` | the instance of the run | the search backwards visits a pass once, and so marks it on one of the routes only |
| `RenderGraph!EveryLinkIsAVertex` | `NumberOfPasses = 4`, no attachments, `MaxStatements = 3` | a statement is walked from its left-most pass along the subsequent links, of which a pass has one: after `p1 >> p2` and `p1 >> p3`, `p2 >> p4` is walked from `p1` to `p3` (`RenderGraph.cxx:398`) |

Two remarks on `generate` come without an instance of their own. The search for a second sink (`RenderGraph.cxx:288`) starts from sources only.
The assertion in `LoadStoreOps.cxx:50` fails when two later loads pass the same pass: the model ends there with the outcome of a failed assertion.

### 3.2 Bounds, and why they are enough

- `render_loop`: map state, size, task and close are each one bit of information to the loop; two
  sizes let the size change back while it is being handled. There is no counter, so the run
  covers executions of any length. The size 0 is left out, since `SwapchainCatchesUp` and `RenderSafe` fail with it (`FramesFit` does not).
- `semaphore_watcher`: two semaphores for the swap with the last element; two values, so
  that an entry can have a second task. `EverySignalled` still holds with three: the value that is watched is one that
  will be reached, so that a task is signalled late and not never.
- `immediate_submit`: three tasks, so that one is pending, one is new, and one comes in
  meanwhile; fewer command buffers than tasks, so that the pool runs dry. `Reserve` stands for 64:
  the case that a run can't take all requests occurs with 2. `NodeSize` 7 makes no reallocation
  happen, which isolates what does not depend on iterators.
- `frame_sync`: the fence limits the frames only when there are at least two images more than frame
  resources, hence 1 and 3 (2 and 4 gives more than seven million states; the theorems hold for
  every number). `MaxRecreate` 1: with two recreations within the delay, a semaphore whose present is still
  waiting can be destroyed, if a device really keeps a present that long; see the hazards. `OnlyReplacedTwice` says that this is
  the only way.
- `pipeline_caches`: two factories: one becomes the merger and the other hands its cache
  over. Two pipelines: one before and one after a flush. One window: with two, `MergerPresent` fails,
  and what follows is undefined behaviour.
- `pipeline_factory`: an outer, a middle and an inner range of at least two values, so that every loop is restarted and
  a range is filled again for a value that it had; three in the outer one, so that a width of two bits occurs. A range with and one
  without shaders; the Characteristic without, since `AllPipelinesCreated` fails otherwise. Two descriptor sets, so that an
  update can end before and after the other was started.
- `pipeline_resources`: two factories that lock the same two layouts in the opposite order, and a third that shares only the first resource
  of a set, so that a match of the first binding is not a match of the set. Two resources are new, each needed by at most two factories:
  three that need the same new one is the violated run.
- `queue_pool`: as many threads as it takes for a conversion to fail while another is in progress; requests that overshoot at the same time;
  a key of two flags that is tried separately; devices where the queues come from a family of their own, from a shared
  one, and one that cannot present. `MaxRequests` 2: a thread takes the slow path and then the fast one. Every pool gets at least one
  queue: with none, `QueuePool.cxx:78` divides by zero.
- `image_sampler_updater`: one id with three fill indexes, so that textures and descriptors can arrive inside out; two descriptors with the same key;
  one id with a full range. `MaxQueued` 1: the length of the deque makes no difference to the order in which updates are handled.
- `render_graph`: three passes in two statements give every graph with a branch, a join or a shortcut of three nodes, with every modifier and store of the
  attachment in every place. Attachments do not interact in `generate`, so one is enough.
- `shader_registry`: the smallest that fails.

### 3.3 Fairness, and why the code justifies it

Weak fairness only. The threads of the pool run every task that is not idle (`Watcher`, `Queue`, `MainLoop`, `Render`,
`PipelineCache`, `Factory`, `Characteristic`, ...); a thread that is in the middle of a function finishes it; a timer that was
started fires; the GPU finishes what was submitted, presents what it got, and advances the semaphores
in order. `ImmediateSubmit` assumes what `SemaphoreWatcher` shows (`EverySignalled`).
`PipelineCaches` assumes that the user calls `generate` and closes nothing until it did.
In `QueuePool` a thread that waits for a lock gets it when it is free again and again: with weak fairness this is true
because every thread makes a limited number of requests.
Nothing is assumed about the user or the X server in `RenderLoop`: `CloseCompletes`, `MapCatchesUp` and `SwapchainCatchesUp`
are conditional on their events stopping; nor in `ImmediateSubmit`, where copies may never be started and the window never closed, nor in
`ImageSamplerUpdater`, where any producer may never come.

Deadlock is checked in `render_loop`, `immediate_submit` and `frame_sync`. The other
runs have states in which everything was done (all semaphores removed or all values used, all windows destructed, all
factories done, the graph generated); that nobody waits in any other state is what their liveness properties say.

## 4. Proofs

TLAPS proves the following for every value of the constants that satisfies the named assumptions.

| Theorem | States | Inductive invariant |
|---|---|---|
| `WindowProofs!TypeCorrect` | `TypeOK` | itself |
| `WindowProofs!MapProtocol` | `MapChangeNotForgotten /\ MinimizedAgrees` | `MapInv`: which combinations of the map bits occur at every place in `handle_map_changed`, and that `minimized_bit` follows the local copy |
| `WindowProofs!Resizing` | `ResizeNotForgotten` | `ResizeInv`: who holds the mutex, and that what was read under it is current until the mutex is released |
| `WindowProofs!SynchronousTasks` | `TaskNotForgotten` | itself, with `TypeOK` |
| `WindowProofs!FrameTimer` | `TimerDiscipline` | `TimerInv`: where the timer may run, and that at most one signal is pending |
| `WindowProofs!Assertions` | `LoopAssertions` | `TimerInv` and `FrameInv`: with which flags, and with or without a frame to draw, every place is reached |
| `WindowProofs!Rendering` | `FramesFit`; and `RenderSafe`, unless the window had no area when its swapchain was to be created (`StartsEmpty`) | `CopyInv`: what the local copy of the flags says about the flags, for bits that only this thread changes, and where framebuffers and attachments fit the swapchain; `CreatedInv`: there is a swapchain after the start |
| `WindowProofs!OneStoreForEveryLoad` | `LoadsHaveOneStore` | `GraphInv == Links /\ Ordered /\ LoadsHaveOneStore /\ PreservedOnAPath /\ SourcesAndSinks`: every vertex is stored at both of its ends, and leads to a pass with a higher number |
| `WindowProofs!LoadsArePreserved` | `PreservedOnAPath` | `GraphInv` |
| `WindowProofs!SourcesAndSinksHold` | `SourcesAndSinks` | `GraphInv` |
| `SemaphoreWatcherProofs!NeverAsleep` | `WatcherAwake` | `AwakeInv`: when poll() found nothing and something was added since, have_semaphores is pending |
| `SemaphoreWatcherProofs!Limiter` | `LimiterDiscipline` | `LimiterInv` |
| `SemaphoreWatcherProofs!TypeCorrect` | `TypeOK` | `WInv` |
| `SemaphoreWatcherProofs!NoneLost` | `NothingLost` | `WInv == DataTypes /\ WatchSet /\ History`: every semaphore has one entry, whose values grow, and a value that was added and not signalled is in it |
| `SemaphoreWatcherProofs!ImplementsNotification` | `Notifies`: `Spec` implies the specification of `SemaphoreNotification` | `WInv`; every step is one of the abstract steps, or a stutter |
| `ImmediateSubmitProofs!TypeCorrect` | `TypeOK` | `IInv == TypeOK /\ DataTypes /\ Arrivals /\ Executions /\ Iterators /\ Values /\ Buffers /\ Gate` |
| `ImmediateSubmitProofs!InOrder` | `ExecutedInOrder` | `IInv`, of which `Arrivals` and `Executions`: the deque is what arrived minus what was popped, the GPU executed the first part of that, and of these the first part was signalled |
| `ImmediateSubmitProofs!ValidWhileMapStays` | `IteratorsValid`, as long as no push reallocated the map of the deque (`map = 0`) | `IInv`, of which `Iterators` |
| `ImmediateSubmitProofs!OneRequestEach` | `CommandBuffersExclusive` | `IInv`, of which `Buffers`: free buffers and those of requests in flight are disjoint, and the latter different |
| `ImmediateSubmitProofs!OutlivesCopies` | `WindowOutlivesCopies` | `IInv`, of which `Gate`: the counter of the gate is the number of tasks that incremented it and are not done; and `Arrivals`: what is still in the deque after the last task is done was signalled |
| `ImmediateSubmitProofs!ContinuesAfterExecution` | `FinishedAfterExecution` | `IInv`, of which `Values`: the values of the requests never decrease along the deque, and were reached for what left it |
| `FrameSyncProofs!TypeCorrect` | `TypeOK` | itself |
| `FrameSyncProofs!CommandBuffersDone` | `FrameResourceDone` | `IInv == TypeOK /\ Fences` |
| `FrameSyncProofs!FencesSignal` | `FenceWillSignal` | `IInv`: the jobs in the queue have different frame resources, and a fence is unsignalled exactly if its job is in the queue or about to be submitted |
| `FrameSyncProofs!QueueIdle` | `QueueIdleWhenRecreated` | `IInv` |
| `FrameSyncProofs!AcquireUnused` | `AcquireSemaphoreUnused` | `SInv == IInv /\ SemaphoreTypes /\ Names /\ Presents /\ Owners /\ Submits /\ Statuses`: every semaphore belongs to one image or is the acquire semaphore, and what its status says of the queue and the presents |
| `FrameSyncProofs!FinishedUnused` | `RenderingFinishedUnused` | `SInv` |
| `FrameSyncProofs!SubmitWaits` | `SubmitWaitsForItsImage` | `SInv` |
| `FrameSyncProofs!DestroyedUnused` | `OnlyReplacedTwice`, for not more images than slots: a semaphore that is destroyed in use belongs to a swapchain that was replaced at least twice | `DInv == SInv /\ Delayed`: how far the window is from the slot in which the semaphores of the last replaced swapchain are, against the presents that still use them |
| `PipelineCachesProofs!TypeCorrect` | `TypeOK` | `IInv == DataTypes /\ Bounded /\ Movers /\ Lifecycle /\ Untouched /\ Handles /\ Awake /\ MoverAwake` |
| `PipelineCachesProofs!ExternallySynchronized` | `CacheExternallySynchronized` | `IInv`, of which `Untouched` and `Handles`: a cache is not touched before its factory gave it away, and a handle is passed on once |
| `PipelineCachesProofs!MoversAwake` | `MoverAwake` | itself, with the rest of `IInv` |
| `PipelineCachesProofs!MergersAwake` | `MergerAwake` | `IInv`, of which `Awake` |
| `PipelineCachesProofs!CachesGoFirst` | `OnlyLateStarts`: the only cache of a destructed window is of a factory that starts after that | `IInv`: nothing points to a cache when its window is destructed (`WindowDestructed`), and only `start` makes one |
| `PipelineCachesProofs!SavedOnce` | `SavedLast`, for one window | `SInv == Listed /\ LastOne /\ Finished /\ Writing /\ Collected`: the factories that are not done are in the list, so who empties it is the last; and where the pipelines of those that are done are |
| `PipelineFactoryProofs!Counting` | `CountsTheBusy` | `FanOut`: which signals can be pending in which phase, and that the counter is the number of busy tasks |
| `PipelineFactoryProofs!Exclusive` | `NobodyBusyWhenMerged` | `IInv == TypeOK /\ FanOut /\ Updating /\ Loops` |
| `PipelineFactoryProofs!SamplersUpdated` | `UpdatedBeforeUse` | `Updating`: the factory counts itself as an updater as long as it may add one |
| `PipelineFactoryProofs!CreatesInSequence` | `ImplementsSequence` | `SInv == IInv /\ Parts /\ Made`: the pipelines are the combinations that the loops went through (`Behind`), and every part is in the cache or filled in for the current value (`Ready`) |
| `PipelineFactoryProofs!DoneIsComplete` | the end of the loops | `Made` |
| `PipelineFactoryProofs!LatestTextureShows` | `RequestShows`: when the descriptors are sorted, a request is shown by exactly those that match it | `UpdaterInv`: the elements of the two vectors (`EntryVector`, `AllEntered`, `ElementVector`), and that textures don't overlap in a debug build that goes on (`Apart`) |
| `PipelineFactoryProofs!DescriptorsSorted` | `SortedExcept`: which step, and no other, breaks `SortedByKey` | `UpdaterInv` |
| `PipelineFactoryProofs!OneTextureMatches` | `OneTexture`: in a debug build that goes on, no descriptor with a fill index matches two textures | `UpdaterInv`, of which `Apart` |
| `PipelineFactoryProofs!SignalPending` | `SignalNotLost`: nothing is in the deque of a task that waits, but with a signal | itself |
| `QueuePoolProofs!OnePool` | `OnePoolPerKey` | `Pools`: at most one thread converted its lock, and its key is not in the map |
| `QueuePoolProofs!Exclusive` | `QueuesExclusive`, if the ranges of the replies are disjoint (`Divided`) | `Exclusion`: the queues that a reply handed out are `m_acquired` minus the threads that have yet to give one back (`Counting`), nobody has any other (`Given`), and each is in one place (`Once`) |
| `QueuePoolProofs!NothingLeft` | `NoQueueLost`: when a pool stops, every queue of its reply is in its list or was taken for a key that gets the same reply | `Behind == Replies /\ DataTypes /\ Counting /\ Locks /\ Asked /\ WindowKeys /\ Stopped /\ Placed`: who has the mutex of a pool (`Locks`), that a pool that stopped has no thread with a queue to add (`Stopped`), and that every queue that was handed out is with somebody who may have it (`Placed`) |
| `PipelineResourcesProofs!CompiledOnce` | `ShadersCompiledOnce` | `IInv`, of which `ShaderQueues` |
| `PipelineResourcesProofs!NoDeadlock` | `NoHoldAndWait` | `IInv`, of which `SetQueues`: the mutexes that a factory heads are exactly those that follow from its place in the code (`Owns`) |
| `PipelineResourcesProofs!CreatedOnce` | `ResourcesCreatedOnce` | `IInv` and `Creation`: what a factory needs is created, in its list or still to be looked at |
| `PipelineResourcesProofs!NeverTwice` | `DescriptorSetsUnique` | `IInv` and `Bindings == SetTypes /\ HandlesRight /\ NewSets /\ FinishedSets /\ Searches /\ Found`: what is new belongs to one factory, what is not can be found by all its resources, and what a factory that searches has found so far contains every candidate |
| `PipelineResourcesProofs!BoundRight` | `DescriptorSetsRight` | `IInv` and `Bindings` |

The invariants the properties need are not the properties: each of these is about one or two places in the
code, and has to be strengthened with what is true in between. TLC checked the
strengthenings on the instances above before they were proved. The central argument of `PipelineFactoryProofs` is a cardinality: the counter is that of the
set `Busy`, so that the task that makes it zero was the only one left. That of `PipelineResourcesProofs` is that a
sequence of waiting tasks without duplicates and its head determine who may act; `Invariant` takes the greatest part of
the module, because every one of the steps moves a factory between the four roles (stranger, waiting, woken,
owner) of up to three families of mutexes.

The proof of `NeverTwice` divides the descriptor sets in two. A new one was allocated by a factory that did not add its handle to all its
resources yet (`IsNew`); the factory heads the mutex of the first resource of that set index, so that no two factories have a new one for the
same list of resources (`SameSet`, from `SetQueues`). All others are complete (`FinishedSet`): they are found by all their resources, differ from each other and from
what any factory concluded to be missing. A factory concludes that under the mutex, when the handles that are common to the resources that it
looked at are none; the invariant `SearchOf` says that each complete candidate is among them at every moment of the search. It is
needed because the resources are looked at one by one while other factories add handles to the same resources for other set indexes. The step that
adds the last handle of a descriptor set (`HandedKeeps`, `StaysNew`) turns a new one into a complete one.

The refinement `CreatesInSequence` has two halves. One follows the tasks: which of them still has to fill in its part depends on
the phase (`Filled`), and what the factory does not run has its part in the cache already (`Known`). The other follows the loops: `Behind` compares
the values of the loops that were entered, and `start_next_loop` and `end_of_loop` change the counters but not what is behind them. What
comes next is the smallest of what is missing because two combinations that differ have a first difference, which follows from the
well-foundedness of the natural numbers and not from an induction.

The invariants of `ImmediateSubmitProofs` and `FrameSyncProofs` are about positions: the deque and the queue of the GPU are
windows on one sequence of everything that arrived, and a step moves the borders of the windows. In `QueuePoolProofs`
the counter of a reply is wrong for a while, when threads that found no queue did not give it back yet: the number of
these threads is subtracted, and what remains never decreases. `PipelineCachesProofs` follows who may touch a handle
through the life of a factory; its last theorem counts the factories that are not done against the
length of `m_pipeline_factory_list`, and follows the pipelines of those that are done from factory to merger.

`OneStoreForEveryLoad` is about an algorithm. The inductive part is over the steps of the search, not of the specification, and is itself an
instance of the well-foundedness of the natural numbers: `SearchInv` holds after every number of steps (`SearchRun`), and `Left`, the passes
not visited yet counted twice plus the length of the path, decreases until the path is empty (`SearchAdvances`). `SearchInv` says that
the path is a path to the pass that loads, and that of every pass that was visited and left behind, all predecessors were visited. From that follows what a search
that visits a pass only once could get wrong: every store from which a route without another store leads to the load is found (`SearchFindsVisible`),
whichever route reached the passes in between first; and that there is a route whose passes were all on the path when the store was found, so that
`generate` marked them (`SearchPreserves`). On another route it need not have (`PreservedOnAllPaths`, 3.1). The sources and sinks come from `Reachable`, which is the least set that is closed under the vertices; that it is the set of
passes to which a path leads is `ReachedForwards` and `ReachedBackwards`.

The three theorems about the image sampler updater make no assumption on the order or the subranges of descriptors and requests, since the
callers guarantee nothing; together they say when what fails in 3.1 can happen. `find_descriptors` stops at the first element that does not match.
It misses nothing as long as the descriptor vector is sorted and the request does not begin inside the range of a descriptor that it matches
(`StartsAtMost`): then those that match are next to each other (`FoundDescriptors`), which gives `LatestTextureShows`. The vector ceases to be sorted in
one kind of step only, and always in that (`DescriptorsSorted`): the search at `:149`, which looks at the fill index but not at the id, passes the end of
its own id (`Misplaced`). In the texture vector an extension can overlap the next element; the ASSERTs of a debug build
stop exactly that, so that afterwards no descriptor with a fill index has two textures to choose from (`OneTextureMatches`). That a descriptor shows the texture
that was *last* given, over any sequence of updates, is false in general and model-checked for the instance of the run.

Proved, but not a property of a run: the `TypeOK` of every module in the table, `MinimizedAgrees`, `QueueIdleWhenRecreated`, `CountsTheBusy`,
`ResourcesCreatedOnce`, `DescriptorSetsRight`, `NothingLost`, `FinishedAfterExecution`, `AcquireSemaphoreUnused`, `RenderingFinishedUnused`, `MergerAwake`,
`SourcesAndSinks`, `SignalNotLost`, and what was said above about cases in which a property of a run, or of 3.1, fails: `FramesFit`, `OnlyReplacedTwice`,
`OnlyLateStarts`, `NoQueueLost`, `RequestShows`, `SortedExcept`, `OneTexture`, and `IteratorsValid` while `map` is 0.

The theorems rest on the assumptions that the modules name: `ExtentsAssumption`, `FrameSyncAssumption`, `ImmediateSubmitAssumption`,
`PipelineFactoryAssumption`, `KeysAssumption`, `ThreadsAssumption`, `PipelineResourcesAssumption`, `PipelineCachesAssumption`, `RenderGraphAssumption` and
`UpdaterAssumption`; those about
the watcher on none. They say that numbers are numbers, that the sets of threads are finite, that `None` and `NoThread` are different from what they could be mistaken
for, and which keys exist. What a theorem assumes beyond that is in its statement:

- `DestroyedUnused`: there are not more images than slots in the queue of semaphores, which the code takes for granted.
- `SavedOnce`: one window; with two the merger can be moved out before it is marked (`MergerPresent`, 3.1).
- `Exclusive`: what `QueueReplies` computes, namely disjoint ranges (`Divided`). `StartIndex` is a sum over a set, and what a fold computes
  takes an induction over data. `MCQueuePool` evaluates the condition for every compatible device and best configuration of
  the run (`DivisionAssumption`).

Only model-checked: `DescriptorsShowLatest`, `NothingDestroyedInUse`, `NothingLeftBehind` and `RenderSafe`, which hold for the
instances of the runs and fail for others (the theorems say what holds for all); liveness (the prover has no `ENABLED`); and what `StartIndex` of `QueueFamilies` computes, which is a fold over
a set of any size. The recursive function of `RenderGraph` is no exception to the rule that induction over data is out of reach: it counts
steps, and the smallest number of steps after which an invariant fails does not exist.

## 5. What is left

In this order; the most important first. No module that will be proved about declares a
RECURSIVE operator; constants come with assumptions, and every operation is one action.

1. The states of a window before `initialize_vulkan` (`SynchronousWindow.cxx:185-300`): waits for the X connection, the parent window and
   the logical device, which register for events of each other.
2. The order of `Application::run` with several windows: the window list, `PersistentAsyncTask`, and the gates
   of all windows. Composes with the ends of `PipelineCaches` and `ImmediateSubmit`.
3. Descriptor sets that are reused for further fill indexes, in `ImageSamplerUpdater`, and an unbound first resource in `PipelineResources`.
4. Image layouts and the creation of render passes after `RenderGraph::generate`.
5. Proofs: the condition on `QueueReplies`, for every device.

Not modelled, and not planned:

- the 1 s timeouts of fence waits (the code throws out of the render loop);
- `Partitions`: a sequential search with a random element for a heuristic score, of which no state remains;
- input events and ImGui, memory allocation, the text of shaders, the compile-time types of shader resources, debug output, image decoding;
- the grid protocols under `src/src/data_types` and `src/src/protocols`, which the engine does not use.

The definitions map about a tenth of the lines of the repository's implementation. Most of the rest is not state: functions that
fill in a structure and make one Vulkan call, types that are evaluated at compile time, printing, a vendored image decoder
and the examples. What is concurrent in the engine, apart from the points 1 and 2 above, is in one of the modules.
