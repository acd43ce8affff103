----------------------------- MODULE RenderLoop -----------------------------
(***************************************************************************)
(* One window: the render loop of task::SynchronousWindow from             *)
(* SynchronousWindow_initialize_vulkan on, against the three kinds of      *)
(* threads that talk to it through SpecialCircumstances: the X server      *)
(* connection (map, resize and close events), threads that run or signal a *)
(* SynchronousTask, and the timer that limits the frame rate.              *)
(* Every step is one access to a variable that another thread writes.      *)
(***************************************************************************)
EXTENDS SpecialCircumstances, Integers

CONSTANTS
  Extents,    \* window sizes the X server reports; 0 is a window without area
  Tasks       \* synchronous tasks

NoSwapchain == -1        \* m_swapchain before it was created

ASSUME ExtentsAssumption == Extents \subseteq Nat /\ Extents # {}

VARIABLES
  m_flags,        \* SpecialCircumstances::m_flags
  m_map_flags,    \* SpecialCircumstances::m_map_flags
  m_extent,       \* OperatingSystem's WindowExtent
  extent_lock,    \* who holds the mutex of m_extent: "free", "x" or "render"
  xpc,            \* the X server thread: where it is in an event handler
  mapped,         \* what the last map or unmap event said
  state,          \* state of each synchronous task
  unflagged,      \* <<task, call>>: queued, set_have_synchronous_task to come
  pc,             \* the render loop
  special,        \* its local copy special_circumstances
  need_draw_frame,
  map_flags,      \* its local copy of m_map_flags
  extent,         \* its local copy of m_extent
  todo,           \* the tasks this call of mainloop() still has to run
  swapchain,      \* the extent of m_swapchain
  framebuffer,    \* the extent of the imageless framebuffers
  attachments,    \* the extent of the attachments
  timer,          \* m_frame_rate_limiter: "off", "running", or "expiring"
  frame_signal    \* frame_timer was signalled while the task was not waiting

flagVars   == <<m_flags, m_map_flags>>
extentVars == <<m_extent, extent_lock>>
xVars      == <<xpc, mapped>>
taskVars   == <<state, unflagged, todo>>
localVars  == <<special, need_draw_frame, map_flags, extent>>
imageVars  == <<swapchain, framebuffer, attachments>>
timerVars  == <<timer, frame_signal>>
vars == <<flagVars, extentVars, xVars, taskVars, pc, localVars, imageVars,
          timerVars>>

Sizes == Extents \cup {0, NoSwapchain}
Calls == {"run", "signal"}

\* The tasks in the queue of the SynchronousEngine.
Queued == {t \in Tasks : state[t] = "queued"}

XPcs == {"idle", "map_bit", "extent_bit"}
Pcs == {"prepare", "prepare_reset", "create", "create_reset", "post",
        "enter", "load", "loop", "render", "caught", "expire", "reload",
        "special", "mainloop", "remain", "map", "map_reset", "map_min",
        "map_handle", "map_rearm", "render?", "resize", "resize_reset",
        "recreate", "reread", "draw?", "waiting", "close", "closed"}

TypeOK ==
  /\ m_flags \subseteq Bits
  /\ m_map_flags \subseteq MapBits
  /\ m_extent \in Extents
  /\ extent_lock \in {"free", "x", "render"}
  /\ xpc \in XPcs /\ mapped \in BOOLEAN
  /\ state \in [Tasks -> {"new", "queued", "idle", "finished"}]
  /\ unflagged \subseteq Tasks \X Calls
  /\ todo \subseteq Tasks
  /\ pc \in Pcs
  /\ special \subseteq Bits
  /\ need_draw_frame \in BOOLEAN
  /\ map_flags \subseteq MapBits
  /\ extent \in Extents \cup {0}
  /\ swapchain \in Sizes /\ framebuffer \in Sizes /\ attachments \in Sizes
  /\ timer \in {"off", "running", "expiring"}
  /\ frame_signal \in BOOLEAN

\* The window was just created with its desired extent; nothing is mapped or
\* queued yet but the members' initializers.
Init ==
  /\ m_flags = {extent_changed_bit}
  /\ m_map_flags = handled_MAPPED
  /\ m_extent \in Extents
  /\ extent_lock = "free"
  /\ xpc = "idle" /\ mapped = TRUE
  /\ state = [t \in Tasks |-> "new"]
  /\ unflagged = {} /\ todo = {}
  /\ pc = "prepare"
  /\ special = {} /\ need_draw_frame = FALSE
  /\ map_flags = handled_MAPPED /\ extent = 0
  /\ swapchain = NoSwapchain
  /\ framebuffer = NoSwapchain /\ attachments = NoSwapchain
  /\ timer = "off" /\ frame_signal = FALSE

-----------------------------------------------------------------------------
\* The X server thread.

WindowOpen == pc # "closed"

\* MapNotify and UnmapNotify.  set_mapped / set_unmapped: first m_map_flags,
\* then map_changed_bit.  An event that changes nothing returns at once.
set_mapped ==
  /\ WindowOpen /\ xpc = "idle"
  /\ mapped' = TRUE
  /\ IF is_mapped(m_map_flags)
       THEN UNCHANGED <<m_map_flags, xpc>>
       ELSE /\ m_map_flags' = OR_UNMAPPED_to_MAPPED(m_map_flags)
            /\ xpc' = "map_bit"
  /\ UNCHANGED <<m_flags, extentVars, taskVars, pc, localVars, imageVars, timerVars>>

set_unmapped ==
  /\ WindowOpen /\ xpc = "idle"
  /\ mapped' = FALSE
  /\ IF is_mapped(m_map_flags)
       THEN /\ m_map_flags' = AND_MAPPED_to_UNMAPPED(m_map_flags)
            /\ xpc' = "map_bit"
       ELSE UNCHANGED <<m_map_flags, xpc>>
  /\ UNCHANGED <<m_flags, extentVars, taskVars, pc, localVars, imageVars, timerVars>>

set_map_changed ==
  /\ xpc = "map_bit"
  /\ m_flags' = m_flags \cup {map_changed_bit}
  /\ xpc' = "idle"
  /\ UNCHANGED <<m_map_flags, mapped, extentVars, taskVars, pc, localVars, imageVars, timerVars>>

\* WindowEvents::set_extent: under the mutex of m_extent, the new value and
\* then extent_changed_bit; an extent that is not new changes nothing.
set_extent ==
  /\ WindowOpen /\ xpc = "idle" /\ extent_lock = "free"
  /\ m_extent' \in Extents \ {m_extent}
  /\ extent_lock' = "x"
  /\ xpc' = "extent_bit"
  /\ UNCHANGED <<flagVars, mapped, taskVars, pc, localVars, imageVars, timerVars>>

set_extent_changed ==
  /\ xpc = "extent_bit"
  /\ m_flags' = m_flags \cup {extent_changed_bit}
  /\ extent_lock' = "free"
  /\ xpc' = "idle"
  /\ UNCHANGED <<m_map_flags, mapped, m_extent, taskVars, pc, localVars, imageVars, timerVars>>

\* On_WM_DELETE_WINDOW, or SynchronousWindow::close from any thread.
set_must_close ==
  /\ WindowOpen
  /\ must_close_bit \notin m_flags
  /\ m_flags' = m_flags \cup {must_close_bit}
  /\ UNCHANGED <<m_map_flags, extentVars, xVars, taskVars, pc, localVars, imageVars, timerVars>>

-----------------------------------------------------------------------------
\* Threads that run or signal a synchronous task: first AIStatefulTask puts
\* it in the engine's queue, then the flag is set.

Enqueue(t, call, from) ==
  /\ WindowOpen
  /\ state[t] = from
  /\ <<t, call>> \notin unflagged
  /\ state' = [state EXCEPT ![t] = "queued"]
  /\ unflagged' = unflagged \cup {<<t, call>>}
  /\ UNCHANGED <<flagVars, extentVars, xVars, todo, pc, localVars, imageVars, timerVars>>

SynchronousTask_run(t) == Enqueue(t, "run", "new")

\* signal() of a task that is not idle wakes nothing up and sets no flag; the
\* task stays queued and finds the condition when it waits (see multiplex).
SynchronousTask_signal(t) == Enqueue(t, "signal", "idle")

set_have_synchronous_task(t, call) ==
  /\ <<t, call>> \in unflagged
  /\ unflagged' = unflagged \ {<<t, call>>}
  /\ m_flags' = m_flags \cup {have_synchronous_task_bit}
  /\ UNCHANGED <<m_map_flags, extentVars, xVars, state, todo, pc, localVars, imageVars, timerVars>>

-----------------------------------------------------------------------------
\* The timer: expire() calls signal(frame_timer) on the window's task.

TimerFires ==
  /\ timer = "running"
  /\ timer' = "expiring"
  /\ UNCHANGED <<flagVars, extentVars, xVars, taskVars, pc, localVars, imageVars, frame_signal>>

\* A task that waits for frame_timer runs again; otherwise its next
\* wait(frame_timer) does not wait.
expire ==
  /\ timer = "expiring"
  /\ timer' = "off"
  /\ IF pc = "waiting"
       THEN pc' = "load" /\ UNCHANGED frame_signal
       ELSE frame_signal' = TRUE /\ UNCHANGED pc
  /\ UNCHANGED <<flagVars, extentVars, xVars, taskVars, localVars, imageVars>>

-----------------------------------------------------------------------------
\* The render loop.  Each step moves pc; the other threads never do, except
\* that expire() wakes the task up.  A local variable that goes out of scope,
\* or is assigned before it is read again, gets its initial value back.

Goto(from, to) == pc = from /\ pc' = to

wait_frame_timer ==
  /\ frame_signal' = FALSE
  /\ special' = {}
  /\ pc' = IF frame_signal THEN "load" ELSE "waiting"

\* Mutant: the mutex is released before extent_changed_bit is reset.
get_extent_read_unlocked(from, to) ==
  /\ Goto(from, to)
  /\ extent_lock = "free"
  /\ extent' = m_extent
  /\ UNCHANGED <<flagVars, extentVars, xVars, taskVars, special, need_draw_frame, map_flags, imageVars, timerVars>>

\* get_extent: read m_extent, reset extent_changed_bit, release the mutex.
get_extent_read(from, to) ==
  /\ Goto(from, to)
  /\ extent_lock = "free"
  /\ extent_lock' = "render"
  /\ extent' = m_extent
  /\ UNCHANGED <<flagVars, m_extent, xVars, taskVars, special, need_draw_frame, map_flags, imageVars, timerVars>>

get_extent_reset(from, to) ==
  /\ Goto(from, to)
  /\ m_flags' = m_flags \ {extent_changed_bit}
  /\ extent_lock' = "free"
  /\ UNCHANGED <<m_map_flags, m_extent, xVars, taskVars, localVars, imageVars, timerVars>>

\* Swapchain::prepare sets have_no_swapchain_bit.  It is done here in one step
\* with leaving get_extent: no other thread looks at that bit.
prepare_reset ==
  /\ Goto("prepare_reset", "create")
  /\ m_flags' = (m_flags \ {extent_changed_bit}) \cup {have_no_swapchain_bit}
  /\ extent_lock' = "free"
  /\ extent' = 0
  /\ UNCHANGED <<m_map_flags, m_extent, xVars, taskVars, special, need_draw_frame, map_flags, imageVars, timerVars>>

\* Swapchain::recreate of the extent that was read.
recreate(flags) ==
  /\ swapchain' = IF extent = 0 THEN swapchain ELSE extent
  /\ m_flags' = IF extent = 0 THEN flags \cup {have_no_swapchain_bit}
                              ELSE flags \ {have_no_swapchain_bit}

\* create_swapchain_images, create_frame_resources and
\* create_imageless_framebuffers.
create_images ==
  /\ Goto("post", "enter")
  /\ recreate(m_flags)
  /\ framebuffer' = swapchain' /\ attachments' = swapchain'
  /\ extent' = 0
  /\ UNCHANGED <<m_map_flags, extentVars, xVars, taskVars, special, need_draw_frame, map_flags, timerVars>>

\* SynchronousWindow_imgui_font_texture_ready.
enter ==
  /\ Goto("enter", "load")
  /\ m_flags' = m_flags \ {have_no_swapchain_bit}
  /\ UNCHANGED <<m_map_flags, extentVars, xVars, taskVars, localVars, imageVars, timerVars>>

\* special_circumstances = atomic_flags()
atomic_flags(from, to) ==
  /\ Goto(from, to)
  /\ special' = m_flags
  /\ UNCHANGED <<flagVars, extentVars, xVars, taskVars, need_draw_frame, map_flags, extent, imageVars, timerVars>>

start_timer ==
  /\ Goto("loop", "render")
  /\ special = {}
  /\ timer' = "running"
  /\ UNCHANGED <<flagVars, extentVars, xVars, taskVars, localVars, imageVars, frame_signal>>

\* render_frame() ended; the frame may have asked for another number of
\* swapchain images (change_number_of_swapchain_images).
frame_done ==
  /\ pc = "render"
  /\ wait_frame_timer
  /\ m_flags' \in {m_flags, m_flags \cup {extent_changed_bit}}
  /\ UNCHANGED <<m_map_flags, extentVars, xVars, taskVars, need_draw_frame, map_flags, extent, imageVars, timer>>

\* Mutant: the exception is thrown without set_extent_changed().
out_of_date_unflagged ==
  /\ Goto("render", "caught")
  /\ UNCHANGED <<flagVars, extentVars, xVars, taskVars, localVars, imageVars, timerVars>>

\* acquire_image or finish_frame: vk::Result::eErrorOutOfDateKHR.
out_of_date ==
  /\ Goto("render", "caught")
  /\ m_flags' = m_flags \cup {extent_changed_bit}
  /\ UNCHANGED <<m_map_flags, extentVars, xVars, taskVars, localVars, imageVars, timerVars>>

\* The catch: stop the timer, or wait until expire() returned and eat its
\* signal.
stop_timer ==
  /\ pc = "caught"
  /\ IF timer = "running" THEN timer' = "off" /\ pc' = "reload"
                          ELSE pc' = "expire" /\ UNCHANGED timer
  /\ UNCHANGED <<flagVars, extentVars, xVars, taskVars, localVars, imageVars, frame_signal>>

\* Mutant: the late signal of the timer is not nullified.
wait_for_possible_expire_only ==
  /\ Goto("expire", "reload")
  /\ timer = "off"
  /\ UNCHANGED <<flagVars, extentVars, xVars, taskVars, localVars, imageVars, timerVars>>

wait_for_possible_expire ==
  /\ Goto("expire", "reload")
  /\ timer = "off"
  /\ frame_signal' = FALSE
  /\ UNCHANGED <<flagVars, extentVars, xVars, taskVars, localVars, imageVars, timer>>

\* The head of "Handle special circumstances": must_close breaks the loop.
\* handle_synchronous_tasks resets its bit before it runs mainloop().
must_close ==
  /\ Goto("loop", "close")
  /\ must_close_bit \in special
  /\ special' = {}
  /\ UNCHANGED <<flagVars, extentVars, xVars, taskVars, need_draw_frame, map_flags, extent, imageVars, timerVars>>

reset_have_synchronous_task ==
  /\ Goto("loop", "special")
  /\ special # {} /\ must_close_bit \notin special
  /\ have_synchronous_task_bit \in special
  /\ m_flags' = m_flags \ {have_synchronous_task_bit}
  /\ special' = special \ {have_synchronous_task_bit}
  /\ need_draw_frame' = TRUE
  /\ UNCHANGED <<m_map_flags, extentVars, xVars, taskVars, map_flags, extent, imageVars, timerVars>>

no_synchronous_task ==
  /\ Goto("loop", "map")
  /\ special # {} /\ must_close_bit \notin special
  /\ have_synchronous_task_bit \notin special
  /\ need_draw_frame' = FALSE
  /\ UNCHANGED <<flagVars, extentVars, xVars, taskVars, special, map_flags, extent, imageVars, timerVars>>

\* AIEngine::mainloop() runs the tasks that are queued now, until it did them
\* all or its max_duration is over, and returns whether any is left.
mainloop ==
  /\ Goto("special", "mainloop")
  /\ todo' = Queued
  /\ UNCHANGED <<flagVars, extentVars, xVars, state, unflagged, localVars, imageVars, timerVars>>

\* A task finishes, waits for a signal, or stays active.
multiplex(t) ==
  /\ pc = "mainloop" /\ t \in todo
  /\ todo' = todo \ {t}
  /\ \E s \in {"queued", "idle", "finished"} : state' = [state EXCEPT ![t] = s]
  /\ UNCHANGED <<flagVars, extentVars, xVars, unflagged, pc, localVars, imageVars, timerVars>>

\* Mutant: the result of mainloop() is ignored.
mainloop_return_ignored ==
  /\ Goto("mainloop", "map")
  /\ todo' = {}
  /\ UNCHANGED <<flagVars, extentVars, xVars, state, unflagged, localVars, imageVars, timerVars>>

mainloop_return ==
  /\ pc = "mainloop"
  /\ pc' = IF Queued = {} THEN "map" ELSE "remain"
  /\ todo' = {}
  /\ UNCHANGED <<flagVars, extentVars, xVars, state, unflagged, localVars, imageVars, timerVars>>

tasks_remain ==
  /\ Goto("remain", "map")
  /\ m_flags' = m_flags \cup {have_synchronous_task_bit}
  /\ UNCHANGED <<m_map_flags, extentVars, xVars, taskVars, localVars, imageVars, timerVars>>

-----------------------------------------------------------------------------
\* map_changed: handle_map_changed(atomic_map_flags()).
no_map_change ==
  /\ Goto("map", "render?")
  /\ map_changed_bit \notin special
  /\ UNCHANGED <<flagVars, extentVars, xVars, taskVars, localVars, imageVars, timerVars>>

load_map_flags ==
  /\ Goto("map", "map_reset")
  /\ map_changed_bit \in special
  /\ map_flags' = m_map_flags
  /\ UNCHANGED <<flagVars, extentVars, xVars, taskVars, special, need_draw_frame, extent, imageVars, timerVars>>

reset_map_changed ==
  /\ Goto("map_reset", "map_min")
  /\ m_flags' = m_flags \ {map_changed_bit}
  /\ UNCHANGED <<m_map_flags, extentVars, xVars, taskVars, localVars, imageVars, timerVars>>

set_minimized ==
  /\ Goto("map_min", "map_handle")
  /\ m_flags' = IF is_mapped(map_flags) THEN m_flags \ {minimized_bit}
                                        ELSE m_flags \cup {minimized_bit}
  /\ UNCHANGED <<m_map_flags, extentVars, xVars, taskVars, localVars, imageVars, timerVars>>

\* Mutant: map_changed_bit is not set again when the X server thread was in
\* between.
handled_map_changed_once ==
  /\ Goto("map_handle", "render?")
  /\ m_map_flags' = handle_map(map_flags, m_map_flags)
  /\ special' = (special \ {map_changed_bit, minimized_bit}) \cup
       (IF is_mapped(map_flags) THEN {} ELSE {minimized_bit})
  /\ need_draw_frame' = (need_draw_frame \/ is_mapped(map_flags))
  /\ map_flags' = handled_MAPPED
  /\ UNCHANGED <<m_flags, extentVars, xVars, taskVars, extent, imageVars, timerVars>>

\* Mutant: the local copy of minimized_bit does not follow.
handled_map_changed_stale ==
  /\ pc = "map_handle"
  /\ m_map_flags' = handle_map(map_flags, m_map_flags)
  /\ IF unhandled(m_map_flags')
       THEN /\ pc' = "map_rearm"
            /\ special' = {} /\ need_draw_frame' = FALSE
       ELSE /\ pc' = "render?"
            /\ special' = special \ {map_changed_bit}
            /\ need_draw_frame' = TRUE
  /\ map_flags' = handled_MAPPED
  /\ UNCHANGED <<m_flags, extentVars, xVars, taskVars, extent, imageVars, timerVars>>

\* handled_map_changed: on success the local copy follows; when the X server
\* thread was in between, map_changed_bit is set again.
handled_map_changed ==
  /\ pc = "map_handle"
  /\ m_map_flags' = handle_map(map_flags, m_map_flags)
  /\ IF unhandled(m_map_flags')
       THEN /\ pc' = "map_rearm"
            /\ special' = {} /\ need_draw_frame' = FALSE
       ELSE /\ pc' = "render?"
            /\ special' = (special \ {map_changed_bit, minimized_bit}) \cup
                 (IF is_mapped(map_flags) THEN {} ELSE {minimized_bit})
            /\ need_draw_frame' = (need_draw_frame \/ is_mapped(map_flags))
  /\ map_flags' = handled_MAPPED
  /\ UNCHANGED <<m_flags, extentVars, xVars, taskVars, extent, imageVars, timerVars>>

\* ... and the loop continues with new flags.
map_rearm ==
  /\ Goto("map_rearm", "load")
  /\ m_flags' = m_flags \cup {map_changed_bit}
  /\ UNCHANGED <<m_map_flags, extentVars, xVars, taskVars, localVars, imageVars, timerVars>>

-----------------------------------------------------------------------------
\* Drop the frame rate while nothing can be rendered, and return.
slow_down ==
  /\ pc = "render?"
  /\ ~can_render(special)
  /\ timer' = "running"
  /\ wait_frame_timer
  /\ need_draw_frame' = FALSE
  /\ UNCHANGED <<flagVars, extentVars, xVars, taskVars, map_flags, extent, imageVars>>

\* handle_window_size_changed: wait_for_all_fences, get_extent, recreate.
extent_changed ==
  /\ Goto("render?", "resize")
  /\ can_render(special) /\ extent_changed_bit \in special
  /\ special' = {}
  /\ UNCHANGED <<flagVars, extentVars, xVars, taskVars, need_draw_frame, map_flags, extent, imageVars, timerVars>>

extent_not_changed ==
  /\ Goto("render?", "draw?")
  /\ can_render(special) /\ extent_changed_bit \notin special
  /\ UNCHANGED <<flagVars, extentVars, xVars, taskVars, localVars, imageVars, timerVars>>

\* Mutant: extent_changed_bit is reset after the swapchain was recreated.
handle_window_size_changed_reset ==
  /\ Goto("recreate", "reread")
  /\ recreate(m_flags \ {extent_changed_bit})
  /\ framebuffer' = extent
  /\ attachments' = IF can_render(m_flags') THEN swapchain' ELSE attachments
  /\ extent' = 0
  /\ UNCHANGED <<m_map_flags, extentVars, xVars, taskVars, special, need_draw_frame, map_flags, timerVars>>

\* recreate, recreate_framebuffers and on_window_size_changed_post: they only
\* look at bits that this thread alone changes.
handle_window_size_changed ==
  /\ Goto("recreate", "reread")
  /\ recreate(m_flags)
  /\ framebuffer' = extent
  /\ attachments' = IF can_render(m_flags') THEN swapchain' ELSE attachments
  /\ extent' = 0
  /\ UNCHANGED <<m_map_flags, extentVars, xVars, taskVars, special, need_draw_frame, map_flags, timerVars>>

\* The flags are read again, without what was just handled.
reread_flags ==
  /\ Goto("reread", "draw?")
  /\ special' = m_flags \ ({extent_changed_bit} \cup
                   IF need_draw_frame THEN {have_synchronous_task_bit} ELSE {})
  /\ need_draw_frame' = TRUE
  /\ UNCHANGED <<flagVars, extentVars, xVars, taskVars, map_flags, extent, imageVars, timerVars>>

draw_frame ==
  /\ Goto("draw?", "loop")
  /\ need_draw_frame
  /\ need_draw_frame' = FALSE
  /\ UNCHANGED <<flagVars, extentVars, xVars, taskVars, special, map_flags, extent, imageVars, timerVars>>

close ==
  /\ Goto("close", "closed")
  /\ UNCHANGED <<flagVars, extentVars, xVars, taskVars, localVars, imageVars, timerVars>>

-----------------------------------------------------------------------------
XThread ==
  \/ set_mapped \/ set_unmapped \/ set_map_changed
  \/ set_extent \/ set_extent_changed
  \/ set_must_close

Producers ==
  \/ \E t \in Tasks : SynchronousTask_run(t) \/ SynchronousTask_signal(t)
  \/ \E t \in Tasks, call \in Calls : set_have_synchronous_task(t, call)

Timer == TimerFires \/ expire

StartUp ==
  \/ get_extent_read("prepare", "prepare_reset") \/ prepare_reset
  \/ get_extent_read("create", "create_reset")
  \/ get_extent_reset("create_reset", "post")
  \/ create_images \/ enter

Loop ==
  \/ atomic_flags("load", "loop") \/ start_timer \/ frame_done \/ out_of_date
  \/ stop_timer \/ wait_for_possible_expire \/ atomic_flags("reload", "loop")
  \/ must_close \/ reset_have_synchronous_task \/ no_synchronous_task
  \/ mainloop \/ (\E t \in Tasks : multiplex(t)) \/ mainloop_return
  \/ tasks_remain
  \/ no_map_change \/ load_map_flags \/ reset_map_changed \/ set_minimized
  \/ handled_map_changed \/ map_rearm
  \/ slow_down \/ extent_changed \/ extent_not_changed
  \/ get_extent_read("resize", "resize_reset")
  \/ get_extent_reset("resize_reset", "recreate")
  \/ handle_window_size_changed \/ reread_flags \/ draw_frame
  \/ close

\* The window is gone; what other threads began, they finish.
Closed == pc = "closed" /\ UNCHANGED vars

Render == StartUp \/ Loop

Next == XThread \/ Producers \/ Timer \/ Render \/ Closed

Spec == Init /\ [][Next]_vars

\* Threads do not stop in the middle of a function; a timer that runs fires.
Fairness ==
  /\ WF_vars(Render)
  /\ WF_vars(TimerFires) /\ WF_vars(expire)
  /\ WF_vars(set_map_changed) /\ WF_vars(set_extent_changed)
  /\ \A t \in Tasks, call \in Calls :
       WF_vars(set_have_synchronous_task(t, call))

FairSpec == Spec /\ Fairness

-----------------------------------------------------------------------------
(***************************************************************************)
(* Safety                                                                  *)
(***************************************************************************)

\* A map or unmap event that the render loop did not handle yet is never
\* forgotten: map_changed_bit is set, or the X server thread is about to set
\* it, or the render loop, which reset it, still has its fetch_and/fetch_or
\* to do and will notice.
MapChangeNotForgotten ==
  unhandled(m_map_flags) =>
    \/ map_changed_bit \in m_flags
    \/ xpc = "map_bit"
    \/ pc \in {"map_min", "map_handle", "map_rearm"}

\* Once a map change is handled and the render loop is not in
\* handle_map_changed, minimized_bit says what the X server said last: a
\* change during the handling is never taken for handled.
MinimizedAgrees ==
  ~unhandled(m_map_flags) /\ pc # "map_handle" =>
    (minimized_bit \in m_flags <=> ~mapped)

\* The window has another (non-empty) size than the swapchain only while
\* extent_changed_bit is set or about to be set, or while the render loop is
\* recreating the swapchain for exactly that size.
ResizeNotForgotten ==
  m_extent \notin {0, swapchain} =>
    \/ extent_changed_bit \in m_flags
    \/ xpc = "extent_bit"
    \/ pc \in {"prepare", "prepare_reset", "create", "create_reset"}
    \/ pc \in {"resize_reset", "post", "recreate"} /\ extent = m_extent

\* "An added task will never be forgotten" (SynchronousEngine.h): a task in
\* the engine's queue means that the flag is set, that the thread that queued
\* it will set it, or that the engine runs and looks at its queue again.
TaskNotForgotten ==
  Queued # {} =>
    \/ have_synchronous_task_bit \in m_flags
    \/ unflagged # {}
    \/ pc \in {"special", "mainloop", "remain"}

\* render_frame() is only called when the atomic flags allow it, although only
\* a local copy was tested, and the framebuffers and attachments then have
\* the size of the swapchain images.
RenderSafe ==
  pc = "render" =>
    /\ can_render(m_flags)
    /\ swapchain # NoSwapchain
    /\ framebuffer = swapchain /\ attachments = swapchain

\* The part of it that holds for windows of every size: a frame is rendered only when the
\* atomic flags allow it, and with framebuffers and attachments of the size of the
\* swapchain, also when a resize to an empty window left them behind.
FramesFit ==
  pc = "render" =>
    /\ can_render(m_flags)
    /\ framebuffer = swapchain /\ attachments = swapchain

\* The window has no area at the moment that its swapchain is created (create_swapchain_images
\* calls Swapchain::recreate, which returns early); see SynchronousWindow.cxx:323.
StartsEmpty == pc = "post" /\ extent = 0

\* The render loop never waits for a frame_timer that will not come, never
\* starts a timer that runs, and no signal of an earlier frame is left when
\* it does (it would cut that frame short).
TimerDiscipline ==
  /\ pc = "waiting" => timer # "off"
  /\ pc \in {"load", "loop", "render?", "reload"} =>
       timer = "off" /\ ~frame_signal

\* The code's ASSERT after an OutOfDateKHR_Exception (a flag must be set), the
\* wait(frame_timer) that nullifies the signal of a timer that could not be
\* stopped finds that signal, and the loop never returns without having armed
\* the timer (need_draw_frame is false only in that case).
LoopAssertions ==
  /\ pc = "reload" => m_flags # {}
  /\ pc = "expire" /\ timer = "off" => frame_signal
  /\ pc = "draw?" => need_draw_frame

-----------------------------------------------------------------------------
(***************************************************************************)
(* Liveness                                                                *)
(***************************************************************************)
Gone == pc \in {"close", "closed"}
SettledExtent(e) == <>[](m_extent = e)
NoMoreResizing == \E e \in Extents : SettledExtent(e)
SettledMap(visible) == <>[](mapped = visible)

\* A window that must close closes, once the user stops resizing it (the
\* render loop needs the mutex of m_extent).
CloseCompletes ==
  NoMoreResizing =>
    (must_close_bit \in m_flags ~> pc = "closed")

\* When the X server stops resizing and (un)mapping the window, the render loop ends up
\* with minimized_bit in agreement and with nothing left to handle.
MapCatchesUp ==
  \A visible \in BOOLEAN :
    NoMoreResizing /\ SettledMap(visible) =>
      <>(Gone \/ [](/\ minimized_bit \in m_flags <=> ~visible
                    /\ map_changed_bit \notin m_flags))

\* When the window stays mapped and is no longer resized, the swapchain gets
\* its size, if that is not empty.
SwapchainCatchesUp ==
  \A e \in Extents \ {0} :
    SettledExtent(e) /\ SettledMap(TRUE) => <>(Gone \/ [](swapchain = e))

\* A queued synchronous task is looked at by the engine, minimized or not.
EngineRuns ==
  NoMoreResizing =>
    \A t \in Tasks : t \in Queued ~> (Gone \/ t \in todo \/ t \notin Queued)

=============================================================================
