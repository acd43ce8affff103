---------------------------- MODULE WindowProofs ----------------------------
(***************************************************************************)
(* Proofs about the two parts of a window: RenderLoop, for every set of    *)
(* extents and of tasks, and RenderGraph, for every number of passes, of   *)
(* attachments and of statements.                                          *)
(***************************************************************************)
EXTENDS RenderLoop, RenderGraph, FiniteSetTheorems, WellFoundedInduction, TLAPS

-----------------------------------------------------------------------------
(* The render loop. *)

\* The six bits, and what is a state of m_map_flags.
LEMMA BitsFacts ==
  /\ extent_changed_bit \in Bits /\ must_close_bit \in Bits
  /\ have_no_swapchain_bit \in Bits /\ have_synchronous_task_bit \in Bits
  /\ minimized_bit \in Bits /\ map_changed_bit \in Bits
  BY DEF Bits

-----------------------------------------------------------------------------
\* Every variable keeps its type.
THEOREM TypeCorrect == Spec => []TypeOK
<1>1. Init => TypeOK
  BY BitsFacts DEF Init, TypeOK, Sizes, XPcs, Pcs, MapBits, handled_MAPPED
<1>2. TypeOK /\ [Next]_vars => TypeOK'
  <2>. SUFFICES ASSUME TypeOK, [Next]_vars PROVE TypeOK'
    OBVIOUS
  <2>. USE BitsFacts DEF TypeOK, Sizes,
         localVars, flagVars, extentVars, xVars, taskVars, imageVars, timerVars
  <2>1. CASE set_mapped
    BY <2>1 DEF set_mapped, OR_UNMAPPED_to_MAPPED, MapBits, XPcs
  <2>2. CASE set_unmapped
    BY <2>2 DEF set_unmapped, AND_MAPPED_to_UNMAPPED, XPcs
  <2>3. CASE set_map_changed
    BY <2>3 DEF set_map_changed, XPcs
  <2>4. CASE set_extent
    BY <2>4 DEF set_extent, XPcs
  <2>5. CASE set_extent_changed
    BY <2>5 DEF set_extent_changed, XPcs
  <2>6. CASE set_must_close
    BY <2>6 DEF set_must_close
  <2>7. ASSUME NEW t \in Tasks,
               SynchronousTask_run(t) \/ SynchronousTask_signal(t)
        PROVE  TypeOK'
    BY <2>7 DEF SynchronousTask_run, SynchronousTask_signal, Enqueue, Calls
  <2>8. ASSUME NEW t \in Tasks, NEW call \in Calls,
               set_have_synchronous_task(t, call)
        PROVE  TypeOK'
    BY <2>8 DEF set_have_synchronous_task
  <2>9. CASE TimerFires
    BY <2>9 DEF TimerFires
  <2>10. CASE expire
    <3>1. pc' \in Pcs
      BY <2>10 DEF expire, Pcs
    <3>2. timer' = "off" /\ frame_signal' \in BOOLEAN
      BY <2>10 DEF expire
    <3>. QED
      BY <2>10, <3>1, <3>2 DEF expire
  <2>. USE DEF Goto, Pcs
  <2>11. CASE get_extent_read("prepare", "prepare_reset")
    BY <2>11 DEF get_extent_read
  <2>12. CASE prepare_reset
    BY <2>12 DEF prepare_reset
  <2>13. CASE get_extent_read("create", "create_reset")
    BY <2>13 DEF get_extent_read
  <2>14. CASE get_extent_reset("create_reset", "post")
    BY <2>14 DEF get_extent_reset
  <2>15. CASE create_images
    BY <2>15 DEF create_images, recreate
  <2>16. CASE enter
    BY <2>16 DEF enter
  <2>17. CASE atomic_flags("load", "loop") \/ atomic_flags("reload", "loop")
    BY <2>17 DEF atomic_flags
  <2>18. CASE start_timer
    BY <2>18 DEF start_timer
  <2>19. CASE frame_done
    <3>1. m_flags' \subseteq Bits
      BY <2>19 DEF frame_done
    <3>2. pc' \in Pcs /\ frame_signal' \in BOOLEAN /\ special' = {}
      BY <2>19 DEF frame_done, wait_frame_timer
    <3>. QED
      BY <2>19, <3>1, <3>2 DEF frame_done
  <2>20. CASE out_of_date
    BY <2>20 DEF out_of_date
  <2>21. CASE stop_timer
    <3>1. pc' \in Pcs /\ timer' \in {"off", "running", "expiring"}
      BY <2>21 DEF stop_timer
    <3>. QED
      BY <2>21, <3>1 DEF stop_timer
  <2>22. CASE wait_for_possible_expire
    BY <2>22 DEF wait_for_possible_expire
  <2>23. CASE must_close
    BY <2>23 DEF must_close
  <2>24. CASE reset_have_synchronous_task
    BY <2>24 DEF reset_have_synchronous_task
  <2>25. CASE no_synchronous_task
    BY ZenonT(30), <2>25 DEF no_synchronous_task
  <2>26. CASE mainloop
    BY <2>26 DEF mainloop, Queued
  <2>27. ASSUME NEW t \in Tasks, multiplex(t)
         PROVE  TypeOK'
    BY <2>27 DEF multiplex
  <2>28. CASE mainloop_return
    <3>1. pc' \in Pcs
      BY <2>28 DEF mainloop_return
    <3>. QED
      BY <2>28, <3>1 DEF mainloop_return
  <2>29. CASE tasks_remain
    BY <2>29 DEF tasks_remain
  <2>30. CASE no_map_change
    BY <2>30 DEF no_map_change
  <2>31. CASE load_map_flags
    BY <2>31 DEF load_map_flags
  <2>32. CASE reset_map_changed
    BY <2>32 DEF reset_map_changed
  <2>33. CASE set_minimized
    BY <2>33 DEF set_minimized
  <2>34. CASE handled_map_changed
    <3>1. pc' \in Pcs /\ need_draw_frame' \in BOOLEAN
      BY <2>34 DEF handled_map_changed
    <3>2. m_map_flags' \subseteq MapBits /\ map_flags' \subseteq MapBits
      BY <2>34 DEF handled_map_changed, handle_map, handled_MAPPED, MapBits
    <3>3. special' \subseteq Bits
      <4>1. special' \subseteq special \cup {minimized_bit}
        BY <2>34 DEF handled_map_changed
      <4>. QED
        BY <4>1
    <3>. QED
      BY <2>34, <3>1, <3>2, <3>3 DEF handled_map_changed
  <2>35. CASE map_rearm
    BY <2>35 DEF map_rearm
  <2>36. CASE slow_down
    <3>1. pc' \in Pcs /\ frame_signal' \in BOOLEAN /\ special' = {}
      BY <2>36 DEF slow_down, wait_frame_timer
    <3>2. timer' = "running" /\ need_draw_frame' = FALSE
      BY <2>36 DEF slow_down
    <3>. QED
      BY <2>36, <3>1, <3>2 DEF slow_down
  <2>37. CASE extent_changed
    BY <2>37 DEF extent_changed
  <2>38. CASE extent_not_changed
    BY <2>38 DEF extent_not_changed
  <2>39. CASE get_extent_read("resize", "resize_reset")
    BY <2>39 DEF get_extent_read
  <2>40. CASE get_extent_reset("resize_reset", "recreate")
    BY <2>40 DEF get_extent_reset
  <2>41. CASE handle_window_size_changed
    BY <2>41 DEF handle_window_size_changed, recreate
  <2>42. CASE reread_flags
    <3>1. special' \subseteq m_flags /\ need_draw_frame' = TRUE
      BY <2>42 DEF reread_flags
    <3>2. pc' = "draw?"
      BY <2>42 DEF reread_flags
    <3>. QED
      BY <2>42, <3>1, <3>2 DEF reread_flags
  <2>43. CASE draw_frame
    BY ZenonT(30), <2>43 DEF draw_frame
  <2>44. CASE close
    BY <2>44 DEF close
  <2>45. CASE Closed \/ UNCHANGED vars
    BY <2>45 DEF Closed, vars
  <2>46. CASE XThread
    BY <2>46, <2>1, <2>2, <2>3, <2>4, <2>5, <2>6 DEF XThread
  <2>47. CASE Producers
    BY <2>47, <2>7, <2>8 DEF Producers
  <2>48. CASE Timer
    BY <2>48, <2>9, <2>10 DEF Timer
  <2>49. CASE StartUp
    BY <2>49, <2>11, <2>12, <2>13, <2>14, <2>15, <2>16 DEF StartUp
  <2>50. CASE Loop
    BY <2>50, <2>17, <2>18, <2>19, <2>20, <2>21, <2>22, <2>23, <2>24, <2>25,
       <2>26, <2>27, <2>28, <2>29, <2>30, <2>31, <2>32, <2>33, <2>34, <2>35,
       <2>36, <2>37, <2>38, <2>39, <2>40, <2>41, <2>42, <2>43, <2>44 DEF Loop
  <2>. QED
    BY <2>45, <2>46, <2>47, <2>48, <2>49, <2>50 DEF Next, Render
<1>. QED
  BY <1>1, <1>2, PTL DEF Spec

-----------------------------------------------------------------------------
(***************************************************************************)
(* The map protocol.  What makes MapChangeNotForgotten and MinimizedAgrees *)
(* inductive: between the load of m_map_flags and the fetch_and/fetch_or,  *)
(* m_map_flags is either unhandled or still what was loaded, because the X *)
(* server thread only ever moves it to an unhandled state; and at          *)
(* fetch_and/fetch_or the minimized_bit already follows the loaded value.  *)
(***************************************************************************)
MapInv ==
  /\ MapChangeNotForgotten
  /\ ~unhandled(m_map_flags) /\ pc # "map_handle" =>
       (minimized_bit \in m_flags <=> ~is_mapped(m_map_flags))
  /\ pc \in {"map_reset", "map_min", "map_handle"} =>
       unhandled(m_map_flags) \/ m_map_flags = map_flags
  /\ pc = "map_handle" =>
       (minimized_bit \in m_flags <=> ~is_mapped(map_flags))

\* m_map_flags has the MAPPED_bit of the last event.
MappedInv == mapped = TRUE <=> is_mapped(m_map_flags)

\* A pending map change is never forgotten, and minimized_bit never disagrees
\* with the last event once that is handled
\* (SpecialCircumstances::handled_map_changed).
THEOREM MapProtocol == Spec => [](MapChangeNotForgotten /\ MinimizedAgrees)
<1>. USE DEF MapInv, MapChangeNotForgotten, unhandled,
       is_mapped, MAPPED_bit, handled_UNMAPPED, unhandled_UNMAPPED,
       handled_MAPPED, unhandled_MAPPED
<1>1. Init => MapInv /\ MappedInv
  <2>. SUFFICES ASSUME Init
                PROVE  MapInv /\ MappedInv
    OBVIOUS
  <2>1. MapInv
    BY DEF Init, extent_changed_bit, minimized_bit
  <2>2. is_mapped(m_map_flags) /\ mapped = TRUE
    BY DEF Init
  <2>. QED
    BY <2>1, <2>2 DEF MappedInv
<1>2. TypeOK /\ MapInv /\ [Next]_vars => MapInv'
  <2>. SUFFICES ASSUME m_map_flags \subseteq MapBits, MapInv, [Next]_vars
                PROVE  MapInv'
    BY DEF TypeOK
  <2>. USE DEF MapBits, localVars, flagVars, extentVars, xVars, taskVars, imageVars,
         timerVars, Goto, map_changed_bit, minimized_bit
  <2>1. CASE set_mapped
    BY <2>1 DEF set_mapped, OR_UNMAPPED_to_MAPPED
  <2>2. CASE set_unmapped
    BY <2>2 DEF set_unmapped, AND_MAPPED_to_UNMAPPED
  <2>3. CASE set_map_changed
    BY <2>3 DEF set_map_changed
  <2>4. CASE set_extent \/ set_extent_changed \/ set_must_close
    BY <2>4 DEF set_extent, set_extent_changed, set_must_close,
       extent_changed_bit, must_close_bit
  <2>5. CASE Producers
    BY <2>5 DEF Producers, SynchronousTask_run, SynchronousTask_signal,
       Enqueue, set_have_synchronous_task, have_synchronous_task_bit
  <2>6. CASE Timer
    BY <2>6 DEF Timer, TimerFires, expire
  <2>7. CASE StartUp
    BY <2>7 DEF StartUp, get_extent_read, get_extent_reset, prepare_reset,
       create_images, recreate, enter, have_no_swapchain_bit,
       extent_changed_bit
  <2>8. CASE load_map_flags
    BY <2>8 DEF load_map_flags
  <2>9. CASE reset_map_changed
    BY <2>9 DEF reset_map_changed
  <2>10. CASE set_minimized
    BY <2>10 DEF set_minimized
  <2>11. CASE handled_map_changed
    BY <2>11 DEF handled_map_changed, handle_map
  <2>12. CASE map_rearm
    BY <2>12 DEF map_rearm
  <2>13. CASE \/ atomic_flags("load", "loop") \/ atomic_flags("reload", "loop")
              \/ start_timer \/ frame_done \/ out_of_date \/ stop_timer
              \/ wait_for_possible_expire \/ slow_down
    BY <2>13 DEF atomic_flags, start_timer, frame_done, out_of_date,
       stop_timer, wait_for_possible_expire, slow_down, wait_frame_timer,
       extent_changed_bit
  <2>14. CASE \/ must_close \/ reset_have_synchronous_task
              \/ no_synchronous_task \/ mainloop
              \/ (\E t \in Tasks : multiplex(t))
              \/ mainloop_return \/ tasks_remain \/ no_map_change
    BY <2>14 DEF must_close, reset_have_synchronous_task,
       no_synchronous_task, mainloop, multiplex, mainloop_return,
       tasks_remain, no_map_change, have_synchronous_task_bit
  <2>15. CASE \/ extent_changed \/ extent_not_changed
              \/ get_extent_read("resize", "resize_reset")
              \/ get_extent_reset("resize_reset", "recreate")
              \/ handle_window_size_changed \/ reread_flags \/ draw_frame
              \/ close
    BY <2>15 DEF extent_changed, extent_not_changed, get_extent_read,
       get_extent_reset, handle_window_size_changed, recreate, reread_flags,
       draw_frame, close, have_no_swapchain_bit, extent_changed_bit
  <2>16. CASE Closed \/ UNCHANGED vars
    BY <2>16 DEF Closed, vars
  <2>. QED
    BY <2>1, <2>2, <2>3, <2>4, <2>5, <2>6, <2>7, <2>8, <2>9, <2>10, <2>11,
       <2>12, <2>13, <2>14, <2>15, <2>16 DEF Next, XThread, Render, Loop
<1>3. TypeOK /\ MappedInv /\ [Next]_vars => MappedInv'
  <2>. SUFFICES ASSUME m_map_flags \subseteq MapBits, MappedInv, [Next]_vars
                PROVE  MappedInv'
    BY DEF TypeOK
  <2>. USE DEF MappedInv
  <2>1. CASE set_mapped
    BY <2>1 DEF set_mapped, OR_UNMAPPED_to_MAPPED
  <2>2. CASE set_unmapped
    <3>1. mapped' = FALSE
      BY <2>2 DEF set_unmapped
    <3>2. ~is_mapped(m_map_flags')
      BY <2>2 DEF set_unmapped, AND_MAPPED_to_UNMAPPED
    <3>. QED
      BY <3>1, <3>2
  <2>3. CASE handled_map_changed
    <3>1. m_map_flags' = m_map_flags \cap {2} \/ m_map_flags' = m_map_flags \cup {1}
      BY <2>3 DEF handled_map_changed, handle_map
    <3>2. is_mapped(m_map_flags') <=> is_mapped(m_map_flags)
      BY <3>1
    <3>3. mapped' = mapped
      BY <2>3 DEF handled_map_changed, xVars
    <3>. QED
      BY <3>2, <3>3
  <2>4. CASE UNCHANGED <<mapped, m_map_flags>>
    BY <2>4
  <2>5. set_mapped \/ set_unmapped \/ handled_map_changed
          \/ UNCHANGED <<mapped, m_map_flags>>
    <3>. USE DEF flagVars, xVars
    <3>1. CASE set_map_changed \/ set_extent \/ set_extent_changed
               \/ set_must_close
      BY <3>1 DEF set_map_changed, set_extent, set_extent_changed,
         set_must_close
    <3>2. CASE Producers
      BY <3>2 DEF Producers, SynchronousTask_run, SynchronousTask_signal,
         Enqueue, set_have_synchronous_task
    <3>3. CASE Timer
      BY <3>3 DEF Timer, TimerFires, expire
    <3>4. CASE StartUp
      BY <3>4 DEF StartUp, get_extent_read, get_extent_reset, prepare_reset,
         create_images, enter
    <3>5. CASE Loop
      <4>1. CASE \/ atomic_flags("load", "loop")
                 \/ atomic_flags("reload", "loop") \/ start_timer \/ frame_done
                 \/ out_of_date \/ stop_timer \/ wait_for_possible_expire
                 \/ must_close \/ reset_have_synchronous_task
                 \/ no_synchronous_task
        BY <4>1 DEF atomic_flags, start_timer, frame_done, out_of_date,
           stop_timer, wait_for_possible_expire, must_close,
           reset_have_synchronous_task, no_synchronous_task
      <4>2. CASE \/ mainloop \/ (\E t \in Tasks : multiplex(t))
                 \/ mainloop_return \/ tasks_remain \/ no_map_change
                 \/ load_map_flags \/ reset_map_changed \/ set_minimized
                 \/ map_rearm
        BY <4>2 DEF mainloop, multiplex, mainloop_return, tasks_remain,
           no_map_change, load_map_flags, reset_map_changed, set_minimized,
           map_rearm
      <4>3. CASE \/ slow_down \/ extent_changed \/ extent_not_changed
                 \/ get_extent_read("resize", "resize_reset")
                 \/ get_extent_reset("resize_reset", "recreate")
                 \/ handle_window_size_changed \/ reread_flags
                 \/ draw_frame \/ close
        BY <4>3 DEF slow_down, extent_changed, extent_not_changed,
           get_extent_read, get_extent_reset, handle_window_size_changed,
           reread_flags, draw_frame, close
      <4>. QED
        BY <3>5, <4>1, <4>2, <4>3 DEF Loop
    <3>6. CASE Closed \/ UNCHANGED vars
      BY <3>6 DEF Closed, vars
    <3>. QED
      BY <3>1, <3>2, <3>3, <3>4, <3>5, <3>6 DEF Next, Render, XThread
  <2>. QED
    BY <2>1, <2>2, <2>3, <2>4, <2>5
<1>4. TypeOK /\ MapInv /\ MappedInv => MapChangeNotForgotten /\ MinimizedAgrees
  <2>. SUFFICES ASSUME mapped \in BOOLEAN, MapInv, MappedInv
                PROVE  MapChangeNotForgotten /\ MinimizedAgrees
    BY DEF TypeOK
  <2>1. is_mapped(m_map_flags) <=> mapped
    BY DEF MappedInv
  <2>. QED
    BY <2>1 DEF MinimizedAgrees
<1>. QED
  BY <1>1, <1>2, <1>3, <1>4, TypeCorrect, PTL DEF Spec

-----------------------------------------------------------------------------
(***************************************************************************)
(* Resizing.  The mutex makes reading m_extent and resetting               *)
(* extent_changed_bit one step for the X server thread; what was read can  *)
(* only become stale after the reset, and then the bit is set again.       *)
(***************************************************************************)
ResizeInv ==
  /\ ResizeNotForgotten
  /\ extent_lock = "x" <=> xpc = "extent_bit"
  /\ extent_lock = "render" <=>
       pc \in {"prepare_reset", "create_reset", "resize_reset"}
  /\ pc \in {"create_reset", "resize_reset"} => extent = m_extent
  /\ pc \in {"post", "recreate"} =>
       extent = m_extent \/ extent_changed_bit \in m_flags \/ xpc = "extent_bit"

\* A size of the window that the swapchain does not have is never forgotten
\* (WindowEvents::set_extent against SynchronousWindow::get_extent).
THEOREM Resizing == Spec => []ResizeNotForgotten
<1>. USE DEF ResizeInv, ResizeNotForgotten
<1>1. Init => ResizeInv
  BY DEF Init
<1>2. ResizeInv /\ [Next]_vars => ResizeInv'
  <2>. SUFFICES ASSUME ResizeInv, [Next]_vars
                PROVE  ResizeInv'
    OBVIOUS
  <2>. USE DEF localVars, flagVars, extentVars, xVars, taskVars, imageVars,
         timerVars, Goto, extent_changed_bit
  <2>1. CASE set_mapped \/ set_unmapped \/ set_map_changed \/ set_must_close
    BY <2>1 DEF set_mapped, set_unmapped, set_map_changed, set_must_close
  <2>2. CASE set_extent
    BY <2>2 DEF set_extent
  <2>3. CASE set_extent_changed
    BY <2>3 DEF set_extent_changed
  <2>4. CASE Producers
    BY <2>4 DEF Producers, SynchronousTask_run, SynchronousTask_signal,
       Enqueue, set_have_synchronous_task
  <2>5. CASE Timer
    BY <2>5 DEF Timer, TimerFires, expire
  <2>6. CASE get_extent_read("prepare", "prepare_reset")
    BY <2>6 DEF get_extent_read
  <2>7. CASE prepare_reset
    BY <2>7 DEF prepare_reset
  <2>8. CASE \/ get_extent_read("create", "create_reset")
             \/ get_extent_read("resize", "resize_reset")
    BY <2>8 DEF get_extent_read
  <2>9. CASE get_extent_reset("create_reset", "post")
    BY <2>9 DEF get_extent_reset
  <2>10. CASE get_extent_reset("resize_reset", "recreate")
    BY <2>10 DEF get_extent_reset
  <2>11. CASE create_images
    BY <2>11 DEF create_images, recreate, have_no_swapchain_bit
  <2>12. CASE handle_window_size_changed
    BY <2>12 DEF handle_window_size_changed, recreate, have_no_swapchain_bit
  <2>13. CASE \/ enter \/ atomic_flags("load", "loop")
              \/ atomic_flags("reload", "loop") \/ start_timer \/ frame_done
              \/ out_of_date \/ stop_timer \/ wait_for_possible_expire
              \/ slow_down
    BY <2>13 DEF enter, atomic_flags, start_timer, frame_done, out_of_date,
       stop_timer, wait_for_possible_expire, slow_down, wait_frame_timer,
       have_no_swapchain_bit
  <2>14. CASE \/ must_close \/ reset_have_synchronous_task
              \/ no_synchronous_task \/ mainloop
              \/ (\E t \in Tasks : multiplex(t))
              \/ mainloop_return \/ tasks_remain \/ no_map_change
    BY <2>14 DEF must_close, reset_have_synchronous_task,
       no_synchronous_task, mainloop, multiplex, mainloop_return,
       tasks_remain, no_map_change, have_synchronous_task_bit
  <2>15. CASE \/ load_map_flags \/ reset_map_changed \/ set_minimized
              \/ handled_map_changed \/ map_rearm
    BY <2>15 DEF load_map_flags, reset_map_changed, set_minimized,
       handled_map_changed, map_rearm, map_changed_bit, minimized_bit
  <2>16. CASE \/ extent_changed \/ extent_not_changed
              \/ reread_flags \/ draw_frame \/ close
    BY <2>16 DEF extent_changed, extent_not_changed, reread_flags,
       draw_frame, close
  <2>17. CASE Closed \/ UNCHANGED vars
    BY <2>17 DEF Closed, vars
  <2>. QED
    BY <2>1, <2>2, <2>3, <2>4, <2>5, <2>6, <2>7, <2>8, <2>9, <2>10, <2>11,
       <2>12, <2>13, <2>14, <2>15, <2>16, <2>17
       DEF Next, XThread, Render, StartUp, Loop
<1>. QED
  BY <1>1, <1>2, PTL DEF Spec

-----------------------------------------------------------------------------
\* "An added task will never be forgotten": TaskNotForgotten is inductive,
\* because the bit is reset before, and the queue is looked at after, the
\* engine ran (SynchronousEngine::handle_synchronous_tasks).
THEOREM SynchronousTasks == Spec => []TaskNotForgotten
<1>. USE DEF TaskNotForgotten, Queued
<1>1. Init => TaskNotForgotten
  BY DEF Init
<1>2. TypeOK /\ TaskNotForgotten /\ [Next]_vars => TaskNotForgotten'
  <2>. SUFFICES ASSUME TypeOK, TaskNotForgotten, [Next]_vars
                PROVE  TaskNotForgotten'
    OBVIOUS
  <2>. USE DEF localVars, flagVars, extentVars, xVars, taskVars, imageVars,
         timerVars, Goto, have_synchronous_task_bit
  <2>1. CASE XThread
    BY <2>1 DEF XThread, set_mapped, set_unmapped, set_map_changed,
       set_extent, set_extent_changed, set_must_close
  <2>2. ASSUME NEW t \in Tasks,
               SynchronousTask_run(t) \/ SynchronousTask_signal(t)
        PROVE  TaskNotForgotten'
    BY <2>2 DEF SynchronousTask_run, SynchronousTask_signal, Enqueue
  <2>3. ASSUME NEW t \in Tasks, NEW call \in Calls,
               set_have_synchronous_task(t, call)
        PROVE  TaskNotForgotten'
    BY <2>3 DEF set_have_synchronous_task
  <2>4. CASE Timer
    BY <2>4 DEF Timer, TimerFires, expire
  <2>5. CASE StartUp
    BY <2>5 DEF StartUp, get_extent_read, get_extent_reset, prepare_reset,
       create_images, recreate, enter, have_no_swapchain_bit,
       extent_changed_bit
  <2>6. CASE \/ atomic_flags("load", "loop") \/ atomic_flags("reload", "loop")
             \/ start_timer \/ frame_done \/ out_of_date \/ stop_timer
             \/ wait_for_possible_expire \/ slow_down
    BY <2>6 DEF atomic_flags, start_timer, frame_done, out_of_date,
       stop_timer, wait_for_possible_expire, slow_down, wait_frame_timer,
       extent_changed_bit
  <2>7. CASE reset_have_synchronous_task
    BY <2>7 DEF reset_have_synchronous_task
  <2>8. CASE mainloop
    BY <2>8 DEF mainloop
  <2>9. ASSUME NEW t \in Tasks, multiplex(t)
        PROVE  TaskNotForgotten'
    BY <2>9 DEF multiplex
  <2>10. CASE mainloop_return
    BY <2>10 DEF mainloop_return
  <2>11. CASE tasks_remain
    BY <2>11 DEF tasks_remain
  <2>12. CASE \/ must_close \/ no_synchronous_task \/ no_map_change
              \/ load_map_flags \/ reset_map_changed \/ set_minimized
              \/ handled_map_changed \/ map_rearm
    BY <2>12 DEF must_close, no_synchronous_task, no_map_change,
       load_map_flags, reset_map_changed, set_minimized, handled_map_changed,
       map_rearm, map_changed_bit, minimized_bit
  <2>13. CASE \/ extent_changed \/ extent_not_changed
              \/ get_extent_read("resize", "resize_reset")
              \/ get_extent_reset("resize_reset", "recreate")
              \/ handle_window_size_changed \/ reread_flags \/ draw_frame
              \/ close
    BY <2>13 DEF extent_changed, extent_not_changed, get_extent_read,
       get_extent_reset, handle_window_size_changed, recreate, reread_flags,
       draw_frame, close, have_no_swapchain_bit, extent_changed_bit
  <2>14. CASE Closed \/ UNCHANGED vars
    BY <2>14 DEF Closed, vars
  <2>. QED
    BY <2>1, <2>2, <2>3, <2>4, <2>5, <2>6, <2>7, <2>8, <2>9, <2>10, <2>11,
       <2>12, <2>13, <2>14 DEF Next, Producers, Render, Loop
<1>. QED
  BY <1>1, <1>2, TypeCorrect, PTL DEF Spec

-----------------------------------------------------------------------------
(***************************************************************************)
(* The frame timer.  A signal of expire() is left only between the start   *)
(* of a frame and its wait, or in the catch that nullifies it; that the    *)
(* loop only returns with the timer armed follows from the special         *)
(* circumstances that are left when no frame has to be drawn.              *)
(***************************************************************************)
TimerInv ==
  /\ timer \in {"off", "running", "expiring"}
  /\ pc = "waiting" => timer # "off" /\ ~frame_signal
  /\ pc \in {"render", "caught", "expire"} => (timer = "off" <=> frame_signal)
  /\ pc = "expire" => timer # "running"
  /\ pc \notin {"waiting", "render", "caught", "expire"} =>
       timer = "off" /\ ~frame_signal

FrameInv ==
  /\ pc \in {"caught", "expire", "reload"} => extent_changed_bit \in m_flags
  /\ special \subseteq Bits
  /\ pc \in {"special", "mainloop", "remain"} => need_draw_frame
  /\ pc = "map" /\ ~need_draw_frame =>
       /\ special # {}
       /\ special \cap {have_synchronous_task_bit, must_close_bit} = {}
  /\ pc = "render?" /\ ~need_draw_frame =>
       special \cap (CantRenderBits \cup {extent_changed_bit}) # {}
  /\ pc = "draw?" => need_draw_frame

\* The two parts of the invariant hold in every reachable state: what the
\* timer of a frame owes to the code, and why the loop has a frame to draw.
LEMMA FrameInvariants == Spec => [](TimerInv /\ FrameInv)
<1>1. Init => TimerInv /\ FrameInv
  BY DEF Init, TimerInv, FrameInv
<1>2. TimerInv /\ [Next]_vars => TimerInv'
  <2>. SUFFICES ASSUME TimerInv, [Next]_vars
                PROVE  TimerInv'
    OBVIOUS
  <2>. USE DEF TimerInv, timerVars, Goto
  <2>1. CASE XThread
    BY <2>1 DEF XThread, set_mapped, set_unmapped, set_map_changed,
       set_extent, set_extent_changed, set_must_close
  <2>2. CASE Producers
    <3>1. UNCHANGED <<pc, timer, frame_signal>>
      BY <2>2 DEF Producers, SynchronousTask_run, SynchronousTask_signal,
         Enqueue, set_have_synchronous_task
    <3>. QED
      BY <3>1
  <2>3. CASE Timer
    BY <2>3 DEF Timer, TimerFires, expire
  <2>4. CASE StartUp
    BY <2>4 DEF StartUp, get_extent_read, get_extent_reset, prepare_reset,
       create_images, enter
  <2>5. CASE start_timer
    BY <2>5 DEF start_timer
  <2>6. CASE frame_done
    BY <2>6 DEF frame_done, wait_frame_timer
  <2>7. CASE out_of_date
    BY <2>7 DEF out_of_date
  <2>8. CASE stop_timer
    BY <2>8 DEF stop_timer
  <2>9. CASE wait_for_possible_expire
    BY <2>9 DEF wait_for_possible_expire
  <2>10. CASE slow_down
    BY <2>10 DEF slow_down, wait_frame_timer
  <2>11. CASE \/ atomic_flags("load", "loop") \/ atomic_flags("reload", "loop")
              \/ must_close \/ reset_have_synchronous_task
              \/ no_synchronous_task \/ mainloop
              \/ (\E t \in Tasks : multiplex(t))
              \/ mainloop_return \/ tasks_remain
    BY <2>11 DEF atomic_flags, must_close, reset_have_synchronous_task,
       no_synchronous_task, mainloop, multiplex, mainloop_return, tasks_remain
  <2>12. CASE \/ no_map_change \/ load_map_flags \/ reset_map_changed
              \/ set_minimized \/ handled_map_changed \/ map_rearm
    BY <2>12 DEF no_map_change, load_map_flags, reset_map_changed,
       set_minimized, handled_map_changed, map_rearm
  <2>13. CASE \/ extent_changed \/ extent_not_changed
              \/ get_extent_read("resize", "resize_reset")
              \/ get_extent_reset("resize_reset", "recreate")
              \/ handle_window_size_changed \/ reread_flags \/ draw_frame
              \/ close
    BY <2>13 DEF extent_changed, extent_not_changed, get_extent_read,
       get_extent_reset, handle_window_size_changed, reread_flags, draw_frame,
       close
  <2>14. CASE Closed \/ UNCHANGED vars
    BY <2>14 DEF Closed, vars
  <2>. QED
    BY <2>1, <2>2, <2>3, <2>4, <2>5, <2>6, <2>7, <2>8, <2>9, <2>10, <2>11,
       <2>12, <2>13, <2>14 DEF Next, Render, Loop
<1>3. TypeOK /\ FrameInv /\ [Next]_vars => FrameInv'
  <2>. SUFFICES ASSUME TypeOK, FrameInv, [Next]_vars
                PROVE  FrameInv'
    OBVIOUS
  <2>. USE DEF FrameInv, localVars, flagVars, Goto
  <2>1. CASE XThread
    BY <2>1 DEF XThread, set_mapped, set_unmapped, set_map_changed,
       set_extent, set_extent_changed, set_must_close
  <2>2. CASE Producers
    <3>1. ASSUME NEW t \in Tasks,
                 SynchronousTask_run(t) \/ SynchronousTask_signal(t)
          PROVE  FrameInv'
      BY <3>1 DEF SynchronousTask_run, SynchronousTask_signal, Enqueue
    <3>2. ASSUME NEW t \in Tasks, NEW call \in Calls,
                 set_have_synchronous_task(t, call)
          PROVE  FrameInv'
      BY <3>2 DEF set_have_synchronous_task
    <3>. QED
      BY <2>2, <3>1, <3>2 DEF Producers
  <2>3. CASE Timer
    BY <2>3 DEF Timer, TimerFires, expire
  <2>4. CASE StartUp
    BY <2>4 DEF StartUp, get_extent_read, get_extent_reset, prepare_reset,
       create_images, enter
  <2>5. CASE atomic_flags("load", "loop") \/ atomic_flags("reload", "loop")
    BY <2>5 DEF atomic_flags, TypeOK
  <2>6. CASE \/ start_timer \/ frame_done \/ out_of_date \/ stop_timer
             \/ wait_for_possible_expire \/ must_close
    BY <2>6 DEF start_timer, frame_done, out_of_date, stop_timer,
       wait_for_possible_expire, wait_frame_timer, must_close
  <2>7. CASE reset_have_synchronous_task
    BY <2>7 DEF reset_have_synchronous_task
  <2>8. CASE no_synchronous_task
    BY <2>8 DEF no_synchronous_task
  <2>9. CASE \/ mainloop \/ (\E t \in Tasks : multiplex(t))
             \/ mainloop_return \/ tasks_remain
    BY <2>9 DEF mainloop, multiplex, mainloop_return, tasks_remain
  <2>10. CASE no_map_change
    BY <2>10 DEF no_map_change, Bits, CantRenderBits
  <2>11. CASE handled_map_changed
    <3>1. CASE pc' = "map_rearm"
      BY <2>11, <3>1 DEF handled_map_changed
    <3>2. CASE pc' = "render?" /\ is_mapped(map_flags)
      <4>1. special' \subseteq special /\ need_draw_frame'
        BY <2>11, <3>2 DEF handled_map_changed
      <4>. QED
        BY <2>11, <3>2, <4>1 DEF handled_map_changed
    <3>3. CASE pc' = "render?" /\ ~is_mapped(map_flags)
      <4>1. minimized_bit \in special' /\ special' \subseteq Bits
        BY <2>11, <3>3, BitsFacts DEF handled_map_changed
      <4>. QED
        BY <2>11, <3>3, <4>1 DEF handled_map_changed, CantRenderBits
    <3>. QED
      BY <2>11, <3>1, <3>2, <3>3 DEF handled_map_changed
  <2>12. CASE load_map_flags \/ reset_map_changed \/ set_minimized \/ map_rearm
    BY <2>12 DEF load_map_flags, reset_map_changed, set_minimized, map_rearm
  <2>13. CASE slow_down
    BY <2>13 DEF slow_down, wait_frame_timer
  <2>14. CASE \/ extent_changed \/ handle_window_size_changed \/ draw_frame
              \/ get_extent_read("resize", "resize_reset")
              \/ get_extent_reset("resize_reset", "recreate") \/ close
    BY <2>14 DEF extent_changed, get_extent_read, get_extent_reset,
       handle_window_size_changed, draw_frame, close
  <2>15. CASE extent_not_changed
    BY <2>15 DEF extent_not_changed, can_render
  <2>16. CASE reread_flags
    BY <2>16 DEF reread_flags, TypeOK
  <2>17. CASE Closed \/ UNCHANGED vars
    BY <2>17 DEF Closed, vars
  <2>. QED
    BY <2>1, <2>2, <2>3, <2>4, <2>5, <2>6, <2>7, <2>8, <2>9, <2>10, <2>11,
       <2>12, <2>13, <2>14, <2>15, <2>16, <2>17 DEF Next, Render, Loop
<1>. QED
  BY <1>1, <1>2, <1>3, TypeCorrect, PTL DEF Spec

\* The timer is started only when it is off and without a stale signal, and
\* the loop waits only for a timer that will fire.
THEOREM FrameTimer == Spec => []TimerDiscipline
<1>1. TimerInv => TimerDiscipline
  BY DEF TimerInv, TimerDiscipline
<1>. QED
  BY <1>1, FrameInvariants, PTL

\* The assertions of the loop: a flag is set after an OutOfDateKHR_Exception,
\* the signal that the catch nullifies is there, and a frame is drawn only
\* when the loop has one to draw.
THEOREM Assertions == Spec => []LoopAssertions
<1>1. TimerInv /\ FrameInv => LoopAssertions
  BY DEF TimerInv, FrameInv, LoopAssertions
<1>. QED
  BY <1>1, FrameInvariants, PTL

-----------------------------------------------------------------------------
(***************************************************************************)
(* The local copy special_circumstances.  It may miss bits that other      *)
(* threads set, but on the two bits of can_render it equals m_flags from   *)
(* the moment it is loaded, and again after handle_map_changed succeeded.  *)
(***************************************************************************)
Fitting == framebuffer = swapchain /\ attachments = swapchain

StartStates == {"prepare", "prepare_reset", "create", "create_reset", "post"}

CopyInv ==
  /\ pc \in {"loop", "special", "mainloop", "remain", "map", "render?", "draw?"}
       => \A b \in CantRenderBits : b \in special <=> b \in m_flags
  /\ pc \in {"map_reset", "map_min", "map_handle"} =>
       (have_no_swapchain_bit \in special <=> have_no_swapchain_bit \in m_flags)
  /\ pc = "map_handle" =>
       (minimized_bit \in m_flags <=> ~is_mapped(map_flags))
  /\ pc \in {"render", "resize", "resize_reset", "recreate"} =>
       \A b \in CantRenderBits : b \notin m_flags
  /\ pc \in {"create_reset", "post", "resize_reset", "recreate"} =>
       extent \in Extents
  /\ pc = "enter" => Fitting
  /\ pc \notin StartStates \cup {"enter"} =>
       (have_no_swapchain_bit \notin m_flags => Fitting)

\* The swapchain was created, and is never lost again.
CreatedInv == pc \notin StartStates => swapchain # NoSwapchain

\* render_frame() is only called when the window can be rendered, with framebuffers and
\* attachments of the size of the swapchain, whatever sizes the X server reports; and with
\* a swapchain, unless the window had no area when the swapchain was to be created
\* (SynchronousWindow.cxx:323): that is the only way in which RenderSafe can fail.
THEOREM Rendering == Spec => []FramesFit /\ ([]RenderSafe \/ <>StartsEmpty)
<1>. USE DEF CopyInv, CantRenderBits
<1>1. Init => CopyInv
  BY DEF Init, StartStates
<1>2. TypeOK /\ CopyInv /\ [Next]_vars => CopyInv'
  <2>. SUFFICES ASSUME TypeOK, CopyInv, [Next]_vars
                PROVE  CopyInv'
    OBVIOUS
  <2>. USE DEF localVars, flagVars, extentVars, xVars, imageVars, Fitting, StartStates, Goto,
         minimized_bit, have_no_swapchain_bit
  <2>1. CASE XThread
    BY <2>1 DEF XThread, set_mapped, set_unmapped, set_map_changed,
       set_extent, set_extent_changed, set_must_close, map_changed_bit,
       extent_changed_bit, must_close_bit
  <2>2. CASE Producers
    <3>1. ASSUME NEW t \in Tasks,
                 SynchronousTask_run(t) \/ SynchronousTask_signal(t)
          PROVE  CopyInv'
      BY <3>1 DEF SynchronousTask_run, SynchronousTask_signal, Enqueue
    <3>2. ASSUME NEW t \in Tasks, NEW call \in Calls,
                 set_have_synchronous_task(t, call)
          PROVE  CopyInv'
      BY <3>2 DEF set_have_synchronous_task, have_synchronous_task_bit
    <3>. QED
      BY <2>2, <3>1, <3>2 DEF Producers
  <2>3. CASE Timer
    BY <2>3 DEF Timer, TimerFires, expire
  <2>4. CASE get_extent_read("prepare", "prepare_reset") \/ prepare_reset
    BY <2>4 DEF get_extent_read, prepare_reset
  <2>5. CASE \/ get_extent_read("create", "create_reset")
             \/ get_extent_read("resize", "resize_reset")
    BY <2>5 DEF get_extent_read, TypeOK
  <2>6. CASE \/ get_extent_reset("create_reset", "post")
             \/ get_extent_reset("resize_reset", "recreate")
    BY <2>6 DEF get_extent_reset
  <2>7. CASE create_images
    BY <2>7, ExtentsAssumption DEF create_images, recreate, NoSwapchain
  <2>8. CASE handle_window_size_changed
    BY <2>8, ExtentsAssumption
       DEF handle_window_size_changed, recreate, can_render, NoSwapchain
  <2>9. CASE enter \/ atomic_flags("load", "loop") \/ atomic_flags("reload", "loop")
    BY <2>9 DEF enter, atomic_flags
  <2>10. CASE start_timer
    BY <2>10 DEF start_timer
  <2>11. CASE \/ frame_done \/ out_of_date \/ stop_timer
              \/ wait_for_possible_expire \/ must_close \/ slow_down
    BY <2>11 DEF frame_done, out_of_date, stop_timer,
       wait_for_possible_expire, wait_frame_timer, must_close, slow_down
  <2>12. CASE reset_have_synchronous_task \/ no_synchronous_task
    BY <2>12 DEF reset_have_synchronous_task, no_synchronous_task,
       have_synchronous_task_bit
  <2>13. CASE \/ mainloop \/ (\E t \in Tasks : multiplex(t))
              \/ mainloop_return
    BY <2>13 DEF mainloop, multiplex, mainloop_return
  <2>14. CASE tasks_remain
    BY <2>14 DEF tasks_remain, have_synchronous_task_bit
  <2>15. CASE no_map_change \/ load_map_flags
    BY <2>15 DEF no_map_change, load_map_flags
  <2>16. CASE reset_map_changed
    BY <2>16 DEF reset_map_changed, map_changed_bit
  <2>17. CASE set_minimized
    BY <2>17 DEF set_minimized
  <2>18. CASE handled_map_changed
    BY <2>18 DEF handled_map_changed, map_changed_bit
  <2>19. CASE map_rearm
    BY <2>19 DEF map_rearm
  <2>20. CASE extent_changed
    BY <2>20 DEF extent_changed, can_render
  <2>21. CASE extent_not_changed \/ draw_frame \/ close
    BY <2>21 DEF extent_not_changed, draw_frame, close
  <2>22. CASE reread_flags
    BY <2>22 DEF reread_flags, extent_changed_bit, have_synchronous_task_bit
  <2>23. CASE Closed \/ UNCHANGED vars
    BY <2>23 DEF Closed, vars
  <2>. QED
    BY <2>1, <2>2, <2>3, <2>4, <2>5, <2>6, <2>7, <2>8, <2>9, <2>10, <2>11,
       <2>12, <2>13, <2>14, <2>15, <2>16, <2>17, <2>18, <2>19, <2>20, <2>21,
       <2>22, <2>23 DEF Next, Render, StartUp, Loop
<1>3. CopyInv => FramesFit
  BY DEF FramesFit, StartStates, Fitting, can_render
<1>4. Init => CreatedInv
  BY DEF Init, CreatedInv, StartStates
<1>5. TypeOK /\ CopyInv /\ CreatedInv /\ ~StartsEmpty /\ [Next]_vars => CreatedInv'
  <2>. SUFFICES ASSUME TypeOK, CopyInv, CreatedInv, ~StartsEmpty, [Next]_vars
                PROVE  CreatedInv'
    OBVIOUS
  <2>. USE DEF CreatedInv, StartStates
  <2>1. CASE create_images
    <3>1. pc = "post" /\ extent \in Nat /\ extent # 0 /\ swapchain' = extent
      BY <2>1, ExtentsAssumption DEF create_images, recreate, Goto, StartsEmpty
    <3>. QED
      BY <3>1 DEF NoSwapchain
  <2>2. CASE handle_window_size_changed
    <3>1. pc = "recreate" /\ extent \in Nat /\ (swapchain' = extent \/ swapchain' = swapchain)
      BY <2>2, ExtentsAssumption DEF handle_window_size_changed, recreate, Goto
    <3>. QED
      BY <3>1 DEF NoSwapchain
  <2>3. CASE XThread \/ Producers \/ Timer
    <3>1. imageVars' = imageVars
      BY <2>3 DEF XThread, Producers, Timer, set_mapped, set_unmapped, set_map_changed, set_extent,
         set_extent_changed, set_must_close, SynchronousTask_run, SynchronousTask_signal, Enqueue,
         set_have_synchronous_task, TimerFires, expire
    <3>2. pc' = pc \/ pc = "waiting"
      BY <2>3 DEF XThread, Producers, Timer, set_mapped, set_unmapped, set_map_changed, set_extent,
         set_extent_changed, set_must_close, SynchronousTask_run, SynchronousTask_signal, Enqueue,
         set_have_synchronous_task, TimerFires, expire
    <3>. QED
      BY <3>1, <3>2 DEF imageVars
  <2>4. CASE \/ get_extent_read("prepare", "prepare_reset") \/ prepare_reset
             \/ get_extent_read("create", "create_reset")
             \/ get_extent_reset("create_reset", "post")
    BY <2>4 DEF get_extent_read, get_extent_reset, prepare_reset, imageVars, Goto
  <2>5. CASE enter
    BY <2>5 DEF enter, imageVars, Goto
  <2>6. CASE Loop /\ ~handle_window_size_changed
    <3>1. pc \notin StartStates
      BY <2>6 DEF Loop, Goto, atomic_flags, start_timer, frame_done, out_of_date, stop_timer,
         wait_for_possible_expire, must_close, reset_have_synchronous_task, no_synchronous_task,
         mainloop, multiplex, mainloop_return, tasks_remain, no_map_change, load_map_flags,
         reset_map_changed, set_minimized, handled_map_changed, map_rearm, slow_down,
         extent_changed, extent_not_changed, get_extent_read, get_extent_reset, reread_flags,
         draw_frame, close
    <3>2. imageVars' = imageVars
      BY <2>6 DEF Loop, atomic_flags, start_timer, frame_done, out_of_date, stop_timer,
         wait_for_possible_expire, must_close, reset_have_synchronous_task, no_synchronous_task,
         mainloop, multiplex, mainloop_return, tasks_remain, no_map_change, load_map_flags,
         reset_map_changed, set_minimized, handled_map_changed, map_rearm, slow_down,
         extent_changed, extent_not_changed, get_extent_read, get_extent_reset, reread_flags,
         draw_frame, close
    <3>. QED
      BY <3>1, <3>2 DEF imageVars
  <2>7. CASE Closed \/ UNCHANGED vars
    BY <2>7 DEF Closed, vars, imageVars
  <2>. QED
    BY <2>1, <2>2, <2>3, <2>4, <2>5, <2>6, <2>7 DEF Next, Render, StartUp
<1>6. CopyInv /\ CreatedInv => RenderSafe
  BY <1>3 DEF RenderSafe, FramesFit, CreatedInv, StartStates
<1>. QED
  <2> HIDE DEF CopyInv, CantRenderBits
  <2>1. Spec => [](TypeOK /\ CopyInv)
    BY <1>1, <1>2, TypeCorrect, PTL DEF Spec
  <2>2. Spec => ([]CreatedInv \/ <>StartsEmpty)
    BY <1>4, <1>5, <2>1, PTL DEF Spec
  <2> QED
    BY <1>3, <1>6, <2>1, <2>2, PTL

-----------------------------------------------------------------------------
(* The render graph. *)

(* Numbers. *)

LEMMA SmallestPass ==
  ASSUME NEW W \in SUBSET Nat, W # {}
  PROVE  \E x \in W : \A y \in W : x <= y
<1> DEFINE Less == OpToRel(<, Nat)
<1>1. IsWellFoundedOn(Less, Nat)
  BY NatLessThanWellFounded DEF OpToRel
<1>2. \A x, y \in Nat : x < y => <<x, y>> \in Less
  BY DEF OpToRel
<1> HIDE DEF Less
<1>3. PICK x \in W : \A y \in W : ~(<<y, x>> \in Less)
  BY <1>1, WFMin
<1>4. \A y \in W : ~(y < x) /\ x \in Nat /\ y \in Nat
  BY <1>2, <1>3
<1>5. \A y \in W : x <= y
  BY <1>4
<1> QED
  BY <1>5

LEMMA MinOf ==
  ASSUME NEW W \in SUBSET Nat, W # {}
  PROVE  Min(W) \in W /\ \A y \in W : Min(W) <= y
<1>1. \E x \in W : \A y \in W : x <= y
  BY SmallestPass
<1> QED
  BY <1>1 DEF Min

LEMMA LargestPass ==
  ASSUME NEW W \in SUBSET Passes, W # {}
  PROVE  \E x \in W : \A y \in W : y <= x
<1> USE RenderGraphAssumption DEF Passes
<1> DEFINE V == {NumberOfPasses - x : x \in W}
<1>1. \A y \in W : y \in Nat /\ NumberOfPasses - y \in Nat /\ NumberOfPasses - y \in V
  OBVIOUS
<1>2. V \in SUBSET Nat /\ V # {}
  BY <1>1
<1>3. PICK v \in V : \A y \in V : v <= y
  BY <1>2, SmallestPass
<1>4. PICK x \in W : v = NumberOfPasses - x
  BY <1>3
<1> HIDE DEF V
<1>5. \A y \in W : y <= x
  BY <1>1, <1>3, <1>4
<1> QED
  BY <1>5

--------------------------------------------------------------------------------

(* The search of SearchStores, step by step. *)

Start(p) == [path |-> {}, visited |-> {p}, stores |-> {}, preserve |-> {}, twice |-> FALSE, hidden |-> FALSE]

LEMMA SearchRun ==
  ASSUME NEW p, NEW a
  PROVE  \E f : /\ \A n \in Nat : f[n] = IF n = 0 THEN Start(p) ELSE SearchStep(p, a, f[n - 1])
                /\ SearchStores(p, a) = f[2 * NumberOfPasses]
<1> DEFINE Body(f, n) == IF n = 0 THEN Start(p) ELSE SearchStep(p, a, f[n - 1])
           Run(h, n) == \A i \in 0 .. n : h[i] = Body(h, i)
<1>1. \A n \in Nat : \E h : Run(h, n)
  <2> DEFINE W == {n \in Nat : ~\E h : Run(h, n)}
  <2> SUFFICES ASSUME W # {} PROVE FALSE
    OBVIOUS
  <2>0. W \in SUBSET Nat
    OBVIOUS
  <2>1. PICK n \in W : \A m \in W : n <= m
    <3> HIDE DEF W
    <3> QED
      BY <2>0, SmallestPass
  <2>2. n # 0
    <3>1. Run([i \in {0} |-> Start(p)], 0)
      OBVIOUS
    <3> QED
      BY <3>1
  <2>3. n - 1 \in Nat /\ n - 1 \notin W
    <3> HIDE DEF W
    <3> QED
      BY <2>0, <2>1, <2>2
  <2>4. PICK h : Run(h, n - 1)
    BY <2>3
  <2> DEFINE g == [i \in 0 .. n |-> IF i = n THEN SearchStep(p, a, h[n - 1]) ELSE h[i]]
  <2>5. \A i \in 0 .. n : i # n => g[i] = h[i]
    OBVIOUS
  <2>6. g[n] = SearchStep(p, a, h[n - 1])
    BY <2>1
  <2> HIDE DEF g
  <2>7. ASSUME NEW i \in 0 .. n PROVE g[i] = Body(g, i)
    <3>1. CASE i = n
      <4>1. g[n - 1] = h[n - 1]
        BY <2>3, <2>5
      <4> QED
        BY <2>2, <2>6, <3>1, <4>1
    <3>2. CASE i # n
      <4>1. i \in 0 .. n - 1 /\ (i # 0 => i - 1 \in 0 .. n /\ i - 1 # n)
        BY <3>2
      <4>2. h[i] = Body(h, i) /\ g[i] = h[i]
        BY <2>4, <2>5, <3>2, <4>1
      <4>3. i # 0 => g[i - 1] = h[i - 1]
        BY <2>5, <4>1
      <4> QED
        BY <4>2, <4>3
    <3> QED
      BY <3>1, <3>2
  <2> QED
    BY <2>1, <2>7
<1>2. \A n, m \in Nat : \A h, g : n <= m /\ Run(h, n) /\ Run(g, m) => h[n] = g[n]
  <2> HIDE DEF Run
  <2> SUFFICES ASSUME NEW n \in Nat, NEW m \in Nat, NEW h, NEW g, n <= m, Run(h, n), Run(g, m)
               PROVE  h[n] = g[n]
    OBVIOUS
  <2> USE DEF Run
  <2> DEFINE W == {i \in 0 .. n : h[i] # g[i]}
  <2> SUFFICES ASSUME W # {} PROVE FALSE
    OBVIOUS
  <2>0. W \in SUBSET Nat
    OBVIOUS
  <2>1. PICK i \in W : \A j \in W : i <= j
    <3> HIDE DEF W
    <3> QED
      BY <2>0, SmallestPass
  <2>2. h[i] = Body(h, i) /\ g[i] = Body(g, i)
    BY <2>1
  <2>3. i # 0 => h[i - 1] = g[i - 1]
    BY <2>1
  <2> QED
    BY <2>1, <2>2, <2>3
<1> DEFINE f == [n \in Nat |-> (CHOOSE h : Run(h, n))[n]]
<1>3. \A n \in Nat : \E h : Run(h, n) /\ f[n] = h[n]
  BY <1>1
<1>4. \A n \in Nat : f[n] = Body(f, n)
  <2> SUFFICES ASSUME NEW n \in Nat PROVE f[n] = Body(f, n)
    OBVIOUS
  <2> HIDE DEF f
  <2>1. PICK h : Run(h, n) /\ f[n] = h[n]
    BY <1>3
  <2>2. CASE n = 0
    BY <2>1, <2>2
  <2>3. CASE n # 0
    <3>1. n - 1 \in Nat
      BY <2>3
    <3>2. PICK g : Run(g, n - 1) /\ f[n - 1] = g[n - 1]
      BY <1>3, <3>1
    <3>3. g[n - 1] = h[n - 1]
      <4> HIDE DEF Run
      <4> QED
        BY <1>2, <2>1, <3>1, <3>2
    <3> QED
      BY <2>1, <2>3, <3>2, <3>3
  <2> QED
    BY <2>2, <2>3
<1>5. f = [n \in Nat |-> IF n = 0 THEN Start(p) ELSE SearchStep(p, a, f[n - 1])]
  <2>1. f = [n \in Nat |-> f[n]]
    OBVIOUS
  <2> HIDE DEF f
  <2> QED
    BY <1>4, <2>1
<1> DEFINE c == CHOOSE e : e = [n \in Nat |-> IF n = 0 THEN Start(p) ELSE SearchStep(p, a, e[n - 1])]
<1>6. c = [n \in Nat |-> IF n = 0 THEN Start(p) ELSE SearchStep(p, a, c[n - 1])]
  <2> HIDE DEF f
  <2> QED
    BY <1>5
<1>7. SearchStores(p, a) = c[2 * NumberOfPasses]
  BY DEF SearchStores, Start
<1> HIDE DEF c
<1>8. \A n \in Nat : c[n] = IF n = 0 THEN Start(p) ELSE SearchStep(p, a, c[n - 1])
  BY <1>6
<1> QED
  BY <1>7, <1>8

--------------------------------------------------------------------------------

(* Paths. *)

(* The vertices are known at both ends, and a pass is only followed by higher ones. *)
Ordered ==
  /\ m_incoming_vertices \in [Passes -> SUBSET Passes]
  /\ m_outgoing_vertices \in [Passes -> SUBSET Passes]
  /\ \A p, q \in Passes : q \in m_outgoing_vertices[p] <=> p \in m_incoming_vertices[q]
  /\ \A p, q \in Passes : q \in m_outgoing_vertices[p] => p < q

LEMMA VertexOf ==
  ASSUME Ordered, NEW p \in Passes, NEW q \in Passes
  PROVE  /\ <<p, q>> \in Vertices <=> q \in m_outgoing_vertices[p]
         /\ <<p, q>> \in Vertices <=> p \in m_incoming_vertices[q]
         /\ <<p, q>> \in Vertices => p < q
BY DEF Ordered, Vertices

LEMMA PassesAreNumbers == Passes \in SUBSET Nat
BY RenderGraphAssumption DEF Passes

LEMMA InPaths ==
  ASSUME NEW p, NEW q, NEW S
  PROVE  S \in Paths(p, q) <=> /\ S \in SUBSET Passes /\ \A r \in S : p < r /\ r < q
                               /\ p < q /\ Linked(S \cup {p, q})
BY DEF Paths

(* A path can be extended at either end. *)
LEMMA Prepend ==
  ASSUME Ordered, NEW w \in Passes, NEW p \in Passes, NEW q \in Passes, NEW S \in Paths(p, q),
         <<w, p>> \in Vertices
  PROVE  S \cup {p} \in Paths(w, q)
<1>1. w < p /\ p < q /\ S \in SUBSET Passes /\ (\A r \in S : p < r /\ r < q) /\ Linked(S \cup {p, q})
  BY VertexOf, InPaths
<1>2. \A r \in S \cup {w, p, q} : r \in Nat
  BY <1>1, PassesAreNumbers
<1>3. ASSUME NEW x \in S \cup {w, p, q}, NEW y \in S \cup {w, p, q}, x < y,
             \A r \in S \cup {w, p, q} : ~(x < r /\ r < y)
      PROVE  <<x, y>> \in Vertices
  <2>1. CASE x = w
    <3>1. y = p
      BY <1>1, <1>2, <1>3, <2>1
    <3> QED
      BY <2>1, <3>1
  <2>2. CASE x # w
    <3>1. y # w
      BY <1>1, <1>2, <1>3, <2>2
    <3> QED
      BY <1>1, <1>3, <2>2, <3>1 DEF Linked
  <2> QED
    BY <2>1, <2>2
<1>4. Linked(S \cup {w, p, q})
  BY <1>3 DEF Linked
<1>5. (S \cup {p}) \cup {w, q} = S \cup {w, p, q}
  OBVIOUS
<1>6. w < q /\ \A r \in S \cup {p} : w < r /\ r < q
  BY <1>1, <1>2
<1> QED
  BY <1>1, <1>4, <1>5, <1>6, InPaths

LEMMA Append1 ==
  ASSUME Ordered, NEW w \in Passes, NEW p \in Passes, NEW q \in Passes, NEW S \in Paths(p, q),
         <<q, w>> \in Vertices
  PROVE  S \cup {q} \in Paths(p, w)
<1>1. q < w /\ p < q /\ S \in SUBSET Passes /\ (\A r \in S : p < r /\ r < q) /\ Linked(S \cup {p, q})
  BY VertexOf, InPaths
<1>2. \A r \in S \cup {p, q, w} : r \in Nat
  BY <1>1, PassesAreNumbers
<1>3. ASSUME NEW x \in S \cup {p, q, w}, NEW y \in S \cup {p, q, w}, x < y,
             \A r \in S \cup {p, q, w} : ~(x < r /\ r < y)
      PROVE  <<x, y>> \in Vertices
  <2>1. CASE y = w
    <3>1. x = q
      BY <1>1, <1>2, <1>3, <2>1
    <3> QED
      BY <2>1, <3>1
  <2>2. CASE y # w
    <3>1. x # w
      BY <1>1, <1>2, <1>3, <2>2
    <3> QED
      BY <1>1, <1>3, <2>2, <3>1 DEF Linked
  <2> QED
    BY <2>1, <2>2
<1>4. Linked(S \cup {p, q, w})
  BY <1>3 DEF Linked
<1>5. (S \cup {q}) \cup {p, w} = S \cup {p, q, w}
  OBVIOUS
<1>6. p < w /\ \A r \in S \cup {q} : p < r /\ r < w
  BY <1>1, <1>2
<1> QED
  BY <1>1, <1>4, <1>5, <1>6, InPaths

LEMMA OneVertex ==
  ASSUME Ordered, NEW p \in Passes, NEW q \in Passes, <<p, q>> \in Vertices
  PROVE  {} \in Paths(p, q)
<1>1. p < q /\ p \in Nat /\ q \in Nat
  BY VertexOf, PassesAreNumbers
<1>2. Linked({} \cup {p, q})
  BY <1>1 DEF Linked
<1> QED
  BY <1>1, <1>2, InPaths

(* On a path, what is there is reached from what follows or precedes it. *)
LEMMA BackAlong ==
  ASSUME Ordered, NEW p \in Passes, NEW q \in Passes, NEW S \in Paths(p, q), NEW T,
         \A r \in (S \cap T) \cup {q} : m_incoming_vertices[r] \subseteq T
  PROVE  S \cup {p} \subseteq T
<1> DEFINE W == (S \cup {p}) \ T
<1> SUFFICES ASSUME W # {} PROVE FALSE
  OBVIOUS
<1>1. p < q /\ S \in SUBSET Passes /\ (\A r \in S : p < r /\ r < q) /\ Linked(S \cup {p, q})
  BY InPaths
<1>2. W \in SUBSET Passes
  BY <1>1
<1>3. PICK x \in W : \A y \in W : y <= x
  <2> HIDE DEF W
  <2> QED
    BY <1>2, LargestPass
<1> DEFINE V == {z \in S \cup {q} : x < z}
<1>4. \A r \in S \cup {p, q} : r \in Nat
  BY <1>1, PassesAreNumbers
<1>5. V \in SUBSET Nat /\ V # {}
  <2>1. x < q
    BY <1>1
  <2> QED
    BY <1>4, <2>1
<1>6. PICK y \in V : \A z \in V : y <= z
  <2> HIDE DEF V
  <2> QED
    BY <1>5, SmallestPass
<1>7. y \in (S \cap T) \cup {q} /\ x < y
  <2>1. y \notin W
    BY <1>3, <1>4, <1>6
  <2> QED
    BY <1>6, <2>1
<1>8. \A r \in S \cup {p, q} : ~(x < r /\ r < y)
  <2> SUFFICES ASSUME NEW r \in S \cup {p, q}, x < r, r < y PROVE FALSE
    OBVIOUS
  <2>1. r # p
    BY <1>1, <1>4
  <2>2. r \in V
    BY <2>1
  <2> QED
    BY <1>4, <1>6, <2>2
<1>9. <<x, y>> \in Vertices
  BY <1>1, <1>7, <1>8 DEF Linked
<1>10. x \in m_incoming_vertices[y]
  BY <1>1, <1>2, <1>7, <1>9, VertexOf
<1> QED
  BY <1>7, <1>10

LEMMA ForthAlong ==
  ASSUME Ordered, NEW p \in Passes, NEW q \in Passes, NEW S \in Paths(p, q), NEW T,
         \A r \in (S \cap T) \cup {p} : m_outgoing_vertices[r] \subseteq T
  PROVE  S \cup {q} \subseteq T
<1> DEFINE W == (S \cup {q}) \ T
<1> SUFFICES ASSUME W # {} PROVE FALSE
  OBVIOUS
<1>1. p < q /\ S \in SUBSET Passes /\ (\A r \in S : p < r /\ r < q) /\ Linked(S \cup {p, q})
  BY InPaths
<1>2. \A r \in S \cup {p, q} : r \in Nat
  BY <1>1, PassesAreNumbers
<1>3. PICK x \in W : \A y \in W : x <= y
  <2>1. W \in SUBSET Nat
    BY <1>2
  <2> HIDE DEF W
  <2> QED
    BY <2>1, SmallestPass
<1> DEFINE V == {z \in S \cup {p} : z < x}
<1>4. V \in SUBSET Passes /\ V # {}
  <2>1. p < x
    BY <1>1
  <2> QED
    BY <1>1, <2>1
<1>5. PICK y \in V : \A z \in V : z <= y
  <2> HIDE DEF V
  <2> QED
    BY <1>4, LargestPass
<1>6. y \in (S \cap T) \cup {p} /\ y < x
  <2>1. y \notin W
    BY <1>2, <1>3, <1>5
  <2> QED
    BY <1>5, <2>1
<1>7. \A r \in S \cup {p, q} : ~(y < r /\ r < x)
  <2> SUFFICES ASSUME NEW r \in S \cup {p, q}, y < r, r < x PROVE FALSE
    OBVIOUS
  <2>1. r # q
    BY <1>1, <1>2
  <2>2. r \in V
    BY <2>1
  <2> QED
    BY <1>2, <1>5, <2>2
<1>8. <<y, x>> \in Vertices
  BY <1>1, <1>6, <1>7 DEF Linked
<1>9. x \in m_outgoing_vertices[y]
  BY <1>1, <1>6, <1>8, VertexOf
<1> QED
  BY <1>6, <1>9

(* What a traversal that does not stop finds is what there is a path to. *)
LEMMA ReachedForwards ==
  ASSUME Ordered, NEW p \in Passes
  PROVE  Reachable(m_outgoing_vertices, m_outgoing_vertices[p]) = {q \in Passes : Paths(p, q) # {}}
<1> DEFINE T == {q \in Passes : Paths(p, q) # {}}
<1>1. T \in SUBSET Passes /\ m_outgoing_vertices[p] \subseteq T
  BY OneVertex, VertexOf DEF Ordered
<1>2. ASSUME NEW q \in T, NEW w \in m_outgoing_vertices[q] PROVE w \in T
  <2>1. w \in Passes /\ <<q, w>> \in Vertices
    BY VertexOf DEF Ordered
  <2>2. PICK S \in Paths(p, q) : TRUE
    OBVIOUS
  <2>3. S \cup {q} \in Paths(p, w)
    BY <2>1, <2>2, Append1
  <2> QED
    BY <2>1, <2>3
<1>3. Reachable(m_outgoing_vertices, m_outgoing_vertices[p]) \subseteq T
  <2> HIDE DEF T
  <2> QED
    BY <1>1, <1>2 DEF Reachable
<1>4. ASSUME NEW q \in T, NEW V \in SUBSET Passes, m_outgoing_vertices[p] \subseteq V,
             \A r \in V : m_outgoing_vertices[r] \subseteq V
      PROVE  q \in V
  <2>1. PICK S \in Paths(p, q) : TRUE
    OBVIOUS
  <2> QED
    BY <1>4, <2>1, ForthAlong
<1> QED
  BY <1>3, <1>4 DEF Reachable

LEMMA ReachedBackwards ==
  ASSUME Ordered, NEW q \in Passes
  PROVE  Reachable(m_incoming_vertices, m_incoming_vertices[q]) = {p \in Passes : Paths(p, q) # {}}
<1> DEFINE T == {p \in Passes : Paths(p, q) # {}}
<1>1. T \in SUBSET Passes /\ m_incoming_vertices[q] \subseteq T
  BY OneVertex, VertexOf DEF Ordered
<1>2. ASSUME NEW p \in T, NEW w \in m_incoming_vertices[p] PROVE w \in T
  <2>1. w \in Passes /\ <<w, p>> \in Vertices
    BY VertexOf DEF Ordered
  <2>2. PICK S \in Paths(p, q) : TRUE
    OBVIOUS
  <2>3. S \cup {p} \in Paths(w, q)
    BY <2>1, <2>2, Prepend
  <2> QED
    BY <2>1, <2>3
<1>3. Reachable(m_incoming_vertices, m_incoming_vertices[q]) \subseteq T
  <2> HIDE DEF T
  <2> QED
    BY <1>1, <1>2 DEF Reachable
<1>4. ASSUME NEW p \in T, NEW V \in SUBSET Passes, m_incoming_vertices[q] \subseteq V,
             \A r \in V : m_incoming_vertices[r] \subseteq V
      PROVE  p \in V
  <2>1. PICK S \in Paths(p, q) : TRUE
    OBVIOUS
  <2> QED
    BY <1>4, <2>1, BackAlong
<1> QED
  BY <1>3, <1>4 DEF Reachable

--------------------------------------------------------------------------------

(* What is known at every step of the search: it was everywhere it could go from what it
   left behind, and its path is a path to p. *)
SearchTypes(p, found) ==
  /\ found = [path |-> found.path, visited |-> found.visited, stores |-> found.stores,
              preserve |-> found.preserve, twice |-> found.twice, hidden |-> found.hidden]
  /\ found.visited \in SUBSET Passes /\ p \in found.visited
  /\ found.path \subseteq found.visited \ {p} /\ found.hidden \in BOOLEAN

SearchInv(p, a, found) ==
  /\ SearchTypes(p, found)
  /\ Linked(found.path \cup {p})
  /\ \A r \in found.path : r < p /\ ~Has(r, a, "store") /\ ~Has(r, a, "clear")
  /\ \A r \in found.visited \ (found.path \cup {p}) :
       Has(r, a, "store") \/ Has(r, a, "clear") \/ m_incoming_vertices[r] \subseteq found.visited
  /\ found.stores = {r \in found.visited \ {p} : Has(r, a, "store")}
  /\ found.hidden <=> \E r \in found.visited \ {p} : Has(r, a, "clear") /\ ~Has(r, a, "store")
  /\ \A s \in found.stores : \E S \in Paths(s, p) :
       (\A r \in S : ~Has(r, a, "store")) /\ {r \in S : is_known(r, a)} \subseteq found.preserve

LEMMA SearchStart ==
  ASSUME NEW p \in Passes, NEW a
  PROVE  SearchInv(p, a, Start(p))
<1>1. p \in Nat
  BY PassesAreNumbers
<1>2. Linked({} \cup {p})
  BY <1>1 DEF Linked
<1> QED
  BY <1>2 DEF Start, SearchInv, SearchTypes

(* A step of the search, by its cases. *)
At(p, found) == IF found.path = {} THEN p ELSE Min(found.path)

Stepped(p, a, found, q) ==
  /\ q \in m_incoming_vertices[At(p, found)] \ found.visited
  /\ SearchStep(p, a, found) =
       IF Has(q, a, "store")
       THEN [path |-> found.path, visited |-> found.visited \cup {q}, stores |-> found.stores \cup {q},
             preserve |-> found.preserve \cup {r \in found.path : is_known(r, a)},
             twice |-> found.twice \/ found.preserve \cap {r \in found.path : is_known(r, a)} # {},
             hidden |-> found.hidden]
       ELSE IF Has(q, a, "clear")
       THEN [path |-> found.path, visited |-> found.visited \cup {q}, stores |-> found.stores,
             preserve |-> found.preserve, twice |-> found.twice, hidden |-> TRUE]
       ELSE [path |-> found.path \cup {q}, visited |-> found.visited \cup {q}, stores |-> found.stores,
             preserve |-> found.preserve, twice |-> found.twice, hidden |-> found.hidden]

Returned(p, a, found) ==
  /\ m_incoming_vertices[At(p, found)] \subseteq found.visited
  /\ SearchStep(p, a, found) =
       [path |-> found.path \ {At(p, found)}, visited |-> found.visited, stores |-> found.stores,
        preserve |-> found.preserve, twice |-> found.twice, hidden |-> found.hidden]

LEMMA AtLowest ==
  ASSUME NEW p \in Passes, NEW found, SearchTypes(p, found), \A r \in found.path : r < p
  PROVE  /\ At(p, found) \in found.path \cup {p}
         /\ \A r \in found.path \cup {p} : At(p, found) <= r
         /\ found.path # {} => At(p, found) \in found.path
         /\ At(p, found) \in Passes
<1>1. found.path \in SUBSET Nat /\ p \in Nat /\ found.path \in SUBSET Passes
  BY PassesAreNumbers DEF SearchTypes
<1>2. CASE found.path = {}
  BY <1>1, <1>2 DEF At
<1>3. CASE found.path # {}
  BY <1>1, <1>3, MinOf DEF At
<1> QED
  BY <1>2, <1>3

LEMMA StepCases ==
  ASSUME Ordered, NEW p \in Passes, NEW a, NEW found, SearchTypes(p, found), \A r \in found.path : r < p
  PROVE  Returned(p, a, found) \/ \E q : Stepped(p, a, found, q)
<1> DEFINE next == m_incoming_vertices[At(p, found)] \ found.visited
           q == Min(next)
<1>1. At(p, found) = IF found.path = {} THEN p ELSE Min(found.path)
  BY DEF At
<1>2. next \in SUBSET Nat
  BY AtLowest, PassesAreNumbers DEF Ordered
<1>3. CASE next = {}
  <2>1. SearchStep(p, a, found) = [found EXCEPT !.path = @ \ {At(p, found)}]
    BY <1>1, <1>3 DEF SearchStep
  <2>2. Returned(p, a, found)
    BY <1>3, <2>1 DEF Returned, SearchTypes
  <2> QED
    BY <2>2
<1>4. CASE next # {}
  <2>1. q \in next
    <3> HIDE DEF next
    <3> QED
      BY <1>2, <1>4, MinOf
  <2> DEFINE seen == [found EXCEPT !.visited = @ \cup {q}]
             between == {r \in found.path : is_known(r, a)}
  <2>2. SearchStep(p, a, found) =
          IF Has(q, a, "store")
          THEN [seen EXCEPT !.stores = @ \cup {q},
                            !.preserve = @ \cup between,
                            !.twice = @ \/ found.preserve \cap between # {}]
          ELSE IF Has(q, a, "clear")
          THEN [seen EXCEPT !.hidden = TRUE]
          ELSE [seen EXCEPT !.path = @ \cup {q}]
    BY <1>1, <1>4 DEF SearchStep
  <2> HIDE DEF q, next, between
  <2>3. seen = [path |-> found.path, visited |-> found.visited \cup {q}, stores |-> found.stores,
                preserve |-> found.preserve, twice |-> found.twice, hidden |-> found.hidden]
    BY DEF SearchTypes
  <2> HIDE DEF seen
  <2>4. Stepped(p, a, found, q)
    <3>1. q \in m_incoming_vertices[At(p, found)] \ found.visited
      BY <2>1 DEF next
    <3>2. CASE Has(q, a, "store")
      BY <2>2, <2>3, <3>1, <3>2 DEF Stepped, between
    <3>3. CASE ~Has(q, a, "store") /\ Has(q, a, "clear")
      BY <2>2, <2>3, <3>1, <3>3 DEF Stepped
    <3>4. CASE ~Has(q, a, "store") /\ ~Has(q, a, "clear")
      BY <2>2, <2>3, <3>1, <3>4 DEF Stepped
    <3> QED
      BY <3>2, <3>3, <3>4
  <2> QED
    BY <2>4
<1> QED
  BY <1>3, <1>4

(* The path to what is found next. *)
LEMMA PathDown ==
  ASSUME Ordered, NEW p \in Passes, NEW a, NEW found, SearchInv(p, a, found),
         NEW q \in m_incoming_vertices[At(p, found)]
  PROVE  q \in Passes /\ q < p /\ found.path \in Paths(q, p)
<1>0. SearchTypes(p, found) /\ (\A r \in found.path : r < p) /\ Linked(found.path \cup {p})
  BY DEF SearchInv
<1>1. At(p, found) \in found.path \cup {p} /\ At(p, found) \in Passes
      /\ \A r \in found.path \cup {p} : At(p, found) <= r
  BY <1>0, AtLowest
<1>2. q \in Passes /\ <<q, At(p, found)>> \in Vertices /\ q < At(p, found)
  BY <1>1, VertexOf DEF Ordered
<1>3. found.path \in SUBSET Passes
  BY <1>0 DEF SearchTypes
<1>4. \A r \in found.path \cup {p, q} : r \in Nat
  BY <1>2, <1>3, PassesAreNumbers
<1>5. q < p /\ \A r \in found.path \cup {p} : q < r
  BY <1>1, <1>2, <1>4
<1>6. ASSUME NEW x \in found.path \cup {q, p}, NEW y \in found.path \cup {q, p}, x < y,
             \A r \in found.path \cup {q, p} : ~(x < r /\ r < y)
      PROVE  <<x, y>> \in Vertices
  <2>1. CASE x = q
    <3>1. y = At(p, found)
      BY <1>1, <1>2, <1>4, <1>6, <2>1
    <3> QED
      BY <1>2, <2>1, <3>1
  <2>2. CASE x # q
    <3>1. y # q
      BY <1>4, <1>5, <1>6, <2>2
    <3> QED
      BY <1>0, <1>6, <2>2, <3>1 DEF Linked
  <2> QED
    BY <2>1, <2>2
<1>7. Linked(found.path \cup {q, p})
  BY <1>6 DEF Linked
<1> QED
  BY <1>0, <1>2, <1>3, <1>5, <1>7, InPaths

LEMMA SearchKeeps ==
  ASSUME Ordered, NEW p \in Passes, NEW a, NEW found, SearchInv(p, a, found)
  PROVE  SearchInv(p, a, SearchStep(p, a, found))
<1> DEFINE after == SearchStep(p, a, found)
           P == found.path
           V == found.visited
<1>0. SearchTypes(p, found) /\ \A r \in P : r < p
  BY DEF SearchInv
<1>1. At(p, found) \in P \cup {p} /\ (\A r \in P \cup {p} : At(p, found) <= r) /\ (P # {} => At(p, found) \in P)
      /\ At(p, found) \in Passes
  BY <1>0, AtLowest
<1>2. P \subseteq V \ {p} /\ V \in SUBSET Passes /\ p \in V
  BY <1>0 DEF SearchTypes
<1>3. \A r \in P \cup {p} : r \in Nat
  BY <1>2, PassesAreNumbers
<1>4. ASSUME Returned(p, a, found)
      PROVE  SearchInv(p, a, after)
  <2>1. /\ after.path = P \ {At(p, found)} /\ after.visited = V /\ after.stores = found.stores
        /\ after.preserve = found.preserve /\ after.hidden = found.hidden
        /\ m_incoming_vertices[At(p, found)] \subseteq V
    BY <1>4 DEF Returned
  <2>2. SearchTypes(p, after)
    BY <1>0, <1>2, <1>4, <2>1 DEF SearchTypes, Returned
  <2>3. Linked(after.path \cup {p})
    <3>1. ASSUME NEW x \in after.path \cup {p}, NEW y \in after.path \cup {p}, x < y,
                 \A r \in after.path \cup {p} : ~(x < r /\ r < y)
          PROVE  <<x, y>> \in Vertices
      <4>1. x \in P \cup {p} /\ y \in P \cup {p}
        BY <2>1, <3>1
      <4>2. \A r \in P \cup {p} : ~(x < r /\ r < y)
        <5>1. ~(x < At(p, found))
          BY <1>1, <1>3, <4>1
        <5> QED
          BY <2>1, <3>1, <5>1
      <4> QED
        BY <3>1, <4>1, <4>2 DEF SearchInv, Linked
    <3> QED
      BY <3>1 DEF Linked
  <2> HIDE DEF after
  <2>4. \A r \in V \ (after.path \cup {p}) :
          Has(r, a, "store") \/ Has(r, a, "clear") \/ m_incoming_vertices[r] \subseteq V
    BY <2>1 DEF SearchInv
  <2> QED
    BY <2>1, <2>2, <2>3, <2>4 DEF SearchInv
<1>5. ASSUME NEW q, Stepped(p, a, found, q)
      PROVE  SearchInv(p, a, after)
  <2>1. q \in m_incoming_vertices[At(p, found)] /\ q \notin V
    BY <1>5 DEF Stepped
  <2>2. q \in Passes /\ q < p /\ P \in Paths(q, p)
    BY <2>1, PathDown
  <2>3. after.visited = V \cup {q}
    BY <1>5 DEF Stepped
  <2>4. q # p /\ q \in Nat
    BY <1>2, <2>1, <2>2, PassesAreNumbers
  <2>5. CASE Has(q, a, "store")
    <3>1. /\ after.path = P /\ after.stores = found.stores \cup {q} /\ after.hidden = found.hidden
          /\ after.preserve = found.preserve \cup {r \in P : is_known(r, a)}
      BY <1>5, <2>5 DEF Stepped
    <3>2. SearchTypes(p, after)
      BY <1>0, <1>2, <1>5, <2>2, <2>3, <2>5, <3>1 DEF SearchTypes, Stepped
    <3> HIDE DEF after
    <3>3. \A r \in after.visited \ (P \cup {p}) :
            Has(r, a, "store") \/ Has(r, a, "clear") \/ m_incoming_vertices[r] \subseteq after.visited
      BY <2>3, <2>5 DEF SearchInv
    <3>4. after.stores = {r \in after.visited \ {p} : Has(r, a, "store")}
      BY <2>3, <2>4, <2>5, <3>1 DEF SearchInv
    <3>5. after.hidden <=> \E r \in after.visited \ {p} : Has(r, a, "clear") /\ ~Has(r, a, "store")
      BY <2>3, <2>5, <3>1 DEF SearchInv
    <3>6. ASSUME NEW s \in after.stores
          PROVE  \E S \in Paths(s, p) :
                   (\A r \in S : ~Has(r, a, "store")) /\ {r \in S : is_known(r, a)} \subseteq after.preserve
      <4>1. CASE s = q
        BY <2>2, <3>1, <4>1 DEF SearchInv
      <4>2. CASE s # q
        <5>1. PICK S \in Paths(s, p) :
                (\A r \in S : ~Has(r, a, "store")) /\ {r \in S : is_known(r, a)} \subseteq found.preserve
          BY <3>1, <4>2 DEF SearchInv
        <5> QED
          BY <3>1, <5>1
      <4> QED
        BY <4>1, <4>2
    <3>7. Linked(P \cup {p}) /\ \A r \in P : r < p /\ ~Has(r, a, "store") /\ ~Has(r, a, "clear")
      BY DEF SearchInv
    <3> QED
      BY <3>1, <3>2, <3>3, <3>4, <3>5, <3>6, <3>7 DEF SearchInv
  <2>6. CASE ~Has(q, a, "store") /\ Has(q, a, "clear")
    <3>1. /\ after.path = P /\ after.stores = found.stores /\ after.hidden = TRUE
          /\ after.preserve = found.preserve
      BY <1>5, <2>6 DEF Stepped
    <3>2. SearchTypes(p, after)
      BY <1>0, <1>2, <1>5, <2>2, <2>3, <2>6, <3>1 DEF SearchTypes, Stepped
    <3> HIDE DEF after
    <3>3. \A r \in after.visited \ (P \cup {p}) :
            Has(r, a, "store") \/ Has(r, a, "clear") \/ m_incoming_vertices[r] \subseteq after.visited
      BY <2>3, <2>6 DEF SearchInv
    <3>4. after.stores = {r \in after.visited \ {p} : Has(r, a, "store")}
      BY <2>3, <2>6, <3>1 DEF SearchInv
    <3>5. after.hidden <=> \E r \in after.visited \ {p} : Has(r, a, "clear") /\ ~Has(r, a, "store")
      BY <2>3, <2>4, <2>6, <3>1
    <3>6. Linked(P \cup {p}) /\ \A r \in P : r < p /\ ~Has(r, a, "store") /\ ~Has(r, a, "clear")
      BY DEF SearchInv
    <3> QED
      BY <3>1, <3>2, <3>3, <3>4, <3>5, <3>6 DEF SearchInv
  <2>7. CASE ~Has(q, a, "store") /\ ~Has(q, a, "clear")
    <3>1. /\ after.path = P \cup {q} /\ after.stores = found.stores /\ after.hidden = found.hidden
          /\ after.preserve = found.preserve
      BY <1>5, <2>7 DEF Stepped
    <3>2. SearchTypes(p, after)
      BY <1>0, <1>2, <1>5, <2>2, <2>3, <2>4, <2>7, <3>1 DEF SearchTypes, Stepped
    <3> HIDE DEF after
    <3>3. \A r \in after.visited \ (after.path \cup {p}) :
            Has(r, a, "store") \/ Has(r, a, "clear") \/ m_incoming_vertices[r] \subseteq after.visited
      BY <2>3, <3>1 DEF SearchInv
    <3>4. after.stores = {r \in after.visited \ {p} : Has(r, a, "store")}
      BY <2>3, <2>7, <3>1 DEF SearchInv
    <3>5. after.hidden <=> \E r \in after.visited \ {p} : Has(r, a, "clear") /\ ~Has(r, a, "store")
      BY <2>3, <2>7, <3>1 DEF SearchInv
    <3>6. \A r \in after.path : r < p /\ ~Has(r, a, "store") /\ ~Has(r, a, "clear")
      BY <2>2, <2>7, <3>1 DEF SearchInv
    <3>7. Linked(after.path \cup {p})
      <4>1. Linked(P \cup {q, p}) /\ after.path \cup {p} = P \cup {q, p}
        BY <2>2, <3>1, InPaths
      <4> QED
        BY <4>1
    <3> QED
      BY <3>1, <3>2, <3>3, <3>4, <3>5, <3>6, <3>7 DEF SearchInv
  <2> QED
    BY <2>5, <2>6, <2>7
<1> QED
  BY <1>0, <1>4, <1>5, StepCases

(* The search ends: every step visits a pass or takes one from the path. *)
Ended(p, found) == found.path = {} /\ m_incoming_vertices[p] \subseteq found.visited

Left(found) == 2 * Cardinality(Passes \ found.visited) + Cardinality(found.path)

LEMMA PassesFinite == IsFiniteSet(Passes) /\ Cardinality(Passes) = NumberOfPasses
BY FS_Interval, RenderGraphAssumption DEF Passes

LEMMA SearchAdvances ==
  ASSUME Ordered, NEW p \in Passes, NEW a, NEW found, SearchInv(p, a, found)
  PROVE  /\ Left(found) \in Nat
         /\ Left(found) = 0 => Ended(p, found)
         /\ Ended(p, found) => Ended(p, SearchStep(p, a, found))
         /\ ~Ended(p, found) => Left(SearchStep(p, a, found)) < Left(found)
<1> DEFINE after == SearchStep(p, a, found)
           P == found.path
           U == Passes \ found.visited
<1>0. SearchTypes(p, found) /\ \A r \in P : r < p
  BY DEF SearchInv
<1>1. P \in SUBSET Passes /\ U \in SUBSET Passes /\ found.visited \in SUBSET Passes /\ P \subseteq found.visited
  BY <1>0 DEF SearchTypes
<1>2. IsFiniteSet(P) /\ IsFiniteSet(U) /\ Cardinality(P) \in Nat /\ Cardinality(U) \in Nat
  BY <1>1, PassesFinite, FS_Subset, FS_CardinalityType
<1>3. Left(found) = 2 * Cardinality(U) + Cardinality(P)
  BY DEF Left
<1>4. At(p, found) \in P \cup {p} /\ (P # {} => At(p, found) \in P) /\ At(p, found) \in Passes
      /\ (P = {} => At(p, found) = p)
  BY <1>0, AtLowest
<1>5. m_incoming_vertices[At(p, found)] \in SUBSET Passes /\ m_incoming_vertices[p] \in SUBSET Passes
  BY <1>4 DEF Ordered
<1>6. ASSUME Left(found) = 0 PROVE Ended(p, found)
  <2>1. Cardinality(U) = 0 /\ Cardinality(P) = 0
    <3> HIDE DEF U, P
    <3> QED
      BY <1>2, <1>3, <1>6
  <2>2. U = {} /\ P = {}
    BY <1>2, <2>1, FS_EmptySet
  <2> QED
    BY <1>5, <2>2 DEF Ended
<1>7. ASSUME Returned(p, a, found)
      PROVE  (Ended(p, found) => Ended(p, after)) /\ (~Ended(p, found) => Left(after) < Left(found))
  <2>1. after.path = P \ {At(p, found)} /\ after.visited = found.visited /\ m_incoming_vertices[At(p, found)] \subseteq found.visited
    BY <1>7 DEF Returned
  <2>2. CASE P = {}
    BY <1>4, <2>1, <2>2 DEF Ended
  <2>3. CASE P # {}
    <3>1. Cardinality(P \ {At(p, found)}) = Cardinality(P) - 1
      BY <1>2, <1>4, <2>3, FS_RemoveElement
    <3>2. Left(after) = 2 * Cardinality(U) + Cardinality(P \ {At(p, found)})
      BY <2>1 DEF Left
    <3>3. Left(after) < Left(found)
      <4> HIDE DEF after, P, U
      <4> QED
        BY <1>2, <1>3, <3>1, <3>2
    <3> QED
      BY <2>3, <3>3 DEF Ended
  <2> QED
    BY <2>2, <2>3
<1>8. ASSUME NEW q, Stepped(p, a, found, q)
      PROVE  ~Ended(p, found) /\ Left(after) < Left(found)
  <2>1. q \in m_incoming_vertices[At(p, found)] /\ q \in U
    BY <1>5, <1>8 DEF Stepped
  <2>2. ~Ended(p, found)
    BY <1>4, <2>1 DEF Ended
  <2>3. after.visited = found.visited \cup {q} /\ (after.path = P \/ after.path = P \cup {q})
    BY <1>8 DEF Stepped
  <2>4. Cardinality(U \ {q}) = Cardinality(U) - 1
    BY <1>2, <2>1, FS_RemoveElement
  <2>5. Passes \ after.visited = U \ {q}
    BY <2>3
  <2>6. Cardinality(P \cup {q}) <= Cardinality(P) + 1 /\ Cardinality(P \cup {q}) \in Nat
    BY <1>2, FS_AddElement
  <2>7. Left(after) = 2 * Cardinality(U \ {q}) + Cardinality(after.path)
    BY <2>5 DEF Left
  <2> HIDE DEF after, P, U
  <2>8. Cardinality(after.path) <= Cardinality(P) + 1 /\ Cardinality(after.path) \in Nat
    <3>1. CASE after.path = P
      BY <1>2, <3>1
    <3>2. CASE after.path = P \cup {q}
      BY <2>6, <3>2
    <3> QED
      BY <2>3, <3>1, <3>2
  <2>9. Left(after) < Left(found)
    BY <1>2, <1>3, <2>4, <2>7, <2>8
  <2> QED
    BY <2>2, <2>9
<1>9. Left(found) \in Nat
  BY <1>2, <1>3
<1> QED
  BY <1>0, <1>6, <1>7, <1>8, <1>9, StepCases

LEMMA SearchResult ==
  ASSUME Ordered, NEW p \in Passes, NEW a
  PROVE  SearchInv(p, a, SearchStores(p, a)) /\ Ended(p, SearchStores(p, a))
<1>1. PICK f : /\ \A n \in Nat : f[n] = IF n = 0 THEN Start(p) ELSE SearchStep(p, a, f[n - 1])
               /\ SearchStores(p, a) = f[2 * NumberOfPasses]
  BY SearchRun
<1> DEFINE Good(n) == SearchInv(p, a, f[n]) /\ (Ended(p, f[n]) \/ Left(f[n]) + n <= 2 * NumberOfPasses)
<1>2. NumberOfPasses \in Nat
  BY RenderGraphAssumption
<1>3. Good(0)
  <2>1. f[0] = Start(p)
    BY <1>1
  <2>2. SearchInv(p, a, f[0])
    BY <2>1, SearchStart
  <2>3. Cardinality(Passes \ {p}) = NumberOfPasses - 1 /\ Cardinality({}) = 0
    BY PassesFinite, FS_RemoveElement, FS_EmptySet
  <2>4. Left(f[0]) = 2 * (NumberOfPasses - 1) + 0
    BY <2>1, <2>3 DEF Left, Start
  <2> QED
    BY <1>2, <2>2, <2>4
<1>4. ASSUME NEW n \in Nat, n # 0, Good(n - 1) PROVE Good(n)
  <2>1. n - 1 \in Nat /\ f[n] = SearchStep(p, a, f[n - 1])
    BY <1>1, <1>4
  <2>2. SearchInv(p, a, f[n])
    BY <1>4, <2>1, SearchKeeps
  <2>3. Left(f[n]) \in Nat /\ Left(f[n - 1]) \in Nat
    BY <1>4, <2>1, <2>2, SearchAdvances
  <2>4. Ended(p, f[n - 1]) => Ended(p, f[n])
    BY <1>4, <2>1, SearchAdvances
  <2>5. ~Ended(p, f[n - 1]) => Left(f[n]) < Left(f[n - 1])
    BY <1>4, <2>1, SearchAdvances
  <2> QED
    BY <1>2, <1>4, <2>2, <2>3, <2>4, <2>5
<1>5. \A n \in Nat : Good(n)
  <2> HIDE DEF Good
  <2> DEFINE W == {n \in Nat : ~Good(n)}
  <2> SUFFICES ASSUME W # {} PROVE FALSE
    OBVIOUS
  <2>1. PICK n \in W : \A m \in W : n <= m
    BY SmallestPass
  <2>2. n # 0 /\ n \in Nat
    BY <1>3, <2>1
  <2>3. n - 1 \in Nat /\ n - 1 \notin W
    BY <2>1, <2>2
  <2> QED
    BY <1>4, <2>1, <2>2, <2>3
<1>6. Good(2 * NumberOfPasses) /\ 2 * NumberOfPasses \in Nat
  BY <1>2, <1>5
<1>7. ~Ended(p, f[2 * NumberOfPasses]) => Left(f[2 * NumberOfPasses]) = 0
  BY <1>2, <1>6, SearchAdvances
<1> QED
  BY <1>1, <1>6, <1>7, SearchAdvances

(* What the search finds is what is visible: the stores from which a path leads to p on
   which nothing stores again; unless a clear is in the way. *)
LEMMA SearchFindsVisible ==
  ASSUME Ordered, NEW p \in Passes, NEW a, ~SearchStores(p, a).hidden
  PROVE  /\ VisibleStores(p, a) = SearchStores(p, a).stores
         /\ \A s \in VisibleStores(p, a) : \A S \in Paths(s, p) :
              (\A r \in S : ~Has(r, a, "store")) => \A r \in S : ~Has(r, a, "clear")
<1> DEFINE found == SearchStores(p, a)
<1>1. SearchInv(p, a, found) /\ Ended(p, found)
  BY SearchResult
<1> HIDE DEF found
<1>2. found.visited \in SUBSET Passes /\ p \in found.visited
  BY <1>1 DEF SearchInv, SearchTypes
<1>3. found.path = {} /\ m_incoming_vertices[p] \subseteq found.visited
  BY <1>1 DEF Ended
<1>4. \A r \in found.visited \ {p} : Has(r, a, "clear") => Has(r, a, "store")
  BY <1>1 DEF SearchInv, found
<1>5. found.stores = {r \in found.visited \ {p} : Has(r, a, "store")}
  BY <1>1 DEF SearchInv
<1>6. \A r \in found.visited \ {p} : ~Has(r, a, "store") => m_incoming_vertices[r] \subseteq found.visited
  BY <1>1, <1>3, <1>4 DEF SearchInv
<1>7. ASSUME NEW s \in Passes, NEW S \in Paths(s, p), \A r \in S : ~Has(r, a, "store")
      PROVE  S \cup {s} \subseteq found.visited \ {p}
  <2>1. s < p /\ S \in SUBSET Passes /\ \A r \in S : r < p
    BY InPaths
  <2>2. s # p /\ p \notin S
    BY <2>1, PassesAreNumbers
  <2>3. \A r \in (S \cap found.visited) \cup {p} : m_incoming_vertices[r] \subseteq found.visited
    BY <1>3, <1>6, <1>7, <2>2
  <2>4. S \cup {s} \subseteq found.visited
    BY <2>3, BackAlong
  <2> QED
    BY <2>2, <2>4
<1>8. VisibleStores(p, a) \subseteq found.stores
  BY <1>5, <1>7 DEF VisibleStores
<1>9. ASSUME NEW s \in found.stores PROVE s \in VisibleStores(p, a)
  <2>1. s \in Passes /\ Has(s, a, "store")
    BY <1>2, <1>5
  <2>2. \E S \in Paths(s, p) : \A r \in S : ~Has(r, a, "store")
    BY <1>1 DEF SearchInv
  <2> QED
    BY <2>1, <2>2 DEF VisibleStores
<1>10. ASSUME NEW s \in VisibleStores(p, a), NEW S \in Paths(s, p), \A r \in S : ~Has(r, a, "store"),
              NEW r \in S
       PROVE  ~Has(r, a, "clear")
  <2>1. r \in found.visited \ {p}
    BY <1>7, <1>10 DEF VisibleStores
  <2> QED
    BY <1>4, <1>10, <2>1
<1> QED
  BY <1>8, <1>9, <1>10 DEF found

(* One of the paths to a store is preserved. *)
LEMMA SearchPreserves ==
  ASSUME Ordered, NEW p \in Passes, NEW a, NEW s \in SearchStores(p, a).stores
  PROVE  \E S \in Paths(s, p) :
           (\A r \in S : ~Has(r, a, "store")) /\ {r \in S : is_known(r, a)} \subseteq SearchStores(p, a).preserve
BY SearchResult DEF SearchInv

--------------------------------------------------------------------------------

(* The inductive invariant: the graph only has vertices from a pass to a higher one, known
   at both ends, since so do the links of the statements; and what the generation found
   when it accepted the graph. *)
Links ==
  /\ m_subsequent_render_pass \in [Passes -> Passes \cup {NoPass}]
  /\ \A p, q \in Passes : m_subsequent_render_pass[p] = q => p < q
  /\ last # NoPass => last[1] \in Passes

GraphInv == Links /\ Ordered /\ LoadsHaveOneStore /\ PreservedOnAPath /\ SourcesAndSinks

LEMMA GraphInitInv ==
  ASSUME GraphInit
  PROVE  GraphInv
<1> USE DEF GraphInit
<1>1. Links
  BY RenderGraphAssumption DEF Links, Passes
<1>2. Ordered
  BY DEF Ordered
<1>3. ~Accepted
  BY DEF Accepted
<1> QED
  BY <1>1, <1>2, <1>3 DEF GraphInv, LoadsHaveOneStore, PreservedOnAPath, SourcesAndSinks

LEMMA LinkKeeps ==
  ASSUME Links, NEW p \in Passes, NEW q \in Passes, p < q, link(p, q), last'[1] \in Passes
  PROVE  Links'
BY DEF Links, link

(* While the graph is built, there are no results. *)
LEMMA BuildKeeps ==
  ASSUME GraphInv, Build \/ Assign
  PROVE  GraphInv'
<1>0. Links /\ Ordered
  BY DEF GraphInv
<1>1. outcome = "building" /\ (outcome' = "building" \/ outcome' = "alert")
  <2>1. CASE Build
    BY <2>1 DEF Build, FirstStores, FirstRaw, ThenStores, ThenRaw, CanBuild
  <2>2. CASE Assign
    BY <2>2 DEF Assign, CanBuild
  <2> QED
    BY <2>1, <2>2
<1>2. ~Accepted'
  BY <1>1 DEF Accepted
<1>3. CASE Build
  <2>1. UNCHANGED vertexVars
    BY <1>3 DEF Build, FirstStores, FirstRaw, ThenStores, ThenRaw
  <2>2. Ordered'
    BY <1>0, <2>1 DEF Ordered, vertexVars
  <2>3. PICK p \in Passes :
          \/ \E modifiers \in AnyModifiers, stores \in AnyStores :
                FirstStores(p, modifiers, stores) \/ ThenStores(p, modifiers, stores)
          \/ FirstRaw(p)
          \/ ThenRaw(p)
    BY <1>3 DEF Build
  <2>4. CASE \E modifiers \in AnyModifiers, stores \in AnyStores : FirstStores(p, modifiers, stores)
    <3>1. last' = <<p, "stream">> /\ UNCHANGED edgeVars
      BY <2>4 DEF FirstStores
    <3> QED
      BY <1>0, <1>2, <2>2, <3>1
         DEF GraphInv, Links, edgeVars, LoadsHaveOneStore, PreservedOnAPath, SourcesAndSinks
  <2>5. CASE FirstRaw(p)
    <3>1. last' = <<p, "pass">> /\ UNCHANGED edgeVars
      BY <2>5 DEF FirstRaw
    <3> QED
      BY <1>0, <1>2, <2>2, <3>1
         DEF GraphInv, Links, edgeVars, LoadsHaveOneStore, PreservedOnAPath, SourcesAndSinks
  <2>6. CASE \E modifiers \in AnyModifiers, stores \in AnyStores : ThenStores(p, modifiers, stores)
    <3>1. last # NoPass /\ last[1] < p /\ link(last[1], p) /\ last' = <<p, "stream">>
      BY <2>6 DEF ThenStores
    <3>2. Links'
      BY <1>0, <3>1, LinkKeeps DEF Links
    <3> QED
      BY <1>2, <2>2, <3>2 DEF GraphInv, LoadsHaveOneStore, PreservedOnAPath, SourcesAndSinks
  <2>7. CASE ThenRaw(p)
    <3>1. last # NoPass /\ last[1] < p /\ link(last[1], p) /\ last' = <<p, "stream">>
      BY <2>7 DEF ThenRaw
    <3>2. Links'
      BY <1>0, <3>1, LinkKeeps DEF Links
    <3> QED
      BY <1>2, <2>2, <3>2 DEF GraphInv, LoadsHaveOneStore, PreservedOnAPath, SourcesAndSinks
  <2> QED
    BY <2>3, <2>4, <2>5, <2>6, <2>7
<1>4. CASE Assign
  <2>1. UNCHANGED edgeVars /\ last' = NoPass
    BY <1>4 DEF Assign
  <2>2. Links'
    BY <1>0, <2>1 DEF Links, edgeVars
  <2>3. PICK source :
          /\ m_incoming_vertices' = [q \in Passes |-> m_incoming_vertices[q] \cup
                {p \in Passes : p \in Chain(source) /\ m_subsequent_render_pass[p] = q}]
          /\ m_outgoing_vertices' = [p \in Passes |-> m_outgoing_vertices[p] \cup
                {q \in Passes : p \in Chain(source) /\ m_subsequent_render_pass[p] = q}]
    BY <1>4 DEF Assign
  <2>4. Ordered'
    BY <1>0, <2>3 DEF Ordered, Links
  <2> QED
    BY <1>2, <2>2, <2>4 DEF GraphInv, LoadsHaveOneStore, PreservedOnAPath, SourcesAndSinks
<1> QED
  BY <1>3, <1>4

(* When nothing is wrong with the loads: what the searches found is what is visible. *)
LEMMA LoadsAreSound ==
  ASSUME Ordered, ~LoadAlert, NEW p \in Visited, NEW a \in Attachments, Has(p, a, "load")
  PROVE  /\ Cardinality(VisibleStores(p, a)) = 1
         /\ \A s \in VisibleStores(p, a) : \A S \in Paths(s, p) :
              (\A r \in S : ~Has(r, a, "store")) => \A r \in S : ~Has(r, a, "clear")
         /\ \A s \in VisibleStores(p, a) : \E S \in Paths(s, p) :
              (\A r \in S : ~Has(r, a, "store")) /\ {r \in S : is_known(r, a)} \subseteq Preserving(a)
<1>1. p \in Passes /\ p \in LoadsOf(a)
  BY DEF Visited, Reachable, LoadsOf
<1>2. ~SearchStores(p, a).hidden /\ Cardinality(SearchStores(p, a).stores) = 1
  BY <1>1 DEF LoadAlert
<1>3. /\ VisibleStores(p, a) = SearchStores(p, a).stores
      /\ \A s \in VisibleStores(p, a) : \A S \in Paths(s, p) :
           (\A r \in S : ~Has(r, a, "store")) => \A r \in S : ~Has(r, a, "clear")
  BY <1>1, <1>2, SearchFindsVisible
<1>4. ASSUME NEW s \in VisibleStores(p, a)
      PROVE  \E S \in Paths(s, p) :
               (\A r \in S : ~Has(r, a, "store")) /\ {r \in S : is_known(r, a)} \subseteq Preserving(a)
  <2>1. PICK S \in Paths(s, p) :
          (\A r \in S : ~Has(r, a, "store")) /\ {r \in S : is_known(r, a)} \subseteq SearchStores(p, a).preserve
    BY <1>1, <1>3, SearchPreserves
  <2>2. SearchStores(p, a).preserve \subseteq Preserving(a)
    BY <1>1 DEF Preserving
  <2> QED
    BY <2>1, <2>2
<1> QED
  BY <1>2, <1>3, <1>4

(* Generation: the passes are listed again, and nothing but "preserve" is added. *)
LEMMA GenerateFrame ==
  ASSUME Generate, outcome' = "generated"
  PROVE  /\ ~LoadAlert
         /\ \A p \in Passes : \A a : is_known(p, a)' <=> is_known(p, a)
         /\ \A p \in Passes : \A a : Has(p, a, "store")' <=> Has(p, a, "store")
         /\ \A p \in Passes : \A a : Has(p, a, "load")' <=> Has(p, a, "load")
         /\ \A p \in Passes : \A a : Has(p, a, "clear")' <=> Has(p, a, "clear")
         /\ \A p \in Passes : \A a : is_known(p, a) /\ p \in Preserving(a) => Has(p, a, "preserve")'
         /\ m_is_sink' = {pa \in Visited \X Attachments :
              Has(pa[1], pa[2], "store") /\ ~KnownBeyond(m_outgoing_vertices, pa[1], pa[2])}
         /\ m_is_source' = {pa \in Visited \X Attachments :
              is_known(pa[1], pa[2]) /\ ~KnownBeyond(m_incoming_vertices, pa[1], pa[2])}
<1>1. ~LoadAlert
  BY DEF Generate
<1>2. m_known_attachments' = [p \in Passes |->
            [a \in DOMAIN m_known_attachments[p] |->
                m_known_attachments[p][a] \cup IF p \in Preserving(a) THEN {"preserve"} ELSE {}]]
  BY DEF Generate
<1>3. \A p \in Passes : \A a : is_known(p, a)' <=> is_known(p, a)
  BY <1>2 DEF is_known
<1>4. ASSUME NEW p \in Passes, NEW a, is_known(p, a)
      PROVE  m_known_attachments'[p][a] = m_known_attachments[p][a] \cup IF p \in Preserving(a) THEN {"preserve"} ELSE {}
  BY <1>2, <1>4 DEF is_known
<1>5. ASSUME NEW p \in Passes, NEW a
      PROVE  /\ Has(p, a, "store")' <=> Has(p, a, "store")
             /\ Has(p, a, "load")' <=> Has(p, a, "load")
             /\ Has(p, a, "clear")' <=> Has(p, a, "clear")
  <2>1. CASE is_known(p, a)
    BY <1>3, <1>4, <2>1 DEF Has
  <2>2. CASE ~is_known(p, a)
    BY <1>3, <2>2 DEF Has
  <2> QED
    BY <2>1, <2>2
<1>6. ASSUME NEW p \in Passes, NEW a, is_known(p, a), p \in Preserving(a) PROVE Has(p, a, "preserve")'
  BY <1>3, <1>4, <1>6 DEF Has
<1>7. /\ m_is_sink' = {pa \in Visited \X Attachments :
           Has(pa[1], pa[2], "store") /\ ~KnownBeyond(m_outgoing_vertices, pa[1], pa[2])}
      /\ m_is_source' = {pa \in Visited \X Attachments :
           is_known(pa[1], pa[2]) /\ ~KnownBeyond(m_incoming_vertices, pa[1], pa[2])}
  BY DEF Generate
<1> QED
  BY <1>1, <1>3, <1>5, <1>6, <1>7

LEMMA PathsStay ==
  ASSUME Generate
  PROVE  /\ UNCHANGED <<edgeVars, m_incoming_vertices, m_outgoing_vertices, last>>
         /\ \A p, q : Paths(p, q)' = Paths(p, q)
         /\ Visited' \subseteq Visited
         /\ \A p : Chain(p)' = Chain(p)
<1>1. UNCHANGED <<edgeVars, m_incoming_vertices, m_outgoing_vertices, last>> /\ m_sources' = RealSources
  BY DEF Generate
<1>2. \A p, q : Paths(p, q)' = Paths(p, q)
  BY <1>1 DEF Paths, Linked, Vertices
<1>3. \A p : Chain(p)' = Chain(p)
  BY <1>1 DEF Chain, Pointer, Reachable, edgeVars
<1>4. \A p \in Listed : Chain(p) \subseteq Listed
  <2> SUFFICES ASSUME NEW p \in Listed, NEW q \in Chain(p) PROVE q \in Listed
    OBVIOUS
  <2>1. PICK s \in m_sources : p \in Chain(s)
    BY DEF Listed
  <2>2. q \in Chain(s)
    BY <2>1 DEF Chain, Reachable
  <2> QED
    BY <2>2 DEF Listed
<1>5. Listed' \subseteq Listed
  BY <1>1, <1>3, <1>4 DEF Listed, RealSources
<1>6. RealSources' \subseteq RealSources
  BY <1>1, <1>5 DEF RealSources
<1>7. Visited' \subseteq Visited
  BY <1>1, <1>6 DEF Visited, Reachable
<1> QED
  BY <1>1, <1>2, <1>3, <1>7

LEMMA GenerateKeeps ==
  ASSUME GraphInv, Generate
  PROVE  GraphInv'
<1>0. Links /\ Ordered
  BY DEF GraphInv
<1>1. Links' /\ Ordered'
  <2>1. UNCHANGED <<edgeVars, m_incoming_vertices, m_outgoing_vertices, last>>
    BY PathsStay
  <2> QED
    BY <1>0, <2>1 DEF Links, Ordered, edgeVars
<1>2. CASE ~Accepted'
  BY <1>1, <1>2 DEF GraphInv, LoadsHaveOneStore, PreservedOnAPath, SourcesAndSinks
<1>3. ASSUME Accepted' PROVE GraphInv'
  <2>0. outcome' = "generated"
    BY <1>3 DEF Accepted
  <2>1. \A p, q : Paths(p, q)' = Paths(p, q) /\ Paths(p, q) \in SUBSET SUBSET Passes
    BY PathsStay, InPaths
  <2>2. /\ \A p \in Passes : \A a : is_known(p, a)' <=> is_known(p, a)
        /\ \A p \in Passes : \A a : Has(p, a, "store")' <=> Has(p, a, "store")
        /\ \A p \in Passes : \A a : Has(p, a, "load")' <=> Has(p, a, "load")
        /\ \A p \in Passes : \A a : Has(p, a, "clear")' <=> Has(p, a, "clear")
    BY <2>0, GenerateFrame
  <2>3. Visited' \subseteq Visited /\ Visited \subseteq Passes
    BY PathsStay DEF Visited, Reachable
  <2>4. \A p, a : VisibleStores(p, a)' = VisibleStores(p, a)
    BY <2>1, <2>2 DEF VisibleStores
  <2>5. \A p \in Passes : \A a : get_load_op(p, a)' = "load" => Has(p, a, "load")
    BY <2>2 DEF get_load_op
  <2>6. \A p \in Passes : \A a : ~Has(p, a, "clear") => get_load_op(p, a)' # "clear"
    BY <2>2 DEF get_load_op
  <2>7. \A p \in Passes : \A a : is_known(p, a) /\ p \in Preserving(a) => get_store_op(p, a)' = "store"
    BY <2>0, GenerateFrame DEF get_store_op
  <2>8. ASSUME NEW p \in Visited', NEW a \in Attachments, get_load_op(p, a)' = "load"
        PROVE  /\ Cardinality(VisibleStores(p, a)) = 1
               /\ \A s \in VisibleStores(p, a) : \A S \in Paths(s, p) :
                    (\A r \in S : ~Has(r, a, "store")) => \A r \in S : ~Has(r, a, "clear")
               /\ \A s \in VisibleStores(p, a) : \E S \in Paths(s, p) :
                    (\A r \in S : ~Has(r, a, "store")) /\ {r \in S : is_known(r, a)} \subseteq Preserving(a)
    <3>1. p \in Visited /\ Has(p, a, "load") /\ ~LoadAlert
      BY <2>0, <2>3, <2>5, <2>8, GenerateFrame
    <3> QED
      BY <1>0, <3>1, LoadsAreSound
  <2>9. LoadsHaveOneStore'
    <3> SUFFICES ASSUME NEW p \in Visited', NEW a \in Attachments, get_load_op(p, a)' = "load"
                 PROVE  /\ Cardinality(VisibleStores(p, a)') = 1
                        /\ \A s \in VisibleStores(p, a)' : \A S \in Paths(s, p)' :
                             (\A r \in S : ~Has(r, a, "store")') => \A r \in S : get_load_op(r, a)' # "clear"
      BY DEF LoadsHaveOneStore
    <3>1. Cardinality(VisibleStores(p, a)') = 1
      BY <2>4, <2>8
    <3>2. ASSUME NEW s \in VisibleStores(p, a)', NEW S \in Paths(s, p)', \A r \in S : ~Has(r, a, "store")',
                 NEW r \in S
          PROVE  get_load_op(r, a)' # "clear"
      <4>1. s \in VisibleStores(p, a) /\ S \in Paths(s, p) /\ S \in SUBSET Passes
        BY <2>1, <2>4, <3>2
      <4>2. \A x \in S : ~Has(x, a, "store")
        BY <2>2, <3>2, <4>1
      <4>3. r \in Passes /\ ~Has(r, a, "clear")
        BY <2>8, <3>2, <4>1, <4>2
      <4> QED
        BY <2>6, <4>3
    <3> QED
      BY <3>1, <3>2
  <2>10. PreservedOnAPath'
    <3> SUFFICES ASSUME NEW p \in Visited', NEW a \in Attachments, get_load_op(p, a)' = "load",
                        NEW s \in VisibleStores(p, a)'
                 PROVE  \E S \in Paths(s, p)' : \A r \in S :
                          is_known(r, a)' => ~Has(r, a, "store")' /\ get_store_op(r, a)' = "store"
      BY DEF PreservedOnAPath
    <3>1. s \in VisibleStores(p, a)
      BY <2>4
    <3>2. PICK S \in Paths(s, p) :
            (\A r \in S : ~Has(r, a, "store")) /\ {r \in S : is_known(r, a)} \subseteq Preserving(a)
      BY <2>8, <3>1
    <3>3. S \in Paths(s, p)' /\ S \in SUBSET Passes
      BY <2>1, <3>2
    <3>4. ASSUME NEW r \in S, is_known(r, a)'
          PROVE  ~Has(r, a, "store")' /\ get_store_op(r, a)' = "store"
      <4>1. r \in Passes /\ is_known(r, a) /\ ~Has(r, a, "store") /\ r \in Preserving(a)
        BY <2>2, <3>2, <3>3, <3>4
      <4> QED
        BY <2>2, <2>7, <4>1
    <3> QED
      BY <3>3, <3>4
  <2>11. SourcesAndSinks'
    <3> SUFFICES ASSUME NEW p \in Visited', NEW a \in Attachments
                 PROVE  /\ <<p, a>> \in m_is_sink' <=>
                             Has(p, a, "store")' /\ ~\E q \in Passes : Paths(p, q)' # {} /\ is_known(q, a)'
                        /\ <<p, a>> \in m_is_source' <=>
                             is_known(p, a)' /\ ~\E q \in Passes : Paths(q, p)' # {} /\ is_known(q, a)'
      BY DEF SourcesAndSinks
    <3>0. p \in Visited /\ p \in Passes
      BY <2>3
    <3>1. KnownBeyond(m_outgoing_vertices, p, a) <=> \E q \in Passes : Paths(p, q) # {} /\ is_known(q, a)
      BY <1>0, <3>0, ReachedForwards DEF KnownBeyond
    <3>2. KnownBeyond(m_incoming_vertices, p, a) <=> \E q \in Passes : Paths(q, p) # {} /\ is_known(q, a)
      BY <1>0, <3>0, ReachedBackwards DEF KnownBeyond
    <3>3. <<p, a>> \in m_is_sink' <=> Has(p, a, "store") /\ ~KnownBeyond(m_outgoing_vertices, p, a)
      BY <2>0, <3>0, GenerateFrame
    <3>4. <<p, a>> \in m_is_source' <=> is_known(p, a) /\ ~KnownBeyond(m_incoming_vertices, p, a)
      BY <2>0, <3>0, GenerateFrame
    <3> QED
      BY <2>1, <2>2, <3>0, <3>1, <3>2, <3>3, <3>4
  <2> QED
    BY <1>1, <2>9, <2>10, <2>11 DEF GraphInv
<1> QED
  BY <1>2, <1>3

LEMMA GraphStutters ==
  ASSUME GraphInv, UNCHANGED graphVars
  PROVE  GraphInv'
<1> USE DEF graphVars, nodeVars, edgeVars, vertexVars, markVars
<1>1. Links' /\ Ordered'
  BY DEF GraphInv, Links, Ordered
<1>2. (\A p, q : Paths(p, q)' = Paths(p, q)) /\ Visited' = Visited
  BY DEF Paths, Linked, Vertices, Visited, RealSources, Listed, Chain, Pointer, Reachable
<1>3. \A p, a : /\ is_known(p, a)' <=> is_known(p, a)
                /\ \A op : Has(p, a, op)' <=> Has(p, a, op)
                /\ get_load_op(p, a)' = get_load_op(p, a) /\ get_store_op(p, a)' = get_store_op(p, a)
  BY DEF is_known, Has, get_load_op, get_store_op
<1>4. \A p, a : VisibleStores(p, a)' = VisibleStores(p, a)
  BY <1>2, <1>3 DEF VisibleStores
<1>5. Accepted' = Accepted
  BY DEF Accepted
<1>6. LoadsHaveOneStore'
  BY <1>2, <1>3, <1>4, <1>5 DEF GraphInv, LoadsHaveOneStore
<1>7. PreservedOnAPath'
  BY <1>2, <1>3, <1>4, <1>5 DEF GraphInv, PreservedOnAPath
<1>8. SourcesAndSinks'
  <2>1. m_is_sink' = m_is_sink /\ m_is_source' = m_is_source
    OBVIOUS
  <2>2. \A p, a :
          /\ (\E q \in Passes : Paths(p, q)' # {} /\ is_known(q, a)') <=> (\E q \in Passes : Paths(p, q) # {} /\ is_known(q, a))
          /\ (\E q \in Passes : Paths(q, p)' # {} /\ is_known(q, a)') <=> (\E q \in Passes : Paths(q, p) # {} /\ is_known(q, a))
    BY <1>2, <1>3
  <2>3. \A p, a : Has(p, a, "store")' <=> Has(p, a, "store")
    BY <1>3
  <2>4. CASE Accepted
    <3> SUFFICES ASSUME NEW p \in Visited, NEW a \in Attachments
                 PROVE  /\ <<p, a>> \in m_is_sink' <=>
                             Has(p, a, "store")' /\ ~\E q \in Passes : Paths(p, q)' # {} /\ is_known(q, a)'
                        /\ <<p, a>> \in m_is_source' <=>
                             is_known(p, a)' /\ ~\E q \in Passes : Paths(q, p)' # {} /\ is_known(q, a)'
      BY <1>2 DEF SourcesAndSinks
    <3>1. SourcesAndSinks
      BY DEF GraphInv
    <3>2. /\ <<p, a>> \in m_is_sink <=>
               Has(p, a, "store") /\ ~\E q \in Passes : Paths(p, q) # {} /\ is_known(q, a)
          /\ <<p, a>> \in m_is_source <=>
               is_known(p, a) /\ ~\E q \in Passes : Paths(q, p) # {} /\ is_known(q, a)
      BY <2>4, <3>1 DEF SourcesAndSinks
    <3> QED
      BY <1>3, <2>1, <2>2, <2>3, <3>2
  <2>5. CASE ~Accepted
    BY <1>5, <2>5 DEF SourcesAndSinks
  <2> QED
    BY <2>4, <2>5
<1> QED
  BY <1>1, <1>6, <1>7, <1>8 DEF GraphInv

LEMMA GraphInvHolds == GraphSpec => []GraphInv
<1>1. GraphInv /\ [GraphNext]_graphVars => GraphInv'
  <2> SUFFICES ASSUME GraphInv, [GraphNext]_graphVars PROVE GraphInv'
    OBVIOUS
  <2>1. CASE Build
    BY <2>1, BuildKeeps
  <2>2. CASE Assign
    BY <2>2, BuildKeeps
  <2>3. CASE Generate
    BY <2>3, GenerateKeeps
  <2>4. CASE UNCHANGED graphVars
    BY <2>4, GraphStutters
  <2> QED
    BY <2>1, <2>2, <2>3, <2>4 DEF GraphNext
<1> QED
  BY <1>1, GraphInitInv, PTL DEF GraphSpec

(* In a graph that RenderGraph::generate accepts, of any number of passes, what a pass loads
   was stored by exactly one pass along every path that leads to it, and is not cleared on
   the way: a search that visits every pass once finds all that there is to find. *)
THEOREM OneStoreForEveryLoad == GraphSpec => []LoadsHaveOneStore
BY GraphInvHolds, PTL DEF GraphInv

(* In every accepted graph there is a path from a store to the pass that loads it on which all
   passes that know about the attachment store it again, unchanged: the search told them to
   preserve it.  With several paths, this is the only one that is promised. *)
THEOREM LoadsArePreserved == GraphSpec => []PreservedOnAPath
BY GraphInvHolds, PTL DEF GraphInv

(* The sinks that the traversals forwards find are the passes that store an attachment of
   which no later pass knows; the sources those that know it and of which no earlier one does. *)
THEOREM SourcesAndSinksHold == GraphSpec => []SourcesAndSinks
BY GraphInvHolds, PTL DEF GraphInv
=============================================================================
