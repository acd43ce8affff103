---------------------------- MODULE FrameSync ----------------------------
(* How a window synchronizes its frames with the graphics queue and the
   presentation engine (README.sync): render_frame of a window cycles through
   its frame resources, each with a command buffer and a fence, and through the
   images of the swapchain, each with two semaphores, while the swapchain can
   be out of date at any acquire or present and is then recreated. *)
EXTENDS Sequences, FiniteSets, Integers

CONSTANTS FrameResources,   \* m_resource_count
          Images,           \* m_vhv_images.size(): images of a swapchain
          Slots,            \* size of DelaySemaphoreDestruction::m_queue (16)
          MaxRecreate       \* bound on the number of times that a swapchain is recreated

ASSUME FrameSyncAssumption ==
  /\ FrameResources \in Nat \ {0}
  /\ Images \in Nat /\ Images >= 2
  /\ Slots \in Nat \ {0}
  /\ MaxRecreate \in Nat

VARIABLES
  pc,               \* where the render loop is in render_frame and recreate
  m_resource_index, \* m_current_frame.m_resource_index
  fence,            \* m_command_buffers_completed of every frame resource is signalled
  generation,       \* counts the swapchains
  m_current_index,  \* the swapchain image that was acquired last
  available,        \* m_image_available_semaphore of every image
  finished,         \* m_rendering_finished_semaphore of every image
  m_acquire_semaphore,
  pos, m_queue,     \* DelaySemaphoreDestruction: semaphores to destroy, per slot
  destroyed,        \* semaphores that were destroyed (that matter)
  status,           \* semaphores with a pending signal operation or that are signalled
  jobs,             \* submits that the graphics queue did not finish
  presents,         \* presents that the presentation queue did not execute
  image             \* who has every image of the swapchain

swapchain == <<generation, m_current_index, available, finished, m_acquire_semaphore>>
delay == <<pos, m_queue, destroyed>>
queues == <<status, jobs, presents, image>>
vars == <<pc, m_resource_index, fence, generation, m_current_index, available, finished,
          m_acquire_semaphore, pos, m_queue, destroyed, status, jobs, presents, image>>

Image == 0..Images-1
Resource == 0..FrameResources-1
Semaphore == {"acquire", "available", "finished"} \X Nat \X Nat

(* The semaphores that recreate_swapchain_images creates. *)
Available(g, i) == <<"available", g, i>>
Finished(g, i) == <<"finished", g, i>>

Signalling == {s[1] : s \in {t \in status : t[2] = "pending"}}
Signalled == {s[1] : s \in {t \in status : t[2] = "signalled"}}
WaitedFor == {jobs[k].available : k \in DOMAIN jobs} \cup {presents[k].finished : k \in DOMAIN presents}

(* No operation of a queue or of the presentation engine uses the semaphore. *)
Unused(s) == s \notin Signalling \cup Signalled \cup WaitedFor

StartSignal(s) == status \cup {<<s, "pending">>}
CompleteSignal(s) == (status \ {<<s, "pending">>}) \cup {<<s, "signalled">>}
CompleteWait(s) == status \ {<<s, "signalled">>}

(* create_frame_resources creates the fences signalled. *)
Init ==
  /\ pc = "start_frame"
  /\ m_resource_index = 0
  /\ fence = [r \in Resource |-> TRUE]
  /\ generation = 0
  /\ m_current_index = 0
  /\ available = [i \in Image |-> Available(0, i)]
  /\ finished = [i \in Image |-> Finished(0, i)]
  /\ m_acquire_semaphore = <<"acquire", 0, 0>>
  /\ pos = 0
  /\ m_queue = [k \in 0..Slots-1 |-> {}]
  /\ destroyed = {}
  /\ status = {}
  /\ jobs = <<>> /\ presents = <<>>
  /\ image = [i \in Image |-> "free"]

Run(from, to) == pc = from /\ pc' = to

---------------------------------------------------------------------------
(* The render loop. *)

(* Mutant: the fence is reset before an image is acquired. *)
start_frame_resets ==
  /\ Run("start_frame", "acquire_image")
  /\ m_resource_index' = (m_resource_index + 1) % FrameResources
  /\ fence' = IF jobs = <<>> THEN [fence EXCEPT ![m_resource_index'] = FALSE] ELSE fence
  /\ UNCHANGED <<swapchain, delay, queues>>

(* start_frame: the next frame resource. *)
start_frame ==
  /\ Run("start_frame", "acquire_image")
  /\ m_resource_index' = (m_resource_index + 1) % FrameResources
  /\ UNCHANGED <<fence, swapchain, delay, queues>>

(* Mutant: the semaphores are not swapped. *)
update_current_index_kept(i) ==
  /\ m_current_index' = i
  /\ UNCHANGED <<available, m_acquire_semaphore>>

(* update_current_index: the semaphore that was passed to acquire_next_image
   now belongs to the image, and that of the image is used for the next acquire. *)
update_current_index(i) ==
  /\ m_current_index' = i
  /\ available' = [available EXCEPT ![i] = m_acquire_semaphore]
  /\ m_acquire_semaphore' = available[i]

(* acquire_image. The presentation engine keeps at least one image. *)
acquire_image ==
  /\ Run("acquire_image", "wait_fence")
  /\ Cardinality({j \in Image : image[j] = "free"}) >= 2
  /\ \E i \in Image :
       /\ image[i] = "free"
       /\ image' = [image EXCEPT ![i] = "acquired"]
       /\ update_current_index(i)
  /\ status' = StartSignal(m_acquire_semaphore)
  /\ UNCHANGED <<m_resource_index, fence, generation, finished, delay, jobs, presents>>

(* The swapchain is out of date: nothing is signalled, the frame is abandoned. *)
acquire_out_of_date ==
  /\ Run("acquire_image", "wait_all_fences")
  /\ generation < MaxRecreate
  /\ UNCHANGED <<m_resource_index, fence, swapchain, delay, queues>>

(* Mutant: the fence is not waited for. *)
wait_command_buffer_completed_not ==
  /\ Run("wait_fence", "reset_fences")
  /\ UNCHANGED <<m_resource_index, fence, swapchain, delay, queues>>

(* wait_command_buffer_completed waits for the fence of the frame resource; every
   render_frame must call it. *)
wait_command_buffer_completed ==
  /\ Run("wait_fence", "reset_fences")
  /\ fence[m_resource_index]
  /\ UNCHANGED <<m_resource_index, fence, swapchain, delay, queues>>

(* reset_fences, then record the command buffer of the frame resource. *)
reset_fences ==
  /\ Run("reset_fences", "submit")
  /\ fence' = [fence EXCEPT ![m_resource_index] = FALSE]
  /\ UNCHANGED <<m_resource_index, swapchain, delay, queues>>

(* Submit: wait for the image to be available, signal that rendering finished,
   and the fence. *)
submit ==
  /\ Run("submit", "present")
  /\ jobs' = Append(jobs, [resource |-> m_resource_index,
                           available |-> available[m_current_index],
                           finished |-> finished[m_current_index]])
  /\ status' = StartSignal(finished[m_current_index])
  /\ UNCHANGED <<m_resource_index, fence, swapchain, delay, presents, image>>

present(to) ==
  /\ Run("present", to)
  /\ presents' = Append(presents, [finished |-> finished[m_current_index],
                                   image |-> m_current_index, generation |-> generation])
  /\ image' = [image EXCEPT ![m_current_index] = "presented"]
  /\ UNCHANGED <<m_resource_index, fence, swapchain, delay, status, jobs>>

(* finish_frame; also a present that is out of date waits for its semaphore. *)
finish_frame == present("step")
finish_frame_out_of_date == generation < MaxRecreate /\ present("wait_all_fences")

(* Destroy the semaphores of the current slot. The ones that are not used by
   anything are forgotten. *)
destroy(sems) == destroyed' = destroyed \cup {s \in sems : ~Unused(s)}

(* DelaySemaphoreDestruction::step, for a frame that was completed. The window
   can have been resized. *)
step ==
  /\ pc = "step"
  /\ pc' \in {"start_frame"} \cup IF generation < MaxRecreate THEN {"wait_all_fences"} ELSE {}
  /\ pos' = (pos + 1) % Slots
  /\ destroy(m_queue[pos'])
  /\ m_queue' = [m_queue EXCEPT ![pos'] = {}]
  /\ UNCHANGED <<m_resource_index, fence, swapchain, queues>>

(* handle_window_size_changed: wait until all fences are signalled ... *)
wait_for_all_fences ==
  /\ Run("wait_all_fences", "recreate")
  /\ \A r \in Resource : fence[r]
  /\ UNCHANGED <<m_resource_index, fence, swapchain, delay, queues>>

(* Mutant: the delay is a frame too short. *)
add_short(sems) == m_queue' = [m_queue EXCEPT ![(pos + Images - 1) % Slots] = @ \cup sems]

(* DelaySemaphoreDestruction::add, with a delay of the number of images. *)
add(sems) == m_queue' = [m_queue EXCEPT ![(pos + Images) % Slots] = @ \cup sems]

(* ... and recreate the swapchain: rescue the semaphores that a present may wait
   for, destroy the other ones, and create new images and semaphores. *)
recreate ==
  /\ Run("recreate", "start_frame")
  /\ add({finished[i] : i \in Image})
  /\ destroy({available[i] : i \in Image})
  /\ generation' = generation + 1
  /\ available' = [i \in Image |-> Available(generation + 1, i)]
  /\ finished' = [i \in Image |-> Finished(generation + 1, i)]
  /\ image' = [i \in Image |-> "free"]
  /\ UNCHANGED <<m_resource_index, fence, m_current_index, m_acquire_semaphore, pos, status, jobs, presents>>

---------------------------------------------------------------------------
(* The device. *)

(* The presentation engine signals that an acquired image is available. *)
image_available ==
  /\ \E s \in Signalling :
       /\ s[1] # "finished"
       /\ status' = CompleteSignal(s)
  /\ UNCHANGED <<pc, m_resource_index, fence, swapchain, delay, jobs, presents, image>>

(* The graphics queue executes the oldest submit. *)
execute ==
  /\ jobs # <<>>
  /\ LET job == Head(jobs)
     IN /\ job.available \in Signalled
        /\ status' = (status \ {<<job.available, "signalled">>, <<job.finished, "pending">>})
                       \cup {<<job.finished, "signalled">>}
        /\ fence' = [fence EXCEPT ![job.resource] = TRUE]
  /\ jobs' = Tail(jobs)
  /\ UNCHANGED <<pc, m_resource_index, swapchain, delay, presents, image>>

(* The presentation queue presents an image; it can be acquired again. *)
display ==
  /\ presents # <<>>
  /\ LET p == Head(presents)
     IN /\ p.finished \in Signalled
        /\ status' = CompleteWait(p.finished)
        /\ image' = IF p.generation = generation THEN [image EXCEPT ![p.image] = "free"] ELSE image
  /\ presents' = Tail(presents)
  /\ UNCHANGED <<pc, m_resource_index, fence, swapchain, delay, jobs>>

RenderLoop ==
  \/ start_frame \/ acquire_image \/ acquire_out_of_date \/ wait_command_buffer_completed
  \/ reset_fences \/ submit \/ finish_frame \/ finish_frame_out_of_date \/ step
  \/ wait_for_all_fences \/ recreate

Device == image_available \/ execute \/ display

Next == RenderLoop \/ Device

Spec == Init /\ [][Next]_vars

(* The window keeps rendering, and the device executes what it gets. *)
FairSpec == Spec /\ WF_vars(RenderLoop) /\ WF_vars(image_available) /\ WF_vars(execute) /\ WF_vars(display)

---------------------------------------------------------------------------
(* The type invariant. *)
TypeOK ==
  /\ pc \in {"start_frame", "acquire_image", "wait_fence", "reset_fences", "submit", "present",
             "step", "wait_all_fences", "recreate"}
  /\ m_resource_index \in Resource
  /\ fence \in [Resource -> BOOLEAN]
  /\ m_current_index \in Image
  /\ generation \in 0..MaxRecreate
  /\ pc \in {"wait_all_fences", "recreate"} => generation < MaxRecreate
  /\ pos \in 0..Slots-1
  /\ image \in [Image -> {"free", "acquired", "presented"}]
  /\ jobs \in Seq([resource : Resource, available : Semaphore, finished : Semaphore])
  /\ available \in [Image -> Semaphore] /\ finished \in [Image -> Semaphore]
  /\ m_acquire_semaphore \in Semaphore

(* The command buffer of a frame resource is only recorded, and its fence only
   reset, when the graphics queue is done with both. *)
FrameResourceDone ==
  pc \in {"reset_fences", "submit"} =>
    \A k \in DOMAIN jobs : jobs[k].resource # m_resource_index

(* Nothing waits for a fence that nobody is going to signal: a frame that is
   abandoned because the swapchain is out of date leaves its fence signalled. *)
FenceWillSignal ==
  \A r \in Resource : ~fence[r] =>
    \/ \E k \in DOMAIN jobs : jobs[k].resource = r
    \/ pc = "submit" /\ r = m_resource_index

(* The semaphore that is passed to acquire_next_image is unsignalled and no
   operation uses it, whatever images are acquired in what order. *)
AcquireSemaphoreUnused == pc = "acquire_image" => Unused(m_acquire_semaphore)

(* "this guarantees that the finished_rendering_semaphore used for presenting it
   is available for reuse": that the image could be acquired. *)
RenderingFinishedUnused ==
  pc \in {"wait_fence", "reset_fences", "submit"} => Unused(finished[m_current_index])

(* A submit waits for the semaphore that the acquire of its image signals. *)
SubmitWaitsForItsImage ==
  pc \in {"wait_fence", "reset_fences", "submit"} =>
    /\ available[m_current_index] \in Signalling \cup Signalled
    /\ available[m_current_index] \notin WaitedFor

(* When the swapchain is recreated the graphics queue doesn't use the images and
   semaphores of the old one anymore. *)
QueueIdleWhenRecreated == pc = "recreate" => jobs = <<>>

(* The semaphores that are destroyed, immediately or after a delay of as many
   frames as there are images, are not used by anything: those frames can only be
   drawn when the presents of the old swapchain were executed. This is when the
   swapchain isn't recreated again during the delay. *)
NothingDestroyedInUse == destroyed = {}

(* However often it is recreated: a semaphore that is destroyed while it is used is that
   of a present that was not executed while its swapchain was replaced, and the one
   that replaced it too: of the last swapchain that was replaced none is. *)
OnlyReplacedTwice ==
  [][\A s \in destroyed' \ destroyed :
       \E k \in DOMAIN presents : presents[k].finished = s /\ presents[k].generation + 2 <= generation]_vars

(* Every frame is finished, or its swapchain recreated. *)
FramesFinish == []<>(pc = "start_frame")
==========================================================================
