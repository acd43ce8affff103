------------------------- MODULE FrameSyncProofs -------------------------
(* Proofs about FrameSync: for every number of frame resources and images, a
   command buffer is never reused while the graphics queue has it, and no fence
   is waited for that nobody signals. *)
EXTENDS FrameSync, SequenceTheorems, FiniteSetTheorems, TLAPS

JobType == [resource : Resource, available : Semaphore, finished : Semaphore]

(* The fence of the frame resource of every submit that is not finished is not
   signalled and no two of them have the same frame resource; a fence that isn't
   signalled belongs to such a submit, or is about to be submitted. *)
Fences ==
  /\ \A k \in DOMAIN jobs : ~fence[jobs[k].resource]
  /\ \A k, l \in DOMAIN jobs : jobs[k].resource = jobs[l].resource => k = l
  /\ pc = "reset_fences" => fence[m_resource_index]
  /\ pc = "submit" => /\ ~fence[m_resource_index]
                      /\ \A k \in DOMAIN jobs : jobs[k].resource # m_resource_index
  /\ FenceWillSignal
  /\ pc = "recreate" => \A r \in Resource : fence[r]

IInv == TypeOK /\ Fences

LEMMA InitFences ==
  ASSUME Init PROVE IInv
<1> USE FrameSyncAssumption
<1>1. jobs = <<>> /\ DOMAIN jobs = {} BY DEF Init
<1>2. TypeOK BY DEF Init, TypeOK, Resource, Image, Semaphore, Available, Finished
<1>3. Fences BY <1>1 DEF Init, Fences, FenceWillSignal
<1> QED BY <1>2, <1>3 DEF IInv

(* The actions that leave the fences and the submits alone. *)
LEMMA SameFences ==
  ASSUME IInv, UNCHANGED <<fence, jobs>>, pc # "submit",
         pc' \notin {"reset_fences", "submit", "recreate"}
  PROVE  Fences'
<1> QED BY DEF IInv, Fences, FenceWillSignal

LEMMA NextFences ==
  ASSUME IInv, [Next]_vars PROVE IInv'
<1> USE FrameSyncAssumption
<1>1. CASE start_frame
  <2>1. TypeOK'
    BY <1>1 DEF start_frame, IInv, TypeOK, Run, swapchain, delay, queues, Resource
  <2>2. Fences' BY <1>1, SameFences DEF start_frame, Run, queues
  <2> QED BY <2>1, <2>2 DEF IInv
<1>2. CASE acquire_image
  <2>1. TypeOK'
    BY <1>2 DEF acquire_image, update_current_index, IInv, TypeOK, Run, delay
  <2>2. Fences' BY <1>2, SameFences DEF acquire_image, Run
  <2> QED BY <2>1, <2>2 DEF IInv
<1>3. CASE acquire_out_of_date
  <2>1. TypeOK' BY <1>3 DEF acquire_out_of_date, IInv, TypeOK, Run, swapchain, delay, queues
  <2>2. Fences' BY <1>3, SameFences DEF acquire_out_of_date, Run, queues
  <2> QED BY <2>1, <2>2 DEF IInv
<1>4. CASE wait_command_buffer_completed
  <2>1. TypeOK' BY <1>4 DEF wait_command_buffer_completed, IInv, TypeOK, Run, swapchain, delay, queues
  <2>2. Fences'
    BY <1>4 DEF wait_command_buffer_completed, IInv, Fences, FenceWillSignal, Run, queues
  <2> QED BY <2>1, <2>2 DEF IInv
<1>5. CASE reset_fences
  <2>1. TypeOK' BY <1>5 DEF reset_fences, IInv, TypeOK, Run, swapchain, delay, queues
  <2>2. /\ pc = "reset_fences" /\ pc' = "submit"
        /\ fence' = [fence EXCEPT ![m_resource_index] = FALSE]
        /\ UNCHANGED <<jobs, m_resource_index>>
        /\ fence[m_resource_index]
    BY <1>5 DEF reset_fences, Run, queues, IInv, Fences
  <2>3. \A k \in DOMAIN jobs : jobs[k].resource # m_resource_index
    BY <2>2 DEF IInv, Fences
  <2>4. FenceWillSignal' BY <2>2 DEF IInv, TypeOK, Fences, FenceWillSignal
  <2>5. \A k \in DOMAIN jobs : ~fence'[jobs[k].resource]
    <3> TAKE k \in DOMAIN jobs
    <3>1. jobs \in Seq(JobType) BY DEF IInv, TypeOK, JobType
    <3>2. jobs[k] \in JobType BY <3>1, ElementOfSeq, LenProperties
    <3> QED BY <3>2, <2>2, <2>3 DEF IInv, TypeOK, Fences, JobType
  <2>6. ~fence'[m_resource_index] BY <2>2 DEF IInv, TypeOK
  <2>7. Fences' BY <2>2, <2>3, <2>4, <2>5, <2>6 DEF IInv, Fences
  <2> QED BY <2>1, <2>7 DEF IInv
<1>6. CASE submit
  <2> DEFINE job == [resource |-> m_resource_index, available |-> available[m_current_index],
                     finished |-> finished[m_current_index]]
  <2>1. job \in JobType BY DEF IInv, TypeOK, JobType
  <2>2. /\ pc = "submit" /\ pc' = "present" /\ jobs' = Append(jobs, job)
        /\ UNCHANGED <<fence, m_resource_index>>
    BY <1>6 DEF submit, Run
  <2>3. jobs \in Seq(JobType) BY DEF IInv, TypeOK, JobType
  <2> HIDE DEF job
  <2>4. /\ jobs' \in Seq(JobType) /\ DOMAIN jobs = 1..Len(jobs) /\ DOMAIN jobs' = 1..Len(jobs)+1
        /\ \A k \in DOMAIN jobs : jobs'[k] = jobs[k]
        /\ jobs'[Len(jobs)+1] = job /\ Len(jobs) \in Nat
    BY <2>1, <2>2, <2>3, AppendProperties
  <2>5. job.resource = m_resource_index BY DEF job
  <2>6. TypeOK'
    BY <1>6, <2>4 DEF submit, IInv, TypeOK, Run, swapchain, delay, JobType
  <2>7. ~fence[m_resource_index]
    BY <2>2 DEF IInv, Fences
  <2>8. \A k \in DOMAIN jobs' : ~fence'[jobs'[k].resource]
    BY <2>2, <2>4, <2>5, <2>7 DEF IInv, Fences
  <2>9. \A k, l \in DOMAIN jobs' : jobs'[k].resource = jobs'[l].resource => k = l
    BY <2>2, <2>4, <2>5 DEF IInv, Fences
  <2>10. FenceWillSignal'
    BY <2>2, <2>4, <2>5 DEF IInv, Fences, FenceWillSignal
  <2>11. Fences' BY <2>2, <2>8, <2>9, <2>10 DEF Fences
  <2> QED BY <2>6, <2>11 DEF IInv
<1>7. CASE finish_frame \/ finish_frame_out_of_date
  <2>1. TypeOK' BY <1>7 DEF finish_frame, finish_frame_out_of_date, present, IInv, TypeOK, Run, swapchain, delay
  <2>2. Fences'
    BY <1>7, SameFences DEF finish_frame, finish_frame_out_of_date, present, Run
  <2> QED BY <2>1, <2>2 DEF IInv
<1>8. CASE step
  <2>1. TypeOK' BY <1>8 DEF step, IInv, TypeOK, swapchain, queues
  <2>2. Fences' BY <1>8, SameFences DEF step, queues
  <2> QED BY <2>1, <2>2 DEF IInv
<1>9. CASE wait_for_all_fences
  <2>1. TypeOK' BY <1>9 DEF wait_for_all_fences, IInv, TypeOK, Run, swapchain, delay, queues
  <2>2. Fences' BY <1>9 DEF wait_for_all_fences, IInv, Fences, FenceWillSignal, Run, queues
  <2> QED BY <2>1, <2>2 DEF IInv
<1>10. CASE recreate
  <2>1. TypeOK'
    <3>1. /\ pc = "recreate" /\ pc' = "start_frame" /\ generation < MaxRecreate
          /\ generation \in Nat /\ generation' = generation + 1 /\ MaxRecreate \in Nat
      BY <1>10 DEF recreate, Run, IInv, TypeOK
    <3>2. generation' \in Nat /\ generation' \in 0..MaxRecreate BY <3>1
    <3>3. \A i \in Image : /\ Available(generation + 1, i) \in Semaphore
                           /\ Finished(generation + 1, i) \in Semaphore
      BY <3>1 DEF Image, Semaphore, Available, Finished
    <3>4. available' \in [Image -> Semaphore] /\ finished' \in [Image -> Semaphore]
      BY <1>10, <3>3 DEF recreate
    <3> QED BY <1>10, <3>1, <3>2, <3>4 DEF recreate, IInv, TypeOK
  <2>2. Fences' BY <1>10, SameFences DEF recreate, Run
  <2> QED BY <2>1, <2>2 DEF IInv
<1>11. CASE image_available \/ display
  <2>1. TypeOK' BY <1>11 DEF image_available, display, IInv, TypeOK, swapchain, delay
  <2>2. UNCHANGED <<pc, fence, jobs, m_resource_index>>
    BY <1>11 DEF image_available, display
  <2>3. Fences' BY <2>2 DEF IInv, Fences, FenceWillSignal
  <2> QED BY <2>1, <2>3 DEF IInv
<1>12. CASE execute
  <2>1. /\ jobs # <<>> /\ jobs' = Tail(jobs) /\ fence' = [fence EXCEPT ![Head(jobs).resource] = TRUE]
        /\ UNCHANGED <<pc, m_resource_index>>
    BY <1>12 DEF execute
  <2>2. jobs \in Seq(JobType) BY DEF IInv, TypeOK, JobType
  <2>3. /\ jobs' \in Seq(JobType) /\ Len(jobs) \in Nat /\ DOMAIN jobs = 1..Len(jobs)
        /\ Len(jobs) >= 1 /\ Head(jobs) = jobs[1] /\ jobs[1] \in JobType
        /\ DOMAIN jobs' = 1..Len(jobs)-1
        /\ \A k \in DOMAIN jobs' : jobs'[k] = jobs[k+1] /\ jobs'[k] \in JobType
    BY <2>1, <2>2, HeadTailProperties, ElementOfSeq, LenProperties
  <2>4. TypeOK' BY <1>12, <2>3, <2>1 DEF execute, IInv, TypeOK, swapchain, delay, JobType
  <2>5. \A k \in DOMAIN jobs' : jobs'[k].resource # jobs[1].resource
    BY <2>3 DEF IInv, Fences
  <2>6. \A k \in DOMAIN jobs' : ~fence'[jobs'[k].resource]
    BY <2>1, <2>3, <2>5 DEF IInv, Fences, TypeOK, JobType
  <2>7. \A k, l \in DOMAIN jobs' : jobs'[k].resource = jobs'[l].resource => k = l
    <3> TAKE k, l \in DOMAIN jobs'
    <3> HAVE jobs'[k].resource = jobs'[l].resource
    <3>1. k+1 \in DOMAIN jobs /\ l+1 \in DOMAIN jobs BY <2>3
    <3>2. k+1 = l+1 BY <2>3, <3>1 DEF IInv, Fences
    <3> QED BY <2>3, <3>2
  <2>8. FenceWillSignal'
    <3> SUFFICES ASSUME NEW r \in Resource, ~fence'[r]
                 PROVE  \/ \E k \in DOMAIN jobs' : jobs'[k].resource = r
                        \/ pc' = "submit" /\ r = m_resource_index'
      BY DEF FenceWillSignal
    <3>1. ~fence[r] /\ r # jobs[1].resource BY <2>1, <2>3 DEF IInv, TypeOK, JobType
    <3>2. CASE pc = "submit" /\ r = m_resource_index BY <3>2, <2>1
    <3>3. CASE ~(pc = "submit" /\ r = m_resource_index)
      <4>1. PICK k \in DOMAIN jobs : jobs[k].resource = r BY <3>1, <3>3 DEF IInv, Fences, FenceWillSignal
      <4>2. k # 1 BY <3>1, <4>1
      <4>3. k-1 \in DOMAIN jobs' /\ jobs'[k-1] = jobs[k] BY <2>3, <4>2
      <4> QED BY <4>1, <4>3
    <3> QED BY <3>2, <3>3
  <2>9. /\ pc = "reset_fences" => fence'[m_resource_index]
        /\ pc = "recreate" => \A r \in Resource : fence'[r]
    BY <2>1, <2>3 DEF IInv, Fences, TypeOK, JobType
  <2>10. pc = "submit" => /\ ~fence'[m_resource_index]
                          /\ \A k \in DOMAIN jobs' : jobs'[k].resource # m_resource_index
    <3> SUFFICES ASSUME pc = "submit" PROVE ~fence'[m_resource_index]
      BY <2>3 DEF IInv, Fences
    <3>1. jobs[1].resource # m_resource_index /\ ~fence[m_resource_index]
      BY <2>3 DEF IInv, Fences
    <3> QED BY <2>1, <2>3, <3>1 DEF IInv, TypeOK
  <2>11. Fences' BY <2>1, <2>6, <2>7, <2>8, <2>9, <2>10 DEF Fences
  <2> QED BY <2>4, <2>11 DEF IInv
<1>13. CASE UNCHANGED vars
  BY <1>13 DEF vars, IInv, TypeOK, Fences, FenceWillSignal
<1> QED
  BY <1>1, <1>2, <1>3, <1>4, <1>5, <1>6, <1>7, <1>8, <1>9, <1>10, <1>11, <1>12, <1>13
     DEF Next, RenderLoop, Device

LEMMA InvariantFences ==
  Spec => []IInv
<1>1. Init => IInv BY InitFences
<1>2. IInv /\ [Next]_vars => IInv' BY NextFences
<1> QED BY <1>1, <1>2, PTL DEF Spec

(* The type invariant, for every number of frame resources, images, slots and
   recreated swapchains. *)
THEOREM TypeCorrect == Spec => []TypeOK
<1>1. IInv => TypeOK BY DEF IInv
<1> QED BY <1>1, InvariantFences, PTL

(* For every number of frame resources and images: while a window records a
   command buffer, no submit of that frame resource is unfinished. *)
THEOREM CommandBuffersDone ==
  Spec => []FrameResourceDone
<1>1. IInv => FrameResourceDone BY DEF IInv, Fences, FrameResourceDone
<1> QED BY <1>1, InvariantFences, PTL

(* Nothing waits for a fence that nobody is going to signal, however often the
   swapchain is out of date. *)
THEOREM FencesSignal ==
  Spec => []FenceWillSignal
<1>1. IInv => FenceWillSignal BY DEF IInv, Fences
<1> QED BY <1>1, InvariantFences, PTL

(* A swapchain is only recreated when the graphics queue finished every submit. *)
THEOREM QueueIdle ==
  Spec => []QueueIdleWhenRecreated
<1>1. IInv => QueueIdleWhenRecreated
  <2> SUFFICES ASSUME IInv, pc = "recreate", jobs # <<>> PROVE FALSE BY DEF QueueIdleWhenRecreated
  <2>1. jobs \in Seq(JobType) BY DEF IInv, TypeOK, JobType
  <2>2. 1 \in DOMAIN jobs /\ jobs[1] \in JobType
    BY <2>1, EmptySeq, ElementOfSeq, LenProperties
  <2> QED BY <2>2 DEF IInv, Fences, JobType
<1> QED BY <1>1, InvariantFences, PTL
---------------------------------------------------------------------------
(* The semaphores. *)

PresentType == [finished : Semaphore, image : Image, generation : Nat]
Busy == {"wait_fence", "reset_fences", "submit"}
Pending(s) == <<s, "pending">> \in status
Complete(s) == <<s, "signalled">> \in status

SemaphoreTypes ==
  /\ presents \in Seq(PresentType)
  /\ status \subseteq Semaphore \X {"pending", "signalled"}

(* Every image has its own two semaphores, and the next acquire has another one. *)
Names ==
  /\ \A i \in Image : finished[i] = Finished(generation, i)
  /\ \A i \in Image : available[i] # m_acquire_semaphore
  /\ \A i, j \in Image : available[i] = available[j] => i = j
  /\ \A i \in Image : available[i][1] # "finished" /\ available[i][2] <= generation
  /\ m_acquire_semaphore[1] # "finished" /\ m_acquire_semaphore[2] <= generation

(* The presents are those of the old swapchains, then those of the current one. *)
Presents ==
  /\ \A k \in DOMAIN presents : /\ presents[k].finished = Finished(presents[k].generation, presents[k].image)
                                /\ presents[k].generation <= generation
  /\ \A k, l \in DOMAIN presents : presents[k].finished = presents[l].finished => k = l
  /\ \A k, l \in DOMAIN presents : k <= l => presents[k].generation <= presents[l].generation

(* The image of the current frame was acquired, and the images that are presented
   are those of a present that was not executed. *)
Owners ==
  /\ \A i \in Image : image[i] = "acquired" <=> pc \in Busy \cup {"present"} /\ i = m_current_index
  /\ \A i \in Image : image[i] = "presented" <=>
       \E k \in DOMAIN presents : presents[k].generation = generation /\ presents[k].image = i

(* Every submit is for an image that is, or is about to be, presented. *)
Submits ==
  /\ \A k \in DOMAIN jobs : \E i \in Image :
       /\ jobs[k].available = available[i] /\ jobs[k].finished = finished[i]
       /\ image[i] = "presented" \/ (pc = "present" /\ i = m_current_index)
  /\ \A k, l \in DOMAIN jobs : jobs[k].available = jobs[l].available => k = l

(* The semaphore of an acquire is used until the submit that waits for it was
   executed, and that of a submit until the present that waits for it was. *)
Statuses ==
  /\ \A s \in Semaphore : ~(Pending(s) /\ Complete(s))
  /\ \A s \in Semaphore : (Pending(s) \/ Complete(s)) /\ s[1] # "finished" =>
       \/ \E k \in DOMAIN jobs : jobs[k].available = s
       \/ pc \in Busy /\ s = available[m_current_index]
  /\ pc \in Busy => Pending(available[m_current_index]) \/ Complete(available[m_current_index])
  /\ \A s \in Semaphore : s[1] = "finished" =>
       (Pending(s) <=> \E k \in DOMAIN jobs : jobs[k].finished = s)
  /\ \A s \in Semaphore : s[1] = "finished" /\ Complete(s) =>
       \/ \E k \in DOMAIN presents : presents[k].finished = s
       \/ pc = "present" /\ s = finished[m_current_index]

SInv == IInv /\ SemaphoreTypes /\ Names /\ Presents /\ Owners /\ Submits /\ Statuses

LEMMA SemaphoreNames ==
  /\ \A g, i, h, j : Finished(g, i) = Finished(h, j) => g = h /\ i = j
  /\ \A g, i, h, j : Available(g, i) = Available(h, j) => g = h /\ i = j
  /\ \A g, i : /\ Finished(g, i)[1] = "finished" /\ Available(g, i)[1] = "available"
               /\ Finished(g, i)[2] = g /\ Available(g, i)[2] = g
  /\ \A g \in Nat, i \in Image : Finished(g, i) \in Semaphore /\ Available(g, i) \in Semaphore
<1> USE FrameSyncAssumption
<1>1. \A g, i, h, j : Finished(g, i) = Finished(h, j) => g = h /\ i = j BY DEF Finished
<1>2. \A g, i, h, j : Available(g, i) = Available(h, j) => g = h /\ i = j BY DEF Available
<1>3. \A g, i : /\ Finished(g, i)[1] = "finished" /\ Available(g, i)[1] = "available"
                /\ Finished(g, i)[2] = g /\ Available(g, i)[2] = g
  BY DEF Finished, Available
<1>4. \A g \in Nat, i \in Image : Finished(g, i) \in Semaphore /\ Available(g, i) \in Semaphore
  BY DEF Finished, Available, Semaphore, Image
<1> QED BY <1>1, <1>2, <1>3, <1>4

(* What the sets of the model say, in terms of the status of a semaphore. *)
LEMMA StatusSets ==
  ASSUME SemaphoreTypes
  PROVE  \A s : (s \in Signalling <=> Pending(s)) /\ (s \in Signalled <=> Complete(s))
<1> TAKE s
<1>1. \A t \in status : t = <<t[1], t[2]>> /\ t[2] \in {"pending", "signalled"} BY DEF SemaphoreTypes
<1>2. s \in Signalling <=> Pending(s) BY <1>1 DEF Signalling, Pending
<1>3. s \in Signalled <=> Complete(s) BY <1>1 DEF Signalled, Complete
<1> QED BY <1>2, <1>3

LEMMA SemaphoreFacts ==
  ASSUME SInv
  PROVE  /\ jobs \in Seq(JobType) /\ presents \in Seq(PresentType)
         /\ Len(jobs) \in Nat /\ DOMAIN jobs = 1..Len(jobs)
         /\ Len(presents) \in Nat /\ DOMAIN presents = 1..Len(presents)
         /\ \A k \in DOMAIN jobs : jobs[k] \in JobType
         /\ \A k \in DOMAIN presents : presents[k] \in PresentType
         /\ generation \in Nat /\ m_current_index \in Image
         /\ \A i \in Image : available[i] \in Semaphore /\ finished[i] \in Semaphore
         /\ m_acquire_semaphore \in Semaphore
<1>1. jobs \in Seq(JobType) /\ presents \in Seq(PresentType)
  BY DEF SInv, IInv, TypeOK, JobType, SemaphoreTypes
<1>2. /\ Len(jobs) \in Nat /\ DOMAIN jobs = 1..Len(jobs)
      /\ Len(presents) \in Nat /\ DOMAIN presents = 1..Len(presents)
      /\ \A k \in DOMAIN jobs : jobs[k] \in JobType
      /\ \A k \in DOMAIN presents : presents[k] \in PresentType
  BY <1>1, LenProperties, ElementOfSeq
<1>3. /\ generation \in Nat /\ m_current_index \in Image
      /\ \A i \in Image : available[i] \in Semaphore /\ finished[i] \in Semaphore
      /\ m_acquire_semaphore \in Semaphore
  BY FrameSyncAssumption DEF SInv, IInv, TypeOK
<1> QED BY <1>1, <1>2, <1>3

LEMMA InitSemaphores ==
  ASSUME Init PROVE SInv
<1> USE FrameSyncAssumption
<1>1. IInv BY InitFences
<1>2. /\ jobs = <<>> /\ presents = <<>> /\ DOMAIN jobs = {} /\ DOMAIN presents = {} /\ status = {}
      /\ generation = 0 /\ pc = "start_frame" /\ \A i \in Image : image[i] = "free"
  BY DEF Init
<1>3. SemaphoreTypes BY <1>2, EmptySeq DEF SemaphoreTypes
<1>4. Names
  <2>1. /\ \A i \in Image : available[i] = Available(0, i) /\ finished[i] = Finished(0, i)
        /\ m_acquire_semaphore[1] = "acquire" /\ m_acquire_semaphore[2] = 0
    BY DEF Init
  <2> QED BY <1>2, <2>1, SemaphoreNames DEF Names
<1>5. Presents /\ Owners /\ Submits BY <1>2 DEF Presents, Owners, Submits, Busy
<1>6. Statuses BY <1>2 DEF Statuses, Busy, Pending, Complete
<1> QED BY <1>1, <1>3, <1>4, <1>5, <1>6 DEF SInv

(* The steps of a frame that do nothing with semaphores. *)
LEMMA SameSemaphores ==
  ASSUME SInv, IInv',
         UNCHANGED <<available, finished, m_acquire_semaphore, generation, m_current_index,
                     status, jobs, presents, image>>,
         pc' \in Busy <=> pc \in Busy, pc' = "present" <=> pc = "present"
  PROVE  SInv'
<1>1. SemaphoreTypes' /\ Names' /\ Presents' BY DEF SInv, SemaphoreTypes, Names, Presents
<1>2. Owners' BY DEF SInv, Owners
<1>3. Submits' BY DEF SInv, Submits
<1>4. Statuses' BY DEF SInv, Statuses, Pending, Complete
<1> QED BY <1>1, <1>2, <1>3, <1>4 DEF SInv

LEMMA AcquireImage ==
  ASSUME SInv, IInv', acquire_image
  PROVE  SInv'
<1> USE SemaphoreFacts
<1> DEFINE A == m_acquire_semaphore
<1>1. PICK i \in Image : /\ image[i] = "free" /\ image' = [image EXCEPT ![i] = "acquired"]
                         /\ update_current_index(i)
  BY DEF acquire_image
<1>2. /\ pc = "acquire_image" /\ pc' = "wait_fence" /\ m_current_index' = i
      /\ available' = [available EXCEPT ![i] = A] /\ m_acquire_semaphore' = available[i]
      /\ status' = status \cup {<<A, "pending">>}
      /\ UNCHANGED <<generation, finished, jobs, presents>>
  BY <1>1 DEF acquire_image, update_current_index, Run, StartSignal, delay
<1>3. /\ \A j \in Image : available'[j] = IF j = i THEN A ELSE available[j]
      /\ \A j \in Image : image'[j] = IF j = i THEN "acquired" ELSE image[j]
  BY <1>1, <1>2 DEF SInv, IInv, TypeOK
<1>4. ~Pending(A) /\ ~Complete(A) /\ A[1] # "finished"
  <2>1. A[1] # "finished" /\ \A j \in Image : available[j] # A BY DEF SInv, Names
  <2>2. \A k \in DOMAIN jobs : jobs[k].available # A BY <2>1 DEF SInv, Submits
  <2>3. pc \notin Busy BY <1>2 DEF Busy
  <2> QED BY <2>1, <2>2, <2>3 DEF SInv, Statuses
<1>5. /\ \A s : Pending(s)' <=> Pending(s) \/ s = A
      /\ \A s : Complete(s)' <=> Complete(s)
  BY <1>2 DEF Pending, Complete
<1>6. SemaphoreTypes' BY <1>2 DEF SInv, SemaphoreTypes
<1>7. Names' BY <1>1, <1>2, <1>3 DEF SInv, Names
<1>8. Presents' BY <1>2 DEF SInv, Presents
<1>9. Owners'
  <2>1. pc \notin Busy \cup {"present"} /\ pc' \in Busy \cup {"present"} BY <1>2 DEF Busy
  <2> QED BY <1>1, <1>2, <1>3, <2>1 DEF SInv, Owners
<1>10. Submits'
  <2>1. ASSUME NEW k \in DOMAIN jobs
        PROVE  \E j \in Image : /\ jobs[k].available = available'[j] /\ jobs[k].finished = finished[j]
                                /\ image'[j] = "presented"
    <3>1. PICK j \in Image : /\ jobs[k].available = available[j] /\ jobs[k].finished = finished[j]
                             /\ image[j] = "presented"
      BY <1>2 DEF SInv, Submits
    <3>2. j # i BY <1>1, <3>1
    <3> QED BY <1>3, <3>1, <3>2
  <2> QED BY <1>2, <2>1 DEF SInv, Submits
<1>11. Statuses'
  <2>1. pc \notin Busy /\ pc' \in Busy /\ pc # "present" BY <1>2 DEF Busy
  <2>2. available'[m_current_index'] = A BY <1>2, <1>3
  <2>3. \A s \in Semaphore : ~(Pending(s)' /\ Complete(s)') BY <1>4, <1>5 DEF SInv, Statuses
  <2>4. \A s \in Semaphore : (Pending(s)' \/ Complete(s)') /\ s[1] # "finished" =>
          (\E k \in DOMAIN jobs : jobs[k].available = s) \/ s = A
    BY <1>5, <2>1 DEF SInv, Statuses
  <2>5. \A s \in Semaphore : s[1] = "finished" =>
          (Pending(s)' <=> \E k \in DOMAIN jobs : jobs[k].finished = s)
    BY <1>4, <1>5 DEF SInv, Statuses
  <2>6. \A s \in Semaphore : s[1] = "finished" /\ Complete(s)' =>
          \E k \in DOMAIN presents : presents[k].finished = s
    BY <1>5, <2>1 DEF SInv, Statuses
  <2>7. Pending(available[m_current_index])' BY <1>2, <2>2 DEF Pending
  <2> QED BY <1>2, <2>1, <2>2, <2>3, <2>4, <2>5, <2>6, <2>7 DEF Statuses
<1> QED BY <1>6, <1>7, <1>8, <1>9, <1>10, <1>11 DEF SInv

LEMMA SubmitSemaphores ==
  ASSUME SInv, IInv', submit
  PROVE  SInv'
<1> USE SemaphoreFacts
<1> DEFINE c == m_current_index
           job == [resource |-> m_resource_index, available |-> available[c], finished |-> finished[c]]
<1>1. /\ pc = "submit" /\ pc' = "present" /\ jobs' = Append(jobs, job)
      /\ status' = status \cup {<<finished[c], "pending">>}
      /\ UNCHANGED <<generation, m_current_index, available, finished, m_acquire_semaphore, presents, image>>
  BY DEF submit, Run, StartSignal, swapchain
<1>2. job \in JobType /\ job.available = available[c] /\ job.finished = finished[c]
  BY DEF JobType, SInv, IInv, TypeOK
<1> HIDE DEF job
<1>3. /\ DOMAIN jobs' = 1..Len(jobs)+1 /\ jobs'[Len(jobs)+1] = job
      /\ \A k \in DOMAIN jobs : k \in DOMAIN jobs' /\ jobs'[k] = jobs[k]
      /\ \A k \in DOMAIN jobs' : k \in DOMAIN jobs \/ k = Len(jobs)+1
      /\ Len(jobs)+1 \in DOMAIN jobs'
  <2>1. /\ jobs' \in Seq(JobType) /\ Len(jobs') = Len(jobs)+1
        /\ jobs'[Len(jobs)+1] = job /\ \A k \in 1..Len(jobs) : jobs'[k] = jobs[k]
    BY <1>1, <1>2, AppendProperties
  <2>2. DOMAIN jobs' = 1..Len(jobs)+1 BY <2>1, LenProperties
  <2> QED BY <2>1, <2>2
<1>4. /\ image[c] = "acquired" /\ pc \in Busy /\ pc' \notin Busy /\ pc # "present" /\ finished[c] = Finished(generation, c)
      /\ finished[c][1] = "finished"
  BY <1>1, SemaphoreNames DEF Busy, SInv, Owners, Names
<1>5. ~Complete(finished[c])
  <2> SUFFICES ASSUME Complete(finished[c]) PROVE FALSE OBVIOUS
  <2>1. PICK k \in DOMAIN presents : presents[k].finished = finished[c]
    BY <1>4 DEF SInv, Statuses
  <2>2. presents[k].generation = generation /\ presents[k].image = c
    BY <1>4, <2>1, SemaphoreNames DEF SInv, Presents
  <2> QED BY <1>4, <2>2 DEF SInv, Owners
<1>6. /\ \A s : Pending(s)' <=> Pending(s) \/ s = finished[c]
      /\ \A s : Complete(s)' <=> Complete(s)
  BY <1>1 DEF Pending, Complete
<1>7. SemaphoreTypes' BY <1>1 DEF SInv, SemaphoreTypes
<1>8. Names' /\ Presents' BY <1>1 DEF SInv, Names, Presents
<1>9. Owners'
  <2>1. pc \in Busy \cup {"present"} /\ pc' \in Busy \cup {"present"} BY <1>1 DEF Busy
  <2> QED BY <1>1, <2>1 DEF SInv, Owners
<1>10. \A k \in DOMAIN jobs : jobs[k].available # available[c]
  <2> TAKE k \in DOMAIN jobs
  <2>1. PICK i \in Image : jobs[k].available = available[i] /\ image[i] = "presented"
    BY <1>4 DEF SInv, Submits
  <2>2. i # c BY <1>4, <2>1
  <2> QED BY <2>1, <2>2 DEF SInv, Names
<1>11. Submits'
  <2>1. ASSUME NEW k \in DOMAIN jobs'
        PROVE  \E i \in Image : /\ jobs'[k].available = available[i] /\ jobs'[k].finished = finished[i]
                                /\ image[i] = "presented" \/ i = c
    <3>1. CASE k \in DOMAIN jobs BY <1>3, <1>4, <3>1 DEF SInv, Submits
    <3>2. CASE k = Len(jobs)+1 BY <1>2, <1>3, <3>2
    <3> QED BY <1>3, <3>1, <3>2
  <2>2. ASSUME NEW k \in DOMAIN jobs', NEW l \in DOMAIN jobs', jobs'[k].available = jobs'[l].available
        PROVE  k = l
    <3>1. CASE k \in DOMAIN jobs /\ l \in DOMAIN jobs BY <1>3, <2>2, <3>1 DEF SInv, Submits
    <3>2. CASE k \in DOMAIN jobs /\ l = Len(jobs)+1 BY <1>2, <1>3, <1>10, <2>2, <3>2
    <3>3. CASE k = Len(jobs)+1 /\ l \in DOMAIN jobs BY <1>2, <1>3, <1>10, <2>2, <3>3
    <3> QED BY <1>3, <3>1, <3>2, <3>3
  <2> QED BY <1>1, <2>1, <2>2 DEF Submits
<1>12. Statuses'
  <2>1. \A s \in Semaphore : ~(Pending(s)' /\ Complete(s)') BY <1>5, <1>6 DEF SInv, Statuses
  <2>2. \A s \in Semaphore : (Pending(s)' \/ Complete(s)') /\ s[1] # "finished" =>
          \E k \in DOMAIN jobs' : jobs'[k].available = s
    <3> SUFFICES ASSUME NEW s \in Semaphore, Pending(s)' \/ Complete(s)', s[1] # "finished"
                 PROVE  \E k \in DOMAIN jobs' : jobs'[k].available = s
      OBVIOUS
    <3>1. (\E k \in DOMAIN jobs : jobs[k].available = s) \/ s = available[c]
      BY <1>4, <1>6 DEF SInv, Statuses
    <3> QED BY <1>2, <1>3, <3>1
  <2>3. \A s \in Semaphore : s[1] = "finished" =>
          (Pending(s)' <=> \E k \in DOMAIN jobs' : jobs'[k].finished = s)
    <3> SUFFICES ASSUME NEW s \in Semaphore, s[1] = "finished"
                 PROVE  Pending(s)' <=> \E k \in DOMAIN jobs' : jobs'[k].finished = s
      OBVIOUS
    <3>1. Pending(s) <=> \E k \in DOMAIN jobs : jobs[k].finished = s BY DEF SInv, Statuses
    <3>2. (\E k \in DOMAIN jobs' : jobs'[k].finished = s) <=>
            (\E k \in DOMAIN jobs : jobs[k].finished = s) \/ s = finished[c]
      BY <1>2, <1>3
    <3> QED BY <1>6, <3>1, <3>2
  <2>4. \A s \in Semaphore : s[1] = "finished" /\ Complete(s)' =>
          \E k \in DOMAIN presents : presents[k].finished = s
    BY <1>4, <1>6 DEF SInv, Statuses
  <2> QED BY <1>1, <1>4, <2>1, <2>2, <2>3, <2>4 DEF Statuses
<1> QED BY <1>7, <1>8, <1>9, <1>11, <1>12 DEF SInv

LEMMA PresentSemaphores ==
  ASSUME SInv, IInv', finish_frame \/ finish_frame_out_of_date
  PROVE  SInv'
<1> USE SemaphoreFacts
<1> DEFINE c == m_current_index
           p == [finished |-> finished[c], image |-> c, generation |-> generation]
           N == Len(presents)
<1>1. /\ pc = "present" /\ pc' \in {"step", "wait_all_fences"} /\ presents' = Append(presents, p)
      /\ image' = [image EXCEPT ![c] = "presented"]
      /\ UNCHANGED <<generation, m_current_index, available, finished, m_acquire_semaphore, status, jobs>>
  BY DEF finish_frame, finish_frame_out_of_date, present, Run, swapchain
<1>2. p \in PresentType /\ p.finished = finished[c] /\ p.image = c /\ p.generation = generation
  BY DEF PresentType
<1> HIDE DEF p
<1>3. /\ presents' \in Seq(PresentType) /\ DOMAIN presents' = 1..N+1 /\ presents'[N+1] = p
      /\ \A k \in DOMAIN presents : k \in DOMAIN presents' /\ presents'[k] = presents[k] /\ k < N+1
      /\ \A k \in DOMAIN presents' : k \in DOMAIN presents \/ k = N+1
      /\ N+1 \in DOMAIN presents'
  <2>1. /\ presents' \in Seq(PresentType) /\ Len(presents') = N+1
        /\ presents'[N+1] = p /\ \A k \in 1..N : presents'[k] = presents[k]
    BY <1>1, <1>2, AppendProperties
  <2>2. DOMAIN presents' = 1..N+1 BY <2>1, LenProperties
  <2> QED BY <2>1, <2>2
<1>4. /\ image[c] = "acquired" /\ pc \notin Busy /\ pc' \notin Busy \cup {"present"}
      /\ finished[c] = Finished(generation, c)
      /\ \A i \in Image : image'[i] = IF i = c THEN "presented" ELSE image[i]
  BY <1>1 DEF Busy, SInv, Owners, Names, IInv, TypeOK
<1>5. \A k \in DOMAIN presents : presents[k].finished # finished[c]
  <2> SUFFICES ASSUME NEW k \in DOMAIN presents, presents[k].finished = finished[c] PROVE FALSE OBVIOUS
  <2>1. presents[k].generation = generation /\ presents[k].image = c
    BY <1>4, SemaphoreNames DEF SInv, Presents
  <2> QED BY <1>4, <2>1 DEF SInv, Owners
<1>6. SemaphoreTypes' BY <1>1, <1>3 DEF SInv, SemaphoreTypes
<1>7. Names' BY <1>1 DEF SInv, Names
<1>8. Presents'
  <2>1. \A k \in DOMAIN presents' :
          /\ presents'[k].finished = Finished(presents'[k].generation, presents'[k].image)
          /\ presents'[k].generation <= generation
    <3> TAKE k \in DOMAIN presents'
    <3>1. CASE k \in DOMAIN presents BY <1>3, <3>1 DEF SInv, Presents
    <3>2. CASE k = N+1 BY <1>2, <1>3, <1>4, <3>2
    <3> QED BY <1>3, <3>1, <3>2
  <2>2. \A k, l \in DOMAIN presents' : presents'[k].finished = presents'[l].finished => k = l
    <3> TAKE k, l \in DOMAIN presents'
    <3> HAVE presents'[k].finished = presents'[l].finished
    <3>1. CASE k \in DOMAIN presents /\ l \in DOMAIN presents BY <1>3, <3>1 DEF SInv, Presents
    <3>2. CASE k \in DOMAIN presents /\ l = N+1 BY <1>2, <1>3, <1>5, <3>2
    <3>3. CASE k = N+1 /\ l \in DOMAIN presents BY <1>2, <1>3, <1>5, <3>3
    <3> QED BY <1>3, <3>1, <3>2, <3>3
  <2>3. \A k, l \in DOMAIN presents' : k <= l => presents'[k].generation <= presents'[l].generation
    <3> TAKE k, l \in DOMAIN presents'
    <3> HAVE k <= l
    <3>1. CASE l \in DOMAIN presents
      <4>1. k \in DOMAIN presents BY <1>3, <3>1
      <4> QED BY <1>3, <3>1, <4>1 DEF SInv, Presents
    <3>2. CASE l = N+1 BY <1>2, <1>3, <2>1, <3>2
    <3> QED BY <1>3, <3>1, <3>2
  <2> QED BY <1>1, <2>1, <2>2, <2>3 DEF Presents
<1>9. Owners'
  <2> SUFFICES ASSUME NEW i \in Image
               PROVE  /\ image'[i] # "acquired"
                      /\ image'[i] = "presented" <=>
                           \E k \in DOMAIN presents' : /\ presents'[k].generation = generation
                                                       /\ presents'[k].image = i
    BY <1>1, <1>4 DEF Owners
  <2>1. CASE i = c BY <1>2, <1>3, <1>4, <2>1
  <2>2. CASE i # c
    <3>1. image'[i] = image[i] /\ image[i] # "acquired" BY <1>1, <1>4, <2>2 DEF SInv, Owners
    <3>2. image[i] = "presented" <=>
            \E k \in DOMAIN presents : presents[k].generation = generation /\ presents[k].image = i
      BY DEF SInv, Owners
    <3> QED BY <1>2, <1>3, <2>2, <3>1, <3>2
  <2> QED BY <2>1, <2>2
<1>10. Submits' BY <1>1, <1>4 DEF SInv, Submits
<1>11. Statuses'
  <2>1. \A s \in Semaphore : s[1] = "finished" /\ Complete(s) =>
          \E k \in DOMAIN presents' : presents'[k].finished = s
    <3> SUFFICES ASSUME NEW s \in Semaphore, s[1] = "finished", Complete(s)
                 PROVE  \E k \in DOMAIN presents' : presents'[k].finished = s
      OBVIOUS
    <3>1. (\E k \in DOMAIN presents : presents[k].finished = s) \/ s = finished[c]
      BY DEF SInv, Statuses
    <3> QED BY <1>2, <1>3, <3>1
  <2> QED BY <1>1, <1>4, <2>1 DEF SInv, Statuses, Pending, Complete
<1> QED BY <1>6, <1>7, <1>8, <1>9, <1>10, <1>11 DEF SInv

LEMMA RecreateSemaphores ==
  ASSUME SInv, IInv', recreate
  PROVE  SInv'
<1> USE SemaphoreFacts
<1> DEFINE g == generation + 1
<1>1. /\ pc = "recreate" /\ pc' = "start_frame" /\ generation' = g
      /\ available' = [i \in Image |-> Available(g, i)] /\ finished' = [i \in Image |-> Finished(g, i)]
      /\ image' = [i \in Image |-> "free"]
      /\ UNCHANGED <<m_current_index, m_acquire_semaphore, status, jobs, presents>>
  BY DEF recreate, Run
<1>2. \A k \in DOMAIN jobs : FALSE
  <2> TAKE k \in DOMAIN jobs
  <2>1. ~fence[jobs[k].resource] /\ jobs[k].resource \in Resource BY DEF SInv, IInv, Fences, JobType
  <2> QED BY <1>1, <2>1 DEF SInv, IInv, Fences
<1>3. g \in Nat /\ generation < g BY DEF SInv
<1> HIDE DEF g
<1>4. pc \notin Busy \cup {"present"} /\ pc' \notin Busy \cup {"present"} BY <1>1 DEF Busy
<1>5. SemaphoreTypes' BY <1>1 DEF SInv, SemaphoreTypes
<1>6. Names'
  <2>1. /\ \A i \in Image : available'[i] = Available(g, i) /\ finished'[i] = Finished(g, i) BY <1>1
  <2>2. /\ m_acquire_semaphore[1] # "finished" /\ m_acquire_semaphore[2] <= generation
        /\ m_acquire_semaphore[2] \in Nat
    BY DEF SInv, Names, Semaphore
  <2>3. \A i \in Image : available'[i] # m_acquire_semaphore
    <3> TAKE i \in Image
    <3>1. available'[i][2] = g BY <2>1, SemaphoreNames
    <3> QED BY <1>3, <2>2, <3>1
  <2>4. \A i, j \in Image : available'[i] = available'[j] => i = j BY <2>1, SemaphoreNames
  <2>5. \A i \in Image : available'[i][1] # "finished" /\ available'[i][2] <= g
    BY <1>3, <2>1, SemaphoreNames
  <2>6. m_acquire_semaphore[2] <= g BY <1>3, <2>2
  <2> QED BY <1>1, <2>1, <2>2, <2>3, <2>4, <2>5, <2>6 DEF Names
<1>7. \A k \in DOMAIN presents : presents[k].generation <= generation /\ presents[k].generation \in Nat
  BY DEF SInv, Presents, PresentType
<1>8. Presents'
  <2>1. \A k \in DOMAIN presents : presents[k].generation <= g BY <1>3, <1>7
  <2> QED BY <1>1, <2>1 DEF SInv, Presents
<1>9. Owners'
  <2>1. \A k \in DOMAIN presents : presents[k].generation # g BY <1>3, <1>7
  <2>2. \A i \in Image : image'[i] = "free" BY <1>1
  <2> QED BY <1>1, <1>4, <2>1, <2>2 DEF Owners
<1>10. Submits' BY <1>1, <1>2 DEF Submits
<1>11. Statuses'
  <2>1. Statuses BY DEF SInv
  <2> QED BY <1>1, <1>2, <1>4, <2>1 DEF Statuses, Pending, Complete
<1> QED BY <1>5, <1>6, <1>8, <1>9, <1>10, <1>11 DEF SInv

LEMMA ImageAvailable ==
  ASSUME SInv, IInv', image_available
  PROVE  SInv'
<1> USE SemaphoreFacts
<1>1. PICK x \in Signalling : x[1] # "finished" /\ status' = CompleteSignal(x)
  BY DEF image_available
<1>2. UNCHANGED <<pc, generation, m_current_index, available, finished, m_acquire_semaphore, jobs, presents, image>>
  BY DEF image_available, swapchain
<1>3. Pending(x) BY <1>1, StatusSets DEF SInv
<1>4. x \in Semaphore BY <1>3 DEF Pending, SInv, SemaphoreTypes
<1>5. /\ \A s : Pending(s)' <=> Pending(s) /\ s # x
      /\ \A s : Complete(s)' <=> Complete(s) \/ s = x
  BY <1>1 DEF Pending, Complete, CompleteSignal
<1>6. SemaphoreTypes' BY <1>1, <1>2, <1>4 DEF SInv, SemaphoreTypes, CompleteSignal
<1>7. Names' /\ Presents' BY <1>2 DEF SInv, Names, Presents
<1>8. Owners' BY <1>2 DEF SInv, Owners
<1>9. Submits' BY <1>2 DEF SInv, Submits
<1>10. Statuses'
  <2>1. \A s \in Semaphore : ~(Pending(s)' /\ Complete(s)') BY <1>5 DEF SInv, Statuses
  <2>2. \A s : Pending(s)' \/ Complete(s)' <=> Pending(s) \/ Complete(s) BY <1>3, <1>5
  <2>3. (pc \in Busy => Pending(available[m_current_index]) \/ Complete(available[m_current_index]))'
    BY <1>2, <2>2 DEF SInv, Statuses, Pending, Complete
  <2>4. \A s : s[1] = "finished" => (Pending(s)' <=> Pending(s)) /\ (Complete(s)' <=> Complete(s))
    BY <1>1, <1>5
  <2> QED BY <1>2, <2>1, <2>2, <2>3, <2>4 DEF SInv, Statuses
<1> QED BY <1>6, <1>7, <1>8, <1>9, <1>10 DEF SInv

LEMMA ExecuteSemaphores ==
  ASSUME SInv, IInv', execute
  PROVE  SInv'
<1> USE SemaphoreFacts
<1> DEFINE job == jobs[1]
           c == m_current_index
<1>1. /\ jobs # <<>> /\ job \in JobType /\ 1 \in DOMAIN jobs /\ Head(jobs) = job
      /\ DOMAIN jobs' = 1..Len(jobs)-1
      /\ \A k \in DOMAIN jobs' : k+1 \in DOMAIN jobs /\ k+1 # 1 /\ jobs'[k] = jobs[k+1]
      /\ \A k \in DOMAIN jobs : k # 1 => k-1 \in DOMAIN jobs' /\ jobs'[k-1] = jobs[k]
  <2>1. jobs # <<>> /\ jobs' = Tail(jobs) BY DEF execute
  <2>2. /\ jobs' \in Seq(JobType) /\ Len(jobs) >= 1 /\ Len(jobs') = Len(jobs)-1 /\ DOMAIN jobs' = 1..Len(jobs)-1
        /\ \A k \in DOMAIN jobs' : jobs'[k] = jobs[k+1]
    BY <2>1, HeadTailProperties, LenProperties, EmptySeq
  <2>3. Head(jobs) = job BY <2>1
  <2> QED BY <2>1, <2>2, <2>3
<1>2. /\ job.available \in Signalled
      /\ status' = (status \ {<<job.available, "signalled">>, <<job.finished, "pending">>})
                     \cup {<<job.finished, "signalled">>}
      /\ UNCHANGED <<pc, generation, m_current_index, available, finished, m_acquire_semaphore, presents, image>>
  BY <1>1 DEF execute, swapchain
<1>3. job.available \in Semaphore /\ job.finished \in Semaphore BY <1>1 DEF JobType
<1>4. PICK i \in Image : /\ job.available = available[i] /\ job.finished = finished[i]
                         /\ image[i] = "presented" \/ (pc = "present" /\ i = c)
  BY <1>1 DEF SInv, Submits
<1>5. job.finished = Finished(generation, i) /\ job.finished[1] = "finished" /\ job.available[1] # "finished"
  BY <1>4, SemaphoreNames DEF SInv, Names
<1>6. Complete(job.available) /\ Pending(job.finished)
  BY <1>1, <1>2, <1>3, <1>5, StatusSets DEF SInv, Statuses
<1> HIDE DEF job
<1>7. /\ \A s : Pending(s)' <=> Pending(s) /\ s # job.finished
      /\ \A s : Complete(s)' <=> (Complete(s) /\ s # job.available) \/ s = job.finished
  <2>1. job.finished # job.available BY <1>5
  <2> QED BY <1>2, <2>1 DEF Pending, Complete
<1>8. SemaphoreTypes'
  BY <1>2, <1>3 DEF SInv, SemaphoreTypes
<1>9. Names' /\ Presents' BY <1>2 DEF SInv, Names, Presents
<1>10. Owners' BY <1>2 DEF SInv, Owners
<1>11. Submits'
  <2>1. ASSUME NEW k \in DOMAIN jobs', NEW l \in DOMAIN jobs', jobs'[k].available = jobs'[l].available
        PROVE  k = l
    <3>1. k+1 = l+1 BY SMTT(30), <1>1, <2>1 DEF SInv, Submits
    <3> QED BY <1>1, <3>1
  <2> QED BY <1>1, <1>2, <2>1 DEF SInv, Submits
<1>12. \A k \in DOMAIN jobs : k # 1 => jobs[k].available # job.available /\ jobs[k].finished # job.finished
  <2> TAKE k \in DOMAIN jobs
  <2> HAVE k # 1
  <2>1. jobs[k].available # job.available BY <1>1 DEF SInv, Submits, job
  <2>2. PICK j \in Image : jobs[k].available = available[j] /\ jobs[k].finished = finished[j]
    BY DEF SInv, Submits
  <2>3. jobs[k].finished = Finished(generation, j) BY <2>2 DEF SInv, Names
  <2>4. jobs[k].finished # job.finished BY <1>4, <1>5, <2>1, <2>2, <2>3, SemaphoreNames
  <2> QED BY <2>1, <2>4
<1>13. Statuses'
  <2>1. \A s \in Semaphore : ~(Pending(s)' /\ Complete(s)') BY <1>7 DEF SInv, Statuses
  <2>2. ASSUME NEW s \in Semaphore, Pending(s)' \/ Complete(s)', s[1] # "finished"
        PROVE  \/ \E k \in DOMAIN jobs' : jobs'[k].available = s
               \/ pc \in Busy /\ s = available[c]
    <3>1. s # job.available BY <1>3, <1>5, <1>6, <1>7, <2>2 DEF SInv, Statuses
    <3>2. Pending(s) \/ Complete(s) BY <1>5, <1>7, <2>2
    <3>3. CASE pc \in Busy /\ s = available[c] BY <3>3
    <3>4. CASE \E k \in DOMAIN jobs : jobs[k].available = s
      <4>1. PICK k \in DOMAIN jobs : jobs[k].available = s BY <3>4
      <4>2. k # 1 BY <3>1, <4>1 DEF job
      <4> QED BY <1>1, <4>1, <4>2
    <3> QED BY <2>2, <3>2, <3>3, <3>4 DEF SInv, Statuses
  <2>3. ASSUME pc \in Busy
        PROVE  Pending(available[c])' \/ Complete(available[c])'
    <3>1. pc # "present" /\ image[c] = "acquired" BY <2>3 DEF Busy, SInv, Owners
    <3>2. i # c BY <1>4, <3>1
    <3>3. available[c] # job.available /\ available[c] # job.finished
      BY <1>4, <1>5, <3>2 DEF SInv, Names
    <3>4. Pending(available[c]) \/ Complete(available[c]) BY <2>3 DEF SInv, Statuses
    <3> QED BY <1>2, <3>3, <3>4 DEF Pending, Complete
  <2>4. ASSUME NEW s \in Semaphore, s[1] = "finished"
        PROVE  Pending(s)' <=> \E k \in DOMAIN jobs' : jobs'[k].finished = s
    <3>1. Pending(s) <=> \E k \in DOMAIN jobs : jobs[k].finished = s BY <2>4 DEF SInv, Statuses
    <3>2. (\E k \in DOMAIN jobs' : jobs'[k].finished = s) <=>
            (\E k \in DOMAIN jobs : jobs[k].finished = s) /\ s # job.finished
      BY <1>1, <1>12 DEF job
    <3> QED BY <1>7, <3>1, <3>2
  <2>5. ASSUME NEW s \in Semaphore, s[1] = "finished", Complete(s)'
        PROVE  \/ \E k \in DOMAIN presents : presents[k].finished = s
               \/ pc = "present" /\ s = finished[c]
    <3>1. CASE s = job.finished
      <4>1. CASE pc = "present" /\ i = c BY <1>4, <3>1, <4>1
      <4>2. CASE image[i] = "presented"
        <5>1. PICK k \in DOMAIN presents : presents[k].generation = generation /\ presents[k].image = i
          BY <4>2 DEF SInv, Owners
        <5>2. presents[k].finished = Finished(generation, i) BY <5>1 DEF SInv, Presents
        <5> QED BY <1>5, <3>1, <5>2
      <4> QED BY <1>4, <4>1, <4>2
    <3>2. CASE s # job.finished
      <4>1. Complete(s) BY <1>7, <2>5, <3>2
      <4> QED BY <2>5, <4>1 DEF SInv, Statuses
    <3> QED BY <3>1, <3>2
  <2> QED BY <1>2, <2>1, <2>2, <2>3, <2>4, <2>5 DEF Statuses
<1> QED BY <1>8, <1>9, <1>10, <1>11, <1>13 DEF SInv

LEMMA DisplaySemaphores ==
  ASSUME SInv, IInv', display
  PROVE  SInv'
<1> USE SemaphoreFacts
<1> DEFINE p == presents[1]
<1>1. /\ p \in PresentType /\ 1 \in DOMAIN presents /\ Head(presents) = p
      /\ presents' \in Seq(PresentType)
      /\ DOMAIN presents' = 1..Len(presents)-1
      /\ \A k \in DOMAIN presents' : k+1 \in DOMAIN presents /\ k+1 # 1 /\ presents'[k] = presents[k+1]
      /\ \A k \in DOMAIN presents : k # 1 => k-1 \in DOMAIN presents' /\ presents'[k-1] = presents[k]
  <2>1. presents # <<>> /\ presents' = Tail(presents) BY DEF display
  <2>2. /\ presents' \in Seq(PresentType) /\ Len(presents) >= 1 /\ Len(presents') = Len(presents)-1
        /\ DOMAIN presents' = 1..Len(presents)-1
        /\ \A k \in DOMAIN presents' : presents'[k] = presents[k+1]
    BY <2>1, HeadTailProperties, LenProperties, EmptySeq
  <2>3. Head(presents) = p BY <2>1
  <2> QED BY <2>1, <2>2, <2>3
<1>2. /\ p.finished \in Signalled /\ status' = CompleteWait(p.finished)
      /\ image' = IF p.generation = generation THEN [image EXCEPT ![p.image] = "free"] ELSE image
      /\ UNCHANGED <<pc, generation, m_current_index, available, finished, m_acquire_semaphore, jobs>>
  BY <1>1 DEF display, swapchain
<1>3. /\ p.finished = Finished(p.generation, p.image) /\ p.finished \in Semaphore /\ p.finished[1] = "finished"
      /\ p.image \in Image
  BY <1>1, SemaphoreNames DEF SInv, Presents, PresentType
<1>4. Complete(p.finished) /\ ~Pending(p.finished)
  BY <1>2, <1>3, StatusSets DEF SInv, Statuses
<1>5. \A k \in DOMAIN presents : k # 1 => presents[k].finished # p.finished
  BY <1>1 DEF SInv, Presents
<1>6. \A j \in Image : image'[j] = IF p.generation = generation /\ j = p.image THEN "free" ELSE image[j]
  BY <1>2 DEF SInv, IInv, TypeOK
<1>7. p.generation = generation => image[p.image] = "presented"
  BY <1>1, <1>3 DEF SInv, Owners
<1> HIDE DEF p
<1>8. /\ \A s : Pending(s)' <=> Pending(s)
      /\ \A s : Complete(s)' <=> Complete(s) /\ s # p.finished
  BY <1>2 DEF Pending, Complete, CompleteWait
<1>9. SemaphoreTypes' BY <1>1, <1>2 DEF SInv, SemaphoreTypes, CompleteWait
<1>10. Names' BY <1>2 DEF SInv, Names
<1>11. Presents'
  <2>1. ASSUME NEW k \in DOMAIN presents', NEW l \in DOMAIN presents', presents'[k].finished = presents'[l].finished
        PROVE  k = l
    <3>1. k+1 = l+1 BY SMTT(30), <1>1, <2>1 DEF SInv, Presents
    <3> QED BY <1>1, <3>1
  <2>2. ASSUME NEW k \in DOMAIN presents', NEW l \in DOMAIN presents', k <= l
        PROVE  presents'[k].generation <= presents'[l].generation
    <3>1. k+1 <= l+1 BY <1>1, <2>2
    <3> QED BY SMTT(30), <1>1, <3>1 DEF SInv, Presents
  <2> QED BY <1>1, <1>2, <2>1, <2>2 DEF SInv, Presents
<1>12. Owners'
  <2> SUFFICES ASSUME NEW i \in Image
               PROVE  /\ image'[i] = "acquired" <=> image[i] = "acquired"
                      /\ image'[i] = "presented" <=>
                           \E k \in DOMAIN presents' : /\ presents'[k].generation = generation
                                                       /\ presents'[k].image = i
    BY <1>2 DEF SInv, Owners
  <2>1. image[i] = "presented" <=>
          \E k \in DOMAIN presents : presents[k].generation = generation /\ presents[k].image = i
    BY DEF SInv, Owners
  <2>2. CASE p.generation = generation /\ i = p.image
    <3>1. ASSUME NEW k \in DOMAIN presents', presents'[k].generation = generation, presents'[k].image = i
          PROVE  FALSE
      <4>1. /\ k+1 \in DOMAIN presents /\ k+1 # 1
            /\ presents[k+1].generation = generation /\ presents[k+1].image = i
        BY <1>1, <3>1
      <4>2. presents[k+1].finished = Finished(generation, i) BY <4>1 DEF SInv, Presents
      <4> QED BY <1>3, <1>5, <2>2, <4>1, <4>2
    <3> QED BY <1>6, <1>7, <2>2, <3>1
  <2>3. CASE ~(p.generation = generation /\ i = p.image)
    <3>1. image'[i] = image[i] BY <1>6, <2>3
    <3>2. (\E k \in DOMAIN presents' : presents'[k].generation = generation /\ presents'[k].image = i) <=>
            \E k \in DOMAIN presents : presents[k].generation = generation /\ presents[k].image = i
      BY <1>1, <2>3 DEF p
    <3> QED BY <2>1, <3>1, <3>2
  <2> QED BY <2>2, <2>3
<1>13. Submits'
  <2>1. ASSUME NEW k \in DOMAIN jobs
        PROVE  \E i \in Image : /\ jobs[k].available = available[i] /\ jobs[k].finished = finished[i]
                                /\ image'[i] = "presented" \/ (pc = "present" /\ i = m_current_index)
    <3>1. PICK i \in Image : /\ jobs[k].available = available[i] /\ jobs[k].finished = finished[i]
                             /\ image[i] = "presented" \/ (pc = "present" /\ i = m_current_index)
      BY DEF SInv, Submits
    <3>2. finished[i] = Finished(generation, i) /\ finished[i][1] = "finished" /\ finished[i] \in Semaphore
      BY SemaphoreNames DEF SInv, Names
    <3>3. Pending(finished[i]) BY <3>1, <3>2 DEF SInv, Statuses
    <3>4. ~(p.generation = generation /\ i = p.image) BY <1>3, <1>4, <3>2, <3>3
    <3> QED BY <1>6, <3>1, <3>4
  <2> QED BY <1>2, <2>1 DEF SInv, Submits
<1>14. Statuses'
  <2>1. \A s \in Semaphore : ~(Pending(s)' /\ Complete(s)') BY <1>8 DEF SInv, Statuses
  <2>2. \A s \in Semaphore : s[1] # "finished" => (Complete(s)' <=> Complete(s)) BY <1>3, <1>8
  <2>3. ASSUME pc \in Busy
        PROVE  Pending(available[m_current_index])' \/ Complete(available[m_current_index])'
    <3>1. Pending(available[m_current_index]) \/ Complete(available[m_current_index])
      BY <2>3 DEF SInv, Statuses
    <3>2. available[m_current_index] # p.finished BY <1>3 DEF SInv, Names
    <3> QED BY <1>2, <3>1, <3>2 DEF Pending, Complete, CompleteWait
  <2>4. ASSUME NEW s \in Semaphore, s[1] = "finished", Complete(s)'
        PROVE  \/ \E k \in DOMAIN presents' : presents'[k].finished = s
               \/ pc = "present" /\ s = finished[m_current_index]
    <3>1. Complete(s) /\ s # p.finished BY <1>8, <2>4
    <3>2. CASE pc = "present" /\ s = finished[m_current_index] BY <3>2
    <3>3. CASE \E k \in DOMAIN presents : presents[k].finished = s
      <4>1. PICK k \in DOMAIN presents : presents[k].finished = s BY <3>3
      <4>2. k # 1 BY <3>1, <4>1 DEF p
      <4> QED BY <1>1, <4>1, <4>2
    <3> QED BY <2>4, <3>1, <3>2, <3>3 DEF SInv, Statuses
  <2> QED BY <1>2, <1>8, <2>1, <2>2, <2>3, <2>4 DEF SInv, Statuses
<1> QED BY <1>9, <1>10, <1>11, <1>12, <1>13, <1>14 DEF SInv

LEMMA NextSemaphores ==
  ASSUME SInv, [Next]_vars PROVE SInv'
<1>1. IInv' BY NextFences DEF SInv
<1>2. CASE \/ start_frame \/ acquire_out_of_date \/ wait_command_buffer_completed
           \/ reset_fences \/ wait_for_all_fences
  <2>1. /\ UNCHANGED <<available, finished, m_acquire_semaphore, generation, m_current_index,
                        status, jobs, presents, image>>
        /\ pc' \in Busy <=> pc \in Busy
        /\ pc' = "present" <=> pc = "present"
    BY <1>2 DEF start_frame, acquire_out_of_date, wait_command_buffer_completed, reset_fences,
                wait_for_all_fences, Run, Busy, swapchain, queues
  <2> QED BY <1>1, <2>1, SameSemaphores
<1>3. CASE step
  <2>1. /\ UNCHANGED <<available, finished, m_acquire_semaphore, generation, m_current_index,
                        status, jobs, presents, image>>
        /\ pc' \in Busy <=> pc \in Busy
        /\ pc' = "present" <=> pc = "present"
    BY <1>3 DEF step, Busy, swapchain, queues
  <2> QED BY <1>1, <2>1, SameSemaphores
<1>4. CASE acquire_image BY <1>1, <1>4, AcquireImage
<1>5. CASE submit BY <1>1, <1>5, SubmitSemaphores
<1>6. CASE finish_frame \/ finish_frame_out_of_date BY <1>1, <1>6, PresentSemaphores
<1>7. CASE recreate BY <1>1, <1>7, RecreateSemaphores
<1>8. CASE image_available BY <1>1, <1>8, ImageAvailable
<1>9. CASE execute BY <1>1, <1>9, ExecuteSemaphores
<1>10. CASE display BY <1>1, <1>10, DisplaySemaphores
<1>11. CASE UNCHANGED vars
  <2>1. UNCHANGED <<available, finished, m_acquire_semaphore, generation, m_current_index,
                    status, jobs, presents, image, pc>>
    BY <1>11 DEF vars
  <2> QED BY <1>1, <2>1, SameSemaphores
<1> QED
  BY <1>2, <1>3, <1>4, <1>5, <1>6, <1>7, <1>8, <1>9, <1>10, <1>11 DEF Next, RenderLoop, Device

LEMMA InvariantSemaphores ==
  Spec => []SInv
<1>1. Init => SInv BY InitSemaphores
<1>2. SInv /\ [Next]_vars => SInv' BY NextSemaphores
<1> QED BY <1>1, <1>2, PTL DEF Spec

(* A semaphore that is not of the kind that submits signal is only used from the
   acquire that signals it until the submit that waits for it was executed. *)
LEMMA UnusedOther ==
  ASSUME SInv, NEW s \in Semaphore, s[1] # "finished",
         \A k \in DOMAIN jobs : jobs[k].available # s,
         pc \in Busy => s # available[m_current_index]
  PROVE  Unused(s)
<1> USE SemaphoreFacts
<1>1. ~Pending(s) /\ ~Complete(s) BY DEF SInv, Statuses
<1>2. \A k \in DOMAIN presents : presents[k].finished # s
  BY SemaphoreNames DEF SInv, Presents
<1>3. s \notin WaitedFor BY <1>2 DEF WaitedFor
<1> QED BY <1>1, <1>3, StatusSets DEF Unused, SInv

(* For every number of frame resources and images, in whatever order the images
   are acquired and however often the swapchain is recreated: the semaphore that is
   passed to acquire_next_image is not in use. *)
THEOREM AcquireUnused ==
  Spec => []AcquireSemaphoreUnused
<1>1. SInv => AcquireSemaphoreUnused
  <2> SUFFICES ASSUME SInv, pc = "acquire_image" PROVE Unused(m_acquire_semaphore)
    BY DEF AcquireSemaphoreUnused
  <2> USE SemaphoreFacts
  <2>1. m_acquire_semaphore[1] # "finished" /\ \A i \in Image : available[i] # m_acquire_semaphore
    BY DEF SInv, Names
  <2>2. \A k \in DOMAIN jobs : jobs[k].available # m_acquire_semaphore BY <2>1 DEF SInv, Submits
  <2>3. pc \notin Busy BY DEF Busy
  <2> QED BY <2>1, <2>2, <2>3, UnusedOther
<1> QED BY <1>1, InvariantSemaphores, PTL

(* For every number of frame resources and images: that an image could be acquired
   means that the present that waited for its semaphore was executed. *)
THEOREM FinishedUnused ==
  Spec => []RenderingFinishedUnused
<1>1. SInv => RenderingFinishedUnused
  <2> DEFINE c == m_current_index
             f == finished[c]
  <2> SUFFICES ASSUME SInv, pc \in Busy PROVE Unused(f)
    BY DEF RenderingFinishedUnused, Busy
  <2> USE SemaphoreFacts
  <2>1. /\ f = Finished(generation, c) /\ f[1] = "finished" /\ f \in Semaphore
        /\ image[c] = "acquired" /\ pc # "present"
    BY SemaphoreNames DEF Busy, SInv, Owners, Names
  <2>2. \A k \in DOMAIN presents : presents[k].finished # f
    <3> SUFFICES ASSUME NEW k \in DOMAIN presents, presents[k].finished = f PROVE FALSE OBVIOUS
    <3>1. presents[k].generation = generation /\ presents[k].image = c
      BY <2>1, SemaphoreNames DEF SInv, Presents
    <3> QED BY <2>1, <3>1 DEF SInv, Owners
  <2>3. \A k \in DOMAIN jobs : jobs[k].finished # f /\ jobs[k].available # f
    <3> TAKE k \in DOMAIN jobs
    <3>1. PICK i \in Image : /\ jobs[k].available = available[i] /\ jobs[k].finished = finished[i]
                             /\ image[i] = "presented"
      BY <2>1 DEF SInv, Submits
    <3>2. i # c BY <2>1, <3>1
    <3>3. finished[i] # f BY <2>1, <3>2, SemaphoreNames DEF SInv, Names
    <3> QED BY <2>1, <3>1, <3>3 DEF SInv, Names
  <2>4. ~Pending(f) /\ ~Complete(f) BY <2>1, <2>2, <2>3 DEF SInv, Statuses
  <2>5. f \notin WaitedFor BY <2>2, <2>3 DEF WaitedFor
  <2> QED BY <2>4, <2>5, StatusSets DEF Unused, SInv
<1> QED BY <1>1, InvariantSemaphores, PTL

(* For every number of frame resources and images: a submit waits for a semaphore
   that the acquire of its own image signals, and that nothing else waits for,
   although the semaphore of an image changes with every acquire. *)
THEOREM SubmitWaits ==
  Spec => []SubmitWaitsForItsImage
<1>1. SInv => SubmitWaitsForItsImage
  <2> DEFINE c == m_current_index
             a == available[c]
  <2> SUFFICES ASSUME SInv, pc \in Busy PROVE a \in Signalling \cup Signalled /\ a \notin WaitedFor
    BY DEF SubmitWaitsForItsImage, Busy
  <2> USE SemaphoreFacts
  <2>1. /\ a[1] # "finished" /\ image[c] = "acquired" /\ pc # "present"
    BY DEF Busy, SInv, Owners, Names
  <2>2. Pending(a) \/ Complete(a) BY DEF SInv, Statuses
  <2>3. \A k \in DOMAIN presents : presents[k].finished # a
    BY <2>1, SemaphoreNames DEF SInv, Presents
  <2>4. \A k \in DOMAIN jobs : jobs[k].available # a
    <3> TAKE k \in DOMAIN jobs
    <3>1. PICK i \in Image : jobs[k].available = available[i] /\ image[i] = "presented"
      BY <2>1 DEF SInv, Submits
    <3>2. i # c BY <2>1, <3>1
    <3> QED BY <3>1, <3>2 DEF SInv, Names
  <2>5. a \notin WaitedFor BY <2>3, <2>4 DEF WaitedFor
  <2> QED BY <2>2, <2>5, StatusSets DEF SInv
<1> QED BY <1>1, InvariantSemaphores, PTL
---------------------------------------------------------------------------
(* The delayed destruction of semaphores. *)

FreeImages == {j \in Image : image[j] = "free"}
Free == Cardinality(FreeImages)

(* The slot d completed frames after slot p. *)
Later(p, d) == (p + d) % Slots

(* A present of the swapchain before this one was not executed. *)
Old == \E k \in DOMAIN presents : presents[k].generation + 1 = generation

(* A frame that was started but is not counted by step yet. *)
Started == IF pc \in Busy \cup {"present", "step"} THEN 1 ELSE 0

(* The swapchain is not going to be recreated before the next frame. *)
Current == pc \notin {"wait_all_fences", "recreate"}

(* The presents are executed in order: as long as there is one of the old swapchain
   no image of the current one becomes free again. Every frame takes one, and
   moves a slot closer to the semaphores of the old swapchain. *)
Delayed ==
  /\ \A q \in 0..Slots-1 : \A s \in m_queue[q] : \E g \in Nat, i \in Image : s = Finished(g, i) /\ g < generation
  /\ Free >= 1
  /\ Old /\ Current =>
       /\ Free + Started <= Images
       /\ \A q \in 0..Slots-1 : (\E s \in m_queue[q] : s[2] + 1 = generation) => q = Later(pos, Free + Started)

DInv == SInv /\ m_queue \in [0..Slots-1 -> SUBSET Semaphore] /\ Delayed

LEMMA Wrap ==
  ASSUME NEW p \in 0..Slots-1, NEW d \in 0..Slots
  PROVE  Later(p, d) = IF p + d < Slots THEN p + d ELSE p + d - Slots
<1> USE FrameSyncAssumption
<1> DEFINE x == p + d
<1>1. x \in 0..2*Slots-1 /\ Slots \in Nat \ {0} OBVIOUS
<1> HIDE DEF x
<1>2. x % Slots = IF x < Slots THEN x ELSE x - Slots
  <2>1. CASE x < Slots BY <1>1, <2>1
  <2>2. CASE x >= Slots BY <1>1, <2>2
  <2> QED BY <1>1, <2>1, <2>2
<1> QED BY <1>2 DEF x, Later

LEMMA FreeFinite ==
  /\ IsFiniteSet(FreeImages) /\ Free \in Nat /\ Free <= Images
  /\ IsFiniteSet(Image) /\ Cardinality(Image) = Images
<1> USE FrameSyncAssumption
<1>1. IsFiniteSet(Image) /\ Cardinality(Image) = Images BY FS_Interval DEF Image
<1>2. FreeImages \in SUBSET Image BY DEF FreeImages
<1>3. IsFiniteSet(FreeImages) /\ Free <= Images BY <1>1, <1>2, FS_Subset DEF Free
<1> QED BY <1>1, <1>3, FS_CardinalityType DEF Free

LEMMA InitDelayed ==
  ASSUME Init PROVE DInv
<1> USE FrameSyncAssumption
<1>1. SInv BY InitSemaphores
<1>2. /\ m_queue = [q \in 0..Slots-1 |-> {}] /\ generation = 0
      /\ presents = <<>> /\ \A i \in Image : image[i] = "free"
  BY DEF Init
<1>3. FreeImages = Image BY <1>2 DEF FreeImages
<1>4. Free >= 1 BY <1>3, FreeFinite DEF Free
<1>5. ~Old BY <1>2 DEF Old
<1> QED BY <1>1, <1>2, <1>4, <1>5 DEF DInv, Delayed

(* The steps that leave the images, the presents and the slots alone. *)
LEMMA SameDelay ==
  ASSUME DInv, SInv',
         UNCHANGED <<generation, pos, m_queue, presents, image>>,
         Started' = Started, Current' => Current
  PROVE  DInv'
<1>1. FreeImages' = FreeImages BY DEF FreeImages
<1>2. Free' = Free BY <1>1 DEF Free
<1>3. Old' <=> Old BY DEF Old
<1> HIDE DEF Free, Old, Started, Current
<1> QED BY <1>2, <1>3 DEF DInv, Delayed

LEMMA AcquireDelayed ==
  ASSUME DInv, SInv', acquire_image
  PROVE  DInv'
<1>1. PICK i \in Image : image[i] = "free" /\ image' = [image EXCEPT ![i] = "acquired"]
  BY DEF acquire_image
<1>2. /\ pc = "acquire_image" /\ pc' = "wait_fence" /\ Free >= 2
      /\ UNCHANGED <<generation, pos, m_queue, presents>>
  BY DEF acquire_image, Run, delay, update_current_index, Free, FreeImages
<1>3. FreeImages' = FreeImages \ {i} BY <1>1 DEF FreeImages, DInv, SInv, IInv, TypeOK
<1>4. Free' = Free - 1
  <2>1. i \in FreeImages BY <1>1 DEF FreeImages
  <2> QED BY <1>3, <2>1, FreeFinite, FS_RemoveElement DEF Free
<1>5. Started = 0 /\ Started' = 1 /\ Current BY <1>2 DEF Started, Busy, Current
<1>6. Old' <=> Old BY <1>2 DEF Old
<1>7. Free \in Nat BY FreeFinite
<1> HIDE DEF Free, Old, Started
<1>8. Free' >= 1 BY <1>2, <1>4, <1>7
<1>9. pos \in Int BY FrameSyncAssumption DEF DInv, SInv, IInv, TypeOK
<1>10. Free' + Started' = Free + Started
  BY <1>4, <1>5, <1>7, <1>9
<1> HIDE DEF Current
<1> QED BY <1>2, <1>5, <1>6, <1>8, <1>10 DEF DInv, Delayed

LEMMA PresentDelayed ==
  ASSUME DInv, SInv', finish_frame \/ finish_frame_out_of_date
  PROVE  DInv'
<1> USE SemaphoreFacts
<1> DEFINE p == [finished |-> finished[m_current_index], image |-> m_current_index, generation |-> generation]
<1>1. /\ pc = "present" /\ presents' = Append(presents, p)
      /\ image' = [image EXCEPT ![m_current_index] = "presented"]
      /\ pc' \in {"step", "wait_all_fences"}
      /\ UNCHANGED <<generation, pos, m_queue>>
  BY DEF finish_frame, finish_frame_out_of_date, present, Run, swapchain, delay
<1>2. SInv BY DEF DInv
<1>3. image[m_current_index] = "acquired" BY <1>1, <1>2 DEF SInv, Owners
<1>4. FreeImages' = FreeImages BY <1>1, <1>3 DEF FreeImages, DInv, SInv, IInv, TypeOK
<1>5. Free' = Free BY <1>4 DEF Free
<1>6. Old' => Old
  <2> SUFFICES ASSUME NEW k \in DOMAIN presents', presents'[k].generation + 1 = generation PROVE Old
    BY <1>1 DEF Old
  <2>1. p \in PresentType /\ p.generation = generation BY <1>2 DEF PresentType
  <2> HIDE DEF p
  <2>2. /\ presents' \in Seq(PresentType) /\ Len(presents') = Len(presents)+1
        /\ presents'[Len(presents)+1] = p /\ \A l \in 1..Len(presents) : presents'[l] = presents[l]
    BY <1>1, <1>2, <2>1, AppendProperties
  <2>3. k \in 1..Len(presents) \/ k = Len(presents)+1 BY <1>2, <2>2, LenProperties
  <2>4. generation \in Nat BY <1>2
  <2>5. k # Len(presents)+1 BY <2>1, <2>2, <2>4
  <2>6. k \in DOMAIN presents /\ presents'[k] = presents[k] BY <1>2, <2>2, <2>3, <2>5
  <2> QED BY <2>6 DEF Old
<1>7. Current /\ (Current' => Started' = Started) BY <1>1 DEF Started, Busy, Current
<1> HIDE DEF Free, Old, Started, Current
<1> QED BY <1>1, <1>5, <1>6, <1>7 DEF DInv, Delayed

LEMMA DisplayDelayed ==
  ASSUME DInv, SInv', display
  PROVE  DInv'
<1> USE SemaphoreFacts, FrameSyncAssumption
<1> DEFINE p == presents[1]
<1>1. SInv BY DEF DInv
<1>2. presents # <<>> /\ presents' = Tail(presents) BY DEF display
<1>3. /\ p \in PresentType /\ 1 \in DOMAIN presents /\ Head(presents) = p
      /\ \A k \in DOMAIN presents' : k+1 \in DOMAIN presents /\ 1 <= k+1 /\ presents'[k] = presents[k+1]
  <2>1. /\ presents' \in Seq(PresentType) /\ Len(presents) >= 1 /\ Len(presents') = Len(presents)-1
        /\ \A k \in 1..Len(presents') : presents'[k] = presents[k+1]
    BY <1>1, <1>2, HeadTailProperties, EmptySeq
  <2>2. DOMAIN presents' = 1..Len(presents)-1 BY <2>1, LenProperties
  <2>3. Head(presents) = p BY <1>2
  <2> QED BY <1>1, <2>1, <2>2, <2>3
<1>4. /\ image' = IF p.generation = generation THEN [image EXCEPT ![p.image] = "free"] ELSE image
      /\ UNCHANGED <<pc, generation, pos, m_queue>>
  BY <1>3 DEF display, swapchain, delay
<1>5. p.image \in Image /\ p.generation \in Nat /\ generation \in Nat BY <1>1, <1>3 DEF PresentType
<1>6. Old' => Old /\ p.generation < generation
  <2> SUFFICES ASSUME NEW k \in DOMAIN presents', presents'[k].generation + 1 = generation
               PROVE  Old /\ p.generation < generation
    BY <1>4 DEF Old
  <2>1. k+1 \in DOMAIN presents /\ 1 <= k+1 /\ presents[k+1].generation + 1 = generation BY <1>3
  <2>2. p.generation <= presents[k+1].generation BY <1>1, <1>3, <2>1 DEF SInv, Presents
  <2>3. presents[k+1].generation \in Nat BY <1>1, <2>1 DEF PresentType
  <2> QED BY <1>5, <2>1, <2>2, <2>3 DEF Old
<1>7. Old' => FreeImages' = FreeImages
  <2> SUFFICES ASSUME p.generation < generation PROVE FreeImages' = FreeImages BY <1>6
  <2>1. p.generation # generation BY <1>5
  <2> QED BY <1>4, <2>1 DEF FreeImages
<1>8. FreeImages \subseteq FreeImages' BY <1>4, <1>5 DEF FreeImages, DInv, SInv, IInv, TypeOK
<1>9. Free' >= Free
  <2>1. FreeImages' \in SUBSET Image BY DEF FreeImages
  <2>2. IsFiniteSet(FreeImages') BY <2>1, FreeFinite, FS_Subset
  <2> QED BY <1>8, <2>2, FS_Subset DEF Free
<1>10. Free \in Nat /\ Free' \in Nat
  <2>1. FreeImages' \in SUBSET Image BY DEF FreeImages
  <2>2. IsFiniteSet(FreeImages') BY <2>1, FreeFinite, FS_Subset
  <2> QED BY <2>2, FreeFinite, FS_CardinalityType DEF Free
<1>11. Old' => Free' = Free BY <1>7 DEF Free
<1>12. Started' = Started /\ (Current' <=> Current) BY <1>4 DEF Started, Current
<1> HIDE DEF Free, Old, Started, Current, p
<1>13. Free' >= 1 BY <1>9, <1>10 DEF DInv, Delayed
<1> QED BY <1>4, <1>6, <1>11, <1>12, <1>13 DEF DInv, Delayed

(* The semaphores that step destroys are not used by a queue, except those for which a
   present of a swapchain before the last one still waits. *)
LEMMA StepDelayed ==
  ASSUME Images <= Slots, DInv, SInv', step
  PROVE  /\ DInv'
         /\ \A s \in destroyed' \ destroyed :
              \E k \in DOMAIN presents : presents[k].finished = s /\ presents[k].generation + 2 <= generation
<1> USE FrameSyncAssumption, SemaphoreFacts
<1> DEFINE q == Later(pos, 1)
<1>1. /\ pc = "step" /\ pc' \in {"start_frame", "wait_all_fences"} /\ pos' = q
      /\ m_queue' = [m_queue EXCEPT ![q] = {}]
      /\ destroyed' = destroyed \cup {s \in m_queue[q] : ~Unused(s)}
      /\ UNCHANGED <<generation, presents, image, status, jobs, finished, available, m_current_index>>
  BY DEF step, destroy, swapchain, queues, Later
<1>2. SInv BY DEF DInv
<1>3. pos \in 0..Slots-1 BY <1>2 DEF SInv, IInv, TypeOK
<1>4. q \in 0..Slots-1 /\ q = IF pos + 1 < Slots THEN pos + 1 ELSE pos + 1 - Slots
  <2>1. q = IF pos + 1 < Slots THEN pos + 1 ELSE pos + 1 - Slots BY <1>3, Wrap
  <2> HIDE DEF q
  <2> QED BY <1>3, <2>1
<1>5. /\ Started = 1 /\ Started' = 0 /\ Current BY <1>1 DEF Started, Busy, Current
<1>6. FreeImages' = FreeImages /\ (Old' <=> Old) BY <1>1 DEF FreeImages, Old
<1>7. Free' = Free /\ Free \in Nat BY <1>6, FreeFinite DEF Free
<1> HIDE DEF Free, Started, Current, q
<1>8. Free >= 1 /\ (Old => Free + 1 <= Images) BY <1>5 DEF DInv, Delayed
<1>9. ASSUME Old
      PROVE  /\ Later(q, Free) = Later(pos, Free + 1)
             /\ q # Later(pos, Free + 1)
  <2>1. Free + 1 \in 1..Slots /\ Free \in 0..Slots BY <1>7, <1>8, <1>9
  <2>2. Later(pos, Free + 1) = IF pos + (Free + 1) < Slots THEN pos + (Free + 1) ELSE pos + (Free + 1) - Slots
    BY <1>3, <2>1, Wrap
  <2>3. Later(q, Free) = IF q + Free < Slots THEN q + Free ELSE q + Free - Slots
    BY <1>4, <2>1, Wrap
  <2> QED BY <1>3, <1>4, <1>7, <1>8, <2>1, <2>2, <2>3
<1>10. Old => \A s \in m_queue[q] : s[2] + 1 # generation BY <1>4, <1>5, <1>9 DEF DInv, Delayed
<1>11. ASSUME NEW s \in m_queue[q], ~Unused(s)
       PROVE  \E k \in DOMAIN presents : presents[k].finished = s /\ presents[k].generation + 2 <= generation
  <2>1. PICK g \in Nat, i \in Image : s = Finished(g, i) /\ g < generation
    BY <1>4, <1>11 DEF DInv, Delayed
  <2>2. generation \in Nat BY <1>2
  <2>3. s \in Semaphore /\ s[1] = "finished" /\ s[2] = g BY <2>1, SemaphoreNames
  <2>4. \A j \in Image : finished[j] # s
    <3>1. \A j \in Image : finished[j] = Finished(generation, j) BY <1>2 DEF SInv, Names
    <3> QED BY <2>1, <2>2, <3>1, SemaphoreNames
  <2>5. \A k \in DOMAIN jobs : jobs[k].finished # s /\ jobs[k].available # s
    BY <1>2, <2>3, <2>4 DEF SInv, Submits, Names
  <2>6. PICK k \in DOMAIN presents : presents[k].finished = s
    <3> SUFFICES ASSUME \A k \in DOMAIN presents : presents[k].finished # s PROVE FALSE OBVIOUS
    <3>1. ~Pending(s) /\ ~Complete(s) BY <1>2, <2>3, <2>4, <2>5 DEF SInv, Statuses
    <3>2. s \notin WaitedFor BY <2>5 DEF WaitedFor
    <3> QED BY <1>2, <1>11, <3>1, <3>2, StatusSets DEF Unused, SInv
  <2>7. /\ presents[k].generation \in Nat /\ presents[k].image \in Image
        /\ presents[k].finished = Finished(presents[k].generation, presents[k].image)
    BY <1>2 DEF SInv, Presents, PresentType
  <2>8. presents[k].generation = g
    <3> DEFINE h == presents[k].generation
               j == presents[k].image
    <3>1. h \in Nat /\ j \in Image /\ s = Finished(h, j) BY <2>6, <2>7
    <3> HIDE DEF h, j
    <3>2. s[2] = h BY <3>1, SemaphoreNames
    <3> QED BY <2>3, <3>2 DEF h
  <2>9. g + 1 # generation BY <1>10, <1>11, <2>3, <2>8 DEF Old
  <2> QED BY <2>1, <2>2, <2>6, <2>8, <2>9
<1>12. \A s \in destroyed' \ destroyed :
         \E k \in DOMAIN presents : presents[k].finished = s /\ presents[k].generation + 2 <= generation
  BY <1>1, <1>11
<1>13. \A r \in 0..Slots-1 : m_queue'[r] = IF r = q THEN {} ELSE m_queue[r]
  BY <1>1 DEF DInv
<1>14. m_queue' \in [0..Slots-1 -> SUBSET Semaphore] BY <1>1 DEF DInv
<1>15. Old => Free' + Started' <= Images BY <1>5, <1>7, <1>8
<1>16. Free' + Started' = Free /\ Free + Started = Free + 1 BY <1>5, <1>7
<1>17. Old => Later(pos', Free' + Started') = Later(pos, Free + Started)
  BY <1>1, <1>9, <1>16
<1>18. Free' >= 1 BY <1>7, <1>8
<1> HIDE DEF Old
<1>19. DInv' BY <1>1, <1>5, <1>6, <1>13, <1>14, <1>15, <1>17, <1>18 DEF DInv, Delayed
<1> QED BY <1>12, <1>19

(* recreate only destroys semaphores that are not used. *)
LEMMA RecreateDelayed ==
  ASSUME DInv, SInv', recreate
  PROVE  DInv' /\ destroyed' = destroyed
<1> USE FrameSyncAssumption, SemaphoreFacts
<1> DEFINE q == Later(pos, Images)
           sems == {finished[i] : i \in Image}
<1>1. /\ pc = "recreate" /\ pc' = "start_frame" /\ generation' = generation + 1
      /\ m_queue' = [m_queue EXCEPT ![q] = @ \cup sems]
      /\ destroyed' = destroyed \cup {s \in {available[i] : i \in Image} : ~Unused(s)}
      /\ image' = [i \in Image |-> "free"]
      /\ UNCHANGED <<pos, presents>>
  BY DEF recreate, add, destroy, Run, Later
<1>2. SInv BY DEF DInv
<1>3. generation \in Nat BY <1>2
<1>4. \A r \in 0..Slots-1 : \A s \in m_queue[r] :
        \E g \in Nat, i \in Image : s = Finished(g, i) /\ g < generation
  BY DEF DInv, Delayed
<1>5. sems = {Finished(generation, i) : i \in Image} /\ sems \subseteq Semaphore BY <1>2 DEF SInv, Names
<1> HIDE DEF sems, q
<1>6. /\ m_queue' \in [0..Slots-1 -> SUBSET Semaphore]
      /\ \A r \in 0..Slots-1 : m_queue'[r] = IF r = q THEN m_queue[r] \cup sems ELSE m_queue[r]
  BY <1>1, <1>5 DEF DInv
<1>7. FreeImages' = Image BY <1>1 DEF FreeImages
<1>8. Free' = Images BY <1>7, FreeFinite DEF Free
<1>9. Started' = 0 BY <1>1 DEF Started, Busy
<1>10. \A i \in Image : Unused(available[i])
  <2> TAKE i \in Image
  <2>1. jobs = <<>>
    <3>1. \A k \in DOMAIN jobs : FALSE
      <4> TAKE k \in DOMAIN jobs
      <4>1. ~fence[jobs[k].resource] /\ jobs[k].resource \in Resource
        BY <1>2 DEF SInv, IInv, Fences, JobType
      <4> QED BY <1>1, <1>2, <4>1 DEF SInv, IInv, Fences
    <3>2. jobs \in Seq(JobType) /\ Len(jobs) \in Nat /\ DOMAIN jobs = 1..Len(jobs) BY <1>2
    <3>3. Len(jobs) = 0
      <4> SUFFICES ASSUME Len(jobs) # 0 PROVE FALSE OBVIOUS
      <4>1. 1 \in DOMAIN jobs BY <3>2
      <4> QED BY <3>1, <4>1
    <3> QED BY <3>2, <3>3, EmptySeq
  <2>2. available[i] \in Semaphore /\ available[i][1] # "finished" BY <1>2 DEF SInv, Names
  <2>3. pc \notin Busy BY <1>1 DEF Busy
  <2> QED BY <1>2, <2>1, <2>2, <2>3, UnusedOther
<1>11. destroyed' = destroyed BY <1>1, <1>10
<1>12. pos \in 0..Slots-1 BY <1>2 DEF SInv, IInv, TypeOK
<1> HIDE DEF Free, Started, Old
<1>13. pos' = pos /\ Free' + Started' = Images BY <1>1, <1>8, <1>9
<1>14. Free' + Started' <= Images /\ Free' >= 1 BY <1>8, <1>9
<1>15. \A r \in 0..Slots-1 : \A s \in m_queue'[r] :
         \E g \in Nat, i \in Image : s = Finished(g, i) /\ g < generation'
  <2> SUFFICES ASSUME NEW r \in 0..Slots-1, NEW s \in m_queue'[r]
               PROVE  \E g \in Nat, i \in Image : s = Finished(g, i) /\ g < generation'
    OBVIOUS
  <2>1. CASE s \in m_queue[r]
    <3>1. PICK g \in Nat, i \in Image : s = Finished(g, i) /\ g < generation BY <1>4, <2>1
    <3> QED BY <1>1, <1>3, <3>1
  <2>2. CASE s \in sems BY <1>1, <1>3, <1>5, <2>2
  <2> QED BY <1>6, <2>1, <2>2
<1>16. \A r \in 0..Slots-1 :
         (\E s \in m_queue'[r] : s[2] + 1 = generation') => r = Later(pos', Free' + Started')
  <2> SUFFICES ASSUME NEW r \in 0..Slots-1, r # q, NEW s \in m_queue[r], s[2] + 1 = generation'
               PROVE  FALSE
    BY <1>6, <1>13 DEF q
  <2>1. PICK g \in Nat, i \in Image : s = Finished(g, i) /\ g < generation BY <1>4
  <2>2. s[2] = g BY <2>1, SemaphoreNames
  <2> QED BY <1>1, <1>3, <2>1, <2>2
<1>17. DInv' BY <1>6, <1>14, <1>15, <1>16 DEF DInv, Delayed
<1> QED BY <1>11, <1>17

LEMMA NextDelayed ==
  ASSUME Images <= Slots, DInv, [Next]_vars
  PROVE  /\ DInv'
         /\ \A s \in destroyed' \ destroyed :
              \E k \in DOMAIN presents : presents[k].finished = s /\ presents[k].generation + 2 <= generation
<1>1. SInv' BY NextSemaphores DEF DInv
<1>2. CASE \/ start_frame \/ acquire_out_of_date \/ wait_command_buffer_completed
           \/ reset_fences \/ wait_for_all_fences \/ submit
  <2>1. /\ UNCHANGED <<generation, pos, m_queue, destroyed, presents, image>>
        /\ pc' \in Busy \cup {"present", "step"} <=> pc \in Busy \cup {"present", "step"}
        /\ pc' \in {"wait_all_fences", "recreate"} \/ pc \notin {"wait_all_fences", "recreate"}
    BY <1>2 DEF start_frame, acquire_out_of_date, wait_command_buffer_completed, reset_fences,
                wait_for_all_fences, submit, Run, Busy, swapchain, delay, queues
  <2>2. Started' = Started /\ (Current' => Current) BY <2>1 DEF Started, Current
  <2> QED BY <1>1, <2>1, <2>2, SameDelay
<1>3. CASE image_available \/ execute \/ UNCHANGED vars
  <2>1. UNCHANGED <<generation, pos, m_queue, destroyed, presents, image, pc>>
    BY <1>3 DEF image_available, execute, vars, swapchain, delay
  <2>2. Started' = Started /\ (Current' => Current) BY <2>1 DEF Started, Current
  <2> QED BY <1>1, <2>1, <2>2, SameDelay
<1>4. CASE acquire_image BY <1>1, <1>4, AcquireDelayed DEF acquire_image, delay
<1>5. CASE finish_frame \/ finish_frame_out_of_date
  BY <1>1, <1>5, PresentDelayed DEF finish_frame, finish_frame_out_of_date, present, delay
<1>6. CASE display BY <1>1, <1>6, DisplayDelayed DEF display, delay
<1>7. CASE step BY <1>1, <1>7, StepDelayed
<1>8. CASE recreate BY <1>1, <1>8, RecreateDelayed
<1> QED BY <1>2, <1>3, <1>4, <1>5, <1>6, <1>7, <1>8 DEF Next, RenderLoop, Device

(* For every number of recreations of the swapchain, of frame resources and of images,
   as long as there are not more images than slots (which the code doesn't check): of
   the last swapchain that was replaced no semaphore is destroyed while a queue or the
   presentation engine uses it. What can go wrong is a second recreation during the
   delay: the semaphores of the one before it can be destroyed under a present. *)
THEOREM DestroyedUnused ==
  ASSUME Images <= Slots
  PROVE  Spec => OnlyReplacedTwice
<1> DEFINE Step == \A s \in destroyed' \ destroyed :
             \E k \in DOMAIN presents : presents[k].finished = s /\ presents[k].generation + 2 <= generation
<1>1. Init => DInv BY InitDelayed
<1>2. DInv /\ [Next]_vars => DInv' BY NextDelayed
<1>3. DInv /\ [Next]_vars => [Step]_vars BY NextDelayed
<1> QED BY <1>1, <1>2, <1>3, PTL DEF Spec, OnlyReplacedTwice
==========================================================================
