-------------------------------- MODULE FrameLoop --------------------------------
(***************************************************************************)
(* The frame loop of the Vulkan examples: the program, the queue of the    *)
(* GPU, the presentation engine and the window, which meet in fences,      *)
(* semaphores, swapchain images and a flag that the resize callback sets.  *)
(***************************************************************************)
EXTENDS Integers, Sequences

CONSTANTS
    Frames,     \* frames_in_flight
    Images,     \* the images of a swapchain
    MaxSize,    \* the window is 0, minimised, or one of 1..MaxSize
    MaxResizes, \* bound: the resizes of a behaviour
    Careful     \* no minimising while the swapchain is made

FrameAssumption ==
    /\ {Frames, MaxSize} \subseteq Nat \ {0} /\ MaxResizes \in Nat /\ Careful \in BOOLEAN

VARIABLES
    pc,         \* where run() is
    frame,      \* the frame in flight it works on
    image,      \* image_index
    fences,     \* in_flight_fences that are signaled
    sems,       \* image_available_semaphores: off, pending or on
    gpu,        \* the submissions the GPU has not finished: frame, image and phase
    owner,      \* of each image: free, app or shown
    extent,     \* swapchain_extent
    asked,      \* width and height as recreate_swapchain read them
    resized,    \* framebuffer_resized
    wsize, event, resizes   \* external: the window, an undelivered resize, the resizes so far

vars == <<pc, frame, image, fences, sems, gpu, owner, extent, asked, resized, wsize, event, resizes>>
device == <<fences, sems, gpu, owner, extent>>
window == <<wsize, event, resizes>>

FrameSet == 0..(Frames - 1)
Recreating == {"size", "sized", "events", "idle"}
Submission == [frame : FrameSet, image : Images, phase : {"submitted", "drawing", "drawn"}]

TypeOK ==
    /\ pc \in {"top", "fence", "acquire", "submit", "timeline", "present", "closed"} \cup Recreating
    /\ frame \in FrameSet /\ image \in Images /\ fences \subseteq FrameSet
    /\ sems \in [FrameSet -> {"off", "pending", "on"}]
    /\ gpu \in Seq(Submission)
    /\ owner \in [Images -> {"free", "app", "shown"}]
    /\ extent \in 1..MaxSize /\ {asked, wsize} \subseteq 0..MaxSize
    /\ {resized, event} \subseteq BOOLEAN

Init ==
    /\ pc = "top" /\ frame = 0 /\ image \in Images /\ fences = FrameSet
    /\ sems = [f \in FrameSet |-> "off"] /\ gpu = <<>> /\ owner = [i \in Images |-> "free"]
    /\ wsize \in 1..MaxSize /\ extent = wsize /\ asked = 0
    /\ resized = FALSE /\ event = FALSE /\ resizes = 0

-----------------------------------------------------------------------------
\* glfwPollEvents and glfwWaitEvents run framebuffer_resize_callback.
Deliver == resized' = (resized \/ event) /\ event' = FALSE

Poll ==
    /\ pc = "top" /\ pc' = "fence" /\ Deliver
    /\ UNCHANGED <<frame, image, asked, wsize, resizes, device>>

WaitFence ==
    /\ pc = "fence" /\ frame \in fences /\ pc' = "acquire"
    /\ UNCHANGED <<frame, image, asked, resized, window, device>>

\* An image of a swapchain that does not fit the window may be given as
\* suboptimal, which is a success, or be refused.
Refused == extent # wsize /\ pc' = "size" /\ UNCHANGED <<image, sems, owner>>
Given == \E i \in Images :
    /\ owner[i] = "free" /\ image' = i /\ owner' = [owner EXCEPT ![i] = "app"]
    /\ sems' = [sems EXCEPT ![frame] = "pending"] /\ pc' = "submit"

\* Mutants: a suboptimal image is skipped; the fence is reset before this.
AcquireSkips ==
    /\ pc = "acquire"
    /\ IF extent # wsize
         THEN pc' = "size" /\ sems' = [sems EXCEPT ![frame] = "pending"] /\ UNCHANGED <<image, owner>>
         ELSE Given
    /\ UNCHANGED <<frame, fences, gpu, extent, asked, resized, window>>
AcquireReset ==
    /\ pc = "acquire" /\ (Refused \/ Given) /\ fences' = fences \ {frame}
    /\ UNCHANGED <<frame, gpu, extent, asked, resized, window>>

Acquire ==
    /\ pc = "acquire" /\ (Refused \/ Given)
    /\ UNCHANGED <<frame, fences, gpu, extent, asked, resized, window>>

\* Reset of the fence, the commands, and the submission to the graphics queue.
Submit ==
    /\ pc = "submit" /\ pc' = "timeline" /\ fences' = fences \ {frame}
    /\ gpu' = Append(gpu, [frame |-> frame, image |-> image, phase |-> "submitted"])
    /\ UNCHANGED <<frame, image, sems, owner, extent, asked, resized, window>>

\* dev.wait(timeline_sem, timeline_signal): timeline_value counts the
\* submissions, so its value of the last one comes when that one is drawn.
Drawn == \A n \in DOMAIN gpu : gpu[n].phase = "drawn"
WaitTimelineNot ==
    /\ pc = "timeline" /\ pc' = "present"
    /\ UNCHANGED <<frame, image, asked, resized, window, device>>
WaitTimeline ==
    /\ pc = "timeline" /\ Drawn /\ pc' = "present"
    /\ UNCHANGED <<frame, image, asked, resized, window, device>>

\* Mutant: only the result counts.
\* present() with its result, suboptimal and out of date or neither.
PresentUnflagged ==
    /\ pc = "present" /\ owner' = [owner EXCEPT ![image] = "shown"]
    /\ frame' = (frame + 1) % Frames
    /\ \/ pc' = "size" /\ resized' = FALSE /\ extent # wsize
       \/ pc' = "top" /\ UNCHANGED resized
    /\ UNCHANGED <<image, fences, sems, gpu, extent, asked, window>>
Present ==
    /\ pc = "present" /\ owner' = [owner EXCEPT ![image] = "shown"]
    /\ frame' = (frame + 1) % Frames
    /\ \/ pc' = "size" /\ resized' = FALSE /\ (resized \/ extent # wsize)
       \/ pc' = "top" /\ ~resized /\ UNCHANGED resized
    /\ UNCHANGED <<image, fences, sems, gpu, extent, asked, window>>

-----------------------------------------------------------------------------
\* recreate_swapchain: the size is read before the loop and in it, each time
\* before the wait for an event and not after it. Some event always comes.
ReadSize ==
    /\ pc = "size" /\ asked' = wsize /\ pc' = IF wsize = 0 THEN "sized" ELSE "idle"
    /\ UNCHANGED <<frame, image, resized, window, device>>

ReadAgain ==
    /\ pc = "sized" /\ asked' = wsize /\ pc' = "events"
    /\ UNCHANGED <<frame, image, resized, window, device>>

WaitEvents ==
    /\ pc = "events" /\ Deliver /\ pc' = IF asked = 0 THEN "sized" ELSE "idle"
    /\ UNCHANGED <<frame, image, asked, wsize, resizes, device>>

\* dev.wait_idle() and create_swapchain(), after which the loop starts again.
CreateSwapchain ==
    /\ pc = "idle" /\ gpu = <<>> /\ pc' = "top"
    /\ extent' = wsize /\ owner' = [i \in Images |-> "free"]
    /\ UNCHANGED <<frame, image, fences, sems, gpu, asked, resized, window>>

\* The window is to be closed: run() returns, with its fences and semaphores
\* destroyed, and does not wait for the GPU.
Leave ==
    /\ pc = "top" /\ pc' = "closed"
    /\ UNCHANGED <<frame, image, asked, resized, window, device>>

-----------------------------------------------------------------------------
Program == Poll \/ WaitFence \/ Acquire \/ Submit \/ WaitTimeline \/ Present
               \/ ReadSize \/ ReadAgain \/ WaitEvents \/ CreateSwapchain

\* The GPU takes the submissions in order: the semaphore of the image, the
\* drawing with the signal of the timeline, and at last the fence.
Gpu ==
    /\ gpu # <<>>
    /\ LET s == gpu[1]
       IN \/ /\ s.phase = "submitted" /\ sems[s.frame] = "on" /\ sems' = [sems EXCEPT ![s.frame] = "off"]
             /\ gpu' = [gpu EXCEPT ![1].phase = "drawing"] /\ UNCHANGED fences
          \/ s.phase = "drawing" /\ gpu' = [gpu EXCEPT ![1].phase = "drawn"] /\ UNCHANGED <<sems, fences>>
          \/ s.phase = "drawn" /\ gpu' = Tail(gpu) /\ fences' = fences \cup {s.frame} /\ UNCHANGED sems
    /\ UNCHANGED <<pc, frame, image, owner, extent, asked, resized, window>>

\* The presentation engine signals the semaphore of a given image, and gives
\* up an image it has another one to show for.
Signal == \E f \in FrameSet :
    /\ sems[f] = "pending" /\ sems' = [sems EXCEPT ![f] = "on"]
    /\ UNCHANGED <<pc, frame, image, fences, gpu, owner, extent, asked, resized, window>>
Release == \E i \in Images :
    /\ owner[i] = "shown" /\ \E j \in Images \ {i} : owner[j] = "shown"
    /\ owner' = [owner EXCEPT ![i] = "free"]
    /\ UNCHANGED <<pc, frame, image, fences, sems, gpu, extent, asked, resized, window>>

Resize == \E s \in (0..MaxSize) \ {wsize} :
    /\ resizes < MaxResizes /\ resizes' = resizes + 1 /\ wsize' = s /\ event' = TRUE
    /\ (Careful /\ s = 0) => ~(pc \in Recreating /\ asked # 0)
    /\ UNCHANGED <<pc, frame, image, asked, resized, device>>

Next == Program \/ Leave \/ Gpu \/ Signal \/ Release \/ Resize

Spec == Init /\ [][Next]_vars /\ WF_vars(Program) /\ WF_vars(Gpu) /\ WF_vars(Signal) /\ WF_vars(Release)

-----------------------------------------------------------------------------
\* An image is shown only when it is drawn.
PresentsDrawn == pc = "present" => \A n \in DOMAIN gpu : gpu[n].image = image => gpu[n].phase = "drawn"

\* A semaphore is given to an acquire, and a fence and the commands of a frame
\* to a submission, only when nothing pending uses them.
SyncFree ==
    /\ pc = "acquire" => sems[frame] = "off"
    /\ pc \in {"acquire", "submit"} => \A n \in DOMAIN gpu : gpu[n].frame # frame

\* When run() returns nothing is drawn any more and no semaphore is awaited: of
\* what it destroys the GPU has at most a fence to signal, which nothing waits for.
ReturnsDrawn == pc = "closed" => Drawn /\ \A f \in FrameSet : sems[f] = "off"

\* Frames are shown for as long as the window is open and not minimised.
FramesGoOn == <>[](wsize # 0) => []<>(pc \in {"present", "closed"})

\* The swapchain gets the size of the window, whenever that changes and
\* whether or not the presentation engine tells.
SizeFollows == <>[](wsize # 0) => <>[](extent = wsize \/ pc = "closed")
=============================================================================
