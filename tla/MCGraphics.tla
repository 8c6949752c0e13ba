------------------------------ MODULE MCGraphics ------------------------------
(*****************************************************************************)
(* The parts of the graphics layer for TLC. They share no state: a behaviour *)
(* is of one of them, and the specification is the union of theirs.          *)
(*****************************************************************************)
EXTENDS Integers, Sequences

CONSTANT Unused   \* the value of the variables of the parts that do not run

CONSTANTS
    FramesInFlight, Images, MaxSize, MaxResizes,    \* the frame loop
    Instances, Loaders, MaxInstances,               \* the objects of instance_t
    Devices, Children, Defaulted,                   \* the objects of generated classes
    MaxHandles                                      \* bound: the handles of either driver

VARIABLES
    part,   \* the part that runs in this behaviour
    pc, frame, image, fences, sems, gpu, owner, extent, asked, resized, wsize, event, resizes,
    ids, handlers, blocks, object, made, refused, handle, parent, alive, creator, count,
    misused

vars == <<part, pc, frame, image, fences, sems, gpu, owner, extent, asked, resized, wsize, event,
          resizes, ids, handlers, blocks, object, made, refused, handle, parent, alive,
          creator, count, misused>>

\* The frame loop, with a window that is not minimised while the swapchain is made.
Frames == INSTANCE FrameLoop WITH
    Frames <- FramesInFlight, Images <- Images, MaxSize <- MaxSize, MaxResizes <- MaxResizes,
    Careful <- TRUE

\* The instances and their function loaders.
Manager == INSTANCE VkInstance WITH
    Objects <- Instances, Loaders <- Loaders, MaxInstances <- MaxInstances,
    MaxHandles <- MaxHandles

\* The handles of a program that keeps the precautions.
Handles == INSTANCE VkHandles WITH
    Devices <- Devices, Children <- Children, Defaulted <- Defaulted, MaxHandles <- MaxHandles,
    Careful <- TRUE

ASSUME MCGraphicsAssumption ==
    /\ Frames!FrameAssumption /\ Manager!InstanceAssumption /\ Handles!HandlesAssumption

-----------------------------------------------------------------------------

NotFrameLoop == <<ids, handlers, blocks, object, made, refused, handle, parent, alive, creator,
                  count, misused>>
NoFrameLoop ==
    /\ pc = Unused /\ frame = Unused /\ image = Unused /\ fences = Unused /\ sems = Unused
    /\ gpu = Unused /\ owner = Unused /\ extent = Unused /\ asked = Unused /\ resized = Unused
    /\ wsize = Unused /\ event = Unused /\ resizes = Unused
NotVkInstance == <<pc, frame, image, fences, sems, gpu, owner, extent, asked, resized, wsize,
                   event, resizes, handle, parent, alive, creator, count, misused>>
NoVkInstance ==
    /\ ids = Unused /\ handlers = Unused /\ blocks = Unused /\ object = Unused /\ made = Unused
    /\ refused = Unused
NotVkHandles == <<pc, frame, image, fences, sems, gpu, owner, extent, asked, resized, wsize,
                  event, resizes, ids, handlers, blocks, object, refused>>

Init ==
    \/ /\ part = "frames" /\ Frames!Init /\ NoVkInstance /\ handle = Unused /\ parent = Unused
       /\ alive = Unused /\ creator = Unused /\ count = Unused /\ misused = Unused
    \/ /\ part = "instances" /\ Manager!Init /\ NoFrameLoop /\ handle = Unused /\ parent = Unused
       /\ alive = Unused /\ creator = Unused /\ count = Unused /\ misused = Unused
    \/ /\ part = "handles" /\ Handles!Init /\ NoFrameLoop /\ ids = Unused /\ handlers = Unused
       /\ blocks = Unused /\ object = Unused /\ refused = Unused

FramesStep == part = "frames" /\ Frames!Next /\ UNCHANGED <<part, NotFrameLoop>>
ManagerStep == part = "instances" /\ Manager!Next /\ UNCHANGED <<part, NotVkInstance>>
HandlesStep == part = "handles" /\ Handles!Next /\ UNCHANGED <<part, NotVkHandles>>

\* These may stop; the others never do.
Rests == part \in {"frames", "instances"} /\ UNCHANGED vars

Next == \/ FramesStep \/ ManagerStep \/ HandlesStep \/ Rests

Spec ==
    /\ Init /\ [][Next]_vars
    /\ WF_vars(part = "frames" /\ Frames!Program /\ UNCHANGED <<part, NotFrameLoop>>)
    /\ WF_vars(part = "frames" /\ Frames!Gpu /\ UNCHANGED <<part, NotFrameLoop>>)
    /\ WF_vars(part = "frames" /\ Frames!Signal /\ UNCHANGED <<part, NotFrameLoop>>)
    /\ WF_vars(part = "frames" /\ Frames!Release /\ UNCHANGED <<part, NotFrameLoop>>)

-----------------------------------------------------------------------------
\* Frame loop: an image is presented only after the commands that draw it have
\* run, a fence, a semaphore or a command buffer is used again only while no
\* earlier use of it is pending, and when run() returns no commands run and no semaphore is awaited.
GpuSafe ==
    part = "frames" => Frames!TypeOK /\ Frames!PresentsDrawn /\ Frames!SyncFree /\ Frames!ReturnsDrawn

\* Instances: an id is free or belongs to one instance, and a loaded block of
\* functions is of the instance that has the id now.
FunctionsCurrent ==
    part = "instances" => Manager!TypeOK /\ Manager!IdsDistinct /\ Manager!FunctionsCurrent

\* Generated handle classes: across moves and assignments a handle has one
\* owner, and it is destroyed once, with the parent that made it.
OneOwner ==
    part = "handles" => Handles!TypeOK /\ Handles!OneOwner /\ Handles!DestroyedRight

\* Frame loop: while the window has a size frames are presented again and
\* again, or the window is closed, and after the last change the swapchain gets
\* the size of the window.
FramesGoOn ==
    /\ part = "frames" => Frames!FramesGoOn
    /\ part = "frames" => Frames!SizeFollows
=============================================================================
