---------------------------- MODULE GraphicsProofs ----------------------------
(***************************************************************************)
(* Proofs about the graphics layer, for every number of frames in flight,  *)
(* images, instances, ids, devices and children: GpuSafe, FunctionsCurrent *)
(* and OneOwner.  Each part has an inductive invariant of its own.         *)
(***************************************************************************)
EXTENDS MCGraphics, FiniteSetTheorems, WellFoundedInduction, TLAPS

-----------------------------------------------------------------------------
(* Sequences.                                                              *)

LEMMA TailOf ==
    ASSUME NEW S, NEW s \in Seq(S), s # <<>>
    PROVE  /\ Len(s) \in Nat \ {0} /\ DOMAIN s = 1..Len(s) /\ s[1] \in S
           /\ Tail(s) \in Seq(S) /\ Len(Tail(s)) = Len(s) - 1
           /\ DOMAIN Tail(s) = 1..(Len(s) - 1)
           /\ \A n \in 1..(Len(s) - 1) : Tail(s)[n] = s[n + 1]
  OBVIOUS

LEMMA ReplaceHead ==
    ASSUME NEW S, NEW s \in Seq(S), s # <<>>, NEW e \in S
    PROVE  /\ [s EXCEPT ![1] = e] \in Seq(S) /\ DOMAIN [s EXCEPT ![1] = e] = DOMAIN s
           /\ \A n \in DOMAIN s : [s EXCEPT ![1] = e][n] = IF n = 1 THEN e ELSE s[n]
  OBVIOUS

-----------------------------------------------------------------------------
(* The frame loop.                                                         *)

\* A frame with a submission has one, and its fence is not signaled.
FencesWait ==
    /\ \A n \in DOMAIN gpu : gpu[n].frame \notin fences
    /\ \A m, n \in DOMAIN gpu : m # n => gpu[m].frame # gpu[n].frame
    /\ pc \in {"acquire", "submit"} => frame \in fences

\* A semaphore that is pending or signaled is for the submission to come, or
\* for one that the GPU has not begun.
SemaphoresAwaited == \A f \in Frames!FrameSet : sems[f] # "off" =>
    \/ pc = "submit" /\ f = frame
    \/ \E n \in DOMAIN gpu : gpu[n].frame = f /\ gpu[n].phase = "submitted"

\* recreate_swapchain goes on with a size that the window still has.
SizeKnown ==
    /\ pc = "idle" => asked # 0
    /\ pc \in {"events", "idle"} /\ asked # 0 => wsize # 0

FrameInv ==
    /\ Frames!TypeOK /\ FencesWait /\ SemaphoresAwaited /\ SizeKnown
    /\ pc # "timeline" => Frames!Drawn

LEMMA FrameInit ==
    ASSUME Frames!FrameAssumption, Frames!Init
    PROVE  FrameInv
<1>1. Frames!TypeOK
  <2> USE DEF Frames!FrameAssumption, Frames!Init, Frames!FrameSet
  <2>1. /\ frame \in Frames!FrameSet /\ image \in Images /\ fences \subseteq Frames!FrameSet
        /\ sems \in [Frames!FrameSet -> {"off", "pending", "on"}]
        /\ owner \in [Images -> {"free", "app", "shown"}]
    OBVIOUS
  <2>2. extent \in 1..MaxSize /\ {asked, wsize} \subseteq 0..MaxSize
    BY SMT
  <2>3. gpu \in Seq(Frames!Submission)
    OBVIOUS
  <2> QED BY <2>1, <2>2, <2>3 DEF Frames!TypeOK
<1> QED
  BY <1>1 DEF Frames!Init, FrameInv, FencesWait, SemaphoresAwaited, SizeKnown, Frames!Drawn

\* A step of the GPU changes the first submission or ends it.
LEMMA GpuTurn ==
    ASSUME Frames!TypeOK, Frames!Gpu
    PROVE  /\ gpu # <<>> /\ gpu[1] \in Frames!Submission /\ DOMAIN gpu = 1..Len(gpu)
           /\ gpu' \in Seq(Frames!Submission)
           /\ \/ /\ gpu[1].phase # "drawn" /\ DOMAIN gpu' = DOMAIN gpu
                 /\ gpu'[1].frame = gpu[1].frame /\ gpu'[1].phase # "submitted" /\ fences' = fences
                 /\ \A n \in DOMAIN gpu \ {1} : gpu'[n] = gpu[n]
                 /\ sems' = IF gpu[1].phase = "submitted"
                              THEN [sems EXCEPT ![gpu[1].frame] = "off"] ELSE sems
              \/ /\ gpu[1].phase = "drawn" /\ DOMAIN gpu' = 1..(Len(gpu) - 1)
                 /\ \A n \in DOMAIN gpu' : gpu'[n] = gpu[n + 1]
                 /\ fences' = fences \cup {gpu[1].frame} /\ sems' = sems
<1> DEFINE At(p) == [gpu EXCEPT ![1] = [gpu[1] EXCEPT !.phase = p]]
<1>1. gpu \in Seq(Frames!Submission) /\ gpu # <<>>
  BY DEF Frames!TypeOK, Frames!Gpu
<1>2. gpu[1] \in Frames!Submission /\ DOMAIN gpu = 1..Len(gpu)
  BY <1>1, TailOf
<1>3. ASSUME NEW p \in {"drawing", "drawn"}
      PROVE  /\ At(p) \in Seq(Frames!Submission) /\ DOMAIN At(p) = DOMAIN gpu
             /\ At(p)[1].frame = gpu[1].frame /\ At(p)[1].phase = p
             /\ \A n \in DOMAIN gpu \ {1} : At(p)[n] = gpu[n]
  <2>1. [gpu[1] EXCEPT !.phase = p] \in Frames!Submission
    BY <1>2 DEF Frames!Submission
  <2>2. 1 \in DOMAIN gpu
    BY <1>1, TailOf
  <2>3. /\ [gpu[1] EXCEPT !.phase = p].frame = gpu[1].frame
        /\ [gpu[1] EXCEPT !.phase = p].phase = p
    BY <1>2 DEF Frames!Submission
  <2> QED BY <1>1, <2>1, <2>2, <2>3, ReplaceHead
<1>4. \/ /\ gpu[1].phase = "submitted" /\ sems' = [sems EXCEPT ![gpu[1].frame] = "off"]
         /\ gpu' = At("drawing") /\ fences' = fences
      \/ gpu[1].phase = "drawing" /\ gpu' = At("drawn") /\ fences' = fences /\ sems' = sems
      \/ /\ gpu[1].phase = "drawn" /\ gpu' = Tail(gpu)
         /\ fences' = fences \cup {gpu[1].frame} /\ sems' = sems
  BY DEF Frames!Gpu
<1> HIDE DEF At
<1>5. CASE gpu[1].phase = "submitted"
  BY <1>1, <1>2, <1>3, <1>4, <1>5
<1>6. CASE gpu[1].phase = "drawing"
  BY <1>1, <1>2, <1>3, <1>4, <1>6
<1>7. CASE gpu[1].phase = "drawn"
  BY <1>1, <1>2, <1>4, <1>7, TailOf
<1> QED BY <1>4, <1>5, <1>6, <1>7

\* The types, which the size of the swapchain needs SizeKnown for.
LEMMA FrameTypes ==
    ASSUME Frames!FrameAssumption, FrameInv, Frames!Next
    PROVE  Frames!TypeOK'
<1> USE DEF Frames!FrameAssumption, Frames!TypeOK, Frames!FrameSet, Frames!Recreating, Frames!device, Frames!window
<1>1. Frames!TypeOK /\ SizeKnown
  BY DEF FrameInv
<1>2. CASE Frames!Poll
  BY <1>1, <1>2 DEF Frames!Poll, Frames!Deliver
<1>3. CASE Frames!WaitFence
  BY <1>1, <1>3 DEF Frames!WaitFence
<1>4. CASE Frames!Acquire
  BY <1>1, <1>4 DEF Frames!Acquire, Frames!Given, Frames!Refused
<1>5. CASE Frames!Submit
  <2>1. [frame |-> frame, image |-> image, phase |-> "submitted"] \in Frames!Submission
    BY <1>1 DEF Frames!Submission
  <2>2. gpu' \in Seq(Frames!Submission)
    BY <1>1, <1>5, <2>1 DEF Frames!Submit, Frames!Submission
  <2> QED BY <1>1, <1>5, <2>2 DEF Frames!Submit, Frames!Submission
<1>6. CASE Frames!WaitTimeline
  BY <1>1, <1>6 DEF Frames!WaitTimeline
<1>7. CASE Frames!Present
  <2>1. frame' \in Frames!FrameSet
    <3>1. FramesInFlight \in Nat \ {0} /\ frame \in 0..(FramesInFlight - 1)
      BY <1>1
    <3>2. frame' = (frame + 1) % FramesInFlight
      BY <1>7 DEF Frames!Present
    <3> QED BY <3>1, <3>2, SMT
  <2>2. owner' \in [Images -> {"free", "app", "shown"}] /\ resized' \in BOOLEAN
    BY <1>1, <1>7 DEF Frames!Present
  <2> QED BY <1>1, <1>7, <2>1, <2>2 DEF Frames!Present
<1>8. CASE Frames!ReadSize \/ Frames!ReadAgain
  BY <1>1, <1>8 DEF Frames!ReadSize, Frames!ReadAgain
<1>9. CASE Frames!WaitEvents
  BY <1>1, <1>9 DEF Frames!WaitEvents, Frames!Deliver
<1>10. CASE Frames!CreateSwapchain
  BY <1>1, <1>10 DEF Frames!CreateSwapchain, SizeKnown
<1>11. CASE Frames!Leave
  BY <1>1, <1>11 DEF Frames!Leave
<1>12. CASE Frames!Gpu
  <2>1. gpu' \in Seq(Frames!Submission) /\ gpu[1].frame \in Frames!FrameSet
    BY <1>1, <1>12, GpuTurn DEF Frames!Submission
  <2>2. fences' \subseteq Frames!FrameSet
    BY <1>1, <1>12, <2>1, GpuTurn
  <2>3. sems' \in [Frames!FrameSet -> {"off", "pending", "on"}]
    BY <1>1, <1>12, GpuTurn
  <2> QED BY <1>1, <1>12, <2>1, <2>2, <2>3 DEF Frames!Gpu
<1>13. CASE Frames!Signal
  BY <1>1, <1>13 DEF Frames!Signal
<1>14. CASE Frames!Release
  BY <1>1, <1>14 DEF Frames!Release
<1>15. CASE Frames!Resize
  BY <1>1, <1>15 DEF Frames!Resize
<1> QED
  BY <1>2, <1>3, <1>4, <1>5, <1>6, <1>7, <1>8, <1>9, <1>10, <1>11, <1>12, <1>13, <1>14, <1>15
     DEF Frames!Next, Frames!Program

\* What the actions that leave the submissions, the fences and the semaphores
\* alone keep.
LEMMA DeviceKept ==
    ASSUME FencesWait, SemaphoresAwaited, UNCHANGED <<fences, sems, gpu, frame>>,
           pc' \in {"acquire", "submit"} => frame \in fences, pc # "submit"
    PROVE  FencesWait' /\ SemaphoresAwaited'
  BY DEF FencesWait, SemaphoresAwaited, Frames!FrameSet

LEMMA FrameDevice ==
    ASSUME Frames!FrameAssumption, FrameInv, Frames!Next
    PROVE  FencesWait' /\ SemaphoresAwaited'
<1>1. Frames!TypeOK /\ FencesWait /\ SemaphoresAwaited
  BY DEF FrameInv
<1> USE DEF Frames!device, Frames!window
<1>2. CASE \/ Frames!Poll \/ Frames!WaitFence \/ Frames!WaitTimeline \/ Frames!ReadSize
           \/ Frames!ReadAgain \/ Frames!WaitEvents \/ Frames!Leave \/ Frames!CreateSwapchain
  BY <1>1, <1>2, DeviceKept
     DEF Frames!Poll, Frames!WaitFence, Frames!WaitTimeline, Frames!ReadSize, Frames!ReadAgain,
         Frames!WaitEvents, Frames!Leave, Frames!CreateSwapchain
<1>3. CASE Frames!Acquire
  <2>1. pc = "acquire" /\ UNCHANGED <<frame, fences, gpu>> /\ frame \in fences
    BY <1>1, <1>3 DEF Frames!Acquire, FencesWait
  <2>2. FencesWait'
    BY <1>1, <2>1 DEF FencesWait
  <2>3. CASE Frames!Refused
    BY <1>1, <2>1, <2>2, <2>3 DEF SemaphoresAwaited, Frames!Refused
  <2>4. CASE Frames!Given
    BY <1>1, <2>1, <2>2, <2>4 DEF SemaphoresAwaited, Frames!Given, Frames!TypeOK
  <2> QED BY <1>3, <2>3, <2>4 DEF Frames!Acquire
<1>4. CASE Frames!Submit
  <2> DEFINE new == [frame |-> frame, image |-> image, phase |-> "submitted"]
  <2>1. /\ gpu \in Seq(Frames!Submission) /\ pc = "submit" /\ pc' = "timeline"
        /\ UNCHANGED <<frame, sems>> /\ fences' = fences \ {frame} /\ gpu' = Append(gpu, new)
    BY <1>1, <1>4 DEF Frames!Submit, Frames!TypeOK
  <2>2. /\ Len(gpu) \in Nat /\ DOMAIN gpu = 1..Len(gpu) /\ DOMAIN gpu' = 1..(Len(gpu) + 1)
        /\ \A n \in DOMAIN gpu : gpu'[n] = gpu[n]
        /\ gpu'[Len(gpu) + 1] = new
    BY <2>1
  <2>3. \A n \in DOMAIN gpu : gpu[n].frame # frame
    BY <1>1, <2>1 DEF FencesWait
  <2>4. \A n \in DOMAIN gpu' : n \in DOMAIN gpu \/ (n = Len(gpu) + 1 /\ gpu'[n].frame = frame)
    BY <2>2
  <2>5. FencesWait'
    BY <1>1, <2>1, <2>2, <2>3, <2>4 DEF FencesWait
  <2>6. SemaphoresAwaited'
    <3> SUFFICES ASSUME NEW f \in Frames!FrameSet, sems'[f] # "off"
                 PROVE  \E n \in DOMAIN gpu' : gpu'[n].frame = f /\ gpu'[n].phase = "submitted"
      BY DEF SemaphoresAwaited, Frames!FrameSet
    <3>1. CASE f = frame
      BY <2>2, <3>1
    <3>2. CASE f # frame
      BY <1>1, <2>1, <2>2, <3>2 DEF SemaphoresAwaited
    <3> QED BY <3>1, <3>2
  <2> QED BY <2>5, <2>6
<1>5. CASE Frames!Present
  BY <1>1, <1>5 DEF Frames!Present, FencesWait, SemaphoresAwaited, Frames!FrameSet
<1>6. CASE Frames!Gpu
  <2>1. UNCHANGED <<pc, frame>>
    BY <1>6 DEF Frames!Gpu
  <2>2. CASE gpu[1].phase # "drawn"
    <3>1. /\ DOMAIN gpu' = DOMAIN gpu /\ fences' = fences
          /\ \A n \in DOMAIN gpu : gpu'[n].frame = gpu[n].frame
      BY <1>1, <1>6, <2>2, GpuTurn
    <3>2. FencesWait'
      BY <1>1, <2>1, <3>1 DEF FencesWait
    <3>3. ASSUME NEW f \in Frames!FrameSet, sems'[f] # "off", ~(pc' = "submit" /\ f = frame')
          PROVE  \E n \in DOMAIN gpu' : gpu'[n].frame = f /\ gpu'[n].phase = "submitted"
      <4>1. sems[f] # "off" /\ ~(gpu[1].phase = "submitted" /\ f = gpu[1].frame)
        BY <1>1, <1>6, <2>2, <3>3, GpuTurn DEF Frames!TypeOK
      <4>2. PICK n \in DOMAIN gpu : gpu[n].frame = f /\ gpu[n].phase = "submitted"
        BY <1>1, <2>1, <3>3, <4>1 DEF SemaphoresAwaited
      <4>3. n \in DOMAIN gpu \ {1}
        BY <4>1, <4>2
      <4>4. n \in DOMAIN gpu' /\ gpu'[n] = gpu[n]
        BY <1>1, <1>6, <2>2, <4>3, <3>1, GpuTurn
      <4> QED BY <4>2, <4>4
    <3> QED BY <3>2, <3>3 DEF SemaphoresAwaited, Frames!FrameSet
  <2>3. CASE gpu[1].phase = "drawn"
    <3>1. /\ Len(gpu) \in Nat \ {0} /\ DOMAIN gpu = 1..Len(gpu) /\ DOMAIN gpu' = 1..(Len(gpu) - 1)
          /\ \A n \in DOMAIN gpu' : gpu'[n] = gpu[n + 1]
          /\ fences' = fences \cup {gpu[1].frame} /\ sems' = sems
      BY <1>1, <1>6, <2>3, GpuTurn, TailOf DEF Frames!TypeOK
    <3>2. \A n \in DOMAIN gpu' : n + 1 \in DOMAIN gpu \ {1}
      BY <3>1
    <3>3. \A n \in DOMAIN gpu \ {1} : n - 1 \in DOMAIN gpu' /\ gpu'[n - 1] = gpu[n]
      BY <3>1
    <3>4. 1 \in DOMAIN gpu
      BY <3>1
    <3>5. \A n \in DOMAIN gpu' : gpu'[n].frame \notin fences'
      BY <1>1, <3>1, <3>2, <3>4 DEF FencesWait
    <3>6. \A m, n \in DOMAIN gpu' : m # n => gpu'[m].frame # gpu'[n].frame
      <4> SUFFICES ASSUME NEW m \in DOMAIN gpu', NEW n \in DOMAIN gpu', m # n
                   PROVE  gpu'[m].frame # gpu'[n].frame
        OBVIOUS
      <4>1. m + 1 # n + 1
        BY <3>1
      <4> QED BY <1>1, <3>1, <3>2, <4>1 DEF FencesWait
    <3>7. FencesWait'
      BY <1>1, <2>1, <3>1, <3>5, <3>6 DEF FencesWait
    <3>8. ASSUME NEW f \in Frames!FrameSet, sems'[f] # "off", ~(pc' = "submit" /\ f = frame')
          PROVE  \E n \in DOMAIN gpu' : gpu'[n].frame = f /\ gpu'[n].phase = "submitted"
      <4>1. PICK n \in DOMAIN gpu : gpu[n].frame = f /\ gpu[n].phase = "submitted"
        BY <1>1, <2>1, <3>1, <3>8 DEF SemaphoresAwaited
      <4> QED BY <2>3, <3>3, <4>1
    <3> QED BY <3>7, <3>8 DEF SemaphoresAwaited, Frames!FrameSet
  <2> QED BY <2>2, <2>3
<1>7. CASE Frames!Signal
  BY <1>1, <1>7 DEF Frames!Signal, FencesWait, SemaphoresAwaited, Frames!FrameSet, Frames!TypeOK
<1>8. CASE Frames!Release \/ Frames!Resize
  BY <1>1, <1>8 DEF Frames!Release, Frames!Resize, FencesWait, SemaphoresAwaited, Frames!FrameSet
<1> QED
  BY <1>2, <1>3, <1>4, <1>5, <1>6, <1>7, <1>8 DEF Frames!Next, Frames!Program

LEMMA FrameStep ==
    ASSUME Frames!FrameAssumption, FrameInv, Frames!Next
    PROVE  FrameInv'
<1>1. Frames!TypeOK' /\ FencesWait' /\ SemaphoresAwaited'
  BY FrameTypes, FrameDevice
<1> USE DEF Frames!device, Frames!window, Frames!Recreating
<1>2. SizeKnown'
  <2>1. Frames!TypeOK /\ SizeKnown
    BY DEF FrameInv
  <2>2. CASE Frames!Resize
    BY <2>1, <2>2 DEF Frames!Resize, SizeKnown
  <2>3. CASE Frames!Program
    BY <2>1, <2>3
       DEF Frames!Program, Frames!Poll, Frames!Deliver, Frames!WaitFence, Frames!Acquire,
           Frames!Given, Frames!Refused, Frames!Submit, Frames!WaitTimeline, Frames!Present,
           Frames!ReadSize, Frames!ReadAgain, Frames!WaitEvents, Frames!CreateSwapchain, SizeKnown
  <2>4. CASE Frames!Leave \/ Frames!Gpu \/ Frames!Signal \/ Frames!Release
    BY <2>1, <2>4 DEF Frames!Leave, Frames!Gpu, Frames!Signal, Frames!Release, SizeKnown
  <2> QED BY <2>2, <2>3, <2>4 DEF Frames!Next
<1>3. pc' # "timeline" => Frames!Drawn'
  <2>1. CASE Frames!Gpu
    <3>1. /\ Frames!TypeOK /\ pc' = pc /\ (pc # "timeline" => Frames!Drawn)
      BY <2>1 DEF Frames!Gpu, FrameInv
    <3>2. \A n \in 1..(Len(gpu) - 1) : n + 1 \in DOMAIN gpu
      BY <3>1 DEF Frames!TypeOK
    <3>3. 1 \in DOMAIN gpu
      BY <2>1, <3>1, TailOf DEF Frames!TypeOK, Frames!Gpu
    <3> QED BY <2>1, <3>1, <3>2, <3>3, GpuTurn DEF Frames!Drawn
  <2>2. CASE Frames!Program
    BY <2>2
       DEF Frames!Program, Frames!Poll, Frames!Deliver, Frames!WaitFence, Frames!Acquire,
           Frames!Given, Frames!Refused, Frames!Submit, Frames!WaitTimeline, Frames!Present,
           Frames!ReadSize, Frames!ReadAgain, Frames!WaitEvents, Frames!CreateSwapchain, Frames!Drawn,
           Frames!device, FrameInv
  <2>3. CASE Frames!Leave \/ Frames!Signal \/ Frames!Release \/ Frames!Resize
    BY <2>3 DEF Frames!Leave, Frames!Signal, Frames!Release, Frames!Resize, FrameInv, Frames!Drawn
  <2> QED BY <2>1, <2>2, <2>3 DEF Frames!Next
<1> QED BY <1>1, <1>2, <1>3 DEF FrameInv

\* What the run checks.
LEMMA FrameSafe ==
    ASSUME FrameInv
    PROVE  Frames!TypeOK /\ Frames!PresentsDrawn /\ Frames!SyncFree /\ Frames!ReturnsDrawn
<1>1. /\ Frames!TypeOK /\ FencesWait /\ SemaphoresAwaited
      /\ (pc # "timeline" => Frames!Drawn)
  BY DEF FrameInv
<1>2. pc \in {"acquire", "submit"} => \A n \in DOMAIN gpu : gpu[n].frame # frame
  BY <1>1 DEF FencesWait
<1>3. pc = "acquire" => sems[frame] = "off"
  BY <1>1, <1>2 DEF SemaphoresAwaited, Frames!TypeOK
<1>4. pc = "closed" => \A f \in Frames!FrameSet : sems[f] = "off"
  BY <1>1 DEF SemaphoresAwaited, Frames!Drawn
<1> QED
  BY <1>1, <1>2, <1>3, <1>4 DEF Frames!PresentsDrawn, Frames!SyncFree, Frames!ReturnsDrawn, Frames!Drawn

-----------------------------------------------------------------------------
(* The handles.                                                            *)

\* What has a handle exists, and its handle lives and is of nobody else.
Owned ==
    /\ \A o \in Handles!Objects : handle[o] # 0 => o \in made /\ handle[o] \in alive
    /\ \A h \in alive : \E o \in Handles!Objects : handle[o] = h
    /\ \A o, p \in Handles!Objects : o # p /\ handle[o] = handle[p] => handle[o] = 0

\* A child has the address of the device that made it, which is still there.
Related ==
    /\ \A d \in Devices : handle[d] # 0 => creator[handle[d]] = 0
    /\ \A c \in Children : handle[c] # 0 =>
          /\ parent[c] \in made \cap Devices /\ handle[parent[c]] # 0
          /\ creator[handle[c]] = handle[parent[c]]

HandlesInv == Handles!TypeOK /\ Owned /\ Related /\ misused = FALSE

LEMMA HandlesBound ==
    ASSUME Handles!HandlesAssumption
    PROVE  /\ MaxHandles \in Nat /\ Devices \cap Children = {} /\ Defaulted \subseteq Children
           /\ Handles!NoParent \notin Devices
BY DEF Handles!HandlesAssumption

LEMMA HandlesInit ==
    ASSUME Handles!HandlesAssumption, Handles!Init
    PROVE  HandlesInv
<1> USE DEF Handles!Init, Handles!Objects, Handles!Null
<1>1. Handles!TypeOK
  <2>1. /\ handle \in [Handles!Objects -> Handles!Handles \cup {0}]
        /\ parent \in [Handles!Objects -> Devices \cup {Handles!NoParent}]
        /\ \A o \in Handles!Objects : handle[o] = 0
    OBVIOUS
  <2>2. creator \in [Handles!Handles -> Handles!Handles \cup {0}]
    OBVIOUS
  <2>3. count \in 0..MaxHandles /\ alive \subseteq 1..count
    BY HandlesBound
  <2> QED BY <2>1, <2>2, <2>3 DEF Handles!TypeOK
<1>2. Owned /\ Related
  BY DEF Owned, Related
<1> QED BY <1>1, <1>2 DEF HandlesInv

\* A device without users has no child, so the call that destroys a handle is
\* right for every object.
LEMMA RightCall ==
    ASSUME Handles!HandlesAssumption, HandlesInv, NEW o \in Handles!Objects,
           handle[o] # 0, Handles!Users(o) = {}
    PROVE  ~Handles!WrongCall(o, parent[o])
<1>1. handle[o] \in alive
  BY DEF HandlesInv, Owned
<1>2. ASSUME o \in Devices, NEW h \in alive, creator[h] = handle[o]
      PROVE  FALSE
  <2>1. PICK p \in Handles!Objects : handle[p] = h
    BY DEF HandlesInv, Owned
  <2>2. h # 0
    BY DEF HandlesInv, Handles!TypeOK
  <2>3. p \in Children
    BY <1>2, <2>1, <2>2 DEF Handles!Objects, HandlesInv, Related
  <2>4. parent[p] \in Devices /\ handle[parent[p]] = handle[o] /\ p \in made
    BY <1>2, <2>1, <2>2, <2>3 DEF HandlesInv, Related, Owned, Handles!Objects
  <2>5. parent[p] = o
    BY <2>4 DEF HandlesInv, Owned, Handles!Objects
  <2>6. p \in Handles!Users(o)
    BY <2>1, <2>2, <2>3, <2>4, <2>5 DEF Handles!Users, Handles!Null
  <2> QED BY <2>6
<1>3. o \in Children => parent[o] \in made /\ handle[parent[o]] = creator[handle[o]]
  BY DEF HandlesInv, Related
<1> QED BY <1>1, <1>2, <1>3 DEF Handles!WrongCall

\* What the destruction of the handle of o does, for the handles in new as well.
LEMMA HandleGivenUp ==
    ASSUME Handles!HandlesAssumption, HandlesInv, NEW o \in Handles!Objects,
           Handles!Users(o) = {}, NEW up, NEW new, 0 \notin new,
           \/ Handles!GivesUp(o, up, new)
           \/ Handles!MayReplace(o) /\ Handles!Replaces(o, up, new)
    PROVE  alive' = (alive \cup new) \ {handle[o]} /\ misused' = FALSE
<1>1. 0 \notin alive
  BY DEF HandlesInv, Handles!TypeOK
<1>2. CASE Handles!GivesUp(o, up, new)
  BY <1>1, <1>2, RightCall DEF Handles!GivesUp, HandlesInv, Handles!Null
<1>3. CASE o \in Defaulted /\ handle[o] = 0 /\ Handles!Replaces(o, up, new)
  BY <1>1, <1>3 DEF Handles!Replaces, HandlesInv
<1> QED BY <1>2, <1>3 DEF Handles!Replaces, Handles!MayReplace, Handles!Null

\* The parts of the types that the steps cite.
LEMMA HandlesTypes ==
    ASSUME Handles!HandlesAssumption, HandlesInv
    PROVE  /\ made \subseteq Handles!Objects /\ count \in Nat /\ alive \subseteq 1..count
           /\ handle \in [Handles!Objects -> Nat] /\ 0 \notin alive
           /\ parent \in [Handles!Objects -> Devices \cup {Handles!NoParent}]
           /\ creator \in [Handles!Handles -> Nat]
           /\ \A o \in Handles!Objects : handle[o] <= count
           /\ \A o \in Handles!Objects \ made : handle[o] = 0
<1>1. Handles!TypeOK /\ Owned
  BY DEF HandlesInv
<1>2. /\ made \subseteq Handles!Objects /\ count \in Nat /\ alive \subseteq 1..count
      /\ handle \in [Handles!Objects -> Nat] /\ 0 \notin alive
  BY <1>1, HandlesBound DEF Handles!TypeOK, Handles!Handles, Handles!Null
<1>3. /\ parent \in [Handles!Objects -> Devices \cup {Handles!NoParent}]
      /\ creator \in [Handles!Handles -> Nat]
      /\ \A o \in Handles!Objects \ made : handle[o] = 0
  BY <1>1 DEF Handles!TypeOK, Handles!Handles, Handles!Null
<1>4. \A o \in Handles!Objects : handle[o] <= count
  BY <1>1, <1>2 DEF Owned
<1> QED BY <1>2, <1>3, <1>4

\* The members of p go to o, whose handle was destroyed.
LEMMA TakesKeeps ==
    ASSUME Handles!HandlesAssumption, HandlesInv, NEW o \in Handles!Objects, NEW p \in made,
           Handles!SameClass(o, p), Handles!Users(o) = {}, Handles!Users(p) = {},
           Handles!Takes(o, p), made' = made \cup {o}, alive' = alive \ {handle[o]},
           UNCHANGED <<creator, count>>, misused' = FALSE
    PROVE  HandlesInv'
<1> USE DEF Handles!Objects
<1>1. /\ p \in Handles!Objects /\ 0 \notin alive
      /\ handle \in [Handles!Objects -> Nat] /\ alive \subseteq 1..count
      /\ parent \in [Handles!Objects -> Devices \cup {Handles!NoParent}]
      /\ made \subseteq Handles!Objects
      /\ \A x \in Handles!Objects \ made : handle[x] = 0
  BY HandlesTypes
<1>2. \A x \in Handles!Objects :
         /\ handle'[x] = IF x = p THEN 0 ELSE IF x = o THEN handle[p] ELSE handle[x]
         /\ parent'[x] = IF x = o THEN parent[p] ELSE parent[x]
  BY <1>1 DEF Handles!Takes, Handles!Null
<1>3. /\ handle' \in [Handles!Objects -> Handles!Handles \cup {0}]
      /\ parent' \in [Handles!Objects -> Devices \cup {Handles!NoParent}]
  BY <1>1 DEF Handles!Takes, Handles!Null, HandlesInv, Handles!TypeOK
<1>4. Owned'
  <2>1. \A x \in Handles!Objects : handle'[x] # 0 => x \in made' /\ handle'[x] \in alive'
    BY <1>1, <1>2 DEF HandlesInv, Owned
  <2>2. ASSUME NEW h \in alive'
        PROVE  \E x \in Handles!Objects : handle'[x] = h
    <3>1. PICK x \in Handles!Objects : handle[x] = h /\ x # o
      BY DEF HandlesInv, Owned
    <3>2. CASE x = p
      BY <1>2, <3>1, <3>2
    <3>3. CASE x # p
      BY <1>2, <3>1, <3>3
    <3> QED BY <3>2, <3>3
  <2>3. \A x, y \in Handles!Objects : x # y /\ handle'[x] = handle'[y] => handle'[x] = 0
    BY <1>1, <1>2 DEF HandlesInv, Owned
  <2> QED BY <2>1, <2>2, <2>3 DEF Owned
<1>5. ASSUME NEW c \in Children, handle[c] # 0
      PROVE  /\ parent[c] \in made' \cap Devices /\ handle'[parent[c]] # 0
             /\ creator'[handle[c]] = handle'[parent[c]]
  <2>1. /\ c \in made /\ parent[c] \in made \cap Devices /\ handle[parent[c]] # 0
        /\ creator[handle[c]] = handle[parent[c]]
    BY <1>5 DEF HandlesInv, Related, Owned
  <2>2. parent[c] \notin {o, p}
    BY <1>5, <2>1 DEF Handles!Users, Handles!Null
  <2> QED BY <1>2, <2>1, <2>2
<1>6. Related'
  <2>1. ASSUME NEW d \in Devices, handle'[d] # 0
        PROVE  creator'[handle'[d]] = 0
    <3>1. d # p /\ (d = o => p \in Devices)
      BY <1>2, <2>1, HandlesBound DEF Handles!SameClass
    <3>2. CASE d = o
      BY <1>2, <2>1, <3>1, <3>2 DEF HandlesInv, Related
    <3>3. CASE d # o
      BY <1>2, <2>1, <3>1, <3>3 DEF HandlesInv, Related
    <3> QED BY <3>2, <3>3
  <2>2. ASSUME NEW c \in Children, handle'[c] # 0
        PROVE  /\ parent'[c] \in made' \cap Devices /\ handle'[parent'[c]] # 0
               /\ creator'[handle'[c]] = handle'[parent'[c]]
    <3>1. c # p /\ (c = o => p \in Children)
      BY <1>2, <2>2, HandlesBound DEF Handles!SameClass
    <3>2. CASE c = o
      BY <1>2, <1>5, <2>2, <3>1, <3>2
    <3>3. CASE c # o
      BY <1>2, <1>5, <2>2, <3>1, <3>3
    <3> QED BY <3>2, <3>3
  <2> QED BY <2>1, <2>2 DEF Related
<1>7. Handles!TypeOK'
  <2>1. /\ made' \subseteq Handles!Objects /\ count' \in 0..MaxHandles /\ alive' \subseteq 1..count'
        /\ creator' \in [Handles!Handles -> Handles!Handles \cup {0}] /\ misused' \in BOOLEAN
    <3>1. /\ count \in 0..MaxHandles /\ creator \in [Handles!Handles -> Handles!Handles \cup {0}]
      BY DEF HandlesInv, Handles!TypeOK, Handles!Null
    <3> QED BY <1>1, <3>1
  <2>2. \A x \in Handles!Objects : x \notin made' => handle'[x] = 0
    BY <1>4 DEF Owned
  <2>3. \A c \in Children : handle'[c] # 0 => parent'[c] # Handles!NoParent
    BY <1>6, HandlesBound DEF Related
  <2> QED BY <1>3, <2>1, <2>2, <2>3 DEF Handles!TypeOK, Handles!Null
<1> QED BY <1>4, <1>6, <1>7 DEF HandlesInv

LEMMA CreateKeeps ==
    ASSUME Handles!HandlesAssumption, HandlesInv, NEW o \in Handles!Objects, NEW from, NEW by,
           Handles!Create(o, from, by),
           \/ o \in Devices /\ from = Handles!NoParent /\ by = 0
           \/ o \in Children /\ from \in made \cap Devices /\ handle[from] # 0 /\ by = handle[from]
    PROVE  HandlesInv'
<1> USE DEF Handles!Objects
<1> DEFINE h == count + 1
<1>1. /\ 0 \notin alive /\ count \in Nat /\ creator \in [Handles!Handles -> Nat]
      /\ handle \in [Handles!Objects -> Nat] /\ alive \subseteq 1..count
      /\ parent \in [Handles!Objects -> Devices \cup {Handles!NoParent}]
      /\ made \subseteq Handles!Objects /\ Devices \cap Children = {}
      /\ \A x \in Handles!Objects : handle[x] <= count
  BY HandlesTypes, HandlesBound
<1>2. /\ count < MaxHandles /\ count' = h /\ Handles!MayReplace(o)
      /\ Handles!Replaces(o, from, {h}) /\ made' = made \cup {o}
      /\ handle' = [handle EXCEPT ![o] = h] /\ parent' = [parent EXCEPT ![o] = from]
      /\ creator' = [creator EXCEPT ![h] = by]
  BY DEF Handles!Create
<1>3. h \in Nat /\ h # 0 /\ h \in Handles!Handles /\ h \notin alive
  BY <1>1, <1>2, HandlesBound DEF Handles!Handles
<1>4. Handles!Users(o) = {}
  BY <1>2 DEF Handles!MayReplace, Handles!Leave
<1>5. alive' = (alive \cup {h}) \ {handle[o]} /\ misused' = FALSE
  BY <1>2, <1>3, <1>4, HandleGivenUp
<1>6. \A x \in Handles!Objects : handle[x] # h
  BY <1>1
<1> HIDE DEF h
<1>7. \A x \in Handles!Objects :
         /\ handle'[x] = IF x = o THEN h ELSE handle[x]
         /\ parent'[x] = IF x = o THEN from ELSE parent[x]
  BY <1>1, <1>2
<1>8. creator'[h] = by /\ \A g \in Handles!Handles \ {h} : creator'[g] = creator[g]
  BY <1>1, <1>2, <1>3
<1>9. Owned'
  <2>1. \A x \in Handles!Objects : handle'[x] # 0 => x \in made' /\ handle'[x] \in alive'
    BY <1>2, <1>3, <1>5, <1>6, <1>7 DEF HandlesInv, Owned
  <2>2. \A g \in alive' : \E x \in Handles!Objects : handle'[x] = g
    BY <1>5, <1>7 DEF HandlesInv, Owned
  <2>3. \A x, y \in Handles!Objects : x # y /\ handle'[x] = handle'[y] => handle'[x] = 0
    BY <1>6, <1>7 DEF HandlesInv, Owned
  <2> QED BY <2>1, <2>2, <2>3 DEF Owned
<1>10. \A x \in Handles!Objects : handle[x] # 0 => handle[x] \in Handles!Handles \ {h}
  BY <1>6 DEF HandlesInv, Handles!TypeOK, Handles!Null
<1>11. Related'
  <2>1. ASSUME NEW d \in Devices, handle'[d] # 0
        PROVE  creator'[handle'[d]] = 0
    <3>1. CASE d = o
      BY <1>1, <1>7, <1>8, <3>1
    <3>2. CASE d # o
      BY <1>7, <1>8, <1>10, <2>1, <3>2 DEF HandlesInv, Related
    <3> QED BY <3>1, <3>2
  <2>2. ASSUME NEW c \in Children, handle'[c] # 0
        PROVE  /\ parent'[c] \in made' \cap Devices /\ handle'[parent'[c]] # 0
               /\ creator'[handle'[c]] = handle'[parent'[c]]
    <3>1. CASE c = o
      <4>1. from \in made \cap Devices /\ handle[from] # 0 /\ by = handle[from] /\ from # o
        BY <1>1, <3>1
      <4> QED BY <1>2, <1>7, <1>8, <3>1, <4>1
    <3>2. CASE c # o
      <4>1. /\ c \in made /\ parent[c] \in made \cap Devices /\ handle[parent[c]] # 0
            /\ creator[handle[c]] = handle[parent[c]] /\ handle[c] # 0
        BY <1>7, <2>2, <3>2 DEF HandlesInv, Related, Owned
      <4>2. parent[c] # o
        BY <1>4, <4>1 DEF Handles!Users, Handles!Null
      <4> QED BY <1>2, <1>7, <1>8, <1>10, <3>2, <4>1, <4>2
    <3> QED BY <3>1, <3>2
  <2> QED BY <2>1, <2>2 DEF Related
<1>12. Handles!TypeOK'
  <2>1. made' \subseteq Handles!Objects /\ misused' \in BOOLEAN
    BY <1>1, <1>2, <1>5
  <2>2. count' \in 0..MaxHandles /\ alive' \subseteq 1..count'
    <3>1. count' = count + 1 /\ count + 1 <= MaxHandles
      BY <1>1, <1>2, HandlesBound DEF h
    <3>2. alive' \subseteq 1..(count + 1)
      <4>1. \A x \in alive' : x \in 1..count \/ x = count + 1
        BY <1>1, <1>5 DEF h
      <4>2. 1..count \subseteq 1..(count + 1) /\ count + 1 \in 1..(count + 1)
        BY <1>1
      <4> QED BY <4>1, <4>2
    <3> QED BY <1>1, <3>1, <3>2, HandlesBound
  <2>3. handle' \in [Handles!Objects -> Handles!Handles \cup {0}]
    BY <1>2, <1>3 DEF HandlesInv, Handles!TypeOK, Handles!Null
  <2>4. parent' \in [Handles!Objects -> Devices \cup {Handles!NoParent}]
    BY <1>1, <1>2
  <2>5. creator' \in [Handles!Handles -> Handles!Handles \cup {0}]
    <3>1. by \in Handles!Handles \cup {0}
      BY <1>10
    <3> QED BY <1>2, <3>1 DEF HandlesInv, Handles!TypeOK, Handles!Null
  <2>6. \A x \in Handles!Objects : x \notin made' => handle'[x] = 0
    BY <1>9 DEF Owned
  <2>7. \A c \in Children : handle'[c] # 0 => parent'[c] # Handles!NoParent
    BY <1>11, HandlesBound DEF Related
  <2> QED
    BY <2>1, <2>2, <2>3, <2>4, <2>5, <2>6, <2>7 DEF Handles!TypeOK, Handles!Null
<1> QED BY <1>5, <1>9, <1>11, <1>12 DEF HandlesInv

LEMMA DestroyKeeps ==
    ASSUME Handles!HandlesAssumption, HandlesInv, NEW o \in Handles!Objects, Handles!Destroy(o)
    PROVE  HandlesInv'
<1> USE DEF Handles!Objects
<1>1. /\ 0 \notin alive /\ handle \in [Handles!Objects -> Nat]
      /\ parent \in [Handles!Objects -> Devices \cup {Handles!NoParent}]
      /\ made \subseteq Handles!Objects /\ alive \subseteq 1..count
  BY HandlesTypes
<1>2. /\ Handles!Users(o) = {} /\ Handles!GivesUp(o, parent[o], {}) /\ made' = made \ {o}
      /\ handle' = [handle EXCEPT ![o] = 0] /\ parent' = [parent EXCEPT ![o] = Handles!NoParent]
      /\ UNCHANGED <<creator, count>>
  BY DEF Handles!Destroy, Handles!Leave, Handles!Null
<1>3. alive' = alive \ {handle[o]} /\ misused' = FALSE
  BY <1>2, HandleGivenUp
<1>4. \A x \in Handles!Objects :
         /\ handle'[x] = IF x = o THEN 0 ELSE handle[x]
         /\ x # o => parent'[x] = parent[x]
  BY <1>1, <1>2
<1>5. Owned'
  BY <1>1, <1>2, <1>3, <1>4 DEF HandlesInv, Owned
<1>6. Related'
  <2>1. ASSUME NEW c \in Children, handle'[c] # 0
        PROVE  /\ parent'[c] \in made' \cap Devices /\ handle'[parent'[c]] # 0
               /\ creator'[handle'[c]] = handle'[parent'[c]]
    <3>1. /\ c \in made /\ c # o /\ handle[c] # 0 /\ parent[c] \in made \cap Devices
          /\ handle[parent[c]] # 0 /\ creator[handle[c]] = handle[parent[c]]
      BY <1>4, <2>1 DEF HandlesInv, Related, Owned
    <3>2. parent[c] # o
      BY <1>2, <3>1 DEF Handles!Users, Handles!Null
    <3> QED BY <1>2, <1>4, <3>1, <3>2
  <2> QED BY <1>2, <1>4, <2>1 DEF HandlesInv, Related
<1>7. Handles!TypeOK'
  <2>1. /\ made' \subseteq Handles!Objects /\ count' \in 0..MaxHandles /\ alive' \subseteq 1..count'
        /\ creator' \in [Handles!Handles -> Handles!Handles \cup {0}] /\ misused' \in BOOLEAN
    <3>1. /\ count \in 0..MaxHandles /\ creator \in [Handles!Handles -> Handles!Handles \cup {0}]
      BY DEF HandlesInv, Handles!TypeOK, Handles!Null
    <3> QED BY <1>1, <1>2, <1>3, <3>1
  <2>2. /\ handle' \in [Handles!Objects -> Handles!Handles \cup {0}]
        /\ parent' \in [Handles!Objects -> Devices \cup {Handles!NoParent}]
    BY <1>1, <1>2 DEF HandlesInv, Handles!TypeOK, Handles!Null
  <2>3. \A x \in Handles!Objects : x \notin made' => handle'[x] = 0
    BY <1>5 DEF Owned
  <2>4. \A c \in Children : handle'[c] # 0 => parent'[c] # Handles!NoParent
    BY <1>6, HandlesBound DEF Related
  <2> QED BY <2>1, <2>2, <2>3, <2>4 DEF Handles!TypeOK, Handles!Null
<1> QED BY <1>3, <1>5, <1>6, <1>7 DEF HandlesInv

LEMMA HandlesStepKeeps ==
    ASSUME Handles!HandlesAssumption, HandlesInv, Handles!Next
    PROVE  HandlesInv'
<1>1. PICK o \in Handles!Objects :
         \/ Handles!Default(o) \/ Handles!Destroy(o) \/ Handles!CreateDevice(o)
         \/ \E p \in Handles!Objects :
               Handles!CreateChild(o, p) \/ Handles!MoveConstruct(o, p) \/ Handles!MoveAssign(o, p)
  BY DEF Handles!Next
<1>2. CASE Handles!Default(o)
  BY <1>2 DEF Handles!Default, HandlesInv, Handles!TypeOK, Owned, Related, Handles!Handles, Handles!Objects
<1>3. CASE Handles!Destroy(o)
  BY <1>3, DestroyKeeps
<1>4. CASE Handles!CreateDevice(o)
  BY <1>4, CreateKeeps DEF Handles!CreateDevice, Handles!Null
<1>5. CASE \E p \in Handles!Objects : Handles!CreateChild(o, p)
  BY <1>5, CreateKeeps DEF Handles!CreateChild, Handles!Null
<1>6. ASSUME NEW p \in Handles!Objects, Handles!MoveConstruct(o, p)
      PROVE  HandlesInv'
  <2>1. /\ o \notin made /\ p \in made /\ Handles!SameClass(o, p) /\ Handles!Users(p) = {}
        /\ Handles!Takes(o, p) /\ made' = made \cup {o} /\ UNCHANGED <<alive, creator, count, misused>>
    BY <1>6 DEF Handles!MoveConstruct, Handles!Leave
  <2>2. handle[o] = 0 /\ 0 \notin alive
    BY <2>1, HandlesTypes
  <2>3. Handles!Users(o) = {}
    BY <2>1 DEF Handles!Users, HandlesInv, Related, Handles!Null
  <2>4. alive' = alive \ {handle[o]} /\ misused' = FALSE
    BY <2>1, <2>2 DEF HandlesInv
  <2> QED BY <2>1, <2>3, <2>4, TakesKeeps
<1>7. ASSUME NEW p \in Handles!Objects, Handles!MoveAssign(o, p)
      PROVE  HandlesInv'
  <2>1. /\ {o, p} \subseteq made /\ Handles!SameClass(o, p) /\ Handles!Users(p) = {}
        /\ Handles!Users(o) = {} /\ Handles!MayReplace(o) /\ Handles!Replaces(o, parent[p], {})
        /\ Handles!Takes(o, p) /\ UNCHANGED <<made, creator, count>>
    BY <1>7 DEF Handles!MoveAssign, Handles!Leave, Handles!MayReplace
  <2>2. alive' = alive \ {handle[o]} /\ misused' = FALSE
    BY <2>1, HandleGivenUp
  <2> QED BY <2>1, <2>2, TakesKeeps
<1> QED BY <1>1, <1>2, <1>3, <1>4, <1>5, <1>6, <1>7

LEMMA HandlesSafe ==
    ASSUME Handles!HandlesAssumption, HandlesInv
    PROVE  Handles!TypeOK /\ Handles!OneOwner /\ Handles!DestroyedRight
<1>1. made \subseteq Handles!Objects /\ 0 \notin alive
  BY HandlesTypes
<1> QED BY <1>1 DEF HandlesInv, Owned, Handles!OneOwner, Handles!DestroyedRight, Handles!Null

-----------------------------------------------------------------------------
(* The instances and their ids.                                            *)

\* The id of an instance is an id, its functions are its own, and a block that
\* is loaded is known to the destroy handlers of its id.
Kept ==
    /\ \A o \in Manager!Live : object[o].id \in Manager!Ids /\ object[o].cache \in {0, object[o].inst}
    /\ \A l \in Loaders, i \in Manager!Ids : blocks[<<l, i>>].loaded => l \in handlers[i]

\* No id twice, in the slots or out of them.
IdsApart ==
    /\ \A s \in Manager!Ids, o \in Manager!Live : ids[s] # object[o].id
    /\ \A s, t \in Manager!Ids : s # t /\ ids[s] = ids[t] => ids[s] = -1
    /\ \A o, p \in Manager!Live : o # p => object[o].id # object[p].id

InstancesInv == Manager!TypeOK /\ IdsApart /\ Manager!FunctionsCurrent /\ Kept

\* A set of natural numbers that is not empty has a least element.
LEMMA LeastNumber ==
    ASSUME NEW T \in SUBSET Nat, T # {}
    PROVE  \E x \in T : \A y \in T : x <= y
<1> DEFINE R == {p \in Nat \X Nat : p[1] < p[2]}
<1>1. IsWellFoundedOn(R, Nat)
  BY NatLessThanWellFounded, Zenon DEF OpToRel
<1>2. \A x, y \in Nat : y < x => <<y, x>> \in R
  OBVIOUS
<1> HIDE DEF R
<1>3. PICK x \in T : \A y \in T : ~(y < x)
  BY <1>1, <1>2, WFMin
<1> QED BY <1>3

LEMMA MinOf ==
    ASSUME NEW T \in SUBSET Nat, T # {}
    PROVE  Manager!Min(T) \in T
BY LeastNumber DEF Manager!Min

\* Of the slots, as many as there are ids, one is empty while an id is out.
LEMMA SlotLeft ==
    ASSUME MaxInstances \in Nat \ {0}, Manager!TypeOK, IdsApart,
           NEW i \in Manager!Ids, \A s \in Manager!Ids : ids[s] # i
    PROVE  \E s \in Manager!Ids : ids[s] = -1
<1> SUFFICES ASSUME \A s \in Manager!Ids : ids[s] # -1
             PROVE  FALSE
  OBVIOUS
<1> DEFINE N == MaxInstances - 1
<1>1. N \in Nat /\ Manager!Ids = 0..N
  BY DEF Manager!Ids
<1>2. IsFiniteSet(Manager!Ids) /\ Cardinality(Manager!Ids) = N + 1
  BY <1>1, FS_Interval
<1>3. IsFiniteSet(Manager!Ids \ {i}) /\ Cardinality(Manager!Ids \ {i}) = N
  <2>1. /\ IsFiniteSet(Manager!Ids \ {i})
        /\ Cardinality(Manager!Ids \ {i}) = Cardinality(Manager!Ids) - 1
    BY <1>2, FS_RemoveElement
  <2> QED BY <1>1, <1>2, <2>1
<1>4. ids \in [Manager!Ids -> Manager!Ids \ {i}]
  BY DEF Manager!TypeOK, Manager!NoId
<1>5. N < N + 1
  BY <1>1
<1> HIDE DEF N
<1>6. \E s, t \in Manager!Ids : s # t /\ ids[s] = ids[t]
  BY <1>2, <1>3, <1>4, <1>5, FS_PigeonHole
<1> QED BY <1>6 DEF IdsApart

\* alloc() and free() work on the slot that their guards ask for.
LEMMA AllocSlot ==
    ASSUME Manager!TypeOK, NEW slot \in Manager!Ids, ~Manager!Full, Manager!Alloc(slot)
    PROVE  ids[slot] \in Manager!Ids /\ ids' = [ids EXCEPT ![slot] = -1]
<1> DEFINE T == {s \in Manager!Ids : ids[s] # -1}
<1>1. T \in SUBSET Nat /\ T # {}
  BY DEF Manager!Full, Manager!Ids, Manager!NoId
<1>2. slot = Manager!Min(T)
  BY DEF Manager!Alloc, Manager!NoId
<1>3. slot \in T
  BY <1>1, <1>2, MinOf
<1> QED BY <1>3 DEF Manager!Alloc, Manager!TypeOK, Manager!NoId

LEMMA FreeSlot ==
    ASSUME MaxInstances \in Nat \ {0}, Manager!TypeOK, IdsApart, NEW i \in Manager!Ids,
           \A s \in Manager!Ids : ids[s] # i, Manager!Free(i)
    PROVE  \E s \in Manager!Ids : ids[s] = -1 /\ ids' = [ids EXCEPT ![s] = i]
<1> DEFINE T == {s \in Manager!Ids : ids[s] = -1}
<1>1. T \in SUBSET Nat /\ T # {}
  BY SlotLeft DEF Manager!Ids
<1>2. Manager!Min(T) \in T
  BY <1>1, MinOf
<1>3. ids' = [ids EXCEPT ![Manager!Min(T)] = i]
  BY DEF Manager!Free, Manager!NoId
<1> QED BY <1>2, <1>3

\* What free() leaves of the blocks and the handlers.
LEMMA FreeBlocks ==
    ASSUME Manager!TypeOK, NEW i \in Manager!Ids, Manager!Free(i)
    PROVE  /\ handlers' \in [Manager!Ids -> SUBSET Loaders]
           /\ blocks' \in [Loaders \X Manager!Ids ->
                            [loaded : BOOLEAN, f : Manager!Handles \cup {0}]]
           /\ \A j \in Manager!Ids : handlers'[j] = IF j = i THEN {} ELSE handlers[j]
           /\ \A l \in Loaders, j \in Manager!Ids :
                 /\ j # i => blocks'[<<l, j>>] = blocks[<<l, j>>]
                 /\ l \in handlers[i] => ~blocks'[<<l, i>>].loaded
                 /\ l \notin handlers[i] => blocks'[<<l, i>>] = blocks[<<l, i>>]
<1>1. /\ blocks' = [b \in Loaders \X Manager!Ids |->
                       IF b[2] = i /\ b[1] \in handlers[i] THEN [loaded |-> FALSE, f |-> 0] ELSE blocks[b]]
      /\ handlers' = [handlers EXCEPT ![i] = {}]
  BY DEF Manager!Free, Manager!Null
<1>2. \A l \in Loaders, j \in Manager!Ids :
         blocks'[<<l, j>>] = IF j = i /\ l \in handlers[i] THEN [loaded |-> FALSE, f |-> 0] ELSE blocks[<<l, j>>]
  BY <1>1
<1>3. /\ blocks \in [Loaders \X Manager!Ids -> [loaded : BOOLEAN, f : Manager!Handles \cup {0}]]
      /\ handlers \in [Manager!Ids -> SUBSET Loaders]
  BY DEF Manager!TypeOK, Manager!Null
<1>4. blocks' \in [Loaders \X Manager!Ids -> [loaded : BOOLEAN, f : Manager!Handles \cup {0}]]
  BY <1>1, <1>3
<1> QED BY <1>1, <1>2, <1>3, <1>4

LEMMA ZeroWithin ==
    ASSUME MaxHandles \in Nat
    PROVE  0 \in 0..MaxHandles
  OBVIOUS

LEMMA InstancesInit ==
    ASSUME MaxInstances \in Nat \ {0}, MaxHandles \in Nat, Manager!Init
    PROVE  InstancesInv
<1> USE DEF Manager!Init, Manager!Empty, Manager!Null, Manager!NoId
<1>1. Manager!Live = {}
  BY DEF Manager!Live
<1>2. /\ ids \in [Manager!Ids -> Manager!Ids \cup {-1}]
      /\ \A s, t \in Manager!Ids : ids[s] = ids[t] => s = t
  OBVIOUS
<1>3. /\ handlers \in [Manager!Ids -> SUBSET Loaders]
      /\ blocks \in [Loaders \X Manager!Ids -> [loaded : BOOLEAN, f : Manager!Handles \cup {0}]]
      /\ \A l \in Loaders, i \in Manager!Ids : ~blocks[<<l, i>>].loaded
  OBVIOUS
<1>4. /\ object \in [Instances -> [id : Manager!Ids \cup {-1}, inst : Manager!Handles \cup {0},
                                  cache : Manager!Handles \cup {0}]]
      /\ \A o \in Instances : object[o] = Manager!Empty
  OBVIOUS
<1>5. Manager!TypeOK
  <2>1. made = 0 /\ refused = FALSE
    BY Zenon
  <2>2. made \in 0..MaxHandles /\ refused \in BOOLEAN
    BY <2>1, ZeroWithin
  <2> QED BY <1>2, <1>3, <1>4, <2>2 DEF Manager!TypeOK
<1> QED
  BY <1>1, <1>2, <1>3, <1>5 DEF InstancesInv, IdsApart, Kept, Manager!FunctionsCurrent

\* The parts of the types that the steps cite.
InstanceType == [id : Manager!Ids \cup {-1}, inst : Manager!Handles \cup {0}, cache : Manager!Handles \cup {0}]
BlockType == [loaded : BOOLEAN, f : Manager!Handles \cup {0}]

LEMMA InstancesTypes ==
    Manager!TypeOK <=>
        /\ ids \in [Manager!Ids -> Manager!Ids \cup {-1}] /\ handlers \in [Manager!Ids -> SUBSET Loaders]
        /\ blocks \in [Loaders \X Manager!Ids -> BlockType]
        /\ object \in [Instances -> InstanceType]
        /\ \A o \in Instances \ Manager!Live : object[o] = Manager!Empty
        /\ made \in 0..MaxHandles /\ refused \in BOOLEAN
BY DEF Manager!TypeOK, InstanceType, BlockType, Manager!NoId, Manager!Null

\* A new instance takes an id that is in a slot, so no block has it loaded.
LEMMA ConstructKeeps ==
    ASSUME MaxInstances \in Nat \ {0}, MaxHandles \in Nat, InstancesInv,
           NEW o \in Instances, Manager!Construct(o)
    PROVE  InstancesInv'
<1> USE DEF Manager!Null, Manager!NoId
<1>1. Manager!TypeOK /\ IdsApart /\ Manager!FunctionsCurrent /\ Kept
  BY DEF InstancesInv
<1>2. PICK slot \in Manager!Ids :
         /\ Manager!Alloc(slot)
         /\ \/ /\ made < MaxHandles /\ made' = made + 1
               /\ object' = [object EXCEPT ![o] = [id |-> ids[slot], inst |-> made + 1, cache |-> 0]]
            \/ UNCHANGED <<made, object>>
  BY DEF Manager!Construct
<1>3. /\ object[o] = Manager!Empty /\ ~Manager!Full /\ refused' = FALSE /\ UNCHANGED <<handlers, blocks>>
  BY DEF Manager!Construct
<1>4. ids[slot] \in Manager!Ids /\ ids' = [ids EXCEPT ![slot] = -1]
  BY <1>1, <1>2, <1>3, AllocSlot
<1>5. /\ ids \in [Manager!Ids -> Manager!Ids \cup {-1}] /\ object \in [Instances -> InstanceType]
      /\ made \in 0..MaxHandles /\ \A x \in Instances \ Manager!Live : object[x] = Manager!Empty
  BY <1>1, InstancesTypes
<1>6. /\ ids' \in [Manager!Ids -> Manager!Ids \cup {-1}]
      /\ \A s \in Manager!Ids : ids'[s] = IF s = slot THEN -1 ELSE ids[s]
  BY <1>4, <1>5
<1>7. -1 \notin Manager!Ids
  BY DEF Manager!Ids
<1>8. \A l \in Loaders : ~blocks[<<l, ids[slot]>>].loaded
  BY <1>1, <1>4 DEF IdsApart, Manager!FunctionsCurrent
<1>9. CASE UNCHANGED <<made, object>>
  <2>1. Manager!Live' = Manager!Live
    BY <1>9 DEF Manager!Live
  <2>2. Manager!TypeOK'
    BY <1>1, <1>3, <1>6, <1>9, <2>1, InstancesTypes DEF Manager!TypeOK, Manager!Empty
  <2>3. IdsApart'
    BY <1>1, <1>6, <1>7, <1>9, <2>1 DEF IdsApart, Kept
  <2> QED BY <1>1, <1>3, <1>9, <2>1, <2>2, <2>3 DEF InstancesInv, Kept, Manager!FunctionsCurrent
<1>10. CASE /\ made < MaxHandles /\ made' = made + 1
            /\ object' = [object EXCEPT ![o] = [id |-> ids[slot], inst |-> made + 1, cache |-> 0]]
  <2>1. made + 1 \in Manager!Handles /\ made + 1 # 0 /\ made' \in 0..MaxHandles
    BY <1>5, <1>10 DEF Manager!Handles
  <2>2. /\ object' \in [Instances -> InstanceType]
        /\ object'[o] = [id |-> ids[slot], inst |-> made + 1, cache |-> 0]
        /\ \A x \in Instances \ {o} : object'[x] = object[x]
    <3>1. [id |-> ids[slot], inst |-> made + 1, cache |-> 0] \in InstanceType
      BY <1>4, <2>1 DEF InstanceType
    <3> QED BY <1>5, <1>10, <3>1
  <2>3. o \notin Manager!Live /\ Manager!Live' = Manager!Live \cup {o} /\ Manager!Live \subseteq Instances
    BY <1>3, <2>1, <2>2 DEF Manager!Live, Manager!Empty
  <2>4. Manager!TypeOK'
    <3>1. \A x \in Instances \ Manager!Live' : object'[x] = Manager!Empty
      BY <1>5, <2>2, <2>3
    <3>2. /\ handlers' \in [Manager!Ids -> SUBSET Loaders] /\ refused' \in BOOLEAN
          /\ blocks' \in [Loaders \X Manager!Ids -> BlockType]
      BY <1>1, <1>3, InstancesTypes
    <3> QED BY <1>6, <2>1, <2>2, <3>1, <3>2 DEF Manager!TypeOK, InstanceType, BlockType, Manager!Empty
  <2>5. \A x \in Manager!Live : object'[x] = object[x] /\ object[x].id # ids[slot]
    BY <1>1, <2>2, <2>3 DEF IdsApart
  <2>6. object'[o].id = ids[slot] /\ object'[o].inst = made + 1 /\ object'[o].cache = 0
    BY <2>2
  <2>7. IdsApart'
    <3>1. \A s \in Manager!Ids : ids'[s] # ids[slot]
      BY <1>1, <1>4, <1>6, <1>7 DEF IdsApart
    <3>2. \A s \in Manager!Ids, x \in Manager!Live : ids'[s] # object[x].id
      BY <1>1, <1>6, <1>7 DEF IdsApart, Kept
    <3>3. \A s \in Manager!Ids, x \in Manager!Live' : ids'[s] # object'[x].id
      BY <2>3, <2>5, <2>6, <3>1, <3>2
    <3>4. \A s, t \in Manager!Ids : s # t /\ ids'[s] = ids'[t] => ids'[s] = -1
      BY <1>1, <1>6 DEF IdsApart
    <3>5. \A x, y \in Manager!Live' : x # y => object'[x].id # object'[y].id
      BY <1>1, <2>3, <2>5, <2>6 DEF IdsApart
    <3> QED BY <3>3, <3>4, <3>5 DEF IdsApart
  <2>8. Kept'
    BY <1>1, <1>3, <1>4, <2>3, <2>5, <2>6 DEF Kept
  <2>9. Manager!FunctionsCurrent'
    <3> SUFFICES ASSUME NEW l \in Loaders, NEW i \in Manager!Ids, blocks[<<l, i>>].loaded
                 PROVE  \E x \in Manager!Live' : object'[x].id = i /\ blocks[<<l, i>>].f = object'[x].inst
      BY <1>3 DEF Manager!FunctionsCurrent
    <3>1. PICK x \in Manager!Live : object[x].id = i /\ blocks[<<l, i>>].f = object[x].inst
      BY <1>1 DEF Manager!FunctionsCurrent
    <3> QED BY <2>3, <2>5, <3>1
  <2> QED BY <2>4, <2>7, <2>8, <2>9 DEF InstancesInv
<1> QED BY <1>2, <1>9, <1>10

\* The instance of gone is destroyed and the others keep theirs, in whatever
\* objects: its id goes into an empty slot and its blocks are cleared.
LEMMA FreeKeeps ==
    ASSUME MaxInstances \in Nat \ {0}, InstancesInv, NEW gone \in Manager!Live,
           Manager!Free(object[gone].id), object' \in [Instances -> InstanceType],
           \A x \in Manager!Live' : \E y \in Manager!Live \ {gone} : object'[x] = object[y],
           \A y \in Manager!Live \ {gone} : \E x \in Manager!Live' : object'[x] = object[y],
           \A x, y \in Manager!Live' : x # y => object'[x].id # object'[y].id,
           \A x \in Instances \ Manager!Live' : object'[x] = Manager!Empty,
           made' = made, refused' = FALSE
    PROVE  InstancesInv'
<1> DEFINE i == object[gone].id
<1>1. Manager!TypeOK /\ IdsApart /\ Manager!FunctionsCurrent /\ Kept
  BY DEF InstancesInv
<1>2. /\ ids \in [Manager!Ids -> Manager!Ids \cup {-1}] /\ made \in 0..MaxHandles
  BY <1>1, InstancesTypes
<1>3. i \in Manager!Ids /\ -1 \notin Manager!Ids /\ Manager!Free(i) /\ \A s \in Manager!Ids : ids[s] # i
  BY <1>1 DEF IdsApart, Kept, Manager!Ids
<1> HIDE DEF i
<1>4. PICK slot \in Manager!Ids : ids[slot] = -1 /\ ids' = [ids EXCEPT ![slot] = i]
  BY <1>1, <1>3, FreeSlot
<1>5. /\ ids' \in [Manager!Ids -> Manager!Ids \cup {-1}]
      /\ \A s \in Manager!Ids : ids'[s] = IF s = slot THEN i ELSE ids[s]
  BY <1>2, <1>3, <1>4
<1>6. \A y \in Manager!Live \ {gone} : object[y].id # i
  BY <1>1 DEF IdsApart, i
<1>7. /\ handlers' \in [Manager!Ids -> SUBSET Loaders]
      /\ blocks' \in [Loaders \X Manager!Ids -> BlockType]
      /\ \A j \in Manager!Ids : handlers'[j] = IF j = i THEN {} ELSE handlers[j]
      /\ \A l \in Loaders, j \in Manager!Ids :
            /\ j # i => blocks'[<<l, j>>] = blocks[<<l, j>>]
            /\ l \in handlers[i] => ~blocks'[<<l, i>>].loaded
            /\ l \notin handlers[i] => blocks'[<<l, i>>] = blocks[<<l, i>>]
  BY <1>1, <1>3, FreeBlocks DEF BlockType
<1>8. \A l \in Loaders : ~blocks'[<<l, i>>].loaded
  BY <1>1, <1>3, <1>7 DEF Kept
<1>9. Manager!TypeOK'
  BY <1>2, <1>5, <1>7 DEF Manager!TypeOK, InstanceType, BlockType, Manager!NoId, Manager!Null, Manager!Empty
<1>10. IdsApart'
  <2>1. ASSUME NEW s \in Manager!Ids, NEW x \in Manager!Live'
        PROVE  ids'[s] # object'[x].id
    <3>1. PICK y \in Manager!Live \ {gone} : object'[x] = object[y]
      OBVIOUS
    <3> QED BY <1>1, <1>5, <1>6, <3>1 DEF IdsApart
  <2>2. \A s, t \in Manager!Ids : s # t /\ ids'[s] = ids'[t] => ids'[s] = -1
    BY <1>1, <1>3, <1>5 DEF IdsApart
  <2> QED BY <2>1, <2>2 DEF IdsApart
<1>11. Kept'
  <2>1. \A x \in Manager!Live' :
           object'[x].id \in Manager!Ids /\ object'[x].cache \in {0, object'[x].inst}
    BY <1>1 DEF Kept
  <2>2. ASSUME NEW l \in Loaders, NEW j \in Manager!Ids, blocks'[<<l, j>>].loaded
        PROVE  l \in handlers'[j]
    <3>1. j # i
      BY <1>8, <2>2
    <3>2. blocks'[<<l, j>>] = blocks[<<l, j>>]
      BY <1>7, <3>1
    <3>3. l \in handlers[j]
      BY <1>1, <2>2, <3>2 DEF Kept
    <3> QED BY <1>1, <1>7, <3>1, <3>3 DEF Manager!TypeOK, Manager!Free
  <2> QED BY <2>1, <2>2 DEF Kept
<1>12. Manager!FunctionsCurrent'
  <2> SUFFICES ASSUME NEW l \in Loaders, NEW j \in Manager!Ids, blocks'[<<l, j>>].loaded
               PROVE  \E x \in Manager!Live' : object'[x].id = j /\ blocks'[<<l, j>>].f = object'[x].inst
    BY DEF Manager!FunctionsCurrent
  <2>1. j # i /\ blocks'[<<l, j>>] = blocks[<<l, j>>]
    <3>1. j # i
      BY <1>8
    <3>2. blocks'[<<l, j>>] = blocks[<<l, j>>]
      BY ONLY <1>7, <3>1, Zenon
    <3> QED BY <3>1, <3>2
  <2>2. PICK y \in Manager!Live : object[y].id = j /\ blocks[<<l, j>>].f = object[y].inst
    BY <1>1, <2>1 DEF Manager!FunctionsCurrent
  <2>3. y # gone
    BY <2>1, <2>2 DEF i
  <2> QED BY <2>1, <2>2, <2>3
<1> QED BY <1>9, <1>10, <1>11, <1>12 DEF InstancesInv

\* The move of an instance to another object.
LEMMA MovedObjects ==
    ASSUME InstancesInv, NEW to \in Instances, NEW from \in Manager!Live, to # from,
           Manager!Moved(to, from)
    PROVE  /\ object' \in [Instances -> InstanceType]
           /\ Manager!Live' = (Manager!Live \ {from}) \cup {to}
           /\ object'[to] = object[from] /\ object'[from] = Manager!Empty
           /\ \A x \in Instances \ {to, from} : object'[x] = object[x]
           /\ \A x \in Instances \ Manager!Live' : object'[x] = Manager!Empty
           /\ \A x, y \in Manager!Live' : x # y => object'[x].id # object'[y].id
<1>1. /\ object \in [Instances -> InstanceType] /\ from \in Instances /\ IdsApart
      /\ \A x \in Instances \ Manager!Live : object[x] = Manager!Empty
  BY InstancesTypes DEF InstancesInv, Manager!Live
<1>2. Manager!Empty \in InstanceType /\ Manager!Empty.inst = 0
  BY DEF Manager!Empty, InstanceType, Manager!NoId, Manager!Null
<1>3. object' = [object EXCEPT ![to] = object[from], ![from] = Manager!Empty]
  BY DEF Manager!Moved
<1>4. /\ object' \in [Instances -> InstanceType]
      /\ object'[to] = object[from] /\ object'[from] = Manager!Empty
      /\ \A x \in Instances \ {to, from} : object'[x] = object[x]
  BY <1>1, <1>2, <1>3
<1>5. Manager!Live' = (Manager!Live \ {from}) \cup {to}
  BY <1>1, <1>2, <1>4 DEF Manager!Live, Manager!Null
<1>6. \A x \in Instances \ Manager!Live' : object'[x] = Manager!Empty
  BY <1>1, <1>4, <1>5
<1>7. \A x, y \in Manager!Live' : x # y => object'[x].id # object'[y].id
  <2>1. Manager!Live \subseteq Instances
    BY DEF Manager!Live
  <2> QED BY <1>1, <1>4, <1>5, <2>1 DEF IdsApart
<1> QED BY <1>4, <1>5, <1>6, <1>7

LEMMA MoveKeeps ==
    ASSUME MaxInstances \in Nat \ {0}, InstancesInv, NEW to \in Instances, NEW from \in Instances,
           Manager!Move(to, from)
    PROVE  InstancesInv'
<1>1. /\ to # from /\ from \in Manager!Live /\ Manager!Moved(to, from)
      /\ IF to \in Manager!Live THEN Manager!Free(object[to].id) ELSE UNCHANGED <<ids, handlers, blocks>>
      /\ refused' = FALSE /\ made' = made
  BY DEF Manager!Move
<1>2. /\ object' \in [Instances -> InstanceType]
      /\ Manager!Live' = (Manager!Live \ {from}) \cup {to} /\ Manager!Live \subseteq Instances
      /\ object'[to] = object[from]
      /\ \A x \in Instances \ {to, from} : object'[x] = object[x]
      /\ \A x \in Instances \ Manager!Live' : object'[x] = Manager!Empty
      /\ \A x, y \in Manager!Live' : x # y => object'[x].id # object'[y].id
  BY <1>1, MovedObjects DEF Manager!Live
<1>3. \A x \in Manager!Live' : \E y \in Manager!Live \ {to} : object'[x] = object[y]
  BY <1>1, <1>2
<1>4. \A y \in Manager!Live \ {to} : \E x \in Manager!Live' : object'[x] = object[y]
  BY <1>1, <1>2
<1>5. CASE to \in Manager!Live
  BY <1>1, <1>2, <1>3, <1>4, <1>5, FreeKeeps
<1>6. CASE to \notin Manager!Live
  <2>1. Manager!TypeOK /\ IdsApart /\ Manager!FunctionsCurrent /\ Kept /\ UNCHANGED <<ids, handlers, blocks>>
    BY <1>1, <1>6 DEF InstancesInv
  <2>2. Manager!TypeOK'
    <3>1. /\ ids' \in [Manager!Ids -> Manager!Ids \cup {-1}] /\ handlers' \in [Manager!Ids -> SUBSET Loaders]
          /\ blocks' \in [Loaders \X Manager!Ids -> BlockType]
          /\ made' \in 0..MaxHandles /\ refused' \in BOOLEAN
      BY <1>1, <2>1, InstancesTypes
    <3> QED
      BY <1>2, <3>1
         DEF Manager!TypeOK, InstanceType, BlockType, Manager!NoId, Manager!Null, Manager!Empty
  <2>3. IdsApart'
    BY <1>2, <1>3, <2>1 DEF IdsApart
  <2>4. Kept'
    BY <1>3, <2>1 DEF Kept
  <2>5. Manager!FunctionsCurrent'
    <3> SUFFICES ASSUME NEW l \in Loaders, NEW i \in Manager!Ids, blocks'[<<l, i>>].loaded
                 PROVE  \E x \in Manager!Live' : object'[x].id = i /\ blocks'[<<l, i>>].f = object'[x].inst
      BY DEF Manager!FunctionsCurrent
    <3>1. blocks' = blocks
      BY <2>1
    <3>2. PICK y \in Manager!Live : object[y].id = i /\ blocks[<<l, i>>].f = object[y].inst
      BY <2>1, <3>1 DEF Manager!FunctionsCurrent
    <3> QED BY <1>4, <1>6, <3>1, <3>2
  <2> QED BY <2>2, <2>3, <2>4, <2>5 DEF InstancesInv
<1> QED BY <1>5, <1>6

LEMMA InstanceDestroyed ==
    ASSUME MaxInstances \in Nat \ {0}, InstancesInv, NEW o \in Instances, Manager!Destroy(o)
    PROVE  InstancesInv'
<1>1. /\ o \in Manager!Live /\ Manager!Free(object[o].id)
      /\ object' = [object EXCEPT ![o] = Manager!Empty] /\ refused' = FALSE /\ made' = made
  BY DEF Manager!Destroy
<1>2. /\ object \in [Instances -> InstanceType] /\ IdsApart /\ Manager!Live \subseteq Instances
      /\ \A x \in Instances \ Manager!Live : object[x] = Manager!Empty
  BY InstancesTypes DEF InstancesInv, Manager!Live
<1>3. Manager!Empty \in InstanceType /\ Manager!Empty.inst = 0
  BY DEF Manager!Empty, InstanceType, Manager!NoId, Manager!Null
<1>4. /\ object' \in [Instances -> InstanceType] /\ object'[o] = Manager!Empty
      /\ \A x \in Instances \ {o} : object'[x] = object[x]
  BY <1>1, <1>2, <1>3
<1>5. Manager!Live' = Manager!Live \ {o}
  BY <1>2, <1>3, <1>4 DEF Manager!Live, Manager!Null
<1>6. \A x \in Instances \ Manager!Live' : object'[x] = Manager!Empty
  BY <1>2, <1>4, <1>5
<1>7. \A x, y \in Manager!Live' : x # y => object'[x].id # object'[y].id
  BY <1>2, <1>4, <1>5 DEF IdsApart
<1>8. \A x \in Manager!Live \ {o} : object'[x] = object[x]
  BY <1>2, <1>4
<1> QED BY <1>1, <1>4, <1>5, <1>6, <1>7, <1>8, FreeKeeps

LEMMA FunctionsKeep ==
    ASSUME InstancesInv, NEW o \in Instances, NEW l \in Loaders, Manager!GetFunctions(o, l)
    PROVE  InstancesInv'
<1> DEFINE i == object[o].id
           f == IF object[o].cache = 0 THEN object[o].inst ELSE object[o].cache
<1>1. Manager!TypeOK /\ IdsApart /\ Manager!FunctionsCurrent /\ Kept
  BY DEF InstancesInv
<1>2. /\ o \in Manager!Live /\ blocks' = [blocks EXCEPT ![<<l, i>>] = [loaded |-> TRUE, f |-> f]]
      /\ object' = [object EXCEPT ![o].cache = f]
      /\ handlers' = [handlers EXCEPT ![i] = @ \cup {l}] /\ refused' = FALSE /\ UNCHANGED <<ids, made>>
  BY DEF Manager!GetFunctions, Manager!Null
<1>3. /\ ids \in [Manager!Ids -> Manager!Ids \cup {-1}] /\ handlers \in [Manager!Ids -> SUBSET Loaders]
      /\ blocks \in [Loaders \X Manager!Ids -> BlockType]
      /\ object \in [Instances -> InstanceType] /\ made \in 0..MaxHandles
      /\ \A x \in Instances \ Manager!Live : object[x] = Manager!Empty
  BY <1>1, InstancesTypes
<1>4. i \in Manager!Ids /\ f = object[o].inst /\ f \in Manager!Handles \cup {0}
  BY <1>1, <1>2, <1>3 DEF Kept, InstanceType
<1> HIDE DEF i, f
<1>5. /\ object' \in [Instances -> InstanceType]
      /\ object'[o].id = i /\ object'[o].inst = object[o].inst /\ object'[o].cache = object[o].inst
      /\ \A x \in Instances \ {o} : object'[x] = object[x]
  <2>1. /\ object[o] \in InstanceType /\ object' = [object EXCEPT ![o] = [object[o] EXCEPT !.cache = f]]
    BY <1>2, <1>3
  <2>2. /\ [object[o] EXCEPT !.cache = f] \in InstanceType /\ [object[o] EXCEPT !.cache = f].id = i
        /\ [object[o] EXCEPT !.cache = f].inst = object[o].inst
        /\ [object[o] EXCEPT !.cache = f].cache = object[o].inst
    BY <1>4, <2>1 DEF InstanceType, i
  <2> QED BY <1>3, <2>1, <2>2
<1>6. /\ Manager!Live' = Manager!Live /\ Manager!Live \subseteq Instances
      /\ \A x \in Manager!Live : object'[x].id = object[x].id /\ object'[x].inst = object[x].inst
  BY <1>5 DEF Manager!Live, i
<1>7. /\ handlers' \in [Manager!Ids -> SUBSET Loaders] /\ l \in handlers'[i]
      /\ \A j \in Manager!Ids : handlers[j] \subseteq handlers'[j]
  BY <1>2, <1>3, <1>4
<1>8. /\ blocks' \in [Loaders \X Manager!Ids -> BlockType]
      /\ blocks'[<<l, i>>].f = object[o].inst
      /\ \A k \in Loaders, j \in Manager!Ids : <<k, j>> # <<l, i>> => blocks'[<<k, j>>] = blocks[<<k, j>>]
  <2>1. <<l, i>> \in Loaders \X Manager!Ids /\ [loaded |-> TRUE, f |-> f] \in BlockType
    BY <1>4 DEF BlockType
  <2> QED BY <1>2, <1>3, <1>4, <2>1
<1>9. Manager!TypeOK'
  <2>1. \A x \in Instances \ Manager!Live' : object'[x] = Manager!Empty
    BY <1>2, <1>3, <1>5, <1>6
  <2> QED
    BY <1>2, <1>3, <1>5, <1>7, <1>8, <2>1
       DEF Manager!TypeOK, InstanceType, BlockType, Manager!NoId, Manager!Null, Manager!Empty
<1>10. IdsApart'
  BY <1>1, <1>2, <1>6 DEF IdsApart
<1>11. Kept'
  <2>1. \A x \in Manager!Live' :
           object'[x].id \in Manager!Ids /\ object'[x].cache \in {0, object'[x].inst}
    BY <1>1, <1>4, <1>5, <1>6 DEF Kept
  <2>2. \A k \in Loaders, j \in Manager!Ids : blocks'[<<k, j>>].loaded => k \in handlers'[j]
    BY <1>1, <1>7, <1>8 DEF Kept
  <2> QED BY <2>1, <2>2 DEF Kept
<1>12. Manager!FunctionsCurrent'
  <2> SUFFICES ASSUME NEW k \in Loaders, NEW j \in Manager!Ids, blocks'[<<k, j>>].loaded
               PROVE  \E x \in Manager!Live' : object'[x].id = j /\ blocks'[<<k, j>>].f = object'[x].inst
    BY DEF Manager!FunctionsCurrent
  <2>1. CASE k = l /\ j = i
    BY <1>2, <1>5, <1>6, <1>8, <2>1
  <2>2. CASE ~(k = l /\ j = i)
    <3>1. blocks'[<<k, j>>] = blocks[<<k, j>>]
      BY <1>8, <2>2
    <3>2. PICK x \in Manager!Live : object[x].id = j /\ blocks[<<k, j>>].f = object[x].inst
      BY <1>1, <3>1 DEF Manager!FunctionsCurrent
    <3> QED BY <1>6, <3>1, <3>2
  <2> QED BY <2>1, <2>2
<1> QED BY <1>9, <1>10, <1>11, <1>12 DEF InstancesInv

LEMMA InstancesKeep ==
    ASSUME MaxInstances \in Nat \ {0}, MaxHandles \in Nat, InstancesInv, Manager!Next
    PROVE  InstancesInv'
<1>1. ASSUME NEW o \in Instances, Manager!ConstructRefused(o)
      PROVE  InstancesInv'
  <2>1. UNCHANGED <<ids, handlers, blocks, object, made>> /\ refused' = TRUE
    BY <1>1 DEF Manager!ConstructRefused
  <2>2. Manager!Live' = Manager!Live
    BY <2>1 DEF Manager!Live
  <2> QED
    BY <2>1, <2>2 DEF InstancesInv, Manager!TypeOK, IdsApart, Kept, Manager!FunctionsCurrent
<1> QED
  BY <1>1, ConstructKeeps, InstanceDestroyed, MoveKeeps, FunctionsKeep DEF Manager!Next

LEMMA InstancesSafe ==
    ASSUME MaxInstances \in Nat \ {0}, InstancesInv
    PROVE  Manager!TypeOK /\ Manager!IdsDistinct /\ Manager!FunctionsCurrent
<1>1. ASSUME NEW o \in Manager!Live
      PROVE  \E s \in Manager!Ids : ids[s] = -1
  <2>1. object[o].id \in Manager!Ids /\ \A s \in Manager!Ids : ids[s] # object[o].id
    BY DEF InstancesInv, Kept, IdsApart
  <2> QED BY <2>1, SlotLeft DEF InstancesInv
<1> QED BY <1>1 DEF InstancesInv, IdsApart, Manager!IdsDistinct, Manager!NoId

-----------------------------------------------------------------------------
(* The parts together.                                                     *)

GraphicsInv ==
    /\ part = "frames" => FrameInv
    /\ part = "instances" => InstancesInv
    /\ part = "handles" => HandlesInv

LEMMA Bounds ==
    /\ Frames!FrameAssumption /\ MaxInstances \in Nat \ {0} /\ MaxHandles \in Nat
    /\ Handles!HandlesAssumption
BY MCGraphicsAssumption DEF Manager!InstanceAssumption

\* Every part keeps its invariant from its first state on, for any number of
\* frames in flight, images, instances, ids, devices and children.
THEOREM GraphicsCorrect == Spec => []GraphicsInv
<1>1. Init => GraphicsInv
  BY Bounds, FrameInit, InstancesInit, HandlesInit DEF Init, GraphicsInv
<1>2. GraphicsInv /\ [Next]_vars => GraphicsInv'
  <2> SUFFICES ASSUME GraphicsInv, [Next]_vars
               PROVE  GraphicsInv'
    OBVIOUS
  <2>1. CASE FramesStep
    BY <2>1, Bounds, FrameStep DEF FramesStep, GraphicsInv
  <2>2. CASE ManagerStep
    BY <2>2, Bounds, InstancesKeep DEF ManagerStep, GraphicsInv
  <2>3. CASE HandlesStep
    BY <2>3, Bounds, HandlesStepKeeps DEF HandlesStep, GraphicsInv
  <2>4. CASE UNCHANGED vars
    <3>1. FrameInv => FrameInv'
      BY <2>4 DEF vars, FrameInv, Frames!TypeOK, FencesWait, SemaphoresAwaited, SizeKnown, Frames!Drawn,
                  Frames!FrameSet, Frames!Submission
    <3>2. InstancesInv => InstancesInv'
      BY <2>4 DEF vars, InstancesInv, Manager!TypeOK, IdsApart, Manager!FunctionsCurrent, Kept, Manager!Live
    <3>3. HandlesInv => HandlesInv'
      BY <2>4 DEF vars, HandlesInv, Handles!TypeOK, Owned, Related
    <3> QED BY <2>4, <3>1, <3>2, <3>3 DEF vars, GraphicsInv
  <2> QED BY <2>1, <2>2, <2>3, <2>4 DEF Next, Rests
<1> QED BY <1>1, <1>2, PTL DEF Spec

\* The frame loop presents only what is drawn, reuses a fence, a semaphore or the
\* commands of a frame only when they are free, and returns, without a wait, when
\* no commands run and no semaphore is awaited any more.
THEOREM FramesSafe == Spec => []GpuSafe
<1>1. GraphicsInv => GpuSafe
  BY FrameSafe DEF GraphicsInv, GpuSafe
<1> QED BY <1>1, GraphicsCorrect, PTL

\* An id is in one place, and the functions loaded for it are of the instance
\* that has it.
THEOREM LoadedFunctionsCurrent == Spec => []FunctionsCurrent
<1>1. GraphicsInv => FunctionsCurrent
  BY Bounds, InstancesSafe DEF GraphicsInv, FunctionsCurrent
<1> QED BY <1>1, GraphicsCorrect, PTL

\* A handle has one owner and is destroyed once, by the device that made it and
\* before it.
THEOREM HandlesOwned == Spec => []OneOwner
<1>1. GraphicsInv => OneOwner
  BY Bounds, HandlesSafe DEF GraphicsInv, OneOwner
<1> QED BY <1>1, GraphicsCorrect, PTL
=============================================================================
