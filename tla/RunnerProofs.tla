---------------------------- MODULE RunnerProofs ----------------------------
(***************************************************************************)
(* Proofs about Runner, for every number of tasks, operations and events:  *)
(* its types, ResumeSuspended, ClosedUnread and QuiescentExit.  The        *)
(* invariant of the first ties together the four places that know what a   *)
(* coroutine is doing: its own state, the stack of the thread, its         *)
(* awaiter's _continuation, and the kernel with the completion queue.      *)
(***************************************************************************)
EXTENDS Runner, WellFoundedInduction, TLAPS

\* The types of what the helpers change.
LEMMA StartType ==
    ASSUME TypeOK, NEW t, NEW c \in Tasks, Start(t, c)
    PROVE  stack' \in Seq(Tasks) /\ st' \in [Tasks -> States]
BY DEF TypeOK, Start, States

LEMMA FinishType ==
    ASSUME TypeOK, NEW t \in Tasks, Top(t), Finish(t)
    PROVE  /\ stack' \in Seq(Tasks) /\ st' \in [Tasks -> States]
           /\ cont' \in [Tasks -> Tasks \cup {NoTask}]
BY DEF TypeOK, Finish, States, Top

LEMMA AwaitType ==
    ASSUME TypeOK, NEW t \in Tasks, NEW c \in Tasks, Top(t), Await(t, c)
    PROVE  /\ stack' \in Seq(Tasks) /\ st' \in [Tasks -> States]
           /\ cont' \in [Tasks -> Tasks \cup {NoTask}]
           /\ point' \in [Tasks -> (Tasks \cup {NoTask}) \X Nat]
<1>1. CASE st[c] = "done"
  BY <1>1 DEF TypeOK, Await
<1>2. CASE st[c] # "done"
  <2>1. stack' \in Seq(Tasks)
    <3>1. stack \in Seq(Tasks) /\ stack # <<>> /\ stack' = Tail(stack)
      BY <1>2 DEF TypeOK, Await, Top
    <3> QED BY <3>1
  <2>2. st' \in [Tasks -> States] /\ cont' \in [Tasks -> Tasks \cup {NoTask}]
    BY <1>2, ZenonT(30) DEF TypeOK, Await, States
  <2>3. point' \in [Tasks -> (Tasks \cup {NoTask}) \X Nat]
    <3>1. /\ point \in [Tasks -> (Tasks \cup {NoTask}) \X Nat]
          /\ point' = [point EXCEPT ![t] = point[c]]
      BY <1>2 DEF TypeOK, Await
    <3>2. point[c] \in (Tasks \cup {NoTask}) \X Nat
      BY <3>1
    <3> QED BY <3>1, <3>2
  <2> QED BY <2>1, <2>2, <2>3
<1> QED BY <1>1, <1>2

LEMMA SubmitType ==
    ASSUME TypeOK, NEW t \in Tasks, Top(t), NEW kind \in OpStates, NEW hit,
           Submit(t, kind, hit)
    PROVE  /\ stack' \in Seq(Tasks) /\ st' \in [Tasks -> States]
           /\ op' \in [Tasks -> OpStates]
           /\ nops' \in [Tasks -> Nat]
           /\ point' \in [Tasks -> (Tasks \cup {NoTask}) \X Nat]
<1>1. nops' \in [Tasks -> Nat] /\ nops'[t] \in Nat
  BY DEF TypeOK, Submit
<1>2. <<t, nops'[t]>> \in (Tasks \cup {NoTask}) \X Nat
  BY <1>1
<1> QED
  BY <1>1, <1>2 DEF TypeOK, Submit, States, OpStates, Top

LEMMA PostType ==
    ASSUME TypeOK, NEW t \in Tasks, NEW r \in Results, Post(t, r)
    PROVE  op' \in [Tasks -> OpStates] /\ cq' \in Seq(Tasks \X Results)
BY DEF TypeOK, Post, OpStates

\* The named tasks are tasks, and NoTask is none.
LEMMA TaskNames ==
    /\ Root \in Tasks /\ Inotify \in Tasks /\ Signal \in Tasks
    /\ Canceler \in Tasks /\ Waiter \in Tasks /\ Main \in Tasks
    /\ Workers \subseteq Tasks /\ Users \subseteq Tasks
    /\ NoTask \notin Tasks
BY RunnerAssumption DEF Tasks, Root, Inotify, Signal, Canceler, Waiter, Main,
   Workers, Users, NoTask

\* The initial state is well formed, and every step keeps it so.
LEMMA InitType == Init => TypeOK
<1> SUFFICES ASSUME Init PROVE TypeOK
  OBVIOUS
<1>1. /\ stack \in Seq(Tasks) /\ st \in [Tasks -> States]
      /\ lost \in Seq(Workers) /\ cq \in Seq(Tasks \X Results)
  BY TaskNames DEF Init, States
<1>2. /\ cont \in [Tasks -> Tasks \cup {NoTask}]
      /\ owner \in [Tasks -> Users \cup {NoTask}]
      /\ op \in [Tasks -> OpStates] /\ nops \in [Tasks -> Nat]
      /\ res \in [Tasks -> Results]
  BY DEF Init, OpStates, Results
<1>3. point \in [Tasks -> (Tasks \cup {NoTask}) \X Nat]
  BY DEF Init, NoPoint
<1>4. /\ loop \in {"wait", "batch", "exited"} /\ rpc \in RootPcs
      /\ running \in BOOLEAN /\ blocked \in BOOLEAN
      /\ canceled \in BOOLEAN /\ closed \in BOOLEAN
      /\ sig \in {"none", "sent", "read"}
  BY Zenon DEF Init, RootPcs
<1>5. events \in 0..MaxEvents
  BY RunnerAssumption DEF Init
<1> QED
  BY <1>1, <1>2, <1>3, <1>4, <1>5 DEF TypeOK

\* runner_launch
LEMMA RootType == TypeOK /\ RootStep => TypeOK'
<1> SUFFICES ASSUME TypeOK, RootStep PROVE TypeOK'
  OBVIOUS
<1> USE TaskNames DEF opVars, ctxVars, coVars
<1>1. CASE RootLaunch
  <2>1. stack' \in Seq(Tasks) /\ st' \in [Tasks -> States]
    BY <1>1, StartType DEF RootLaunch
  <2>2. rpc' \in RootPcs
    BY <1>1 DEF RootLaunch, RootPcs
  <2> QED BY <1>1, <2>1, <2>2 DEF RootLaunch, TypeOK
<1>2. CASE RootAwait
  <2>1. /\ stack' \in Seq(Tasks) /\ st' \in [Tasks -> States]
        /\ cont' \in [Tasks -> Tasks \cup {NoTask}]
        /\ point' \in [Tasks -> (Tasks \cup {NoTask}) \X Nat]
    BY <1>2, AwaitType DEF RootAwait
  <2>2. rpc' \in RootPcs
    BY <1>2 DEF RootAwait, RootPcs
  <2> QED BY <1>2, <2>1, <2>2 DEF RootAwait, TypeOK
<1>3. CASE RootStop
  BY <1>3, SubmitType DEF RootStop, TypeOK, OpStates, RootPcs
<1>4. CASE RootClose
  BY <1>4 DEF RootClose, TypeOK, RootPcs
<1>5. CASE RootBlock
  BY <1>5 DEF RootBlock, TypeOK, RootPcs
<1>6. CASE RootArguments
  <2>1. stack' \in Seq(Tasks) /\ st' \in [Tasks -> States]
    BY <1>6, StartType DEF RootArguments
  <2>2. rpc' \in RootPcs
    BY <1>6 DEF RootArguments, RootPcs
  <2> QED BY <1>6, <2>1, <2>2 DEF RootArguments, TypeOK
<1>7. CASE RootExit
  <2>1. /\ stack' \in Seq(Tasks) /\ st' \in [Tasks -> States]
        /\ cont' \in [Tasks -> Tasks \cup {NoTask}]
    BY <1>7, FinishType DEF RootExit
  <2> QED BY <1>7, <2>1 DEF RootExit, TypeOK, RootPcs
<1> QED
  BY <1>1, <1>2, <1>3, <1>4, <1>5, <1>6, <1>7 DEF RootStep

\* The other coroutines of the runtime
LEMMA SystemType == TypeOK /\ SystemStep => TypeOK'
<1> SUFFICES ASSUME TypeOK, SystemStep PROVE TypeOK'
  OBVIOUS
<1> USE TaskNames DEF opVars, ctxVars, coVars
<1>1. CASE InotifyStep
  BY <1>1, FinishType, SubmitType DEF InotifyStep, TypeOK, OpStates
<1>2. CASE SignalRead
  BY <1>2, FinishType, SubmitType DEF SignalRead, TypeOK, OpStates
<1>3. CASE SignalCancelAll
  BY <1>3, SubmitType DEF SignalCancelAll, TypeOK, OpStates
<1>4. CASE SignalBlock
  BY <1>4, FinishType DEF SignalBlock, TypeOK
<1>5. CASE CancelerStep
  BY <1>5, FinishType, SubmitType DEF CancelerStep, TypeOK, OpStates
<1>6. CASE WaiterStep
  <2>1. CASE lost = <<>>
    BY <1>6, <2>1, FinishType DEF WaiterStep, TypeOK
  <2>2. CASE lost # <<>>
    <3>1. Head(lost) \in Tasks /\ Tail(lost) \in Seq(Workers)
      BY <2>2 DEF TypeOK
    <3> QED BY <1>6, <2>2, <3>1, AwaitType DEF WaiterStep, TypeOK
  <2> QED BY <2>1, <2>2
<1> QED
  BY <1>1, <1>2, <1>3, <1>4, <1>5, <1>6 DEF SystemStep

\* The user's tasks
LEMMA UserType ==
  ASSUME TypeOK, NEW t \in Users, UserStep(t) PROVE TypeOK'
<1> USE TaskNames DEF opVars, ctxVars, coVars
<1>1. CASE UserOp(t)
  <2>1. CASE blocked
    <3>1. res' \in [Tasks -> Results] /\ nops' \in [Tasks -> Nat]
      <4>1. /\ res' = [res EXCEPT ![t] = "ecanceled"]
            /\ nops' = [nops EXCEPT ![t] = @ + 1]
        BY <1>1, <2>1 DEF UserOp
      <4>2. res \in [Tasks -> Results] /\ nops \in [Tasks -> Nat]
        BY DEF TypeOK
      <4> QED BY <4>1, <4>2 DEF Results
    <3>2. UNCHANGED <<coVars, op, cq, events, sig, ctxVars>>
      BY <1>1, <2>1 DEF UserOp
    <3> QED BY <3>1, <3>2 DEF TypeOK
  <2>2. CASE ~blocked
    BY <1>1, <2>2, SubmitType DEF UserOp, TypeOK, OpStates
  <2> QED BY <2>1, <2>2
<1>2. CASE UserFinish(t)
  BY <1>2, FinishType DEF UserFinish, TypeOK
<1>3. ASSUME NEW c \in Workers, UserCreate(t, c) PROVE TypeOK'
  BY <1>3, StartType DEF UserCreate, TypeOK
<1>4. ASSUME NEW c \in Workers, UserAwait(t, c) PROVE TypeOK'
  BY <1>4, AwaitType DEF UserAwait, TypeOK
<1>5. ASSUME NEW c \in Workers, UserDrop(t, c) PROVE TypeOK'
  <2>1. lost' \in Seq(Workers)
    BY <1>5 DEF UserDrop, TypeOK
  <2>2. owner' \in [Tasks -> Users \cup {NoTask}]
    BY <1>5 DEF UserDrop, TypeOK
  <2>3. UNCHANGED <<stack, st, cont, point, opVars, ctxVars>>
    BY <1>5 DEF UserDrop
  <2> QED BY <2>1, <2>2, <2>3 DEF TypeOK
<1>6. ASSUME NEW c \in Workers, UserCancel(t, c) PROVE TypeOK'
  BY <1>6, SubmitType DEF UserCancel, TypeOK, OpStates
<1> QED
  BY <1>1, <1>2, <1>3, <1>4, <1>5, <1>6 DEF UserStep

\* ctx::run and handle_cq
LEMMA LoopType == TypeOK /\ LoopStep => TypeOK'
<1> SUFFICES ASSUME TypeOK, LoopStep PROVE TypeOK'
  OBVIOUS
<1> USE DEF opVars, ctxVars, coVars
<1>1. CASE LoopWait
  BY <1>1 DEF LoopWait, TypeOK
<1>2. CASE LoopResume
  <2>1. /\ Head(cq)[1] \in Tasks /\ Head(cq)[2] \in Results
        /\ Tail(cq) \in Seq(Tasks \X Results)
    BY <1>2 DEF LoopResume, TypeOK
  <2> QED BY <1>2, <2>1 DEF LoopResume, TypeOK, States, OpStates
<1>3. CASE LoopBatchEnd
  BY <1>3 DEF LoopBatchEnd, TypeOK
<1> QED
  BY <1>1, <1>2, <1>3 DEF LoopStep

\* The kernel and the signal
LEMMA KernelType == TypeOK /\ (Kernel \/ SendSignal) => TypeOK'
<1> SUFFICES ASSUME TypeOK, Kernel \/ SendSignal PROVE TypeOK'
  OBVIOUS
<1> USE TaskNames, RunnerAssumption DEF opVars, ctxVars, coVars
<1>1. ASSUME NEW t \in Tasks, KernelFlush(t) PROVE TypeOK'
  <2>1. op' \in [Tasks -> OpStates] /\ cq' \in Seq(Tasks \X Results)
    BY <1>1, PostType DEF KernelFlush, Results
  <2> QED BY <1>1, <2>1 DEF KernelFlush, Post, TypeOK
<1>2. ASSUME NEW t \in Tasks, KernelComplete(t) PROVE TypeOK'
  <2>1. op' \in [Tasks -> OpStates] /\ cq' \in Seq(Tasks \X Results)
    BY <1>2, PostType DEF KernelComplete, Results
  <2> QED BY <1>2, <2>1 DEF KernelComplete, Post, TypeOK
<1>3. CASE KernelInotify
  <2>1. op' \in [Tasks -> OpStates] /\ cq' \in Seq(Tasks \X Results)
    BY <1>3, PostType DEF KernelInotify, Results
  <2>2. events' \in 0..MaxEvents
    <3>1. events \in 0..MaxEvents /\ events < MaxEvents /\ events' = events + 1
      BY <1>3 DEF KernelInotify, TypeOK
    <3> QED BY <3>1
  <2>3. UNCHANGED <<coVars, nops, res, sig, ctxVars>>
    BY <1>3 DEF KernelInotify, Post
  <2> QED BY <2>1, <2>2, <2>3 DEF TypeOK
<1>4. CASE KernelSignal
  <2>1. op' \in [Tasks -> OpStates] /\ cq' \in Seq(Tasks \X Results)
    BY <1>4, PostType DEF KernelSignal, Results
  <2> QED BY <1>4, <2>1 DEF KernelSignal, Post, TypeOK
<1>5. CASE SendSignal
  BY <1>5 DEF SendSignal, TypeOK
<1> QED
  BY <1>1, <1>2, <1>3, <1>4, <1>5 DEF Kernel

\* Every step
LEMMA StepType == TypeOK /\ [Next]_vars => TypeOK'
<1> SUFFICES ASSUME TypeOK, [Next]_vars PROVE TypeOK'
  OBVIOUS
<1>1. CASE UNCHANGED vars
  BY <1>1 DEF TypeOK, vars, coVars, opVars, ctxVars
<1>2. CASE Run
  BY <1>2, RootType, SystemType, LoopType, UserType DEF Run
<1>3. CASE Kernel \/ SendSignal
  BY <1>3, KernelType
<1> QED
  BY <1>1, <1>2, <1>3 DEF Next, Exited

\* Whatever the number of tasks, the state of a context is well formed: a
\* finished task without an awaiter is never resumed as one, and the task
\* lists hold tasks only.
THEOREM TypeCorrect == Spec => []TypeOK
BY InitType, StepType, PTL DEF Spec
-----------------------------------------------------------------------------
\* The sequence s holds e; it holds nothing twice.
Holds(s, e) == \E i \in DOMAIN s : s[i] = e
Distinct(s) == \A i, j \in DOMAIN s : s[i] = s[j] => i = j

InQueue(t) == \E i \in DOMAIN cq : cq[i][1] = t

\* A coroutine is on the stack, once, exactly while it runs.
StackInv ==
    /\ \A t \in Tasks : st[t] = "run" <=> Holds(stack, t)
    /\ Distinct(stack)

\* A continuation is suspended in one co_await of a task.
ContInv ==
    /\ \A c \in Tasks : cont[c] # NoTask => st[cont[c]] = "await"
    /\ \A c, d \in Tasks : cont[c] # NoTask /\ cont[c] = cont[d] => c = d

\* The kernel knows an operation exactly while the task is suspended on it,
\* and its one completion is in the queue exactly when it is posted.
OpInv ==
    /\ \A t \in Tasks : st[t] = "op" <=> op[t] # "none"
    /\ \A t \in Tasks : op[t] = "posted" <=> InQueue(t)
    /\ \A i, j \in DOMAIN cq : cq[i][1] = cq[j][1] => i = j

\* What runner_launch has still to start has not started.
IdleInv ==
    /\ rpc = "main" => st[Main] = "idle"
    /\ rpc \in {"main", "inotify"} => st[Inotify] = "idle"
    /\ rpc \in {"main", "inotify", "signal"} => st[Signal] = "idle"

CoreInv == StackInv /\ ContInv /\ OpInv

ResumeInv == TypeOK /\ CoreInv /\ IdleInv

\* From stop() on the flag is up, and no read of the descriptor is pending.
ClosedInv ==
    /\ closed \/ rpc = "close" => canceled
    /\ canceled => op[Inotify] # "pending"
-----------------------------------------------------------------------------
\* Pushing a new element keeps a stack free of repetitions.
LEMMA PushStack ==
    ASSUME NEW S, NEW s \in Seq(S), NEW c \in S,
           Distinct(s), ~Holds(s, c)
    PROVE  /\ Distinct(<<c>> \o s)
           /\ \A t : Holds(<<c>> \o s, t) <=> (t = c \/ Holds(s, t))
<1> USE DEF Distinct, Holds
<1> DEFINE r == <<c>> \o s
<1>1. /\ r \in Seq(S) /\ Len(r) = Len(s) + 1 /\ r[1] = c
      /\ \A i \in 2..Len(r) : r[i] = s[i - 1]
      /\ DOMAIN r = 1..Len(r) /\ DOMAIN s = 1..Len(s) /\ Len(s) \in Nat
  OBVIOUS
<1>2. \A i \in DOMAIN s : r[i + 1] = s[i] /\ i + 1 \in DOMAIN r
  BY <1>1
<1> HIDE DEF r
<1>3. \A i, j \in DOMAIN r : r[i] = r[j] => i = j
  <2> SUFFICES ASSUME NEW i \in DOMAIN r, NEW j \in DOMAIN r, r[i] = r[j]
               PROVE  i = j
    OBVIOUS
  <2>0. \A k \in DOMAIN r : k # 1 => k - 1 \in DOMAIN s /\ r[k] = s[k - 1]
    BY <1>1
  <2>1. CASE i = 1 \/ j = 1
    BY <1>1, <2>0, <2>1
  <2>2. CASE i # 1 /\ j # 1
    <3>1. i - 1 \in DOMAIN s /\ j - 1 \in DOMAIN s /\ s[i - 1] = s[j - 1]
      BY <1>1, <2>2
    <3> QED BY <1>1, <3>1
  <2> QED BY <2>1, <2>2
<1>4. \A t : (\E i \in DOMAIN r : r[i] = t)
             <=> (t = c \/ \E i \in DOMAIN s : s[i] = t)
  <2> TAKE t
  <2>1. ASSUME NEW i \in DOMAIN r, r[i] = t
        PROVE  t = c \/ \E k \in DOMAIN s : s[k] = t
    <3>1. CASE i = 1
      BY <1>1, <2>1, <3>1
    <3>2. CASE i # 1
      <4>1. i - 1 \in DOMAIN s /\ s[i - 1] = t
        BY <1>1, <2>1, <3>2
      <4> QED BY <4>1
    <3> QED BY <3>1, <3>2
  <2>2. ASSUME NEW i \in DOMAIN s, s[i] = t PROVE \E k \in DOMAIN r : r[k] = t
    BY <1>2, <2>2
  <2>3. ASSUME t = c PROVE \E k \in DOMAIN r : r[k] = t
    <3>1. 1 \in DOMAIN r /\ r[1] = t
      BY <1>1, <2>3
    <3> QED BY <3>1
  <2> QED BY <2>1, <2>2, <2>3
<1> QED BY <1>3, <1>4 DEF r

\* Popping takes the head, and only the head, out of a stack.
LEMMA PopStack ==
    ASSUME NEW S, NEW s \in Seq(S), s # <<>>, Distinct(s)
    PROVE  /\ Distinct(Tail(s))
           /\ \A t : Holds(Tail(s), t) <=> (t # Head(s) /\ Holds(s, t))
<1> USE DEF Distinct, Holds
<1> DEFINE r == Tail(s)
<1>1. /\ r \in Seq(S) /\ Len(r) = Len(s) - 1 /\ Head(s) = s[1]
      /\ \A i \in 1..Len(r) : r[i] = s[i + 1] /\ i + 1 \in DOMAIN s
      /\ DOMAIN r = 1..Len(r) /\ DOMAIN s = 1..Len(s)
      /\ Len(r) \in Nat /\ 1 \in DOMAIN s
  OBVIOUS
<1> HIDE DEF r
<1>2. \A i, j \in DOMAIN r : r[i] = r[j] => i = j
  <2> SUFFICES ASSUME NEW i \in DOMAIN r, NEW j \in DOMAIN r, r[i] = r[j]
               PROVE  i = j
    OBVIOUS
  <2>1. i + 1 \in DOMAIN s /\ j + 1 \in DOMAIN s /\ s[i + 1] = s[j + 1]
    BY <1>1
  <2> QED BY <1>1, <2>1
<1>3. \A i \in DOMAIN r : r[i] # Head(s)
  BY <1>1
<1>4. \A t : (\E i \in DOMAIN r : r[i] = t)
             <=> (t # Head(s) /\ \E i \in DOMAIN s : s[i] = t)
  <2> TAKE t
  <2>1. ASSUME NEW i \in DOMAIN r, r[i] = t
        PROVE  t # Head(s) /\ \E k \in DOMAIN s : s[k] = t
    BY <1>1, <1>3, <2>1
  <2>2. ASSUME NEW i \in DOMAIN s, s[i] = t, t # Head(s)
        PROVE  \E k \in DOMAIN r : r[k] = t
    <3>1. i - 1 \in DOMAIN r /\ r[i - 1] = t
      BY <1>1, <2>2
    <3> QED BY <3>1
  <2> QED BY <2>1, <2>2
<1> QED BY <1>1, <1>2, <1>3, <1>4 DEF r
-----------------------------------------------------------------------------
\* The coroutine on top of the stack runs.
LEMMA TopRuns ==
    ASSUME TypeOK, StackInv, NEW t, Top(t)
    PROVE  t \in Tasks /\ st[t] = "run" /\ stack # <<>> /\ t = Head(stack)
<1>1. stack \in Seq(Tasks) /\ stack # <<>> /\ Head(stack) = t
  BY DEF TypeOK, Top
<1>2. 1 \in DOMAIN stack /\ stack[1] = t /\ t \in Tasks
  BY <1>1
<1> QED BY <1>1, <1>2 DEF StackInv, Holds

\* What leaving the stack in a state other than "run" does to StackInv.
LEMMA LeaveStack ==
    ASSUME TypeOK, StackInv, NEW t, Top(t), stack' = Tail(stack),
           NEW s \in States \ {"run"}, st' = [st EXCEPT ![t] = s]
    PROVE  StackInv'
<1>1. t \in Tasks /\ stack # <<>> /\ t = Head(stack) /\ stack \in Seq(Tasks)
  BY TopRuns DEF TypeOK
<1>2. /\ Distinct(stack')
      /\ \A u : Holds(stack', u) <=> (u # t /\ Holds(stack, u))
  BY <1>1, PopStack DEF StackInv
<1>3. \A u \in Tasks : st'[u] = "run" <=> (u # t /\ st[u] = "run")
  BY <1>1 DEF TypeOK
<1> QED BY <1>2, <1>3 DEF StackInv

\* A task is started: Start and what its callers leave alone.
LEMMA StartInv ==
    ASSUME TypeOK, CoreInv, NEW t, NEW c \in Tasks, st[c] = "idle",
           Start(t, c), UNCHANGED <<cont, op, cq>>
    PROVE  CoreInv'
<1>1. /\ stack \in Seq(Tasks) /\ stack' = <<c>> \o stack
      /\ st' = [st EXCEPT ![c] = "run"] /\ st \in [Tasks -> States]
  BY DEF Start, TypeOK
<1>2. \A u \in Tasks : st'[u] = IF u = c THEN "run" ELSE st[u]
  BY <1>1
<1>3. StackInv'
  <2>1. Distinct(stack) /\ ~Holds(stack, c)
    BY DEF CoreInv, StackInv
  <2>2. /\ Distinct(stack')
        /\ \A u : Holds(stack', u) <=> (u = c \/ Holds(stack, u))
    BY <1>1, <2>1, PushStack
  <2> QED BY <1>2, <2>1, <2>2 DEF CoreInv, StackInv
<1>4. ContInv' /\ OpInv'
  <2>1. \A d \in Tasks : cont[d] # NoTask => cont[d] \in Tasks
    BY DEF TypeOK
  <2>2. ContInv'
    BY <1>2, <2>1 DEF CoreInv, ContInv
  <2>3. OpInv'
    BY <1>2 DEF CoreInv, OpInv, InQueue
  <2> QED BY <2>2, <2>3
<1> QED BY <1>3, <1>4 DEF CoreInv

\* A task ends, and its awaiter goes on in its place.
LEMMA FinishInv ==
    ASSUME TypeOK, CoreInv, NEW t, Top(t), Finish(t), UNCHANGED <<op, cq>>
    PROVE  CoreInv'
<1>1. /\ t \in Tasks /\ st[t] = "run" /\ stack # <<>> /\ t = Head(stack)
      /\ stack \in Seq(Tasks) /\ Tail(stack) \in Seq(Tasks)
  BY TopRuns DEF TypeOK, CoreInv
<1>2. /\ \A u \in Tasks : st'[u] = IF u = t THEN "done"
                                   ELSE IF u = cont[t] THEN "run" ELSE st[u]
      /\ stack' = IF cont[t] = NoTask THEN Tail(stack)
                  ELSE <<cont[t]>> \o Tail(stack)
      /\ \A u \in Tasks : cont'[u] = IF u = t THEN NoTask ELSE cont[u]
  BY <1>1 DEF Finish, TypeOK
<1>3. cont[t] # NoTask => cont[t] \in Tasks /\ st[cont[t]] = "await"
  BY <1>1 DEF TypeOK, CoreInv, ContInv
<1>4. /\ Distinct(Tail(stack))
      /\ \A u : Holds(Tail(stack), u) <=> (u # t /\ Holds(stack, u))
  BY <1>1, PopStack DEF CoreInv, StackInv
<1>5. StackInv'
  <2>1. CASE cont[t] = NoTask
    <3>1. \A u \in Tasks : st'[u] = "run" <=> (u # t /\ st[u] = "run")
      BY <1>2, <2>1, TaskNames
    <3> QED BY <1>2, <1>4, <2>1, <3>1 DEF CoreInv, StackInv
  <2>2. CASE cont[t] # NoTask
    <3>1. ~Holds(Tail(stack), cont[t])
      BY <1>3, <1>4, <2>2 DEF CoreInv, StackInv
    <3>2. /\ Distinct(stack')
          /\ \A u : Holds(stack', u) <=> (u = cont[t] \/ Holds(Tail(stack), u))
      BY <1>1, <1>2, <1>3, <1>4, <2>2, <3>1, PushStack
    <3>3. \A u \in Tasks : st'[u] = "run"
                           <=> (u = cont[t] \/ (u # t /\ st[u] = "run"))
      BY <1>1, <1>2, <1>3, <2>2
    <3> QED BY <1>4, <3>2, <3>3 DEF CoreInv, StackInv
  <2> QED BY <2>1, <2>2
<1>6. ContInv'
  <2>1. \A d \in Tasks : cont[d] # NoTask => cont[d] \in Tasks
    BY DEF TypeOK
  <2>2. \A d \in Tasks : d # t /\ cont[d] # NoTask => cont[d] # cont[t]
    BY <1>1 DEF CoreInv, ContInv
  <2> QED BY <1>1, <1>2, <1>3, <2>1, <2>2 DEF CoreInv, ContInv
<1>7. OpInv'
  <2>1. \A u \in Tasks : st'[u] = "op" <=> st[u] = "op"
    BY <1>1, <1>2, <1>3, TaskNames
  <2> QED BY <2>1 DEF CoreInv, OpInv, InQueue
<1> QED BY <1>5, <1>6, <1>7 DEF CoreInv

\* A task is awaited, done or not.
LEMMA AwaitInv ==
    ASSUME TypeOK, CoreInv, NEW t, NEW c \in Tasks, Top(t), Await(t, c),
           UNCHANGED <<op, cq>>
    PROVE  CoreInv'
<1>1. t \in Tasks /\ st[t] = "run"
  BY TopRuns DEF CoreInv
<1>2. CASE st[c] = "done"
  <2>1. UNCHANGED <<stack, st, cont>>
    BY <1>2 DEF Await
  <2> QED
    BY <2>1 DEF CoreInv, StackInv, ContInv, OpInv, InQueue
<1>3. CASE st[c] # "done"
  <2>1. /\ stack' = Tail(stack) /\ st' = [st EXCEPT ![t] = "await"]
        /\ \A d \in Tasks : cont'[d] = IF d = c THEN t ELSE cont[d]
        /\ \A u \in Tasks : st'[u] = IF u = t THEN "await" ELSE st[u]
    BY <1>1, <1>3 DEF Await, TypeOK
  <2>2. StackInv'
    BY <2>1, LeaveStack DEF CoreInv, States
  <2>3. ContInv'
    <3>1. \A d \in Tasks : cont[d] # NoTask => cont[d] \in Tasks
      BY DEF TypeOK
    <3>2. \A d \in Tasks : cont[d] # NoTask => cont[d] # t
      BY <1>1 DEF CoreInv, ContInv
    <3> QED BY <1>1, <2>1, <3>1, <3>2 DEF CoreInv, ContInv
  <2>4. OpInv'
    BY <1>1, <2>1 DEF CoreInv, OpInv, InQueue
  <2> QED BY <2>2, <2>3, <2>4 DEF CoreInv
<1> QED BY <1>2, <1>3

\* A task is suspended on an operation that may cancel pending ones.
LEMMA SubmitInv ==
    ASSUME TypeOK, CoreInv, NEW t, Top(t), NEW kind \in {"pending", "quick"},
           NEW hit, hit \subseteq Pending, Submit(t, kind, hit),
           UNCHANGED <<cont, cq>>
    PROVE  CoreInv'
<1>1. t \in Tasks /\ st[t] = "run" /\ op[t] = "none"
  BY TopRuns DEF CoreInv, OpInv
<1>2. /\ stack' = Tail(stack) /\ st' = [st EXCEPT ![t] = "op"]
      /\ \A u \in Tasks : st'[u] = IF u = t THEN "op" ELSE st[u]
      /\ \A u \in Tasks : op'[u] = IF u = t THEN kind
                                   ELSE IF u \in hit THEN "canceled" ELSE op[u]
  BY <1>1 DEF Submit, TypeOK
<1>3. StackInv'
  BY <1>2, LeaveStack DEF CoreInv, States
<1>4. ContInv'
  <2>1. \A d \in Tasks : cont[d] # NoTask => cont[d] \in Tasks
    BY DEF TypeOK
  <2> QED BY <1>1, <1>2, <2>1 DEF CoreInv, ContInv
<1>5. OpInv'
  <2>1. \A u \in hit : u \in Tasks /\ op[u] = "pending"
    BY DEF Pending
  <2>2. \A u \in Tasks : op'[u] # "none" <=> (u = t \/ op[u] # "none")
    BY <1>1, <1>2, <2>1
  <2>3. \A u \in Tasks : op'[u] = "posted" <=> op[u] = "posted"
    BY <1>1, <1>2, <2>1
  <2> QED BY <1>1, <1>2, <2>2, <2>3 DEF CoreInv, OpInv, InQueue
<1> QED BY <1>3, <1>4, <1>5 DEF CoreInv

\* The kernel completes an operation it still holds.
LEMMA PostInv ==
    ASSUME TypeOK, CoreInv, NEW t \in Tasks, NEW r,
           op[t] \in {"pending", "quick", "canceled"}, Post(t, r)
    PROVE  CoreInv'
<1>1. UNCHANGED <<stack, st, cont>> /\ cq' = Append(cq, <<t, r>>)
  BY DEF Post, coVars
<1>2. \A u \in Tasks : op'[u] = IF u = t THEN "posted" ELSE op[u]
  BY DEF Post, TypeOK
<1>3. StackInv' /\ ContInv'
  BY <1>1 DEF CoreInv, StackInv, ContInv
<1>4. /\ DOMAIN cq = 1..Len(cq) /\ DOMAIN cq' = 1..(Len(cq) + 1)
      /\ Len(cq) \in Nat /\ cq'[Len(cq) + 1][1] = t
      /\ \A i \in DOMAIN cq : cq'[i] = cq[i]
  BY <1>1 DEF TypeOK
<1>5. \A i \in DOMAIN cq : cq[i][1] # t
  BY DEF CoreInv, OpInv, InQueue
<1>6. \A i, j \in DOMAIN cq' : cq'[i][1] = cq'[j][1] => i = j
  <2>1. \A i \in DOMAIN cq' : i \in DOMAIN cq \/ i = Len(cq) + 1
    BY <1>4
  <2> QED BY <1>4, <1>5, <2>1 DEF CoreInv, OpInv
<1>7. \A u \in Tasks : InQueue(u)' <=> (u = t \/ InQueue(u))
  <2>1. \A i \in DOMAIN cq' : i \in DOMAIN cq \/ i = Len(cq) + 1
    BY <1>4
  <2>2. Len(cq) + 1 \in DOMAIN cq' /\ \A i \in DOMAIN cq : i \in DOMAIN cq'
    BY <1>4
  <2> QED BY <1>4, <2>1, <2>2 DEF InQueue
<1>8. OpInv'
  BY <1>1, <1>2, <1>6, <1>7 DEF CoreInv, OpInv
<1> QED BY <1>3, <1>8 DEF CoreInv

\* handle_cq takes the completion at the head and resumes its coroutine.
LEMMA LoopResumeInv ==
    ASSUME TypeOK, CoreInv, LoopResume
    PROVE  CoreInv'
<1> DEFINE t == Head(cq)[1]
<1>1. /\ stack = <<>> /\ cq # <<>> /\ stack' = <<t>> /\ cq' = Tail(cq)
      /\ cq \in Seq(Tasks \X Results) /\ UNCHANGED cont
      /\ st' = [st EXCEPT ![t] = "run"] /\ op' = [op EXCEPT ![t] = "none"]
  BY DEF LoopResume, TypeOK
<1>2. /\ t \in Tasks /\ 1 \in DOMAIN cq /\ t = cq[1][1]
      /\ DOMAIN cq = 1..Len(cq) /\ Len(cq) \in Nat
  BY <1>1
<1>3. /\ \A u \in Tasks : st'[u] = IF u = t THEN "run" ELSE st[u]
      /\ \A u \in Tasks : op'[u] = IF u = t THEN "none" ELSE op[u]
  BY <1>1, <1>2 DEF TypeOK
<1>4. st[t] = "op" /\ op[t] = "posted"
  BY <1>2 DEF CoreInv, OpInv, InQueue
<1> HIDE DEF t
<1>5. StackInv'
  <2>1. \A u \in Tasks : st[u] # "run"
    <3>1. DOMAIN stack = {}
      BY <1>1
    <3> QED BY <3>1 DEF CoreInv, StackInv, Holds
  <2>2. DOMAIN stack' = {1} /\ stack'[1] = t
    BY <1>1
  <2> QED BY <1>2, <1>3, <2>1, <2>2 DEF StackInv, Holds, Distinct
<1>6. ContInv'
  <2>1. \A d \in Tasks : cont[d] # NoTask => cont[d] \in Tasks
    BY DEF TypeOK
  <2> QED BY <1>1, <1>3, <1>4, <2>1 DEF CoreInv, ContInv
<1>7. OpInv'
  <2>1. /\ DOMAIN cq' = 1..(Len(cq) - 1)
        /\ \A i \in DOMAIN cq' : cq'[i] = cq[i + 1] /\ i + 1 \in DOMAIN cq
    BY <1>1, <1>2
  <2>2. \A i \in DOMAIN cq : i # 1 => i - 1 \in DOMAIN cq' /\ cq'[i - 1] = cq[i]
    BY <1>2, <2>1
  <2>3. \A i, j \in DOMAIN cq' : cq'[i][1] = cq'[j][1] => i = j
    <3> SUFFICES ASSUME NEW i \in DOMAIN cq', NEW j \in DOMAIN cq',
                        cq'[i][1] = cq'[j][1]
                 PROVE  i = j
      OBVIOUS
    <3>1. i + 1 = j + 1
      BY <2>1 DEF CoreInv, OpInv
    <3> QED BY <2>1, <3>1
  <2>4. \A u \in Tasks : InQueue(u)' <=> (u # t /\ InQueue(u))
    <3> TAKE u \in Tasks
    <3>1. ASSUME NEW i \in DOMAIN cq', cq'[i][1] = u
          PROVE  u # t /\ InQueue(u)
      <4>1. i + 1 \in DOMAIN cq /\ cq[i + 1][1] = u /\ i + 1 # 1
        BY <2>1, <3>1
      <4> QED BY <1>2, <4>1 DEF CoreInv, OpInv, InQueue
    <3>2. ASSUME NEW i \in DOMAIN cq, cq[i][1] = u, u # t
          PROVE  InQueue(u)'
      <4>1. i - 1 \in DOMAIN cq' /\ cq'[i - 1][1] = u
        BY <1>2, <2>2, <3>2
      <4> QED BY <4>1 DEF InQueue
    <3> QED BY <3>1, <3>2 DEF InQueue
  <2> QED BY <1>3, <1>4, <2>3, <2>4 DEF CoreInv, OpInv
<1> QED BY <1>5, <1>6, <1>7 DEF CoreInv

-----------------------------------------------------------------------------
\* The state of the coroutines, their awaiters and operations is the same.
LEMMA SameInv ==
    ASSUME CoreInv, UNCHANGED <<stack, st, cont, op, cq>>
    PROVE  CoreInv'
BY DEF CoreInv, StackInv, ContInv, OpInv, InQueue

\* The steps of runner_launch, of the other system tasks, of the user's
\* tasks, of the loop and of the kernel, each through the helper it uses.
LEMMA RootInv == ResumeInv /\ RootStep => CoreInv'
<1> SUFFICES ASSUME ResumeInv, RootStep PROVE CoreInv'
  OBVIOUS
<1> USE TaskNames DEF ResumeInv, opVars, coVars
<1>1. CASE RootLaunch
  BY <1>1, StartInv DEF RootLaunch, IdleInv
<1>2. CASE RootAwait
  BY <1>2, AwaitInv DEF RootAwait
<1>3. CASE RootStop
  BY <1>3, SubmitInv DEF RootStop
<1>4. CASE RootClose \/ RootBlock
  BY <1>4, SameInv DEF RootClose, RootBlock
<1>5. CASE RootArguments
  BY <1>5, StartInv DEF RootArguments
<1>6. CASE RootExit
  BY <1>6, FinishInv DEF RootExit
<1> QED
  BY <1>1, <1>2, <1>3, <1>4, <1>5, <1>6 DEF RootStep

LEMMA SystemInv == ResumeInv /\ SystemStep => CoreInv'
<1> SUFFICES ASSUME ResumeInv, SystemStep PROVE CoreInv'
  OBVIOUS
<1> USE TaskNames DEF ResumeInv, opVars, ctxVars
<1>1. CASE InotifyStep
  BY <1>1, FinishInv, SubmitInv DEF InotifyStep
<1>2. CASE SignalRead
  BY <1>2, FinishInv, SubmitInv DEF SignalRead
<1>3. CASE SignalCancelAll
  BY <1>3, SubmitInv DEF SignalCancelAll
<1>4. CASE SignalBlock
  BY <1>4, FinishInv DEF SignalBlock
<1>5. CASE CancelerStep
  BY <1>5, FinishInv, SubmitInv DEF CancelerStep
<1>6. CASE WaiterStep
  <2>1. lost # <<>> => Head(lost) \in Tasks
    BY DEF TypeOK
  <2> QED BY <1>6, <2>1, FinishInv, AwaitInv DEF WaiterStep
<1> QED
  BY <1>1, <1>2, <1>3, <1>4, <1>5, <1>6 DEF SystemStep

LEMMA UserInv ==
    ASSUME ResumeInv, NEW t \in Users, UserStep(t) PROVE CoreInv'
<1> USE TaskNames DEF ResumeInv, opVars, coVars
<1>1. CASE UserOp(t)
  <2>1. CASE blocked
    BY <1>1, <2>1, SameInv DEF UserOp
  <2>2. CASE ~blocked
    BY <1>1, <2>2, SubmitInv DEF UserOp
  <2> QED BY <2>1, <2>2
<1>2. CASE UserFinish(t)
  BY <1>2, FinishInv DEF UserFinish
<1>3. ASSUME NEW c \in Workers, UserCreate(t, c) PROVE CoreInv'
  BY <1>3, StartInv DEF UserCreate
<1>4. ASSUME NEW c \in Workers, UserAwait(t, c) PROVE CoreInv'
  BY <1>4, AwaitInv DEF UserAwait
<1>5. ASSUME NEW c \in Workers, UserDrop(t, c) PROVE CoreInv'
  BY <1>5, SameInv DEF UserDrop
<1>6. ASSUME NEW c \in Workers, UserCancel(t, c) PROVE CoreInv'
  <2>1. Target(point[c]) \subseteq Pending
    BY DEF Target, Pending
  <2> QED BY <1>6, <2>1, SubmitInv DEF UserCancel
<1> QED
  BY <1>1, <1>2, <1>3, <1>4, <1>5, <1>6 DEF UserStep

LEMMA LoopInv == ResumeInv /\ LoopStep => CoreInv'
BY SameInv, LoopResumeInv
   DEF LoopStep, LoopWait, LoopBatchEnd, ResumeInv, coVars, opVars

LEMMA KernelInv == ResumeInv /\ (Kernel \/ SendSignal) => CoreInv'
<1> SUFFICES ASSUME ResumeInv, Kernel \/ SendSignal PROVE CoreInv'
  OBVIOUS
<1> USE TaskNames DEF ResumeInv
<1>1. ASSUME NEW t \in Tasks, KernelFlush(t) PROVE CoreInv'
  BY <1>1, PostInv DEF KernelFlush
<1>2. ASSUME NEW t \in Tasks, KernelComplete(t) PROVE CoreInv'
  BY <1>2, PostInv DEF KernelComplete
<1>3. CASE KernelInotify
  BY <1>3, PostInv DEF KernelInotify
<1>4. CASE KernelSignal
  BY <1>4, PostInv DEF KernelSignal
<1>5. CASE SendSignal
  BY <1>5, SameInv DEF SendSignal, coVars
<1> QED
  BY <1>1, <1>2, <1>3, <1>4, <1>5 DEF Kernel

-----------------------------------------------------------------------------
\* Only Start takes a coroutine out of "idle".
Stay(u) == st[u] = "idle" => st'[u] = "idle"

\* A task that has not started is not touched by what the others do.
LEMMA StayIdle ==
    ASSUME TypeOK, CoreInv, NEW t, Top(t), NEW u \in Tasks,
           \/ Finish(t)
           \/ \E c \in Tasks : Await(t, c)
           \/ \E kind, hit : Submit(t, kind, hit)
    PROVE  Stay(u)
<1>1. t \in Tasks /\ st[t] = "run"
  BY TopRuns DEF CoreInv
<1>2. CASE Finish(t)
  <2>1. cont[t] # NoTask => st[cont[t]] = "await"
    BY <1>1 DEF CoreInv, ContInv
  <2> QED BY <1>1, <1>2, <2>1, TaskNames DEF Finish, TypeOK, Stay
<1>3. ASSUME NEW c \in Tasks, Await(t, c) PROVE Stay(u)
  BY <1>1, <1>3 DEF Await, TypeOK, Stay
<1>4. ASSUME NEW kind, NEW hit, Submit(t, kind, hit) PROVE Stay(u)
  BY <1>1, <1>4 DEF Submit, TypeOK, Stay
<1> QED BY <1>2, <1>3, <1>4

\* Main, run() and stop_by_signal are started by runner_launch only.
LEMMA StayOthers ==
    ASSUME ResumeInv, NEW u \in {Main, Inotify, Signal},
           \/ SystemStep \/ LoopStep \/ Kernel \/ SendSignal
           \/ \E t \in Users : UserStep(t)
    PROVE  Stay(u)
<1> USE TaskNames DEF ResumeInv
<1>0. u \in Tasks /\ u \notin Workers
  BY RunnerAssumption DEF Workers, Main, Inotify, Signal
<1>1. CASE SystemStep
  <2>1. CASE WaiterStep
    <3>1. lost # <<>> => Head(lost) \in Tasks
      BY DEF TypeOK
    <3> QED BY <1>0, <2>1, <3>1, StayIdle DEF WaiterStep
  <2>2. CASE InotifyStep \/ SignalRead \/ SignalCancelAll \/ SignalBlock
              \/ CancelerStep
    BY <1>0, <2>2, StayIdle DEF InotifyStep, SignalRead, SignalCancelAll,
       SignalBlock, CancelerStep
  <2> QED BY <1>1, <2>1, <2>2 DEF SystemStep
<1>2. CASE LoopStep
  <2>1. CASE LoopResume
    <3>1. Head(cq)[1] \in Tasks /\ 1 \in DOMAIN cq /\ Head(cq) = cq[1]
      BY <2>1 DEF LoopResume, TypeOK
    <3>2. st[Head(cq)[1]] = "op"
      BY <3>1 DEF CoreInv, OpInv, InQueue
    <3>3. st' = [st EXCEPT ![Head(cq)[1]] = "run"]
      BY <2>1 DEF LoopResume
    <3> QED BY <1>0, <3>1, <3>2, <3>3 DEF Stay, TypeOK
  <2>2. CASE LoopWait \/ LoopBatchEnd
    BY <2>2 DEF LoopWait, LoopBatchEnd, coVars, Stay
  <2> QED BY <1>2, <2>1, <2>2 DEF LoopStep
<1>3. CASE Kernel \/ SendSignal
  BY <1>3 DEF Kernel, KernelFlush, KernelComplete, KernelInotify, KernelSignal,
     Post, SendSignal, coVars, Stay
<1>4. ASSUME NEW t \in Users, UserStep(t) PROVE Stay(u)
  <2>1. CASE UserOp(t) \/ UserFinish(t)
    BY <1>0, <2>1, StayIdle DEF UserOp, UserFinish, coVars, Stay
  <2>2. ASSUME NEW c \in Workers, UserCreate(t, c) PROVE Stay(u)
    BY <1>0, <2>2 DEF UserCreate, Start, TypeOK, Stay
  <2>3. ASSUME NEW c \in Workers,
               UserAwait(t, c) \/ UserDrop(t, c) \/ UserCancel(t, c)
        PROVE  Stay(u)
    BY <1>0, <2>3, StayIdle DEF UserAwait, UserDrop, UserCancel, Stay
  <2> QED BY <1>4, <2>1, <2>2, <2>3 DEF UserStep
<1> QED BY <1>1, <1>2, <1>3, <1>4

\* The program counter of runner_launch tells what it has started.
LEMMA IdleStep == ResumeInv /\ [Next]_vars => IdleInv'
<1> SUFFICES ASSUME ResumeInv, [Next]_vars PROVE IdleInv'
  OBVIOUS
<1> USE TaskNames DEF ResumeInv
<1>1. CASE RootStep
  <2>1. CASE RootLaunch
    <3>1. Main # Inotify /\ Main # Signal /\ Inotify # Signal
      BY DEF Main, Inotify, Signal
    <3> QED BY <2>1, <3>1 DEF RootLaunch, Start, IdleInv, TypeOK
  <2>2. CASE RootStep /\ ~RootLaunch
    <3>1. rpc' \notin {"main", "inotify", "signal"}
      BY <2>2 DEF RootStep, RootAwait, RootStop, RootClose, RootBlock,
         RootArguments, RootExit
    <3> QED BY <3>1 DEF IdleInv
  <2> QED BY <1>1, <2>1, <2>2
<1>2. ASSUME \/ SystemStep \/ LoopStep \/ Kernel \/ SendSignal
             \/ \E t \in Users : UserStep(t)
      PROVE  IdleInv'
  <2>1. Stay(Main) /\ Stay(Inotify) /\ Stay(Signal)
    BY <1>2, StayOthers
  <2>2. rpc' = rpc
    BY <1>2 DEF SystemStep, InotifyStep, SignalRead, SignalCancelAll,
       SignalBlock, CancelerStep, WaiterStep, LoopStep, LoopWait, LoopResume,
       LoopBatchEnd, Kernel, KernelFlush, KernelComplete, KernelInotify,
       KernelSignal, Post, SendSignal, UserStep, UserOp, UserFinish, UserCreate,
       UserAwait, UserDrop, UserCancel, ctxVars
  <2> QED BY <2>1, <2>2 DEF IdleInv, Stay
<1>3. CASE UNCHANGED vars
  BY <1>3 DEF vars, coVars, ctxVars, IdleInv
<1> QED BY <1>1, <1>2, <1>3 DEF Next, Run, Exited

\* ResumeInv is inductive and contains ResumeSuspended.
LEMMA ResumeInit == Init => ResumeInv
<1> SUFFICES ASSUME Init PROVE ResumeInv
  OBVIOUS
<1>1. DOMAIN stack = {1} /\ stack[1] = Root /\ DOMAIN cq = {}
  BY DEF Init
<1>2. StackInv
  BY <1>1, TaskNames DEF Init, StackInv, Holds, Distinct
<1>3. ContInv /\ OpInv
  BY <1>1 DEF Init, ContInv, OpInv, InQueue
<1>4. IdleInv
  BY TaskNames DEF Init, IdleInv, Root, Main, Inotify, Signal
<1> QED BY <1>2, <1>3, <1>4, InitType DEF ResumeInv, CoreInv

LEMMA ResumeStep == ResumeInv /\ [Next]_vars => ResumeInv'
<1> SUFFICES ASSUME ResumeInv, [Next]_vars PROVE ResumeInv'
  OBVIOUS
<1>1. TypeOK' /\ IdleInv'
  BY StepType, IdleStep DEF ResumeInv
<1>2. CoreInv'
  <2>1. CASE UNCHANGED vars
    BY <2>1, SameInv DEF vars, coVars, opVars, ResumeInv
  <2>2. CASE Run
    BY <2>2, RootInv, SystemInv, LoopInv, UserInv DEF Run
  <2>3. CASE Kernel \/ SendSignal
    BY <2>3, KernelInv
  <2> QED BY <2>1, <2>2, <2>3 DEF Next, Exited
<1> QED BY <1>1, <1>2 DEF ResumeInv

LEMMA ResumeImplies == ResumeInv => ResumeSuspended
<1> SUFFICES ASSUME ResumeInv PROVE ResumeSuspended
  OBVIOUS
<1>1. \A i \in DOMAIN cq : cq[i][1] \in Tasks
  BY DEF ResumeInv, TypeOK
<1> QED
  BY <1>1 DEF ResumeInv, CoreInv, StackInv, OpInv, InQueue, Holds, Distinct,
     ResumeSuspended

\* A completion always finds its coroutine suspended on it, and no coroutine
\* is resumed twice, while it runs or after its end (handle_cq).
THEOREM ResumesOnlySuspended == Spec => []ResumeSuspended
BY ResumeInit, ResumeStep, ResumeImplies, PTL DEF Spec
-----------------------------------------------------------------------------
\* The operation of a task becomes "pending" only when the task submits it.
LEMMA ClosedStep == ResumeInv /\ ClosedInv /\ [Next]_vars => ClosedInv'
<1> SUFFICES ASSUME ResumeInv, ClosedInv, [Next]_vars PROVE ClosedInv'
  OBVIOUS
<1> USE TaskNames DEF ResumeInv, ClosedInv, opVars, ctxVars, coVars
<1>0. Inotify \notin {Root, Signal, Canceler} \cup Users
  BY RunnerAssumption
     DEF Inotify, Root, Signal, Canceler, Users, Workers, Main
<1>1. CASE RootStep
  <2>1. CASE RootStop
    <3>1. \/ op[Inotify] # "pending" \/ Inotify \in Pending \cap {Inotify}
      BY DEF Pending
    <3>2. op'[Inotify] # "pending"
      BY <1>0, <2>1, <3>1 DEF RootStop, Submit
    <3> QED BY <2>1, <3>2 DEF RootStop
  <2>2. CASE RootStep /\ ~RootStop
    <3>1. UNCHANGED <<op, canceled>>
      BY <2>2 DEF RootStep, RootLaunch, RootAwait, RootClose, RootBlock,
         RootArguments, RootExit
    <3>2. closed' \/ rpc' = "close" => closed \/ rpc = "close"
      BY <2>2 DEF RootStep, RootLaunch, RootAwait, RootClose, RootBlock,
         RootArguments, RootExit
    <3> QED BY <3>1, <3>2
  <2> QED BY <1>1, <2>1, <2>2
<1>2. CASE SystemStep
  <2>1. CASE InotifyStep
    BY <1>0, <2>1 DEF InotifyStep, Submit
  <2>2. CASE SignalBlock \/ WaiterStep
    BY <2>2 DEF SignalBlock, WaiterStep
  <2>3. CASE SignalRead \/ SignalCancelAll \/ CancelerStep
    <3>1. op'[Inotify] = "pending" => op[Inotify] = "pending"
      BY <1>0, <2>3 DEF SignalRead, SignalCancelAll, CancelerStep, Submit
    <3> QED BY <2>3, <3>1 DEF SignalRead, SignalCancelAll, CancelerStep
  <2> QED BY <1>2, <2>1, <2>2, <2>3 DEF SystemStep
<1>3. ASSUME NEW t \in Users, UserStep(t) PROVE ClosedInv'
  <2>1. op'[Inotify] = "pending" => op[Inotify] = "pending"
    BY <1>0, <1>3 DEF UserStep, UserOp, UserFinish, UserCreate, UserAwait,
       UserDrop, UserCancel, Submit
  <2>2. UNCHANGED ctxVars
    BY <1>3 DEF UserStep, UserOp, UserFinish, UserCreate, UserAwait, UserDrop,
       UserCancel
  <2> QED BY <2>1, <2>2
<1>4. CASE LoopStep
  <2>1. op'[Inotify] = "pending" => op[Inotify] = "pending"
    BY <1>4 DEF LoopStep, LoopWait, LoopResume, LoopBatchEnd, TypeOK
  <2> QED BY <1>4, <2>1 DEF LoopStep, LoopWait, LoopResume, LoopBatchEnd
<1>5. CASE Kernel \/ SendSignal
  <2>1. op'[Inotify] = "pending" => op[Inotify] = "pending"
    BY <1>5 DEF Kernel, KernelFlush, KernelComplete, KernelInotify,
       KernelSignal, Post, SendSignal, TypeOK
  <2> QED BY <1>5, <2>1 DEF Kernel, KernelFlush, KernelComplete, KernelInotify,
       KernelSignal, Post, SendSignal
<1>6. CASE UNCHANGED vars
  BY <1>6 DEF vars
<1> QED BY <1>1, <1>2, <1>3, <1>4, <1>5, <1>6 DEF Next, Run, Exited

LEMMA ClosedInit == Init => ClosedInv
BY DEF Init, ClosedInv

\* The inotify descriptor is never read once stop() has closed it: the flag
\* keeps run() from a new read whether or not the cancel found the old one.
THEOREM NeverReadsClosed == Spec => []ClosedUnread
<1>1. ClosedInv => ClosedUnread
  BY DEF ClosedInv, ClosedUnread
<1> QED
  BY <1>1, ResumeInit, ResumeStep, ClosedInit, ClosedStep, PTL DEF Spec

-----------------------------------------------------------------------------
(* QuiescentExit: when the loop of the context ends nothing is left        *)
(* behind.  The argument is about who can still wait for whom: a task that *)
(* runs or is suspended is held by an older task's frame, awaited by one,  *)
(* or lost; when the final waiter ends nothing is lost, so an oldest       *)
(* unfinished task has nobody.                                             *)

Live(t) == st[t] \notin {"idle", "done"}

\* Who answers for a task of the user.  Tasks are created in the order of
\* their numbers, so it is always one with a smaller number.
ParentInv ==
    /\ \A c \in Workers : \A d \in 1..(c - 1) :
          st[c] # "idle" => st[d] # "idle"
    /\ \A w \in Workers : owner[w] # NoTask =>
          owner[w] \in Users /\ owner[w] < w /\ Live(owner[w]) /\ st[w] # "idle"
    /\ \A w \in Workers : cont[w] # NoTask =>
          cont[w] = Waiter \/ (cont[w] \in Users /\ cont[w] < w)
    /\ \A w \in Workers : Live(w) =>
          owner[w] # NoTask \/ cont[w] # NoTask \/ Holds(lost, w)

\* runner_launch is past its co_await of c: "just" after it c may still have
\* runner_launch as its awaiter, "later" c has ended.
Waited(c, just, later) ==
    /\ rpc = just => st[c] = "done" \/ cont[c] = Root
    /\ rpc \in later => st[c] = "done"

AfterWaiter   == {"end"}
AfterSignal   == {"exit"} \cup AfterWaiter
AfterCanceler == {"await waiter"} \cup AfterSignal
AfterInotify  == {"arguments", "await canceler", "await signal"} \cup AfterCanceler
AfterMain     == {"close", "await inotify", "block"} \cup AfterInotify

WaitedInv ==
    /\ Waited(Main, "stop", AfterMain)
    /\ Waited(Inotify, "block", AfterInotify)
    /\ Waited(Canceler, "await signal", AfterCanceler)
    /\ Waited(Signal, "await waiter", AfterSignal)
    /\ Waited(Waiter, "exit", AfterWaiter)
    /\ st[Waiter] # "idle" => rpc \in AfterInotify

\* The final waiter ends when no task of the user is left.
FinalInv ==
    st[Waiter] = "done" => lost = <<>> /\ \A u \in Users : ~Live(u)

\* The loop is left after ctx::exit, which the end of runner_launch calls.
EndInv ==
    /\ loop = "exited" => ~running
    /\ ~running => rpc = "end"
    /\ rpc = "end" => st[Root] = "done"

ExitInv == ParentInv /\ WaitedInv /\ FinalInv /\ EndInv
-----------------------------------------------------------------------------
\* A set of natural numbers that is not empty has a least element.
LEMMA LeastNumber ==
    ASSUME NEW T \in SUBSET Nat, T # {}
    PROVE  \E x \in T : \A y \in T : ~(y < x)
<1> DEFINE R == {p \in Nat \X Nat : p[1] < p[2]}
<1>1. IsWellFoundedOn(R, Nat)
  BY NatLessThanWellFounded, Zenon DEF OpToRel
<1>2. \A x, y \in Nat : y < x => <<y, x>> \in R
  OBVIOUS
<1> HIDE DEF R
<1> QED BY <1>1, <1>2, WFMin
-----------------------------------------------------------------------------
\* A task that has not started or has ended stays so, and a live one lives.
Kept(u) ==
    /\ ~Live(u) => st'[u] = st[u]
    /\ Live(u) => Live(u)'

\* What a step that starts no task of the user, awaits none and hands none
\* over leaves alone; the tasks of "ended" come to their end.
Quiet(ended) ==
    /\ UNCHANGED <<owner, lost, rpc, running>>
    /\ loop' = "exited" => loop = "exited" \/ ~running
    /\ \A u \in Tasks \ ended : Kept(u) /\ cont'[u] = cont[u]
    /\ \A u \in ended : st'[u] = "done"

Helpers == {Inotify, Signal, Canceler}

\* The named tasks are all different.
LEMMA NamesDiffer ==
    /\ Root \notin Helpers \cup Users \cup {Waiter}
    /\ Helpers \cap (Users \cup {Waiter}) = {}
    /\ Waiter \notin Users /\ Main \notin Workers
    /\ Users = {Main} \cup Workers
    /\ Inotify # Signal /\ Inotify # Canceler /\ Signal # Canceler
    /\ Workers \subseteq Nat /\ \A w \in Workers : w > Main
BY RunnerAssumption DEF Root, Inotify, Signal, Canceler, Waiter, Main, Users,
   Workers, Helpers

\* What the four ways to leave or enter the stack do to the other tasks.
LEMMA FinishKeeps ==
    ASSUME ResumeInv, NEW t, Top(t), Finish(t)
    PROVE  /\ \A u \in Tasks \ {t} : Kept(u) /\ cont'[u] = cont[u]
           /\ t \in Tasks /\ st'[t] = "done" /\ cont'[t] = NoTask
<1>1. t \in Tasks /\ st[t] = "run"
  BY TopRuns DEF ResumeInv, CoreInv
<1>2. cont[t] # NoTask => st[cont[t]] = "await"
  BY <1>1 DEF ResumeInv, CoreInv, ContInv
<1>3. /\ \A u \in Tasks : st'[u] = IF u = t THEN "done"
                                   ELSE IF u = cont[t] THEN "run" ELSE st[u]
      /\ \A u \in Tasks : cont'[u] = IF u = t THEN NoTask ELSE cont[u]
  BY <1>1 DEF Finish, ResumeInv, TypeOK
<1>4. \A u \in Tasks \ {t} : u = cont[t] => st[u] = "await"
  BY <1>2, TaskNames
<1> QED BY <1>1, <1>3, <1>4 DEF Kept, Live

LEMMA AwaitKeeps ==
    ASSUME ResumeInv, NEW t, NEW c \in Tasks, Top(t), Await(t, c)
    PROVE  /\ \A u \in Tasks : Kept(u)
           /\ \A u \in Tasks \ {c} : cont'[u] = cont[u]
           /\ st[c] = "done" \/ cont'[c] = t
           /\ cont'[c] = cont[c] \/ cont'[c] = t
<1>1. t \in Tasks /\ st[t] = "run"
  BY TopRuns DEF ResumeInv, CoreInv
<1>2. CASE st[c] = "done"
  BY <1>2 DEF Await, Kept, Live
<1>3. CASE st[c] # "done"
  <2>1. /\ \A u \in Tasks : cont'[u] = IF u = c THEN t ELSE cont[u]
        /\ \A u \in Tasks : st'[u] = IF u = t THEN "await" ELSE st[u]
    BY <1>1, <1>3 DEF Await, ResumeInv, TypeOK
  <2> QED BY <1>1, <2>1 DEF Kept, Live
<1> QED BY <1>2, <1>3

LEMMA SubmitKeeps ==
    ASSUME ResumeInv, NEW t, Top(t), NEW kind, NEW hit, Submit(t, kind, hit)
    PROVE  \A u \in Tasks : Kept(u)
<1>1. t \in Tasks /\ st[t] = "run"
  BY TopRuns DEF ResumeInv, CoreInv
<1>2. \A u \in Tasks : st'[u] = IF u = t THEN "op" ELSE st[u]
  BY <1>1 DEF Submit, ResumeInv, TypeOK
<1> QED BY <1>1, <1>2 DEF Kept, Live

LEMMA StartKeeps ==
    ASSUME ResumeInv, NEW t, NEW c \in Tasks, st[c] = "idle", Start(t, c)
    PROVE  /\ \A u \in Tasks \ {c} : st'[u] = st[u]
           /\ st'[c] = "run" /\ Live(c)'
BY DEF Start, ResumeInv, TypeOK, Live

LEMMA LoopResumeKeeps ==
    ASSUME ResumeInv, LoopResume
    PROVE  \A u \in Tasks : Kept(u)
<1> DEFINE t == Head(cq)[1]
<1>1. t \in Tasks /\ 1 \in DOMAIN cq /\ t = cq[1][1]
  BY DEF LoopResume, ResumeInv, TypeOK
<1>2. st[t] = "op"
  BY <1>1 DEF ResumeInv, CoreInv, OpInv, InQueue
<1>3. \A u \in Tasks : st'[u] = IF u = t THEN "run" ELSE st[u]
  BY <1>1 DEF LoopResume, ResumeInv, TypeOK
<1> QED BY <1>2, <1>3 DEF Kept, Live
-----------------------------------------------------------------------------
\* Most steps are quiet.
LEMMA SystemQuiet ==
    ASSUME ResumeInv, SystemStep, ~WaiterStep
    PROVE  \E ended \in SUBSET Helpers : Quiet(ended)
<1> USE DEF Quiet, Helpers, opVars, ctxVars, coVars
<1>1. ASSUME NEW t \in Helpers, Top(t), Finish(t),
             UNCHANGED <<owner, lost, rpc, running, loop>>
      PROVE  Quiet({t})
  BY <1>1, FinishKeeps
<1>2. ASSUME NEW t \in Helpers, Top(t), NEW kind, NEW hit,
             Submit(t, kind, hit),
             UNCHANGED <<cont, owner, lost, rpc, running, loop>>
      PROVE  Quiet({})
  BY <1>2, SubmitKeeps
<1> HIDE DEF Quiet
<1>3. CASE InotifyStep
  BY <1>1, <1>2, <1>3 DEF InotifyStep
<1>4. CASE SignalRead
  BY <1>1, <1>2, <1>4 DEF SignalRead
<1>5. CASE SignalCancelAll
  BY <1>2, <1>5 DEF SignalCancelAll
<1>6. CASE SignalBlock
  BY <1>1, <1>6 DEF SignalBlock
<1>7. CASE CancelerStep
  BY <1>1, <1>2, <1>7 DEF CancelerStep
<1> QED BY <1>3, <1>4, <1>5, <1>6, <1>7 DEF SystemStep

LEMMA LoopQuiet == ResumeInv /\ LoopStep => Quiet({})
<1> SUFFICES ASSUME ResumeInv, LoopStep PROVE Quiet({})
  OBVIOUS
<1>1. CASE LoopResume
  BY <1>1, LoopResumeKeeps DEF LoopResume, Quiet, ctxVars
<1>2. CASE LoopWait \/ LoopBatchEnd
  BY <1>2 DEF LoopWait, LoopBatchEnd, Quiet, Kept, Live, coVars
<1> QED BY <1>1, <1>2 DEF LoopStep

LEMMA KernelQuiet == Kernel \/ SendSignal \/ UNCHANGED vars => Quiet({})
BY DEF Kernel, KernelFlush, KernelComplete, KernelInotify, KernelSignal, Post,
   SendSignal, vars, Quiet, Kept, Live, coVars, ctxVars

LEMMA OpQuiet ==
    ASSUME ResumeInv, NEW t \in Users,
           UserOp(t) \/ \E c \in Workers : UserCancel(t, c)
    PROVE  Quiet({})
<1> USE DEF coVars, ctxVars
<1>1. CASE UserOp(t) /\ blocked
  BY <1>1 DEF UserOp, Quiet, Kept, Live
<1>2. CASE UserOp(t) /\ ~blocked
  BY <1>2, SubmitKeeps DEF UserOp, Quiet
<1>3. ASSUME NEW c \in Workers, UserCancel(t, c) PROVE Quiet({})
  BY <1>3, SubmitKeeps DEF UserCancel, Quiet
<1> QED BY <1>1, <1>2, <1>3
-----------------------------------------------------------------------------
\* What leaves the users' tasks and what holds them alone keeps ParentInv.
LEMMA KeepParents ==
    ASSUME ExitInv, UNCHANGED <<owner, lost>>,
           \A w \in Workers : Kept(w) /\ cont'[w] = cont[w],
           Live(Main) => Live(Main)'
    PROVE  ParentInv'
<1> USE NamesDiffer
<1>1. /\ \A w \in Workers :
            /\ st'[w] = "idle" <=> st[w] = "idle"
            /\ st'[w] \in {"idle", "done"} <=> st[w] \in {"idle", "done"}
      /\ \A u \in Users :
            st'[u] \in {"idle", "done"} => st[u] \in {"idle", "done"}
  BY DEF Kept, Live
<1>2. \A w \in Workers : w \in Users
  OBVIOUS
<1>3. \A c \in Workers : \A d \in 1..(c - 1) : d \in Workers
  BY RunnerAssumption DEF Workers
<1>4. \A w \in Workers : owner'[w] # NoTask =>
         /\ owner'[w] \in Users /\ owner'[w] < w
         /\ st'[owner'[w]] \notin {"idle", "done"} /\ st'[w] # "idle"
  BY <1>1, <1>2 DEF ExitInv, ParentInv, Live
<1>5. \A w \in Workers : st'[w] \notin {"idle", "done"} =>
         owner'[w] # NoTask \/ cont'[w] # NoTask \/ Holds(lost', w)
  BY <1>1, <1>2 DEF ExitInv, ParentInv, Live
<1> QED BY <1>1, <1>2, <1>3, <1>4, <1>5 DEF ExitInv, ParentInv, Live

LEMMA KeepFinal ==
    ASSUME ExitInv, st[Waiter] # "done" => st'[Waiter] # "done",
           st[Waiter] = "done" => UNCHANGED lost /\ \A u \in Users : Kept(u)
    PROVE  FinalInv'
BY DEF ExitInv, FinalInv, Kept, Live

\* A quiet step keeps the invariant.
LEMMA QuietExit ==
    ASSUME ExitInv, NEW ended \in SUBSET Helpers, Quiet(ended)
    PROVE  ExitInv'
<1> USE NamesDiffer, TaskNames
<1>1. UNCHANGED <<owner, lost, rpc, running>>
  BY DEF Quiet
<1>2. \A u \in Users \cup {Root, Waiter} : Kept(u) /\ cont'[u] = cont[u]
  <2>1. \A u \in Users \cup {Root, Waiter} : u \in Tasks \ ended
    OBVIOUS
  <2> QED BY <2>1 DEF Quiet
<1>3. \A u \in Helpers : st'[u] = "done" \/ (Kept(u) /\ cont'[u] = cont[u])
  BY DEF Quiet, Helpers
<1>4. st[Waiter] # "done" => st'[Waiter] # "done"
  BY <1>2 DEF Kept, Live
<1>5. ParentInv' /\ FinalInv'
  <2>1. Live(Main) => Live(Main)'
    BY <1>2 DEF Kept
  <2> QED BY <1>1, <1>2, <1>4, <2>1, KeepParents, KeepFinal
<1>6. WaitedInv'
  <2>1. \A c \in Helpers \cup {Main, Waiter} :
           /\ st[c] = "done" => st'[c] = "done"
           /\ cont[c] = Root => st'[c] = "done" \/ cont'[c] = Root
    BY <1>2, <1>3 DEF Kept, Live
  <2>2. st'[Waiter] # "idle" => st[Waiter] # "idle"
    BY <1>2 DEF Kept, Live
  <2> QED BY <1>1, <2>1, <2>2 DEF ExitInv, WaitedInv, Waited, Helpers
<1>7. EndInv'
  BY <1>1, <1>2 DEF ExitInv, EndInv, Quiet, Kept, Live
<1> QED BY <1>5, <1>6, <1>7 DEF ExitInv
-----------------------------------------------------------------------------
\* runner_launch
LEMMA RunnerAwaited ==
    ASSUME ResumeInv, WaitedInv, Top(Root)
    PROVE  /\ rpc = "stop" => st[Main] = "done"
           /\ rpc = "block" => st[Inotify] = "done"
           /\ rpc = "await signal" => st[Canceler] = "done"
           /\ rpc = "await waiter" => st[Signal] = "done"
           /\ rpc = "exit" => st[Waiter] = "done"
<1>1. st[Root] = "run"
  BY TopRuns DEF ResumeInv, CoreInv
<1>2. \A c \in Tasks : cont[c] # Root
  BY <1>1, TaskNames DEF ResumeInv, CoreInv, ContInv
<1> QED BY <1>2, TaskNames DEF WaitedInv, Waited
LEMMA RootExitInv == ResumeInv /\ ExitInv /\ RootStep => ExitInv'
<1> SUFFICES ASSUME ResumeInv, ExitInv, RootStep PROVE ExitInv'
  OBVIOUS
<1> USE NamesDiffer, TaskNames DEF coVars, opVars
<1> DEFINE Awaited == Helpers \cup {Main, Waiter}
<1>1. /\ rpc \notin AfterInotify => st[Waiter] = "idle"
      /\ rpc # "end" => running /\ loop # "exited"
  BY DEF ExitInv, WaitedInv, EndInv
<1>2. UNCHANGED <<owner, lost, loop>>
  BY DEF RootStep, RootLaunch, RootAwait, RootStop, RootClose, RootBlock,
     RootArguments, RootExit
<1>3. rpc # "end" /\ Top(Root)
  BY DEF RootStep, RootLaunch, RootAwait, RootStop, RootClose, RootBlock,
     RootArguments, RootExit
<1>4. /\ rpc \in {"stop"} \cup AfterMain => st[Main] = "done"
      /\ rpc \in {"block"} \cup AfterInotify => st[Inotify] = "done"
      /\ rpc \in {"await signal"} \cup AfterCanceler => st[Canceler] = "done"
      /\ rpc \in {"await waiter"} \cup AfterSignal => st[Signal] = "done"
      /\ rpc \in {"exit"} \cup AfterWaiter => st[Waiter] = "done"
  BY <1>3, RunnerAwaited DEF ExitInv, WaitedInv, Waited
\* Steps that start no task and end none but runner_launch itself.
<1>5. ASSUME \A u \in Tasks \ {Root} : Kept(u),
             \A w \in Workers : cont'[w] = cont[w]
      PROVE  ParentInv' /\ FinalInv'
  <2>1. \A u \in Users \cup {Waiter} : Kept(u)
    BY <1>5
  <2>2. Live(Main) => Live(Main)'
    BY <2>1 DEF Kept
  <2>3. st[Waiter] # "done" => st'[Waiter] # "done"
    BY <2>1 DEF Kept, Live
  <2> QED BY <1>2, <1>5, <2>1, <2>2, <2>3, KeepParents, KeepFinal
<1>6. CASE RootLaunch
  <2>1. ASSUME NEW c \in {Main, Inotify, Signal}, st[c] = "idle", Start(Root, c),
               UNCHANGED <<cont, running>>,
               rpc' \in {"inotify", "signal", "await main"},
               rpc \in {"main", "inotify", "signal"}
        PROVE  ExitInv'
    <3>1. /\ \A u \in Tasks \ {c} : st'[u] = st[u]
          /\ Live(c)'
      BY <2>1, StartKeeps
    <3>2. c \notin Workers /\ c # Waiter
      BY DEF Helpers
    <3>3. st[Waiter] = "idle" /\ st'[Waiter] = "idle"
      BY <1>1, <2>1, <3>1, <3>2 DEF AfterInotify, AfterCanceler, AfterSignal,
         AfterWaiter
    <3>4. ParentInv' /\ FinalInv'
      <4>1. \A w \in Workers : Kept(w) /\ cont'[w] = cont[w]
        BY <2>1, <3>1, <3>2 DEF Kept, Live
      <4>2. Live(Main) => Live(Main)'
        BY <3>1 DEF Live
      <4> QED BY <1>2, <3>3, <4>1, <4>2, KeepParents, KeepFinal
    <3>5. WaitedInv'
      BY <2>1, <3>3 DEF WaitedInv, Waited, AfterMain, AfterInotify,
         AfterCanceler, AfterSignal, AfterWaiter
    <3>6. EndInv'
      BY <1>1, <1>2, <2>1 DEF EndInv
    <3> QED BY <3>4, <3>5, <3>6 DEF ExitInv
  <2> QED BY <1>6, <2>1 DEF RootLaunch, ResumeInv, IdleInv, ctxVars
<1>7. CASE RootAwait
  <2>1. ASSUME NEW c \in Awaited, Await(Root, c) PROVE ParentInv' /\ FinalInv'
    <3>1. c \in Tasks /\ c \notin Workers
      BY DEF Helpers
    <3> QED BY <1>3, <1>5, <2>1, <3>1, AwaitKeeps
  <2>2. ASSUME NEW c \in Awaited, Await(Root, c)
        PROVE  /\ st'[c] = "done" \/ cont'[c] = Root
               /\ \A u \in Awaited : st[u] = "done" => st'[u] = "done"
               /\ st'[Waiter] # "idle" => st[Waiter] # "idle"
    <3>1. Awaited \subseteq Tasks
      BY DEF Helpers
    <3> QED BY <1>3, <2>2, <3>1, AwaitKeeps DEF Kept, Live
  <2>3. EndInv'
    BY <1>1, <1>2, <1>7 DEF RootAwait, EndInv
  <2>4. ParentInv' /\ FinalInv'
    BY <1>7, <2>1 DEF RootAwait, Helpers
  <2>5. WaitedInv'
    BY <1>1, <1>4, <1>7, <2>2 DEF RootAwait, WaitedInv, Waited, Helpers,
       AfterMain, AfterInotify, AfterCanceler, AfterSignal, AfterWaiter
  <2> QED BY <2>3, <2>4, <2>5 DEF ExitInv
<1>8. CASE RootStop \/ RootClose \/ RootBlock
  <2>1. \A u \in Tasks : Kept(u) /\ cont'[u] = cont[u]
    <3>1. CASE RootStop
      BY <3>1, SubmitKeeps DEF RootStop
    <3>2. CASE RootClose \/ RootBlock
      BY <3>2 DEF RootClose, RootBlock, Kept, Live
    <3> QED BY <1>8, <3>1, <3>2
  <2>2. ParentInv' /\ FinalInv'
    BY <1>5, <2>1
  <2>3. WaitedInv'
    <3>1. /\ \A u \in {Main, Inotify} : st[u] = "done" => st'[u] = "done"
          /\ st'[Waiter] # "idle" => st[Waiter] # "idle"
      BY <2>1 DEF Kept, Live, Helpers
    <3> QED BY <1>1, <1>4, <1>8, <3>1 DEF RootStop, RootClose, RootBlock,
       WaitedInv, Waited, AfterMain, AfterInotify, AfterCanceler, AfterSignal,
       AfterWaiter
  <2>4. EndInv'
    BY <1>1, <1>2, <1>8 DEF RootStop, RootClose, RootBlock, EndInv
  <2> QED BY <2>2, <2>3, <2>4 DEF ExitInv
<1>9. CASE RootArguments
  <2>1. PICK c \in {Canceler, Waiter} : st[c] = "idle" /\ Start(Root, c)
    BY <1>9 DEF RootArguments
  <2>2. /\ \A u \in Tasks \ {c} : st'[u] = st[u]
        /\ st'[c] = "run" /\ c \in Tasks
    BY <2>1, StartKeeps
  <2>3. /\ rpc = "arguments" /\ rpc' \in {"arguments", "await canceler"}
        /\ UNCHANGED <<cont, running>>
    BY <1>9 DEF RootArguments
  <2>4. c \notin Users /\ c \notin {Main, Inotify}
    BY DEF Helpers
  <2>5. ParentInv' /\ FinalInv'
    <3>1. /\ \A u \in Users : Kept(u) /\ cont'[u] = cont[u]
          /\ st[Waiter] # "done" => st'[Waiter] # "done"
      BY <2>2, <2>3, <2>4 DEF Kept, Live
    <3>2. Live(Main) => Live(Main)'
      BY <3>1 DEF Kept
    <3> QED BY <1>2, <3>1, <3>2, KeepParents, KeepFinal
  <2>6. WaitedInv'
    BY <1>4, <2>2, <2>3, <2>4 DEF WaitedInv, Waited, AfterMain, AfterInotify,
       AfterCanceler, AfterSignal, AfterWaiter
  <2>7. EndInv'
    BY <1>1, <1>2, <2>3 DEF EndInv
  <2> QED BY <2>5, <2>6, <2>7 DEF ExitInv
<1>10. CASE RootExit
  <2>1. /\ \A u \in Tasks \ {Root} : Kept(u) /\ cont'[u] = cont[u]
        /\ st'[Root] = "done"
    BY <1>3, <1>10, FinishKeeps DEF RootExit
  <2>2. ParentInv' /\ FinalInv'
    BY <1>5, <2>1
  <2>3. /\ rpc = "exit" /\ rpc' = "end" /\ running' = FALSE
    BY <1>10 DEF RootExit
  <2>4. WaitedInv'
    <3>1. \A u \in Awaited : u \in Tasks \ {Root}
      BY DEF Helpers
    <3>2. \A u \in Awaited : st[u] = "done" => st'[u] = "done"
      BY <2>1, <3>1 DEF Kept, Live
    <3> QED BY <1>4, <2>3, <3>2 DEF WaitedInv, Waited, Helpers, AfterMain,
       AfterInotify, AfterCanceler, AfterSignal, AfterWaiter
  <2>5. EndInv'
    BY <1>1, <1>2, <1>3, <2>1, <2>3 DEF EndInv
  <2> QED BY <2>2, <2>4, <2>5 DEF ExitInv
<1> QED
  BY <1>6, <1>7, <1>8, <1>9, <1>10 DEF RootStep
-----------------------------------------------------------------------------
\* What is left in a sequence without its head, or with one more element.
LEMMA HoldsTail ==
    ASSUME NEW S, NEW s \in Seq(S), s # <<>>, NEW e, Holds(s, e), e # Head(s)
    PROVE  Holds(Tail(s), e)
<1>1. PICK i \in DOMAIN s : s[i] = e
  BY DEF Holds
<1>2. i - 1 \in DOMAIN Tail(s) /\ Tail(s)[i - 1] = e
  BY <1>1
<1> QED BY <1>2 DEF Holds

LEMMA HoldsAppend ==
    ASSUME NEW S, NEW s \in Seq(S), NEW c \in S, NEW e, e = c \/ Holds(s, e)
    PROVE  Holds(Append(s, c), e)
<1>1. CASE e = c
  <2>1. Len(s) + 1 \in DOMAIN Append(s, c) /\ Append(s, c)[Len(s) + 1] = e
    BY <1>1
  <2> QED BY <2>1 DEF Holds
<1>2. CASE Holds(s, e)
  <2>1. PICK i \in DOMAIN s : s[i] = e
    BY <1>2 DEF Holds
  <2>2. i \in DOMAIN Append(s, c) /\ Append(s, c)[i] = e
    BY <2>1
  <2> QED BY <2>2 DEF Holds
<1> QED BY <1>1, <1>2

\* When main has ended and no task is lost, no task of the user is left: the
\* oldest one that is would be held or awaited by an older one.
LEMMA NobodyLeft ==
    ASSUME ResumeInv, ParentInv, lost = <<>>, st[Main] = "done",
           st[Waiter] = "run"
    PROVE  \A u \in Users : ~Live(u)
<1> USE NamesDiffer, TaskNames
<1> DEFINE Left == {w \in Workers : Live(w)}
<1>1. SUFFICES Left = {}
  BY DEF Live
<1>2. SUFFICES ASSUME Left # {} PROVE FALSE
  OBVIOUS
<1>3. PICK w \in Left : \A v \in Left : ~(v < w)
  <2>1. Left \in SUBSET Nat
    OBVIOUS
  <2> HIDE DEF Left
  <2> QED BY <1>2, <2>1, LeastNumber
<1>4. ~Holds(lost, w)
  <2>1. DOMAIN lost = {}
    OBVIOUS
  <2> QED BY <2>1 DEF Holds
<1>5. CASE owner[w] # NoTask
  <2>1. owner[w] \in Users /\ owner[w] < w /\ Live(owner[w])
    BY <1>5 DEF ParentInv
  <2> QED BY <1>3, <2>1 DEF Live
<1>6. CASE cont[w] # NoTask
  <2>1. st[cont[w]] = "await"
    BY <1>6 DEF ResumeInv, CoreInv, ContInv
  <2>2. cont[w] \in Users /\ cont[w] < w /\ Live(cont[w])
    BY <1>6, <2>1 DEF ParentInv, Live
  <2> QED BY <1>3, <2>2 DEF Live
<1> QED BY <1>4, <1>5, <1>6 DEF ParentInv
-----------------------------------------------------------------------------
\* A step of the waiter or of a user's task, which leaves runner_launch, the
\* flags and the awaiters of its tasks alone.
LEMMA KeepWaited ==
    ASSUME ExitInv, UNCHANGED <<rpc, running, loop>>, Kept(Root),
           \A c \in Helpers \cup {Main, Waiter} :
              (Kept(c) /\ cont'[c] = cont[c]) \/ (Live(c) /\ st'[c] = "done")
    PROVE  WaitedInv' /\ EndInv'
<1>1. \A c \in Helpers \cup {Main, Waiter} :
         /\ st[c] = "done" => st'[c] = "done"
         /\ cont[c] = Root => st'[c] = "done" \/ cont'[c] = Root
         /\ st'[c] # "idle" => st[c] # "idle"
  BY DEF Kept, Live
<1>2. WaitedInv'
  BY <1>1 DEF ExitInv, WaitedInv, Waited, Helpers
<1>3. EndInv'
  BY DEF ExitInv, EndInv, Kept, Live
<1> QED BY <1>2, <1>3

LEMMA WaiterExitInv == ResumeInv /\ ExitInv /\ WaiterStep => ExitInv'
<1> SUFFICES ASSUME ResumeInv, ExitInv, WaiterStep PROVE ExitInv'
  OBVIOUS
<1> USE NamesDiffer, TaskNames
<1>1. /\ Top(Waiter) /\ st[Waiter] = "run" /\ UNCHANGED <<owner, opVars, ctxVars>>
      /\ Helpers \subseteq Tasks
  BY TopRuns DEF WaiterStep, ResumeInv, CoreInv, Helpers
<1>2. CASE lost = <<>>
  <2>1. /\ \A u \in Tasks \ {Waiter} : Kept(u) /\ cont'[u] = cont[u]
        /\ st'[Waiter] = "done" /\ lost' = lost
    BY <1>1, <1>2, FinishKeeps DEF WaiterStep
  <2>2. /\ \A u \in Users \cup {Root} : Kept(u) /\ cont'[u] = cont[u]
        /\ Live(Main) => Live(Main)'
    BY <2>1 DEF Kept
  <2>3. ParentInv'
    BY <1>1, <2>1, <2>2, KeepParents
  <2>4. WaitedInv' /\ EndInv'
    <3>1. Live(Waiter)
      BY <1>1 DEF Live
    <3> QED BY <1>1, <2>1, <3>1, KeepWaited DEF ctxVars
  <2>5. st[Main] = "done"
    BY <1>1 DEF ExitInv, WaitedInv, Waited, AfterMain
  <2>6. FinalInv'
    BY <1>1, <1>2, <2>1, <2>2, <2>5, NobodyLeft
       DEF ExitInv, FinalInv, Kept, Live
  <2> QED BY <2>3, <2>4, <2>6 DEF ExitInv
<1>3. CASE lost # <<>>
  <2> DEFINE c == Head(lost)
  <2>1. lost \in Seq(Workers) /\ c \in Workers /\ lost' = Tail(lost)
    <3>1. lost \in Seq(Workers) /\ lost' = Tail(lost)
      BY <1>3 DEF WaiterStep, ResumeInv, TypeOK
    <3> QED BY <1>3, <3>1
  <2>2. /\ \A u \in Tasks : Kept(u)
        /\ \A u \in Tasks \ {c} : cont'[u] = cont[u]
        /\ st[c] = "done" \/ cont'[c] = Waiter
        /\ cont'[c] = cont[c] \/ cont'[c] = Waiter
    BY <1>1, <1>3, <2>1, AwaitKeeps DEF WaiterStep
  <2>3. \A w \in Workers : w # c /\ Holds(lost, w) => Holds(lost', w)
    BY <1>3, <2>1, HoldsTail
  <2> HIDE DEF c
  <2>4. ParentInv'
    <3>1. /\ \A u \in Users : /\ st'[u] = "idle" <=> st[u] = "idle"
                              /\ st'[u] = "done" <=> st[u] = "done"
          /\ \A w \in Workers : w \in Users
          /\ \A v \in Workers : \A d \in 1..(v - 1) : d \in Workers
      BY <2>2, RunnerAssumption DEF Kept, Live, Workers
    <3>2. \A w \in Workers : owner'[w] # NoTask =>
             /\ owner'[w] \in Users /\ owner'[w] < w
             /\ st'[owner'[w]] \notin {"idle", "done"} /\ st'[w] # "idle"
      BY <1>1, <3>1 DEF ExitInv, ParentInv, Live
    <3>3. \A w \in Workers : cont'[w] # NoTask =>
             cont'[w] = Waiter \/ (cont'[w] \in Users /\ cont'[w] < w)
      BY <2>2 DEF ExitInv, ParentInv
    <3>4. \A w \in Workers : st'[w] \notin {"idle", "done"} =>
             owner'[w] # NoTask \/ cont'[w] # NoTask \/ Holds(lost', w)
      <4> SUFFICES ASSUME NEW w \in Workers, st'[w] \notin {"idle", "done"}
                   PROVE  \/ owner'[w] # NoTask \/ cont'[w] # NoTask
                          \/ Holds(lost', w)
        OBVIOUS
      <4>1. st[w] \notin {"idle", "done"} /\ w \in Tasks
        BY <3>1
      <4>2. CASE w = c
        BY <2>2, <4>1, <4>2
      <4>3. CASE w # c
        BY <1>1, <2>2, <2>3, <4>1, <4>3 DEF ExitInv, ParentInv, Live
      <4> QED BY <4>2, <4>3
    <3> QED BY <3>1, <3>2, <3>3, <3>4 DEF ExitInv, ParentInv, Live
  <2>5. WaitedInv' /\ EndInv'
    <3>1. \A u \in Helpers \cup {Main, Waiter} : u \in Tasks \ {c}
      BY <1>1, <2>1
    <3> QED BY <1>1, <2>2, <3>1, KeepWaited DEF ctxVars
  <2>6. FinalInv'
    BY <1>1, <2>2 DEF FinalInv, Kept, Live
  <2> QED BY <2>4, <2>5, <2>6 DEF ExitInv
<1> QED BY <1>2, <1>3
LEMMA UserExitInv ==
    ASSUME ResumeInv, ExitInv, NEW t \in Users, UserStep(t)
    PROVE  ExitInv'
<1> USE NamesDiffer, TaskNames
<1>1. /\ Top(t) /\ st[t] = "run" /\ t \in Tasks
      /\ UNCHANGED <<rpc, running, loop>>
  <2>1. Top(t) /\ UNCHANGED <<rpc, running, loop>>
    BY DEF UserStep, UserOp, UserFinish, UserCreate, UserAwait, UserDrop,
       UserCancel, ctxVars
  <2> QED BY <2>1, TopRuns DEF ResumeInv, CoreInv
<1>2. /\ st[Waiter] # "done"
      /\ Helpers \cup {Root, Main, Waiter} \subseteq Tasks \ Workers
  BY <1>1 DEF ExitInv, FinalInv, Live, Helpers
<1>3. \A w \in Workers : w \in Users /\ w \in Tasks
  OBVIOUS
<1>4. CASE UserOp(t) \/ \E c \in Workers : UserCancel(t, c)
  <2>1. {} \in SUBSET Helpers
    OBVIOUS
  <2> QED BY <1>4, <2>1, OpQuiet, QuietExit
<1>5. CASE UserFinish(t)
  <2>1. /\ \A u \in Tasks \ {t} : Kept(u) /\ cont'[u] = cont[u]
        /\ st'[t] = "done" /\ cont'[t] = NoTask
    BY <1>1, <1>5, FinishKeeps DEF UserFinish
  <2>2. UNCHANGED <<owner, lost>> /\ \A w \in Workers : owner[w] # t
    BY <1>5 DEF UserFinish
  <2>3. ParentInv'
    <3>1. \A u \in Users : /\ st'[u] = "idle" <=> st[u] = "idle"
                           /\ u # t => (Live(u)' <=> Live(u))
      BY <1>1, <2>1 DEF Kept, Live
    <3>2. \A w \in Workers : owner[w] # NoTask => owner[w] \in Users \ {t}
      BY <2>2 DEF ExitInv, ParentInv
    <3>3. \A w \in Workers : owner'[w] # NoTask =>
             /\ owner'[w] \in Users /\ owner'[w] < w
             /\ st'[owner'[w]] \notin {"idle", "done"} /\ st'[w] # "idle"
      BY <1>3, <2>2, <3>1, <3>2 DEF ExitInv, ParentInv, Live
    <3>4. \A w \in Workers : cont'[w] = NoTask \/ cont'[w] = cont[w]
      BY <1>3, <2>1
    <3>5. \A w \in Workers : st'[w] \notin {"idle", "done"} =>
             owner'[w] # NoTask \/ cont'[w] # NoTask \/ Holds(lost', w)
      BY <1>3, <2>1, <2>2, <3>1 DEF ExitInv, ParentInv, Live
    <3>6. \A c \in Workers : \A d \in 1..(c - 1) : d \in Users
      BY RunnerAssumption DEF Workers
    <3> QED BY <1>3, <3>1, <3>3, <3>4, <3>5, <3>6 DEF ExitInv, ParentInv, Live
  <2>4. FinalInv'
    BY <1>2, <2>1 DEF FinalInv, Kept, Live
  <2>5. WaitedInv' /\ EndInv'
    BY <1>1, <1>2, <2>1, KeepWaited DEF Live
  <2> QED BY <2>3, <2>4, <2>5 DEF ExitInv
<1>6. ASSUME NEW c \in Workers, UserCreate(t, c) PROVE ExitInv'
  <2>1. /\ st[c] = "idle" /\ UNCHANGED <<cont, lost>>
        /\ \A d \in 1..(c - 1) : st[d] # "idle"
        /\ \A w \in Workers : owner'[w] = IF w = c THEN t ELSE owner[w]
    BY <1>3, <1>6 DEF UserCreate, ResumeInv, TypeOK
  <2>2. (\A u \in Tasks \ {c} : st'[u] = st[u]) /\ st'[c] = "run"
    BY <1>3, <1>6, StartKeeps DEF UserCreate
  <2>3. t < c
    <3>1. CASE t = Main
      BY <3>1
    <3>2. CASE t \in Workers
      <4>1. t # c /\ (c < t => c \in 1..(t - 1))
        BY <1>1, <2>1, <3>2, RunnerAssumption DEF Workers
      <4>2. ~(c < t)
        BY <1>1, <2>1, <3>2, <4>1 DEF ExitInv, ParentInv
      <4> QED BY <3>2, <4>1, <4>2
    <3> QED BY <3>1, <3>2
  <2>4. ParentInv'
    <3>1. \A v \in Workers : \A d \in 1..(v - 1) :
             d \in Workers /\ (st'[v] # "idle" => st'[d] # "idle")
      <4> SUFFICES ASSUME NEW v \in Workers, NEW d \in 1..(v - 1)
                   PROVE  d \in Workers /\ (st'[v] # "idle" => st'[d] # "idle")
        OBVIOUS
      <4>1. d \in Workers
        BY RunnerAssumption DEF Workers
      <4>2. CASE d = c
        BY <2>2, <4>1, <4>2
      <4>3. CASE d # c
        BY <1>3, <2>1, <2>2, <4>1, <4>3 DEF ExitInv, ParentInv
      <4> QED BY <4>1, <4>2, <4>3
    <3>2. \A w \in Workers : owner'[w] # NoTask =>
             /\ owner'[w] \in Users /\ owner'[w] < w
             /\ st'[owner'[w]] \notin {"idle", "done"} /\ st'[w] # "idle"
      <4> SUFFICES ASSUME NEW w \in Workers, owner'[w] # NoTask
                   PROVE  /\ owner'[w] \in Users /\ owner'[w] < w
                          /\ st'[owner'[w]] \notin {"idle", "done"}
                          /\ st'[w] # "idle"
        OBVIOUS
      <4>1. CASE w = c
        <5>1. st'[t] = "run"
          BY <1>1, <2>1, <2>2
        <5> QED BY <2>1, <2>2, <2>3, <4>1, <5>1
      <4>2. CASE w # c
        <5>1. /\ owner'[w] = owner[w] /\ owner[w] \in Users /\ owner[w] < w
              /\ st[owner[w]] \notin {"idle", "done"} /\ st[w] # "idle"
          BY <2>1, <4>2 DEF ExitInv, ParentInv, Live
        <5>2. owner[w] # c /\ owner[w] \in Tasks
          BY <2>1, <5>1
        <5> QED BY <1>3, <2>2, <4>2, <5>1, <5>2
      <4> QED BY <4>1, <4>2
    <3>3. \A w \in Workers : st'[w] \notin {"idle", "done"} =>
             owner'[w] # NoTask \/ cont'[w] # NoTask \/ Holds(lost', w)
      BY <1>3, <2>1, <2>2 DEF ExitInv, ParentInv, Live
    <3> QED BY <2>1, <3>1, <3>2, <3>3 DEF ExitInv, ParentInv, Live
  <2>5. \A u \in Tasks \ Workers : Kept(u) /\ cont'[u] = cont[u]
    BY <2>1, <2>2 DEF Kept, Live
  <2>6. WaitedInv' /\ EndInv'
    BY <1>1, <1>2, <2>5, KeepWaited
  <2>7. FinalInv'
    BY <1>2, <2>5 DEF FinalInv, Kept, Live
  <2> QED BY <2>4, <2>6, <2>7 DEF ExitInv
<1>7. ASSUME NEW c \in Workers, UserAwait(t, c) \/ UserDrop(t, c) PROVE ExitInv'
  <2>1. /\ owner[c] = t
        /\ \A w \in Workers : owner'[w] = IF w = c THEN NoTask ELSE owner[w]
    BY <1>3, <1>7 DEF UserAwait, UserDrop, ResumeInv, TypeOK
  <2>2. t < c
    BY <2>1 DEF ExitInv, ParentInv
  <2>3. /\ \A u \in Tasks : Kept(u)
        /\ \A u \in Tasks \ {c} : cont'[u] = cont[u]
        /\ cont'[c] = cont[c] \/ cont'[c] = t
        /\ st[c] = "done" \/ cont'[c] = t \/ Holds(lost', c)
        /\ \A w \in Workers : Holds(lost, w) => Holds(lost', w)
    <3>1. CASE UserAwait(t, c)
      BY <1>1, <1>3, <3>1, AwaitKeeps DEF UserAwait
    <3>2. CASE UserDrop(t, c)
      <4>1. UNCHANGED <<st, cont>> /\ lost' = Append(lost, c)
        BY <3>2 DEF UserDrop
      <4>2. \A w \in Workers : w = c \/ Holds(lost, w) => Holds(lost', w)
        BY <4>1, HoldsAppend DEF ResumeInv, TypeOK
      <4> QED BY <4>1, <4>2 DEF Kept, Live
    <3> QED BY <1>7, <3>1, <3>2
  <2>4. ParentInv'
    <3>1. \A u \in Users : /\ st'[u] = "idle" <=> st[u] = "idle"
                           /\ st'[u] = "done" <=> st[u] = "done"
      BY <2>3 DEF Kept, Live
    <3>2. \A v \in Workers : \A d \in 1..(v - 1) : d \in Users
      BY RunnerAssumption DEF Workers
    <3>3. \A w \in Workers : owner'[w] # NoTask =>
             /\ owner'[w] \in Users /\ owner'[w] < w
             /\ st'[owner'[w]] \notin {"idle", "done"} /\ st'[w] # "idle"
      BY <1>3, <2>1, <3>1, ZenonT(30) DEF ExitInv, ParentInv, Live
    <3>4. \A w \in Workers : cont'[w] # NoTask =>
             cont'[w] = Waiter \/ (cont'[w] \in Users /\ cont'[w] < w)
      BY <1>3, <2>2, <2>3 DEF ExitInv, ParentInv
    <3>5. \A w \in Workers : st'[w] \notin {"idle", "done"} =>
             owner'[w] # NoTask \/ cont'[w] # NoTask \/ Holds(lost', w)
      <4> SUFFICES ASSUME NEW w \in Workers, st'[w] \notin {"idle", "done"}
                   PROVE  \/ owner'[w] # NoTask \/ cont'[w] # NoTask
                          \/ Holds(lost', w)
        OBVIOUS
      <4>1. st[w] \notin {"idle", "done"}
        BY <1>3, <3>1
      <4>2. CASE w = c
        BY <1>1, <2>3, <4>1, <4>2
      <4>3. CASE w # c
        BY <1>3, <2>1, <2>3, <4>1, <4>3 DEF ExitInv, ParentInv, Live
      <4> QED BY <4>2, <4>3
    <3> QED BY <1>3, <3>1, <3>2, <3>3, <3>4, <3>5 DEF ExitInv, ParentInv, Live
  <2>5. WaitedInv' /\ EndInv'
    BY <1>1, <1>2, <2>3, KeepWaited
  <2>6. FinalInv'
    BY <1>2, <2>3 DEF FinalInv, Kept, Live
  <2> QED BY <2>4, <2>5, <2>6 DEF ExitInv
<1> QED
  BY <1>4, <1>5, <1>6, <1>7 DEF UserStep
-----------------------------------------------------------------------------
LEMMA ExitInit == Init => ExitInv
<1> SUFFICES ASSUME Init PROVE ExitInv
  OBVIOUS
<1> USE NamesDiffer, TaskNames
<1>1. ParentInv
  <2>1. \A c \in Workers : \A d \in 1..(c - 1) : d \in Workers
    BY RunnerAssumption DEF Workers
  <2> QED BY <2>1 DEF Init, ParentInv, Live
<1>2. WaitedInv
  BY DEF Init, WaitedInv, Waited, AfterMain, AfterInotify, AfterCanceler,
     AfterSignal, AfterWaiter, Helpers
<1>3. FinalInv /\ EndInv
  BY DEF Init, FinalInv, EndInv
<1> QED BY <1>1, <1>2, <1>3 DEF ExitInv

LEMMA ExitStep == ResumeInv /\ ExitInv /\ [Next]_vars => ExitInv'
<1> SUFFICES ASSUME ResumeInv, ExitInv, [Next]_vars PROVE ExitInv'
  OBVIOUS
<1>1. {} \in SUBSET Helpers
  OBVIOUS
<1>2. CASE SystemStep /\ ~WaiterStep
  BY <1>2, SystemQuiet, QuietExit
<1>3. CASE LoopStep
  BY <1>1, <1>3, LoopQuiet, QuietExit
<1>4. CASE Kernel \/ SendSignal \/ UNCHANGED vars
  BY <1>1, <1>4, KernelQuiet, QuietExit
<1> QED
  BY <1>2, <1>3, <1>4, RootExitInv, WaiterExitInv, UserExitInv
     DEF Next, Run, Exited

\* At the exit every task has ended or was never started.
LEMMA ExitImplies == ResumeInv /\ ExitInv => QuiescentExit
<1> SUFFICES ASSUME ResumeInv, ExitInv, loop = "exited"
             PROVE  /\ \A t \in Tasks : op[t] = "none" /\ st[t] \in {"idle", "done"}
                    /\ stack = <<>> /\ cq = <<>> /\ lost = <<>>
  BY DEF QuiescentExit
<1> USE NamesDiffer, TaskNames
<1>1. rpc = "end" /\ st[Root] = "done"
  BY DEF ExitInv, EndInv
<1>2. \A c \in Helpers \cup {Main, Waiter} : st[c] = "done"
  BY <1>1 DEF ExitInv, WaitedInv, Waited, Helpers, AfterMain, AfterInotify,
     AfterCanceler, AfterSignal, AfterWaiter
<1>3. lost = <<>> /\ \A u \in Users : st[u] \in {"idle", "done"}
  BY <1>2 DEF ExitInv, FinalInv, Live
<1>4. \A t \in Tasks : st[t] \in {"idle", "done"}
  <2>1. \A t \in Tasks : t \in Helpers \cup {Root, Waiter} \cup Users
    BY RunnerAssumption DEF Tasks, Root, Inotify, Signal, Canceler, Waiter,
       Main, Users, Workers, Helpers
  <2> QED BY <1>1, <1>2, <1>3, <2>1
<1>5. \A t \in Tasks : op[t] = "none"
  BY <1>4 DEF ResumeInv, CoreInv, OpInv
<1>6. cq = <<>>
  <2>1. cq # <<>> => 1 \in DOMAIN cq /\ cq[1][1] \in Tasks
    <3>1. cq \in Seq(Tasks \X Results)
      BY DEF ResumeInv, TypeOK
    <3> QED BY <3>1
  <2>2. ASSUME cq # <<>>
        PROVE  FALSE
    <3>1. InQueue(cq[1][1])
      BY <2>1, <2>2, Zenon DEF InQueue
    <3>2. op[cq[1][1]] = "posted"
      BY <2>1, <2>2, <3>1, Zenon DEF ResumeInv, CoreInv, OpInv
    <3> QED BY <1>5, <2>1, <2>2, <3>2
  <2> QED BY <2>2
<1>7. stack = <<>>
  <2>1. stack # <<>> => 1 \in DOMAIN stack /\ stack[1] \in Tasks
    <3>1. stack \in Seq(Tasks)
      BY DEF ResumeInv, TypeOK
    <3> QED BY <3>1
  <2> QED BY <1>4, <2>1 DEF ResumeInv, CoreInv, StackInv, Holds
<1> QED BY <1>3, <1>4, <1>5, <1>6, <1>7

\* When the loop of a context has ended (ctx::run) nothing is left behind, for
\* any program of the user: no operation the kernel still holds, no suspended
\* coroutine, no completion and no lost task.
THEOREM ExitsQuiescent == Spec => []QuiescentExit
BY ResumeInit, ResumeStep, ExitInit, ExitStep, ExitImplies, PTL DEF Spec
=============================================================================
