---------------------------- MODULE InotifyProofs ----------------------------
(***************************************************************************)
(* Proofs about InotifyCtx, for every number of tasks, watches and events  *)
(* and for tasks with and without discipline: an awaitable is resumed once *)
(* for each wait, and no wakeup is lost.  For tasks that keep to the       *)
(* discipline: no undefined behaviour is met, and no waiter is forgotten.  *)
(***************************************************************************)
EXTENDS InotifyCtx, SequenceTheorems, WellFoundedInduction, TLAPS

-----------------------------------------------------------------------------
(* The inductive invariant.                                                *)

RmFrames == [f : {"rm"}, wd : Wds, next : SUBSET Tasks, todo : SUBSET Tasks]

IsFrame(e) ==
    /\ e.f \in {"run", "wake", "rm", "cancel", "user"}
    /\ e.f \in {"wake", "cancel"} => e.todo \subseteq Tasks
    /\ e.f = "rm" => e \in RmFrames
    /\ e.f = "user" => e.task \in Tasks

\* A round of run() and cancel_consumers are called by the event loop alone,
\* and resume_consumer by a round: only one of them has waiters in hand.
StackInv ==
    /\ \E F : stack \in Seq(F)
    /\ \A i \in DOMAIN stack : IsFrame(stack[i])
    /\ \A i \in DOMAIN stack : stack[i].f \in {"run", "cancel"} => i = Len(stack)
    /\ \A i \in DOMAIN stack : stack[i].f = "wake" =>
          i + 1 = Len(stack) /\ stack[Len(stack)].f = "run"

\* A task that is in a call is running, and is in one call.
UserInv ==
    /\ \A i \in DOMAIN stack : stack[i].f = "user" => st[stack[i].task] = "running"
    /\ \A i, j \in DOMAIN stack :
          stack[i].f = "user" /\ stack[j].f = "user" /\ stack[i].task = stack[j].task => i = j

\* The waiters of a watch wait on it, and those in the hands of a loop wait
\* and are in the map no more.
WaitInv == \A w \in Wds : \A t \in waiters[w] : st[t] = "waiting" /\ on[t] = w
TodoInv == \A i \in DOMAIN stack : stack[i].f \in {"wake", "cancel"} =>
    \A t \in stack[i].todo : st[t] = "waiting" /\ \A w \in Wds : t \notin waiters[w]

\* rm_watch walks the waiters of a watch whose object is gone, each watch in
\* one call, and meets no waiter twice.
RmInv ==
    /\ \A i \in DOMAIN stack : stack[i].f = "rm" =>
          /\ stack[i].wd \in 1..made /\ stack[i].wd \notin alive
          /\ stack[i].next \subseteq waiters[stack[i].wd]
          /\ stack[i].todo \subseteq waiters[stack[i].wd]
          /\ \A t, u \in stack[i].next : t = u /\ t \notin stack[i].todo
    /\ \A i, j \in DOMAIN stack :
          stack[i].f = "rm" /\ stack[j].f = "rm" /\ stack[i].wd = stack[j].wd => i = j

\* As long as no suspended coroutine was destroyed and the program goes on.
NoneGone == \A t \in Tasks : st[t] # "gone"
PlaceInv == NoneGone /\ bad = {} => WaitInv /\ TodoInv /\ RmInv

DispatchInv == TypeOK /\ StackInv /\ UserInv /\ PlaceInv /\ ResumedOnce
-----------------------------------------------------------------------------
(* Pushing and popping frames.                                             *)

LEMMA PopFrame ==
    ASSUME NEW F, NEW s \in Seq(F), s # <<>>
    PROVE  /\ Tail(s) \in Seq(F) /\ Head(s) = s[1] /\ Len(s) \in Nat \ {0}
           /\ Len(Tail(s)) = Len(s) - 1 /\ DOMAIN s = 1..Len(s)
           /\ DOMAIN Tail(s) = 1..(Len(s) - 1)
           /\ \A k \in 1..(Len(s) - 1) : Tail(s)[k] = s[k + 1]
BY EmptySeq, HeadTailProperties, LenProperties

LEMMA PushFrame ==
    ASSUME NEW F, NEW s \in Seq(F), NEW e
    PROVE  /\ <<e>> \o s \in Seq(F \cup {e}) /\ Len(s) \in Nat /\ DOMAIN s = 1..Len(s)
           /\ Len(<<e>> \o s) = Len(s) + 1 /\ DOMAIN (<<e>> \o s) = 1..(Len(s) + 1)
           /\ (<<e>> \o s)[1] = e
           /\ \A k \in 1..Len(s) : (<<e>> \o s)[k + 1] = s[k]
<1>1. s \in Seq(F \cup {e}) /\ <<e>> \in Seq(F \cup {e})
  BY SeqMonotonic
<1>2. /\ <<e>> \o s \in Seq(F \cup {e}) /\ Len(s) \in Nat /\ DOMAIN s = 1..Len(s)
      /\ Len(<<e>> \o s) = Len(s) + 1
      /\ \A i \in 1..(Len(s) + 1) : (<<e>> \o s)[i] = IF i <= 1 THEN <<e>>[i] ELSE s[i - 1]
  BY <1>1, ConcatProperties, LenProperties
<1>3. DOMAIN (<<e>> \o s) = 1..(Len(s) + 1)
  BY <1>2, LenProperties
<1> QED BY <1>2, <1>3

\* The top frame is replaced by e, and t is called above it.
LEMMA CallFrame ==
    ASSUME NEW F, NEW s \in Seq(F), s # <<>>, NEW e, NEW u
    PROVE  /\ <<u>> \o (<<e>> \o Tail(s)) \in Seq(F \cup {e} \cup {u})
           /\ Len(<<u>> \o (<<e>> \o Tail(s))) = Len(s) + 1
           /\ DOMAIN (<<u>> \o (<<e>> \o Tail(s))) = 1..(Len(s) + 1)
           /\ (<<u>> \o (<<e>> \o Tail(s)))[1] = u /\ (<<u>> \o (<<e>> \o Tail(s)))[2] = e
           /\ \A k \in 2..Len(s) : (<<u>> \o (<<e>> \o Tail(s)))[k + 1] = s[k]
<1> DEFINE r == <<e>> \o Tail(s)
<1>1. /\ Tail(s) \in Seq(F) /\ Len(s) \in Nat \ {0} /\ Len(Tail(s)) = Len(s) - 1
      /\ \A k \in 1..(Len(s) - 1) : Tail(s)[k] = s[k + 1]
  BY PopFrame
<1>2. /\ r \in Seq(F \cup {e}) /\ Len(r) = Len(Tail(s)) + 1
      /\ r[1] = e /\ \A k \in 1..Len(Tail(s)) : r[k + 1] = Tail(s)[k]
  BY <1>1, PushFrame
<1>3. Len(r) = Len(s) /\ \A k \in 2..Len(s) : r[k] = s[k]
  <2>1. Len(r) = Len(s)
    BY <1>1, <1>2
  <2>2. ASSUME NEW k \in 2..Len(s) PROVE r[k] = s[k]
    <3>1. k - 1 \in 1..(Len(s) - 1) /\ (k - 1) + 1 = k
      BY <1>1
    <3>2. r[(k - 1) + 1] = Tail(s)[k - 1] /\ Tail(s)[k - 1] = s[(k - 1) + 1]
      BY <1>1, <1>2, <3>1
    <3> QED BY <3>1, <3>2
  <2> QED BY <2>1, <2>2
<1> HIDE DEF r
<1>4. /\ <<u>> \o r \in Seq(F \cup {e} \cup {u}) /\ Len(<<u>> \o r) = Len(r) + 1
      /\ DOMAIN (<<u>> \o r) = 1..(Len(r) + 1)
      /\ (<<u>> \o r)[1] = u
      /\ \A k \in 1..Len(r) : (<<u>> \o r)[k + 1] = r[k]
  BY <1>2, PushFrame
<1>5. (<<u>> \o r)[2] = e
  <2>1. 1 \in 1..Len(r) /\ 1 + 1 = 2
    BY <1>1, <1>3
  <2> QED BY <1>2, <1>4, <2>1
<1>6. \A k \in 2..Len(s) : (<<u>> \o r)[k + 1] = s[k]
  BY <1>1, <1>3, <1>4
<1> QED BY <1>1, <1>3, <1>4, <1>5, <1>6 DEF r

\* A loop resumes t, which it found waiting.
LEMMA CallInv ==
    ASSUME TypeOK, StackInv, UserInv, stack # <<>>, NEW t \in Tasks, NEW e, IsFrame(e),
           e.f = Head(stack).f, e.f # "user", st[t] = "waiting",
           st' = [st EXCEPT ![t] = "running"],
           stack' = <<UserFrame(t)>> \o (<<e>> \o Rest)
    PROVE  /\ StackInv' /\ UserInv'
           /\ DOMAIN stack' = 1..(Len(stack) + 1) /\ DOMAIN stack = 1..Len(stack)
           /\ Len(stack) \in Nat \ {0} /\ Head(stack) = stack[1]
           /\ stack'[1].f = "user" /\ stack'[2] = e
           /\ \A k \in 2..Len(stack) : stack'[k + 1] = stack[k]
<1>1. PICK F : stack \in Seq(F)
  BY DEF StackInv
<1>2. /\ stack' \in Seq(F \cup {e} \cup {UserFrame(t)})
      /\ Len(stack') = Len(stack) + 1 /\ DOMAIN stack' = 1..(Len(stack) + 1)
      /\ stack'[1] = UserFrame(t) /\ stack'[2] = e
      /\ \A k \in 2..Len(stack) : stack'[k + 1] = stack[k]
  BY <1>1, CallFrame DEF Rest
<1>3. Len(stack) \in Nat \ {0} /\ DOMAIN stack = 1..Len(stack) /\ Head(stack) = stack[1]
  BY <1>1, PopFrame
<1>4. UserFrame(t).f = "user" /\ UserFrame(t).task = t
  BY DEF UserFrame
<1>5. \A i \in DOMAIN stack' : i = 1 \/ i = 2 \/ (i - 1 \in 2..Len(stack) /\ stack'[i] = stack[i - 1])
  <2>1. ASSUME NEW i \in DOMAIN stack', i # 1, i # 2
        PROVE  i - 1 \in 2..Len(stack) /\ stack'[i] = stack[i - 1]
    <3>1. i - 1 \in 2..Len(stack) /\ (i - 1) + 1 = i
      BY <1>2, <1>3, <2>1
    <3>2. stack'[(i - 1) + 1] = stack[i - 1]
      BY <1>2, <3>1
    <3> QED BY <3>1, <3>2
  <2> QED BY <2>1
<1>6. StackInv'
  <2>1. \A i \in DOMAIN stack' : IsFrame(stack'[i])
    BY <1>2, <1>3, <1>4, <1>5 DEF StackInv, IsFrame
  <2>2. \A i \in DOMAIN stack' : stack'[i].f \in {"run", "cancel"} => i = Len(stack')
    BY <1>2, <1>3, <1>4, <1>5 DEF StackInv
  <2>3. \A i \in DOMAIN stack' : stack'[i].f = "wake" =>
            i + 1 = Len(stack') /\ stack'[Len(stack')].f = "run"
    <3>1. SUFFICES ASSUME NEW i \in DOMAIN stack', stack'[i].f = "wake"
                   PROVE  i + 1 = Len(stack') /\ stack'[Len(stack')].f = "run"
      OBVIOUS
    <3>2. CASE i = 2
      <4>1. stack[1].f = "wake" /\ 1 \in DOMAIN stack
        BY <1>2, <1>3, <3>1, <3>2
      <4>2. 1 + 1 = Len(stack) /\ stack[Len(stack)].f = "run"
        BY <4>1 DEF StackInv
      <4>3. Len(stack) = 2
        BY <4>2
      <4>4. 2 \in 2..Len(stack) /\ 2 + 1 = 3 /\ Len(stack') = 3
        BY <1>2, <4>3
      <4>5. stack'[3] = stack[2]
        BY <1>2, <4>4
      <4> QED BY <3>2, <4>2, <4>3, <4>4, <4>5
    <3>3. CASE i # 2
      <4>1. i - 1 \in 2..Len(stack) /\ stack[i - 1].f = "wake"
        BY <1>2, <1>4, <1>5, <3>1, <3>3
      <4>2. (i - 1) + 1 = Len(stack) /\ stack[Len(stack)].f = "run"
        BY <1>3, <4>1 DEF StackInv
      <4> QED BY <1>2, <1>3, <4>1, <4>2
    <3> QED BY <3>2, <3>3
  <2> QED BY <1>2, <2>1, <2>2, <2>3 DEF StackInv
<1>7. UserInv'
  <2>1. \A i \in DOMAIN stack : stack[i].f = "user" =>
           stack[i].task \in Tasks /\ stack[i].task # t /\ st'[stack[i].task] = "running"
    BY DEF StackInv, IsFrame, UserInv, TypeOK
  <2>2. st'[t] = "running"
    BY DEF TypeOK
  <2>3. \A i \in DOMAIN stack' : stack'[i].f = "user" =>
           i = 1 \/ (i - 1 \in DOMAIN stack /\ stack'[i] = stack[i - 1])
    BY <1>2, <1>3, <1>5
  <2>4. \A i \in DOMAIN stack' : stack'[i].f = "user" => st'[stack'[i].task] = "running"
    BY <1>2, <1>4, <2>1, <2>2, <2>3
  <2>5. \A i \in DOMAIN stack' : stack'[i].f = "user" /\ stack'[i].task = t => i = 1
    BY <2>1, <2>3
  <2>6. \A i, j \in DOMAIN stack' : i # 1 /\ j # 1
            /\ stack'[i].f = "user" /\ stack'[j].f = "user" /\ stack'[i].task = stack'[j].task
            => i = j
    <3>1. SUFFICES ASSUME NEW i \in DOMAIN stack', NEW j \in DOMAIN stack', i # 1, j # 1,
                          stack'[i].f = "user", stack'[j].f = "user",
                          stack'[i].task = stack'[j].task
                   PROVE  i = j
      OBVIOUS
    <3>2. i - 1 = j - 1
      BY <2>3, <3>1 DEF UserInv
    <3> QED BY <1>2, <1>3, <3>2
  <2>7. stack'[1].f = "user" /\ stack'[1].task = t
    BY <1>2, <1>4
  <2>8. \A i, j \in DOMAIN stack' :
           stack'[i].f = "user" /\ stack'[j].f = "user" /\ stack'[i].task = stack'[j].task => i = j
    BY <2>5, <2>6, <2>7
  <2> QED BY <2>4, <2>8 DEF UserInv
<1> QED BY <1>2, <1>3, <1>4, <1>6, <1>7

\* The top frame ends.
LEMMA ReturnInv ==
    ASSUME StackInv, UserInv, stack # <<>>, stack' = Rest,
           \A i \in DOMAIN stack' : stack'[i].f = "user" => st'[stack'[i].task] = st[stack'[i].task]
    PROVE  /\ StackInv' /\ UserInv'
           /\ DOMAIN stack' = 1..(Len(stack) - 1) /\ DOMAIN stack = 1..Len(stack)
           /\ Len(stack) \in Nat \ {0} /\ Head(stack) = stack[1]
           /\ \A k \in 1..(Len(stack) - 1) : stack'[k] = stack[k + 1]
<1>1. PICK F : stack \in Seq(F)
  BY DEF StackInv
<1>2. /\ stack' \in Seq(F) /\ Head(stack) = stack[1] /\ Len(stack) \in Nat \ {0}
      /\ Len(stack') = Len(stack) - 1 /\ DOMAIN stack = 1..Len(stack)
      /\ DOMAIN stack' = 1..(Len(stack) - 1)
      /\ \A k \in 1..(Len(stack) - 1) : stack'[k] = stack[k + 1]
  BY <1>1, PopFrame DEF Rest
<1>3. \A i \in DOMAIN stack' : i + 1 \in DOMAIN stack /\ stack'[i] = stack[i + 1]
  BY <1>2
<1>4. StackInv'
  <2>1. \A i \in DOMAIN stack' : stack'[i].f = "wake" =>
            i + 1 = Len(stack') /\ stack'[Len(stack')].f = "run"
    <3>1. SUFFICES ASSUME NEW i \in DOMAIN stack', stack'[i].f = "wake"
                   PROVE  i + 1 = Len(stack') /\ stack'[Len(stack')].f = "run"
      OBVIOUS
    <3>2. (i + 1) + 1 = Len(stack) /\ stack[Len(stack)].f = "run"
      BY <1>3, <3>1 DEF StackInv
    <3>3. stack'[Len(stack')] = stack[Len(stack)]
      BY <1>2, <3>2
    <3> QED BY <1>2, <3>2, <3>3
  <2>2. \A i \in DOMAIN stack' : stack'[i].f \in {"run", "cancel"} => i = Len(stack')
    BY <1>2, <1>3 DEF StackInv
  <2>3. \A i \in DOMAIN stack' : IsFrame(stack'[i])
    BY <1>3 DEF StackInv, IsFrame
  <2> QED BY <1>2, <2>1, <2>2, <2>3 DEF StackInv
<1>5. UserInv'
  <2>1. \A i \in DOMAIN stack' : stack'[i].f = "user" => st'[stack'[i].task] = "running"
    BY <1>3 DEF UserInv
  <2>2. \A i, j \in DOMAIN stack' :
           stack'[i].f = "user" /\ stack'[j].f = "user" /\ stack'[i].task = stack'[j].task => i = j
    BY <1>2, <1>3 DEF UserInv
  <2> QED BY <2>1, <2>2 DEF UserInv
<1> QED BY <1>2, <1>4, <1>5
-----------------------------------------------------------------------------
(* The steps that touch neither the calls nor the waiters.                 *)

LEMMA QuietInv ==
    ASSUME DispatchInv, TypeOK', UNCHANGED <<stack, st, on, waiters, bad>>,
           \/ UNCHANGED <<made, alive>>
           \/ made' = made + 1 /\ alive' = alive \cup {made'}
    PROVE  DispatchInv'
<1> USE DEF DispatchInv
<1>1. StackInv' /\ UserInv' /\ ResumedOnce'
  BY DEF StackInv, IsFrame, UserInv, ResumedOnce
<1>2. PlaceInv'
  <2>1. SUFFICES ASSUME NoneGone, bad = {}
                 PROVE  WaitInv' /\ TodoInv' /\ RmInv'
    BY DEF PlaceInv, NoneGone
  <2>2. WaitInv /\ TodoInv /\ RmInv
    BY <2>1 DEF PlaceInv
  <2>3. WaitInv' /\ TodoInv'
    BY <2>2 DEF WaitInv, TodoInv
  <2>0. made \in 0..MaxWds /\ made' \in 0..MaxWds
    BY DEF TypeOK
  <2>4. \A w \in 1..made : w \notin alive => w \in 1..made' /\ w \notin alive'
    BY <2>0
  <2>5. ASSUME NEW i \in DOMAIN stack, stack[i].f = "rm"
        PROVE  stack[i].wd \in 1..made' /\ stack[i].wd \notin alive'
    BY <2>2, <2>4, <2>5 DEF RmInv
  <2>6. RmInv'
    BY <2>2, <2>5 DEF RmInv
  <2> QED BY <2>3, <2>6
<1> QED BY <1>1, <1>2

LEMMA KernelStopInv ==
    ASSUME DispatchInv, InotifyAssumption, Kernel \/ Stop \/ Close
    PROVE  DispatchInv'
<1> USE DEF DispatchInv
<1>1. ASSUME NEW w \in Wds, KernelEvent(w) PROVE DispatchInv'
  <2>1. TypeOK'
    BY <1>1, AppendProperties DEF KernelEvent, TypeOK, Wds, InotifyAssumption, mapVars, taskVars
  <2> QED BY <1>1, <2>1, QuietInv DEF KernelEvent, mapVars, taskVars
<1>2. ASSUME NEW w \in Wds, KernelRemove(w) PROVE DispatchInv'
  <2>1. TypeOK'
    BY <1>2, AppendProperties DEF KernelRemove, TypeOK, mapVars, taskVars
  <2> QED BY <1>2, <2>1, QuietInv DEF KernelRemove, mapVars, taskVars
<1>3. CASE KernelRead
  <2>1. PICK n \in DOMAIN queue :
           /\ buf' = SubSeq(queue, 1, n) /\ queue' = SubSeq(queue, n + 1, Len(queue))
    BY <1>3 DEF KernelRead
  <2>0. queue \in Seq(Wds)
    BY DEF TypeOK
  <2>2. n \in 1..Len(queue) /\ Len(queue) \in Nat /\ \A k \in 1..Len(queue) : queue[k] \in Wds
    BY <2>1, <2>0, LenProperties, ElementOfSeq
  <2>3. buf' \in Seq(Wds) /\ queue' \in Seq(Wds)
    BY <2>1, <2>2, SubSeqProperties
  <2>4. TypeOK'
    BY <1>3, <2>3 DEF KernelRead, TypeOK, mapVars, taskVars
  <2> QED BY <1>3, <2>4, QuietInv DEF KernelRead, mapVars, taskVars
<1>4. CASE Stop
  <2>1. TypeOK'
    BY <1>4 DEF Stop, TypeOK, mapVars, taskVars
  <2> QED BY <1>4, <2>1, QuietInv DEF Stop, mapVars, taskVars
<1>5. CASE Close
  <2>1. TypeOK'
    BY <1>5 DEF Close, TypeOK, mapVars, taskVars
  <2> QED BY <1>5, <2>1, QuietInv DEF Close, mapVars, taskVars
<1> QED BY <1>1, <1>2, <1>3, <1>4, <1>5 DEF Kernel

LEMMA WatchInv ==
    ASSUME DispatchInv, InotifyAssumption, NEW t \in Tasks, Watch(t)
    PROVE  DispatchInv'
<1> USE DEF DispatchInv
<1>1. /\ made < MaxWds /\ made' = made + 1 /\ kernel' = kernel \cup {made'}
      /\ alive' = alive \cup {made'} /\ consumers' = consumers \cup {made'}
      /\ buff' = [buff EXCEPT ![made'] = "live"]
      /\ UNCHANGED <<queue, events, open, read, buf, canceled, waiters, count, st, on, since,
                     stack, bad>>
  BY DEF Watch, taskVars
<1>2. made \in Nat /\ made + 1 \in Wds
  <2>1. made \in 0..MaxWds
    BY DEF TypeOK
  <2> QED BY <1>1, <2>1 DEF Wds, InotifyAssumption
<1>3. TypeOK'
  <2>1. /\ made \in 0..MaxWds /\ kernel \subseteq 1..made /\ alive \subseteq 1..made
        /\ consumers \subseteq Wds /\ buff \in [Wds -> {"null", "live", "freed"}]
    BY DEF TypeOK
  <2>2. made' \in 0..MaxWds /\ kernel' \subseteq 1..made' /\ alive' \subseteq 1..made'
    BY <1>1, <1>2, <2>1 DEF Wds, InotifyAssumption
  <2>3. consumers' \subseteq Wds /\ buff' \in [Wds -> {"null", "live", "freed"}]
    BY <1>1, <1>2, <2>1
  <2> QED BY <1>1, <2>2, <2>3 DEF TypeOK
<1> QED BY <1>1, <1>3, QuietInv
-----------------------------------------------------------------------------
(* What the waiters and the walks keep when the top frame ends or calls.   *)

\* Only the walk at the top may take waiters out of its watch.
LEMMA ReturnPlace ==
    ASSUME TypeOK, StackInv, UserInv, PlaceInv, stack # <<>>, stack' = Rest,
           \A i \in DOMAIN stack' : stack'[i].f = "user" => st'[stack'[i].task] = st[stack'[i].task],
           \A u \in Tasks : st[u] = "waiting" => st'[u] = "waiting",
           \A u \in Tasks : st[u] = "gone" => st'[u] = "gone",
           UNCHANGED <<on, made, alive, bad>>,
           \A w \in Wds : waiters'[w] \subseteq waiters[w],
           \A k \in 2..Len(stack) : stack[k].f = "rm" => waiters'[stack[k].wd] = waiters[stack[k].wd]
    PROVE  StackInv' /\ UserInv' /\ PlaceInv'
<1>1. /\ StackInv' /\ UserInv'
      /\ DOMAIN stack' = 1..(Len(stack) - 1) /\ DOMAIN stack = 1..Len(stack)
      /\ Len(stack) \in Nat \ {0}
      /\ \A k \in 1..(Len(stack) - 1) : stack'[k] = stack[k + 1]
  BY ReturnInv
<1>2. \A i \in DOMAIN stack' : i + 1 \in 2..Len(stack) /\ i + 1 \in DOMAIN stack
                               /\ stack'[i] = stack[i + 1]
  BY <1>1
<1>3. ASSUME NoneGone', bad' = {} PROVE WaitInv' /\ TodoInv' /\ RmInv'
  <2>1. WaitInv /\ TodoInv /\ RmInv
    BY <1>3 DEF PlaceInv, NoneGone
  <2>2. WaitInv'
    BY <2>1 DEF WaitInv, TypeOK
  <2>3. TodoInv'
    <3>1. SUFFICES ASSUME NEW i \in DOMAIN stack', stack'[i].f \in {"wake", "cancel"},
                          NEW u \in stack'[i].todo
                   PROVE  st'[u] = "waiting" /\ \A w \in Wds : u \notin waiters'[w]
      BY DEF TodoInv
    <3>2. st[u] = "waiting" /\ u \in Tasks /\ \A w \in Wds : u \notin waiters[w]
      BY <1>2, <2>1, <3>1 DEF TodoInv, StackInv, IsFrame
    <3> QED BY <3>2
  <2>4. RmInv'
    <3>1. ASSUME NEW i \in DOMAIN stack', stack'[i].f = "rm"
          PROVE  /\ stack'[i].wd \in 1..made' /\ stack'[i].wd \notin alive'
                 /\ stack'[i].next \subseteq waiters'[stack'[i].wd]
                 /\ stack'[i].todo \subseteq waiters'[stack'[i].wd]
                 /\ \A a, b \in stack'[i].next : a = b /\ a \notin stack'[i].todo
      BY <1>2, <2>1, <3>1 DEF RmInv
    <3>2. ASSUME NEW i \in DOMAIN stack', NEW j \in DOMAIN stack',
                 stack'[i].f = "rm", stack'[j].f = "rm", stack'[i].wd = stack'[j].wd
          PROVE  i = j
      <4>1. i + 1 = j + 1
        BY <1>2, <2>1, <3>2 DEF RmInv
      <4> QED BY <1>1, <4>1
    <3> QED BY <3>1, <3>2 DEF RmInv
  <2> QED BY <2>2, <2>3, <2>4
<1> QED BY <1>1, <1>3 DEF PlaceInv

LEMMA CallPlace ==
    ASSUME TypeOK, StackInv, UserInv, PlaceInv, stack # <<>>, NEW t \in Tasks, NEW e, IsFrame(e),
           e.f = Head(stack).f, e.f # "user", st[t] = "waiting",
           st' = [st EXCEPT ![t] = "running"],
           stack' = <<UserFrame(t)>> \o (<<e>> \o Rest),
           UNCHANGED <<on, made, alive, bad>>,
           NoneGone /\ bad = {} =>
              /\ \A w \in Wds : waiters'[w] \subseteq waiters[w] \ {t}
              /\ \A k \in 2..Len(stack) :
                    stack[k].f = "rm" => waiters'[stack[k].wd] = waiters[stack[k].wd]
              /\ \A k \in 2..Len(stack) :
                    stack[k].f \in {"wake", "cancel"} => t \notin stack[k].todo
              /\ e.f \in {"wake", "cancel"} =>
                    e.todo \subseteq Head(stack).todo \ {t}
              /\ e.f = "rm" => /\ e.wd = Head(stack).wd
                               /\ e.next \subseteq waiters'[e.wd]
                               /\ e.todo \subseteq waiters'[e.wd]
                               /\ \A a, b \in e.next : a = b /\ a \notin e.todo
    PROVE  StackInv' /\ UserInv' /\ PlaceInv'
<1>1. /\ StackInv' /\ UserInv'
      /\ DOMAIN stack' = 1..(Len(stack) + 1) /\ DOMAIN stack = 1..Len(stack)
      /\ Len(stack) \in Nat \ {0} /\ Head(stack) = stack[1]
      /\ stack'[1].f = "user" /\ stack'[2] = e
      /\ \A k \in 2..Len(stack) : stack'[k + 1] = stack[k]
  BY CallInv
<1>2. \A i \in DOMAIN stack' : i = 1 \/ i = 2 \/ (i - 1 \in 2..Len(stack) /\ stack'[i] = stack[i - 1])
  <2>1. ASSUME NEW i \in DOMAIN stack', i # 1, i # 2
        PROVE  i - 1 \in 2..Len(stack) /\ stack'[i] = stack[i - 1]
    <3>1. i - 1 \in 2..Len(stack) /\ (i - 1) + 1 = i
      BY <1>1, <2>1
    <3>2. stack'[(i - 1) + 1] = stack[i - 1]
      BY <1>1, <3>1
    <3> QED BY <3>1, <3>2
  <2> QED BY <2>1
<1>3. 1 \in DOMAIN stack /\ 2..Len(stack) \subseteq DOMAIN stack
  BY <1>1
<1>4. ASSUME NoneGone', bad' = {} PROVE WaitInv' /\ TodoInv' /\ RmInv'
  <2>1. NoneGone /\ bad = {}
    BY <1>4 DEF NoneGone, TypeOK
  <2>2. WaitInv /\ TodoInv /\ RmInv
    BY <2>1 DEF PlaceInv
  <2>3. \A u \in Tasks : u # t => st'[u] = st[u]
    BY DEF TypeOK
  <2>4. WaitInv'
    BY <2>1, <2>2, <2>3 DEF WaitInv, TypeOK
  <2>5. TodoInv'
    <3>1. SUFFICES ASSUME NEW i \in DOMAIN stack', stack'[i].f \in {"wake", "cancel"},
                          NEW u \in stack'[i].todo
                   PROVE  st'[u] = "waiting" /\ \A w \in Wds : u \notin waiters'[w]
      BY DEF TodoInv
    <3>2. u # t /\ \E k \in DOMAIN stack : stack[k].f \in {"wake", "cancel"} /\ u \in stack[k].todo
      BY <1>1, <1>2, <1>3, <2>1, <3>1
    <3>3. st[u] = "waiting" /\ u \in Tasks /\ \A w \in Wds : u \notin waiters[w]
      BY <2>2, <3>2 DEF TodoInv, StackInv, IsFrame
    <3> QED BY <2>1, <2>3, <3>2, <3>3
  <2>6. RmInv'
    <3>1. ASSUME NEW i \in DOMAIN stack', stack'[i].f = "rm"
          PROVE  /\ stack'[i].wd \in 1..made' /\ stack'[i].wd \notin alive'
                 /\ stack'[i].next \subseteq waiters'[stack'[i].wd]
                 /\ stack'[i].todo \subseteq waiters'[stack'[i].wd]
                 /\ \A a, b \in stack'[i].next : a = b /\ a \notin stack'[i].todo
      <4>1. CASE i = 2
        <5>1. stack'[i] = e /\ stack[1].f = "rm" /\ e.wd = stack[1].wd
          BY <1>1, <2>1, <3>1, <4>1
        <5>2. e.wd \in 1..made /\ e.wd \notin alive
          BY <1>3, <2>2, <5>1 DEF RmInv
        <5> QED BY <2>1, <3>1, <5>1, <5>2
      <4>2. CASE i # 2
        <5>1. i - 1 \in 2..Len(stack) /\ stack'[i] = stack[i - 1]
          BY <1>1, <1>2, <3>1, <4>2
        <5> DEFINE fr == stack[i - 1]
        <5>2. fr.f = "rm" /\ i - 1 \in DOMAIN stack
          BY <1>3, <3>1, <5>1
        <5>3. /\ fr.wd \in 1..made /\ fr.wd \notin alive
              /\ fr.next \subseteq waiters[fr.wd] /\ fr.todo \subseteq waiters[fr.wd]
              /\ \A a, b \in fr.next : a = b /\ a \notin fr.todo
          BY <2>2, <5>2 DEF RmInv
        <5>4. waiters'[fr.wd] = waiters[fr.wd]
          BY <2>1, <5>1, <5>2
        <5> QED BY <5>1, <5>3, <5>4
      <4> QED BY <4>1, <4>2
    <3>2. ASSUME NEW i \in DOMAIN stack', stack'[i].f = "rm"
          PROVE  i - 1 \in DOMAIN stack /\ stack[i - 1].f = "rm" /\ stack[i - 1].wd = stack'[i].wd
      <4>1. CASE i = 2
        <5>1. stack'[i] = e /\ stack[1].f = "rm" /\ e.wd = stack[1].wd
          BY <1>1, <2>1, <3>2, <4>1
        <5> QED BY <1>3, <4>1, <5>1
      <4>2. CASE i # 2
        <5>1. i - 1 \in 2..Len(stack) /\ stack'[i] = stack[i - 1]
          BY <1>1, <1>2, <3>2, <4>2
        <5> QED BY <1>3, <3>2, <5>1
      <4> QED BY <4>1, <4>2
    <3>3. ASSUME NEW i \in DOMAIN stack', NEW j \in DOMAIN stack',
                 stack'[i].f = "rm", stack'[j].f = "rm", stack'[i].wd = stack'[j].wd
          PROVE  i = j
      <4>1. /\ i - 1 \in DOMAIN stack /\ stack[i - 1].f = "rm"
            /\ j - 1 \in DOMAIN stack /\ stack[j - 1].f = "rm"
            /\ stack[i - 1].wd = stack[j - 1].wd
        BY <3>2, <3>3
      <4>2. i - 1 = j - 1
        BY <2>2, <4>1 DEF RmInv
      <4> QED BY <1>1, <4>2
    <3> QED BY <3>1, <3>3 DEF RmInv
  <2> QED BY <2>4, <2>5, <2>6
<1> QED BY <1>1, <1>4 DEF PlaceInv
-----------------------------------------------------------------------------
(* The steps of the dispatcher.                                            *)

LEMMA RunAlone ==
    ASSUME StackInv, stack # <<>>, Head(stack).f \in {"run", "cancel"}
    PROVE  /\ Len(stack) = 1 /\ DOMAIN stack = {1} /\ Head(stack) = stack[1] /\ Rest = <<>>
<1>1. PICK F : stack \in Seq(F)
  BY DEF StackInv
<1>2. /\ Tail(stack) \in Seq(F) /\ Head(stack) = stack[1] /\ Len(stack) \in Nat \ {0}
      /\ Len(Tail(stack)) = Len(stack) - 1 /\ DOMAIN stack = 1..Len(stack)
  BY <1>1, PopFrame
<1>3. Len(stack) = 1
  BY <1>2 DEF StackInv
<1>4. Tail(stack) = <<>>
  <2> DEFINE T == Tail(stack)
  <2>1. T \in Seq(F) /\ Len(T) = 0
    BY <1>2, <1>3
  <2> HIDE DEF T
  <2>2. T = <<>>
    BY <2>1, EmptySeq
  <2> QED BY <2>2 DEF T
<1> QED BY <1>2, <1>3, <1>4 DEF Rest

\* Only a run or a cancel_consumers is in progress, and it hands out waiters
\* that are in the map no more.
LEMMA AloneInv ==
    ASSUME TypeOK, NEW e, IsFrame(e), e.f \in {"run", "cancel"}, stack' = <<e>>,
           NoneGone' /\ bad' = {} =>
               /\ WaitInv'
               /\ e.f = "cancel" => \A t \in e.todo :
                     st'[t] = "waiting" /\ \A w \in Wds : t \notin waiters'[w]
    PROVE  StackInv' /\ UserInv' /\ PlaceInv'
<1>1. stack' \in Seq({e}) /\ Len(stack') = 1 /\ DOMAIN stack' = {1} /\ stack'[1] = e
  <2>1. <<e>> \in Seq({e}) /\ Len(<<e>>) = 1 /\ DOMAIN <<e>> = {1} /\ <<e>>[1] = e
    OBVIOUS
  <2> QED BY <2>1
<1>2. StackInv'
  <2>1. \A i \in DOMAIN stack' : i = 1 /\ i = Len(stack') /\ stack'[i] = e
    BY <1>1
  <2>2. \A i \in DOMAIN stack' : IsFrame(stack'[i])
    BY <2>1 DEF IsFrame
  <2>3. \A i \in DOMAIN stack' : stack'[i].f # "wake"
    BY <2>1
  <2> QED BY <1>1, <2>1, <2>2, <2>3 DEF StackInv
<1>3. UserInv'
  BY <1>1 DEF UserInv
<1>4. ASSUME NoneGone', bad' = {} PROVE TodoInv' /\ RmInv'
  BY <1>1, <1>4 DEF TodoInv, RmInv, IsFrame
<1> QED BY <1>2, <1>3, <1>4 DEF PlaceInv

LEMMA AboveEmpty ==
    ASSUME NEW a, NEW b
    PROVE  <<a>> \o <<>> = <<a>> /\ <<a, b>> \o <<>> = <<a, b>>
<1>1. <<a>> \in Seq({a, b}) /\ <<a, b>> \in Seq({a, b})
  OBVIOUS
<1> QED BY <1>1, ConcatEmptySeq

LEMMA RunEventsInv ==
    ASSUME DispatchInv, RunEvents
    PROVE  DispatchInv'
<1>1. /\ stack = <<>> /\ bad = {} /\ read' = "none" /\ buf' = <<>>
      /\ stack' = <<RunFrame(buf, <<>>)>>
      /\ UNCHANGED <<kernel, queue, events, open, made, alive, canceled, consumers, buff,
                     waiters, count, st, on, since, bad>>
  BY DEF RunEvents, Idle, mapVars, taskVars
<1>2. buf' \in Seq(Wds)
  BY <1>1
<1>3. TypeOK' /\ ResumedOnce'
  BY <1>1, <1>2 DEF DispatchInv, TypeOK, ResumedOnce
<1>4. RunFrame(buf, <<>>).f = "run" /\ IsFrame(RunFrame(buf, <<>>))
  BY DEF RunFrame, IsFrame
<1>5. NoneGone' /\ bad' = {} => WaitInv'
  BY <1>1 DEF DispatchInv, PlaceInv, NoneGone, WaitInv
<1>6. StackInv' /\ UserInv' /\ PlaceInv'
  BY <1>1, <1>3, <1>4, <1>5, AloneInv DEF DispatchInv
<1> QED BY <1>3, <1>6 DEF DispatchInv

LEMMA PushEventInv ==
    ASSUME DispatchInv, PushEvent
    PROVE  DispatchInv'
<1> DEFINE fr == Head(stack)
           w == Head(fr.left)
           a == RunFrame(Tail(fr.left), Append(fr.list, w))
           b == RunFrame(Tail(fr.left), fr.list)
<1> USE DEF DispatchInv
<1>1. /\ bad = {} /\ stack # <<>> /\ fr.f = "run"
      /\ UNCHANGED <<kernel, queue, events, open, read, buf, made, alive, canceled, consumers,
                     buff, waiters, st, on, since>>
  BY DEF PushEvent, Top, kernelVars, taskVars
<1>2. a.f = "run" /\ IsFrame(a) /\ b.f = "run" /\ IsFrame(b)
  BY DEF RunFrame, IsFrame
<1>3. \/ /\ w \in consumers /\ count' = [count EXCEPT ![w] = @ + 1]
         /\ bad' = {buff[w]} \ {"live"} /\ stack' = <<a>> \o Rest
      \/ count' = count /\ bad' = bad /\ stack' = <<b>> \o Rest
  BY DEF PushEvent
<1> HIDE DEF a, b, w, fr
<1>4. Rest = <<>>
  BY <1>1, RunAlone DEF fr
<1>5. stack' = <<a>> \/ stack' = <<b>>
  BY <1>3, <1>4, AboveEmpty
<1>6. count' \in [Wds -> Nat] /\ bad' \subseteq {"null", "freed"}
  <2>1. /\ count \in [Wds -> Nat] /\ consumers \subseteq Wds
        /\ buff \in [Wds -> {"null", "live", "freed"}]
    BY DEF TypeOK
  <2>2. CASE w \in consumers /\ count' = [count EXCEPT ![w] = @ + 1] /\ bad' = {buff[w]} \ {"live"}
    <3>1. w \in Wds /\ buff[w] \in {"null", "live", "freed"} /\ count[w] + 1 \in Nat
      BY <2>1, <2>2
    <3>2. count' \in [Wds -> Nat]
      BY <2>1, <2>2, <3>1
    <3> QED BY <2>2, <3>1, <3>2
  <2> QED BY <1>1, <1>3, <2>1, <2>2
<1>7. TypeOK' /\ ResumedOnce'
  BY <1>1, <1>6 DEF TypeOK, ResumedOnce
<1>8. NoneGone' /\ bad' = {} => WaitInv'
  BY <1>1 DEF PlaceInv, NoneGone, WaitInv
<1>9. StackInv' /\ UserInv' /\ PlaceInv'
  BY <1>2, <1>5, <1>7, <1>8, AloneInv
<1> QED BY <1>7, <1>9

LEMMA RunNextInv ==
    ASSUME DispatchInv, RunNext
    PROVE  DispatchInv'
<1> DEFINE list == Head(stack).list
           w == Head(list)
           a == WakeFrame(w, waiters[w])
           b == RunFrame(<<>>, Tail(list))
<1> USE DEF DispatchInv
<1>1. /\ bad = {} /\ stack # <<>> /\ Head(stack).f = "run"
      /\ UNCHANGED <<kernel, queue, events, open, read, buf, made, alive, canceled, consumers,
                     buff, count, st, on, since, bad>>
  BY DEF RunNext, Top, kernelVars, taskVars
<1>2. Rest = <<>>
  BY <1>1, RunAlone
<1>3. b.f = "run" /\ IsFrame(b)
  BY DEF RunFrame, IsFrame
<1>4. a.f = "wake" /\ a.todo = waiters[w]
  BY DEF WakeFrame
<1>5. \/ /\ w \in consumers /\ waiters' = [waiters EXCEPT ![w] = {}] /\ stack' = <<a, b>>
      \/ stack' = <<b>> /\ waiters' = waiters
  <2>1. \/ /\ w \in consumers /\ waiters' = [waiters EXCEPT ![w] = {}]
           /\ stack' = <<a, b>> \o Rest
        \/ stack' = <<b>> \o Rest /\ waiters' = waiters
    BY DEF RunNext
  <2> HIDE DEF a, b, w
  <2> QED BY <1>2, <2>1, AboveEmpty
<1> HIDE DEF a, b, w, list
<1>6. TypeOK' /\ ResumedOnce'
  BY <1>1, <1>5 DEF TypeOK, ResumedOnce
<1>7. CASE stack' = <<b>> /\ waiters' = waiters
  <2>1. NoneGone' /\ bad' = {} => WaitInv'
    BY <1>1, <1>7 DEF PlaceInv, NoneGone, WaitInv
  <2>2. StackInv' /\ UserInv' /\ PlaceInv'
    BY <1>3, <1>7, <2>1, AloneInv
  <2> QED BY <1>6, <2>2
<1>8. CASE /\ w \in consumers /\ waiters' = [waiters EXCEPT ![w] = {}] /\ stack' = <<a, b>>
  <2>1. /\ stack' \in Seq({a, b}) /\ Len(stack') = 2 /\ DOMAIN stack' = {1, 2}
        /\ stack'[1] = a /\ stack'[2] = b
    <3>1. /\ <<a, b>> \in Seq({a, b}) /\ Len(<<a, b>>) = 2 /\ DOMAIN <<a, b>> = {1, 2}
          /\ <<a, b>>[1] = a /\ <<a, b>>[2] = b
      OBVIOUS
    <3> QED BY <1>8, <3>1
  <2>2. w \in Wds /\ waiters[w] \subseteq Tasks
    BY <1>8 DEF TypeOK
  <2>3. IsFrame(a)
    BY <1>4, <2>2 DEF IsFrame
  <2>4. \A i \in DOMAIN stack' : (i = 1 /\ stack'[i] = a) \/ (i = 2 /\ stack'[i] = b)
    BY <2>1
  <2>5. StackInv'
    <3>1. \A i \in DOMAIN stack' : IsFrame(stack'[i])
      BY <1>3, <2>3, <2>4 DEF IsFrame
    <3>2. \A i \in DOMAIN stack' : stack'[i].f \in {"run", "cancel"} => i = Len(stack')
      BY <1>4, <2>1, <2>4
    <3>3. \A i \in DOMAIN stack' : stack'[i].f = "wake" =>
            i + 1 = Len(stack') /\ stack'[Len(stack')].f = "run"
      BY <1>3, <2>1, <2>4
    <3> QED BY <2>1, <3>1, <3>2, <3>3 DEF StackInv
  <2>6. UserInv'
    BY <1>3, <1>4, <2>4 DEF UserInv
  <2>7. ASSUME NoneGone', bad' = {} PROVE WaitInv' /\ TodoInv' /\ RmInv'
    <3>1. WaitInv
      BY <1>1, <2>7 DEF PlaceInv, NoneGone
    <3>2. WaitInv'
      BY <1>1, <1>8, <2>2, <3>1 DEF WaitInv, TypeOK
    <3>3. \A u \in waiters[w] : st[u] = "waiting" /\ \A v \in Wds : u \notin waiters'[v]
      <4>1. \A u \in waiters[w] : st[u] = "waiting" /\ on[u] = w
        BY <2>2, <3>1 DEF WaitInv
      <4>2. \A v \in Wds : waiters'[v] = IF v = w THEN {} ELSE waiters[v]
        BY <1>8, <2>2 DEF TypeOK
      <4>3. \A v \in Wds : \A u \in waiters'[v] : on[u] = v /\ v # w
        BY <3>1, <4>2 DEF WaitInv
      <4> QED BY <4>1, <4>3
    <3>4. TodoInv'
      BY <1>1, <1>3, <1>4, <2>4, <3>3 DEF TodoInv
    <3>5. RmInv'
      BY <1>3, <1>4, <2>4 DEF RmInv
    <3> QED BY <3>2, <3>4, <3>5
  <2> QED BY <1>6, <2>5, <2>6, <2>7 DEF PlaceInv
<1> QED BY <1>5, <1>7, <1>8

LEMMA RunEndsInv ==
    ASSUME DispatchInv, RunAgain \/ RunCanceled
    PROVE  DispatchInv'
<1> DEFINE e == CancelFrame(Above(None), {})
<1> USE DEF DispatchInv
<1>1. e.f = "cancel" /\ e.todo = {} /\ IsFrame(e)
  BY DEF CancelFrame, IsFrame
<1>2. /\ bad = {} /\ read' \in {"pending", "posted", "canceled", "none"}
      /\ UNCHANGED <<kernel, queue, events, open, buf, made, alive, canceled, consumers, buff,
                     waiters, count, st, on, since, bad>>
  BY DEF RunAgain, RunCanceled, Top, Idle, mapVars, taskVars, TypeOK
<1>3. TypeOK' /\ ResumedOnce'
  BY <1>2 DEF TypeOK, ResumedOnce
<1>4. NoneGone' /\ bad' = {} => WaitInv'
  BY <1>2 DEF PlaceInv, NoneGone, WaitInv
<1>5. CASE stack' = <<e>>
  BY <1>1, <1>2, <1>3, <1>4, <1>5, AloneInv
<1>6. ASSUME stack # <<>>, stack' = Rest PROVE DispatchInv'
  BY <1>2, <1>3, <1>6, ReturnPlace
<1>7. CASE RunAgain
  <2>1. stack # <<>> /\ Head(stack).f = "run"
    BY <1>7 DEF RunAgain, Top
  <2>2. stack' = <<e>> \o Rest \/ stack' = Rest
    BY <1>7 DEF RunAgain
  <2> HIDE DEF e
  <2>3. <<e>> \o Rest = <<e>>
    BY <2>1, RunAlone, AboveEmpty
  <2> QED BY <1>5, <1>6, <2>1, <2>2, <2>3
<1> QED BY <1>5, <1>7 DEF RunCanceled

\* What Resume does, whichever loop calls it: t is called, or it does not wait
\* and then some coroutine was destroyed while it was suspended.
LEMMA ResumeInv ==
    ASSUME DispatchInv, TypeOK', stack # <<>>, bad = {}, NEW t \in Tasks, NEW e, IsFrame(e),
           e.f = Head(stack).f, e.f # "user", Resume(t, <<e>> \o Rest),
           UNCHANGED <<on, made, alive>>,
           NoneGone => st[t] = "waiting",
           NoneGone =>
              /\ \A w \in Wds : waiters'[w] \subseteq waiters[w] \ {t}
              /\ \A k \in 2..Len(stack) :
                    stack[k].f = "rm" => waiters'[stack[k].wd] = waiters[stack[k].wd]
              /\ \A k \in 2..Len(stack) :
                    stack[k].f \in {"wake", "cancel"} => t \notin stack[k].todo
              /\ e.f \in {"wake", "cancel"} =>
                    e.todo \subseteq Head(stack).todo \ {t}
              /\ e.f = "rm" => /\ e.wd = Head(stack).wd
                               /\ e.next \subseteq waiters'[e.wd]
                               /\ e.todo \subseteq waiters'[e.wd]
                               /\ \A a, b \in e.next : a = b /\ a \notin e.todo
    PROVE  DispatchInv'
<1> USE DEF DispatchInv
<1>1. CASE st[t] = "waiting"
  <2>1. /\ st' = [st EXCEPT ![t] = "running"] /\ bad' = bad
        /\ stack' = <<UserFrame(t)>> \o (<<e>> \o Rest)
    BY <1>1 DEF Resume
  <2>2. StackInv' /\ UserInv' /\ PlaceInv'
    BY <1>1, <2>1, CallPlace
  <2>3. ResumedOnce'
    BY <2>1 DEF ResumedOnce
  <2> QED BY <2>2, <2>3
<1>2. CASE st[t] # "waiting"
  <2>1. bad' = bad \cup {"dangling"} /\ st' = st /\ stack' = stack
    BY <1>2 DEF Resume
  <2>2. StackInv' /\ UserInv'
    BY <2>1 DEF StackInv, IsFrame, UserInv
  <2>3. PlaceInv' /\ ResumedOnce'
    BY <1>2, <2>1 DEF PlaceInv, ResumedOnce, NoneGone
  <2> QED BY <2>2, <2>3
<1> QED BY <1>1, <1>2

LEMMA WakeNextInv ==
    ASSUME DispatchInv, WakeNext
    PROVE  DispatchInv'
<1> DEFINE fr == Head(stack)
<1> USE DEF DispatchInv
<1>1. /\ bad = {} /\ stack # <<>> /\ fr.f = "wake"
      /\ UNCHANGED <<kernel, queue, events, open, read, buf, made, alive, canceled, consumers,
                     buff, waiters, count, on, since>>
  BY DEF WakeNext, Top, kernelVars, mapVars
<1>2. PICK F : stack \in Seq(F)
  BY DEF StackInv
<1>3. fr = stack[1] /\ Len(stack) \in Nat \ {0} /\ DOMAIN stack = 1..Len(stack)
  BY <1>1, <1>2, PopFrame
<1>4. fr.todo \subseteq Tasks /\ Len(stack) = 2 /\ stack[2].f = "run"
  BY <1>1, <1>3 DEF StackInv, IsFrame
<1>5. ASSUME fr.todo = {} PROVE DispatchInv'
  <2>1. stack' = Rest /\ st' = st /\ bad' = bad
    BY <1>5 DEF WakeNext
  <2>2. TypeOK' /\ ResumedOnce'
    BY <1>1, <2>1 DEF TypeOK, ResumedOnce
  <2> QED BY <1>1, <2>1, <2>2, ReturnPlace
<1>6. ASSUME NEW t \in fr.todo, Resume(t, <<WakeFrame(fr.wd, fr.todo \ {t})>> \o Rest)
      PROVE  DispatchInv'
  <2> DEFINE e == WakeFrame(fr.wd, fr.todo \ {t})
  <2>1. e.f = "wake" /\ e.todo = fr.todo \ {t} /\ IsFrame(e)
    BY <1>4 DEF WakeFrame, IsFrame
  <2>2. t \in Tasks
    BY <1>4
  <2>3. TypeOK'
    BY <1>1, <1>6, <2>2 DEF Resume, TypeOK
  <2>4. NoneGone => st[t] = "waiting" /\ \A w \in Wds : t \notin waiters[w]
    BY <1>1, <1>3, <1>6 DEF PlaceInv, TodoInv
  <2>5. \A k \in 2..Len(stack) : stack[k].f = "run"
    BY <1>4
  <2>6. Resume(t, <<e>> \o Rest)
    BY <1>6
  <2> HIDE DEF e
  <2>7. NoneGone => \A w \in Wds : waiters'[w] \subseteq waiters[w] \ {t}
    BY <1>1, <2>4
  <2> QED BY <1>1, <2>1, <2>2, <2>3, <2>4, <2>5, <2>6, <2>7, ResumeInv
<1> QED BY <1>5, <1>6 DEF WakeNext

LEMMA CancelNextInv ==
    ASSUME DispatchInv, CancelNext
    PROVE  DispatchInv'
<1> DEFINE fr == Head(stack)
           e(t) == CancelFrame(fr.it, fr.todo \ {t})
           next == CancelFrame(Above(fr.it), waiters[fr.it])
<1> USE DEF DispatchInv
<1>1. /\ bad = {} /\ stack # <<>> /\ fr.f = "cancel"
      /\ UNCHANGED <<kernel, queue, events, open, read, buf, made, alive, canceled, buff, count,
                     on, since>>
  BY DEF CancelNext, Top, kernelVars
<1>2. Len(stack) = 1 /\ DOMAIN stack = {1} /\ fr = stack[1] /\ Rest = <<>>
  BY <1>1, RunAlone
<1>3. fr.todo \subseteq Tasks
  BY <1>1, <1>2 DEF StackInv, IsFrame
<1>4. ASSUME NEW t \in fr.todo, Resume(t, <<e(t)>> \o Rest), UNCHANGED <<consumers, waiters>>
      PROVE  DispatchInv'
  <2>1. e(t).f = "cancel" /\ e(t).todo = fr.todo \ {t} /\ IsFrame(e(t))
    BY <1>3 DEF CancelFrame, IsFrame
  <2>2. t \in Tasks
    BY <1>3
  <2>3. TypeOK'
    BY <1>1, <1>4, <2>2 DEF Resume, TypeOK
  <2>4. NoneGone => st[t] = "waiting" /\ \A w \in Wds : t \notin waiters[w]
    BY <1>1, <1>2, <1>4 DEF PlaceInv, TodoInv
  <2> HIDE DEF e
  <2>5. NoneGone => \A w \in Wds : waiters'[w] \subseteq waiters[w] \ {t}
    BY <1>4, <2>4
  <2>6. 2..Len(stack) = {}
    BY <1>2
  <2> QED BY <1>1, <1>4, <2>1, <2>2, <2>3, <2>4, <2>5, <2>6, ResumeInv
<1>5. ASSUME stack' = Rest, UNCHANGED <<consumers, waiters, st, bad>>
      PROVE  DispatchInv'
  <2>1. TypeOK' /\ ResumedOnce'
    BY <1>1, <1>5 DEF TypeOK, ResumedOnce
  <2> QED BY <1>1, <1>5, <2>1, ReturnPlace
<1>6. ASSUME bad' = bad \cup {"map iterator"}, UNCHANGED <<consumers, waiters, st, stack>>
      PROVE  DispatchInv'
  <2>1. TypeOK' /\ ResumedOnce'
    BY <1>1, <1>6 DEF TypeOK, ResumedOnce
  <2>2. StackInv' /\ UserInv' /\ PlaceInv'
    BY <1>6 DEF StackInv, IsFrame, UserInv, PlaceInv
  <2> QED BY <2>1, <2>2
<1>7. ASSUME fr.it \in consumers, consumers' = consumers \ {fr.it},
             waiters' = [waiters EXCEPT ![fr.it] = {}], stack' = <<next>> \o Rest,
             UNCHANGED <<st, bad>>
      PROVE  DispatchInv'
  <2>1. fr.it \in Wds /\ waiters[fr.it] \subseteq Tasks
    BY <1>7 DEF TypeOK
  <2>2. TypeOK' /\ ResumedOnce'
    BY <1>1, <1>7, <2>1 DEF TypeOK, ResumedOnce
  <2>3. next.f = "cancel" /\ next.todo = waiters[fr.it] /\ IsFrame(next)
    BY <2>1 DEF CancelFrame, IsFrame
  <2> HIDE DEF next
  <2>4. stack' = <<next>>
    BY <1>2, <1>7, AboveEmpty
  <2>5. ASSUME NoneGone', bad' = {}
        PROVE  WaitInv' /\ \A t \in next.todo : st'[t] = "waiting" /\ \A w \in Wds : t \notin waiters'[w]
    <3>1. WaitInv
      BY <1>7, <2>5 DEF PlaceInv, NoneGone
    <3>2. \A w \in Wds : waiters'[w] = IF w = fr.it THEN {} ELSE waiters[w]
      BY <1>7, <2>1 DEF TypeOK
    <3>3. WaitInv'
      BY <1>1, <1>7, <3>1, <3>2 DEF WaitInv
    <3>4. \A t \in next.todo : st[t] = "waiting" /\ on[t] = fr.it
      BY <2>1, <2>3, <3>1 DEF WaitInv
    <3>5. \A w \in Wds : \A t \in waiters'[w] : on[t] = w /\ w # fr.it
      BY <3>1, <3>2 DEF WaitInv
    <3> QED BY <1>7, <3>3, <3>4, <3>5
  <2>6. StackInv' /\ UserInv' /\ PlaceInv'
    BY <2>3, <2>4, <2>5, AloneInv
  <2> QED BY <2>2, <2>6
<1> QED BY <1>4, <1>5, <1>6, <1>7 DEF CancelNext

LEMMA RmNextInv ==
    ASSUME DispatchInv, RmNext
    PROVE  DispatchInv'
<1> DEFINE fr == Head(stack)
           u == CHOOSE v \in fr.next : TRUE
           e(next) == RmFrame(fr.wd, next, fr.todo \ next)
<1> USE DEF DispatchInv
<1>1. /\ bad = {} /\ stack # <<>> /\ fr.f = "rm"
      /\ UNCHANGED <<kernel, queue, events, open, read, buf, made, alive, canceled, buff, count,
                     on, since>>
  BY DEF RmNext, Top, kernelVars
<1>2. PICK F : stack \in Seq(F)
  BY DEF StackInv
<1>3. fr = stack[1] /\ Len(stack) \in Nat \ {0} /\ DOMAIN stack = 1..Len(stack)
  BY <1>1, <1>2, PopFrame
<1>4. 1 \in DOMAIN stack /\ \A k \in 2..Len(stack) : k \in DOMAIN stack /\ k # 1
  BY <1>3
<1>5. fr \in RmFrames /\ fr.wd \in Wds /\ fr.next \subseteq Tasks /\ fr.todo \subseteq Tasks
  <2>1. fr \in RmFrames
    BY <1>1, <1>3, <1>4 DEF StackInv, IsFrame
  <2> QED BY <2>1 DEF RmFrames
<1>6. ASSUME NoneGone
      PROVE  /\ fr.next \subseteq waiters[fr.wd] /\ fr.todo \subseteq waiters[fr.wd]
             /\ \A t, v \in fr.next : t = v /\ t \notin fr.todo
             /\ \A k \in 2..Len(stack) : stack[k].f = "rm" => stack[k].wd # fr.wd
  <2>1. RmInv
    BY <1>1, <1>6 DEF PlaceInv
  <2> QED BY <1>1, <1>3, <1>4, <2>1 DEF RmInv
<1>7. \A k \in 2..Len(stack) : stack[k].f = "rm" => stack[k].wd \in Wds
  BY <1>4 DEF StackInv, IsFrame, RmFrames
<1>8. ASSUME consumers' = consumers \ {fr.wd}, waiters' = [waiters EXCEPT ![fr.wd] = {}],
             stack' = Rest, UNCHANGED <<st, bad>>
      PROVE  DispatchInv'
  <2>1. TypeOK' /\ ResumedOnce'
    BY <1>1, <1>5, <1>8 DEF TypeOK, ResumedOnce
  <2>2. \A w \in Wds : waiters'[w] = IF w = fr.wd THEN {} ELSE waiters[w]
    BY <1>5, <1>8 DEF TypeOK
  <2>3. CASE NoneGone
    <3>1. \A k \in 2..Len(stack) : stack[k].f = "rm" => waiters'[stack[k].wd] = waiters[stack[k].wd]
      BY <1>6, <1>7, <2>2, <2>3
    <3>2. \A w \in Wds : waiters'[w] \subseteq waiters[w]
      BY <2>2
    <3>3. StackInv' /\ UserInv' /\ PlaceInv'
      BY <1>1, <1>8, <3>1, <3>2, ReturnPlace
    <3> QED BY <2>1, <3>3
  <2>4. CASE ~NoneGone
    <3>1. StackInv' /\ UserInv'
      BY <1>1, <1>8, ReturnInv
    <3>2. PlaceInv'
      BY <1>8, <2>4 DEF PlaceInv, NoneGone
    <3> QED BY <2>1, <3>1, <3>2
  <2> QED BY <2>3, <2>4
<1>9. ASSUME fr.next # {}, waiters' = [waiters EXCEPT ![fr.wd] = @ \ {u}],
             NEW next \in OneOf(fr.todo), Resume(u, <<e(next)>> \o Rest), UNCHANGED consumers
      PROVE  DispatchInv'
  <2>1. u \in fr.next /\ u \in Tasks
    BY <1>5, <1>9
  <2>2. next \subseteq fr.todo /\ \A a, b \in next : a = b
    BY <1>9 DEF OneOf
  <2>3. /\ e(next).f = "rm" /\ e(next).wd = fr.wd /\ e(next).next = next
        /\ e(next).todo = fr.todo \ next /\ e(next) \in RmFrames /\ IsFrame(e(next))
    BY <1>5, <2>2 DEF RmFrame, RmFrames, IsFrame
  <2> HIDE DEF e, u
  <2>4. TypeOK'
    BY <1>1, <1>5, <1>9, <2>1 DEF Resume, TypeOK
  <2>5. \A w \in Wds : waiters'[w] = IF w = fr.wd THEN waiters[w] \ {u} ELSE waiters[w]
    BY <1>5, <1>9 DEF TypeOK
  <2>6. ASSUME NoneGone
        PROVE  /\ st[u] = "waiting"
               /\ \A w \in Wds : waiters'[w] \subseteq waiters[w] \ {u}
               /\ \A k \in 2..Len(stack) :
                     stack[k].f = "rm" => waiters'[stack[k].wd] = waiters[stack[k].wd]
               /\ \A k \in 2..Len(stack) :
                     stack[k].f \in {"wake", "cancel"} => u \notin stack[k].todo
               /\ next \subseteq waiters'[fr.wd] /\ fr.todo \ next \subseteq waiters'[fr.wd]
    <3>1. WaitInv /\ TodoInv
      BY <1>1, <2>6 DEF PlaceInv
    <3>2. u \in waiters[fr.wd] /\ u \notin fr.todo
      BY <1>6, <2>1, <2>6
    <3>3. st[u] = "waiting" /\ on[u] = fr.wd
      BY <1>5, <3>1, <3>2 DEF WaitInv
    <3>4. ASSUME NEW w \in Wds PROVE waiters'[w] \subseteq waiters[w] \ {u}
      <4>1. CASE w = fr.wd
        BY <2>5, <4>1
      <4>2. CASE w # fr.wd
        <5>1. u \notin waiters[w]
          BY <3>1, <3>3, <4>2 DEF WaitInv
        <5> QED BY <2>5, <4>2, <5>1
      <4> QED BY <4>1, <4>2
    <3>5. \A k \in 2..Len(stack) :
             stack[k].f = "rm" => waiters'[stack[k].wd] = waiters[stack[k].wd]
      BY <1>6, <1>7, <2>5, <2>6
    <3>6. \A k \in 2..Len(stack) : stack[k].f \in {"wake", "cancel"} => u \notin stack[k].todo
      BY <1>4, <1>5, <3>1, <3>2 DEF TodoInv
    <3>7. next \subseteq waiters'[fr.wd] /\ fr.todo \ next \subseteq waiters'[fr.wd]
      BY <1>5, <1>6, <2>2, <2>5, <2>6, <3>2
    <3> QED BY <3>3, <3>4, <3>5, <3>6, <3>7
  <2>7. PICK E : E = e(next)
    OBVIOUS
  <2>8. /\ IsFrame(E) /\ E.f = Head(stack).f /\ E.f # "user" /\ Resume(u, <<E>> \o Rest)
        /\ UNCHANGED <<on, made, alive>>
    BY <1>1, <1>9, <2>3, <2>7
  <2>9. ASSUME NoneGone
        PROVE  /\ E.f \in {"wake", "cancel"} => E.todo \subseteq Head(stack).todo \ {u}
               /\ E.f = "rm" => /\ E.wd = Head(stack).wd
                                /\ E.next \subseteq waiters'[E.wd]
                                /\ E.todo \subseteq waiters'[E.wd]
                                /\ \A a, b \in E.next : a = b /\ a \notin E.todo
    BY <2>2, <2>3, <2>6, <2>7, <2>9
  <2> QED BY <1>1, <2>1, <2>4, <2>6, <2>8, <2>9, ResumeInv
<1> QED BY <1>8, <1>9 DEF RmNext
-----------------------------------------------------------------------------
(* The steps of the tasks.                                                 *)

\* Who acts is the task of the top frame, or no call is in progress.
LEMMA ActingTop ==
    ASSUME DispatchInv, NEW t \in Tasks, Acting(t)
    PROVE  /\ bad = {} /\ st[t] \in {"free", "running"}
           /\ stack # <<>> => Head(stack) = stack[1] /\ stack[1].f = "user" /\ stack[1].task = t
<1>1. CASE Top("user") /\ Head(stack).task = t
  <2>1. bad = {} /\ stack # <<>> /\ Head(stack).f = "user" /\ Head(stack).task = t
    BY <1>1 DEF Top
  <2>2. PICK F : stack \in Seq(F)
    BY DEF DispatchInv, StackInv
  <2>3. Head(stack) = stack[1] /\ 1 \in DOMAIN stack
    BY <2>1, <2>2, PopFrame
  <2>4. st[t] = "running"
    BY <2>1, <2>3 DEF DispatchInv, UserInv
  <2> QED BY <2>1, <2>3, <2>4
<1>2. CASE Idle /\ st[t] = "free"
  BY <1>2 DEF Idle
<1> QED BY <1>1, <1>2 DEF Acting

\* What is below the task that acts: every frame but its own.
LEMMA CallersBelow ==
    ASSUME DispatchInv, NEW t \in Tasks, Acting(t)
    PROVE  \E n \in Nat, d \in {0, 1} :
              /\ DOMAIN Callers = 1..n /\ DOMAIN stack = 1..(n + d) /\ Len(stack) = n + d
              /\ \A k \in 1..n : /\ Callers[k] = stack[k + d]
                                 /\ Callers[k].f = "user" => Callers[k].task # t
<1>1. PICK F : stack \in Seq(F)
  BY DEF DispatchInv, StackInv
<1>2. CASE stack = <<>>
  <2>1. Callers = <<>>
    BY <1>2 DEF Callers, Top
  <2>2. DOMAIN Callers = 1..0 /\ DOMAIN stack = 1..(0 + 0) /\ Len(stack) = 0 + 0
    BY <1>2, <2>1
  <2> QED BY <2>2
<1>3. CASE stack # <<>>
  <2>1. /\ bad = {} /\ Head(stack) = stack[1] /\ stack[1].f = "user" /\ stack[1].task = t
    BY <1>3, ActingTop
  <2>2. Callers = Tail(stack)
    BY <1>3, <2>1 DEF Callers, Top, Rest
  <2>3. /\ Len(stack) \in Nat \ {0} /\ DOMAIN stack = 1..Len(stack)
        /\ DOMAIN Tail(stack) = 1..(Len(stack) - 1)
        /\ \A k \in 1..(Len(stack) - 1) : Tail(stack)[k] = stack[k + 1]
    BY <1>1, <1>3, PopFrame
  <2> DEFINE n == Len(stack) - 1
  <2>4. n \in Nat /\ n + 1 = Len(stack) /\ 1 \in DOMAIN stack
    BY <2>3
  <2>5. ASSUME NEW k \in 1..n, stack[k + 1].f = "user" PROVE stack[k + 1].task # t
    <3>1. k + 1 \in DOMAIN stack /\ k + 1 # 1
      BY <2>3
    <3> QED BY <2>1, <2>4, <2>5, <3>1 DEF DispatchInv, UserInv
  <2>6. /\ DOMAIN Callers = 1..n /\ DOMAIN stack = 1..(n + 1) /\ Len(stack) = n + 1
        /\ \A k \in 1..n : /\ Callers[k] = stack[k + 1]
                           /\ Callers[k].f = "user" => Callers[k].task # t
    BY <2>2, <2>3, <2>4, <2>5
  <2> QED BY <2>4, <2>6
<1> QED BY <1>2, <1>3

\* A sequence built over the places of another one.
LEMMA MappedFrames ==
    ASSUME NEW n \in Nat, NEW s, DOMAIN s = 1..n, s = [i \in DOMAIN s |-> s[i]]
    PROVE  s \in Seq({s[i] : i \in 1..n}) /\ Len(s) = n
<1>1. s \in [1..n -> {s[i] : i \in 1..n}]
  OBVIOUS
<1>2. s \in Seq({s[i] : i \in 1..n})
  BY <1>1, SeqDef
<1>3. Len(s) \in Nat /\ DOMAIN s = 1..Len(s)
  BY <1>2, LenProperties
<1>4. Len(s) = n
  BY <1>3
<1> QED BY <1>2, <1>4

LEMMA RmTodo ==
    ASSUME NEW r \in RmFrames, NEW S \in SUBSET Tasks
    PROVE  LET q == [r EXCEPT !.todo = S]
           IN  q \in RmFrames /\ q.f = "rm" /\ q.wd = r.wd /\ q.next = r.next /\ q.todo = S
BY DEF RmFrames

LEMMA LeaveInv ==
    ASSUME DispatchInv, NEW t \in Tasks, Leave(t)
    PROVE  DispatchInv'
<1> USE DEF DispatchInv
<1>1. /\ stack # <<>> /\ st' = [st EXCEPT ![t] = "free"] /\ stack' = Rest /\ Acting(t)
      /\ UNCHANGED <<kernel, queue, events, open, read, buf, made, alive, canceled, consumers,
                     buff, waiters, count, on, since, bad>>
  BY DEF Leave, Top, Acting, kernelVars, mapVars
<1>2. TypeOK'
  BY <1>1 DEF TypeOK
<1>3. st[t] = "running"
  <2>1. stack[1].f = "user" /\ stack[1].task = t
    BY <1>1, ActingTop
  <2>2. 1 \in DOMAIN stack
    BY <1>1, PopFrame DEF StackInv
  <2> QED BY <2>1, <2>2 DEF UserInv
<1>4. \A u \in Tasks : u # t => st'[u] = st[u]
  BY <1>1 DEF TypeOK
<1>5. \A i \in DOMAIN stack' : stack'[i].f = "user" => st'[stack'[i].task] = st[stack'[i].task]
  <2>1. PICK n \in Nat, d \in {0, 1} :
           /\ DOMAIN Callers = 1..n /\ DOMAIN stack = 1..(n + d)
           /\ \A k \in 1..n : /\ Callers[k] = stack[k + d]
                              /\ Callers[k].f = "user" => Callers[k].task # t
    BY <1>1, CallersBelow
  <2>2. stack' = Callers
    BY <1>1 DEF Callers, Leave
  <2>3. ASSUME NEW i \in 1..n, Callers[i].f = "user" PROVE Callers[i].task \in Tasks \ {t}
    <3>1. i + d \in DOMAIN stack
      BY <2>1
    <3> QED BY <2>1, <2>3, <3>1 DEF StackInv, IsFrame
  <2> QED BY <1>4, <2>1, <2>2, <2>3
<1>6. ResumedOnce'
  BY <1>1, <1>3, <1>4 DEF ResumedOnce
<1>7. StackInv' /\ UserInv' /\ PlaceInv'
  <2>1. \A u \in Tasks : st[u] \in {"waiting", "gone"} => st'[u] = st[u]
    BY <1>3, <1>4
  <2> QED BY <1>1, <1>5, <2>1, ReturnPlace
<1> QED BY <1>2, <1>6, <1>7

\* A walk of the watch may meet the new waiter or have passed its place.
LEMMA WaitStepInv ==
    ASSUME DispatchInv, NEW t \in Tasks, NEW w \in Wds, Wait(t, w)
    PROVE  DispatchInv'
<1> USE DEF DispatchInv
<1>1. /\ Acting(t) /\ consumers' = consumers \cup {w}
      /\ buff' = [buff EXCEPT ![w] = IF w \in consumers THEN @ ELSE "null"]
      /\ waiters' = [waiters EXCEPT ![w] = @ \cup {t}]
      /\ st' = [st EXCEPT ![t] = "waiting"] /\ on' = [on EXCEPT ![t] = w]
      /\ since' = [since EXCEPT ![t] = count[w]]
      /\ UNCHANGED <<kernel, queue, events, open, read, buf, made, alive, canceled, count, bad>>
  BY DEF Wait, kernelVars
<1>2. TypeOK'
  BY <1>1 DEF TypeOK
<1>3. bad = {} /\ st[t] \in {"free", "running"}
  BY <1>1, ActingTop
<1>4. ResumedOnce'
  BY <1>1, <1>3 DEF ResumedOnce
<1>5. PICK n \in Nat, d \in {0, 1} :
         /\ DOMAIN Callers = 1..n /\ DOMAIN stack = 1..(n + d) /\ Len(stack) = n + d
         /\ \A k \in 1..n : /\ Callers[k] = stack[k + d]
                            /\ Callers[k].f = "user" => Callers[k].task # t
  BY <1>1, CallersBelow
<1>6. \A k \in 1..n : k + d \in DOMAIN stack
  BY <1>5
<1>7. PICK visited \in SUBSET {i \in DOMAIN Callers :
                               Callers[i].f = "rm" /\ Callers[i].wd = w /\ Callers[i].next # {}} :
         stack' = [i \in DOMAIN Callers |->
                     IF i \in visited THEN [Callers[i] EXCEPT !.todo = @ \cup {t}]
                     ELSE Callers[i]]
  BY DEF Wait
<1>8. ASSUME NEW k \in 1..n
      PROVE  \/ stack'[k] = stack[k + d]
             \/ /\ stack[k + d].f = "rm" /\ stack[k + d].wd = w
                /\ stack'[k] \in RmFrames /\ stack'[k].f = "rm" /\ stack'[k].wd = w
                /\ stack'[k].next = stack[k + d].next
                /\ stack'[k].todo = stack[k + d].todo \cup {t}
  <2>1. CASE k \in visited
    <3> DEFINE r == stack[k + d]
    <3>1. r = Callers[k] /\ r.f = "rm" /\ r.wd = w
      BY <1>5, <1>7, <2>1
    <3>2. r \in RmFrames
      BY <1>6, <3>1 DEF StackInv, IsFrame
    <3>3. r.todo \cup {t} \in SUBSET Tasks
      BY <3>2 DEF RmFrames
    <3>4. stack'[k] = [r EXCEPT !.todo = r.todo \cup {t}]
      BY <1>5, <1>7, <2>1, <3>1
    <3> HIDE DEF r
    <3>5. /\ stack'[k] \in RmFrames /\ stack'[k].f = "rm" /\ stack'[k].wd = r.wd
          /\ stack'[k].next = r.next /\ stack'[k].todo = r.todo \cup {t}
      BY <3>2, <3>3, <3>4, RmTodo
    <3> QED BY <3>1, <3>5 DEF r
  <2>2. CASE k \notin visited
    BY <1>5, <1>7, <2>2
  <2> QED BY <2>1, <2>2
<1>9. DOMAIN stack' = 1..n /\ \E F : stack' \in Seq(F) /\ Len(stack') = n
  <2>1. DOMAIN stack' = 1..n
    BY <1>5, <1>7
  <2>2. stack' = [i \in DOMAIN stack' |-> stack'[i]]
    BY <1>7
  <2> QED BY <2>1, <2>2, MappedFrames
<1>10. \A k \in 1..n : stack'[k].f = stack[k + d].f
  BY <1>8
<1>11. StackInv'
  <2>1. \A i \in DOMAIN stack' : IsFrame(stack'[i])
    <3>1. ASSUME NEW i \in 1..n PROVE IsFrame(stack'[i])
      BY <1>6, <1>8 DEF StackInv, IsFrame
    <3> QED BY <1>9, <3>1 DEF IsFrame
  <2>2. \A i \in DOMAIN stack' : stack'[i].f \in {"run", "cancel"} => i = Len(stack')
    <3>1. ASSUME NEW i \in 1..n, stack'[i].f \in {"run", "cancel"} PROVE i = Len(stack')
      <4>1. i + d = Len(stack)
        BY <1>6, <1>10, <3>1 DEF StackInv
      <4> QED BY <1>5, <1>9, <4>1
    <3> QED BY <1>9, <3>1
  <2>3. ASSUME NEW i \in 1..n, stack'[i].f = "wake"
        PROVE  i + 1 = Len(stack') /\ stack'[Len(stack')].f = "run"
    <3>1. (i + d) + 1 = Len(stack) /\ stack[Len(stack)].f = "run"
      BY <1>6, <1>10, <2>3 DEF StackInv
    <3>2. i + 1 = n /\ n \in 1..n
      BY <1>5, <3>1
    <3> QED BY <1>5, <1>9, <1>10, <3>1, <3>2
  <2> QED BY <1>9, <2>1, <2>2, <2>3 DEF StackInv
<1>12. \A u \in Tasks : u # t => st'[u] = st[u] /\ on'[u] = on[u]
  BY <1>1 DEF TypeOK
<1>13. UserInv'
  <2>1. ASSUME NEW i \in 1..n, stack'[i].f = "user"
        PROVE  stack'[i] = stack[i + d] /\ stack[i + d].f = "user" /\ stack[i + d].task \in Tasks \ {t}
    <3>1. stack'[i] = stack[i + d] /\ stack[i + d].f = "user"
      BY <1>8, <2>1
    <3>2. stack[i + d].task \in Tasks
      BY <1>6, <3>1 DEF StackInv, IsFrame
    <3> QED BY <1>5, <3>1, <3>2
  <2>2. ASSUME NEW i \in 1..n, stack'[i].f = "user" PROVE st'[stack'[i].task] = "running"
    BY <1>6, <1>12, <2>1, <2>2 DEF UserInv
  <2>3. ASSUME NEW i \in 1..n, NEW j \in 1..n, stack'[i].f = "user", stack'[j].f = "user",
               stack'[i].task = stack'[j].task
        PROVE  i = j
    <3>1. i + d = j + d
      BY <1>6, <2>1, <2>3 DEF UserInv
    <3> QED BY <1>5, <3>1
  <2> QED BY <1>9, <2>2, <2>3 DEF UserInv
<1>14. ASSUME NoneGone', bad' = {} PROVE WaitInv' /\ TodoInv' /\ RmInv'
  <2>1. NoneGone
    BY <1>3, <1>12, <1>14 DEF NoneGone
  <2>2. WaitInv /\ TodoInv /\ RmInv
    BY <1>3, <2>1 DEF PlaceInv
  <2>3. \A v \in Wds : waiters'[v] = IF v = w THEN waiters[w] \cup {t} ELSE waiters[v]
    BY <1>1 DEF TypeOK
  <2>4. \A v \in Wds : waiters[v] \subseteq Tasks /\ t \notin waiters[v]
    BY <1>3, <2>2 DEF WaitInv, TypeOK
  <2>5. st'[t] = "waiting" /\ on'[t] = w
    BY <1>1 DEF TypeOK
  <2>6. WaitInv'
    BY <1>12, <2>2, <2>3, <2>4, <2>5 DEF WaitInv
  <2>7. TodoInv'
    <3>1. SUFFICES ASSUME NEW i \in 1..n, stack'[i].f \in {"wake", "cancel"}, NEW u \in stack'[i].todo
                   PROVE  st'[u] = "waiting" /\ \A v \in Wds : u \notin waiters'[v]
      BY <1>9 DEF TodoInv
    <3>2. stack'[i] = stack[i + d]
      BY <1>8, <3>1
    <3>3. st[u] = "waiting" /\ u \in Tasks /\ \A v \in Wds : u \notin waiters[v]
      BY <1>6, <2>2, <3>1, <3>2, SMTT(30) DEF TodoInv, StackInv, IsFrame
    <3> QED BY <1>3, <1>12, <2>3, <3>3
  <2>8. ASSUME NEW i \in 1..n, stack'[i].f = "rm"
        PROVE  /\ stack[i + d].f = "rm" /\ stack[i + d].wd = stack'[i].wd
               /\ stack'[i].wd \in 1..made /\ stack'[i].wd \notin alive
               /\ stack'[i].next \subseteq waiters'[stack'[i].wd]
               /\ stack'[i].todo \subseteq waiters'[stack'[i].wd]
               /\ \A a, b \in stack'[i].next : a = b /\ a \notin stack'[i].todo
    <3> DEFINE fr == stack[i + d]
    <3>1. fr.f = "rm" /\ fr.wd = stack'[i].wd
      BY <1>8, <2>8
    <3>2. /\ fr.wd \in 1..made /\ fr.wd \notin alive
          /\ fr.next \subseteq waiters[fr.wd] /\ fr.todo \subseteq waiters[fr.wd]
          /\ \A a, b \in fr.next : a = b /\ a \notin fr.todo
      BY <1>6, <2>2, <3>1 DEF RmInv
    <3>3. fr.wd \in Wds
      BY <1>6, <3>1 DEF StackInv, IsFrame, RmFrames
    <3>4. waiters[fr.wd] \subseteq waiters'[fr.wd] /\ t \notin fr.next
      <4>1. waiters[fr.wd] \subseteq waiters'[fr.wd] /\ t \notin waiters[fr.wd]
        BY <2>3, <2>4, <3>3
      <4> QED BY <3>2, <4>1
    <3>5. CASE stack'[i] = fr
      BY <3>1, <3>2, <3>4, <3>5
    <3>6. CASE /\ fr.wd = w /\ stack'[i].next = fr.next /\ stack'[i].todo = fr.todo \cup {t}
      <4>1. t \in waiters'[w]
        BY <2>3
      <4> QED BY <3>1, <3>2, <3>4, <3>6, <4>1
    <3> QED BY <1>8, <3>5, <3>6
  <2>9. RmInv'
    <3>1. ASSUME NEW i \in 1..n, NEW j \in 1..n, stack'[i].f = "rm", stack'[j].f = "rm",
                 stack'[i].wd = stack'[j].wd
          PROVE  i = j
      <4>1. /\ stack[i + d].f = "rm" /\ stack[i + d].wd = stack'[i].wd
            /\ stack[j + d].f = "rm" /\ stack[j + d].wd = stack'[j].wd
        BY <2>8, <3>1
      <4>2. i + d = j + d
        BY <1>6, <2>2, <3>1, <4>1 DEF RmInv
      <4> QED BY <1>5, <4>2
    <3> QED BY <1>1, <1>9, <2>8, <3>1 DEF RmInv
  <2> QED BY <2>6, <2>7, <2>9
<1> QED BY <1>2, <1>4, <1>11, <1>13, <1>14 DEF PlaceInv

\* The walk that Unwatch starts is the only one of its watch, for the object of
\* the watch existed until now.
LEMMA UnwatchInv ==
    ASSUME DispatchInv, NEW t \in Tasks, NEW w \in Wds, Unwatch(t, w)
    PROVE  DispatchInv'
<1> USE DEF DispatchInv
<1>1. /\ Acting(t) /\ w \in alive /\ alive' = alive \ {w} /\ bad' = bad
      /\ \/ kernel' = kernel \ {w} /\ queue' = Append(queue, w)
         \/ UNCHANGED <<kernel, queue>>
      /\ buff' = [buff EXCEPT ![w] = "freed"]
      /\ UNCHANGED <<events, open, read, buf, made, canceled, consumers, waiters, count, st, on,
                     since>>
      /\ stack' = stack \/ StartRm(w, stack)
  BY DEF Unwatch, taskVars
<1>2. TypeOK'
  <2>1. queue \in Seq(Wds) /\ alive \subseteq 1..made /\ kernel \subseteq 1..made
    BY DEF TypeOK
  <2>2. queue' \in Seq(Wds)
    BY <1>1, <2>1, AppendProperties
  <2>3. alive' \subseteq 1..made /\ kernel' \subseteq 1..made
    BY <1>1, <2>1
  <2>4. buff' \in [Wds -> {"null", "live", "freed"}]
    BY <1>1 DEF TypeOK
  <2> QED BY <1>1, <2>2, <2>3, <2>4 DEF TypeOK
<1>3. ResumedOnce'
  BY <1>1 DEF ResumedOnce
<1>4. CASE stack' = stack
  <2>1. StackInv' /\ UserInv'
    BY <1>1, <1>4 DEF StackInv, IsFrame, UserInv
  <2>2. ASSUME NoneGone', bad' = {} PROVE WaitInv' /\ TodoInv' /\ RmInv'
    <3>1. WaitInv /\ TodoInv /\ RmInv
      BY <1>1, <2>2 DEF PlaceInv, NoneGone
    <3>2. WaitInv' /\ TodoInv'
      BY <1>1, <1>4, <3>1 DEF WaitInv, TodoInv
    <3>3. RmInv'
      BY <1>1, <1>4, <3>1 DEF RmInv
    <3> QED BY <3>2, <3>3
  <2> QED BY <1>2, <1>3, <2>1, <2>2 DEF PlaceInv
<1>5. CASE StartRm(w, stack)
  <2>1. PICK next \in OneOf(waiters[w]) :
           stack' = <<RmFrame(w, next, waiters[w] \ next)>> \o stack
    BY <1>5 DEF StartRm
  <2>2. next \subseteq waiters[w] /\ waiters[w] \subseteq Tasks /\ \A a, b \in next : a = b
    <3>1. waiters[w] \subseteq Tasks
      BY DEF TypeOK
    <3>2. next \in OneOf(waiters[w])
      BY <2>1
    <3>3. next = {} \/ \E u \in waiters[w] : next = {u}
      BY <3>2 DEF OneOf
    <3> QED BY <3>1, <3>3
  <2>3. PICK e : e = RmFrame(w, next, waiters[w] \ next)
    OBVIOUS
  <2>4. /\ e.f = "rm" /\ e.wd = w /\ e.next = next /\ e.todo = waiters[w] \ next
        /\ e \in RmFrames /\ IsFrame(e)
    BY <2>2, <2>3 DEF RmFrame, RmFrames, IsFrame
  <2>5. PICK F : stack \in Seq(F)
    BY DEF StackInv
  <2>6. /\ stack' \in Seq(F \cup {e}) /\ Len(stack) \in Nat /\ DOMAIN stack = 1..Len(stack)
        /\ Len(stack') = Len(stack) + 1 /\ DOMAIN stack' = 1..(Len(stack) + 1)
        /\ stack'[1] = e /\ \A k \in 1..Len(stack) : stack'[k + 1] = stack[k]
    BY <2>1, <2>3, <2>5, PushFrame
  <2>7. \A i \in DOMAIN stack' : i = 1 \/ (i - 1 \in DOMAIN stack /\ stack'[i] = stack[i - 1])
    <3>1. ASSUME NEW i \in DOMAIN stack', i # 1
          PROVE  i - 1 \in DOMAIN stack /\ stack'[i] = stack[i - 1]
      <4>1. i - 1 \in 1..Len(stack) /\ (i - 1) + 1 = i
        BY <2>6, <3>1
      <4>2. stack'[(i - 1) + 1] = stack[i - 1]
        BY <2>6, <4>1
      <4> QED BY <2>6, <4>1, <4>2
    <3> QED BY <3>1
  <2>8. StackInv'
    <3>1. \A i \in DOMAIN stack' : IsFrame(stack'[i])
      BY <2>4, <2>6, <2>7 DEF StackInv, IsFrame
    <3>2. \A i \in DOMAIN stack' : stack'[i].f \in {"run", "cancel"} => i = Len(stack')
      BY <2>4, <2>6, <2>7 DEF StackInv
    <3>3. ASSUME NEW i \in DOMAIN stack', stack'[i].f = "wake"
          PROVE  i + 1 = Len(stack') /\ stack'[Len(stack')].f = "run"
      <4>1. i - 1 \in DOMAIN stack /\ stack[i - 1].f = "wake"
        BY <2>4, <2>6, <2>7, <3>3
      <4>2. (i - 1) + 1 = Len(stack) /\ stack[Len(stack)].f = "run"
        BY <4>1 DEF StackInv
      <4>3. Len(stack) \in 1..Len(stack)
        BY <2>6, <4>1, <4>2
      <4>4. stack'[Len(stack')] = stack[Len(stack)]
        BY <2>6, <4>3
      <4>5. i = Len(stack)
        BY <2>6, <3>3, <4>2
      <4> QED BY <2>6, <4>2, <4>4, <4>5
    <3> QED BY <2>6, <3>1, <3>2, <3>3 DEF StackInv
  <2>9. UserInv'
    <3>1. ASSUME NEW i \in DOMAIN stack', stack'[i].f = "user" PROVE st'[stack'[i].task] = "running"
      BY <1>1, <2>4, <2>6, <2>7, <3>1 DEF UserInv
    <3>2. ASSUME NEW i \in DOMAIN stack', NEW j \in DOMAIN stack',
                 stack'[i].f = "user", stack'[j].f = "user", stack'[i].task = stack'[j].task
          PROVE  i = j
      <4>1. i - 1 = j - 1
        BY <2>4, <2>6, <2>7, <3>2 DEF UserInv
      <4> QED BY <2>6, <4>1
    <3> QED BY <3>1, <3>2 DEF UserInv
  <2>10. ASSUME NoneGone', bad' = {} PROVE WaitInv' /\ TodoInv' /\ RmInv'
    <3>1. WaitInv /\ TodoInv /\ RmInv
      BY <1>1, <2>10 DEF PlaceInv, NoneGone
    <3>2. WaitInv'
      BY <1>1, <3>1 DEF WaitInv
    <3>3. TodoInv'
      BY <1>1, <2>4, <2>6, <2>7, <3>1 DEF TodoInv
    <3>4. ASSUME NEW i \in DOMAIN stack', stack'[i].f = "rm"
          PROVE  /\ i = 1 \/ (i - 1 \in DOMAIN stack /\ stack[i - 1] = stack'[i] /\ stack'[i].wd # w)
                 /\ stack'[i].wd \in 1..made' /\ stack'[i].wd \notin alive'
                 /\ stack'[i].next \subseteq waiters'[stack'[i].wd]
                 /\ stack'[i].todo \subseteq waiters'[stack'[i].wd]
                 /\ \A a, b \in stack'[i].next : a = b /\ a \notin stack'[i].todo
      <4>1. CASE i = 1
        <5>1. w \in 1..made' /\ w \notin alive'
          BY <1>1 DEF TypeOK
        <5> QED BY <1>1, <2>2, <2>4, <2>6, <4>1, <5>1
      <4>2. CASE i # 1
        <5>1. i - 1 \in DOMAIN stack /\ stack'[i] = stack[i - 1]
          BY <2>7, <4>2
        <5> QED BY <1>1, <3>1, <3>4, <5>1 DEF RmInv
      <4> QED BY <4>1, <4>2
    <3>5. ASSUME NEW i \in DOMAIN stack', NEW j \in DOMAIN stack',
                 stack'[i].f = "rm", stack'[j].f = "rm", stack'[i].wd = stack'[j].wd
          PROVE  i = j
      <4>1. CASE i = 1 \/ j = 1
        BY <2>4, <2>6, <3>4, <3>5, <4>1
      <4>2. CASE i # 1 /\ j # 1
        <5>1. i - 1 = j - 1
          BY <3>1, <3>4, <3>5, <4>2 DEF RmInv
        <5> QED BY <2>6, <5>1
      <4> QED BY <4>1, <4>2
    <3>6. RmInv'
      BY <3>4, <3>5 DEF RmInv
    <3> QED BY <3>2, <3>3, <3>6
  <2> QED BY <1>2, <1>3, <2>8, <2>9, <2>10 DEF PlaceInv
<1> QED BY <1>1, <1>4, <1>5

\* Taking u out of the walks of a watch changes nothing else of the frames.
LEMMA WithoutFrames ==
    ASSUME TypeOK, StackInv, NEW w, NEW u
    PROVE  LET r == WithoutWaiter(w, u)
           IN  /\ DOMAIN r = 1..Len(stack) /\ DOMAIN stack = 1..Len(stack)
               /\ Len(stack) \in Nat /\ Len(r) = Len(stack) /\ \E F : r \in Seq(F)
               /\ \A i \in 1..Len(stack) :
                     \/ r[i] = stack[i] /\ (stack[i].f = "rm" => stack[i].wd # w)
                     \/ /\ stack[i].f = "rm" /\ stack[i].wd = w
                        /\ r[i] \in RmFrames /\ r[i].f = "rm" /\ r[i].wd = w
                        /\ r[i].next = stack[i].next /\ r[i].todo = stack[i].todo \ {u}
<1> DEFINE r == WithoutWaiter(w, u)
<1>1. PICK F : stack \in Seq(F)
  BY DEF StackInv
<1>2. Len(stack) \in Nat /\ DOMAIN stack = 1..Len(stack)
  BY <1>1, LenProperties
<1>3. r = [i \in 1..Len(stack) |->
              IF stack[i].f = "rm" /\ stack[i].wd = w
              THEN [stack[i] EXCEPT !.todo = @ \ {u}] ELSE stack[i]]
  BY <1>2 DEF WithoutWaiter
<1> HIDE DEF r
<1>4. DOMAIN r = 1..Len(stack) /\ r = [i \in DOMAIN r |-> r[i]]
  BY <1>3
<1>5. Len(r) = Len(stack) /\ \E G : r \in Seq(G)
  BY <1>2, <1>4, MappedFrames
<1>6. ASSUME NEW i \in 1..Len(stack)
      PROVE  \/ r[i] = stack[i] /\ (stack[i].f = "rm" => stack[i].wd # w)
             \/ /\ stack[i].f = "rm" /\ stack[i].wd = w
                /\ r[i] \in RmFrames /\ r[i].f = "rm" /\ r[i].wd = w
                /\ r[i].next = stack[i].next /\ r[i].todo = stack[i].todo \ {u}
  <2>1. CASE stack[i].f = "rm" /\ stack[i].wd = w
    <3>1. stack[i] \in RmFrames
      BY <1>2, <2>1 DEF StackInv, IsFrame
    <3>2. stack[i].todo \ {u} \in SUBSET Tasks
      BY <3>1 DEF RmFrames
    <3>3. r[i] = [stack[i] EXCEPT !.todo = stack[i].todo \ {u}]
      BY <1>3, <2>1
    <3>4. PICK q, T : q = stack[i] /\ T = stack[i].todo \ {u}
      OBVIOUS
    <3>5. q \in RmFrames /\ T \in SUBSET Tasks /\ r[i] = [q EXCEPT !.todo = T]
      BY <3>1, <3>2, <3>3, <3>4
    <3>6. /\ r[i] \in RmFrames /\ r[i].f = "rm" /\ r[i].wd = q.wd
          /\ r[i].next = q.next /\ r[i].todo = T
      BY <3>5 DEF RmFrames
    <3> QED BY <2>1, <3>4, <3>6
  <2>2. CASE ~(stack[i].f = "rm" /\ stack[i].wd = w)
    BY <1>3, <2>2
  <2> QED BY <2>1, <2>2
<1> QED BY <1>2, <1>4, <1>5, <1>6 DEF r

\* The frames without u stand on d frames of u itself: none, or the call of u.
LEMMA WithoutInv ==
    ASSUME DispatchInv, NEW u \in Tasks, st[u] = "waiting", NEW S, st' = [st EXCEPT ![u] = S],
           \/ stack' = WithoutWaiter(on[u], u)
           \/ S = "running" /\ stack' = <<UserFrame(u)>> \o WithoutWaiter(on[u], u)
    PROVE  /\ StackInv' /\ UserInv'
           /\ \E d \in {0, 1} :
                /\ DOMAIN stack' = 1..(Len(stack) + d) /\ DOMAIN stack = 1..Len(stack)
                /\ Len(stack) \in Nat /\ (d = 1 => stack'[1].f = "user")
                /\ \A i \in 1..Len(stack) :
                      \/ /\ stack'[i + d] = stack[i]
                         /\ stack[i].f = "rm" => stack[i].wd # on[u]
                      \/ /\ stack[i].f = "rm" /\ stack[i].wd = on[u]
                         /\ stack'[i + d].f = "rm" /\ stack'[i + d].wd = on[u]
                         /\ stack'[i + d].next = stack[i].next
                         /\ stack'[i + d].todo = stack[i].todo \ {u}
<1> USE DEF DispatchInv
<1> DEFINE r == WithoutWaiter(on[u], u)
           n == Len(stack)
<1>1. /\ DOMAIN r = 1..n /\ DOMAIN stack = 1..n /\ n \in Nat /\ Len(r) = n
      /\ \E F : r \in Seq(F)
      /\ \A i \in 1..n :
            \/ r[i] = stack[i] /\ (stack[i].f = "rm" => stack[i].wd # on[u])
            \/ /\ stack[i].f = "rm" /\ stack[i].wd = on[u]
               /\ r[i] \in RmFrames /\ r[i].f = "rm" /\ r[i].wd = on[u]
               /\ r[i].next = stack[i].next /\ r[i].todo = stack[i].todo \ {u}
  BY WithoutFrames
<1> HIDE DEF r
<1>2. PICK d \in {0, 1} :
         /\ \E F : stack' \in Seq(F)
         /\ DOMAIN stack' = 1..(n + d) /\ Len(stack') = n + d
         /\ d = 1 => stack'[1] = UserFrame(u) /\ S = "running"
         /\ \A i \in 1..n : stack'[i + d] = r[i]
  <2>1. CASE stack' = WithoutWaiter(on[u], u)
    <3>1. /\ stack' = r /\ n + 0 = n /\ \A i \in 1..n : i + 0 = i
      BY <1>1, <2>1 DEF r
    <3>2. /\ \E F : stack' \in Seq(F)
          /\ DOMAIN stack' = 1..(n + 0) /\ Len(stack') = n + 0
          /\ \A i \in 1..n : stack'[i + 0] = r[i]
      BY <1>1, <3>1
    <3> HIDE DEF n
    <3> QED BY <3>2
  <2>2. CASE S = "running" /\ stack' = <<UserFrame(u)>> \o WithoutWaiter(on[u], u)
    <3>1. stack' = <<UserFrame(u)>> \o r
      BY <2>2 DEF r
    <3>2. PICK F : r \in Seq(F)
      BY <1>1
    <3>3. /\ stack' \in Seq(F \cup {UserFrame(u)}) /\ Len(stack') = n + 1
          /\ DOMAIN stack' = 1..(n + 1) /\ stack'[1] = UserFrame(u)
          /\ \A k \in 1..n : stack'[k + 1] = r[k]
      BY <1>1, <3>1, <3>2, PushFrame
    <3> QED BY <2>2, <3>3
  <2> QED BY <2>1, <2>2
<1>3. UserFrame(u).f = "user" /\ UserFrame(u).task = u
  BY DEF UserFrame
<1>4. \A j \in DOMAIN stack' : \/ d = 1 /\ j = 1 /\ stack'[j] = UserFrame(u)
                               \/ j - d \in 1..n /\ stack'[j] = r[j - d]
  <2>1. ASSUME NEW j \in DOMAIN stack', ~(d = 1 /\ j = 1)
        PROVE  j - d \in 1..n /\ stack'[j] = r[j - d]
    <3>1. j - d \in 1..n /\ (j - d) + d = j
      BY <1>1, <1>2, <2>1
    <3>2. stack'[(j - d) + d] = r[j - d]
      BY <1>2, <3>1
    <3> QED BY <3>1, <3>2
  <2> QED BY <1>2, <2>1
<1>5. \A i \in 1..n : /\ r[i].f = stack[i].f
                      /\ r[i].f # "rm" => r[i] = stack[i]
                      /\ IsFrame(r[i])
  <2>1. ASSUME NEW i \in 1..n PROVE IsFrame(r[i])
    BY <1>1 DEF StackInv, IsFrame
  <2> QED BY <1>1, <2>1
<1>6. StackInv'
  <2>1. ASSUME NEW j \in DOMAIN stack' PROVE IsFrame(stack'[j])
    BY <1>3, <1>4, <1>5 DEF IsFrame
  <2>2. ASSUME NEW j \in DOMAIN stack', stack'[j].f \in {"run", "cancel"} PROVE j = Len(stack')
    <3>1. j - d \in 1..n /\ stack[j - d].f \in {"run", "cancel"}
      BY <1>3, <1>4, <1>5, <2>2
    <3>2. j - d = n
      BY <1>1, <3>1 DEF StackInv
    <3> QED BY <1>1, <1>2, <3>2
  <2>3. ASSUME NEW j \in DOMAIN stack', stack'[j].f = "wake"
        PROVE  j + 1 = Len(stack') /\ stack'[Len(stack')].f = "run"
    <3>1. j - d \in 1..n /\ stack[j - d].f = "wake"
      BY <1>3, <1>4, <1>5, <2>3
    <3>2. (j - d) + 1 = n /\ stack[n].f = "run"
      BY <1>1, <3>1 DEF StackInv
    <3>3. n \in 1..n
      BY <1>1, <3>1
    <3>4. stack'[n + d].f = "run"
      BY <1>2, <1>5, <3>2, <3>3
    <3> QED BY <1>1, <1>2, <3>2, <3>4
  <2>4. \A j \in DOMAIN stack' : IsFrame(stack'[j])
    BY <2>1 DEF IsFrame
  <2> QED BY <1>2, <2>2, <2>3, <2>4 DEF StackInv
<1>7. UserInv'
  <2>1. ASSUME NEW i \in 1..n, r[i].f = "user"
        PROVE  /\ r[i] = stack[i] /\ stack[i].f = "user" /\ r[i].task # u
               /\ st'[r[i].task] = "running"
    <3>1. r[i] = stack[i] /\ stack[i].f = "user"
      BY <1>5, <2>1
    <3>2. stack[i].task \in Tasks /\ st[stack[i].task] = "running"
      BY <1>1, <3>1 DEF StackInv, IsFrame, UserInv
    <3> QED BY <3>1, <3>2 DEF TypeOK
  <2>2. S = "running" => st'[u] = "running"
    BY DEF TypeOK
  <2>3. ASSUME NEW j \in DOMAIN stack', stack'[j].f = "user" PROVE st'[stack'[j].task] = "running"
    BY <1>2, <1>3, <1>4, <2>1, <2>2, <2>3
  <2>4. ASSUME NEW i \in DOMAIN stack', NEW j \in DOMAIN stack',
               stack'[i].f = "user", stack'[j].f = "user", stack'[i].task = stack'[j].task
        PROVE  i = j
    <3>1. CASE (d = 1 /\ i = 1) \/ (d = 1 /\ j = 1)
      BY <1>3, <1>4, <2>1, <2>4, <3>1
    <3>2. CASE ~(d = 1 /\ i = 1) /\ ~(d = 1 /\ j = 1)
      <4>1. /\ i - d \in 1..n /\ stack'[i] = r[i - d] /\ j - d \in 1..n /\ stack'[j] = r[j - d]
        BY <1>4, <3>2
      <4>2. /\ stack[i - d].f = "user" /\ stack[j - d].f = "user"
            /\ stack[i - d].task = stack[j - d].task
        BY <2>1, <2>4, <4>1
      <4>3. i - d = j - d
        BY <1>1, <4>1, <4>2 DEF UserInv
      <4> QED BY <1>1, <1>2, <4>3
    <3> QED BY <3>1, <3>2
  <2> QED BY <2>3, <2>4 DEF UserInv
<1>8. \A i \in 1..n :
        \/ stack'[i + d] = stack[i] /\ (stack[i].f = "rm" => stack[i].wd # on[u])
        \/ /\ stack[i].f = "rm" /\ stack[i].wd = on[u]
           /\ stack'[i + d].f = "rm" /\ stack'[i + d].wd = on[u]
           /\ stack'[i + d].next = stack[i].next
           /\ stack'[i + d].todo = stack[i].todo \ {u}
  BY <1>1, <1>2
<1> QED BY <1>1, <1>2, <1>3, <1>6, <1>7, <1>8

\* u is taken from the map, where alone it is, and runs or is gone for good.
LEMMA TakenInv ==
    ASSUME DispatchInv, NEW u \in Tasks, NEW S \in {"running", "free"},
           st[u] = "waiting", st' = [st EXCEPT ![u] = S], InMap(u), EraseWaiter(on[u], u),
           \/ stack' = WithoutWaiter(on[u], u)
           \/ S = "running" /\ stack' = <<UserFrame(u)>> \o WithoutWaiter(on[u], u),
           UNCHANGED <<kernelVars, made, alive, canceled, consumers, buff, count, on, since>>
    PROVE  DispatchInv'
<1> USE DEF DispatchInv
<1> DEFINE hit == \E i \in DOMAIN stack :
                     stack[i].f = "rm" /\ stack[i].wd = on[u] /\ stack[i].next = {u}
<1>1. /\ st[u] = "waiting" /\ st' = [st EXCEPT ![u] = S]
      /\ on[u] \in consumers /\ u \in waiters[on[u]]
      /\ waiters' = [waiters EXCEPT ![on[u]] = @ \ {u}]
      /\ bad' = IF hit THEN bad \cup {"rm iterator"} ELSE bad
      /\ UNCHANGED <<kernel, queue, events, open, read, buf, made, alive, canceled, consumers, buff,
                     count, on, since>>
  BY DEF InMap, EraseWaiter, kernelVars
<1>2. on[u] \in Wds
  BY <1>1 DEF TypeOK
<1>3. TypeOK'
  BY <1>1 DEF TypeOK
<1>4. /\ StackInv' /\ UserInv'
      /\ \E d \in {0, 1} :
            /\ DOMAIN stack' = 1..(Len(stack) + d) /\ DOMAIN stack = 1..Len(stack)
            /\ Len(stack) \in Nat /\ (d = 1 => stack'[1].f = "user")
            /\ \A i \in 1..Len(stack) :
                  \/ /\ stack'[i + d] = stack[i]
                     /\ stack[i].f = "rm" => stack[i].wd # on[u]
                  \/ /\ stack[i].f = "rm" /\ stack[i].wd = on[u]
                     /\ stack'[i + d].f = "rm" /\ stack'[i + d].wd = on[u]
                     /\ stack'[i + d].next = stack[i].next
                     /\ stack'[i + d].todo = stack[i].todo \ {u}
  BY <1>1, WithoutInv
<1>5. PICK d \in {0, 1} :
         /\ DOMAIN stack' = 1..(Len(stack) + d) /\ DOMAIN stack = 1..Len(stack)
         /\ Len(stack) \in Nat /\ (d = 1 => stack'[1].f = "user")
         /\ \A i \in 1..Len(stack) :
               \/ /\ stack'[i + d] = stack[i]
                  /\ stack[i].f = "rm" => stack[i].wd # on[u]
               \/ /\ stack[i].f = "rm" /\ stack[i].wd = on[u]
                  /\ stack'[i + d].f = "rm" /\ stack'[i + d].wd = on[u]
                  /\ stack'[i + d].next = stack[i].next
                  /\ stack'[i + d].todo = stack[i].todo \ {u}
  BY <1>4
<1>6. ResumedOnce'
  BY <1>1 DEF ResumedOnce, TypeOK
<1>7. ASSUME NoneGone', bad' = {} PROVE WaitInv' /\ TodoInv' /\ RmInv'
  <2>1. NoneGone /\ bad = {} /\ ~hit
    BY <1>1, <1>7 DEF NoneGone, TypeOK
  <2>2. WaitInv /\ TodoInv /\ RmInv
    BY <2>1 DEF PlaceInv
  <2>3. \A v \in Wds : waiters'[v] = IF v = on[u] THEN waiters[v] \ {u} ELSE waiters[v]
    BY <1>1, <1>2 DEF TypeOK
  <2>4. \A v \in Wds : waiters'[v] \subseteq waiters[v] \ {u} /\ waiters[v] \subseteq Tasks
    <3>1. SUFFICES ASSUME NEW v \in Wds
                   PROVE  waiters'[v] \subseteq waiters[v] \ {u} /\ waiters[v] \subseteq Tasks
      OBVIOUS
    <3>2. v # on[u] => u \notin waiters[v]
      BY <2>2 DEF WaitInv
    <3>3. waiters[v] \subseteq Tasks
      BY DEF TypeOK
    <3> QED BY <2>3, <3>2, <3>3
  <2>5. \A v \in Tasks : v # u => st'[v] = st[v]
    BY <1>1 DEF TypeOK
  <2>6. WaitInv'
    <3>1. SUFFICES ASSUME NEW w \in Wds, NEW v \in waiters'[w]
                   PROVE  st'[v] = "waiting" /\ on'[v] = w
      BY DEF WaitInv
    <3>2. v \in waiters[w] /\ v # u /\ v \in Tasks
      BY <2>4
    <3>3. st[v] = "waiting" /\ on[v] = w /\ st'[v] = st[v]
      BY <2>2, <2>5, <3>2 DEF WaitInv
    <3> QED BY <1>1, <3>3
  <2>7. \A j \in DOMAIN stack' : stack'[j].f # "user" =>
           /\ j - d \in DOMAIN stack
           /\ \/ /\ stack'[j] = stack[j - d]
                 /\ stack[j - d].f = "rm" => stack[j - d].wd # on[u]
              \/ /\ stack[j - d].f = "rm" /\ stack[j - d].wd = on[u]
                 /\ stack'[j].f = "rm" /\ stack'[j].wd = on[u]
                 /\ stack'[j].next = stack[j - d].next
                 /\ stack'[j].todo = stack[j - d].todo \ {u}
    <3>1. SUFFICES ASSUME NEW j \in DOMAIN stack', stack'[j].f # "user"
                   PROVE  /\ j - d \in DOMAIN stack
                          /\ \/ /\ stack'[j] = stack[j - d]
                                /\ stack[j - d].f = "rm" => stack[j - d].wd # on[u]
                             \/ /\ stack[j - d].f = "rm" /\ stack[j - d].wd = on[u]
                                /\ stack'[j].f = "rm" /\ stack'[j].wd = on[u]
                                /\ stack'[j].next = stack[j - d].next
                                /\ stack'[j].todo = stack[j - d].todo \ {u}
      OBVIOUS
    <3>2. PICK i : i = j - d
      OBVIOUS
    <3>3. i \in 1..Len(stack) /\ i + d = j
      <4>1. d = 1 => j # 1
        BY <1>5, <3>1
      <4>2. j \in 1..(Len(stack) + d) /\ Len(stack) \in Nat
        BY <1>5, <3>1
      <4> QED BY <3>2, <4>1, <4>2
    <3> QED BY <1>5, <3>2, <3>3
  <2>8. TodoInv'
    <3>1. SUFFICES ASSUME NEW j \in DOMAIN stack', stack'[j].f \in {"wake", "cancel"},
                          NEW v \in stack'[j].todo
                   PROVE  st'[v] = "waiting" /\ \A w \in Wds : v \notin waiters'[w]
      BY DEF TodoInv
    <3>2. j - d \in DOMAIN stack /\ stack'[j] = stack[j - d]
      BY <2>7, <3>1
    <3>3. st[v] = "waiting" /\ v \in Tasks /\ \A w \in Wds : v \notin waiters[w]
      BY <2>2, <3>1, <3>2 DEF TodoInv, StackInv, IsFrame
    <3>4. v # u
      BY <1>1, <1>2, <3>3
    <3>5. st'[v] = "waiting"
      BY <2>5, <3>3, <3>4
    <3>6. \A w \in Wds : v \notin waiters'[w]
      BY <2>4, <3>3
    <3> QED BY <3>5, <3>6
  <2>9. ASSUME NEW j \in DOMAIN stack', stack'[j].f = "rm"
        PROVE  /\ j - d \in DOMAIN stack /\ stack[j - d].f = "rm" /\ stack[j - d].wd = stack'[j].wd
               /\ stack'[j].wd \in 1..made /\ stack'[j].wd \notin alive
               /\ stack'[j].next \subseteq waiters'[stack'[j].wd]
               /\ stack'[j].todo \subseteq waiters'[stack'[j].wd]
               /\ \A a, b \in stack'[j].next : a = b /\ a \notin stack'[j].todo
    <3>1. PICK i : i = j - d
      OBVIOUS
    <3>2. i \in DOMAIN stack /\ stack[i].f = "rm" /\ stack[i].wd = stack'[j].wd
      BY <2>7, <2>9, <3>1
    <3>3. PICK fr : fr = stack[i]
      OBVIOUS
    <3>4. /\ fr.wd \in 1..made /\ fr.wd \notin alive
          /\ fr.next \subseteq waiters[fr.wd] /\ fr.todo \subseteq waiters[fr.wd]
          /\ \A a, b \in fr.next : a = b /\ a \notin fr.todo
      BY <2>2, <3>2, <3>3 DEF RmInv
    <3>5. fr.wd \in Wds
      BY <3>2, <3>3 DEF StackInv, IsFrame, RmFrames
    <3>6. CASE stack'[j] = fr /\ fr.wd # on[u]
      <4>1. waiters'[fr.wd] = waiters[fr.wd]
        BY <2>3, <3>5, <3>6
      <4> QED BY <3>1, <3>2, <3>3, <3>4, <3>6, <4>1
    <3>7. CASE /\ fr.wd = on[u] /\ stack'[j].wd = on[u] /\ stack'[j].next = fr.next
               /\ stack'[j].todo = fr.todo \ {u}
      <4>1. fr.next # {u}
        BY <2>1, <3>2, <3>3, <3>7
      <4>2. u \notin fr.next
        BY <3>4, <4>1
      <4>3. waiters'[fr.wd] = waiters[fr.wd] \ {u}
        BY <2>3, <3>5, <3>7
      <4> QED BY <3>1, <3>2, <3>3, <3>4, <3>7, <4>2, <4>3
    <3> QED BY <2>7, <2>9, <3>1, <3>2, <3>3, <3>6, <3>7
  <2>10. ASSUME NEW i \in DOMAIN stack', NEW j \in DOMAIN stack', stack'[i].f = "rm",
                stack'[j].f = "rm", stack'[i].wd = stack'[j].wd
         PROVE  i = j
    <3>1. /\ i - d \in DOMAIN stack /\ stack[i - d].f = "rm" /\ stack[i - d].wd = stack'[i].wd
          /\ j - d \in DOMAIN stack /\ stack[j - d].f = "rm" /\ stack[j - d].wd = stack'[j].wd
      BY <2>9, <2>10
    <3>2. i - d = j - d
      BY <2>2, <2>10, <3>1 DEF RmInv
    <3> QED BY <1>5, <3>2
  <2>11. RmInv'
    BY <1>1, <2>9, <2>10 DEF RmInv
  <2> QED BY <2>6, <2>8, <2>11
<1> QED BY <1>3, <1>4, <1>6, <1>7 DEF PlaceInv

LEMMA DestroyInv ==
    ASSUME DispatchInv, NEW t \in Tasks, NEW u \in Tasks, Destroy(t, u)
    PROVE  DispatchInv'
<1>1. CASE InMap(u)
  BY <1>1, TakenInv DEF Destroy
<1>2. CASE ~InMap(u)
  <2> USE DEF DispatchInv
  <2>1. /\ st[u] = "waiting" /\ st' = [st EXCEPT ![u] = "gone"]
        /\ waiters' = [waiters EXCEPT ![on[u]] = @ \ {u}]
        /\ bad' \in {bad, bad \cup {"rm iterator"}}
        /\ stack' = WithoutWaiter(on[u], u)
        /\ UNCHANGED <<kernel, queue, events, open, read, buf, made, alive, canceled, consumers, buff,
                       count, on, since>>
    BY <1>2 DEF Destroy, EraseWaiter, kernelVars
  <2>2. TypeOK'
    BY <2>1 DEF TypeOK
  <2>3. StackInv' /\ UserInv'
    BY <2>1, WithoutInv
  <2>4. st'[u] = "gone"
    BY <2>1 DEF TypeOK
  <2> QED BY <2>2, <2>3, <2>4 DEF PlaceInv, NoneGone, ResumedOnce
<1> QED BY <1>1, <1>2

LEMMA CancelInv ==
    ASSUME DispatchInv, NEW t \in Tasks, NEW u \in Tasks, Cancel(t, u)
    PROVE  DispatchInv'
BY TakenInv DEF Cancel
-----------------------------------------------------------------------------
(* The theorem.                                                            *)

LEMMA DispatchInit ==
    ASSUME InotifyAssumption, Init
    PROVE  DispatchInv
<1>1. stack = <<>> /\ <<>> \in Seq({}) /\ DOMAIN stack = {} /\ bad = {}
  BY DEF Init
<1>2. TypeOK
  <2>1. queue \in Seq(Wds) /\ buf \in Seq(Wds)
    BY DEF Init
  <2>2. made \in 0..MaxWds /\ events \in 0..MaxEvents
    BY DEF Init, InotifyAssumption
  <2> QED BY <2>1, <2>2 DEF Init, TypeOK, None
<1>3. StackInv /\ UserInv /\ ResumedOnce
  BY <1>1 DEF StackInv, UserInv, ResumedOnce
<1>4. WaitInv /\ TodoInv /\ RmInv
  BY <1>1 DEF Init, WaitInv, TodoInv, RmInv
<1> QED BY <1>2, <1>3, <1>4 DEF DispatchInv, PlaceInv

LEMMA DispatchNext ==
    ASSUME InotifyAssumption, DispatchInv, [Next]_vars
    PROVE  DispatchInv'
<1>1. CASE Dispatch
  BY <1>1, RunEventsInv, PushEventInv, RunNextInv, RunEndsInv, WakeNextInv, CancelNextInv, RmNextInv DEF Dispatch
<1>2. CASE Kernel \/ Stop \/ Close
  BY <1>2, KernelStopInv
<1>3. ASSUME NEW t \in Tasks, TaskStep(t) PROVE DispatchInv'
  BY <1>3, WatchInv, LeaveInv, WaitStepInv, UnwatchInv, CancelInv, DestroyInv DEF TaskStep
<1>4. CASE UNCHANGED vars
  <2>1. /\ UNCHANGED <<kernel, queue, events, open, read, buf, made, alive, canceled, consumers>>
        /\ UNCHANGED <<buff, waiters, count, st, on, since, stack, bad>>
    BY <1>4 DEF vars, kernelVars, mapVars, taskVars
  <2>2. TypeOK'
    BY <2>1 DEF DispatchInv, TypeOK
  <2> QED BY <2>1, <2>2, QuietInv
<1> QED BY <1>1, <1>2, <1>3, <1>4 DEF Next, Ended

\* The map of the consumers, the walks of rm_watch, the waiters in the hands of
\* run() and of cancel_consumers and the calls in progress agree, with and
\* without the discipline, however deep the tasks call one another.
THEOREM DispatchCorrect ==
    ASSUME InotifyAssumption
    PROVE  Spec => []DispatchInv
<1>1. Init => DispatchInv
  BY DispatchInit
<1>2. DispatchInv /\ [Next]_vars => DispatchInv'
  BY DispatchNext
<1> QED BY <1>1, <1>2, PTL DEF Spec

\* inotify_ctx resumes an awaitable once for each wait: it resumes one that does
\* not wait only if a suspended coroutine was destroyed before.
THEOREM DispatchResumesOnce ==
    ASSUME InotifyAssumption
    PROVE  Spec => []ResumedOnce
<1>1. DispatchInv => ResumedOnce
  BY DEF DispatchInv
<1> QED BY <1>1, DispatchCorrect, PTL

-----------------------------------------------------------------------------
(* Tasks that keep to the discipline: the inductive invariant, on the set  *)
(* of the calls in progress.                                               *)

FramesOf(s) == {s[i] : i \in DOMAIN s}
Frames      == FramesOf(stack)
RmOf(w)     == \E e \in Frames : e.f = "rm" /\ e.wd = w

\* The events and the watches of a round.
Rounds   == {e \in Frames : e.f = "run"}
RoundInv == \A e \in Rounds : e.left \in Seq(Wds) /\ e.list \in Seq(Wds)

\* The phases of the dispatcher: before stop() the read is pending, posted or
\* being handled; after it no read is submitted any more; the descriptor is
\* closed when no read can return events.
PhaseInv ==
    /\ read = "pending" => ~canceled
    /\ read = "canceled" => canceled
    /\ Below("run") => read = "none" /\ open
    /\ Below("cancel") => Over
    /\ ~open => canceled /\ read \in {"canceled", "none"} /\ \A w \in Wds : ~RmOf(w)

\* Until the waiters are woken for the last time the map has an entry with a
\* live buffer for each watch, and besides only those that are being removed or
\* that no event is to come for.
EntryInv ==
    open => /\ kernel \subseteq alive
            /\ ~Over => /\ alive \subseteq consumers
                        /\ \A w \in consumers : IF w \in alive THEN buff[w] = "live"
                                                ELSE RmOf(w) \/ ~Coming(w)

\* cancel_consumers removes alone, and its iterator is in the map.
SweepInv ==
    /\ Below("cancel") => \A w \in Wds : ~RmOf(w)
    /\ \A e \in Frames : e.f = "cancel" => e.it \in consumers \cup {None}

\* rm_watch meets every waiter of its watch.
WalkInv ==
    \A e \in Frames : e.f = "rm" =>
        /\ waiters[e.wd] = e.next \cup e.todo
        /\ e.next = {} => e.todo = {}

InHand(t) == \E e \in Frames : e.f \in {"wake", "cancel"} /\ t \in e.todo
KeptInv   == \A t \in Tasks : st[t] = "waiting" => InMap(t) \/ InHand(t)

SafeInv == /\ NoneGone /\ bad = {}
           /\ PhaseInv /\ EntryInv /\ SweepInv /\ WalkInv /\ KeptInv
-----------------------------------------------------------------------------
(* The set of the frames.                                                  *)

LEMMA BelowFrames ==
    /\ \A f : Below(f) <=> \E e \in Frames : e.f = f
    /\ \A f : Below(f)' <=> \E e \in Frames' : e.f = f
BY DEF Below, Frames, FramesOf

LEMMA ComingFrames ==
    /\ \A w : Coming(w) <=> \/ Among(w, queue) \/ Among(w, buf)
                           \/ \E e \in Frames : e.f = "run" /\ Among(w, e.left)
    /\ \A w : Coming(w)' <=> \/ Among(w, queue') \/ Among(w, buf')
                            \/ \E e \in Frames' : e.f = "run" /\ Among(w, e.left)
BY DEF Coming, Frames, FramesOf, Among

\* No event comes for a watch that none came for, unless one is made.
LEMMA ComingSame ==
    ASSUME UNCHANGED <<queue, buf>>, \A e \in Frames' : e.f = "run" => e \in Frames
    PROVE  \A w : Coming(w)' => Coming(w)
BY ComingFrames

LEMMA PushedFrames ==
    ASSUME NEW F, NEW s \in Seq(F), NEW e
    PROVE  FramesOf(<<e>> \o s) = {e} \cup FramesOf(s)
<1>1. /\ DOMAIN s = 1..Len(s) /\ DOMAIN (<<e>> \o s) = 1..(Len(s) + 1) /\ Len(s) \in Nat
      /\ (<<e>> \o s)[1] = e /\ \A k \in 1..Len(s) : (<<e>> \o s)[k + 1] = s[k]
  BY PushFrame
<1>2. \A k \in 1..Len(s) : k + 1 \in 1..(Len(s) + 1)
  BY <1>1
<1>3. 1 \in 1..(Len(s) + 1)
  BY <1>1
<1>4. ASSUME NEW i \in 1..(Len(s) + 1) PROVE (<<e>> \o s)[i] \in {e} \cup FramesOf(s)
  <2>1. CASE i = 1
    BY <1>1, <2>1
  <2>2. CASE i # 1
    <3>1. i - 1 \in 1..Len(s) /\ (i - 1) + 1 = i
      BY <1>1, <2>2
    <3>2. (<<e>> \o s)[(i - 1) + 1] = s[i - 1]
      BY <1>1, <3>1
    <3> QED BY <1>1, <3>1, <3>2 DEF FramesOf
  <2> QED BY <2>1, <2>2
<1>5. FramesOf(<<e>> \o s) \subseteq {e} \cup FramesOf(s)
  BY <1>1, <1>4 DEF FramesOf
<1>6. e \in FramesOf(<<e>> \o s)
  BY <1>1, <1>3 DEF FramesOf
<1>7. ASSUME NEW k \in 1..Len(s) PROVE s[k] \in FramesOf(<<e>> \o s)
  <2>1. k + 1 \in 1..(Len(s) + 1) /\ (<<e>> \o s)[k + 1] = s[k]
    BY <1>1, <1>2
  <2> QED BY <1>1, <2>1 DEF FramesOf
<1>8. FramesOf(s) \subseteq FramesOf(<<e>> \o s)
  BY <1>1, <1>7 DEF FramesOf
<1> QED BY <1>5, <1>6, <1>8

LEMMA TopFrames ==
    ASSUME StackInv, stack # <<>>
    PROVE  /\ Frames = {Head(stack)} \cup FramesOf(Rest)
           /\ FramesOf(Rest) = {stack[k] : k \in 2..Len(stack)}
           /\ Head(stack) = stack[1] /\ 1 \in DOMAIN stack
<1>1. PICK F : stack \in Seq(F)
  BY DEF StackInv
<1>2. /\ Head(stack) = stack[1] /\ Len(stack) \in Nat \ {0} /\ DOMAIN stack = 1..Len(stack)
      /\ DOMAIN Tail(stack) = 1..(Len(stack) - 1)
      /\ \A k \in 1..(Len(stack) - 1) : Tail(stack)[k] = stack[k + 1]
  BY <1>1, PopFrame
<1> DEFINE R == Tail(stack)
<1>3. DOMAIN R = 1..(Len(stack) - 1) /\ \A k \in 1..(Len(stack) - 1) : R[k] = stack[k + 1]
  BY <1>2
<1> HIDE DEF R
<1>4. \A k \in 2..Len(stack) : k - 1 \in 1..(Len(stack) - 1) /\ R[k - 1] = stack[k]
  <2>1. TAKE k \in 2..Len(stack)
  <2>2. k - 1 \in 1..(Len(stack) - 1) /\ (k - 1) + 1 = k
    BY <1>2
  <2>3. R[k - 1] = stack[(k - 1) + 1]
    BY <1>3, <2>2
  <2> QED BY <2>2, <2>3
<1>5. \A k \in 1..(Len(stack) - 1) : k + 1 \in 2..Len(stack)
  BY <1>2
<1>6. FramesOf(R) = {stack[k] : k \in 2..Len(stack)}
  <2>1. FramesOf(R) \subseteq {stack[k] : k \in 2..Len(stack)}
    BY <1>3, <1>5 DEF FramesOf
  <2>2. {stack[k] : k \in 2..Len(stack)} \subseteq FramesOf(R)
    BY <1>3, <1>4 DEF FramesOf
  <2> QED BY <2>1, <2>2
<1>7. 1..Len(stack) = {1} \cup 2..Len(stack)
  BY <1>2
<1>8. Frames = {stack[1]} \cup {stack[k] : k \in 2..Len(stack)}
  BY <1>2, <1>7 DEF Frames, FramesOf
<1> QED BY <1>2, <1>6, <1>7, <1>8 DEF R, Rest

\* What the invariants on the places say of the set.
LEMMA FrameFacts ==
    ASSUME StackInv
    PROVE  /\ \A e \in Frames : IsFrame(e)
           /\ stack = <<>> => Frames = {}
           /\ stack # <<>> /\ Head(stack).f \in {"run", "cancel"} =>
                 Rest = <<>> /\ FramesOf(Rest) = {}
           /\ stack # <<>> /\ Head(stack).f = "wake" =>
                 \A e \in FramesOf(Rest) : e.f = "run"
           /\ stack # <<>> /\ Head(stack).f = "rm" /\ RmInv =>
                 \A e \in FramesOf(Rest) : e.f = "rm" => e.wd # Head(stack).wd
<1>1. \A e \in Frames : IsFrame(e)
  BY DEF Frames, FramesOf, StackInv, IsFrame
<1>2. FramesOf(<<>>) = {}
  BY DEF FramesOf
<1>3. ASSUME stack # <<>>, Head(stack).f \in {"run", "cancel"}
      PROVE  Rest = <<>> /\ FramesOf(Rest) = {}
  BY <1>2, <1>3, RunAlone
<1>4. PICK F : stack \in Seq(F)
  BY DEF StackInv
<1>5. Len(stack) \in Nat /\ DOMAIN stack = 1..Len(stack)
  BY <1>4, LenProperties
<1>6. ASSUME stack # <<>>, Head(stack).f = "wake", NEW e \in FramesOf(Rest) PROVE e.f = "run"
  <2>1. PICK k \in 2..Len(stack) : e = stack[k]
    BY <1>6, TopFrames
  <2>2. stack[1].f = "wake" /\ 1 \in DOMAIN stack
    BY <1>6, TopFrames
  <2>3. 1 + 1 = Len(stack) /\ stack[Len(stack)].f = "run"
    BY <2>2 DEF StackInv
  <2>4. k \in 2..Len(stack) /\ Len(stack) = 2
    BY <2>1, <2>3
  <2>5. k = Len(stack)
    BY <2>4
  <2> QED BY <2>1, <2>3, <2>5
<1>7. ASSUME stack # <<>>, Head(stack).f = "rm", RmInv, NEW e \in FramesOf(Rest), e.f = "rm"
      PROVE  e.wd # Head(stack).wd
  <2>1. PICK k \in 2..Len(stack) : e = stack[k]
    BY <1>7, TopFrames
  <2>2. k \in DOMAIN stack /\ k # 1
    BY <1>5, <2>1
  <2> QED BY <1>7, <2>1, <2>2, TopFrames DEF RmInv
<1> QED BY <1>1, <1>2, <1>3, <1>6, <1>7 DEF Frames
-----------------------------------------------------------------------------
(* The steps of the kernel and of stop().                                  *)

\* Events and reads leave the calls and the waiters alone.
LEMMA QuietSafe ==
    ASSUME SafeInv, UNCHANGED <<stack, st, on, waiters, bad>>, consumers \subseteq consumers'
    PROVE  /\ NoneGone' /\ bad' = {} /\ Frames' = Frames
           /\ \A f : Below(f)' <=> Below(f)
           /\ \A w : RmOf(w)' <=> RmOf(w)
           /\ SweepInv' /\ WalkInv' /\ KeptInv'
<1>1. NoneGone' /\ bad' = {} /\ Frames' = Frames
  BY DEF SafeInv, NoneGone, Frames
<1>2. \A f : Below(f)' <=> Below(f)
  BY DEF Below
<1>3. \A w : RmOf(w)' <=> RmOf(w)
  BY <1>1 DEF RmOf
<1>4. SweepInv'
  BY <1>1, <1>2, <1>3 DEF SafeInv, SweepInv
<1>5. WalkInv'
  BY <1>1 DEF SafeInv, WalkInv
<1>6. KeptInv'
  BY <1>1 DEF SafeInv, KeptInv, InMap, InHand
<1> QED BY <1>1, <1>2, <1>3, <1>4, <1>5, <1>6

\* A queue with one event more, or a read that takes some of its events.
LEMMA AppendsAmong ==
    ASSUME DispatchInv, NEW w \in Wds, queue' = Append(queue, w)
    PROVE  \A v : Among(v, queue') => Among(v, queue) \/ v = w
<1>1. queue \in Seq(Wds)
  BY DEF DispatchInv, TypeOK
<1>2. /\ DOMAIN queue' = 1..(Len(queue) + 1) /\ DOMAIN queue = 1..Len(queue) /\ Len(queue) \in Nat
      /\ queue'[Len(queue) + 1] = w /\ \A k \in 1..Len(queue) : queue'[k] = queue[k]
  BY <1>1, AppendProperties, LenProperties
<1>3. \A k \in 1..(Len(queue) + 1) : k \in 1..Len(queue) \/ k = Len(queue) + 1
  BY <1>2
<1> QED BY <1>2, <1>3 DEF Among

LEMMA ReadAmong ==
    ASSUME DispatchInv, KernelRead
    PROVE  \A v : Among(v, queue') \/ Among(v, buf') => Among(v, queue)
<1>1. PICK n \in DOMAIN queue : buf' = SubSeq(queue, 1, n) /\ queue' = SubSeq(queue, n + 1, Len(queue))
  BY DEF KernelRead
<1>2. queue \in Seq(Wds) /\ DOMAIN queue = 1..Len(queue) /\ Len(queue) \in Nat
  BY LenProperties DEF DispatchInv, TypeOK
<1>3. n \in 1..Len(queue)
  BY <1>1, <1>2
<1>4. ASSUME NEW k \in DOMAIN buf' PROVE k \in DOMAIN queue /\ buf'[k] = queue[k]
  BY <1>1, <1>2, <1>3, <1>4
<1>5. ASSUME NEW k \in DOMAIN queue' PROVE n + k \in DOMAIN queue /\ queue'[k] = queue[n + k]
  BY <1>1, <1>2, <1>3, <1>5
<1> QED BY <1>4, <1>5 DEF Among

LEMMA KernelSafe ==
    ASSUME DispatchInv, SafeInv, Careful, Kernel \/ Stop \/ Close
    PROVE  SafeInv'
<1>1. UNCHANGED <<stack, st, on, waiters, bad, consumers, made, alive, buff>>
  BY DEF Kernel, KernelRead, KernelEvent, KernelRemove, Stop, Close, mapVars, taskVars
<1>2. /\ NoneGone' /\ bad' = {} /\ Frames' = Frames
      /\ \A f : Below(f)' <=> Below(f)
      /\ \A w : RmOf(w)' <=> RmOf(w)
      /\ SweepInv' /\ WalkInv' /\ KeptInv'
  BY <1>1, QuietSafe
<1>3. PhaseInv /\ EntryInv
  BY DEF SafeInv
<1>4. ASSUME NEW w \in Wds, KernelEvent(w) PROVE PhaseInv' /\ EntryInv'
  <2>1. UNCHANGED <<kernel, open, read, canceled>>
    BY <1>4 DEF KernelEvent
  <2>2. Over' <=> Over
    BY <1>2, <2>1 DEF Over
  <2>3. PhaseInv'
    BY <1>2, <1>3, <2>1, <2>2 DEF PhaseInv
  <2>4. \A v : v # w => (Coming(v)' => Coming(v))
    BY <1>2, <1>4, AppendsAmong, ComingFrames DEF KernelEvent
  <2>5. w \in kernel
    BY <1>4 DEF KernelEvent
  <2> QED BY <1>1, <1>2, <1>3, <2>1, <2>2, <2>3, <2>4, <2>5 DEF EntryInv
<1>5. ASSUME KernelRead PROVE PhaseInv' /\ EntryInv'
  <2>1. UNCHANGED <<kernel, open, canceled>> /\ read = "pending" /\ read' = "posted"
    BY <1>5 DEF KernelRead
  <2>2. ~Over' /\ ~Over
    BY <2>1 DEF Over
  <2>3. ~Below("run") /\ ~Below("cancel") /\ open
    BY <1>3, <2>1, <2>2 DEF PhaseInv
  <2>4. PhaseInv'
    BY <1>2, <2>1, <2>3 DEF PhaseInv
  <2>5. \A v : Coming(v)' => Coming(v)
    BY <1>2, <1>5, ReadAmong, ComingFrames
  <2> QED BY <1>1, <1>2, <1>3, <2>1, <2>2, <2>4, <2>5 DEF EntryInv
<1>6. ASSUME Stop PROVE PhaseInv' /\ EntryInv'
  <2>1. /\ stack = <<>> /\ UNCHANGED <<kernel, open>> /\ ~canceled /\ canceled'
        /\ read' = IF read = "pending" THEN "canceled" ELSE read
    BY <1>6 DEF Stop, Idle
  <2>2. \A f : ~Below(f)
    BY <2>1 DEF Below
  <2>3. open
    BY <1>3, <2>1 DEF PhaseInv
  <2>4. PhaseInv'
    BY <1>2, <1>3, <2>1, <2>2, <2>3 DEF PhaseInv
  <2>5. ~Over
    BY <2>1 DEF Over
  <2>6. \A v : Coming(v)' => Coming(v)
    BY <1>2, <1>6, ComingSame DEF Stop
  <2> QED BY <1>1, <1>2, <1>3, <2>1, <2>4, <2>5, <2>6 DEF EntryInv
<1>7. ASSUME Close PROVE PhaseInv' /\ EntryInv'
  <2>1. /\ stack = <<>> /\ UNCHANGED <<kernel, read, canceled>> /\ canceled /\ read # "posted"
        /\ ~open'
    BY <1>7 DEF Close, Idle
  <2>2. \A f : ~Below(f)
    BY <2>1 DEF Below
  <2>3. \A w \in Wds : ~RmOf(w)
    BY <2>1 DEF RmOf, Frames, FramesOf
  <2>4. read \in {"canceled", "none"}
    BY <1>3, <2>1 DEF PhaseInv, DispatchInv, TypeOK
  <2>5. PhaseInv'
    BY <1>2, <1>3, <2>1, <2>2, <2>3, <2>4 DEF PhaseInv
  <2> QED BY <2>1, <2>5 DEF EntryInv
<1>8. ASSUME NEW w \in Wds, KernelRemove(w) PROVE PhaseInv' /\ EntryInv'
  <2>1. kernel' = kernel \ {w} /\ w \in kernel /\ UNCHANGED <<open, read, canceled>>
    BY <1>8 DEF KernelRemove
  <2>2. Over' <=> Over
    BY <1>2, <2>1 DEF Over
  <2>3. PhaseInv'
    BY <1>2, <1>3, <2>1, <2>2 DEF PhaseInv
  <2>4. \A v : v # w => (Coming(v)' => Coming(v))
    BY <1>2, <1>8, AppendsAmong, ComingFrames DEF KernelRemove
  <2> QED BY <1>1, <1>2, <1>3, <2>1, <2>2, <2>3, <2>4 DEF EntryInv
<1>9. PhaseInv' /\ EntryInv'
  BY <1>4, <1>5, <1>6, <1>7, <1>8 DEF Kernel
<1> QED BY <1>2, <1>9 DEF SafeInv

LEMMA WatchSafe ==
    ASSUME DispatchInv, DispatchInv', SafeInv, Careful, NEW t \in Tasks, Watch(t)
    PROVE  SafeInv'
<1>1. /\ open /\ made' = made + 1 /\ kernel' = kernel \cup {made'}
      /\ alive' = alive \cup {made'} /\ consumers' = consumers \cup {made'}
      /\ buff' = [buff EXCEPT ![made'] = "live"]
      /\ UNCHANGED <<open, read, canceled, waiters, st, on, stack, bad>>
  BY DEF Watch, taskVars
<1>2. /\ NoneGone' /\ bad' = {} /\ Frames' = Frames
      /\ \A f : Below(f)' <=> Below(f)
      /\ \A w : RmOf(w)' <=> RmOf(w)
      /\ SweepInv' /\ WalkInv' /\ KeptInv'
  BY <1>1, QuietSafe
<1>3. PhaseInv /\ EntryInv
  BY DEF SafeInv
<1>4. Over' <=> Over
  BY <1>1, <1>2 DEF Over
<1>5. PhaseInv'
  BY <1>1, <1>2, <1>3, <1>4 DEF PhaseInv
<1>6. \A w \in Wds : buff'[w] = IF w = made' THEN "live" ELSE buff[w]
  BY <1>1 DEF DispatchInv, TypeOK
<1>7. consumers' \subseteq Wds
  BY <1>1, <1>3 DEF DispatchInv, TypeOK
<1>8. EntryInv'
  <2>1. \A v : Coming(v)' => Coming(v)
    BY <1>2, ComingSame DEF Watch
  <2>2. kernel' \subseteq alive'
    BY <1>1, <1>3 DEF EntryInv
  <2>3. ASSUME ~Over', NEW v \in consumers' PROVE IF v \in alive' THEN buff'[v] = "live"
                                                  ELSE RmOf(v)' \/ ~Coming(v)'
    BY <1>1, <1>2, <1>3, <1>4, <1>6, <1>7, <2>1, <2>3 DEF EntryInv
  <2>4. ~Over' => alive' \subseteq consumers'
    BY <1>1, <1>3, <1>4 DEF EntryInv
  <2> QED BY <2>2, <2>3, <2>4 DEF EntryInv
<1> QED BY <1>2, <1>5, <1>8 DEF SafeInv
-----------------------------------------------------------------------------
(* The steps of the dispatcher.                                            *)

\* A loop takes t out of its hands and calls it.
LEMMA CallSafe ==
    ASSUME DispatchInv, DispatchInv', SafeInv, stack # <<>>, NEW t \in Tasks, NEW e,
           e.f = Head(stack).f, e.f \in {"wake", "cancel", "rm"}, Resume(t, <<e>> \o Rest),
           UNCHANGED <<kernel, queue, open, read, buf, made, alive, canceled, consumers, buff, on>>,
           \A u \in Tasks : u # t /\ u \in waiters[on[u]] => u \in waiters'[on[u]],
           e.f \in {"wake", "cancel"} => Head(stack).todo \subseteq e.todo \cup {t},
           e.f = "cancel" => e.it = Head(stack).it,
           e.f = "rm" => /\ e.wd = Head(stack).wd /\ waiters'[e.wd] = e.next \cup e.todo
                         /\ e.next = {} => e.todo = {},
           \A g \in FramesOf(Rest) : g.f = "rm" => waiters'[g.wd] = waiters[g.wd]
    PROVE  SafeInv'
<1> DEFINE h == Head(stack)
           R == FramesOf(Rest)
           c == UserFrame(t)
<1>1. st[t] = "waiting"
  <2>1. ASSUME st[t] # "waiting" PROVE FALSE
    <3>1. "dangling" \in bad' /\ st' = st
      BY <2>1 DEF Resume
    <3> QED BY <3>1 DEF DispatchInv, ResumedOnce, SafeInv, NoneGone
  <2> QED BY <2>1
<1>2. /\ st' = [st EXCEPT ![t] = "running"] /\ bad' = bad
      /\ stack' = <<c>> \o (<<e>> \o Rest)
  BY <1>1 DEF Resume
<1>3. Frames' = {c, e} \cup R
  <2>1. PICK F : stack \in Seq(F)
    BY DEF DispatchInv, StackInv
  <2>2. Rest \in Seq(F)
    BY <2>1, PopFrame DEF Rest
  <2>3. <<e>> \o Rest \in Seq(F \cup {e}) /\ FramesOf(<<e>> \o Rest) = {e} \cup R
    BY <2>2, PushFrame, PushedFrames
  <2>4. FramesOf(<<c>> \o (<<e>> \o Rest)) = {c} \cup ({e} \cup R)
    BY <2>3, PushedFrames
  <2> QED BY <1>2, <2>4 DEF Frames
<1>4. Frames = {h} \cup R
  BY TopFrames DEF DispatchInv
<1>5. c.f = "user"
  BY DEF UserFrame
<1> HIDE DEF h, R, c
<1>6. \A f \in {"run", "cancel"} : Below(f)' <=> Below(f)
  BY <1>3, <1>4, <1>5, BelowFrames DEF h
<1>7. \A w : RmOf(w)' <=> RmOf(w)
  BY <1>3, <1>4, <1>5 DEF RmOf, h
<1>8. Over' <=> Over
  BY <1>6 DEF Over
<1>9. NoneGone' /\ bad' = {}
  BY <1>2 DEF SafeInv, NoneGone, DispatchInv, TypeOK
<1>10. PhaseInv' /\ EntryInv'
  <2>1. \A v : Coming(v)' => Coming(v)
    BY <1>3, <1>4, <1>5, ComingSame DEF h
  <2> QED BY <1>6, <1>7, <1>8, <2>1 DEF SafeInv, PhaseInv, EntryInv
<1>11. SweepInv'
  BY <1>3, <1>4, <1>5, <1>6, <1>7 DEF SafeInv, SweepInv, h
<1>12. WalkInv'
  BY <1>3, <1>4, <1>5 DEF SafeInv, WalkInv, R
<1>13. KeptInv'
  <2>1. SUFFICES ASSUME NEW u \in Tasks, st'[u] = "waiting" PROVE InMap(u)' \/ InHand(u)'
    BY DEF KeptInv
  <2>2. u # t /\ st[u] = "waiting"
    <3>1. st \in [Tasks -> {"free", "waiting", "running", "gone"}]
      BY DEF DispatchInv, TypeOK
    <3>2. \A v \in Tasks : st'[v] = IF v = t THEN "running" ELSE st[v]
      BY <1>2, <3>1
    <3> QED BY <2>1, <3>2
  <2>3. CASE InMap(u)
    <3>1. on[u] \in consumers' /\ u \in waiters'[on[u]] /\ on'[u] = on[u]
      BY <2>2, <2>3 DEF InMap
    <3> QED BY <3>1 DEF InMap
  <2>4. CASE InHand(u)
    <3>1. PICK g \in Frames : g.f \in {"wake", "cancel"} /\ u \in g.todo
      BY <2>4 DEF InHand
    <3>2. CASE g \in R
      BY <1>3, <3>1, <3>2 DEF InHand
    <3>3. CASE g = h
      BY <1>3, <2>2, <3>1, <3>3 DEF InHand, h
    <3> QED BY <1>4, <3>2, <3>3
  <2> QED BY <2>2, <2>3, <2>4 DEF SafeInv, KeptInv
<1> QED BY <1>9, <1>10, <1>11, <1>12, <1>13 DEF SafeInv

\* A loop that has nothing left in its hands returns, or a task does.
LEMMA ReturnSafe ==
    ASSUME DispatchInv, DispatchInv', SafeInv, stack # <<>>, stack' = Rest,
           Head(stack).f \in {"user", "wake", "cancel", "rm"},
           UNCHANGED <<kernel, queue, open, read, buf, made, alive, canceled, buff, on, bad>>,
           NoneGone', \A u \in Tasks : st'[u] = "waiting" => st[u] = "waiting",
           Head(stack).f \in {"wake", "cancel"} => Head(stack).todo = {},
           consumers' = IF Head(stack).f = "rm" THEN consumers \ {Head(stack).wd} ELSE consumers,
           \A u \in Tasks : st[u] = "waiting" /\ InMap(u) => InMap(u)',
           \A g \in FramesOf(Rest) : g.f = "rm" => waiters'[g.wd] = waiters[g.wd]
    PROVE  SafeInv'
<1> DEFINE h == Head(stack)
           R == FramesOf(Rest)
<1>1. Frames = {h} \cup R /\ Frames' = R
  BY TopFrames DEF DispatchInv, Frames
<1> HIDE DEF h, R
<1>2. Below("run")' <=> Below("run")
  BY <1>1, BelowFrames DEF h
<1>3. Below("cancel")' => Below("cancel")
  BY <1>1, BelowFrames
<1>4. Over' <=> Over
  BY <1>2 DEF Over
<1>5. \A w : /\ RmOf(w)' => RmOf(w)
             /\ RmOf(w) => RmOf(w)' \/ (h.f = "rm" /\ w = h.wd)
  BY <1>1 DEF RmOf
<1>6. PhaseInv'
  BY <1>2, <1>3, <1>4, <1>5 DEF SafeInv, PhaseInv
<1>7. h.f = "rm" => h.wd \notin alive /\ h.wd \in Wds
  BY TopFrames, FrameFacts DEF h, SafeInv, DispatchInv, PlaceInv, RmInv, Frames, FramesOf,
                               IsFrame, RmFrames
<1>8. EntryInv'
  <2>1. \A v : Coming(v)' => Coming(v)
    BY <1>1, ComingSame
  <2> QED BY <1>4, <1>5, <1>7, <2>1 DEF SafeInv, EntryInv, h
<1>9. SweepInv'
  <2>1. Below("cancel")' => \A w \in Wds : ~RmOf(w)'
    BY <1>3, <1>5 DEF SafeInv, SweepInv
  <2>2. ASSUME NEW e \in R, e.f = "cancel" PROVE e.it \in consumers' \cup {None}
    <3>1. Below("cancel") /\ e.it \in consumers \cup {None}
      BY <1>1, <2>2, BelowFrames DEF SafeInv, SweepInv
    <3>2. h.f # "rm"
      BY <1>1, <1>7, <3>1 DEF SafeInv, SweepInv, RmOf
    <3> QED BY <3>1, <3>2 DEF h
  <2> QED BY <1>1, <2>1, <2>2 DEF SweepInv
<1>10. WalkInv'
  BY <1>1 DEF SafeInv, WalkInv, R
<1>11. KeptInv'
  BY <1>1 DEF SafeInv, KeptInv, InHand, h
<1> QED BY <1>6, <1>8, <1>9, <1>10, <1>11 DEF SafeInv

LEMMA WakeNextSafe ==
    ASSUME DispatchInv, DispatchInv', SafeInv, WakeNext
    PROVE  SafeInv'
<1> DEFINE fr == Head(stack)
<1>1. /\ stack # <<>> /\ fr.f = "wake"
      /\ UNCHANGED <<kernel, queue, open, read, buf, made, alive, canceled, consumers, buff, waiters, on>>
  BY DEF WakeNext, Top, kernelVars, mapVars
<1>2. fr.todo \subseteq Tasks
  <2>1. StackInv
    BY DEF DispatchInv
  <2>2. fr \in Frames
    BY <1>1, <2>1, TopFrames
  <2> QED BY <1>1, <2>1, <2>2, FrameFacts DEF IsFrame
<1>3. CASE fr.todo = {}
  <2>1. stack' = Rest /\ st' = st /\ bad' = bad
    BY <1>3 DEF WakeNext
  <2>2. NoneGone' /\ \A u \in Tasks : InMap(u) => InMap(u)'
    BY <1>1, <2>1 DEF SafeInv, NoneGone, InMap
  <2> QED BY <1>1, <1>3, <2>1, <2>2, ReturnSafe
<1>4. ASSUME NEW t \in fr.todo, Resume(t, <<WakeFrame(fr.wd, fr.todo \ {t})>> \o Rest)
      PROVE  SafeInv'
  <2>1. PICK e : e = WakeFrame(fr.wd, fr.todo \ {t})
    OBVIOUS
  <2>2. e.f = "wake" /\ fr.todo \subseteq e.todo \cup {t}
    BY <2>1 DEF WakeFrame
  <2>3. Resume(t, <<e>> \o Rest) /\ t \in Tasks
    BY <1>2, <1>4, <2>1
  <2>4. \A u \in Tasks : u # t /\ u \in waiters[on[u]] => u \in waiters'[on[u]]
    BY <1>1
  <2>5. \A g \in FramesOf(Rest) : g.f = "rm" => waiters'[g.wd] = waiters[g.wd]
    BY <1>1
  <2> HIDE DEF fr
  <2> QED BY <1>1, <2>2, <2>3, <2>4, <2>5, CallSafe DEF fr
<1> QED BY <1>3, <1>4 DEF WakeNext

LEMMA WdsNat ==
    ASSUME InotifyAssumption
    PROVE  Wds \subseteq Nat
BY DEF Wds, InotifyAssumption

\* The next entry of the map.
LEMMA AboveInMap ==
    ASSUME InotifyAssumption, DispatchInv, NEW w \in Nat
    PROVE  Above(w) \in consumers \cup {None} /\ (Above(w) # w \/ Above(w) = None)
<1> DEFINE S == {v \in consumers : v > w}
<1>1. consumers \subseteq Nat
  <2>1. consumers \subseteq Wds
    BY DEF DispatchInv, TypeOK
  <2> QED BY <2>1, WdsNat
<1>2. S \subseteq Nat /\ S \subseteq consumers /\ w \notin S
  <2>1. S \subseteq consumers
    BY Zenon
  <2>2. ~(w > w)
    OBVIOUS
  <2>3. w \notin S
    BY <2>2
  <2> QED BY <1>1, <2>1, <2>3
<1>3. Above(w) = IF S = {} THEN None ELSE CHOOSE v \in S : \A u \in S : v <= u
  BY DEF Above
<1> HIDE DEF S
<1>4. CASE S = {}
  BY <1>3, <1>4
<1>5. CASE S # {}
  <2>1. PICK x \in S : \A y \in S : ~(<<y, x>> \in OpToRel(<, Nat))
    BY <1>2, <1>5, WFMin, NatLessThanWellFounded
  <2>2. \A y \in S : ~(y < x)
    BY <1>2, <2>1 DEF OpToRel
  <2>3. \A y \in S : x <= y
    <3>1. TAKE y \in S
    <3>2. x \in Nat /\ y \in Nat /\ ~(y < x)
      BY <1>2, <2>2
    <3> QED BY <3>2
  <2>4. Above(w) \in S
    BY <1>3, <1>5, <2>1, <2>3
  <2> QED BY <1>2, <2>4
<1> QED BY <1>4, <1>5

LEMMA CancelNextSafe ==
    ASSUME InotifyAssumption, DispatchInv, DispatchInv', SafeInv, CancelNext
    PROVE  SafeInv'
<1> DEFINE fr == Head(stack)
<1>1. /\ stack # <<>> /\ fr.f = "cancel"
      /\ UNCHANGED <<kernel, queue, open, read, buf, made, alive, canceled, buff, on>>
  BY DEF CancelNext, Top, kernelVars
<1>2. Frames = {fr} /\ Rest = <<>> /\ FramesOf(Rest) = {} /\ fr \in Frames
  BY <1>1, TopFrames, FrameFacts DEF DispatchInv
<1>3. fr.todo \subseteq Tasks
  BY <1>1, <1>2, FrameFacts DEF DispatchInv, IsFrame
<1>4. Below("cancel") /\ Over /\ fr.it \in consumers \cup {None}
  BY <1>1, <1>2, BelowFrames DEF SafeInv, PhaseInv, SweepInv
<1>5. ASSUME NEW t \in fr.todo, Resume(t, <<CancelFrame(fr.it, fr.todo \ {t})>> \o Rest),
             UNCHANGED <<consumers, waiters>>
      PROVE  SafeInv'
  <2>1. PICK e : e = CancelFrame(fr.it, fr.todo \ {t})
    OBVIOUS
  <2>2. e.f = "cancel" /\ fr.todo \subseteq e.todo \cup {t} /\ e.it = fr.it
    BY <2>1 DEF CancelFrame
  <2>3. Resume(t, <<e>> \o Rest) /\ t \in Tasks
    BY <1>3, <1>5, <2>1
  <2>4. \A u \in Tasks : u # t /\ u \in waiters[on[u]] => u \in waiters'[on[u]]
    BY <1>5
  <2>5. \A g \in FramesOf(Rest) : g.f = "rm" => waiters'[g.wd] = waiters[g.wd]
    BY <1>2
  <2> HIDE DEF fr
  <2> QED BY <1>1, <1>5, <2>2, <2>3, <2>4, <2>5, CallSafe DEF fr
<1>6. ASSUME fr.todo = {}, stack' = Rest, UNCHANGED <<consumers, waiters, st, bad>>
      PROVE  SafeInv'
  <2>1. NoneGone' /\ \A u \in Tasks : InMap(u) => InMap(u)'
    BY <1>1, <1>6 DEF SafeInv, NoneGone, InMap
  <2> QED BY <1>1, <1>6, <2>1, ReturnSafe
<1>7. ASSUME fr.todo = {}, fr.it # None, fr.it \in consumers, consumers' = consumers \ {fr.it},
             waiters' = [waiters EXCEPT ![fr.it] = {}],
             stack' = <<CancelFrame(Above(fr.it), waiters[fr.it])>> \o Rest, UNCHANGED <<st, bad>>
      PROVE  SafeInv'
  <2>1. PICK e : e = CancelFrame(Above(fr.it), waiters[fr.it])
    OBVIOUS
  <2>2. e.f = "cancel" /\ e.it = Above(fr.it) /\ e.todo = waiters[fr.it]
    BY <2>1 DEF CancelFrame
  <2>3. stack' = <<e>>
    BY <1>2, <1>7, <2>1, AboveEmpty
  <2>4. Frames' = {e}
    BY <2>3 DEF Frames, FramesOf
  <2>5. fr.it \in Nat
    <3>1. consumers \subseteq Wds
      BY DEF DispatchInv, TypeOK
    <3> QED BY <1>7, <3>1, WdsNat
  <2>6. e.it \in consumers' \cup {None}
    BY <1>7, <2>2, <2>5, AboveInMap
  <2>7. ~Below("run")' /\ ~Below("run") /\ \A w : ~RmOf(w)'
    BY <1>1, <1>2, <2>2, <2>4, BelowFrames DEF RmOf
  <2>8. Over' /\ read = "none"
    BY <1>1, <1>4, <2>7 DEF Over
  <2>9. PhaseInv' /\ EntryInv' /\ SweepInv' /\ WalkInv'
    BY <1>1, <2>2, <2>4, <2>6, <2>7, <2>8
       DEF SafeInv, PhaseInv, EntryInv, SweepInv, WalkInv
  <2>10. KeptInv'
    <3>1. SUFFICES ASSUME NEW u \in Tasks, st[u] = "waiting" PROVE InMap(u)' \/ InHand(u)'
      BY <1>7 DEF KeptInv
    <3>2. InMap(u)
      BY <1>2, <1>7, <3>1 DEF SafeInv, KeptInv, InHand
    <3>3. CASE on[u] = fr.it
      BY <2>2, <2>4, <3>2, <3>3 DEF InMap, InHand
    <3>4. CASE on[u] # fr.it
      <4>1. on[u] \in consumers' /\ waiters'[on[u]] = waiters[on[u]] /\ on'[u] = on[u]
        BY <1>1, <1>7, <3>2, <3>4 DEF InMap, DispatchInv, TypeOK
      <4> QED BY <3>2, <4>1 DEF InMap
    <3> QED BY <3>3, <3>4
  <2> QED BY <1>7, <2>9, <2>10 DEF SafeInv, NoneGone
<1> QED BY <1>4, <1>5, <1>6, <1>7 DEF CancelNext

LEMMA RmNextSafe ==
    ASSUME DispatchInv, DispatchInv', SafeInv, RmNext
    PROVE  SafeInv'
<1> DEFINE fr == Head(stack)
           u == CHOOSE v \in fr.next : TRUE
           R == FramesOf(Rest)
<1>1. /\ stack # <<>> /\ fr.f = "rm"
      /\ UNCHANGED <<kernel, queue, open, read, buf, made, alive, canceled, buff, on>>
  BY DEF RmNext, Top, kernelVars
<1>2. Frames = {fr} \cup R /\ fr \in Frames
  BY <1>1, TopFrames DEF DispatchInv
<1>3. RmInv /\ WaitInv
  BY DEF DispatchInv, PlaceInv, SafeInv
<1>4. /\ \A g \in R : g.f = "rm" => g.wd # fr.wd /\ g.wd \in Wds
      /\ fr.wd \in Wds /\ fr.next \subseteq Tasks /\ fr.todo \subseteq Tasks
  <2>1. \A g \in Frames : g.f = "rm" => g \in RmFrames
    BY FrameFacts DEF DispatchInv, IsFrame
  <2>2. \A g \in R : g.f = "rm" => g.wd # fr.wd
    BY <1>1, <1>3, FrameFacts DEF DispatchInv
  <2> QED BY <1>1, <1>2, <2>1, <2>2 DEF RmFrames
<1>5. waiters[fr.wd] = fr.next \cup fr.todo /\ (fr.next = {} => fr.todo = {})
  BY <1>1, <1>2 DEF SafeInv, WalkInv
<1>6. ASSUME fr.next = {}, consumers' = consumers \ {fr.wd},
             waiters' = [waiters EXCEPT ![fr.wd] = {}], stack' = Rest, UNCHANGED <<st, bad>>
      PROVE  SafeInv'
  <2>1. \A w \in Wds : waiters'[w] = waiters[w]
    BY <1>4, <1>5, <1>6 DEF DispatchInv, TypeOK
  <2>2. NoneGone'
    BY <1>6 DEF SafeInv, NoneGone
  <2>3. ASSUME NEW v \in Tasks, InMap(v) PROVE InMap(v)'
    <3>1. on[v] \in Wds /\ on[v] # fr.wd
      BY <1>5, <1>6, <2>3 DEF InMap, DispatchInv, TypeOK
    <3> QED BY <1>1, <1>6, <2>1, <2>3, <3>1 DEF InMap
  <2> HIDE DEF R
  <2>4. \A g \in R : g.f = "rm" => waiters'[g.wd] = waiters[g.wd]
    BY <1>4, <2>1
  <2> QED BY <1>1, <1>6, <2>2, <2>3, <2>4, ReturnSafe DEF R
<1>7. ASSUME fr.next # {}, waiters' = [waiters EXCEPT ![fr.wd] = @ \ {u}],
             NEW next \in OneOf(fr.todo),
             Resume(u, <<RmFrame(fr.wd, next, fr.todo \ next)>> \o Rest), UNCHANGED consumers
      PROVE  SafeInv'
  <2>1. u \in fr.next /\ u \in Tasks
    BY <1>4, <1>7
  <2>2. next \subseteq fr.todo /\ (next = {} => fr.todo = {})
    <3>1. fr.todo = {} => next = {}
      BY <1>7 DEF OneOf
    <3>2. fr.todo # {} => \E v \in fr.todo : next = {v}
      BY <1>7 DEF OneOf
    <3> QED BY <3>1, <3>2
  <2>3. PICK e : e = RmFrame(fr.wd, next, fr.todo \ next)
    OBVIOUS
  <2>4. /\ e.f = "rm" /\ e.wd = fr.wd /\ e.next = next /\ e.todo = fr.todo \ next
        /\ e.next = {} => e.todo = {}
    BY <2>2, <2>3 DEF RmFrame
  <2>5. \A a \in fr.next : a = u /\ a \notin fr.todo
    BY <1>1, <1>3, <2>1, TopFrames DEF RmInv, DispatchInv
  <2>6. \A w \in Wds : waiters'[w] = IF w = fr.wd THEN waiters[w] \ {u} ELSE waiters[w]
    BY <1>4, <1>7 DEF DispatchInv, TypeOK
  <2>7. waiters'[e.wd] = e.next \cup e.todo
    BY <1>4, <1>5, <2>1, <2>2, <2>4, <2>5, <2>6
  <2>8. \A v \in Tasks : v # u /\ v \in waiters[on[v]] => v \in waiters'[on[v]]
    <3>1. waiters \in [Wds -> SUBSET Tasks]
      BY DEF DispatchInv, TypeOK
    <3>2. DOMAIN waiters' = Wds /\ DOMAIN waiters = Wds
      BY <1>7, <3>1
    <3>3. TAKE v \in Tasks
    <3>4. CASE on[v] \in Wds
      BY <2>6, <3>4
    <3>5. CASE on[v] \notin Wds
      BY <1>7, <3>1, <3>5
    <3> QED BY <3>4, <3>5
  <2>9. Resume(u, <<e>> \o Rest)
    BY <1>7, <2>3
  <2> HIDE DEF R, u, fr
  <2>10. \A g \in R : g.f = "rm" => waiters'[g.wd] = waiters[g.wd]
    BY <1>4, <2>6
  <2> QED BY <1>1, <1>7, <2>1, <2>4, <2>7, <2>8, <2>9, <2>10, CallSafe DEF R, fr
<1> QED BY <1>6, <1>7 DEF RmNext

\* A set of one or two calls.
LEMMA FewFrames ==
    ASSUME NEW a, NEW b
    PROVE  FramesOf(<<a>>) = {a} /\ FramesOf(<<a, b>>) = {a, b} /\ FramesOf(<<>>) = {}
<1>1. DOMAIN <<a>> = {1} /\ <<a>>[1] = a
  OBVIOUS
<1>2. DOMAIN <<a, b>> = {1, 2} /\ <<a, b>>[1] = a /\ <<a, b>>[2] = b
  OBVIOUS
<1>3. FramesOf(<<a>>) = {a}
  BY <1>1 DEF FramesOf
<1>4. FramesOf(<<a, b>>) = {a, b}
  BY <1>2 DEF FramesOf
<1>5. FramesOf(<<>>) = {}
  BY DEF FramesOf
<1> QED BY <1>3, <1>4, <1>5

LEMMA RunEventsSafe ==
    ASSUME SafeInv, RunEvents
    PROVE  SafeInv'
<1>1. /\ stack = <<>> /\ read = "posted" /\ read' = "none"
      /\ stack' = <<RunFrame(buf, <<>>)>>
      /\ UNCHANGED <<kernel, open, made, alive, canceled, consumers, buff, waiters, st, on, bad>>
  BY DEF RunEvents, Idle, mapVars, taskVars
<1>2. PICK e : e = RunFrame(buf, <<>>)
  OBVIOUS
<1>3. e.f = "run" /\ e.left = buf
  BY <1>2 DEF RunFrame
<1>4. Frames = {} /\ Frames' = {e}
  BY <1>1, <1>2, FewFrames DEF Frames
<1>5. /\ \A f : ~Below(f) /\ (Below(f)' <=> f = "run")
      /\ \A w : ~RmOf(w) /\ ~RmOf(w)'
  BY <1>3, <1>4, BelowFrames DEF RmOf
<1>6. open /\ ~Over /\ ~Over'
  BY <1>1, <1>5 DEF SafeInv, PhaseInv, Over
<1>7. NoneGone' /\ bad' = {}
  BY <1>1 DEF SafeInv, NoneGone
<1>8. PhaseInv' /\ EntryInv'
  <2>1. \A v : Coming(v)' => Coming(v)
    <3>1. queue' = queue /\ buf' = <<>>
      BY DEF RunEvents
    <3> QED BY <1>3, <1>4, <3>1, ComingFrames DEF Among
  <2> QED BY <1>1, <1>5, <1>6, <2>1 DEF SafeInv, PhaseInv, EntryInv
<1>9. SweepInv' /\ WalkInv'
  BY <1>3, <1>4, <1>5 DEF SweepInv, WalkInv
<1>10. KeptInv'
  BY <1>1, <1>4 DEF SafeInv, KeptInv, InMap, InHand
<1> QED BY <1>7, <1>8, <1>9, <1>10 DEF SafeInv

\* Every entry of the map has a live buffer when an event is pushed.
LEMMA PushEventSafe ==
    ASSUME DispatchInv, SafeInv, RoundInv, PushEvent
    PROVE  SafeInv'
<1> DEFINE fr == Head(stack)
           w == Head(fr.left)
<1>1. /\ stack # <<>> /\ fr.f = "run"
      /\ UNCHANGED <<kernel, open, read, made, alive, canceled, consumers, buff, waiters, st, on>>
  BY DEF PushEvent, Top, kernelVars, taskVars
<1>2. PICK a, b : /\ a = RunFrame(Tail(fr.left), Append(fr.list, w))
                  /\ b = RunFrame(Tail(fr.left), fr.list)
  OBVIOUS
<1>3. a.f = "run" /\ b.f = "run" /\ a.left = Tail(fr.left) /\ b.left = Tail(fr.left)
  BY <1>2 DEF RunFrame
<1>4. Rest = <<>> /\ Frames = {fr}
  BY <1>1, TopFrames, FrameFacts DEF DispatchInv
<1>5. \/ w \in consumers /\ bad' = {buff[w]} \ {"live"} /\ stack' = <<a>> \o Rest
      \/ bad' = bad /\ stack' = <<b>> \o Rest
  BY <1>2 DEF PushEvent
<1> HIDE DEF w
<1>6. PICK e : e.f = "run" /\ e.left = Tail(fr.left) /\ stack' = <<e>>
  BY <1>3, <1>4, <1>5, AboveEmpty
<1>0. /\ Coming(w)
      /\ \A v : Among(v, Tail(fr.left)) => Among(v, fr.left)
  <2>1. fr.left \in Seq(Wds) /\ fr.left # <<>>
    BY <1>1, <1>4 DEF RoundInv, Rounds, PushEvent
  <2>2. PICK l : l = fr.left
    OBVIOUS
  <2> HIDE DEF fr
  <2>3. /\ Head(l) = l[1] /\ Len(l) \in Nat \ {0} /\ DOMAIN l = 1..Len(l)
        /\ DOMAIN Tail(l) = 1..(Len(l) - 1)
        /\ \A k \in 1..(Len(l) - 1) : Tail(l)[k] = l[k + 1]
    BY <2>1, <2>2, PopFrame
  <2>4. 1 \in DOMAIN l /\ \A k \in 1..(Len(l) - 1) : k + 1 \in DOMAIN l
    BY <2>3
  <2>5. Among(w, l)
    BY <2>2, <2>3, <2>4 DEF Among, w
  <2>6. \A v : Among(v, Tail(l)) => Among(v, l)
    BY <2>3, <2>4 DEF Among
  <2> QED BY <1>1, <1>4, <2>2, <2>5, <2>6, ComingFrames
<1> HIDE DEF fr
<1>7. Frames' = {e}
  BY <1>6, FewFrames DEF Frames
<1>8. /\ Below("run") /\ Below("run")' /\ ~Below("cancel")'
      /\ \A v : ~RmOf(v) /\ ~RmOf(v)'
  BY <1>1, <1>4, <1>6, <1>7, BelowFrames DEF RmOf
<1>9. open /\ ~Over /\ ~Over'
  BY <1>8 DEF SafeInv, PhaseInv, Over
<1>10. w \in consumers => buff[w] = "live"
  BY <1>0, <1>8, <1>9 DEF SafeInv, EntryInv
<1>11. NoneGone' /\ bad' = {}
  BY <1>1, <1>5, <1>10 DEF SafeInv, NoneGone
<1>12. PhaseInv' /\ EntryInv'
  <2>1. \A v : Coming(v)' => Coming(v)
    <3>1. UNCHANGED <<queue, buf>>
      BY DEF PushEvent, kernelVars
    <3> QED BY <1>0, <1>1, <1>4, <1>6, <1>7, <3>1, ComingFrames
  <2> QED BY <1>1, <1>8, <1>9, <2>1 DEF SafeInv, PhaseInv, EntryInv
<1>13. SweepInv' /\ WalkInv'
  BY <1>6, <1>7, <1>8 DEF SweepInv, WalkInv
<1>14. KeptInv'
  BY <1>1, <1>4, <1>7 DEF SafeInv, KeptInv, InMap, InHand
<1> QED BY <1>11, <1>12, <1>13, <1>14 DEF SafeInv

\* The waiters of the next watch are in the map before and in hand after it.
LEMMA RunNextSafe ==
    ASSUME DispatchInv, SafeInv, RunNext
    PROVE  SafeInv'
<1> DEFINE list == Head(stack).list
           w == Head(list)
<1>1. /\ stack # <<>> /\ Head(stack).f = "run"
      /\ UNCHANGED <<kernel, open, read, made, alive, canceled, consumers, buff, st, on, bad>>
  BY DEF RunNext, Top, kernelVars, taskVars
<1>2. PICK a, b : a = WakeFrame(w, waiters[w]) /\ b = RunFrame(<<>>, Tail(list))
  OBVIOUS
<1>3. a.f = "wake" /\ a.todo = waiters[w] /\ b.f = "run" /\ b.left = <<>>
  BY <1>2 DEF WakeFrame, RunFrame
<1>4. Rest = <<>> /\ Frames = {Head(stack)}
  BY <1>1, TopFrames, FrameFacts DEF DispatchInv
<1>5. \/ /\ w \in consumers /\ waiters' = [waiters EXCEPT ![w] = {}] /\ Frames' = {a, b}
      \/ Frames' = {b} /\ waiters' = waiters
  <2>1. \/ /\ w \in consumers /\ waiters' = [waiters EXCEPT ![w] = {}]
           /\ stack' = <<a, b>> \o Rest
        \/ stack' = <<b>> \o Rest /\ waiters' = waiters
    BY <1>2 DEF RunNext
  <2>2. <<a, b>> \o Rest = <<a, b>> /\ <<b>> \o Rest = <<b>>
    BY <1>4, AboveEmpty
  <2>3. stack' = <<a, b>> => Frames' = {a, b}
    BY FewFrames DEF Frames
  <2>4. stack' = <<b>> => Frames' = {b}
    BY FewFrames DEF Frames
  <2> HIDE DEF w
  <2> QED BY <2>1, <2>2, <2>3, <2>4
<1> HIDE DEF w, list
<1>6. /\ Below("run") /\ Below("run")' /\ ~Below("cancel")'
      /\ \A v : ~RmOf(v) /\ ~RmOf(v)'
  BY <1>1, <1>3, <1>4, <1>5, BelowFrames DEF RmOf
<1>7. ~Over /\ ~Over'
  BY <1>6 DEF Over
<1>8. NoneGone' /\ bad' = {}
  BY <1>1 DEF SafeInv, NoneGone
<1>9. PhaseInv' /\ EntryInv'
  <2>1. \A v : Coming(v)' => Coming(v)
    <3>1. UNCHANGED <<queue, buf>>
      BY DEF RunNext, kernelVars
    <3> QED BY <1>3, <1>5, <3>1, ComingFrames DEF Among
  <2> QED BY <1>1, <1>6, <1>7, <2>1 DEF SafeInv, PhaseInv, EntryInv
<1>10. SweepInv' /\ WalkInv'
  BY <1>3, <1>5, <1>6 DEF SweepInv, WalkInv
<1>11. KeptInv'
  <2>1. SUFFICES ASSUME NEW u \in Tasks, st[u] = "waiting" PROVE InMap(u)' \/ InHand(u)'
    BY <1>1 DEF KeptInv
  <2>2. InMap(u)
    BY <1>1, <1>4, <2>1 DEF SafeInv, KeptInv, InHand
  <2>3. CASE Frames' = {b} /\ waiters' = waiters
    BY <1>1, <2>2, <2>3 DEF InMap
  <2>4. CASE waiters' = [waiters EXCEPT ![w] = {}] /\ Frames' = {a, b} /\ on[u] = w
    BY <1>3, <2>2, <2>4 DEF InMap, InHand
  <2>5. CASE waiters' = [waiters EXCEPT ![w] = {}] /\ on[u] # w
    <3>1. waiters'[on[u]] = waiters[on[u]] /\ on'[u] = on[u]
      BY <1>1, <2>2, <2>5 DEF InMap, DispatchInv, TypeOK
    <3> QED BY <1>1, <2>2, <3>1 DEF InMap
  <2> QED BY <1>5, <2>3, <2>4, <2>5
<1> QED BY <1>8, <1>9, <1>10, <1>11 DEF SafeInv

\* cancel_consumers begins with the first entry and no waiter in hand.
LEMMA StartCancelSafe ==
    ASSUME InotifyAssumption, DispatchInv, SafeInv, canceled, read' = "none",
           \A g \in Frames : g.f = "run", stack' = <<CancelFrame(Above(None), {})>>,
           UNCHANGED <<kernel, open, made, alive, canceled, consumers, buff, waiters, st, on, bad>>
    PROVE  SafeInv'
<1>1. PICK e : e = CancelFrame(Above(None), {})
  OBVIOUS
<1>2. e.f = "cancel" /\ e.it = Above(None) /\ e.todo = {}
  BY <1>1 DEF CancelFrame
<1>3. Frames' = {e}
  BY <1>1, FewFrames DEF Frames
<1>4. /\ ~Below("run")' /\ ~Below("cancel")
      /\ \A w : ~RmOf(w) /\ ~RmOf(w)'
  BY <1>2, <1>3, BelowFrames DEF RmOf
<1>5. Over'
  BY <1>4 DEF Over
<1>6. e.it \in consumers' \cup {None}
  <2>1. None \in Nat
    BY DEF None
  <2> QED BY <1>2, <2>1, AboveInMap
<1>7. PhaseInv' /\ EntryInv'
  BY <1>4, <1>5 DEF SafeInv, PhaseInv, EntryInv
<1>8. SweepInv' /\ WalkInv'
  BY <1>2, <1>3, <1>4, <1>6 DEF SweepInv, WalkInv
<1>9. KeptInv' /\ NoneGone'
  BY DEF SafeInv, NoneGone, KeptInv, InMap, InHand
<1> QED BY <1>7, <1>8, <1>9 DEF SafeInv

LEMMA RunEndsSafe ==
    ASSUME InotifyAssumption, DispatchInv, SafeInv, RunAgain \/ RunCanceled
    PROVE  SafeInv'
<1>1. UNCHANGED <<kernel, open, made, alive, canceled, consumers, buff, waiters, st, on, bad>>
  BY DEF RunAgain, RunCanceled, mapVars, taskVars
<1>2. CASE RunCanceled
  <2>1. /\ stack = <<>> /\ read = "canceled" /\ read' = "none"
        /\ stack' = <<CancelFrame(Above(None), {})>>
    BY <1>2 DEF RunCanceled, Idle
  <2>2. canceled /\ Frames = {}
    BY <2>1, FewFrames DEF SafeInv, PhaseInv, Frames
  <2> QED BY <1>1, <2>1, <2>2, StartCancelSafe
<1>3. CASE RunAgain
  <2>1. stack # <<>> /\ Head(stack).f = "run"
    BY <1>3 DEF RunAgain, Top
  <2>2. Rest = <<>> /\ Frames = {Head(stack)}
    BY <2>1, TopFrames, FrameFacts DEF DispatchInv
  <2>3. read = "none"
    BY <2>1, <2>2, BelowFrames DEF SafeInv, PhaseInv
  <2>4. CASE canceled
    <3>1. read' = "none" /\ stack' = <<CancelFrame(Above(None), {})>> \o Rest
      BY <1>3, <2>3, <2>4 DEF RunAgain
    <3>2. PICK e : e = CancelFrame(Above(None), {})
      OBVIOUS
    <3>3. stack' = <<e>>
      BY <2>2, <3>1, <3>2, AboveEmpty
    <3> QED BY <1>1, <2>1, <2>2, <2>4, <3>1, <3>2, <3>3, StartCancelSafe
  <2>5. CASE ~canceled
    <3>1. read' = "pending" /\ stack' = <<>>
      BY <1>3, <2>2, <2>5 DEF RunAgain
    <3>2. Frames' = {}
      BY <3>1, FewFrames DEF Frames
    <3>3. \A f : ~Below(f)'
      BY <3>2, BelowFrames
    <3>4. \A w : ~RmOf(w) /\ ~RmOf(w)'
      BY <2>1, <2>2, <3>2 DEF RmOf
    <3>5. ~Over /\ ~Over'
      BY <1>1, <2>5 DEF Over
    <3>9. \A v : Coming(v)' => Coming(v)
      <4>1. UNCHANGED <<queue, buf>>
        BY <1>3 DEF RunAgain
      <4> QED BY <3>2, <4>1, ComingSame
    <3>6. PhaseInv' /\ EntryInv'
      BY <1>1, <2>5, <3>1, <3>3, <3>4, <3>5, <3>9 DEF SafeInv, PhaseInv, EntryInv
    <3>7. SweepInv' /\ WalkInv'
      BY <3>2, <3>3 DEF SweepInv, WalkInv
    <3>8. KeptInv' /\ NoneGone'
      BY <1>1, <2>1, <2>2 DEF SafeInv, NoneGone, KeptInv, InMap, InHand
    <3> QED BY <1>1, <3>6, <3>7, <3>8 DEF SafeInv
  <2> QED BY <2>4, <2>5
<1> QED BY <1>2, <1>3
-----------------------------------------------------------------------------
(* What the tasks do.                                                      *)

\* Only the calls of tasks come and go.
LEMMA SameCalls ==
    ASSUME \A e \in Frames' : e \in Frames \/ e.f = "user",
           \A e \in Frames : e \in Frames' \/ e.f = "user",
           UNCHANGED <<read, canceled>>
    PROVE  /\ \A f : f # "user" => (Below(f)' <=> Below(f))
           /\ \A w : RmOf(w)' <=> RmOf(w)
           /\ Over' <=> Over
           /\ UNCHANGED <<queue, buf>> => \A w : Coming(w)' => Coming(w)
<1>1. \A f : f # "user" => (Below(f)' <=> Below(f))
  BY BelowFrames
<1>2. \A w : RmOf(w)' <=> RmOf(w)
  BY DEF RmOf
<1>3. Over' <=> Over
  BY <1>1 DEF Over
<1>4. UNCHANGED <<queue, buf>> => \A w : Coming(w)' => Coming(w)
  BY ComingSame
<1> QED BY <1>1, <1>2, <1>3, <1>4

LEMMA LeaveSafe ==
    ASSUME DispatchInv, DispatchInv', SafeInv, NEW t \in Tasks, Leave(t)
    PROVE  SafeInv'
<1>1. /\ stack # <<>> /\ Head(stack).f = "user" /\ stack' = Rest
      /\ st' = [st EXCEPT ![t] = "free"]
      /\ UNCHANGED <<kernel, queue, open, read, buf, made, alive, canceled, consumers, buff, waiters,
                     on, bad>>
  BY DEF Leave, Top, kernelVars, mapVars
<1>2. \A u \in Tasks : st'[u] = IF u = t THEN "free" ELSE st[u]
  <2>1. st \in [Tasks -> {"free", "waiting", "running", "gone"}]
    BY DEF DispatchInv, TypeOK
  <2> QED BY <1>1, <2>1
<1>3. NoneGone' /\ \A u \in Tasks : st'[u] = "waiting" => st[u] = "waiting"
  BY <1>2 DEF SafeInv, NoneGone
<1>4. \A u \in Tasks : InMap(u) => InMap(u)'
  BY <1>1 DEF InMap
<1>5. \A g \in FramesOf(Rest) : g.f = "rm" => waiters'[g.wd] = waiters[g.wd]
  BY <1>1
<1> QED BY <1>1, <1>3, <1>4, <1>5, ReturnSafe

\* No walk goes over the waiters of a watch whose object exists.
LEMMA NoWalk ==
    ASSUME InotifyAssumption, DispatchInv, SafeInv, NEW w \in kernel
    PROVE  ~RmOf(w)
<1>1. w \in Wds
  <2>1. kernel \subseteq 1..made /\ made \in 0..MaxWds
    BY DEF DispatchInv, TypeOK
  <2>2. w \in 1..made
    BY <2>1
  <2>3. MaxWds \in Nat
    BY DEF InotifyAssumption
  <2> QED BY <2>1, <2>2, <2>3 DEF Wds
<1>2. CASE open
  <2>1. w \in alive
    BY <1>2 DEF SafeInv, EntryInv
  <2>2. RmInv
    BY DEF DispatchInv, SafeInv, PlaceInv
  <2>3. \A e \in Frames : e.f = "rm" => e.wd \notin alive
    BY <2>2 DEF RmInv, Frames, FramesOf
  <2> QED BY <2>1, <2>3 DEF RmOf
<1>3. CASE ~open
  BY <1>1, <1>3 DEF SafeInv, PhaseInv
<1> QED BY <1>2, <1>3

\* A task waits on a watch that nobody removes.
LEMMA WaitSafe ==
    ASSUME InotifyAssumption, DispatchInv, DispatchInv', SafeInv, Careful,
           NEW t \in Tasks, NEW w \in Wds, Wait(t, w)
    PROVE  SafeInv'
<1>1. /\ Acting(t) /\ consumers' = consumers \cup {w} /\ w \in kernel /\ ~Over
      /\ buff' = [buff EXCEPT ![w] = IF w \in consumers THEN @ ELSE "null"]
      /\ waiters' = [waiters EXCEPT ![w] = @ \cup {t}]
      /\ st' = [st EXCEPT ![t] = "waiting"] /\ on' = [on EXCEPT ![t] = w]
      /\ UNCHANGED <<kernel, queue, open, read, buf, made, alive, canceled, bad>>
  BY DEF Wait, CanWait, kernelVars
<1>2. ~RmOf(w)
  BY <1>1, NoWalk
<1>3. FramesOf(Callers) \subseteq Frames /\ \A e \in Frames : e \in FramesOf(Callers) \/ e.f = "user"
  <2>1. CASE Top("user")
    <3>1. stack # <<>> /\ Head(stack).f = "user" /\ Callers = Rest
      BY <2>1 DEF Top, Callers
    <3> QED BY <3>1, TopFrames DEF DispatchInv
  <2>2. CASE ~Top("user")
    BY <2>2 DEF Callers, Frames
  <2> QED BY <2>1, <2>2
<1>4. Frames' = FramesOf(Callers)
  <2>1. PICK visited \in SUBSET {i \in DOMAIN Callers :
                                 Callers[i].f = "rm" /\ Callers[i].wd = w /\ Callers[i].next # {}} :
           stack' = [i \in DOMAIN Callers |->
                       IF i \in visited THEN [Callers[i] EXCEPT !.todo = @ \cup {t}]
                       ELSE Callers[i]]
    BY DEF Wait
  <2>2. visited = {}
    <3>1. \A i \in DOMAIN Callers : ~(Callers[i].f = "rm" /\ Callers[i].wd = w)
      BY <1>2, <1>3 DEF RmOf, FramesOf
    <3> QED BY <3>1
  <2>3. stack' = [i \in DOMAIN Callers |-> Callers[i]]
    BY <2>1, <2>2
  <2> QED BY <2>3 DEF Frames, FramesOf
<1>5. Frames' \subseteq Frames /\ \A e \in Frames : e \in Frames' \/ e.f = "user"
  BY <1>3, <1>4
<1>6. /\ \A f : f # "user" => (Below(f)' <=> Below(f))
      /\ \A v : RmOf(v)' <=> RmOf(v)
      /\ Over' <=> Over
      /\ \A v : Coming(v)' => Coming(v)
  BY <1>1, <1>5, SameCalls
<1>7. /\ \A v \in Wds : /\ waiters'[v] = IF v = w THEN waiters[v] \cup {t} ELSE waiters[v]
                        /\ v # w => buff'[v] = buff[v]
                        /\ w \in consumers => buff'[v] = buff[v]
      /\ \A u \in Tasks : /\ st'[u] = IF u = t THEN "waiting" ELSE st[u]
                          /\ on'[u] = IF u = t THEN w ELSE on[u]
  <2>1. /\ waiters \in [Wds -> SUBSET Tasks] /\ buff \in [Wds -> {"null", "live", "freed"}]
        /\ st \in [Tasks -> {"free", "waiting", "running", "gone"}]
        /\ on \in [Tasks -> Wds \cup {None}]
    BY DEF DispatchInv, TypeOK
  <2> QED BY <1>1, <2>1
<1>8. NoneGone' /\ bad' = {}
  BY <1>1, <1>7 DEF SafeInv, NoneGone
<1>9. PhaseInv'
  BY <1>1, <1>6 DEF SafeInv, PhaseInv
<1>10. EntryInv'
  <2>1. SUFFICES ASSUME open PROVE EntryInv'
    BY <1>1 DEF EntryInv
  <2>2. w \in consumers /\ consumers' = consumers /\ consumers \subseteq Wds
    BY <1>1, <2>1 DEF SafeInv, EntryInv, DispatchInv, TypeOK
  <2> QED BY <1>1, <1>6, <1>7, <2>2 DEF SafeInv, EntryInv
<1>11. SweepInv'
  BY <1>1, <1>5, <1>6 DEF SafeInv, SweepInv
<1>12. WalkInv'
  <2>1. SUFFICES ASSUME NEW e \in Frames, e.f = "rm"
                 PROVE  waiters'[e.wd] = e.next \cup e.todo /\ (e.next = {} => e.todo = {})
    BY <1>5 DEF WalkInv
  <2>2. e \in RmFrames /\ e.wd # w
    BY <1>2, <2>1, FrameFacts DEF RmOf, DispatchInv, IsFrame
  <2>3. waiters'[e.wd] = waiters[e.wd]
    BY <1>7, <2>2 DEF RmFrames
  <2> QED BY <2>1, <2>3 DEF SafeInv, WalkInv
<1>13. KeptInv'
  <2>1. SUFFICES ASSUME NEW u \in Tasks, st'[u] = "waiting" PROVE InMap(u)' \/ InHand(u)'
    BY DEF KeptInv
  <2>2. CASE u = t
    BY <1>1, <1>7, <2>2 DEF InMap
  <2>3. CASE u # t
    <3>1. st[u] = "waiting" /\ on'[u] = on[u]
      BY <1>7, <2>1, <2>3
    <3>2. InMap(u) => InMap(u)'
      <4>1. ASSUME InMap(u) PROVE u \in waiters'[on[u]] /\ on[u] \in consumers'
        <5>1. on[u] \in Wds
          BY <4>1 DEF InMap, DispatchInv, TypeOK
        <5> QED BY <1>1, <1>7, <4>1, <5>1 DEF InMap
      <4> QED BY <3>1, <4>1 DEF InMap
    <3>3. InHand(u) => InHand(u)'
      BY <1>5 DEF InHand
    <3> QED BY <3>1, <3>2, <3>3 DEF SafeInv, KeptInv
  <2> QED BY <2>2, <2>3
<1> QED BY <1>8, <1>9, <1>10, <1>11, <1>12, <1>13 DEF SafeInv

\* The walk that the destructor of a watch starts meets all its waiters, and
\* cancel_consumers does not run.
LEMMA UnwatchSafe ==
    ASSUME DispatchInv, DispatchInv', SafeInv, Careful,
           NEW t \in Tasks, NEW w \in Wds, Unwatch(t, w)
    PROVE  SafeInv'
<1>1. /\ w \in alive /\ ~Below("cancel") /\ alive' = alive \ {w}
      /\ open /\ w \notin kernel => ~Coming(w)
      /\ buff' = [buff EXCEPT ![w] = "freed"]
      /\ UNCHANGED <<open, read, buf, made, canceled, consumers, waiters, st, on, bad>>
  BY DEF Unwatch, CanUnwatch, taskVars
<1>2. \A v \in Wds : v # w => buff'[v] = buff[v]
  BY <1>1 DEF DispatchInv, TypeOK
<1>3. NoneGone' /\ bad' = {}
  BY <1>1 DEF SafeInv, NoneGone
<1>4. open => kernel \subseteq alive /\ (~Over => alive \subseteq consumers)
  BY DEF SafeInv, EntryInv
<1>5. consumers \subseteq Wds
  BY DEF DispatchInv, TypeOK
<1>6. CASE /\ stack' = stack
           /\ open /\ w \in kernel => kernel' = kernel \ {w} /\ w \notin consumers
           /\ open /\ w \notin kernel => UNCHANGED <<kernel, queue>>
  <2>1. Frames' = Frames
    BY <1>6 DEF Frames
  <2>2. /\ \A f : f # "user" => (Below(f)' <=> Below(f))
        /\ \A v : RmOf(v)' <=> RmOf(v)
        /\ Over' <=> Over
        /\ UNCHANGED <<queue, buf>> => \A v : Coming(v)' => Coming(v)
    BY <1>1, <2>1, SameCalls
  <2>3. PhaseInv'
    BY <1>1, <2>2 DEF SafeInv, PhaseInv
  <2>4. EntryInv'
    <3>1. SUFFICES ASSUME open PROVE EntryInv'
      BY <1>1 DEF EntryInv
    <3>2. kernel' \subseteq alive'
      BY <1>1, <1>4, <1>6, <3>1
    <3>3. ASSUME ~Over, w \notin kernel, NEW v \in consumers
          PROVE  IF v \in alive' THEN buff'[v] = "live" ELSE RmOf(v)' \/ ~Coming(v)'
      <4>1. UNCHANGED <<queue, buf>>
        BY <1>1, <1>6, <3>1, <3>3
      <4>2. CASE v = w
        BY <1>1, <2>2, <3>1, <3>3, <4>1, <4>2
      <4>3. CASE v # w
        BY <1>1, <1>2, <1>5, <2>2, <3>1, <3>3, <4>1, <4>3 DEF SafeInv, EntryInv
      <4> QED BY <4>2, <4>3
    <3>4. ~Over => w \notin kernel /\ alive' \subseteq consumers'
      BY <1>1, <1>4, <1>6, <3>1
    <3> QED BY <1>1, <2>2, <3>2, <3>3, <3>4 DEF EntryInv
  <2>5. SweepInv' /\ WalkInv'
    BY <1>1, <2>1, <2>2 DEF SafeInv, SweepInv, WalkInv
  <2>6. KeptInv'
    BY <1>1, <2>1 DEF SafeInv, KeptInv, InMap, InHand
  <2> QED BY <1>3, <2>3, <2>4, <2>5, <2>6 DEF SafeInv
<1>7. CASE open /\ kernel' = kernel \ {w} /\ queue' = Append(queue, w) /\ StartRm(w, stack)
  <2>1. PICK next \in OneOf(waiters[w]) : stack' = <<RmFrame(w, next, waiters[w] \ next)>> \o stack
    BY <1>7 DEF StartRm
  <2>2. next \subseteq waiters[w] /\ (next = {} => waiters[w] = {})
    <3>1. waiters[w] = {} => next = {}
      BY <2>1 DEF OneOf
    <3>2. waiters[w] # {} => \E v \in waiters[w] : next = {v}
      BY <2>1 DEF OneOf
    <3> QED BY <3>1, <3>2
  <2>3. PICK e : e = RmFrame(w, next, waiters[w] \ next)
    OBVIOUS
  <2>4. e.f = "rm" /\ e.wd = w /\ e.next = next /\ e.todo = waiters[w] \ next
    BY <2>3 DEF RmFrame
  <2>5. Frames' = {e} \cup Frames
    <3>1. PICK F : stack \in Seq(F)
      BY DEF DispatchInv, StackInv
    <3>2. FramesOf(<<e>> \o stack) = {e} \cup FramesOf(stack)
      BY <3>1, PushedFrames
    <3> QED BY <2>1, <2>3, <3>2 DEF Frames
  <2>6. /\ Below("run")' <=> Below("run")
        /\ ~Below("cancel")'
        /\ \A v : RmOf(v)' <=> RmOf(v) \/ v = w
    BY <1>1, <2>4, <2>5, BelowFrames DEF RmOf
  <2>7. Over' <=> Over
    BY <1>1, <2>6 DEF Over
  <2>8. PhaseInv'
    BY <1>1, <1>7, <2>6 DEF SafeInv, PhaseInv
  <2>9. EntryInv'
    <3>1. kernel' \subseteq alive'
      BY <1>1, <1>4, <1>7
    <3>2. \A v : v # w /\ ~Coming(v) => ~Coming(v)'
      <4>1. buf' = buf /\ \A e1 \in Frames' : e1.f = "run" => e1 \in Frames
        BY <1>1, <2>4, <2>5
      <4> QED BY <1>7, <4>1, AppendsAmong, ComingFrames
    <3>3. ASSUME ~Over, NEW v \in consumers
          PROVE  IF v \in alive' THEN buff'[v] = "live" ELSE RmOf(v)' \/ ~Coming(v)'
      <4>1. CASE v = w
        BY <1>1, <2>6, <4>1
      <4>2. CASE v # w
        BY <1>1, <1>2, <1>5, <1>7, <2>6, <3>2, <3>3, <4>2 DEF SafeInv, EntryInv
      <4> QED BY <4>1, <4>2
    <3> QED BY <1>1, <1>4, <1>7, <2>7, <3>1, <3>3 DEF EntryInv
  <2>10. SweepInv'
    BY <1>1, <2>4, <2>5, <2>6 DEF SafeInv, SweepInv
  <2>11. WalkInv'
    BY <1>1, <2>2, <2>4, <2>5 DEF SafeInv, WalkInv
  <2>12. KeptInv'
    BY <1>1, <2>5 DEF SafeInv, KeptInv, InMap, InHand
  <2> QED BY <1>3, <2>8, <2>9, <2>10, <2>11, <2>12 DEF SafeInv
<1>8. CASE ~(open /\ w \in kernel /\ w \in consumers)
  BY <1>6, <1>8 DEF Unwatch
<1> QED BY <1>7, <1>8 DEF Unwatch

\* Nobody walks the watch of a waiter that is canceled or destroyed.
LEMMA TakenSafe ==
    ASSUME DispatchInv, DispatchInv', SafeInv, Careful, NEW u \in Tasks, NEW S \in {"running", "free"},
           CanCancel(u), InMap(u), EraseWaiter(on[u], u), st' = [st EXCEPT ![u] = S],
           \/ stack' = WithoutWaiter(on[u], u)
           \/ stack' = <<UserFrame(u)>> \o WithoutWaiter(on[u], u),
           UNCHANGED <<kernelVars, made, alive, canceled, consumers, buff, count, on, since>>
    PROVE  SafeInv'
<1> DEFINE hit == \E i \in DOMAIN stack :
                     stack[i].f = "rm" /\ stack[i].wd = on[u] /\ stack[i].next = {u}
           r == WithoutWaiter(on[u], u)
<1>1. /\ on[u] \in consumers
      /\ waiters' = [waiters EXCEPT ![on[u]] = @ \ {u}]
      /\ bad' = IF hit THEN bad \cup {"rm iterator"} ELSE bad
      /\ stack' = r \/ stack' = <<UserFrame(u)>> \o r
      /\ UNCHANGED <<kernel, queue, open, read, buf, made, alive, canceled, consumers, buff, on>>
  BY DEF InMap, EraseWaiter, kernelVars
<1>2. \A i \in DOMAIN stack : stack[i].f = "rm" => stack[i].wd # on[u]
  BY DEF CanCancel
<1>3. FramesOf(r) = Frames /\ \E F : r \in Seq(F)
  <2>1. /\ DOMAIN r = 1..Len(stack) /\ DOMAIN stack = 1..Len(stack) /\ \E F : r \in Seq(F)
        /\ \A i \in 1..Len(stack) :
              \/ r[i] = stack[i] /\ (stack[i].f = "rm" => stack[i].wd # on[u])
              \/ stack[i].f = "rm" /\ stack[i].wd = on[u]
    BY WithoutFrames DEF DispatchInv
  <2> HIDE DEF r
  <2>2. \A i \in DOMAIN stack : r[i] = stack[i]
    BY <1>2, <2>1
  <2> QED BY <2>1, <2>2 DEF Frames, FramesOf
<1> HIDE DEF r
<1>4. PICK c : c = UserFrame(u)
  OBVIOUS
<1>5. c.f = "user" /\ Frames \subseteq Frames' /\ Frames' \subseteq {c} \cup Frames
  <2>1. c.f = "user"
    BY <1>4 DEF UserFrame
  <2>2. PICK F : r \in Seq(F)
    BY <1>3
  <2>3. FramesOf(<<c>> \o r) = {c} \cup FramesOf(r)
    BY <2>2, PushedFrames
  <2> QED BY <1>1, <1>3, <1>4, <2>1, <2>3 DEF Frames
<1>6. ~hit
  BY <1>2
<1>7. bad' = {}
  BY <1>1, <1>6 DEF SafeInv
<1> HIDE DEF hit
<1>8. /\ \A f : f # "user" => (Below(f)' <=> Below(f))
      /\ \A v : RmOf(v)' <=> RmOf(v)
      /\ Over' <=> Over
      /\ \A v : Coming(v)' => Coming(v)
  BY <1>1, <1>5, SameCalls
<1>9. on[u] \in Wds
  BY <1>1 DEF DispatchInv, TypeOK
<1>10. /\ \A v \in Wds : waiters'[v] = IF v = on[u] THEN waiters[v] \ {u} ELSE waiters[v]
       /\ \A v \in Tasks : st'[v] = IF v = u THEN S ELSE st[v]
  <2>1. /\ waiters \in [Wds -> SUBSET Tasks]
        /\ st \in [Tasks -> {"free", "waiting", "running", "gone"}]
    BY DEF DispatchInv, TypeOK
  <2> QED BY <1>1, <1>9, <2>1
<1>11. NoneGone'
  BY <1>10 DEF SafeInv, NoneGone
<1>12. PhaseInv' /\ EntryInv'
  <2>1. PhaseInv'
    <3>1. UNCHANGED <<read, open, canceled>> /\ PhaseInv
      BY <1>1 DEF SafeInv
    <3>2. (Below("run")' <=> Below("run")) /\ (Below("cancel")' <=> Below("cancel"))
      BY <1>8
    <3> QED BY ONLY <3>1, <3>2, <1>8 DEF PhaseInv
  <2>2. EntryInv'
    BY <1>1, <1>8 DEF SafeInv, EntryInv
  <2> QED BY <2>1, <2>2
<1>13. SweepInv'
  BY <1>1, <1>5, <1>8 DEF SafeInv, SweepInv
<1>14. WalkInv'
  <2>1. SUFFICES ASSUME NEW e \in Frames, e.f = "rm"
                 PROVE  waiters'[e.wd] = e.next \cup e.todo /\ (e.next = {} => e.todo = {})
    BY <1>5 DEF WalkInv
  <2>2. e \in RmFrames /\ e.wd # on[u]
    <3>1. e \in RmFrames
      BY <2>1, FrameFacts DEF DispatchInv, IsFrame
    <3>2. e.wd # on[u]
      BY <1>2, <2>1 DEF Frames, FramesOf
    <3> QED BY <3>1, <3>2
  <2>3. waiters'[e.wd] = waiters[e.wd]
    BY <1>10, <2>2 DEF RmFrames
  <2> QED BY <2>1, <2>3 DEF SafeInv, WalkInv
<1>15. KeptInv'
  <2>1. SUFFICES ASSUME NEW v \in Tasks, st'[v] = "waiting" PROVE InMap(v)' \/ InHand(v)'
    BY DEF KeptInv
  <2>2. v # u /\ st[v] = "waiting" /\ on'[v] = on[v] /\ consumers' = consumers
    <3>1. on' = on /\ consumers' = consumers
      BY <1>1
    <3>2. st'[v] = IF v = u THEN S ELSE st[v]
      BY <1>10
    <3> QED BY <2>1, <3>1, <3>2
  <2>3. InMap(v) => InMap(v)'
    <3>1. ASSUME InMap(v) PROVE v \in waiters'[on[v]]
      <4>1. on[v] \in Wds
        BY <3>1 DEF InMap, DispatchInv, TypeOK
      <4> QED BY <1>10, <2>2, <3>1, <4>1 DEF InMap
    <3> QED BY <2>2, <3>1 DEF InMap
  <2>4. InHand(v) => InHand(v)'
    BY <1>5 DEF InHand
  <2> QED BY <2>2, <2>3, <2>4 DEF SafeInv, KeptInv
<1> QED BY <1>7, <1>11, <1>12, <1>13, <1>14, <1>15 DEF SafeInv

LEMMA CancelSafe ==
    ASSUME DispatchInv, DispatchInv', SafeInv, Careful,
           NEW t \in Tasks, NEW u \in Tasks, Cancel(t, u)
    PROVE  SafeInv'
BY TakenSafe DEF Cancel

LEMMA DestroySafe ==
    ASSUME DispatchInv, DispatchInv', SafeInv, Careful,
           NEW t \in Tasks, NEW u \in Tasks, Destroy(t, u)
    PROVE  SafeInv'
BY TakenSafe DEF Destroy, CanDestroy
-----------------------------------------------------------------------------
(* The theorems.                                                           *)

LEMMA SafeInit ==
    ASSUME InotifyAssumption, Init
    PROVE  SafeInv
<1>1. /\ kernel = {} /\ open = TRUE /\ alive = {} /\ read = "pending" /\ canceled = FALSE
      /\ consumers = {} /\ st = [t \in Tasks |-> "free"] /\ stack = <<>> /\ bad = {}
  BY DEF Init
<1>2. Frames = {}
  BY <1>1, FewFrames DEF Frames
<1>3. (\A f : ~Below(f)) /\ \A w : ~RmOf(w)
  BY <1>2, BelowFrames DEF RmOf
<1>4. NoneGone /\ KeptInv
  BY <1>1 DEF NoneGone, KeptInv
<1>5. PhaseInv /\ EntryInv
  BY <1>1, <1>3 DEF PhaseInv, EntryInv
<1>6. SweepInv /\ WalkInv
  BY <1>2, <1>3 DEF SweepInv, WalkInv
<1> QED BY <1>1, <1>4, <1>5, <1>6 DEF SafeInv

LEMMA SafeNext ==
    ASSUME InotifyAssumption, Careful, DispatchInv, DispatchInv', SafeInv, RoundInv, [Next]_vars
    PROVE  SafeInv'
<1>1. CASE Dispatch
  BY <1>1, RunEventsSafe, PushEventSafe, RunNextSafe, RunEndsSafe, WakeNextSafe, CancelNextSafe, RmNextSafe
     DEF Dispatch
<1>2. CASE Kernel \/ Stop \/ Close
  BY <1>2, KernelSafe
<1>3. ASSUME NEW t \in Tasks, TaskStep(t) PROVE SafeInv'
  BY <1>3, WatchSafe, LeaveSafe, WaitSafe, UnwatchSafe, CancelSafe, DestroySafe DEF TaskStep
<1>4. CASE UNCHANGED vars
  <2>1. UNCHANGED <<kernel, queue, open, read, buf, made, alive, canceled, consumers, buff, waiters,
                    st, on, stack, bad>>
    BY <1>4 DEF vars, kernelVars, mapVars, taskVars
  <2>2. /\ NoneGone' /\ bad' = {} /\ \A f : Below(f)' <=> Below(f)
        /\ \A w : RmOf(w)' <=> RmOf(w)
        /\ SweepInv' /\ WalkInv' /\ KeptInv'
    BY <2>1, QuietSafe
  <2>3. Over' <=> Over
    BY <2>1, <2>2 DEF Over
  <2>5. \A v : Coming(v)' => Coming(v)
    BY <2>1, ComingSame DEF Frames
  <2>4. PhaseInv' /\ EntryInv'
    BY <2>1, <2>2, <2>3, <2>5 DEF SafeInv, PhaseInv, EntryInv
  <2> QED BY <2>2, <2>4 DEF SafeInv
<1> QED BY <1>1, <1>2, <1>3, <1>4 DEF Next, Ended
-----------------------------------------------------------------------------
(* No wakeup is lost, whatever the tasks do: a waiter that is in the map   *)
(* and has been passed by an event has its watch among those of the round. *)

Noted(w) == \E e \in Rounds : \E k \in DOMAIN e.list : e.list[k] = w
Late(t)  == st[t] = "waiting" /\ InMap(t) /\ count[on[t]] # since[t]

EmptyInv == \A w \in Wds \ consumers : waiters[w] = {}
LateInv  == bad = {} => \A t \in Tasks : Late(t) => Noted(on[t])
LostInv  == RoundInv /\ EmptyInv /\ LateInv

\* Steps that add no waiter and no event, and leave the round alone.
LEMMA FewerLate ==
    ASSUME TypeOK, LostInv, bad = {}, Rounds' = Rounds, UNCHANGED <<on, since, count>>,
           consumers' \subseteq consumers,
           \A w \in Wds : waiters'[w] \subseteq waiters[w],
           \A w \in Wds \ consumers' : waiters'[w] = {},
           \A t \in Tasks : st'[t] = "waiting" => st[t] = "waiting"
    PROVE  LostInv'
<1>1. RoundInv'
  BY DEF LostInv, RoundInv
<1>2. EmptyInv'
  BY DEF EmptyInv
<1>3. ASSUME NEW t \in Tasks, Late(t)' PROVE Noted(on[t])'
  <2>1. st[t] = "waiting" /\ on[t] \in consumers' /\ t \in waiters'[on[t]] /\ count[on[t]] # since[t]
    BY <1>3 DEF Late, InMap
  <2>2. on[t] \in Wds /\ on[t] \in consumers
    BY <2>1 DEF TypeOK
  <2>3. Late(t)
    BY <2>1, <2>2 DEF Late, InMap
  <2>4. Noted(on[t])
    BY <2>3 DEF LostInv, LateInv
  <2> QED BY <2>4 DEF Noted
<1> QED BY <1>1, <1>2, <1>3 DEF LostInv, LateInv

LEMMA ReturnRounds ==
    ASSUME StackInv, stack # <<>>, Head(stack).f # "run", stack' = Rest
    PROVE  Rounds' = Rounds
<1>1. Frames = {Head(stack)} \cup FramesOf(Rest) /\ Frames' = FramesOf(Rest)
  BY TopFrames DEF Frames
<1> QED BY <1>1 DEF Rounds

LEMMA PushedRounds ==
    ASSUME StackInv, NEW e, e.f # "run", stack' = <<e>> \o stack
    PROVE  Rounds' = Rounds
<1>1. Frames' = {e} \cup Frames
  BY PushedFrames DEF StackInv, Frames
<1> QED BY <1>1 DEF Rounds

LEMMA CalledRounds ==
    ASSUME StackInv, stack # <<>>, Head(stack).f # "run", NEW e, e.f # "run",
           \/ stack' = <<e>> \o Rest
           \/ \E u \in Tasks : stack' = <<UserFrame(u)>> \o (<<e>> \o Rest)
    PROVE  Rounds' = Rounds
<1>1. PICK F : stack \in Seq(F)
  BY DEF StackInv
<1>2. Rest \in Seq(F)
  BY <1>1, PopFrame DEF Rest
<1>3. <<e>> \o Rest \in Seq(F \cup {e}) /\ FramesOf(<<e>> \o Rest) = {e} \cup FramesOf(Rest)
  BY <1>2, PushFrame, PushedFrames
<1>4. Frames = {Head(stack)} \cup FramesOf(Rest)
  BY TopFrames
<1>5. CASE stack' = <<e>> \o Rest
  <2>1. Frames' = {e} \cup FramesOf(Rest)
    BY <1>3, <1>5 DEF Frames
  <2> QED BY <1>4, <2>1 DEF Rounds
<1>6. ASSUME NEW u \in Tasks, stack' = <<UserFrame(u)>> \o (<<e>> \o Rest) PROVE Rounds' = Rounds
  <2>1. PICK c : c = UserFrame(u)
    OBVIOUS
  <2>2. c.f = "user"
    BY <2>1 DEF UserFrame
  <2>3. FramesOf(<<c>> \o (<<e>> \o Rest)) = {c} \cup FramesOf(<<e>> \o Rest)
    BY <1>3, PushedFrames
  <2>4. Frames' = {c} \cup ({e} \cup FramesOf(Rest))
    BY <1>3, <1>6, <2>1, <2>3 DEF Frames
  <2> QED BY <1>4, <2>2, <2>4 DEF Rounds
<1> QED BY <1>5, <1>6

\* A loop calls the next of the waiters it has in hand.
LEMMA ResumeRounds ==
    ASSUME TypeOK, StackInv, stack # <<>>, Head(stack).f # "run", NEW t \in Tasks, NEW e, e.f # "run",
           Resume(t, <<e>> \o Rest)
    PROVE  Rounds' = Rounds /\ \A u \in Tasks : st'[u] = "waiting" => st[u] = "waiting"
<1>1. st \in [Tasks -> {"free", "waiting", "running", "gone"}]
  BY DEF TypeOK
<1>2. CASE st' = [st EXCEPT ![t] = "running"] /\ stack' = <<UserFrame(t)>> \o (<<e>> \o Rest)
  BY <1>1, <1>2, CalledRounds
<1>3. CASE st' = st /\ stack' = stack
  BY <1>3 DEF Rounds, Frames
<1> QED BY <1>2, <1>3 DEF Resume

LEMMA RunLost ==
    ASSUME DispatchInv, LostInv, RunEvents \/ PushEvent \/ RunNext \/ RunAgain \/ RunCanceled
    PROVE  LostInv'
<1>1. /\ consumers \subseteq Wds /\ waiters \in [Wds -> SUBSET Tasks] /\ count \in [Wds -> Nat]
      /\ buf \in Seq(Wds)
  BY DEF DispatchInv, TypeOK
<1>2. bad = {} /\ UNCHANGED <<consumers, st, on, since>>
  BY DEF RunEvents, PushEvent, RunNext, RunAgain, RunCanceled, Idle, Top, mapVars, taskVars
<1>3. stack = <<>> => Rounds = {} /\ \A t \in Tasks : ~Late(t)
  <2>1. stack = <<>> => Rounds = {}
    BY FewFrames DEF Rounds, Frames
  <2> QED BY <1>2, <2>1 DEF LostInv, LateInv, Noted
<1>4. stack # <<>> /\ Head(stack).f = "run" =>
        /\ Rest = <<>> /\ Rounds = {Head(stack)}
        /\ Head(stack).left \in Seq(Wds) /\ Head(stack).list \in Seq(Wds)
        /\ \A t \in Tasks : Late(t) =>
              \E k \in DOMAIN Head(stack).list : Head(stack).list[k] = on[t]
  <2>1. ASSUME stack # <<>>, Head(stack).f = "run" PROVE Rest = <<>> /\ Rounds = {Head(stack)}
    BY <2>1, TopFrames, FrameFacts DEF DispatchInv, Rounds
  <2> QED BY <1>2, <2>1 DEF LostInv, RoundInv, LateInv, Noted
<1>5. CASE RunEvents
  <2>1. PICK e : e = RunFrame(buf, <<>>)
    OBVIOUS
  <2>2. e.f = "run" /\ e.left = buf /\ e.list = <<>>
    BY <2>1 DEF RunFrame
  <2>3. stack = <<>> /\ stack' = <<e>> /\ UNCHANGED <<waiters, count>>
    BY <1>5, <2>1 DEF RunEvents, Idle, mapVars
  <2>4. Rounds' = {e}
    BY <2>2, <2>3, FewFrames DEF Rounds, Frames
  <2>5. RoundInv'
    <3>1. <<>> \in Seq(Wds)
      OBVIOUS
    <3> QED BY <1>1, <2>2, <2>4, <3>1 DEF RoundInv
  <2>6. \A t \in Tasks : ~Late(t)'
    BY <1>2, <1>3, <2>3 DEF Late, InMap
  <2> QED BY <1>2, <2>3, <2>5, <2>6 DEF LostInv, EmptyInv, LateInv
<1>6. CASE PushEvent
  <2> DEFINE fr == Head(stack)
             w == Head(fr.left)
  <2>1. stack # <<>> /\ fr.f = "run" /\ fr.left # <<>> /\ waiters' = waiters
    BY <1>6 DEF PushEvent, Top
  <2>2. fr.left \in Seq(Wds) /\ fr.list \in Seq(Wds)
    BY <1>4, <2>1
  <2>3. PICK a, b : a = RunFrame(Tail(fr.left), Append(fr.list, w)) /\ b = RunFrame(Tail(fr.left), fr.list)
    OBVIOUS
  <2>4. /\ a.f = "run" /\ a.left = Tail(fr.left) /\ a.list = Append(fr.list, w)
        /\ b.f = "run" /\ b.left = Tail(fr.left) /\ b.list = fr.list
    BY <2>3 DEF RunFrame
  <2>5. \/ w \in consumers /\ count' = [count EXCEPT ![w] = @ + 1] /\ stack' = <<a>> \o Rest
        \/ w \notin consumers /\ count' = count /\ stack' = <<b>> \o Rest
    BY <1>6, <2>3 DEF PushEvent
  <2>6. Rest = <<>> /\ Rounds = {fr}
    BY <1>4, <2>1
  <2>7. /\ stack' = <<a>> \o Rest => Rounds' = {a}
        /\ stack' = <<b>> \o Rest => Rounds' = {b}
    <3>1. <<a>> \o Rest = <<a>> /\ <<b>> \o Rest = <<b>>
      BY <2>6, AboveEmpty
    <3>2. stack' = <<a>> => Rounds' = {a}
      BY <2>4, FewFrames DEF Rounds, Frames
    <3>3. stack' = <<b>> => Rounds' = {b}
      BY <2>4, FewFrames DEF Rounds, Frames
    <3> QED BY <3>1, <3>2, <3>3
  <2>8. w \in Wds /\ Tail(fr.left) \in Seq(Wds)
    BY <2>1, <2>2, HeadTailProperties
  <2>9. /\ Append(fr.list, w) \in Seq(Wds)
        /\ DOMAIN Append(fr.list, w) = 1..(Len(fr.list) + 1) /\ DOMAIN fr.list = 1..Len(fr.list)
        /\ Len(fr.list) \in Nat
        /\ Append(fr.list, w)[Len(fr.list) + 1] = w
        /\ \A k \in 1..Len(fr.list) : Append(fr.list, w)[k] = fr.list[k]
    BY <2>2, <2>8, AppendProperties, LenProperties
  <2>10. RoundInv'
    BY <2>2, <2>4, <2>5, <2>7, <2>8, <2>9 DEF RoundInv
  <2>11. \A t \in Tasks : Late(t)' => Late(t) \/ (on[t] = w /\ stack' = <<a>> \o Rest)
    <3>1. TAKE t \in Tasks
    <3>2. HAVE Late(t)'
    <3>3. /\ st[t] = "waiting" /\ on[t] \in consumers /\ t \in waiters[on[t]]
          /\ count'[on[t]] # since[t]
      BY <1>2, <2>1, <3>2 DEF Late, InMap
    <3>4. CASE count' = count
      BY <3>3, <3>4 DEF Late, InMap
    <3>5. CASE count' = [count EXCEPT ![w] = @ + 1] /\ stack' = <<a>> \o Rest /\ on[t] # w
      <4>1. on[t] \in Wds
        BY <1>1, <3>3
      <4>2. count'[on[t]] = count[on[t]]
        BY <1>1, <3>5, <4>1
      <4> QED BY <3>3, <4>2 DEF Late, InMap
    <3> QED BY <2>5, <3>4, <3>5
  <2>12. ASSUME NEW t \in Tasks, Late(t)' PROVE Noted(on[t])'
    <3>1. CASE Late(t)
      <4>1. PICK k \in DOMAIN fr.list : fr.list[k] = on[t]
        BY <1>4, <2>1, <3>1
      <4>2. CASE stack' = <<a>> \o Rest
        <5>1. k \in 1..(Len(fr.list) + 1) /\ Append(fr.list, w)[k] = on[t]
          BY <2>9, <4>1
        <5> QED BY <1>2, <2>4, <2>7, <2>9, <4>2, <5>1 DEF Noted
      <4>3. CASE stack' = <<b>> \o Rest
        BY <1>2, <2>4, <2>7, <4>1, <4>3 DEF Noted
      <4> QED BY <2>5, <4>2, <4>3
    <3>2. CASE on[t] = w /\ stack' = <<a>> \o Rest
      <4>1. Len(fr.list) + 1 \in DOMAIN a.list /\ a.list[Len(fr.list) + 1] = on[t]
        BY <2>4, <2>9, <3>2
      <4> QED BY <1>2, <2>7, <3>2, <4>1 DEF Noted
    <3> QED BY <2>11, <2>12, <3>1, <3>2
  <2> QED BY <1>2, <2>1, <2>10, <2>12 DEF LostInv, EmptyInv, LateInv
<1>7. CASE RunNext
  <2> DEFINE list == Head(stack).list
             w == Head(list)
  <2>1. stack # <<>> /\ Head(stack).f = "run" /\ Head(stack).left = <<>> /\ list # <<>> /\ count' = count
    BY <1>7 DEF RunNext, Top
  <2>2. PICK a, b : a = WakeFrame(w, waiters[w]) /\ b = RunFrame(<<>>, Tail(list))
    OBVIOUS
  <2>3. a.f = "wake" /\ b.f = "run" /\ b.left = <<>> /\ b.list = Tail(list)
    BY <2>2 DEF WakeFrame, RunFrame
  <2>4. \/ /\ w \in consumers /\ waiters' = [waiters EXCEPT ![w] = {}]
           /\ stack' = <<a, b>> \o Rest
        \/ w \notin consumers /\ stack' = <<b>> \o Rest /\ waiters' = waiters
    BY <1>7, <2>2 DEF RunNext
  <2>5. Rest = <<>> /\ list \in Seq(Wds)
    BY <1>4, <2>1
  <2>6. Rounds' = {b}
    <3>1. <<a, b>> \o Rest = <<a, b>> /\ <<b>> \o Rest = <<b>>
      BY <2>5, AboveEmpty
    <3>2. stack' = <<a, b>> => Frames' = {a, b}
      BY FewFrames DEF Frames
    <3>3. stack' = <<b>> => Frames' = {b}
      BY FewFrames DEF Frames
    <3>4. Frames' = {a, b} \/ Frames' = {b}
      BY <2>4, <3>1, <3>2, <3>3
    <3> QED BY <2>3, <3>4 DEF Rounds
  <2>7. /\ Tail(list) \in Seq(Wds) /\ w = list[1] /\ DOMAIN list = 1..Len(list) /\ Len(list) \in Nat
        /\ DOMAIN Tail(list) = 1..(Len(list) - 1)
        /\ \A k \in 1..(Len(list) - 1) : Tail(list)[k] = list[k + 1]
    BY <2>1, <2>5, PopFrame
  <2> HIDE DEF w, list
  <2>8. RoundInv'
    <3>1. <<>> \in Seq(Wds)
      OBVIOUS
    <3> QED BY <2>3, <2>6, <2>7, <3>1 DEF RoundInv
  <2>9. ASSUME NEW t \in Tasks, Late(t)' PROVE Noted(on[t])'
    <3>1. /\ st[t] = "waiting" /\ on[t] \in consumers /\ t \in waiters'[on[t]]
          /\ count[on[t]] # since[t] /\ on[t] \in Wds
      BY <1>1, <1>2, <2>1, <2>9 DEF Late, InMap
    <3>2. on[t] # w /\ t \in waiters[on[t]]
      BY <1>1, <2>4, <3>1
    <3>3. Late(t)
      BY <3>1, <3>2 DEF Late, InMap
    <3>4. PICK k \in DOMAIN list : list[k] = on[t]
      BY <1>4, <2>1, <3>3 DEF list
    <3>5. k # 1 /\ k \in 1..Len(list)
      BY <2>7, <3>2, <3>4
    <3>6. k - 1 \in 1..(Len(list) - 1) /\ (k - 1) + 1 = k
      BY <2>7, <3>5
    <3>7. k - 1 \in DOMAIN b.list /\ b.list[k - 1] = on[t]
      BY <2>3, <2>7, <3>4, <3>6
    <3> QED BY <1>2, <2>6, <3>7 DEF Noted
  <2>10. EmptyInv'
    BY <1>1, <1>2, <2>4 DEF LostInv, EmptyInv
  <2> QED BY <2>8, <2>9, <2>10 DEF LostInv, LateInv
<1>8. CASE RunAgain \/ RunCanceled
  <2> DEFINE e == CancelFrame(Above(None), {})
  <2>1. e.f = "cancel"
    BY DEF CancelFrame
  <2> HIDE DEF e
  <2>2. UNCHANGED <<waiters, count>>
    BY <1>8 DEF RunAgain, RunCanceled, mapVars
  <2>3. (stack' = <<e>> \/ stack' = <<>>) /\ \A t \in Tasks : ~Late(t)
    <3>1. CASE RunAgain
      <4>1. /\ stack # <<>> /\ Head(stack).f = "run" /\ Head(stack).list = <<>>
            /\ stack' = <<e>> \o Rest \/ stack' = Rest
        BY <3>1 DEF RunAgain, Top, e
      <4>2. Rest = <<>> /\ \A t \in Tasks : ~Late(t)
        BY <1>4, <4>1
      <4> QED BY <4>1, <4>2, AboveEmpty
    <3>2. CASE RunCanceled
      <4>1. stack = <<>> /\ stack' = <<e>>
        BY <3>2 DEF RunCanceled, Idle, e
      <4> QED BY <1>3, <4>1
    <3> QED BY <1>8, <3>1, <3>2
  <2>4. Rounds' = {}
    <3>1. Frames' \subseteq {e}
      BY <2>3, FewFrames DEF Frames
    <3> QED BY <2>1, <3>1 DEF Rounds
  <2>5. \A t \in Tasks : ~Late(t)'
    BY <1>2, <2>2, <2>3 DEF Late, InMap
  <2> QED BY <1>2, <2>2, <2>4, <2>5 DEF LostInv, RoundInv, EmptyInv, LateInv
<1> QED BY <1>5, <1>6, <1>7, <1>8

LEMMA LoopLost ==
    ASSUME DispatchInv, LostInv, WakeNext \/ CancelNext \/ RmNext
    PROVE  LostInv'
<1> DEFINE fr == Head(stack)
<1>1. /\ StackInv /\ TypeOK /\ stack # <<>> /\ bad = {}
      /\ fr.f \in {"wake", "cancel", "rm"} /\ UNCHANGED <<on, since, count>>
  BY DEF WakeNext, CancelNext, RmNext, Top, mapVars, DispatchInv
<1>2. /\ consumers \subseteq Wds /\ waiters \in [Wds -> SUBSET Tasks] /\ EmptyInv
      /\ fr.f = "rm" => fr.next \subseteq Tasks /\ fr.todo \subseteq Tasks
      /\ fr.f \in {"wake", "cancel"} => fr.todo \subseteq Tasks
  <2>1. IsFrame(fr)
    BY <1>1, TopFrames, FrameFacts
  <2> QED BY <1>1, <2>1 DEF TypeOK, LostInv, IsFrame, RmFrames
<1>3. /\ Rounds' = Rounds
      /\ \A u \in Tasks : st'[u] = "waiting" => st[u] = "waiting"
  <2> HIDE DEF fr
  <2>1. CASE stack' = Rest /\ st' = st
    BY <1>1, <2>1, ReturnRounds DEF fr
  <2>2. CASE stack' = stack /\ st' = st
    BY <2>2 DEF Rounds, Frames
  <2>3. ASSUME NEW e, e.f # "run", stack' = <<e>> \o Rest, st' = st
        PROVE  Rounds' = Rounds /\ \A u \in Tasks : st'[u] = "waiting" => st[u] = "waiting"
    BY <1>1, <2>3, CalledRounds DEF fr
  <2>4. ASSUME NEW e, e.f # "run", NEW t \in Tasks, Resume(t, <<e>> \o Rest)
        PROVE  Rounds' = Rounds /\ \A u \in Tasks : st'[u] = "waiting" => st[u] = "waiting"
    BY <1>1, <2>4, ResumeRounds DEF fr
  <2>5. CASE WakeNext
    <3>1. /\ fr.f = "wake"
          /\ \/ stack' = Rest /\ st' = st
             \/ \E t \in fr.todo : Resume(t, <<WakeFrame(fr.wd, fr.todo \ {t})>> \o Rest)
      BY <2>5 DEF WakeNext, Top, fr
    <3>2. \A t : WakeFrame(fr.wd, fr.todo \ {t}).f # "run"
      BY DEF WakeFrame
    <3> QED BY <1>2, <2>1, <2>4, <3>1, <3>2
  <2>6. CASE CancelNext
    <3>1. /\ fr.f = "cancel"
          /\ \/ stack' = Rest /\ st' = st
             \/ stack' = stack /\ st' = st
             \/ \E t \in fr.todo : Resume(t, <<CancelFrame(fr.it, fr.todo \ {t})>> \o Rest)
             \/ stack' = <<CancelFrame(Above(fr.it), waiters[fr.it])>> \o Rest /\ st' = st
      BY <2>6 DEF CancelNext, Top, fr
    <3>2. \A i, s : CancelFrame(i, s).f # "run"
      BY DEF CancelFrame
    <3> QED BY <1>2, <2>1, <2>2, <2>3, <2>4, <3>1, <3>2
  <2>7. CASE RmNext
    <3>1. /\ fr.f = "rm"
          /\ \/ stack' = Rest /\ st' = st
             \/ /\ fr.next # {}
                /\ \E next \in OneOf(fr.todo) :
                      Resume(CHOOSE u \in fr.next : TRUE,
                             <<RmFrame(fr.wd, next, fr.todo \ next)>> \o Rest)
      BY <2>7 DEF RmNext, Top, fr
    <3>2. \A w, n, s : RmFrame(w, n, s).f # "run"
      BY DEF RmFrame
    <3>3. fr.next # {} => (CHOOSE u \in fr.next : TRUE) \in Tasks
      BY <1>2, <3>1
    <3> QED BY <2>1, <2>4, <3>1, <3>2, <3>3
  <2> QED BY <2>5, <2>6, <2>7
<1>4. /\ consumers' \subseteq consumers
      /\ \A w \in Wds : waiters'[w] \subseteq waiters[w]
      /\ \A w \in Wds \ consumers' : waiters'[w] = {}
  <2>1. CASE WakeNext
    BY <1>2, <2>1 DEF WakeNext, mapVars, EmptyInv
  <2>2. CASE CancelNext
    <3>1. \/ UNCHANGED <<consumers, waiters>>
          \/ consumers' = consumers \ {fr.it} /\ waiters' = [waiters EXCEPT ![fr.it] = {}]
      BY <2>2 DEF CancelNext
    <3> QED BY <1>2, <3>1 DEF EmptyInv
  <2>3. CASE RmNext
    <3>1. \/ consumers' = consumers \ {fr.wd} /\ waiters' = [waiters EXCEPT ![fr.wd] = {}]
          \/ \E t : consumers' = consumers /\ waiters' = [waiters EXCEPT ![fr.wd] = @ \ {t}]
      BY <2>3 DEF RmNext
    <3> QED BY <1>2, <3>1 DEF EmptyInv
  <2> QED BY <2>1, <2>2, <2>3
<1> QED BY <1>1, <1>3, <1>4, FewerLate

\* The calls that remain when a task suspends have the same round.
LEMMA CallersRounds ==
    ASSUME DispatchInv
    PROVE  {e \in FramesOf(Callers) : e.f = "run"} = Rounds
<1>1. CASE Top("user")
  <2>1. Frames = {Head(stack)} \cup FramesOf(Callers) /\ Head(stack).f = "user"
    BY <1>1, TopFrames DEF Top, Callers, DispatchInv
  <2> QED BY <2>1 DEF Rounds
<1>2. CASE ~Top("user")
  BY <1>2 DEF Callers, Rounds, Frames
<1> QED BY <1>1, <1>2

LEMMA WaitLost ==
    ASSUME DispatchInv, LostInv, NEW t \in Tasks, NEW w \in Wds, Wait(t, w)
    PROVE  LostInv'
<1>1. /\ Acting(t) /\ consumers' = consumers \cup {w} /\ count' = count
      /\ waiters' = [waiters EXCEPT ![w] = @ \cup {t}]
      /\ st' = [st EXCEPT ![t] = "waiting"] /\ on' = [on EXCEPT ![t] = w]
      /\ since' = [since EXCEPT ![t] = count[w]]
  BY DEF Wait
<1>2. bad = {}
  BY <1>1, ActingTop
<1>3. /\ waiters \in [Wds -> SUBSET Tasks] /\ st \in [Tasks -> {"free", "waiting", "running", "gone"}]
      /\ on \in [Tasks -> Wds \cup {None}] /\ since \in [Tasks -> Nat] /\ consumers \subseteq Wds
  BY DEF DispatchInv, TypeOK
<1>4. Rounds' = Rounds
  <2>1. PICK n \in Nat, d \in {0, 1} :
             /\ DOMAIN Callers = 1..n /\ DOMAIN stack = 1..(n + d)
             /\ \A k \in 1..n : Callers[k] = stack[k + d]
    BY <1>1, CallersBelow
  <2>2. \A i \in DOMAIN Callers : IsFrame(Callers[i])
    <3>1. TAKE i \in DOMAIN Callers
    <3>2. i \in 1..n /\ i + d \in DOMAIN stack
      BY <2>1
    <3> QED BY <2>1, <3>2 DEF DispatchInv, StackInv
  <2>3. PICK visited \in SUBSET {i \in DOMAIN Callers :
                                 Callers[i].f = "rm" /\ Callers[i].wd = w /\ Callers[i].next # {}} :
           stack' = [i \in DOMAIN Callers |->
                       IF i \in visited THEN [Callers[i] EXCEPT !.todo = @ \cup {t}]
                       ELSE Callers[i]]
    BY DEF Wait
  <2>4. DOMAIN stack' = DOMAIN Callers
    BY <2>3
  <2>5. \A i \in DOMAIN Callers :
           stack'[i] = Callers[i] \/ (Callers[i].f = "rm" /\ stack'[i].f = "rm")
    <3>1. TAKE i \in DOMAIN Callers
    <3>2. CASE i \in visited
      <4>1. Callers[i] \in RmFrames /\ stack'[i] = [Callers[i] EXCEPT !.todo = @ \cup {t}]
        BY <2>2, <2>3, <3>2 DEF IsFrame
      <4> QED BY <4>1 DEF RmFrames
    <3>3. CASE i \notin visited
      BY <2>3, <3>3
    <3> QED BY <3>2, <3>3
  <2>6. Rounds' = {e \in FramesOf(Callers) : e.f = "run"}
    BY <2>4, <2>5 DEF Rounds, Frames, FramesOf
  <2> QED BY <2>6, CallersRounds
<1>5. \A v \in Wds : waiters'[v] = IF v = w THEN waiters[v] \cup {t} ELSE waiters[v]
  BY <1>1, <1>3
<1>6. \A u \in Tasks : u # t => st'[u] = st[u] /\ on'[u] = on[u] /\ since'[u] = since[u]
  BY <1>1, <1>3
<1>7. RoundInv'
  BY <1>4 DEF LostInv, RoundInv
<1>8. EmptyInv'
  BY <1>1, <1>5 DEF LostInv, EmptyInv
<1>9. ASSUME NEW u \in Tasks, Late(u)' PROVE Noted(on[u])'
  <2>1. CASE u = t
    <3>1. on'[t] = w /\ since'[t] = count[w]
      BY <1>1, <1>3
    <3> QED BY <1>1, <1>9, <2>1, <3>1 DEF Late
  <2>2. CASE u # t
    <3>1. /\ st[u] = "waiting" /\ on[u] \in consumers' /\ u \in waiters'[on[u]]
          /\ count[on[u]] # since[u] /\ on'[u] = on[u]
      BY <1>1, <1>6, <1>9, <2>2 DEF Late, InMap
    <3>2. on[u] \in Wds /\ u \in waiters[on[u]]
      BY <1>1, <1>3, <1>5, <2>2, <3>1
    <3>3. on[u] \in consumers
      BY <3>2 DEF LostInv, EmptyInv
    <3>4. Late(u)
      BY <3>1, <3>2, <3>3 DEF Late, InMap
    <3>5. Noted(on[u])
      BY <1>2, <3>4 DEF LostInv, LateInv
    <3> QED BY <1>4, <3>1, <3>5 DEF Noted
  <2> QED BY <2>1, <2>2
<1> QED BY <1>7, <1>8, <1>9 DEF LostInv, LateInv

LEMMA WatchLost ==
    ASSUME InotifyAssumption, DispatchInv, LostInv, NEW t \in Tasks, Watch(t)
    PROVE  LostInv'
<1>1. /\ Acting(t) /\ made < MaxWds /\ made' = made + 1 /\ consumers' = consumers \cup {made'}
      /\ UNCHANGED <<waiters, count, st, on, since, stack>>
  BY DEF Watch, taskVars
<1>2. bad = {} /\ Rounds' = Rounds
  BY <1>1, ActingTop DEF Rounds, Frames
<1>3. EmptyInv' /\ RoundInv'
  BY <1>1, <1>2 DEF LostInv, EmptyInv, RoundInv
<1>4. \A v \in consumers' : v \in Wds
  <2>1. made \in Nat /\ MaxWds \in Nat /\ consumers \subseteq Wds
    <3>1. MaxWds \in Nat
      BY DEF InotifyAssumption
    <3>2. made \in 0..MaxWds /\ consumers \subseteq Wds
      BY DEF DispatchInv, TypeOK
    <3> QED BY <3>1, <3>2
  <2>2. made + 1 \in 1..MaxWds
    BY <1>1, <2>1
  <2> QED BY <1>1, <2>1, <2>2 DEF Wds
<1>5. ASSUME NEW u \in Tasks, Late(u)' PROVE Noted(on[u])'
  <2>1. st[u] = "waiting" /\ on[u] \in consumers' /\ u \in waiters[on[u]] /\ count[on[u]] # since[u]
    BY <1>1, <1>5 DEF Late, InMap
  <2>2. on[u] \in consumers
    BY <1>4, <2>1 DEF LostInv, EmptyInv
  <2>3. Noted(on[u])
    BY <1>2, <2>1, <2>2 DEF LostInv, LateInv, Late, InMap
  <2> QED BY <1>1, <1>2, <2>3 DEF Noted
<1> QED BY <1>3, <1>5 DEF LostInv, LateInv

\* The other steps of a task: the round and the events stay, no waiter is new.
LEMMA TaskLost ==
    ASSUME DispatchInv, LostInv, NEW t \in Tasks, NEW w, NEW u \in Tasks,
           Unwatch(t, w) \/ Cancel(t, u) \/ Destroy(t, u) \/ Leave(t)
    PROVE  LostInv'
<1>1. /\ TypeOK /\ StackInv /\ UNCHANGED <<on, since, count, consumers>>
      /\ waiters \in [Wds -> SUBSET Tasks] /\ st \in [Tasks -> {"free", "waiting", "running", "gone"}]
  BY DEF DispatchInv, TypeOK, Unwatch, Cancel, Destroy, Leave, mapVars, taskVars
<1>2. bad = {}
  BY ActingTop DEF Unwatch, Cancel, Destroy, Leave, Top
<1>3. \A v \in Tasks : st'[v] = "waiting" => st[v] = "waiting"
  <2>1. \/ st' = st
        \/ \E v, x : x # "waiting" /\ st' = [st EXCEPT ![v] = x]
    BY DEF Unwatch, Cancel, Destroy, Leave, taskVars
  <2> QED BY <1>1, <2>1
<1>4. /\ \A v \in Wds : waiters'[v] \subseteq waiters[v]
      /\ \A v \in Wds \ consumers' : waiters'[v] = {}
  <2>1. waiters' = waiters \/ \E v, x : waiters' = [waiters EXCEPT ![v] = @ \ {x}]
    BY DEF Unwatch, Cancel, Destroy, Leave, EraseWaiter, mapVars
  <2>2. \A v \in Wds : waiters'[v] \subseteq waiters[v]
    BY <1>1, <2>1
  <2> QED BY <1>1, <2>2 DEF LostInv, EmptyInv
<1>5. Rounds' = Rounds
  <2>1. CASE stack' = stack
    BY <2>1 DEF Rounds, Frames
  <2>2. CASE StartRm(w, stack)
    <3>1. \A n, s : RmFrame(w, n, s).f # "run"
      BY DEF RmFrame
    <3> QED BY <1>1, <2>2, <3>1, PushedRounds DEF StartRm
  <2>3. CASE Leave(t)
    BY <1>1, <2>3, ReturnRounds DEF Leave, Top
  <2>4. CASE Cancel(t, u) \/ Destroy(t, u)
    <3> DEFINE r == WithoutWaiter(on[u], u)
               c == UserFrame(u)
    <3>1. stack' = r \/ stack' = <<c>> \o r
      BY <2>4 DEF Cancel, Destroy
    <3>2. /\ DOMAIN r = 1..Len(stack) /\ DOMAIN stack = 1..Len(stack) /\ \E F : r \in Seq(F)
          /\ \A i \in 1..Len(stack) :
                \/ r[i] = stack[i]
                \/ stack[i].f = "rm" /\ r[i].f = "rm"
      BY <1>1, WithoutFrames
    <3>3. c.f = "user"
      BY DEF UserFrame
    <3> HIDE DEF r, c
    <3>4. {e \in FramesOf(r) : e.f = "run"} = Rounds
      BY <3>2 DEF Rounds, Frames, FramesOf
    <3>5. FramesOf(<<c>> \o r) = {c} \cup FramesOf(r)
      BY <3>2, PushedFrames
    <3>6. Frames' = FramesOf(r) \/ Frames' = {c} \cup FramesOf(r)
      BY <3>1, <3>5 DEF Frames
    <3> QED BY <3>3, <3>4, <3>6 DEF Rounds
  <2> QED BY <2>1, <2>2, <2>3, <2>4 DEF Unwatch
<1> QED BY <1>1, <1>2, <1>3, <1>4, <1>5, FewerLate

LEMMA QuietLost ==
    ASSUME LostInv, UNCHANGED <<consumers, waiters, count, st, on, since, stack, bad>>
    PROVE  LostInv'
<1>1. Frames' = Frames
  BY DEF Frames
<1>2. Rounds' = Rounds
  BY <1>1 DEF Rounds
<1>3. \A t : Late(t)' <=> Late(t)
  BY DEF Late, InMap
<1> QED BY <1>2, <1>3 DEF LostInv, RoundInv, EmptyInv, LateInv, Noted

LEMMA LostNext ==
    ASSUME InotifyAssumption, DispatchInv, LostInv, [Next]_vars
    PROVE  LostInv'
<1>1. CASE Dispatch
  BY <1>1, RunLost, LoopLost DEF Dispatch
<1>2. CASE Kernel \/ Stop \/ Close \/ UNCHANGED vars
  <2>1. UNCHANGED <<consumers, waiters, count, st, on, since, stack, bad>>
    BY <1>2 DEF Kernel, KernelRead, KernelEvent, KernelRemove, Stop, Close, mapVars, taskVars, vars
  <2> QED BY <2>1, QuietLost
<1>3. ASSUME NEW t \in Tasks, TaskStep(t) PROVE LostInv'
  <2>1. CASE Watch(t)
    BY <2>1, WatchLost
  <2>2. CASE Leave(t)
    BY <2>2, TaskLost
  <2>3. CASE \E w \in Wds : Wait(t, w) \/ Unwatch(t, w)
    BY <2>3, WaitLost, TaskLost
  <2>4. CASE \E u \in Tasks : Cancel(t, u) \/ Destroy(t, u)
    BY <2>4, TaskLost
  <2> QED BY <1>3, <2>1, <2>2, <2>3, <2>4 DEF TaskStep
<1> QED BY <1>1, <1>2, <1>3 DEF Next, Ended

LEMMA LostCorrect ==
    ASSUME InotifyAssumption
    PROVE  Spec => []LostInv
<1>1. Init => LostInv
  <2>1. ASSUME Init PROVE LostInv
    <3>1. stack = <<>> /\ waiters = [w \in Wds |-> {}] /\ st = [t \in Tasks |-> "free"]
      BY <2>1 DEF Init
    <3>2. Rounds = {}
      BY <3>1, FewFrames DEF Rounds, Frames
    <3> QED BY <3>1, <3>2 DEF LostInv, RoundInv, EmptyInv, LateInv, Late
  <2> QED BY <2>1
<1>2. DispatchInv /\ LostInv /\ [Next]_vars => LostInv'
  BY LostNext
<1>3. Spec => []DispatchInv
  BY DispatchCorrect
<1> QED BY <1>1, <1>2, <1>3, PTL DEF Spec

\* inotify_ctx loses no wakeup, whatever the tasks do while it resumes them: when
\* run() is between two rounds, nobody who was there when an event was pushed
\* still waits for it in the map.
THEOREM NoWakeupLost ==
    ASSUME InotifyAssumption
    PROVE  Spec => []NoLostWakeup
<1>1. LostInv => NoLostWakeup
  <2>1. ASSUME LostInv, stack = <<>>, bad = {}, NEW t \in Tasks PROVE ~Late(t)
    <3>1. Rounds = {}
      BY <2>1, FewFrames DEF Rounds, Frames
    <3> QED BY <2>1, <3>1 DEF LostInv, LateInv, Noted
  <2> QED BY <2>1 DEF NoLostWakeup, Late
<1> QED BY <1>1, LostCorrect, PTL
-----------------------------------------------------------------------------
(* What holds for tasks that keep to the discipline.                       *)

\* While the tasks keep to the discipline the phases of run(), the map of the
\* consumers, the walks of rm_watch and the waiters fit together.
THEOREM CarefulCorrect ==
    ASSUME InotifyAssumption, Careful
    PROVE  Spec => [](DispatchInv /\ SafeInv)
<1>1. Init => DispatchInv /\ SafeInv
  BY DispatchInit, SafeInit
<1>2. DispatchInv /\ LostInv /\ SafeInv /\ [Next]_vars => (DispatchInv /\ SafeInv)'
  BY DispatchNext, SafeNext DEF LostInv
<1> QED BY <1>1, <1>2, LostCorrect, PTL DEF Spec

\* inotify_ctx meets no undefined behaviour while the tasks keep to the
\* discipline: no dangling awaitable is resumed, no iterator of the map or of a
\* set is used after its element went, no event is pushed into a buffer that is
\* missing or freed.
THEOREM CarefulNoBadAccess ==
    ASSUME InotifyAssumption, Careful
    PROVE  Spec => []NoBadAccess
<1>1. DispatchInv /\ SafeInv => NoBadAccess
  BY DEF SafeInv, NoBadAccess
<1> QED BY <1>1, CarefulCorrect, PTL

\* Nobody forgets a waiter: it is in the map, or in the hands of a loop that is
\* about to resume it.
THEOREM CarefulKeepsWaiters ==
    ASSUME InotifyAssumption, Careful
    PROVE  Spec => []WaiterKept
<1>1. DispatchInv /\ SafeInv => WaiterKept
  BY DEF SafeInv, KeptInv, InHand, Frames, FramesOf, WaiterKept
<1> QED BY <1>1, CarefulCorrect, PTL
=============================================================================
