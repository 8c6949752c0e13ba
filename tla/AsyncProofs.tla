----------------------------- MODULE AsyncProofs -----------------------------
(***************************************************************************)
(* Proofs about the parts of MCAsync, for all of their constants: a waiting *)
(* select() has nothing to take and implements the queue of completions,   *)
(* a generator gives every entry once and in order, a poll the newest       *)
(* events, nobody is resumed twice for one wait, and a context tells its    *)
(* children to stop before it waits for them.                               *)
(***************************************************************************)
EXTENDS MCAsync, FiniteSets, SequenceTheorems, FiniteSetTheorems, TLAPS

-----------------------------------------------------------------------------
(* The selector: the inductive invariant.                                   *)

Used == {i \in Slots : bg[i] # "empty"}

\* A slot in use holds a task of its own, and its background coroutine waits
\* as long as that task has not ended.
SlotInv ==
    /\ \A i \in Slots : item[i] = NoItem <=> bg[i] = "empty"
    /\ \A i, j \in Slots : item[i] = item[j] /\ item[i] # NoItem => i = j
    /\ \A i \in Slots : item[i] # NoItem => item[i] \in pushed
    /\ \A i \in Slots : bg[i] = "waiting" => item[i] \notin finished
    /\ \A i \in Slots : bg[i] \in {"returning", "done"} => item[i] \in finished

\* One background coroutine runs at a time, the second suspension of select()
\* is on that one, and the first ends with the first completion.
BusyInv ==
    /\ \A i, j \in Slots : bg[i] = "returning" /\ bg[j] = "returning" => i = j
    /\ sel = "background" <=> got # 0
    /\ got # 0 => bg[got] = "returning"
    /\ awaiting /\ Busy => Len(ready) = 1 /\ bg[ready[1]] = "returning"

\* The counter leaves out the slot that select() has popped and not cleared.
CountInv == remaining + (IF got = 0 THEN 0 ELSE 1) = Cardinality(Used)

TakenInv == \A k \in DOMAIN taken : taken[k] \in pushed

SelectorInv == /\ TypeOK /\ SlotInv /\ BusyInv /\ CountInv /\ TakenInv
               /\ WaitsForNothing /\ ReadyOnce
-----------------------------------------------------------------------------
(* Sets of slots are finite, and a slot that is queued or popped is in use. *)

LEMMA SlotsFinite ==
    ASSUME ConcurrentAssumption, NEW S \in SUBSET Slots
    PROVE  IsFiniteSet(S) /\ Cardinality(S) \in Nat
<1>1. IsFiniteSet(Slots)
  BY FS_Interval DEF Slots, ConcurrentAssumption
<1> QED BY <1>1, FS_Subset, FS_CardinalityType

\* The head of the queue, and what remains of it.
LEMMA PopType ==
    ASSUME TypeOK, ReadyOnce, ready # <<>>, NEW i, i = Head(ready)
    PROVE  /\ i \in Slots /\ i = ready[1] /\ i # got
           /\ bg[i] \in {"returning", "done"}
           /\ Tail(ready) \in Seq(Slots)
           /\ Len(Tail(ready)) = Len(ready) - 1
           /\ \A k \in 1..Len(Tail(ready)) :
                 /\ k + 1 \in DOMAIN ready
                 /\ Tail(ready)[k] = ready[k + 1] /\ Tail(ready)[k] # i
<1>1. ready \in Seq(Slots) /\ Len(ready) \in Nat \ {0} /\ DOMAIN ready = 1..Len(ready)
  BY EmptySeq, LenProperties DEF TypeOK
<1>2. /\ Head(ready) \in Slots /\ Head(ready) = ready[1]
      /\ Tail(ready) \in Seq(Slots) /\ Len(Tail(ready)) = Len(ready) - 1
      /\ \A k \in 1..Len(Tail(ready)) : Tail(ready)[k] = ready[k + 1]
  BY <1>1, HeadTailProperties
<1>3. 1 \in DOMAIN ready /\ \A k \in 1..Len(Tail(ready)) : k + 1 \in DOMAIN ready /\ k + 1 # 1
  BY <1>1, <1>2
<1> QED BY <1>2, <1>3 DEF ReadyOnce

\* The counter is positive while the queue is not empty.
LEMMA PopCounted ==
    ASSUME ConcurrentAssumption, SelectorInv, got = 0, NEW i \in Slots, bg[i] # "empty"
    PROVE  remaining - 1 \in 0..MaxTasks
<1>1. IsFiniteSet(Used) /\ Cardinality(Used) \in Nat /\ i \in Used
  BY SlotsFinite DEF Used
<1>2. Cardinality(Used) # 0
  BY <1>1, FS_EmptySet
<1> QED BY <1>1, <1>2 DEF SelectorInv, TypeOK, CountInv, ConcurrentAssumption

-----------------------------------------------------------------------------
(* Every step preserves the invariant.                                     *)

LEMMA InitInv == ASSUME ConcurrentAssumption, Init PROVE SelectorInv
<1>1. Used = {}
  BY DEF Init, Used
<1>2. CountInv
  BY <1>1, FS_EmptySet DEF CountInv, Init
<1>3. TypeOK
  <2>1. ready \in Seq(Slots) /\ taken \in Seq(Items)
    BY EmptySeq DEF Init
  <2>2. item \in [Slots -> Items \cup {NoItem}] /\ bg \in [Slots -> BgStates]
    BY DEF Init, BgStates
  <2>3. remaining \in 0..MaxTasks
    BY DEF Init, ConcurrentAssumption
  <2> QED BY <2>1, <2>2, <2>3 DEF TypeOK, Init, SelStates
<1> QED
  BY <1>2, <1>3 DEF SelectorInv, Init, SlotInv, BusyInv, TakenInv, WaitsForNothing,
                    ReadyOnce, Busy, Slots

LEMMA PushInv ==
    ASSUME ConcurrentAssumption, SelectorInv, NEW x \in Items, Push(x)
    PROVE  SelectorInv'
<1> USE DEF SelectorInv
<1>1. PICK i \in Slots :
          /\ bg[i] = "empty"
          /\ item' = [item EXCEPT ![i] = x]
          /\ bg' = [bg EXCEPT ![i] = IF x \in finished THEN "done" ELSE "waiting"]
          /\ ready' = IF x \in finished THEN Append(ready, i) ELSE ready
  BY DEF Push
<1>2. /\ ~Busy /\ x \notin pushed /\ remaining < MaxTasks /\ ~(awaiting /\ x \in finished)
      /\ remaining' = remaining + 1 /\ pushed' = pushed \cup {x}
      /\ UNCHANGED <<finished, awaiting, sel, got, taken>>
  BY DEF Push
<1>3. x # NoItem /\ item[i] = NoItem
  BY <1>1 DEF ConcurrentAssumption, SlotInv
<1>4. ready' \in Seq(Slots)
  BY <1>1, AppendProperties DEF TypeOK
<1>5. TypeOK'
  BY <1>1, <1>2, <1>4 DEF TypeOK, BgStates, ConcurrentAssumption
<1>6. SlotInv'
  BY <1>1, <1>2, <1>3 DEF SlotInv, TypeOK, ConcurrentAssumption
<1>7. ~Busy' /\ got # i
  <2>1. \A j \in Slots : bg'[j] # "returning"
    BY <1>1, <1>2 DEF Busy, TypeOK
  <2>2. i # 0 /\ bg[i] # "returning"
    BY <1>1 DEF Slots
  <2> QED BY <2>1, <2>2 DEF Busy, BusyInv
<1>8. BusyInv'
  BY <1>1, <1>2, <1>7 DEF BusyInv, Busy, TypeOK
<1>9. CountInv'
  <2>1. Used' = Used \cup {i} /\ i \notin Used
    BY <1>1 DEF Used, TypeOK
  <2>2. Cardinality(Used') = Cardinality(Used) + 1
    BY <2>1, SlotsFinite, FS_AddElement DEF Used
  <2> QED BY <1>2, <2>2, SlotsFinite DEF CountInv, TypeOK, Used
<1>10. TakenInv'
  BY <1>2 DEF TakenInv
<1>11. WaitsForNothing'
  BY <1>1, <1>2 DEF WaitsForNothing
<1>12. ReadyOnce'
  <2>1. \A k \in DOMAIN ready : ready[k] # i /\ ready[k] \in Slots
    BY <1>1 DEF ReadyOnce, TypeOK
  <2>2. CASE x \in finished
    <3>1. /\ DOMAIN ready' = 1..(Len(ready) + 1) /\ Len(ready) \in Nat
          /\ DOMAIN ready = 1..Len(ready)
          /\ ready'[Len(ready) + 1] = i
          /\ \A k \in DOMAIN ready : ready'[k] = ready[k]
      BY <1>1, <2>2, AppendProperties, LenProperties DEF TypeOK
    <3> QED BY <1>1, <1>2, <1>7, <2>1, <2>2, <3>1 DEF ReadyOnce, TypeOK
  <2>3. CASE x \notin finished
    BY <1>1, <1>2, <2>1, <2>3 DEF ReadyOnce, TypeOK
  <2> QED BY <2>2, <2>3
<1> QED BY <1>5, <1>6, <1>8, <1>9, <1>10, <1>11, <1>12

LEMMA FinishInv ==
    ASSUME ConcurrentAssumption, SelectorInv, NEW x \in Items, Finish(x)
    PROVE  SelectorInv'
<1> USE DEF SelectorInv
<1>1. /\ ~Busy /\ x \notin finished /\ finished' = finished \cup {x}
      /\ UNCHANGED <<pushed, item, awaiting, remaining, sel, got, taken>>
  BY DEF Finish
<1>2. CASE /\ \A i \in Slots : item[i] # x
           /\ UNCHANGED <<bg, ready>>
  <2>1. TypeOK' /\ SlotInv'
    BY <1>1, <1>2 DEF TypeOK, SlotInv
  <2>2. Used' = Used /\ Busy' = Busy
    BY <1>2 DEF Used, Busy
  <2>3. BusyInv' /\ WaitsForNothing' /\ ReadyOnce' /\ TakenInv' /\ CountInv'
    BY <1>1, <1>2, <2>2 DEF BusyInv, WaitsForNothing, ReadyOnce, TakenInv, CountInv
  <2> QED BY <2>1, <2>3
<1>3. CASE \E i \in Slots :
             /\ item[i] = x
             /\ bg' = [bg EXCEPT ![i] = "returning"]
             /\ ready' = Append(ready, i)
  <2>1. PICK i \in Slots : /\ item[i] = x
                           /\ bg' = [bg EXCEPT ![i] = "returning"]
                           /\ ready' = Append(ready, i)
    BY <1>3
  <2>2. bg[i] = "waiting" /\ x # NoItem /\ bg'[i] = "returning"
    BY <1>1, <2>1 DEF SlotInv, TypeOK, BgStates, ConcurrentAssumption
  <2>3. /\ ready' \in Seq(Slots) /\ Len(ready') = Len(ready) + 1 /\ Len(ready) \in Nat
        /\ DOMAIN ready = 1..Len(ready) /\ DOMAIN ready' = 1..(Len(ready) + 1)
        /\ ready'[Len(ready) + 1] = i
        /\ \A k \in DOMAIN ready : ready'[k] = ready[k]
    BY <2>1, AppendProperties, LenProperties DEF TypeOK
  <2>4. TypeOK'
    BY <1>1, <2>1, <2>3 DEF TypeOK, BgStates
  <2>5. SlotInv'
    BY <1>1, <2>1, <2>2 DEF SlotInv, TypeOK
  <2>6. \A j \in Slots : bg[j] # "returning"
    BY <1>1 DEF Busy
  <2>7. got = 0 /\ Busy'
    BY <2>1, <2>2, <2>6 DEF BusyInv, TypeOK, Busy
  <2>8. awaiting => Len(ready) = 0
    BY <1>1 DEF WaitsForNothing
  <2>9. BusyInv'
    <3>1. \A j, k \in Slots : bg'[j] = "returning" /\ bg'[k] = "returning" => j = k
      BY <2>1, <2>6 DEF TypeOK
    <3>2. awaiting' => Len(ready') = 1 /\ bg'[ready'[1]] = "returning"
      BY <1>1, <2>2, <2>3, <2>8
    <3> QED BY <1>1, <2>7, <3>1, <3>2 DEF BusyInv
  <2>10. Used' = Used
    BY <2>1, <2>2 DEF Used, TypeOK
  <2>11. CountInv' /\ TakenInv'
    BY <1>1, <2>10 DEF CountInv, TakenInv
  <2>12. WaitsForNothing'
    BY <1>1, <2>7 DEF WaitsForNothing
  <2>13. ReadyOnce'
    <3>1. \A k \in DOMAIN ready : ready[k] # i /\ ready[k] \in Slots
      BY <2>2 DEF ReadyOnce, TypeOK
    <3>2. \A k \in DOMAIN ready' : k \in DOMAIN ready \/ k = Len(ready) + 1
      BY <2>3
    <3>3. \A k, l \in DOMAIN ready' : ready'[k] = ready'[l] => k = l
      BY <2>3, <3>1, <3>2 DEF ReadyOnce
    <3>4. \A k \in DOMAIN ready' : bg'[ready'[k]] \in {"returning", "done"}
      BY <2>1, <2>2, <2>3, <3>1, <3>2 DEF ReadyOnce, TypeOK
    <3>5. \A k \in DOMAIN ready' : ready'[k] # got'
      BY <1>1, <2>3, <2>7, <3>1, <3>2 DEF Slots
    <3> QED BY <3>3, <3>4, <3>5 DEF ReadyOnce
  <2> QED BY <2>4, <2>5, <2>9, <2>11, <2>12, <2>13
<1> QED BY <1>2, <1>3 DEF Finish

\* The branch of Resume that delivers at once is not taken.
LEMMA ResumeShape ==
    ASSUME ConcurrentAssumption, SelectorInv, Resume
    PROVE  \E i \in Slots :
              /\ i = Head(ready) /\ ready # <<>> /\ got = 0 /\ bg[i] = "returning"
              /\ ready' = Tail(ready) /\ remaining' = remaining - 1
              /\ awaiting' = FALSE /\ sel' = "background" /\ got' = i
              /\ UNCHANGED <<item, bg, taken, finished, pushed>>
<1> USE DEF SelectorInv
<1>1. /\ Busy /\ awaiting /\ awaiting' = FALSE /\ UNCHANGED <<finished, pushed>>
  BY DEF Resume
<1>2. PICK i \in Slots :
          /\ Pop(i)
          /\ IF bg[i] = "done"
             THEN Deliver(i)
             ELSE sel' = "background" /\ got' = i /\ UNCHANGED <<item, bg, taken>>
  BY DEF Resume
<1>3. Len(ready) = 1 /\ bg[ready[1]] = "returning" /\ sel = "awaiter"
  BY <1>1 DEF BusyInv, WaitsForNothing
<1>4. got = 0
  BY <1>3 DEF BusyInv
<1>5. ready # <<>>
  BY <1>3
<1>6. i = ready[1]
  BY <1>2, <1>5, PopType DEF Pop
<1>7. bg[i] = "returning"
  BY <1>3, <1>6
<1> QED BY <1>1, <1>2, <1>4, <1>5, <1>7 DEF Pop

LEMMA ResumeInv ==
    ASSUME ConcurrentAssumption, SelectorInv, Resume
    PROVE  SelectorInv'
<1> USE DEF SelectorInv
<1>1. PICK i \in Slots :
          /\ i = Head(ready) /\ ready # <<>> /\ got = 0 /\ bg[i] = "returning"
          /\ ready' = Tail(ready) /\ remaining' = remaining - 1
          /\ awaiting' = FALSE /\ sel' = "background" /\ got' = i
          /\ UNCHANGED <<item, bg, taken, finished, pushed>>
  BY ResumeShape
<1>2. /\ Tail(ready) \in Seq(Slots) /\ Len(Tail(ready)) = Len(ready) - 1
      /\ \A k \in 1..Len(Tail(ready)) :
            k + 1 \in DOMAIN ready /\ Tail(ready)[k] = ready[k + 1] /\ Tail(ready)[k] # i
  BY <1>1, PopType
<1>3. remaining' \in 0..MaxTasks
  BY <1>1, PopCounted
<1>4. TypeOK'
  BY <1>1, <1>2, <1>3 DEF TypeOK, SelStates
<1>5. SlotInv' /\ TakenInv'
  BY <1>1 DEF SlotInv, TakenInv
<1>6. BusyInv'
  BY <1>1 DEF BusyInv, Slots
<1>7. Used' = Used
  BY <1>1 DEF Used
<1>8. CountInv'
  BY <1>1, <1>7, SlotsFinite DEF CountInv, TypeOK, Slots, Used
<1>9. WaitsForNothing'
  BY <1>1 DEF WaitsForNothing
<1>10. ReadyOnce'
  <2>1. DOMAIN ready' = 1..Len(Tail(ready)) /\ Len(ready) \in Nat
    BY <1>1, <1>2, LenProperties DEF TypeOK
  <2>2. \A k, l \in DOMAIN ready' : ready'[k] = ready'[l] => k = l
    <3>1. SUFFICES ASSUME NEW k \in DOMAIN ready', NEW l \in DOMAIN ready',
                          ready'[k] = ready'[l]
                   PROVE  k = l
      OBVIOUS
    <3>2. k + 1 \in DOMAIN ready /\ l + 1 \in DOMAIN ready /\ ready[k + 1] = ready[l + 1]
      BY <1>1, <1>2, <2>1, <3>1
    <3>3. k + 1 = l + 1
      BY <3>2 DEF ReadyOnce
    <3> QED BY <2>1, <3>3
  <2> QED BY <1>1, <1>2, <2>1, <2>2 DEF ReadyOnce
<1> QED BY <1>4, <1>5, <1>6, <1>8, <1>9, <1>10
\* The slot i is cleared and its task handed out, which is the end of select().
LEMMA DeliverInv ==
    ASSUME ConcurrentAssumption, SelectorInv, NEW i \in Slots, Deliver(i),
           bg[i] \in {"returning", "done"},
           \A k \in DOMAIN ready' : ready'[k] # i,
           UNCHANGED <<finished, pushed>>
    PROVE  /\ item' \in [Slots -> Items \cup {NoItem}] /\ bg' \in [Slots -> BgStates]
           /\ taken' \in Seq(Items)
           /\ SlotInv' /\ TakenInv'
           /\ Cardinality(Used') + 1 = Cardinality(Used) /\ Cardinality(Used') \in Nat
<1> USE DEF SelectorInv
<1>1. /\ bg' = [bg EXCEPT ![i] = "empty"] /\ item' = [item EXCEPT ![i] = NoItem]
      /\ taken' = Append(taken, item[i])
  BY DEF Deliver
<1>2. item[i] \in Items /\ item[i] \in pushed
  BY DEF SlotInv, TypeOK
<1>3. item' \in [Slots -> Items \cup {NoItem}] /\ bg' \in [Slots -> BgStates]
  BY <1>1 DEF TypeOK, BgStates
<1>4. /\ taken' \in Seq(Items) /\ DOMAIN taken' = 1..(Len(taken) + 1)
      /\ DOMAIN taken = 1..Len(taken) /\ Len(taken) \in Nat
      /\ taken'[Len(taken) + 1] = item[i]
      /\ \A k \in DOMAIN taken : taken'[k] = taken[k]
  BY <1>1, <1>2, AppendProperties, LenProperties DEF TypeOK
<1>5. SlotInv'
  BY <1>1 DEF SlotInv, TypeOK
<1>6. TakenInv'
  <2>1. \A k \in DOMAIN taken' : k \in DOMAIN taken \/ k = Len(taken) + 1
    BY <1>4
  <2> QED BY <1>2, <1>4, <2>1 DEF TakenInv
<1>7. Used' = Used \ {i} /\ i \in Used
  BY <1>1 DEF Used, TypeOK
<1>8. Cardinality(Used') + 1 = Cardinality(Used) /\ Cardinality(Used') \in Nat
  <2>1. /\ IsFiniteSet(Used) /\ Cardinality(Used) \in Nat
        /\ IsFiniteSet(Used') /\ Cardinality(Used') \in Nat
    BY <1>7, SlotsFinite DEF Used
  <2>2. Cardinality(Used') = Cardinality(Used) - 1
    BY <1>7, <2>1, FS_RemoveElement
  <2> QED BY <2>1, <2>2
<1> QED BY <1>3, <1>4, <1>5, <1>6, <1>8

LEMMA ReturnInv ==
    ASSUME ConcurrentAssumption, SelectorInv, Return
    PROVE  SelectorInv'
<1> USE DEF SelectorInv
<1>1. PICK i \in Slots :
          /\ bg[i] = "returning"
          /\ IF got = i
             THEN Deliver(i)
             ELSE bg' = [bg EXCEPT ![i] = "done"] /\ UNCHANGED <<item, taken, sel, got>>
  BY DEF Return
<1>2. ~awaiting /\ UNCHANGED <<finished, pushed, ready, awaiting, remaining>>
  BY DEF Return
<1>3. \A j \in Slots : bg[j] = "returning" => j = i
  BY <1>1 DEF BusyInv
<1>4. CASE got = i
  <2>1. Deliver(i) /\ sel' = "outside" /\ got' = 0 /\ bg' = [bg EXCEPT ![i] = "empty"]
    BY <1>1, <1>4 DEF Deliver
  <2>2. \A k \in DOMAIN ready : ready[k] # i /\ ready[k] \in Slots
    BY <1>4 DEF ReadyOnce, TypeOK
  <2>3. /\ item' \in [Slots -> Items \cup {NoItem}] /\ bg' \in [Slots -> BgStates]
        /\ taken' \in Seq(Items)
        /\ SlotInv' /\ TakenInv'
        /\ Cardinality(Used') + 1 = Cardinality(Used) /\ Cardinality(Used') \in Nat
    BY <1>1, <1>2, <2>1, <2>2, DeliverInv
  <2>4. TypeOK'
    BY <1>2, <2>1, <2>3 DEF TypeOK, SelStates
  <2>5. BusyInv'
    BY <1>1, <1>2, <1>3, <2>1 DEF BusyInv, TypeOK
  <2>6. CountInv'
    BY <1>2, <1>4, <2>1, <2>3 DEF CountInv, TypeOK, Slots
  <2>7. WaitsForNothing'
    BY <1>2, <2>1 DEF WaitsForNothing
  <2>8. ReadyOnce'
    BY <1>2, <2>1, <2>2 DEF ReadyOnce, TypeOK, Slots
  <2> QED BY <2>3, <2>4, <2>5, <2>6, <2>7, <2>8
<1>5. CASE got # i
  <2>1. bg' = [bg EXCEPT ![i] = "done"] /\ UNCHANGED <<item, taken, sel, got>>
    BY <1>1, <1>5
  <2>2. got = 0
    BY <1>3, <1>5 DEF BusyInv, TypeOK
  <2>3. TypeOK' /\ SlotInv' /\ TakenInv'
    BY <1>1, <1>2, <2>1 DEF TypeOK, SlotInv, TakenInv, BgStates
  <2>4. BusyInv'
    BY <1>2, <1>3, <2>1, <2>2 DEF BusyInv, TypeOK
  <2>5. Used' = Used
    BY <1>1, <2>1 DEF Used, TypeOK
  <2>6. CountInv' /\ WaitsForNothing'
    BY <1>2, <2>1, <2>5 DEF CountInv, WaitsForNothing
  <2>7. ReadyOnce'
    BY <1>2, <2>1 DEF ReadyOnce, TypeOK
  <2> QED BY <2>3, <2>4, <2>6, <2>7
<1> QED BY <1>4, <1>5

LEMMA SelectInv ==
    ASSUME ConcurrentAssumption, SelectorInv, Select
    PROVE  SelectorInv'
<1> USE DEF SelectorInv
<1>1. /\ ~Busy /\ sel = "outside" /\ remaining # 0 /\ UNCHANGED <<finished, pushed>>
  BY DEF Select
<1>2. got = 0 /\ ~awaiting /\ \A j \in Slots : bg[j] # "returning"
  BY <1>1 DEF BusyInv, WaitsForNothing, Busy
<1>3. CASE ready # <<>>
  <2>1. PICK i \in Slots : Pop(i) /\ Deliver(i)
    BY <1>3 DEF Select
  <2>2. awaiting' = awaiting /\ sel' = "outside" /\ got' = 0
        /\ ready' = Tail(ready) /\ remaining' = remaining - 1
        /\ bg' = [bg EXCEPT ![i] = "empty"]
    BY <1>3, <2>1 DEF Select, Pop, Deliver
  <2>3. /\ bg[i] \in {"returning", "done"}
        /\ Tail(ready) \in Seq(Slots) /\ Len(Tail(ready)) = Len(ready) - 1
        /\ \A k \in 1..Len(Tail(ready)) :
              k + 1 \in DOMAIN ready /\ Tail(ready)[k] = ready[k + 1] /\ Tail(ready)[k] # i
    BY <1>3, <2>1, PopType DEF Pop
  <2>4. DOMAIN ready' = 1..Len(Tail(ready)) /\ Len(ready) \in Nat
    BY <2>2, <2>3, LenProperties DEF TypeOK
  <2>5. /\ item' \in [Slots -> Items \cup {NoItem}] /\ bg' \in [Slots -> BgStates]
        /\ taken' \in Seq(Items)
        /\ SlotInv' /\ TakenInv'
        /\ Cardinality(Used') + 1 = Cardinality(Used) /\ Cardinality(Used') \in Nat
    BY <1>1, <2>1, <2>2, <2>3, <2>4, DeliverInv
  <2>6. remaining' \in 0..MaxTasks
    BY <1>2, <2>2, <2>3, PopCounted
  <2>7. TypeOK'
    BY <1>1, <2>2, <2>3, <2>5, <2>6 DEF TypeOK, SelStates
  <2>8. BusyInv' /\ WaitsForNothing'
    BY <1>2, <2>2 DEF BusyInv, WaitsForNothing, TypeOK, Busy
  <2>9. CountInv'
    BY <1>2, <2>2, <2>5 DEF CountInv, TypeOK
  <2>10. ReadyOnce'
    <3>1. \A k, l \in DOMAIN ready' : ready'[k] = ready'[l] => k = l
      <4>1. SUFFICES ASSUME NEW k \in DOMAIN ready', NEW l \in DOMAIN ready',
                            ready'[k] = ready'[l]
                     PROVE  k = l
        OBVIOUS
      <4>2. k + 1 \in DOMAIN ready /\ l + 1 \in DOMAIN ready /\ ready[k + 1] = ready[l + 1]
        BY <2>2, <2>3, <2>4, <4>1
      <4>3. k + 1 = l + 1
        BY <4>2 DEF ReadyOnce
      <4> QED BY <2>4, <4>3
    <3>2. \A k \in DOMAIN ready' : bg'[ready'[k]] \in {"returning", "done"}
      <4>1. SUFFICES ASSUME NEW k \in DOMAIN ready'
                     PROVE  bg'[ready'[k]] \in {"returning", "done"}
        OBVIOUS
      <4>2. ready'[k] = ready[k + 1] /\ k + 1 \in DOMAIN ready /\ ready[k + 1] # i
        BY <2>2, <2>3, <2>4
      <4>3. ready[k + 1] \in Slots /\ bg[ready[k + 1]] \in {"returning", "done"}
        BY <4>2 DEF ReadyOnce, TypeOK
      <4>4. bg'[ready[k + 1]] = bg[ready[k + 1]]
        BY <2>2, <4>2, <4>3 DEF TypeOK
      <4> QED BY <4>2, <4>3, <4>4
    <3>3. \A k \in DOMAIN ready' : ready'[k] # 0
      <4>1. \A k \in DOMAIN ready' : ready'[k] \in Slots
        BY <2>2, <2>3, <2>4 DEF TypeOK
      <4> QED BY <4>1 DEF Slots
    <3> QED BY <2>2, <3>1, <3>2, <3>3 DEF ReadyOnce
  <2> QED BY <2>5, <2>7, <2>8, <2>9, <2>10
<1>4. CASE ready = <<>>
  <2>1. sel' = "awaiter" /\ awaiting' = TRUE
        /\ UNCHANGED <<item, bg, ready, remaining, got, taken>>
    BY <1>4 DEF Select
  <2>2. Used' = Used /\ Busy' = Busy
    BY <2>1 DEF Used, Busy
  <2>3. TypeOK' /\ SlotInv' /\ TakenInv' /\ CountInv'
    BY <1>1, <2>1, <2>2 DEF TypeOK, SlotInv, TakenInv, CountInv, SelStates
  <2>4. BusyInv' /\ WaitsForNothing' /\ ReadyOnce'
    BY <1>1, <1>2, <1>4, <2>1, <2>2 DEF BusyInv, WaitsForNothing, ReadyOnce
  <2> QED BY <2>3, <2>4
<1> QED BY <1>3, <1>4

LEMMA NextInv ==
    ASSUME ConcurrentAssumption, SelectorInv, [Next]_vars
    PROVE  SelectorInv'
<1>1. CASE UNCHANGED vars
  <2>1. Used' = Used /\ Busy' = Busy
    BY <1>1 DEF vars, Used, Busy
  <2> QED
    BY <1>1, <2>1 DEF vars, SelectorInv, TypeOK, SlotInv, BusyInv, CountInv, TakenInv,
                      WaitsForNothing, ReadyOnce
<1>2. CASE Next
  BY <1>1, <1>2, PushInv, FinishInv, ResumeInv, ReturnInv, SelectInv DEF Next, Elsewhere
<1> QED BY <1>1, <1>2

\* The invariant holds of every selector.
THEOREM SelectorCorrect ==
    ASSUME ConcurrentAssumption
    PROVE  Spec => []SelectorInv
<1>1. Init => SelectorInv
  BY InitInv
<1>2. SelectorInv /\ [Next]_vars => SelectorInv'
  BY NextInv
<1> QED BY <1>1, <1>2, PTL DEF Spec

\* A select() that waits has nothing to take: notify() misses no one, between
\* the test of await_ready and the suspension or between two calls.
THEOREM NobodyWaitsForNothing ==
    ASSUME ConcurrentAssumption
    PROVE  Spec => []WaitsForNothing
<1>1. SelectorInv => WaitsForNothing
  BY DEF SelectorInv
<1> QED BY <1>1, SelectorCorrect, PTL

\* An index is in the queue of completions once, for a task that has ended and
\* that nobody took.
THEOREM QueuedOnce ==
    ASSUME ConcurrentAssumption
    PROVE  Spec => []ReadyOnce
<1>1. SelectorInv => ReadyOnce
  BY DEF SelectorInv
<1> QED BY <1>1, SelectorCorrect, PTL
-----------------------------------------------------------------------------
(* The refinement: the abstract queue is what select() has popped and not  *)
(* delivered, and behind it the tasks of the queued indices.               *)

Working == {item[i] : i \in {j \in Slots : bg[j] = "waiting"}}
Popped  == IF got = 0 THEN <<>> ELSE <<item[got]>>
Queued  == [k \in 1..Len(ready) |-> item[ready[k]]]

\* The abstract queue is a sequence of tasks that were pushed.
LEMMA QueueType ==
    ASSUME ConcurrentAssumption, SelectorInv
    PROVE  /\ Popped \in Seq(Items) /\ Queued \in Seq(Items)
           /\ Len(ready) \in Nat /\ Len(Queued) = Len(ready)
           /\ \A k \in 1..Len(ready) :
                 ready[k] \in Slots /\ item[ready[k]] \in Items /\ item[ready[k]] \in pushed
<1> USE DEF SelectorInv
<1>1. Len(ready) \in Nat /\ DOMAIN ready = 1..Len(ready)
  BY LenProperties DEF TypeOK
<1>2. \A k \in 1..Len(ready) :
         ready[k] \in Slots /\ item[ready[k]] \in Items /\ item[ready[k]] \in pushed
  BY <1>1 DEF ReadyOnce, TypeOK, SlotInv
<1>3. Queued \in Seq(Items) /\ Len(Queued) = Len(ready)
  BY <1>1, <1>2 DEF Queued
<1>4. Popped \in Seq(Items)
  <2>1. CASE got = 0
    BY <2>1, EmptySeq DEF Popped
  <2>2. CASE got # 0
    <3>1. item[got] \in Items
      BY <2>2 DEF BusyInv, SlotInv, TypeOK
    <3> QED BY <2>2, <3>1 DEF Popped
  <2> QED BY <2>1, <2>2
<1> QED BY <1>1, <1>2, <1>3, <1>4

\* What is at the end of a sequence is at the end of a longer one.
LEMMA AppendBehind ==
    ASSUME NEW S, NEW s \in Seq(S), NEW t \in Seq(S), NEW x \in S
    PROVE  s \o Append(t, x) = Append(s \o t, x)
<1>1. s \o t \in Seq(S) /\ <<x>> \in Seq(S)
  BY ConcatProperties
<1>2. Append(t, x) = t \o <<x>> /\ Append(s \o t, x) = (s \o t) \o <<x>>
  BY <1>1, AppendIsConcat
<1> QED BY <1>1, <1>2, ConcatAssociative

\* A task that was never pushed is not in the abstract queue.
LEMMA FreshItem ==
    ASSUME ConcurrentAssumption, SelectorInv, NEW x \in Items, x \notin pushed
    PROVE  Q!Fresh(x)
<1> USE DEF SelectorInv
<1>1. x \notin Working
  BY DEF Working, SlotInv, TypeOK
<1>2. \A k \in DOMAIN taken : taken[k] # x
  BY DEF TakenInv
<1>3. /\ Popped \o Queued \in Seq(Items)
      /\ Len(Popped \o Queued) = Len(Popped) + Len(Queued)
      /\ \A k \in 1..(Len(Popped) + Len(Queued)) : (Popped \o Queued)[k] =
            IF k <= Len(Popped) THEN Popped[k] ELSE Queued[k - Len(Popped)]
  BY QueueType, ConcatProperties
<1>4. Len(Popped) \in Nat /\ \A k \in 1..Len(Popped) : Popped[k] # x
  <2>1. CASE got = 0
    BY <2>1 DEF Popped
  <2>2. CASE got # 0
    BY <2>2 DEF Popped, BusyInv, SlotInv, TypeOK
  <2> QED BY <2>1, <2>2
<1>5. \A k \in 1..Len(Queued) : Queued[k] # x
  BY QueueType DEF Queued
<1>6. \A k \in DOMAIN (Popped \o Queued) : (Popped \o Queued)[k] # x
  <2>1. DOMAIN (Popped \o Queued) = 1..(Len(Popped) + Len(Queued)) /\ Len(Queued) \in Nat
    BY <1>3, QueueType, LenProperties
  <2> QED BY <1>3, <1>4, <1>5, <2>1
<1> QED BY <1>1, <1>2, <1>6 DEF Q!Fresh, Q!Members, Working, Popped, Queued

LEMMA PushMaps ==
    ASSUME ConcurrentAssumption, SelectorInv, NEW x \in Items, Push(x)
    PROVE  Q!Submit(x)
<1> USE DEF SelectorInv
<1>1. PICK i \in Slots :
          /\ bg[i] = "empty"
          /\ item' = [item EXCEPT ![i] = x]
          /\ bg' = [bg EXCEPT ![i] = IF x \in finished THEN "done" ELSE "waiting"]
          /\ ready' = IF x \in finished THEN Append(ready, i) ELSE ready
  BY DEF Push
<1>2. x \notin pushed /\ UNCHANGED <<got, taken>>
  BY DEF Push
<1>3. Q!Fresh(x)
  BY <1>2, FreshItem
<1>4. Popped' = Popped
  BY <1>1, <1>2 DEF Popped, BusyInv, TypeOK
<1>5. \A k \in 1..Len(ready) : ready[k] # i /\ ready[k] \in Slots
  BY <1>1, QueueType, LenProperties DEF ReadyOnce, TypeOK
<1>6. CASE x \in finished
  <2>1. Working' = Working
    BY <1>1, <1>6 DEF Working, TypeOK
  <2>2. /\ Len(ready') = Len(ready) + 1 /\ ready'[Len(ready) + 1] = i
        /\ \A k \in 1..Len(ready) : ready'[k] = ready[k]
    BY <1>1, <1>6, AppendProperties DEF TypeOK
  <2>3. Queued' = Append(Queued, x)
    BY <1>1, <1>5, <2>2, QueueType DEF Queued, TypeOK
  <2>4. (Popped \o Queued)' = Append(Popped \o Queued, x)
    BY <1>4, <2>3, QueueType, AppendBehind
  <2> QED BY <1>2, <1>3, <2>1, <2>4 DEF Q!Submit, Working, Popped, Queued
<1>7. CASE x \notin finished
  <2>1. Working' = Working \cup {x}
    BY <1>1, <1>7 DEF Working, TypeOK
  <2>2. Queued' = Queued
    BY <1>1, <1>5, <1>7 DEF Queued, TypeOK
  <2> QED BY <1>2, <1>3, <1>4, <2>1, <2>2 DEF Q!Submit, Working, Popped, Queued
<1> QED BY <1>6, <1>7

LEMMA FinishMaps ==
    ASSUME ConcurrentAssumption, SelectorInv, NEW x \in Items, Finish(x)
    PROVE  Q!Complete(x) \/ UNCHANGED Q!vars
<1> USE DEF SelectorInv
<1>1. x \notin finished /\ UNCHANGED <<item, got, taken>>
  BY DEF Finish
<1>2. CASE UNCHANGED <<bg, ready>>
  BY <1>1, <1>2 DEF Q!vars
<1>3. CASE \E i \in Slots :
             /\ item[i] = x
             /\ bg' = [bg EXCEPT ![i] = "returning"]
             /\ ready' = Append(ready, i)
  <2>1. PICK i \in Slots : /\ item[i] = x
                           /\ bg' = [bg EXCEPT ![i] = "returning"]
                           /\ ready' = Append(ready, i)
    BY <1>3
  <2>2. bg[i] = "waiting" /\ x # NoItem
    BY <1>1, <2>1 DEF SlotInv, TypeOK, BgStates, ConcurrentAssumption
  <2>3. x \in Working /\ Working' = Working \ {x}
    BY <1>1, <2>1, <2>2 DEF Working, SlotInv, TypeOK
  <2>4. /\ Len(ready') = Len(ready) + 1 /\ ready'[Len(ready) + 1] = i
        /\ \A k \in 1..Len(ready) : ready'[k] = ready[k]
    BY <2>1, AppendProperties DEF TypeOK
  <2>5. Queued' = Append(Queued, x)
    BY <1>1, <2>1, <2>4, QueueType DEF Queued
  <2>6. (Popped \o Queued)' = Append(Popped \o Queued, x)
    BY <1>1, <2>5, QueueType, AppendBehind DEF Popped
  <2> QED BY <1>1, <2>3, <2>6 DEF Q!Complete, Working, Popped, Queued
<1> QED BY <1>2, <1>3 DEF Finish

\* What is popped comes from the head of the queue to its front.
LEMMA ResumeMaps ==
    ASSUME ConcurrentAssumption, SelectorInv, Resume
    PROVE  UNCHANGED Q!vars
<1> USE DEF SelectorInv
<1>1. PICK i \in Slots :
          /\ i = Head(ready) /\ ready # <<>> /\ got = 0 /\ bg[i] = "returning"
          /\ ready' = Tail(ready) /\ remaining' = remaining - 1
          /\ awaiting' = FALSE /\ sel' = "background" /\ got' = i
          /\ UNCHANGED <<item, bg, taken, finished, pushed>>
  BY ResumeShape
<1>2. Queued # <<>> /\ Head(Queued) = item[i] /\ Queued' = Tail(Queued)
  <2>1. /\ i = ready[1] /\ Len(ready') = Len(ready) - 1
        /\ \A k \in 1..Len(ready') : ready'[k] = ready[k + 1]
    BY <1>1, PopType
  <2>2. Len(ready) \in Nat \ {0}
    BY <1>1, EmptySeq DEF TypeOK
  <2>3. Queued # <<>> /\ Head(Queued) = item[i]
    BY <1>1, <2>1, <2>2, QueueType DEF Queued
  <2>4. /\ Tail(Queued) \in Seq(Items) /\ Len(Tail(Queued)) = Len(Queued) - 1
        /\ \A k \in 1..Len(Tail(Queued)) : Tail(Queued)[k] = Queued[k + 1]
    BY <2>3, QueueType, HeadTailProperties
  <2>5. Queued' \in Seq(Items) /\ Len(Queued') = Len(ready')
    <3>1. /\ Len(ready') \in Nat
          /\ \A k \in 1..Len(ready') : item'[ready'[k]] \in Items
      BY <2>1, <2>2, <1>1, QueueType
    <3> QED BY <3>1 DEF Queued
  <2>6. \A k \in 1..Len(Queued') : Queued'[k] = Tail(Queued)[k]
    BY <1>1, <2>1, <2>2, <2>4, <2>5, QueueType DEF Queued
  <2>7. Len(Queued') = Len(Tail(Queued))
    BY <2>1, <2>4, <2>5, QueueType
  <2> QED BY <2>3, <2>4, <2>5, <2>6, <2>7, SeqEqual
<1>3. Popped = <<>> /\ Popped' = <<item[i]>>
  BY <1>1 DEF Popped, Slots
<1>4. <<item[i]>> \o Tail(Queued) = Queued
  BY <1>2, QueueType
<1>5. (Popped \o Queued)' = Popped \o Queued
  BY <1>2, <1>3, <1>4, QueueType, ConcatEmptySeq
<1> QED BY <1>1, <1>5 DEF Q!vars, Popped, Queued
\* The slot whose task is delivered is not among the others.
LEMMA DeliverMaps ==
    ASSUME ConcurrentAssumption, SelectorInv, NEW i \in Slots, Deliver(i),
           bg[i] \in {"returning", "done"}
    PROVE  Working' = Working /\ Popped' = <<>> /\ taken' = Append(taken, item[i])
<1> USE DEF SelectorInv
<1>1. bg' = [bg EXCEPT ![i] = "empty"] /\ item' = [item EXCEPT ![i] = NoItem]
  BY DEF Deliver
<1>2. Working' = Working
  BY <1>1 DEF Working, TypeOK
<1> QED BY <1>2 DEF Deliver, Popped

LEMMA ReturnMaps ==
    ASSUME ConcurrentAssumption, SelectorInv, Return
    PROVE  Q!Take \/ UNCHANGED Q!vars
<1> USE DEF SelectorInv
<1>1. PICK i \in Slots :
          /\ bg[i] = "returning"
          /\ IF got = i
             THEN Deliver(i)
             ELSE bg' = [bg EXCEPT ![i] = "done"] /\ UNCHANGED <<item, taken, sel, got>>
  BY DEF Return
<1>2. UNCHANGED ready
  BY DEF Return
<1>3. CASE got = i
  <2>1. Working' = Working /\ Popped' = <<>> /\ taken' = Append(taken, item[i])
    BY <1>1, <1>3, DeliverMaps
  <2>2. Popped = <<item[i]>> /\ item[i] \in Items
    BY <1>1, <1>3 DEF Popped, Slots, SlotInv, TypeOK
  <2>3. item' = [item EXCEPT ![i] = NoItem]
    BY <1>1, <1>3 DEF Deliver
  <2>4. \A k \in 1..Len(ready) : ready[k] \in Slots /\ ready[k] # i
    BY <1>3, QueueType, LenProperties DEF ReadyOnce, TypeOK
  <2>5. Queued' = Queued
    BY <1>2, <2>3, <2>4 DEF Queued, TypeOK
  <2>6. /\ Popped \o Queued # <<>> /\ Head(Popped \o Queued) = item[i]
        /\ Tail(Popped \o Queued) = Queued
    BY <2>2, QueueType
  <2>7. (Popped \o Queued)' = Queued
    BY <2>1, <2>5, QueueType, ConcatEmptySeq
  <2> QED BY <2>1, <2>6, <2>7 DEF Q!Take, Working, Popped, Queued
<1>4. CASE got # i
  <2>1. bg' = [bg EXCEPT ![i] = "done"] /\ UNCHANGED <<item, taken, got>>
    BY <1>1, <1>4
  <2>2. Working' = Working
    BY <1>1, <2>1 DEF Working, TypeOK
  <2> QED BY <1>2, <2>1, <2>2 DEF Q!vars, Working
<1> QED BY <1>3, <1>4

LEMMA SelectMaps ==
    ASSUME ConcurrentAssumption, SelectorInv, Select
    PROVE  Q!Take \/ UNCHANGED Q!vars
<1> USE DEF SelectorInv
<1>1. ~Busy /\ sel = "outside"
  BY DEF Select
<1>2. Popped = <<>>
  BY <1>1 DEF Popped, BusyInv
<1>3. CASE ready # <<>>
  <2>1. PICK i \in Slots : Pop(i) /\ Deliver(i)
    BY <1>3 DEF Select
  <2>2. /\ i = ready[1] /\ bg[i] \in {"returning", "done"}
        /\ ready' = Tail(ready) /\ Len(ready') = Len(ready) - 1
        /\ item' = [item EXCEPT ![i] = NoItem]
        /\ \A k \in 1..Len(ready') :
              k + 1 \in DOMAIN ready /\ ready'[k] = ready[k + 1] /\ ready'[k] # i
    BY <1>3, <2>1, PopType DEF Pop, Deliver
  <2>3. Working' = Working /\ Popped' = <<>> /\ taken' = Append(taken, item[i])
    BY <2>1, <2>2, DeliverMaps
  <2>4. Len(ready) \in Nat \ {0}
    BY <1>3, EmptySeq DEF TypeOK
  <2>5. Queued # <<>> /\ Head(Queued) = item[i]
    BY <2>2, <2>4, QueueType DEF Queued
  <2>6. /\ Tail(Queued) \in Seq(Items) /\ Len(Tail(Queued)) = Len(Queued) - 1
        /\ \A k \in 1..Len(Tail(Queued)) : Tail(Queued)[k] = Queued[k + 1]
    BY <2>5, QueueType, HeadTailProperties
  <2>7. \A k \in 1..Len(ready') :
           item'[ready'[k]] = item[ready[k + 1]] /\ item'[ready'[k]] \in Items
    BY <2>2, <2>4, QueueType DEF TypeOK
  <2>8. Queued' \in Seq(Items) /\ Len(Queued') = Len(ready')
    <3>1. PICK n \in Nat : n = Len(ready')
      BY <2>2, <2>4
    <3>2. Queued' = [k \in 1..n |-> item'[ready'[k]]]
      BY ONLY <3>1, Zenon DEF Queued
    <3>3. Queued' \in [1..n -> Items]
      BY ONLY <2>7, <3>1, <3>2
    <3> QED BY ONLY <3>1, <3>3
  <2>9. \A k \in 1..Len(Queued') : Queued'[k] = Tail(Queued)[k]
    BY <2>2, <2>4, <2>6, <2>7, <2>8, QueueType DEF Queued
  <2>10. Queued' = Tail(Queued)
    <3>1. Len(Queued') = Len(Tail(Queued))
      BY <2>2, <2>6, <2>8, QueueType
    <3> QED BY <2>6, <2>8, <2>9, <3>1, SeqEqual
  <2>11. Popped \o Queued = Queued /\ (Popped \o Queued)' = Tail(Queued)
    BY <1>2, <2>3, <2>6, <2>10, QueueType, ConcatEmptySeq
  <2> QED BY <2>3, <2>5, <2>11 DEF Q!Take, Working, Popped, Queued
<1>4. CASE ready = <<>>
  BY <1>4 DEF Select, Q!vars
<1> QED BY <1>3, <1>4

\* The slots, the queue of indices and the two suspensions of select()
\* implement the queue of completions: each task that was pushed is returned
\* once, in the order in which the tasks were known to be complete.
THEOREM SelectorIsQueue ==
    ASSUME ConcurrentAssumption
    PROVE  Spec => IsQueue
<1>1. Init => Q!Init
  <2>1. SUFFICES ASSUME Init PROVE Q!Init
    OBVIOUS
  <2>2. Working = {}
    BY <2>1 DEF Init, Working
  <2>3. Popped = <<>> /\ Queued = <<>>
    BY <2>1 DEF Init, Popped, Queued
  <2>4. Popped \o Queued = <<>>
    BY <2>3, EmptySeq, ConcatEmptySeq
  <2> QED BY <2>1, <2>2, <2>4 DEF Init, Q!Init, Working, Popped, Queued
<1>2. SelectorInv /\ [Next]_vars => [Q!Next]_(Q!vars)
  <2>1. SUFFICES ASSUME SelectorInv, [Next]_vars PROVE [Q!Next]_(Q!vars)
    OBVIOUS
  <2>2. CASE UNCHANGED vars
    BY <2>2 DEF vars, Q!vars
  <2>3. ASSUME NEW x \in Items, Push(x) PROVE Q!Next
    BY <2>1, <2>3, PushMaps DEF Q!Next
  <2>4. ASSUME NEW x \in Items, Finish(x) PROVE Q!Next \/ UNCHANGED Q!vars
    BY <2>1, <2>4, FinishMaps DEF Q!Next
  <2>5. CASE Resume
    BY <2>1, <2>5, ResumeMaps
  <2>6. CASE Return
    BY <2>1, <2>6, ReturnMaps DEF Q!Next
  <2>7. CASE Select
    BY <2>1, <2>7, SelectMaps DEF Q!Next
  <2> QED BY <2>1, <2>2, <2>3, <2>4, <2>5, <2>6, <2>7 DEF Next, Elsewhere
<1> QED BY <1>1, <1>2, SelectorCorrect, PTL DEF Spec, IsQueue, Q!Spec
-----------------------------------------------------------------------------
(* The generator.                                                          *)

\* The entries so far are with the consumer or in the buffer.
EntriesInv ==
    /\ \A i \in 1..Len(seen) : seen[i] = i
    /\ \A i \in 1..Len(buf) : buf[i] = Len(seen) + i
    /\ next - 1 = Len(seen) + Len(buf)
    /\ result = "end" => Len(seen) = Entries

\* A generator that runs or waits has a consumer to resume, which it resumes
\* with the value at once.
TransferInv ==
    /\ value = 0
    /\ gen \in {"run", "dents"} => waiter = TRUE
    /\ gen = "done" => result # "none"
    /\ failed = TRUE => gen = "done"
    /\ gen \in {"initial", "dents", "done"} => buf = <<>>

\* An entry that is taken from the buffer pays for the two frames of its way to
\* the consumer and back.
FramesInv ==
    /\ Len(buf) <= Chunk /\ (gen = "yield" => Len(buf) < Chunk)
    /\ gen = "run" => Len(stack) + 2 * Len(buf) <= 2 * Chunk + 1
    /\ cons = "run" /\ result = "none" => Len(stack) + 2 * Len(buf) <= 2 * Chunk
    /\ Gen!StackBounded

GenInv == Gen!TypeOK /\ EntriesInv /\ TransferInv /\ FramesInv

LEMMA GenInit ==
    ASSUME Gen!GeneratorAssumption, Gen!Init
    PROVE  GenInv
<1> USE DEF Gen!Init, Gen!GeneratorAssumption
<1>1. /\ stack \in Seq({"cons", "gen"}) /\ Len(stack) = 1 /\ stack[1] = "cons" /\ stack # <<>>
      /\ buf \in Seq(1..Entries) /\ seen \in Seq(1..Entries) /\ Len(buf) = 0 /\ Len(seen) = 0
  OBVIOUS
<1>2. Gen!TypeOK
  <2>1. value \in 0..Entries /\ next \in 1..(Entries + 1)
    OBVIOUS
  <2>2. stack[Len(stack)] = "cons"
    BY <1>1
  <2> QED BY <1>1, <2>1, <2>2 DEF Gen!TypeOK
<1>3. EntriesInv
  BY <1>1 DEF EntriesInv
<1>4. TransferInv
  BY DEF TransferInv
<1>5. FramesInv
  BY <1>1 DEF FramesInv, Gen!StackBounded
<1> QED BY <1>2, <1>3, <1>4, <1>5 DEF GenInv

\* A frame more.
LEMMA FramePushed ==
    ASSUME NEW f \in {"cons", "gen"}, stack \in Seq({"cons", "gen"}), stack' = Append(stack, f)
    PROVE  /\ stack' \in Seq({"cons", "gen"}) /\ stack' # <<>> /\ Len(stack') = Len(stack) + 1
           /\ stack'[Len(stack')] = f
OBVIOUS

LEMMA AwaitNextInv ==
    ASSUME Gen!GeneratorAssumption, GenInv, Gen!AwaitNext
    PROVE  GenInv'
<1>1. /\ cons = "run" /\ result = "none" /\ gen # "done"
      /\ waiter' = TRUE /\ cons' = "next" /\ gen' = "run" /\ stack' = Append(stack, "gen")
      /\ UNCHANGED <<value, seen, result, failed, next, buf>>
  BY DEF GenInv, TransferInv, Gen!AwaitNext
<1>2. /\ stack \in Seq({"cons", "gen"}) /\ Len(stack) \in Nat
      /\ stack' \in Seq({"cons", "gen"}) /\ stack' # <<>> /\ Len(stack') = Len(stack) + 1
      /\ stack'[Len(stack')] = "gen"
  BY <1>1, FramePushed DEF GenInv, Gen!TypeOK
<1>3. Gen!TypeOK'
  BY <1>1, <1>2 DEF GenInv, Gen!TypeOK
<1>4. EntriesInv'
  BY <1>1 DEF GenInv, EntriesInv
<1>5. TransferInv'
  BY <1>1 DEF GenInv, TransferInv
<1>6. FramesInv'
  <2>1. /\ Len(buf) \in Nat /\ Chunk \in Nat /\ Len(buf) <= Chunk
        /\ Len(stack) + 2 * Len(buf) <= 2 * Chunk
    BY <1>1, LenProperties DEF GenInv, FramesInv, Gen!TypeOK, Gen!GeneratorAssumption
  <2>2. Len(stack') + 2 * Len(buf) <= 2 * Chunk + 1 /\ Len(stack') <= 2 * Chunk + 2
    BY <1>2, <2>1
  <2> QED BY <1>1, <2>1, <2>2 DEF FramesInv, Gen!StackBounded
<1> QED BY <1>3, <1>4, <1>5, <1>6 DEF GenInv

LEMMA ConsumerSuspendsInv ==
    ASSUME Gen!GeneratorAssumption, GenInv, Gen!ConsumerSuspends
    PROVE  GenInv'
<1>1. /\ cons = "run" /\ cons' = "loop" /\ stack' = <<>>
      /\ UNCHANGED <<gen, waiter, value, failed, next, buf, seen, result>>
  BY DEF Gen!ConsumerSuspends, Gen!Unwind
<1>2. stack' \in Seq({"cons", "gen"}) /\ Len(stack') = 0 /\ waiter = FALSE /\ gen # "run"
  BY <1>1 DEF GenInv, Gen!TypeOK, TransferInv
<1>3. Gen!TypeOK'
  BY <1>1, <1>2 DEF GenInv, Gen!TypeOK
<1>4. EntriesInv'
  BY <1>1 DEF GenInv, EntriesInv
<1>5. TransferInv'
  BY <1>1 DEF GenInv, TransferInv
<1>6. FramesInv'
  BY <1>1, <1>2 DEF GenInv, FramesInv, Gen!StackBounded, Gen!GeneratorAssumption
<1> QED BY <1>3, <1>4, <1>5, <1>6 DEF GenInv

\* The consumer is resumed by a generator that yields or ends.
LEMMA ConsumerContinues ==
    ASSUME GenInv, NEW v, NEW g, gen = "run" \/ stack = <<>>, cons = "next", gen' = g, g # "run",
           Gen!ResumeConsumer(g, v, failed')
    PROVE  /\ stack' \in Seq({"cons", "gen"}) /\ stack' # <<>> /\ stack'[Len(stack')] = "cons"
           /\ Len(stack') = Len(stack) + 1 /\ Len(stack) \in Nat /\ cons' = "run" /\ waiter' = FALSE
BY FramePushed DEF GenInv, Gen!TypeOK, Gen!ResumeConsumer

LEMMA YieldInv ==
    ASSUME Gen!GeneratorAssumption, GenInv, Gen!Yield
    PROVE  GenInv'
<1> DEFINE v == Head(buf)
<1>1. /\ gen = "run" /\ buf # <<>> /\ waiter = TRUE /\ value = 0 /\ failed = FALSE /\ cons = "next"
      /\ Gen!TypeOK /\ EntriesInv /\ TransferInv /\ FramesInv
  BY DEF GenInv, TransferInv, Gen!Yield, Gen!TypeOK
<1>2. /\ buf' = Tail(buf) /\ gen' = "yield" /\ Gen!ResumeConsumer("yield", v, failed)
      /\ UNCHANGED <<failed, next>>
  BY <1>1 DEF Gen!Yield, Gen!Suspended
<1>3. value' = 0 /\ result' = "none" /\ seen' = Append(seen, v)
  BY <1>1, <1>2 DEF Gen!ResumeConsumer
<1>4. /\ stack' \in Seq({"cons", "gen"}) /\ stack' # <<>> /\ stack'[Len(stack')] = "cons"
      /\ Len(stack') = Len(stack) + 1 /\ Len(stack) \in Nat /\ cons' = "run" /\ waiter' = FALSE
  BY <1>1, <1>2, ConsumerContinues
<1>5. /\ buf \in Seq(1..Entries) /\ Len(buf) \in Nat \ {0} /\ v = buf[1] /\ v \in 1..Entries
      /\ buf' \in Seq(1..Entries) /\ Len(buf') = Len(buf) - 1 /\ Len(buf') \in Nat
      /\ \A i \in 1..Len(buf') : buf'[i] = buf[i + 1]
  <2>1. buf \in Seq(1..Entries) /\ buf # <<>>
    BY <1>1 DEF Gen!TypeOK
  <2>2. Len(buf) \in Nat \ {0}
    BY <2>1, EmptySeq, LenProperties
  <2> HIDE DEF v
  <2>3. /\ v = buf[1] /\ Len(buf') = Len(buf) - 1 /\ buf' \in Seq(1..Entries)
        /\ \A i \in 1..Len(buf') : buf'[i] = buf[i + 1]
    BY <1>2, <2>1, <2>2 DEF v
  <2>4. v \in 1..Entries
    BY <2>1, HeadTailProperties, Zenon DEF v
  <2> QED BY <2>1, <2>2, <2>3, <2>4
<1>6. /\ seen \in Seq(1..Entries) /\ Len(seen) \in Nat
      /\ seen' \in Seq(1..Entries) /\ Len(seen') = Len(seen) + 1
      /\ \A i \in 1..Len(seen') : seen'[i] = IF i = Len(seen) + 1 THEN v ELSE seen[i]
  BY <1>1, <1>3, <1>5, AppendProperties DEF Gen!TypeOK
<1>7. Gen!TypeOK'
  BY <1>1, <1>2, <1>3, <1>4, <1>5, <1>6 DEF Gen!TypeOK
<1>8. EntriesInv'
  <2>1. next - 1 = Len(seen) + Len(buf) /\ \A i \in 1..Len(buf) : buf[i] = Len(seen) + i
    BY <1>1 DEF EntriesInv
  <2>2. v = Len(seen) + 1
    BY <1>5, <2>1
  <2>3. \A i \in 1..Len(seen') : seen'[i] = i
    BY <1>1, <1>6, <2>2 DEF EntriesInv
  <2>4. \A i \in 1..Len(buf') : buf'[i] = Len(seen') + i
    <3> SUFFICES ASSUME NEW i \in 1..Len(buf')
                 PROVE  buf'[i] = Len(seen') + i
      OBVIOUS
    <3>1. buf'[i] = buf[i + 1] /\ i + 1 \in 1..Len(buf)
      BY <1>5
    <3>2. buf[i + 1] = Len(seen) + (i + 1)
      BY <2>1, <3>1
    <3> QED BY <1>6, <3>1, <3>2
  <2>5. next' - 1 = Len(seen') + Len(buf')
    BY <1>2, <1>5, <1>6, <2>1
  <2> QED BY <1>3, <2>3, <2>4, <2>5 DEF EntriesInv
<1>9. TransferInv'
  BY <1>1, <1>2, <1>3 DEF TransferInv
<1>10. FramesInv'
  <2>1. Len(buf) <= Chunk /\ Chunk \in Nat /\ Len(stack) + 2 * Len(buf) <= 2 * Chunk + 1
    BY <1>1 DEF FramesInv, Gen!GeneratorAssumption
  <2>2. /\ Len(buf') < Chunk /\ Len(buf') <= Chunk /\ Len(stack') + 2 * Len(buf') <= 2 * Chunk
        /\ Len(stack') <= 2 * Chunk + 2
    BY <1>4, <1>5, <2>1
  <2> QED BY <1>2, <2>2 DEF FramesInv, Gen!StackBounded
<1> QED BY <1>7, <1>8, <1>9, <1>10 DEF GenInv

LEMMA GetdentsInv ==
    ASSUME Gen!GeneratorAssumption, GenInv, Gen!Getdents
    PROVE  GenInv'
<1>1. /\ gen = "run" /\ gen' = "dents" /\ buf = <<>> /\ stack' = <<>>
      /\ UNCHANGED <<cons, waiter, value, failed, next, buf, seen, result>>
  BY DEF Gen!Getdents, Gen!Unwind
<1>2. /\ stack' \in Seq({"cons", "gen"}) /\ Len(stack') = 0 /\ Len(buf) = 0
      /\ waiter = TRUE /\ cons = "next" /\ failed = FALSE
  BY <1>1 DEF GenInv, Gen!TypeOK, TransferInv
<1>3. Gen!TypeOK'
  BY <1>1, <1>2 DEF GenInv, Gen!TypeOK
<1>4. EntriesInv'
  BY <1>1 DEF GenInv, EntriesInv
<1>5. TransferInv'
  BY <1>1, <1>2 DEF GenInv, TransferInv
<1>6. FramesInv'
  BY <1>1, <1>2 DEF GenInv, FramesInv, Gen!StackBounded, Gen!GeneratorAssumption
<1> QED BY <1>3, <1>4, <1>5, <1>6 DEF GenInv

\* The end, after an error or after the last entry.
LEMMA EndedInv ==
    ASSUME Gen!GeneratorAssumption, GenInv, cons = "next", buf = <<>>, UNCHANGED <<next, buf>>,
           gen = "run" \/ stack = <<>>, gen' = "done", failed' \in BOOLEAN,
           failed' = TRUE \/ next > Entries, Gen!ResumeConsumer("done", value, failed')
    PROVE  GenInv'
<1>1. Gen!TypeOK /\ EntriesInv /\ TransferInv /\ FramesInv
  BY DEF GenInv
<1>2. /\ stack' \in Seq({"cons", "gen"}) /\ stack' # <<>> /\ stack'[Len(stack')] = "cons"
      /\ Len(stack') = Len(stack) + 1 /\ Len(stack) \in Nat /\ cons' = "run" /\ waiter' = FALSE
  BY ConsumerContinues
<1>3. value' = 0 /\ seen' = seen /\ result' = (IF failed' THEN "error" ELSE "end")
  BY <1>1 DEF Gen!ResumeConsumer, TransferInv
<1>4. Gen!TypeOK'
  <2>1. result' \in {"none", "end", "error"} /\ value' \in 0..Entries /\ gen' # "run"
    BY <1>3 DEF Gen!GeneratorAssumption
  <2>2. stack' # <<>> /\ stack'[Len(stack')] # "gen"
    BY <1>2
  <2> QED BY <1>1, <1>2, <1>3, <2>1, <2>2 DEF Gen!TypeOK
<1>5. Len(seen) \in Nat /\ Len(buf) = 0 /\ next \in Nat
  BY <1>1, LenProperties, EmptySeq DEF Gen!TypeOK
<1>6. EntriesInv'
  <2>1. next > Entries => Len(seen) = Entries
    BY <1>1, <1>5 DEF EntriesInv, Gen!TypeOK, Gen!GeneratorAssumption
  <2> QED BY <1>1, <1>3, <2>1 DEF EntriesInv
<1>7. TransferInv'
  BY <1>3 DEF TransferInv
<1>8. FramesInv'
  <2>1. Len(stack) <= 2 * Chunk + 1 /\ Chunk \in Nat \ {0}
    <3>1. stack = <<>> => Len(stack) = 0
      BY EmptySeq
    <3>2. gen = "run" => Len(stack) <= 2 * Chunk + 1
      BY <1>1, <1>2, <1>5 DEF FramesInv, Gen!GeneratorAssumption
    <3> QED BY <1>2, <3>1, <3>2 DEF Gen!GeneratorAssumption
  <2>2. Len(stack') <= 2 * Chunk + 2 /\ result' # "none"
    BY <1>2, <1>3, <2>1
  <2> QED BY <1>5, <2>1, <2>2 DEF FramesInv, Gen!StackBounded
<1> QED BY <1>4, <1>6, <1>7, <1>8 DEF GenInv

LEMMA RefusedInv ==
    ASSUME Gen!GeneratorAssumption, GenInv, Gen!Refused
    PROVE  GenInv'
<1>1. /\ gen = "run" /\ buf = <<>> /\ failed' = TRUE /\ waiter = TRUE /\ cons = "next"
      /\ Gen!Suspended("done", value, TRUE) /\ UNCHANGED <<next, buf>>
  BY DEF GenInv, TransferInv, Gen!Refused, Gen!TypeOK
<1>2. gen' = "done" /\ Gen!ResumeConsumer("done", value, failed')
  BY <1>1 DEF Gen!Suspended, Gen!ResumeConsumer
<1> QED BY <1>1, <1>2, EndedInv

LEMMA GotEndInv ==
    ASSUME Gen!GeneratorAssumption, GenInv, Gen!GotEnd
    PROVE  GenInv'
<1>1. /\ stack = <<>> /\ gen = "dents" /\ next > Entries /\ gen' = "done"
      /\ Gen!ResumeConsumer("done", value, failed) /\ UNCHANGED <<failed, next, buf>>
  BY DEF Gen!GotEnd
<1>2. buf = <<>> /\ cons = "next" /\ failed = FALSE
  BY <1>1 DEF GenInv, TransferInv, Gen!TypeOK
<1> QED BY <1>1, <1>2, EndedInv

LEMMA GotErrorInv ==
    ASSUME Gen!GeneratorAssumption, GenInv, Gen!GotError
    PROVE  GenInv'
<1>1. /\ stack = <<>> /\ gen = "dents" /\ gen' = "done" /\ failed' = TRUE
      /\ Gen!ResumeConsumer("done", value, TRUE) /\ UNCHANGED <<next, buf>>
  BY DEF Gen!GotError
<1>2. buf = <<>> /\ cons = "next"
  BY <1>1 DEF GenInv, TransferInv, Gen!TypeOK
<1> QED BY <1>1, <1>2, EndedInv

LEMMA GotDentsInv ==
    ASSUME Gen!GeneratorAssumption, GenInv, Gen!GotDents
    PROVE  GenInv'
<1>1. PICK n \in 1..Chunk :
         LET l == IF next + n - 1 > Entries THEN Entries ELSE next + n - 1
         IN  /\ buf' = [i \in 1..l - next + 1 |-> next + i - 1] /\ next' = l + 1
             /\ next <= Entries
  BY DEF Gen!GotDents
<1> DEFINE l == IF next + n - 1 > Entries THEN Entries ELSE next + n - 1
<1>2. /\ stack = <<>> /\ gen = "dents" /\ gen' = "run" /\ stack' = <<"gen">>
      /\ UNCHANGED <<cons, waiter, value, failed, seen, result>>
      /\ Gen!TypeOK /\ EntriesInv /\ TransferInv /\ FramesInv
  BY DEF GenInv, Gen!GotDents
<1>3. /\ next \in 1..Entries /\ Entries \in Nat /\ Chunk \in Nat /\ l \in next..Entries
      /\ l - next + 1 <= Chunk /\ l - next + 1 \in Nat /\ l + 1 \in 1..(Entries + 1)
  BY <1>1, <1>2 DEF Gen!TypeOK, Gen!GeneratorAssumption
<1>4. buf' = [i \in 1..l - next + 1 |-> next + i - 1] /\ next' = l + 1
  BY <1>1
<1> HIDE DEF l
<1>5. /\ buf' \in Seq(1..Entries) /\ Len(buf') = l - next + 1
      /\ \A i \in 1..Len(buf') : buf'[i] = next + i - 1
  BY <1>3, <1>4
<1>6. /\ stack' \in Seq({"cons", "gen"}) /\ Len(stack') = 1 /\ stack'[Len(stack')] = "gen"
      /\ stack' # <<>> /\ waiter = TRUE /\ cons = "next" /\ failed = FALSE /\ buf = <<>>
  BY <1>2 DEF TransferInv, Gen!TypeOK
<1>7. Gen!TypeOK'
  BY <1>2, <1>3, <1>4, <1>5, <1>6 DEF Gen!TypeOK
<1>8. EntriesInv'
  <2>1. Len(seen) \in Nat /\ next - 1 = Len(seen) /\ Len(buf) = 0
    BY <1>2, <1>6, LenProperties, EmptySeq DEF EntriesInv, Gen!TypeOK
  <2>2. /\ \A i \in 1..Len(buf') : buf'[i] = Len(seen) + i
        /\ next' - 1 = Len(seen) + Len(buf')
    BY <1>3, <1>4, <1>5, <2>1
  <2> QED BY <1>2, <2>2 DEF EntriesInv
<1>9. TransferInv'
  BY <1>2, <1>6 DEF TransferInv
<1>10. FramesInv'
  <2>1. /\ Len(buf') <= Chunk /\ Len(stack') + 2 * Len(buf') <= 2 * Chunk + 1
        /\ Len(stack') <= 2 * Chunk + 2
    BY <1>3, <1>5, <1>6
  <2> QED BY <1>2, <1>6, <2>1 DEF FramesInv, Gen!StackBounded
<1> QED BY <1>7, <1>8, <1>9, <1>10 DEF GenInv

LEMMA ConsumerResumedInv ==
    ASSUME Gen!GeneratorAssumption, GenInv, Gen!ConsumerResumed
    PROVE  GenInv'
<1>1. /\ stack = <<>> /\ cons = "loop" /\ result = "none" /\ cons' = "run" /\ stack' = <<"cons">>
      /\ UNCHANGED <<gen, waiter, value, failed, next, buf, seen, result>>
      /\ Gen!TypeOK /\ TransferInv /\ FramesInv
  BY DEF GenInv, Gen!ConsumerResumed
<1>2. /\ stack' \in Seq({"cons", "gen"}) /\ Len(stack') = 1 /\ stack'[Len(stack')] = "cons"
      /\ stack' # <<>> /\ waiter = FALSE /\ gen \in {"initial", "yield"}
  BY <1>1 DEF TransferInv, Gen!TypeOK
<1>3. Gen!TypeOK'
  BY <1>1, <1>2 DEF Gen!TypeOK
<1>4. EntriesInv'
  BY <1>1 DEF GenInv, EntriesInv
<1>5. TransferInv'
  BY <1>1 DEF TransferInv
<1>6. FramesInv'
  <2>1. Len(buf) \in Nat /\ Len(buf) < Chunk /\ Chunk \in Nat
    BY <1>1, <1>2, LenProperties, EmptySeq DEF FramesInv, TransferInv, Gen!TypeOK,
       Gen!GeneratorAssumption
  <2>2. Len(stack') + 2 * Len(buf) <= 2 * Chunk /\ Len(stack') <= 2 * Chunk + 2 /\ Len(buf) <= Chunk
    BY <1>2, <2>1
  <2> QED BY <1>1, <1>2, <2>1, <2>2 DEF FramesInv, Gen!StackBounded
<1> QED BY <1>3, <1>4, <1>5, <1>6 DEF GenInv

LEMMA GenNext ==
    ASSUME Gen!GeneratorAssumption, GenInv, Gen!Next
    PROVE  GenInv'
BY AwaitNextInv, ConsumerSuspendsInv, YieldInv, GetdentsInv, RefusedInv, GotDentsInv, GotEndInv, GotErrorInv,
   ConsumerResumedInv DEF Gen!Next

LEMMA GenSafe == ASSUME GenInv PROVE Gen!TypeOK /\ Gen!InOrder /\ Gen!StackBounded
BY DEF GenInv, EntriesInv, FramesInv, Gen!InOrder
-----------------------------------------------------------------------------
(* The ring of a watch.                                                     *)

\* The event number k is in the cell (k - 1) % RingSize.
RingInv ==
    /\ Watch!TypeOK /\ Len(data) = RingSize
    /\ size = IF push_count < RingSize THEN push_count ELSE RingSize
    /\ insert = push_count % RingSize /\ start = (push_count - size) % RingSize
    /\ \A k \in (push_count - size)..(push_count - 1) : data[(k % RingSize) + 1] = k + 1

LEMMA ModSmall ==
    ASSUME NEW n \in Nat \ {0}, NEW x \in 0..(n - 1)
    PROVE  x % n = x
  BY SMT

LEMMA DivMod ==
    ASSUME NEW n \in Nat \ {0}, NEW x \in Nat
    PROVE  /\ x \div n \in Nat /\ x % n \in 0..(n - 1)
           /\ x = n * (x \div n) + (x % n)
  BY SMT

LEMMA ModOfSum ==
    ASSUME NEW n \in Nat \ {0}, NEW q \in Nat, NEW r \in 0..(n - 1)
    PROVE  (n * q + r) % n = r
  BY SMT

\* A round less.
LEMMA ModLess ==
    ASSUME NEW n \in Nat \ {0}, NEW x \in Nat, n <= x
    PROVE  (x - n) % n = x % n
<1>1. PICK y \in Nat : y = x - n
  OBVIOUS
<1>2. PICK q \in Nat, r \in 0..(n - 1) : y = n * q + r /\ r = y % n
  BY DivMod
<1>3. PICK p \in Nat : p = q + 1 /\ x = n * p + r
  BY <1>1, <1>2
<1>4. (n * p + r) % n = r
  BY ModOfSum
<1> QED BY <1>1, <1>2, <1>3, <1>4

\* A number is known by its remainder among n neighbours.
LEMMA ModDistinct ==
    ASSUME NEW n \in Nat \ {0}, NEW x \in Nat, NEW y \in Nat,
           x % n = y % n, x - y < n, y - x < n
    PROVE  x = y
<1>1. PICK p \in Nat, r \in 0..(n - 1) : x = n * p + r /\ r = x % n
  BY DivMod
<1>2. PICK q \in Nat : y = n * q + r
  BY <1>1, DivMod
<1>3. p = q
  BY <1>1, <1>2, SMT
<1> QED BY <1>1, <1>2, <1>3

\* Steps after a remainder.
LEMMA StepsAfter ==
    ASSUME NEW n \in Nat \ {0}, NEW x \in Nat, NEW j \in Nat
    PROVE  (x + j) % n = ((x % n) + j) % n
<1>1. PICK q \in Nat, r \in 0..(n - 1) : x = n * q + r /\ r = x % n
  BY DivMod
<1>2. PICK y \in Nat : y = r + j
  <2>1. r + j \in Nat
    OBVIOUS
  <2> QED BY <2>1, Zenon
<1>3. PICK p \in Nat, s \in 0..(n - 1) : y = n * p + s /\ s = y % n
  BY DivMod
<1>4. PICK o \in Nat : o = q + p /\ x + j = n * o + s
  <2>1. n * (q + p) = n * q + n * p
    BY SMT
  <2> QED BY <1>1, <1>2, <1>3, <2>1
<1>5. (n * o + s) % n = s
  BY ModOfSum
<1> QED BY <1>1, <1>2, <1>3, <1>4, <1>5

LEMMA RingInit == ASSUME Watch!WdAssumption, Watch!Init PROVE RingInv
<1> USE DEF Watch!WdAssumption
<1>1. /\ data = [i \in 1..RingSize |-> 0] /\ start = 0 /\ insert = 0 /\ size = 0
      /\ push_count = 0 /\ last = [p \in Pollers |-> 0]
  BY DEF Watch!Init, Watch!R!Init, Watch!R!Filled, Watch!R!AtLeastOne
<1>2. data \in Seq((1..MaxPush) \cup {0}) /\ Len(data) = RingSize
  BY <1>1
<1>3. 0 % RingSize = 0
  BY SMT
<1>4. Watch!TypeOK
  BY <1>1, <1>2 DEF Watch!TypeOK, Watch!R!TypeOK, Watch!R!Elems, Watch!R!cap
<1> QED BY <1>1, <1>2, <1>3, <1>4 DEF RingInv

LEMMA RingTypesAre ==
    ASSUME Watch!WdAssumption, RingInv
    PROVE  /\ data \in [1..RingSize -> (1..MaxPush) \cup {0}]
           /\ RingSize \in Nat \ {0} /\ MaxPush \in Nat /\ push_count \in 0..MaxPush
           /\ size \in 0..RingSize /\ size <= push_count
           /\ start \in 0..(RingSize - 1) /\ insert \in 0..(RingSize - 1)
           /\ last \in [Pollers -> 0..push_count]
  BY DEF Watch!WdAssumption, RingInv, Watch!TypeOK, Watch!R!TypeOK, Watch!R!Elems, Watch!R!cap

LEMMA RingPush ==
    ASSUME Watch!WdAssumption, RingInv, Watch!Push
    PROVE  RingInv'
<1>1. /\ data \in [1..RingSize -> (1..MaxPush) \cup {0}] /\ data \in Seq((1..MaxPush) \cup {0})
      /\ RingSize \in Nat \ {0} /\ MaxPush \in Nat /\ push_count \in 0..MaxPush
      /\ size \in 0..RingSize /\ size <= push_count
      /\ start \in 0..(RingSize - 1) /\ insert \in 0..(RingSize - 1)
      /\ last \in [Pollers -> 0..push_count] /\ Len(data) = RingSize
  BY RingTypesAre DEF RingInv, Watch!TypeOK, Watch!R!TypeOK, Watch!R!Elems
<1>2. /\ push_count < MaxPush /\ push_count' = push_count + 1 /\ last' = last
      /\ IF size = RingSize THEN start' = (start + 1) % RingSize /\ size' = size
                            ELSE size' = size + 1 /\ start' = start
      /\ data' = [data EXCEPT ![insert + 1] = push_count + 1]
      /\ insert' = (insert + 1) % RingSize
  BY <1>1 DEF Watch!Push, Watch!R!Push, Watch!R!cap
<1>3. /\ size = IF push_count < RingSize THEN push_count ELSE RingSize
      /\ insert = push_count % RingSize /\ start = (push_count - size) % RingSize
      /\ \A k \in (push_count - size)..(push_count - 1) : data[(k % RingSize) + 1] = k + 1
  BY DEF RingInv
<1>4. /\ size' = IF push_count' < RingSize THEN push_count' ELSE RingSize
      /\ size' \in 0..RingSize /\ size' <= push_count'
  BY <1>1, <1>2, <1>3
<1>5. insert' = push_count' % RingSize
  <2>1. RingSize \in Nat \ {0} /\ push_count \in Nat /\ 1 \in Nat
    BY <1>1
  <2>2. (push_count + 1) % RingSize = ((push_count % RingSize) + 1) % RingSize
    BY ONLY <2>1, StepsAfter, Zenon
  <2> QED BY ONLY <1>2, <1>3, <2>2, Zenon
<1>6. start' = (push_count' - size') % RingSize
  <2>1. CASE size = RingSize
    <3>1. PICK x \in Nat : x = push_count - size /\ push_count' - size' = x + 1
      BY <1>1, <1>2, <2>1
    <3>2. RingSize \in Nat \ {0} /\ 1 \in Nat
      BY <1>1
    <3>3. (x + 1) % RingSize = ((x % RingSize) + 1) % RingSize
      BY ONLY <3>2, StepsAfter, Zenon
    <3>4. start' = (start + 1) % RingSize /\ start = x % RingSize
      BY ONLY <1>2, <1>3, <2>1, <3>1, Zenon
    <3> QED BY ONLY <3>1, <3>3, <3>4, Zenon
  <2>2. CASE size # RingSize
    <3>1. push_count' - size' = push_count - size
      BY <1>1, <1>2, <2>2
    <3> QED BY <1>2, <1>3, <2>2, <3>1
  <2> QED BY <2>1, <2>2
<1>7. /\ start' \in 0..(RingSize - 1) /\ insert' \in 0..(RingSize - 1)
  <2>1. push_count' \in Nat /\ push_count' - size' \in Nat
    BY <1>1, <1>2, <1>4
  <2> QED BY <1>1, <1>5, <1>6, <2>1, DivMod
<1>8. /\ data' \in [1..RingSize -> (1..MaxPush) \cup {0}] /\ data' \in Seq((1..MaxPush) \cup {0})
      /\ Len(data') = RingSize
  <2>1. data' \in [1..RingSize -> (1..MaxPush) \cup {0}]
    BY <1>1, <1>2
  <2> QED BY <1>1, <2>1
<1>9. last' \in [Pollers -> 0..push_count']
  BY <1>1, <1>2
<1>10. \A k \in (push_count' - size')..(push_count' - 1) : data'[(k % RingSize) + 1] = k + 1
  <2>1. TAKE k \in (push_count' - size')..(push_count' - 1)
  <2>2. k \in Nat /\ k % RingSize \in 0..(RingSize - 1)
    <3>1. k \in Nat
      BY <1>1, <1>2, <1>4
    <3> QED BY <1>1, <3>1, DivMod
  <2>3. CASE k = push_count
    BY <1>1, <1>2, <1>3, <2>3
  <2>4. CASE k # push_count
    <3>1. k \in (push_count - size)..(push_count - 1) /\ push_count - k < RingSize
          /\ k - push_count < RingSize
      BY <1>1, <1>2, <2>1, <2>4
    <3>2. k % RingSize # insert
      <4>1. push_count \in Nat
        BY <1>1
      <4> QED BY <1>1, <1>3, <2>2, <2>4, <3>1, <4>1, ModDistinct
    <3>3. data[(k % RingSize) + 1] = k + 1
      BY <1>3, <3>1
    <3>4. (k % RingSize) + 1 # insert + 1 /\ (k % RingSize) + 1 \in 1..RingSize
      BY <1>1, <2>2, <3>2
    <3> QED BY <1>1, <1>2, <3>3, <3>4
  <2> QED BY <2>3, <2>4
<1>11. push_count' \in 0..MaxPush
  BY <1>1, <1>2
<1>12. Watch!TypeOK'
  BY <1>1, <1>4, <1>7, <1>8, <1>9, <1>11
     DEF Watch!TypeOK, Watch!R!TypeOK, Watch!R!Elems, Watch!R!cap
<1> QED BY <1>4, <1>5, <1>6, <1>8, <1>10, <1>12 DEF RingInv

LEMMA RingNext ==
    ASSUME Watch!WdAssumption, RingInv, [Watch!Next]_(Watch!vars)
    PROVE  RingInv'
<1>1. CASE Watch!Push
  BY <1>1, RingPush
<1>2. ASSUME NEW p \in Pollers, Watch!NewPoller(p) \/ Watch!Poll(p) PROVE RingInv'
  <2>1. /\ data' = data /\ start' = start /\ insert' = insert /\ size' = size
        /\ push_count' = push_count /\ last' = [last EXCEPT ![p] = push_count]
    BY <1>2 DEF Watch!NewPoller, Watch!Poll, Watch!ring
  <2>2. last' \in [Pollers -> 0..push_count']
    BY <2>1, RingTypesAre
  <2> QED BY <2>1, <2>2 DEF RingInv, Watch!TypeOK, Watch!R!TypeOK, Watch!R!Elems, Watch!R!cap
<1>3. CASE UNCHANGED Watch!vars
  BY <1>3 DEF Watch!vars, Watch!ring, RingInv, Watch!TypeOK, Watch!R!TypeOK, Watch!R!Elems,
     Watch!R!cap
<1> QED BY <1>1, <1>2, <1>3 DEF Watch!Next

LEMMA RingSafe ==
    ASSUME Watch!WdAssumption, RingInv
    PROVE  Watch!PollsNewest
<1>1. /\ data \in [1..RingSize -> (1..MaxPush) \cup {0}]
      /\ RingSize \in Nat \ {0} /\ MaxPush \in Nat /\ push_count \in 0..MaxPush
      /\ size \in 0..RingSize /\ size <= push_count
      /\ start \in 0..(RingSize - 1) /\ insert \in 0..(RingSize - 1)
      /\ last \in [Pollers -> 0..push_count] /\ Len(data) = RingSize
  BY RingTypesAre DEF RingInv
<1>2. /\ size = IF push_count < RingSize THEN push_count ELSE RingSize
      /\ insert = push_count % RingSize /\ start = (push_count - size) % RingSize
      /\ \A k \in (push_count - size)..(push_count - 1) : data[(k % RingSize) + 1] = k + 1
  BY DEF RingInv
<1>3. Watch!R!End = start + size
  <2>1. CASE push_count < RingSize
    <3>1. size = push_count /\ push_count - size = 0
      BY <1>1, <1>2, <2>1
    <3>2. push_count % RingSize = push_count /\ 0 % RingSize = 0
      <4>1. RingSize \in Nat \ {0} /\ push_count \in 0..(RingSize - 1) /\ 0 \in 0..(RingSize - 1)
        BY <1>1, <2>1
      <4> QED BY ONLY <4>1, ModSmall, Zenon
    <3>3. insert = push_count /\ start = 0
      BY ONLY <1>2, <3>1, <3>2, Zenon
    <3> QED BY <1>1, <2>1, <3>1, <3>3 DEF Watch!R!End, Watch!R!cap
  <2>2. CASE ~(push_count < RingSize)
    <3>1. PICK x \in Nat : x = push_count - size /\ push_count = x + RingSize
      BY <1>1, <1>2, <2>2
    <3>2. x % RingSize = push_count % RingSize
      <4>1. RingSize <= push_count /\ push_count \in Nat /\ x = push_count - RingSize
        BY <1>1, <2>2, <3>1
      <4> QED BY <1>1, <4>1, ModLess
    <3> QED BY <1>1, <1>2, <2>2, <3>1, <3>2 DEF Watch!R!End, Watch!R!cap
  <2> QED BY <2>1, <2>2
<1>4. SUFFICES ASSUME NEW p \in Pollers, NEW new, new = push_count - last[p],
                      NEW n, n = IF new < RingSize THEN new ELSE RingSize
               PROVE  Watch!ViewFrom(last[p]) = [k \in 1..n |-> push_count - n + k]
  BY DEF Watch!PollsNewest
<1>5. new \in 0..push_count
  BY <1>1, <1>4
<1>6. n \in 0..size /\ n = IF new < size THEN new ELSE size
  BY <1>1, <1>2, <1>4, <1>5
<1>7. PICK first \in Nat : first = start + (size - n)
  <2>1. start + (size - n) \in Nat
    BY <1>1, <1>6
  <2> QED BY <2>1, Zenon
<1>8. /\ first = IF new < size THEN Watch!R!Begin + (size - new) ELSE Watch!R!Begin
      /\ Watch!R!End - first = n
  BY <1>1, <1>3, <1>6, <1>7 DEF Watch!R!Begin
<1>9. Watch!ViewFrom(last[p]) = [k \in 1..n |-> Watch!R!At(first + k - 1)]
  BY <1>4, <1>8 DEF Watch!ViewFrom
<1>10. ASSUME NEW k \in 1..n PROVE Watch!R!At(first + k - 1) = push_count - n + k
  <2>1. PICK x \in Nat, j \in Nat : /\ x = push_count - size /\ j = size - n + k - 1
                                    /\ first + k - 1 = start + j /\ j < size
    BY <1>1, <1>6, <1>7, <1>10
  <2>2. (start + j) % RingSize = (x + j) % RingSize
    <3>1. RingSize \in Nat \ {0}
      BY <1>1
    <3>2. (x + j) % RingSize = ((x % RingSize) + j) % RingSize
      BY ONLY <2>1, <3>1, StepsAfter, Zenon
    <3>3. start = x % RingSize
      BY ONLY <1>2, <2>1, Zenon
    <3> QED BY ONLY <3>2, <3>3, Zenon
  <2>3. x + j \in (push_count - size)..(push_count - 1) /\ x + j + 1 = push_count - n + k
    BY <1>1, <1>6, <2>1
  <2>4. data[((x + j) % RingSize) + 1] = x + j + 1
    BY <1>2, <2>3
  <2> QED BY <1>1, <2>1, <2>2, <2>3, <2>4 DEF Watch!R!At, Watch!R!cap
<1> QED BY <1>9, <1>10
-----------------------------------------------------------------------------
(* The dispatcher: the steps of the two instances are those of the module   *)
(* whose proofs are used.                                                   *)

\* What is proved of the dispatcher, of tasks that do as they like and of the
\* disciplined ones.
AnyUse == INSTANCE InotifyProofs WITH
    Tasks <- Undisciplined, MaxWds <- SharedWds, MaxEvents <- SharedEvents, Careful <- FALSE
Stopped == INSTANCE InotifyProofs WITH
    Tasks <- Disciplined, MaxWds <- MaxWds, MaxEvents <- MaxEvents, Careful <- TRUE

LEMMA UnrestrictedEvents ==
    ASSUME Unrestricted!RunEvents \/ Unrestricted!PushEvent
    PROVE  AnyUse!RunEvents \/ AnyUse!PushEvent
<1>1. ASSUME Unrestricted!RunEvents PROVE AnyUse!RunEvents
  BY <1>1 DEF AnyUse!RunEvents, Unrestricted!RunEvents, AnyUse!Idle, Unrestricted!Idle,
     AnyUse!RunFrame, Unrestricted!RunFrame, AnyUse!mapVars, Unrestricted!mapVars,
     AnyUse!taskVars, Unrestricted!taskVars
<1>2. ASSUME Unrestricted!PushEvent PROVE AnyUse!PushEvent
  BY <1>2 DEF AnyUse!PushEvent, Unrestricted!PushEvent, AnyUse!Top, Unrestricted!Top,
     AnyUse!RunFrame, Unrestricted!RunFrame, AnyUse!Rest, Unrestricted!Rest, AnyUse!kernelVars,
     Unrestricted!kernelVars, AnyUse!taskVars, Unrestricted!taskVars
<1> QED BY <1>1, <1>2

LEMMA UnrestrictedSame ==
    ASSUME [Unrestricted!Next]_(Unrestricted!vars)
    PROVE  [AnyUse!Next]_(AnyUse!vars)
<1>1. ASSUME Unrestricted!RunNext PROVE AnyUse!RunNext
  BY <1>1 DEF AnyUse!RunNext, Unrestricted!RunNext, AnyUse!Rest, Unrestricted!Rest,
     AnyUse!RunFrame, Unrestricted!RunFrame, AnyUse!Top, Unrestricted!Top, AnyUse!WakeFrame,
     Unrestricted!WakeFrame, AnyUse!kernelVars, Unrestricted!kernelVars, AnyUse!taskVars,
     Unrestricted!taskVars
<1>2. ASSUME Unrestricted!RunAgain PROVE AnyUse!RunAgain
  BY <1>2 DEF AnyUse!RunAgain, Unrestricted!RunAgain, AnyUse!Above, Unrestricted!Above,
     AnyUse!CancelFrame, Unrestricted!CancelFrame, AnyUse!None, Unrestricted!None, AnyUse!Rest,
     Unrestricted!Rest, AnyUse!Top, Unrestricted!Top, AnyUse!mapVars, Unrestricted!mapVars,
     AnyUse!taskVars, Unrestricted!taskVars
<1>3. ASSUME Unrestricted!RunCanceled PROVE AnyUse!RunCanceled
  BY <1>3 DEF AnyUse!RunCanceled, Unrestricted!RunCanceled, AnyUse!Above, Unrestricted!Above,
     AnyUse!CancelFrame, Unrestricted!CancelFrame, AnyUse!Idle, Unrestricted!Idle, AnyUse!None,
     Unrestricted!None, AnyUse!mapVars, Unrestricted!mapVars, AnyUse!taskVars,
     Unrestricted!taskVars
<1>4. ASSUME Unrestricted!WakeNext PROVE AnyUse!WakeNext
  BY <1>4 DEF AnyUse!WakeNext, Unrestricted!WakeNext, AnyUse!Rest, Unrestricted!Rest,
     AnyUse!Resume, Unrestricted!Resume, AnyUse!Top, Unrestricted!Top, AnyUse!UserFrame,
     Unrestricted!UserFrame, AnyUse!WakeFrame, Unrestricted!WakeFrame, AnyUse!kernelVars,
     Unrestricted!kernelVars, AnyUse!mapVars, Unrestricted!mapVars
<1>5. ASSUME Unrestricted!CancelNext PROVE AnyUse!CancelNext
  BY <1>5 DEF AnyUse!CancelNext, Unrestricted!CancelNext, AnyUse!Above, Unrestricted!Above,
     AnyUse!CancelFrame, Unrestricted!CancelFrame, AnyUse!None, Unrestricted!None, AnyUse!Rest,
     Unrestricted!Rest, AnyUse!Resume, Unrestricted!Resume, AnyUse!Top, Unrestricted!Top,
     AnyUse!UserFrame, Unrestricted!UserFrame, AnyUse!kernelVars, Unrestricted!kernelVars
<1>6. ASSUME Unrestricted!RmNext PROVE AnyUse!RmNext
  BY <1>6 DEF AnyUse!RmNext, Unrestricted!RmNext, AnyUse!OneOf, Unrestricted!OneOf, AnyUse!Rest,
     Unrestricted!Rest, AnyUse!Resume, Unrestricted!Resume, AnyUse!RmFrame, Unrestricted!RmFrame,
     AnyUse!Top, Unrestricted!Top, AnyUse!UserFrame, Unrestricted!UserFrame, AnyUse!kernelVars,
     Unrestricted!kernelVars
<1>7. ASSUME NEW t \in Undisciplined, Unrestricted!Watch(t) PROVE AnyUse!Watch(t)
  BY <1>7 DEF AnyUse!Watch, Unrestricted!Watch, AnyUse!Acting, Unrestricted!Acting, AnyUse!Idle,
     Unrestricted!Idle, AnyUse!Top, Unrestricted!Top, AnyUse!taskVars, Unrestricted!taskVars
<1>8. ASSUME NEW t \in Undisciplined, Unrestricted!Leave(t) PROVE AnyUse!Leave(t)
  BY <1>8 DEF AnyUse!Leave, Unrestricted!Leave, AnyUse!Rest, Unrestricted!Rest, AnyUse!Top,
     Unrestricted!Top, AnyUse!kernelVars, Unrestricted!kernelVars, AnyUse!mapVars,
     Unrestricted!mapVars
<1>9. ASSUME NEW t \in Undisciplined, NEW w \in Unrestricted!Wds, Unrestricted!Wait(t, w)
      PROVE  AnyUse!Wait(t, w)
  BY <1>9 DEF AnyUse!Wait, Unrestricted!Wait, AnyUse!Acting, Unrestricted!Acting, AnyUse!Below,
     Unrestricted!Below, AnyUse!Callers, Unrestricted!Callers, AnyUse!CanWait,
     Unrestricted!CanWait, AnyUse!Idle, Unrestricted!Idle, AnyUse!Over, Unrestricted!Over,
     AnyUse!Rest, Unrestricted!Rest, AnyUse!Top, Unrestricted!Top, AnyUse!kernelVars,
     Unrestricted!kernelVars
<1>10. ASSUME NEW t \in Undisciplined, NEW w \in Unrestricted!Wds, Unrestricted!Unwatch(t, w)
       PROVE  AnyUse!Unwatch(t, w)
  BY <1>10 DEF AnyUse!Unwatch, Unrestricted!Unwatch, AnyUse!Coming, Unrestricted!Coming,
     AnyUse!Among, Unrestricted!Among, AnyUse!Acting, Unrestricted!Acting, AnyUse!Below,
     Unrestricted!Below, AnyUse!CanUnwatch, Unrestricted!CanUnwatch, AnyUse!Idle,
     Unrestricted!Idle, AnyUse!OneOf, Unrestricted!OneOf, AnyUse!RmFrame, Unrestricted!RmFrame,
     AnyUse!StartRm, Unrestricted!StartRm, AnyUse!Top, Unrestricted!Top, AnyUse!taskVars,
     Unrestricted!taskVars
<1>11. ASSUME NEW t \in Undisciplined, NEW u \in Undisciplined, Unrestricted!Cancel(t, u)
       PROVE  AnyUse!Cancel(t, u)
  BY <1>11 DEF AnyUse!Cancel, Unrestricted!Cancel, AnyUse!InMap, Unrestricted!InMap,
     AnyUse!Acting, Unrestricted!Acting,
     AnyUse!CanCancel, Unrestricted!CanCancel, AnyUse!EraseWaiter, Unrestricted!EraseWaiter,
     AnyUse!Idle, Unrestricted!Idle, AnyUse!Top, Unrestricted!Top, AnyUse!UserFrame,
     Unrestricted!UserFrame, AnyUse!WithoutWaiter, Unrestricted!WithoutWaiter, AnyUse!kernelVars,
     Unrestricted!kernelVars
<1>12. ASSUME NEW t \in Undisciplined, NEW u \in Undisciplined, Unrestricted!Destroy(t, u)
       PROVE  AnyUse!Destroy(t, u)
  BY <1>12 DEF AnyUse!Destroy, Unrestricted!Destroy, AnyUse!InMap, Unrestricted!InMap,
     AnyUse!CanDestroy, Unrestricted!CanDestroy, AnyUse!CanCancel, Unrestricted!CanCancel,
     AnyUse!Acting, Unrestricted!Acting, AnyUse!EraseWaiter, Unrestricted!EraseWaiter,
     AnyUse!Idle, Unrestricted!Idle, AnyUse!Top, Unrestricted!Top, AnyUse!WithoutWaiter,
     Unrestricted!WithoutWaiter, AnyUse!kernelVars, Unrestricted!kernelVars
<1>13. ASSUME Unrestricted!KernelRead PROVE AnyUse!KernelRead
  BY <1>13 DEF AnyUse!KernelRead, Unrestricted!KernelRead, AnyUse!mapVars, Unrestricted!mapVars,
     AnyUse!taskVars, Unrestricted!taskVars
<1>14. ASSUME NEW w \in Unrestricted!Wds, Unrestricted!KernelEvent(w) PROVE AnyUse!KernelEvent(w)
  BY <1>14 DEF AnyUse!KernelEvent, Unrestricted!KernelEvent, AnyUse!mapVars, Unrestricted!mapVars,
     AnyUse!taskVars, Unrestricted!taskVars
<1>15. ASSUME NEW w \in Unrestricted!Wds, Unrestricted!KernelRemove(w) PROVE AnyUse!KernelRemove(w)
  BY <1>15 DEF AnyUse!KernelRemove, Unrestricted!KernelRemove, AnyUse!mapVars,
     Unrestricted!mapVars, AnyUse!taskVars, Unrestricted!taskVars
<1>16. ASSUME Unrestricted!Stop PROVE AnyUse!Stop
  BY <1>16 DEF AnyUse!Stop, Unrestricted!Stop, AnyUse!Idle, Unrestricted!Idle, AnyUse!mapVars,
     Unrestricted!mapVars, AnyUse!taskVars, Unrestricted!taskVars
<1>17. ASSUME Unrestricted!Close PROVE AnyUse!Close
  BY <1>17 DEF AnyUse!Close, Unrestricted!Close, AnyUse!Idle, Unrestricted!Idle, AnyUse!mapVars,
     Unrestricted!mapVars, AnyUse!taskVars, Unrestricted!taskVars
<1>18. CASE Unrestricted!Ended \/ UNCHANGED Unrestricted!vars
  BY <1>18 DEF AnyUse!Ended, Unrestricted!Ended, AnyUse!Idle, Unrestricted!Idle, AnyUse!vars,
     Unrestricted!vars, AnyUse!kernelVars, Unrestricted!kernelVars, AnyUse!mapVars,
     Unrestricted!mapVars, AnyUse!taskVars, Unrestricted!taskVars
<1>19. CASE Unrestricted!Dispatch \/ Unrestricted!Stop \/ Unrestricted!Close
  BY <1>19, UnrestrictedEvents, <1>1, <1>2, <1>3, <1>4, <1>5, <1>6, <1>16, <1>17 DEF AnyUse!Next,
     AnyUse!Dispatch, Unrestricted!Dispatch
<1>20. CASE Unrestricted!Kernel
  BY <1>20, <1>13, <1>14, <1>15 DEF AnyUse!Next, AnyUse!Kernel, Unrestricted!Kernel, AnyUse!Wds,
     Unrestricted!Wds
<1>21. ASSUME NEW t \in Undisciplined, Unrestricted!TaskStep(t) PROVE AnyUse!Next
  BY <1>21, <1>7, <1>8, <1>9, <1>10, <1>11, <1>12 DEF AnyUse!Next, AnyUse!TaskStep,
     Unrestricted!TaskStep, AnyUse!Wds, Unrestricted!Wds
<1> QED BY <1>18, <1>19, <1>20, <1>21 DEF Unrestricted!Next

LEMMA StopEvents ==
    ASSUME InotifyStop!RunEvents \/ InotifyStop!PushEvent
    PROVE  Stopped!RunEvents \/ Stopped!PushEvent
<1>1. ASSUME InotifyStop!RunEvents PROVE Stopped!RunEvents
  BY <1>1 DEF Stopped!RunEvents, InotifyStop!RunEvents, Stopped!Idle, InotifyStop!Idle,
     Stopped!RunFrame, InotifyStop!RunFrame, Stopped!mapVars, InotifyStop!mapVars,
     Stopped!taskVars, InotifyStop!taskVars
<1>2. ASSUME InotifyStop!PushEvent PROVE Stopped!PushEvent
  BY <1>2 DEF Stopped!PushEvent, InotifyStop!PushEvent, Stopped!Top, InotifyStop!Top,
     Stopped!RunFrame, InotifyStop!RunFrame, Stopped!Rest, InotifyStop!Rest, Stopped!kernelVars,
     InotifyStop!kernelVars, Stopped!taskVars, InotifyStop!taskVars
<1> QED BY <1>1, <1>2

LEMMA StopSame ==
    ASSUME [InotifyStop!Next]_(InotifyStop!vars)
    PROVE  [Stopped!Next]_(Stopped!vars)
<1>1. ASSUME InotifyStop!RunNext PROVE Stopped!RunNext
  BY <1>1 DEF Stopped!RunNext, InotifyStop!RunNext, Stopped!Rest, InotifyStop!Rest,
     Stopped!RunFrame, InotifyStop!RunFrame, Stopped!Top, InotifyStop!Top, Stopped!WakeFrame,
     InotifyStop!WakeFrame, Stopped!kernelVars, InotifyStop!kernelVars, Stopped!taskVars,
     InotifyStop!taskVars
<1>2. ASSUME InotifyStop!RunAgain PROVE Stopped!RunAgain
  BY <1>2 DEF Stopped!RunAgain, InotifyStop!RunAgain, Stopped!Above, InotifyStop!Above,
     Stopped!CancelFrame, InotifyStop!CancelFrame, Stopped!None, InotifyStop!None, Stopped!Rest,
     InotifyStop!Rest, Stopped!Top, InotifyStop!Top, Stopped!mapVars, InotifyStop!mapVars,
     Stopped!taskVars, InotifyStop!taskVars
<1>3. ASSUME InotifyStop!RunCanceled PROVE Stopped!RunCanceled
  BY <1>3 DEF Stopped!RunCanceled, InotifyStop!RunCanceled, Stopped!Above, InotifyStop!Above,
     Stopped!CancelFrame, InotifyStop!CancelFrame, Stopped!Idle, InotifyStop!Idle, Stopped!None,
     InotifyStop!None, Stopped!mapVars, InotifyStop!mapVars, Stopped!taskVars,
     InotifyStop!taskVars
<1>4. ASSUME InotifyStop!WakeNext PROVE Stopped!WakeNext
  BY <1>4 DEF Stopped!WakeNext, InotifyStop!WakeNext, Stopped!Rest, InotifyStop!Rest,
     Stopped!Resume, InotifyStop!Resume, Stopped!Top, InotifyStop!Top, Stopped!UserFrame,
     InotifyStop!UserFrame, Stopped!WakeFrame, InotifyStop!WakeFrame, Stopped!kernelVars,
     InotifyStop!kernelVars, Stopped!mapVars, InotifyStop!mapVars
<1>5. ASSUME InotifyStop!CancelNext PROVE Stopped!CancelNext
  BY <1>5 DEF Stopped!CancelNext, InotifyStop!CancelNext, Stopped!Above, InotifyStop!Above,
     Stopped!CancelFrame, InotifyStop!CancelFrame, Stopped!None, InotifyStop!None, Stopped!Rest,
     InotifyStop!Rest, Stopped!Resume, InotifyStop!Resume, Stopped!Top, InotifyStop!Top,
     Stopped!UserFrame, InotifyStop!UserFrame, Stopped!kernelVars, InotifyStop!kernelVars
<1>6. ASSUME InotifyStop!RmNext PROVE Stopped!RmNext
  BY <1>6 DEF Stopped!RmNext, InotifyStop!RmNext, Stopped!OneOf, InotifyStop!OneOf, Stopped!Rest,
     InotifyStop!Rest, Stopped!Resume, InotifyStop!Resume, Stopped!RmFrame, InotifyStop!RmFrame,
     Stopped!Top, InotifyStop!Top, Stopped!UserFrame, InotifyStop!UserFrame, Stopped!kernelVars,
     InotifyStop!kernelVars
<1>7. ASSUME NEW t \in Disciplined, InotifyStop!Watch(t) PROVE Stopped!Watch(t)
  BY <1>7 DEF Stopped!Watch, InotifyStop!Watch, Stopped!Acting, InotifyStop!Acting, Stopped!Idle,
     InotifyStop!Idle, Stopped!Top, InotifyStop!Top, Stopped!taskVars, InotifyStop!taskVars
<1>8. ASSUME NEW t \in Disciplined, InotifyStop!Leave(t) PROVE Stopped!Leave(t)
  BY <1>8 DEF Stopped!Leave, InotifyStop!Leave, Stopped!Rest, InotifyStop!Rest, Stopped!Top,
     InotifyStop!Top, Stopped!kernelVars, InotifyStop!kernelVars, Stopped!mapVars,
     InotifyStop!mapVars
<1>9. ASSUME NEW t \in Disciplined, NEW w \in InotifyStop!Wds, InotifyStop!Wait(t, w)
      PROVE  Stopped!Wait(t, w)
  BY <1>9 DEF Stopped!Wait, InotifyStop!Wait, Stopped!Acting, InotifyStop!Acting, Stopped!Below,
     InotifyStop!Below, Stopped!Callers, InotifyStop!Callers, Stopped!CanWait,
     InotifyStop!CanWait, Stopped!Idle, InotifyStop!Idle, Stopped!Over, InotifyStop!Over,
     Stopped!Rest, InotifyStop!Rest, Stopped!Top, InotifyStop!Top, Stopped!kernelVars,
     InotifyStop!kernelVars
<1>10. ASSUME NEW t \in Disciplined, NEW w \in InotifyStop!Wds, InotifyStop!Unwatch(t, w)
       PROVE  Stopped!Unwatch(t, w)
  BY <1>10 DEF Stopped!Unwatch, InotifyStop!Unwatch, Stopped!Coming, InotifyStop!Coming,
     Stopped!Among, InotifyStop!Among, Stopped!Acting, InotifyStop!Acting, Stopped!Below,
     InotifyStop!Below, Stopped!CanUnwatch, InotifyStop!CanUnwatch, Stopped!Idle,
     InotifyStop!Idle, Stopped!OneOf, InotifyStop!OneOf, Stopped!RmFrame, InotifyStop!RmFrame,
     Stopped!StartRm, InotifyStop!StartRm, Stopped!Top, InotifyStop!Top, Stopped!taskVars,
     InotifyStop!taskVars
<1>11. ASSUME NEW t \in Disciplined, NEW u \in Disciplined, InotifyStop!Cancel(t, u)
       PROVE  Stopped!Cancel(t, u)
  BY <1>11 DEF Stopped!Cancel, InotifyStop!Cancel, Stopped!InMap, InotifyStop!InMap,
     Stopped!Acting, InotifyStop!Acting,
     Stopped!CanCancel, InotifyStop!CanCancel, Stopped!EraseWaiter, InotifyStop!EraseWaiter,
     Stopped!Idle, InotifyStop!Idle, Stopped!Top, InotifyStop!Top, Stopped!UserFrame,
     InotifyStop!UserFrame, Stopped!WithoutWaiter, InotifyStop!WithoutWaiter, Stopped!kernelVars,
     InotifyStop!kernelVars
<1>12. ASSUME NEW t \in Disciplined, NEW u \in Disciplined, InotifyStop!Destroy(t, u)
       PROVE  Stopped!Destroy(t, u)
  BY <1>12 DEF Stopped!Destroy, InotifyStop!Destroy, Stopped!InMap, InotifyStop!InMap,
     Stopped!CanDestroy, InotifyStop!CanDestroy, Stopped!CanCancel, InotifyStop!CanCancel,
     Stopped!Acting, InotifyStop!Acting, Stopped!EraseWaiter, InotifyStop!EraseWaiter,
     Stopped!Idle, InotifyStop!Idle, Stopped!Top, InotifyStop!Top, Stopped!WithoutWaiter,
     InotifyStop!WithoutWaiter, Stopped!kernelVars, InotifyStop!kernelVars
<1>13. ASSUME InotifyStop!KernelRead PROVE Stopped!KernelRead
  BY <1>13 DEF Stopped!KernelRead, InotifyStop!KernelRead, Stopped!mapVars, InotifyStop!mapVars,
     Stopped!taskVars, InotifyStop!taskVars
<1>14. ASSUME NEW w \in InotifyStop!Wds, InotifyStop!KernelEvent(w) PROVE Stopped!KernelEvent(w)
  BY <1>14 DEF Stopped!KernelEvent, InotifyStop!KernelEvent, Stopped!mapVars, InotifyStop!mapVars,
     Stopped!taskVars, InotifyStop!taskVars
<1>15. ASSUME NEW w \in InotifyStop!Wds, InotifyStop!KernelRemove(w) PROVE Stopped!KernelRemove(w)
  BY <1>15 DEF Stopped!KernelRemove, InotifyStop!KernelRemove, Stopped!mapVars,
     InotifyStop!mapVars, Stopped!taskVars, InotifyStop!taskVars
<1>16. ASSUME InotifyStop!Stop PROVE Stopped!Stop
  BY <1>16 DEF Stopped!Stop, InotifyStop!Stop, Stopped!Idle, InotifyStop!Idle, Stopped!mapVars,
     InotifyStop!mapVars, Stopped!taskVars, InotifyStop!taskVars
<1>17. ASSUME InotifyStop!Close PROVE Stopped!Close
  BY <1>17 DEF Stopped!Close, InotifyStop!Close, Stopped!Idle, InotifyStop!Idle, Stopped!mapVars,
     InotifyStop!mapVars, Stopped!taskVars, InotifyStop!taskVars
<1>18. CASE InotifyStop!Ended \/ UNCHANGED InotifyStop!vars
  BY <1>18 DEF Stopped!Ended, InotifyStop!Ended, Stopped!Idle, InotifyStop!Idle, Stopped!vars,
     InotifyStop!vars, Stopped!kernelVars, InotifyStop!kernelVars, Stopped!mapVars,
     InotifyStop!mapVars, Stopped!taskVars, InotifyStop!taskVars
<1>19. CASE InotifyStop!Dispatch \/ InotifyStop!Stop \/ InotifyStop!Close
  BY <1>19, StopEvents, <1>1, <1>2, <1>3, <1>4, <1>5, <1>6, <1>16, <1>17 DEF Stopped!Next,
     Stopped!Dispatch, InotifyStop!Dispatch
<1>20. CASE InotifyStop!Kernel
  BY <1>20, <1>13, <1>14, <1>15 DEF Stopped!Next, Stopped!Kernel, InotifyStop!Kernel, Stopped!Wds,
     InotifyStop!Wds
<1>21. ASSUME NEW t \in Disciplined, InotifyStop!TaskStep(t) PROVE Stopped!Next
  BY <1>21, <1>7, <1>8, <1>9, <1>10, <1>11, <1>12 DEF Stopped!Next, Stopped!TaskStep,
     InotifyStop!TaskStep, Stopped!Wds, InotifyStop!Wds
<1> QED BY <1>18, <1>19, <1>20, <1>21 DEF InotifyStop!Next

LEMMA UnrestrictedSafe ==
    ASSUME AnyUse!DispatchInv
    PROVE  Unrestricted!TypeOK /\ Unrestricted!ResumedOnce
  BY DEF AnyUse!DispatchInv, AnyUse!TypeOK, Unrestricted!TypeOK, AnyUse!ResumedOnce,
     Unrestricted!ResumedOnce, AnyUse!Wds, Unrestricted!Wds, AnyUse!None, Unrestricted!None

LEMMA StopSafe == ASSUME Stopped!DispatchInv PROVE InotifyStop!TypeOK
  BY DEF Stopped!DispatchInv, Stopped!TypeOK, InotifyStop!TypeOK, Stopped!Wds, InotifyStop!Wds,
     Stopped!None, InotifyStop!None
-----------------------------------------------------------------------------
(* The tree of contexts.                                                   *)

Late(c) == phase[c] \in {"closing", "returned", "written", "ended"}

\* Where a siginfo or a kill event is, a signal was sent.
SignalInv ==
    /\ info[Root] <= sent
    /\ \A x \in Ctx :
          info[x] > 0 \/ sig[x] = "read" \/ kill[x] = "read" \/ kev[x] = "set" => sent > 0

\* The two stop tasks start after main.
FreshInv ==
    \A x \in Ctx : phase[x] \in {"none", "first"} => sig[x] = "none" /\ kill[x] = "none"

\* A loop is blocked in a child of its own.
LoopInv == \A x \in Ctx : busy[x] # "-" => busy[x] \in Tree!Kids /\ Parent[busy[x]] = x

\* The thread task is there until the thread has ended; who is polled gets the
\* signals, and the poll fires at the end.
ThreadInv == \A c \in Tree!Threads :
    /\ task[c] # "inside" /\ (phase[c] \notin {"none", "ended"} => task[c] \notin {"none", "done"})
    /\ task[c] = "armed" => c \in pipes[Parent[c]]
    /\ task[c] = "fired" => Late(c)

\* Whose poll was canceled or handled was told to stop, or ends.
ToldInv == \A c \in Tree!Threads : task[c] \in {"canceled", "getting"} => Tree!Told(c) \/ Late(c)

\* A loop inside which a nested context runs has not come to the stop tasks.
NestInv == \A c \in Nested :
    /\ phase[c] # "none" => task[c] \in {"inside", "done"}
    /\ task[c] = "inside" => phase[Parent[c]] = "first"
    /\ task[c] = "done" => phase[c] = "returned"

\* A kill event that is set has not been read.
SetInv == \A x \in Ctx : kev[x] = "set" => kill[x] \in {"none", "reading"}

\* The kill event is made before anybody can set it, and then somebody reads it
\* unless the context stops anyway.
KillInv ==
    /\ \A c \in Nested : phase[c] # "none" => kev[Parent[c]] # "none"
    /\ \A x \in Ctx : kill[x] = "done" => kev[x] = "none" \/ blocked[x] \/ sig[x] = "canceling"

ChildInv == /\ Tree!TypeOK /\ SignalInv /\ FreshInv /\ LoopInv /\ ThreadInv /\ ToldInv /\ KillInv
            /\ NestInv /\ SetInv

LEMMA SignalKeeps ==
    ASSUME Tree!ChildAssumption, ChildInv, Tree!Signal
    PROVE  ChildInv'
<1>1. Tree!TypeOK'
  BY DEF ChildInv, Tree!ChildAssumption, Tree!TypeOK, SignalInv, Tree!Signal, Tree!Threads,
     Tree!Kids
<1>2. SignalInv'
  BY DEF ChildInv, Tree!ChildAssumption, Tree!TypeOK, SignalInv, Tree!Signal
<1>3. ToldInv'
  BY DEF ChildInv, Tree!ChildAssumption, Tree!TypeOK, ToldInv, Tree!Told, Tree!Has, Late,
     Tree!Signal, Tree!Threads, Tree!Kids
<1>4. FreshInv' /\ LoopInv' /\ ThreadInv' /\ KillInv'
  BY DEF ChildInv, Tree!Signal, FreshInv, LoopInv, ThreadInv, KillInv, Tree!Kids, Tree!Threads,
     Late
<1>5. NestInv' /\ SetInv'
  BY DEF ChildInv, Tree!ChildAssumption, Tree!TypeOK, NestInv, SetInv, FreshInv, LoopInv, Tree!Signal,
     Tree!Kids, Tree!Threads
<1> QED BY <1>1, <1>2, <1>3, <1>4, <1>5 DEF ChildInv

LEMMA LaunchThreadKeeps ==
    ASSUME Tree!ChildAssumption, ChildInv, NEW x \in Ctx, NEW c \in Tree!Kids,
           Tree!LaunchThread(x, c)
    PROVE  ChildInv'
<1>1. CASE blocked[x]
  <2>1. /\ alive' \in BOOLEAN
        /\ UNCHANGED <<phase, busy, op, sig, kill, info, kev, pipes, blocked, task, open, sent>>
    BY <1>1 DEF Tree!LaunchThread
  <2>2. Tree!TypeOK'
    BY <2>1 DEF ChildInv, Tree!TypeOK, Tree!Threads, Tree!Kids
  <2> QED BY <2>1, <2>2 DEF ChildInv, SignalInv, FreshInv, LoopInv, ThreadInv, ToldInv, KillInv, NestInv, SetInv,
        Late, Tree!Told, Tree!Has, Tree!Threads, Tree!Kids
<1>2. CASE ~blocked[x]
  <2>1. /\ pipes' = [pipes EXCEPT ![x] = @ \cup {c}] /\ open' = open \cup {c}
        /\ task' = [task EXCEPT ![c] = "armed"] /\ phase' = [phase EXCEPT ![c] = "first"]
        /\ UNCHANGED <<busy, op, sig, kill, info, kev, blocked, sent, alive>>
        /\ c \in Tree!Threads /\ Parent[c] = x /\ phase[c] = "none" /\ task[c] = "none"
    BY <1>2 DEF Tree!LaunchThread, Tree!MayStart, Tree!KidsOf
  <2>2. Tree!TypeOK'
    BY <2>1 DEF ChildInv, Tree!ChildAssumption, Tree!TypeOK, Tree!Threads, Tree!Kids
  <2>3. SignalInv' /\ FreshInv' /\ LoopInv'
    BY <2>1 DEF ChildInv, Tree!TypeOK, SignalInv, FreshInv, LoopInv
  <2>4. ThreadInv'
    BY <2>1 DEF ChildInv, Tree!ChildAssumption, Tree!TypeOK, ThreadInv, Late, Tree!Threads,
       Tree!Kids
  <2>5. ToldInv' /\ KillInv'
    BY <2>1 DEF ChildInv, Tree!ChildAssumption, Tree!TypeOK, ToldInv, KillInv, Tree!Told, Tree!Has, Late,
       Tree!Threads, Tree!Kids
  <2>6. NestInv' /\ SetInv'
    BY <2>1 DEF ChildInv, Tree!ChildAssumption, Tree!TypeOK, FreshInv, LoopInv, NestInv, SetInv, Tree!Threads, Tree!Kids
  <2> QED BY <2>2, <2>3, <2>4, <2>5, <2>6 DEF ChildInv
<1> QED BY <1>1, <1>2

LEMMA EnterNestedKeeps ==
    ASSUME Tree!ChildAssumption, ChildInv, NEW x \in Ctx, NEW c \in Tree!Kids,
           Tree!EnterNested(x, c)
    PROVE  ChildInv'
<1>1. Tree!TypeOK'
  BY DEF ChildInv, Tree!ChildAssumption, Tree!TypeOK, Tree!EnterNested, Tree!MayStart, Tree!Runs,
     Tree!KidsOf, Tree!Kids, Tree!Threads
<1>2. SignalInv'
  BY DEF ChildInv, Tree!ChildAssumption, Tree!TypeOK, SignalInv, Tree!EnterNested, Tree!MayStart,
     Tree!Runs, Tree!KidsOf, Tree!Kids
<1>3. FreshInv'
  BY DEF ChildInv, Tree!ChildAssumption, Tree!TypeOK, FreshInv, Tree!EnterNested, Tree!MayStart,
     Tree!Runs, Tree!KidsOf, Tree!Kids
<1>4. LoopInv'
  BY DEF ChildInv, Tree!ChildAssumption, Tree!TypeOK, LoopInv, Tree!EnterNested, Tree!MayStart,
     Tree!Runs, Tree!KidsOf, Tree!Kids
<1>5. ThreadInv'
  BY DEF ChildInv, Tree!ChildAssumption, Tree!TypeOK, ThreadInv, LoopInv, Late, Tree!EnterNested,
     Tree!MayStart, Tree!Runs, Tree!KidsOf, Tree!Kids, Tree!Threads
<1>6. ToldInv'
  BY DEF ChildInv, Tree!ChildAssumption, Tree!TypeOK, ToldInv, FreshInv, Tree!Told, Tree!Has,
     Late, Tree!EnterNested, Tree!MayStart, Tree!Runs, Tree!KidsOf, Tree!Kids, Tree!Threads
<1>7. KillInv'
  BY DEF ChildInv, Tree!ChildAssumption, Tree!TypeOK, KillInv, FreshInv, Tree!EnterNested,
     Tree!MayStart, Tree!Runs, Tree!KidsOf, Tree!Kids
<1>8. NestInv' /\ SetInv'
  BY DEF ChildInv, Tree!ChildAssumption, Tree!TypeOK, NestInv, SetInv, FreshInv, LoopInv, Tree!EnterNested,
     Tree!Kids, Tree!Threads, Tree!KidsOf, Tree!MayStart, Tree!Runs
<1> QED BY <1>1, <1>2, <1>3, <1>4, <1>5, <1>6, <1>7, <1>8 DEF ChildInv

LEMMA StartStopsKeeps ==
    ASSUME Tree!ChildAssumption, ChildInv, NEW x \in Ctx, Tree!StartStops(x)
    PROVE  ChildInv'
<1>1. Tree!TypeOK'
  BY DEF ChildInv, Tree!ChildAssumption, Tree!TypeOK, Tree!StartStops, Tree!Runs, Tree!Threads,
     Tree!Kids
<1>2. SignalInv'
  BY DEF ChildInv, Tree!ChildAssumption, Tree!TypeOK, SignalInv, Tree!StartStops, Tree!Runs
<1>3. FreshInv'
  BY DEF ChildInv, Tree!ChildAssumption, Tree!TypeOK, FreshInv, Tree!StartStops, Tree!Runs
<1>4. ThreadInv'
  BY DEF ChildInv, Tree!ChildAssumption, Tree!TypeOK, ThreadInv, LoopInv, Late, Tree!StartStops,
     Tree!Runs, Tree!Threads, Tree!Kids
<1>5. ToldInv'
  BY DEF ChildInv, Tree!ChildAssumption, Tree!TypeOK, ToldInv, FreshInv, KillInv, Tree!Told, Tree!Has,
     Late, Tree!StartStops, Tree!Runs, Tree!Threads, Tree!Kids
<1>6. KillInv'
  BY DEF ChildInv, Tree!ChildAssumption, Tree!TypeOK, KillInv, FreshInv, Tree!StartStops,
     Tree!Runs, Tree!Kids
<1>7. LoopInv'
  BY DEF ChildInv, Tree!StartStops, LoopInv, Tree!Kids
<1>8. NestInv' /\ SetInv'
  BY DEF ChildInv, Tree!ChildAssumption, Tree!TypeOK, NestInv, SetInv, FreshInv, LoopInv, Tree!StartStops,
     Tree!Kids, Tree!Threads, Tree!Runs
<1> QED BY <1>1, <1>2, <1>3, <1>4, <1>5, <1>6, <1>7, <1>8 DEF ChildInv

LEMMA SignalReadKeeps ==
    ASSUME Tree!ChildAssumption, ChildInv, NEW x \in Ctx, Tree!SignalRead(x)
    PROVE  ChildInv'
<1>1. Tree!TypeOK'
  BY DEF ChildInv, Tree!ChildAssumption, Tree!TypeOK, Tree!SignalRead, Tree!Threads,
     Tree!Kids
<1>2. SignalInv'
  BY DEF ChildInv, Tree!ChildAssumption, Tree!TypeOK, SignalInv, Tree!SignalRead
<1>3. FreshInv'
  BY DEF ChildInv, Tree!ChildAssumption, Tree!TypeOK, FreshInv, Tree!SignalRead
<1>4. ToldInv'
  BY DEF ChildInv, Tree!ChildAssumption, Tree!TypeOK, ToldInv, Tree!Told, Tree!Has, Late,
     Tree!SignalRead, Tree!Threads, Tree!Kids
<1>5. KillInv'
  BY DEF ChildInv, Tree!ChildAssumption, Tree!TypeOK, KillInv, FreshInv, Tree!SignalRead,
     Tree!Kids
<1>6. LoopInv' /\ ThreadInv'
  BY DEF ChildInv, Tree!SignalRead, LoopInv, ThreadInv, Tree!Kids, Tree!Threads, Late
<1>7. NestInv' /\ SetInv'
  BY DEF ChildInv, Tree!ChildAssumption, Tree!TypeOK, NestInv, SetInv, FreshInv, LoopInv, Tree!SignalRead,
     Tree!Kids, Tree!Threads
<1> QED BY <1>1, <1>2, <1>3, <1>4, <1>5, <1>6, <1>7 DEF ChildInv

LEMMA KillReadKeeps ==
    ASSUME Tree!ChildAssumption, ChildInv, NEW x \in Ctx, Tree!KillRead(x)
    PROVE  ChildInv'
<1>1. Tree!TypeOK'
  BY DEF ChildInv, Tree!ChildAssumption, Tree!TypeOK, Tree!KillRead, Tree!Threads, Tree!Kids
<1>2. SignalInv'
  BY DEF ChildInv, Tree!ChildAssumption, Tree!TypeOK, SignalInv, Tree!KillRead
<1>3. FreshInv'
  BY DEF ChildInv, Tree!ChildAssumption, Tree!TypeOK, FreshInv, Tree!KillRead
<1>4. ToldInv'
  BY DEF ChildInv, Tree!ChildAssumption, Tree!TypeOK, ToldInv, Tree!Told, Tree!Has, Late,
     Tree!KillRead, Tree!Threads, Tree!Kids
<1>5. KillInv'
  BY DEF ChildInv, Tree!ChildAssumption, Tree!TypeOK, KillInv, FreshInv, Tree!KillRead, Tree!Kids
<1>6. LoopInv' /\ ThreadInv'
  BY DEF ChildInv, Tree!KillRead, LoopInv, ThreadInv, Tree!Kids, Tree!Threads, Late
<1>7. NestInv' /\ SetInv'
  BY DEF ChildInv, Tree!ChildAssumption, Tree!TypeOK, NestInv, SetInv, FreshInv, LoopInv, Tree!KillRead,
     Tree!Kids, Tree!Threads
<1> QED BY <1>1, <1>2, <1>3, <1>4, <1>5, <1>6, <1>7 DEF ChildInv

LEMMA OpEndsKeeps ==
    ASSUME Tree!ChildAssumption, ChildInv, NEW x \in Ctx, Tree!OpEnds(x)
    PROVE  ChildInv'
<1>1. Tree!TypeOK'
  BY DEF ChildInv, Tree!ChildAssumption, Tree!TypeOK, Tree!OpEnds, Tree!Handles, Tree!Runs,
     Tree!Threads, Tree!Kids
<1>2. SignalInv' /\ FreshInv' /\ LoopInv' /\ ThreadInv' /\ ToldInv' /\ KillInv' /\ NestInv' /\ SetInv'
  BY DEF ChildInv, Tree!OpEnds, SignalInv, FreshInv, LoopInv, ThreadInv, ToldInv, KillInv,
     NestInv, SetInv, Tree!Kids, Tree!Threads, Late, Tree!Told, Tree!Has
<1> QED BY <1>1, <1>2 DEF ChildInv

LEMMA StopBySignalKeeps ==
    ASSUME Tree!ChildAssumption, ChildInv, NEW x \in Ctx, Tree!StopBySignal(x)
    PROVE  ChildInv'
<1>1. Tree!TypeOK'
  BY DEF ChildInv, Tree!ChildAssumption, Tree!TypeOK, Tree!StopBySignal, Tree!Handles, Tree!Runs,
     Tree!Stopping, Tree!Pass, Tree!PassUp, Tree!Kids, Tree!KidsOf, Tree!Quit, Tree!Threads
<1>2. SignalInv'
  <2>1. Root \notin pipes[x] /\ sent > 0
    BY DEF ChildInv, Tree!TypeOK, Tree!Threads, Tree!Kids, SignalInv, Tree!StopBySignal
  <2> QED
    BY <2>1 DEF ChildInv, Tree!ChildAssumption, Tree!TypeOK, SignalInv, Tree!StopBySignal,
     Tree!Handles, Tree!Runs, Tree!Stopping, Tree!Pass, Tree!PassUp, Tree!Kids, Tree!KidsOf,
     Tree!Quit
<1>3. FreshInv'
  BY DEF ChildInv, Tree!ChildAssumption, Tree!TypeOK, FreshInv, Tree!StopBySignal, Tree!Handles,
     Tree!Runs, Tree!Stopping, Tree!Pass, Tree!PassUp, Tree!Kids, Tree!KidsOf, Tree!Quit
<1>4. ThreadInv'
  BY DEF ChildInv, Tree!ChildAssumption, Tree!TypeOK, ThreadInv, LoopInv, Late, Tree!StopBySignal,
     Tree!Handles, Tree!Runs, Tree!Stopping, Tree!Pass, Tree!PassUp, Tree!Kids, Tree!KidsOf,
     Tree!Quit, Tree!Threads
<1>5. ToldInv'
  <2> SUFFICES ASSUME NEW c \in Tree!Threads, task'[c] \in {"canceled", "getting"}
               PROVE  Tree!Told(c)' \/ Late(c)'
    BY Zenon DEF ToldInv
  <2>1. /\ phase' = phase /\ blocked' = blocked /\ sig[x] = "read" /\ Tree!Handles(x)
        /\ info' = Tree!Pass(x) /\ kev' = Tree!PassUp(x)
        /\ task' = [k \in Tree!Kids |-> IF k \in Tree!KidsOf(x) /\ task[k] = "armed"
                                        THEN "canceled" ELSE task[k]]
        /\ sig' = [sig EXCEPT ![x] = "canceling"] /\ kill' = Tree!Quit(kill, x)
    BY DEF Tree!StopBySignal, Tree!Stopping
  <2>2. c \in Ctx /\ c \in Tree!Kids /\ x \in Ctx
    BY DEF Tree!Threads, Tree!Kids
  <2>3. /\ sig'[x] = "canceling" /\ \A y \in Ctx \ {x} : sig'[y] = sig[y] /\ kill'[y] = kill[y]
        /\ kill[x] # "reading" => kill'[x] = kill[x]
        /\ \A y \in Ctx : kill[y] = "canceling" => kill'[y] = "canceling"
        /\ \A y \in Ctx : sig[y] = "canceling" => sig'[y] = "canceling"
    BY <2>1, <2>2 DEF ChildInv, Tree!TypeOK, Tree!Quit
  <2>4. \A y \in Ctx : kev[y] = "set" => kev'[y] = "set"
    BY <2>1, <2>2 DEF ChildInv, Tree!TypeOK, Tree!PassUp
  <2>5. \A y \in Ctx : info[y] > 0 => info'[y] > 0
    BY <2>1, <2>2 DEF ChildInv, Tree!TypeOK, Tree!Pass
  <2>6. CASE task[c] = "armed"
    <3>1. Parent[c] = x /\ c \in pipes[x]
      BY <2>1, <2>2, <2>6 DEF ChildInv, ThreadInv, Tree!KidsOf
    <3>2. sent > 0 /\ sent <= MaxSignals /\ sent \in Nat /\ MaxSignals \in Nat
      BY <2>1, <2>2 DEF ChildInv, SignalInv, Tree!TypeOK, Tree!ChildAssumption
    <3>3. info'[c] > 0
      BY <2>1, <2>2, <2>6, <3>1, <3>2 DEF ChildInv, Tree!TypeOK, Tree!Pass
    <3> QED BY <3>3 DEF Tree!Told
  <2>7. CASE Late(c)
    BY <2>1, <2>7 DEF Late
  <2>8. CASE info[c] > 0 \/ blocked[c] \/ "canceling" \in {sig[c], kill[c]}
    BY <2>1, <2>2, <2>3, <2>5, <2>8 DEF Tree!Told
  <2>9. CASE \E y \in Ctx : Source[y] = c /\ Tree!Has(y)
    <3> PICK y \in Ctx : Source[y] = c /\ Tree!Has(y)
      BY <2>9
    <3>1. CASE y # x
      <4>1. Tree!Has(y)'
        BY <2>3, <2>4, <3>1 DEF Tree!Has
      <4> QED BY <4>1, Zenon DEF Tree!Told
    <3>2. CASE y = x /\ x \notin Nested
      <4>1. x = c
        BY <3>2 DEF Tree!ChildAssumption
      <4> QED BY <2>3, <4>1 DEF Tree!Told
    <3>3. CASE y = x /\ x \in Nested
      <4>1. /\ x \in Tree!Kids /\ Parent[x] \in Ctx /\ Source[Parent[x]] = c /\ Parent[x] # x
        <5>1. x \in Tree!Kids /\ Parent[x] \in Ctx
          BY <3>3 DEF Tree!ChildAssumption
        <5>2. Source[Parent[x]] = c
          BY <3>3, <2>2 DEF Tree!ChildAssumption
        <5>3. Parent[x] # x
          <6>1. Tree!Runs(x)
            BY <2>1 DEF Tree!Handles
          <6>2. phase[x] \notin {"none", "first", "returned"}
            BY <2>1, <2>2 DEF Tree!Handles, Tree!Runs
          <6> QED BY <3>3, <6>2 DEF ChildInv, NestInv
        <5> QED BY <5>1, <5>2, <5>3
      <4>2. phase[Parent[x]] = "first"
        BY <2>1, <2>2, <3>3 DEF ChildInv, NestInv, Tree!Handles, Tree!Runs
      <4>3. kill[Parent[x]] = "none"
        BY <4>1, <4>2 DEF ChildInv, FreshInv
      <4>4. kev'[Parent[x]] = "set" /\ kill'[Parent[x]] = "none"
        BY <2>1, <2>3, <3>3, <4>1, <4>3 DEF ChildInv, Tree!TypeOK, Tree!PassUp
      <4>5. Tree!Has(Parent[x])'
        BY <4>4 DEF Tree!Has
      <4> QED BY <4>1, <4>5, Zenon DEF Tree!Told
    <3> QED BY <3>1, <3>2, <3>3
  <2>10. task[c] \in {"canceled", "getting"} \/ task[c] = "armed"
    BY <2>1, <2>2
  <2> QED BY <2>6, <2>7, <2>8, <2>9, <2>10 DEF ChildInv, ToldInv, Tree!Told
<1>6. KillInv'
  BY DEF ChildInv, Tree!ChildAssumption, Tree!TypeOK, KillInv, FreshInv, Tree!StopBySignal,
     Tree!Handles, Tree!Runs, Tree!Stopping, Tree!Pass, Tree!PassUp, Tree!Kids, Tree!KidsOf,
     Tree!Quit
<1>7. LoopInv'
  BY DEF ChildInv, Tree!StopBySignal, LoopInv, Tree!Kids, Tree!Handles, Tree!Runs, Tree!Stopping,
     Tree!Pass, Tree!PassUp, Tree!KidsOf, Tree!Quit
<1>8. NestInv' /\ SetInv'
  BY DEF ChildInv, Tree!ChildAssumption, Tree!TypeOK, NestInv, SetInv, FreshInv, LoopInv, Tree!StopBySignal,
     Tree!Kids, Tree!Threads, Tree!Handles, Tree!KidsOf, Tree!Pass, Tree!PassUp, Tree!Quit, Tree!Runs, Tree!Stopping
<1> QED BY <1>1, <1>2, <1>3, <1>4, <1>5, <1>6, <1>7, <1>8 DEF ChildInv

LEMMA StopByKillEventKeeps ==
    ASSUME Tree!ChildAssumption, ChildInv, NEW x \in Ctx, Tree!StopByKillEvent(x)
    PROVE  ChildInv'
<1>1. Tree!TypeOK'
  BY DEF ChildInv, Tree!ChildAssumption, Tree!TypeOK, Tree!StopByKillEvent, Tree!Handles,
     Tree!Runs, Tree!Stopping, Tree!Pass, Tree!PassUp, Tree!Kids, Tree!KidsOf, Tree!Quit,
     Tree!Threads
<1>2. SignalInv'
  <2>1. Root \notin pipes[x] /\ sent > 0
    BY DEF ChildInv, Tree!TypeOK, Tree!Threads, Tree!Kids, SignalInv, Tree!StopByKillEvent
  <2> QED
    BY <2>1 DEF ChildInv, Tree!ChildAssumption, Tree!TypeOK, SignalInv, Tree!StopByKillEvent,
     Tree!Handles, Tree!Runs, Tree!Stopping, Tree!Pass, Tree!PassUp, Tree!Kids, Tree!KidsOf,
     Tree!Quit
<1>3. FreshInv'
  BY DEF ChildInv, Tree!ChildAssumption, Tree!TypeOK, FreshInv, Tree!StopByKillEvent,
     Tree!Handles, Tree!Runs, Tree!Stopping, Tree!Pass, Tree!PassUp, Tree!Kids, Tree!KidsOf,
     Tree!Quit
<1>4. ThreadInv'
  BY DEF ChildInv, Tree!ChildAssumption, Tree!TypeOK, ThreadInv, LoopInv, Late,
     Tree!StopByKillEvent, Tree!Handles, Tree!Runs, Tree!Stopping, Tree!Pass, Tree!PassUp,
     Tree!Kids, Tree!KidsOf, Tree!Quit, Tree!Threads
<1>5. ToldInv'
  <2> SUFFICES ASSUME NEW c \in Tree!Threads, task'[c] \in {"canceled", "getting"}
               PROVE  Tree!Told(c)' \/ Late(c)'
    BY Zenon DEF ToldInv
  <2>1. /\ phase' = phase /\ blocked' = blocked /\ kill[x] = "read" /\ Tree!Handles(x)
        /\ info' = Tree!Pass(x) /\ kev' = Tree!PassUp(x)
        /\ task' = [k \in Tree!Kids |-> IF k \in Tree!KidsOf(x) /\ task[k] = "armed"
                                        THEN "canceled" ELSE task[k]]
        /\ kill' = [kill EXCEPT ![x] = "canceling"] /\ sig' = Tree!Quit(sig, x)
    BY DEF Tree!StopByKillEvent, Tree!Stopping
  <2>2. c \in Ctx /\ c \in Tree!Kids /\ x \in Ctx
    BY DEF Tree!Threads, Tree!Kids
  <2>3. /\ kill'[x] = "canceling" /\ \A y \in Ctx \ {x} : kill'[y] = kill[y] /\ sig'[y] = sig[y]
        /\ sig[x] # "reading" => sig'[x] = sig[x]
        /\ \A y \in Ctx : sig[y] = "canceling" => sig'[y] = "canceling"
        /\ \A y \in Ctx : kill[y] = "canceling" => kill'[y] = "canceling"
    BY <2>1, <2>2 DEF ChildInv, Tree!TypeOK, Tree!Quit
  <2>4. \A y \in Ctx : kev[y] = "set" => kev'[y] = "set"
    BY <2>1, <2>2 DEF ChildInv, Tree!TypeOK, Tree!PassUp
  <2>5. \A y \in Ctx : info[y] > 0 => info'[y] > 0
    BY <2>1, <2>2 DEF ChildInv, Tree!TypeOK, Tree!Pass
  <2>6. CASE task[c] = "armed"
    <3>1. Parent[c] = x /\ c \in pipes[x]
      BY <2>1, <2>2, <2>6 DEF ChildInv, ThreadInv, Tree!KidsOf
    <3>2. sent > 0 /\ sent <= MaxSignals /\ sent \in Nat /\ MaxSignals \in Nat
      BY <2>1, <2>2 DEF ChildInv, SignalInv, Tree!TypeOK, Tree!ChildAssumption
    <3>3. info'[c] > 0
      BY <2>1, <2>2, <2>6, <3>1, <3>2 DEF ChildInv, Tree!TypeOK, Tree!Pass
    <3> QED BY <3>3 DEF Tree!Told
  <2>7. CASE Late(c)
    BY <2>1, <2>7 DEF Late
  <2>8. CASE info[c] > 0 \/ blocked[c] \/ "canceling" \in {sig[c], kill[c]}
    BY <2>1, <2>2, <2>3, <2>5, <2>8 DEF Tree!Told
  <2>9. CASE \E y \in Ctx : Source[y] = c /\ Tree!Has(y)
    <3> PICK y \in Ctx : Source[y] = c /\ Tree!Has(y)
      BY <2>9
    <3>1. CASE y # x
      <4>1. Tree!Has(y)'
        BY <2>3, <2>4, <3>1 DEF Tree!Has
      <4> QED BY <4>1, Zenon DEF Tree!Told
    <3>2. CASE y = x /\ x \notin Nested
      <4>1. x = c
        BY <3>2 DEF Tree!ChildAssumption
      <4> QED BY <2>3, <4>1 DEF Tree!Told
    <3>3. CASE y = x /\ x \in Nested
      <4>1. /\ x \in Tree!Kids /\ Parent[x] \in Ctx /\ Source[Parent[x]] = c /\ Parent[x] # x
        <5>1. x \in Tree!Kids /\ Parent[x] \in Ctx
          BY <3>3 DEF Tree!ChildAssumption
        <5>2. Source[Parent[x]] = c
          BY <3>3, <2>2 DEF Tree!ChildAssumption
        <5>3. Parent[x] # x
          <6>1. Tree!Runs(x)
            BY <2>1 DEF Tree!Handles
          <6>2. phase[x] \notin {"none", "first", "returned"}
            BY <2>1, <2>2 DEF Tree!Handles, Tree!Runs
          <6> QED BY <3>3, <6>2 DEF ChildInv, NestInv
        <5> QED BY <5>1, <5>2, <5>3
      <4>2. phase[Parent[x]] = "first"
        BY <2>1, <2>2, <3>3 DEF ChildInv, NestInv, Tree!Handles, Tree!Runs
      <4>3. kill[Parent[x]] = "none"
        BY <4>1, <4>2 DEF ChildInv, FreshInv
      <4>4. kev'[Parent[x]] = "set" /\ kill'[Parent[x]] = "none"
        BY <2>1, <2>3, <3>3, <4>1, <4>3 DEF ChildInv, Tree!TypeOK, Tree!PassUp
      <4>5. Tree!Has(Parent[x])'
        BY <4>4 DEF Tree!Has
      <4> QED BY <4>1, <4>5, Zenon DEF Tree!Told
    <3> QED BY <3>1, <3>2, <3>3
  <2>10. task[c] \in {"canceled", "getting"} \/ task[c] = "armed"
    BY <2>1, <2>2
  <2> QED BY <2>6, <2>7, <2>8, <2>9, <2>10 DEF ChildInv, ToldInv, Tree!Told
<1>6. KillInv'
  BY DEF ChildInv, Tree!ChildAssumption, Tree!TypeOK, KillInv, FreshInv, Tree!StopByKillEvent,
     Tree!Handles, Tree!Runs, Tree!Stopping, Tree!Pass, Tree!PassUp, Tree!Kids, Tree!KidsOf,
     Tree!Quit
<1>7. LoopInv'
  BY DEF ChildInv, Tree!StopByKillEvent, LoopInv, Tree!Kids, Tree!Handles, Tree!Runs,
     Tree!Stopping, Tree!Pass, Tree!PassUp, Tree!KidsOf, Tree!Quit
<1>8. NestInv' /\ SetInv'
  BY DEF ChildInv, Tree!ChildAssumption, Tree!TypeOK, NestInv, SetInv, FreshInv, LoopInv, Tree!StopByKillEvent,
     Tree!Kids, Tree!Threads, Tree!Handles, Tree!KidsOf, Tree!Pass, Tree!PassUp, Tree!Quit, Tree!Runs, Tree!Stopping
<1> QED BY <1>1, <1>2, <1>3, <1>4, <1>5, <1>6, <1>7, <1>8 DEF ChildInv

LEMMA BlockKeeps ==
    ASSUME Tree!ChildAssumption, ChildInv, NEW x \in Ctx, Tree!Block(x)
    PROVE  ChildInv'
<1>1. Tree!TypeOK'
  <2>1. {sig', kill'} \subseteq [Ctx -> {"none", "reading", "read", "canceling", "done"}]
    BY DEF ChildInv, Tree!TypeOK, Tree!Block
  <2>2. blocked' \in [Ctx -> BOOLEAN]
    BY DEF ChildInv, Tree!TypeOK, Tree!Block
  <2>3. UNCHANGED <<phase, busy, op, info, kev, pipes, task, open, sent, alive>>
    BY DEF Tree!Block
  <2> QED BY <2>1, <2>2, <2>3 DEF ChildInv, Tree!TypeOK, Tree!Threads, Tree!Kids
<1>2. SignalInv'
  BY DEF ChildInv, Tree!ChildAssumption, Tree!TypeOK, SignalInv, Tree!Block, Tree!Handles,
     Tree!Runs
<1>3. FreshInv'
  BY DEF ChildInv, Tree!ChildAssumption, Tree!TypeOK, FreshInv, Tree!Block, Tree!Handles,
     Tree!Runs
<1>4. ToldInv'
  <2> SUFFICES ASSUME NEW c \in Tree!Threads, task'[c] \in {"canceled", "getting"}
               PROVE  Tree!Told(c)' \/ Late(c)'
    BY Zenon DEF ToldInv
  <2>1. /\ UNCHANGED <<phase, info, kev, task>> /\ blocked'[x] = TRUE /\ c \in Ctx
        /\ \A y \in Ctx \ {x} : sig'[y] = sig[y] /\ kill'[y] = kill[y] /\ blocked'[y] = blocked[y]
        /\ \/ sig[x] = "canceling" /\ kill' = kill
           \/ kill[x] = "canceling" /\ sig' = sig
    BY DEF ChildInv, Tree!TypeOK, Tree!Block, Tree!Threads, Tree!Kids
  <2>2. CASE Late(c) \/ c = x
    BY <2>1, <2>2 DEF Late, Tree!Told
  <2>3. CASE c # x /\ (info[c] > 0 \/ blocked[c] \/ "canceling" \in {sig[c], kill[c]})
    BY <2>1, <2>3 DEF Tree!Told
  <2>4. CASE \E y \in Ctx : Source[y] = c /\ Tree!Has(y)
    <3> PICK y \in Ctx : Source[y] = c /\ Tree!Has(y)
      BY <2>4
    <3>1. Tree!Has(y)'
      BY <2>1 DEF Tree!Has, ChildInv, SetInv
    <3> QED BY <3>1, Zenon DEF Tree!Told
  <2> QED BY <2>1, <2>2, <2>3, <2>4 DEF ChildInv, ToldInv, Tree!Told
<1>5. KillInv'
  BY DEF ChildInv, Tree!ChildAssumption, Tree!TypeOK, KillInv, FreshInv, Tree!Block, Tree!Handles,
     Tree!Runs, Tree!Kids
<1>6. LoopInv' /\ ThreadInv'
  BY DEF ChildInv, Tree!Block, LoopInv, ThreadInv, Tree!Kids, Tree!Threads, Late
<1>7. NestInv' /\ SetInv'
  BY DEF ChildInv, Tree!ChildAssumption, Tree!TypeOK, NestInv, SetInv, FreshInv, LoopInv, Tree!Block,
     Tree!Kids, Tree!Threads, Tree!Handles, Tree!Runs
<1> QED BY <1>1, <1>2, <1>3, <1>4, <1>5, <1>6, <1>7 DEF ChildInv

LEMMA HandlePollKeeps ==
    ASSUME Tree!ChildAssumption, ChildInv, NEW x \in Ctx, NEW c \in Tree!KidsOf(x),
           Tree!HandlePoll(x, c)
    PROVE  ChildInv'
<1>1. Tree!TypeOK'
  BY DEF ChildInv, Tree!ChildAssumption, Tree!TypeOK, Tree!HandlePoll, Tree!Handles, Tree!Runs,
     Tree!KidsOf, Tree!Kids, Tree!Threads
<1>2. LoopInv'
  BY DEF ChildInv, Tree!ChildAssumption, Tree!TypeOK, LoopInv, Tree!HandlePoll, Tree!Handles,
     Tree!Runs, Tree!KidsOf, Tree!Kids
<1>3. ThreadInv'
  BY DEF ChildInv, Tree!ChildAssumption, Tree!TypeOK, ThreadInv, LoopInv, Late, Tree!HandlePoll,
     Tree!Handles, Tree!Runs, Tree!KidsOf, Tree!Kids, Tree!Threads
<1>4. ToldInv'
  BY DEF ChildInv, Tree!ChildAssumption, Tree!TypeOK, ToldInv, ThreadInv, Tree!Told, Tree!Has,
     Late, Tree!HandlePoll, Tree!Handles, Tree!Runs, Tree!KidsOf, Tree!Kids, Tree!Threads
<1>5. SignalInv' /\ FreshInv' /\ KillInv'
  BY DEF ChildInv, Tree!HandlePoll, SignalInv, FreshInv, KillInv, Tree!Kids
<1>6. NestInv' /\ SetInv'
  BY DEF ChildInv, Tree!ChildAssumption, Tree!TypeOK, NestInv, SetInv, FreshInv, LoopInv, Tree!HandlePoll,
     Tree!Kids, Tree!Threads, Tree!Handles, Tree!KidsOf, Tree!Runs
<1> QED BY <1>1, <1>2, <1>3, <1>4, <1>5, <1>6 DEF ChildInv

LEMMA ResultGotKeeps ==
    ASSUME Tree!ChildAssumption, ChildInv, NEW x \in Ctx, NEW c \in Tree!KidsOf(x),
           Tree!ResultGot(x, c)
    PROVE  ChildInv'
<1>1. Tree!TypeOK'
  <2>1. /\ c \in Tree!Kids /\ Parent[c] = x /\ busy[x] = c /\ task[c] \in {"inside", "getting"}
        /\ task' = [task EXCEPT ![c] = "done"] /\ busy' = [busy EXCEPT ![x] = "-"]
        /\ open' = open \ {c}
        /\ UNCHANGED <<phase, op, sig, kill, info, kev, pipes, blocked, sent, alive>>
    BY DEF ChildInv, Tree!TypeOK, ThreadInv, Tree!ResultGot, Tree!KidsOf, Tree!Threads
  <2>2. open' = {d \in Tree!Threads : task'[d] \notin {"none", "done"}}
    BY <2>1 DEF ChildInv, Tree!TypeOK, Tree!Threads
  <2>3. \A d \in Tree!Kids : (task'[d] \in {"inside", "getting"}) <=> (busy'[Parent[d]] = d)
    BY <2>1 DEF ChildInv, Tree!TypeOK, Tree!ChildAssumption, Tree!Kids
  <2> QED BY <2>1, <2>2, <2>3 DEF ChildInv, Tree!TypeOK
<1>2. LoopInv'
  BY DEF ChildInv, Tree!ChildAssumption, Tree!TypeOK, LoopInv, Tree!ResultGot, Tree!Kids
<1>3. ThreadInv'
  BY DEF ChildInv, Tree!ChildAssumption, Tree!TypeOK, ThreadInv, LoopInv, Late, Tree!ResultGot,
     Tree!Threads, Tree!Kids
<1>4. ToldInv'
  BY DEF ChildInv, Tree!ChildAssumption, Tree!TypeOK, ToldInv, Tree!Told, Tree!Has, Late,
     Tree!ResultGot, Tree!Threads, Tree!Kids
<1>5. SignalInv' /\ FreshInv' /\ KillInv'
  BY DEF ChildInv, Tree!ResultGot, SignalInv, FreshInv, KillInv, Tree!Kids
<1>6. NestInv' /\ SetInv'
  BY DEF ChildInv, Tree!ChildAssumption, Tree!TypeOK, NestInv, SetInv, FreshInv, LoopInv, Tree!ResultGot,
     Tree!Kids, Tree!Threads, Tree!KidsOf
<1> QED BY <1>1, <1>2, <1>3, <1>4, <1>5, <1>6 DEF ChildInv

LEMMA LeaveNestedKeeps ==
    ASSUME Tree!ChildAssumption, ChildInv, NEW x \in Ctx, NEW c \in Tree!KidsOf(x),
           Tree!LeaveNested(x, c)
    PROVE  ChildInv'
<1>1. Tree!TypeOK'
  <2>1. /\ c \in Tree!Kids /\ Parent[c] = x /\ busy[x] = c /\ task[c] \in {"inside", "getting"}
        /\ task' = [task EXCEPT ![c] = "done"] /\ busy' = [busy EXCEPT ![x] = "-"]
        /\ open' = open \ {c}
        /\ UNCHANGED <<phase, op, sig, kill, info, kev, pipes, blocked, sent, alive>>
    BY DEF ChildInv, Tree!TypeOK, ThreadInv, Tree!LeaveNested, Tree!KidsOf, Tree!Threads
  <2>2. open' = {d \in Tree!Threads : task'[d] \notin {"none", "done"}}
    BY <2>1 DEF ChildInv, Tree!TypeOK, Tree!Threads
  <2>3. \A d \in Tree!Kids : (task'[d] \in {"inside", "getting"}) <=> (busy'[Parent[d]] = d)
    BY <2>1 DEF ChildInv, Tree!TypeOK, Tree!ChildAssumption, Tree!Kids
  <2> QED BY <2>1, <2>2, <2>3 DEF ChildInv, Tree!TypeOK
<1>2. LoopInv'
  BY DEF ChildInv, Tree!ChildAssumption, Tree!TypeOK, LoopInv, Tree!LeaveNested, Tree!Kids
<1>3. ThreadInv'
  BY DEF ChildInv, Tree!ChildAssumption, Tree!TypeOK, ThreadInv, LoopInv, Late, Tree!LeaveNested,
     Tree!Threads, Tree!Kids
<1>4. ToldInv'
  BY DEF ChildInv, Tree!ChildAssumption, Tree!TypeOK, ToldInv, ThreadInv, Tree!Told, Tree!Has,
     Late, Tree!LeaveNested, Tree!Threads, Tree!Kids
<1>5. SignalInv' /\ FreshInv' /\ KillInv'
  BY DEF ChildInv, Tree!LeaveNested, SignalInv, FreshInv, KillInv, Tree!Kids
<1>6. NestInv' /\ SetInv'
  BY DEF ChildInv, Tree!ChildAssumption, Tree!TypeOK, NestInv, SetInv, FreshInv, LoopInv, Tree!LeaveNested,
     Tree!Kids, Tree!Threads, Tree!KidsOf
<1> QED BY <1>1, <1>2, <1>3, <1>4, <1>5, <1>6 DEF ChildInv

LEMMA MainEndsKeeps ==
    ASSUME Tree!ChildAssumption, ChildInv, NEW x \in Ctx, Tree!MainEnds(x)
    PROVE  ChildInv'
<1>1. Tree!TypeOK'
  BY DEF ChildInv, Tree!ChildAssumption, Tree!TypeOK, Tree!MainEnds, Tree!Handles, Tree!Runs,
     Tree!KidsOf, Tree!Kids, Tree!Quit, Tree!Threads
<1>2. SignalInv'
  BY DEF ChildInv, Tree!ChildAssumption, Tree!TypeOK, SignalInv, Tree!MainEnds, Tree!Handles,
     Tree!Runs, Tree!KidsOf, Tree!Kids, Tree!Quit
<1>3. FreshInv'
  BY DEF ChildInv, Tree!ChildAssumption, Tree!TypeOK, FreshInv, Tree!MainEnds, Tree!Handles,
     Tree!Runs, Tree!KidsOf, Tree!Kids, Tree!Quit
<1>4. ThreadInv'
  BY DEF ChildInv, Tree!ChildAssumption, Tree!TypeOK, ThreadInv, LoopInv, Late, Tree!MainEnds,
     Tree!Handles, Tree!Runs, Tree!KidsOf, Tree!Kids, Tree!Quit, Tree!Threads
<1>5. ToldInv'
  BY DEF ChildInv, Tree!ChildAssumption, Tree!TypeOK, ToldInv, Tree!Told, Tree!Has, Late,
     Tree!MainEnds, Tree!Handles, Tree!Runs, Tree!KidsOf, Tree!Kids, Tree!Quit, Tree!Threads
<1>6. KillInv'
  BY DEF ChildInv, Tree!ChildAssumption, Tree!TypeOK, KillInv, FreshInv, Tree!MainEnds,
     Tree!Handles, Tree!Runs, Tree!KidsOf, Tree!Kids, Tree!Quit
<1>7. LoopInv'
  BY DEF ChildInv, Tree!MainEnds, LoopInv, Tree!Kids
<1>8. NestInv' /\ SetInv'
  BY DEF ChildInv, Tree!ChildAssumption, Tree!TypeOK, NestInv, SetInv, FreshInv, LoopInv, Tree!MainEnds,
     Tree!Kids, Tree!Threads, Tree!Handles, Tree!KidsOf, Tree!Quit, Tree!Runs
<1> QED BY <1>1, <1>2, <1>3, <1>4, <1>5, <1>6, <1>7, <1>8 DEF ChildInv

LEMMA ExitKeeps ==
    ASSUME Tree!ChildAssumption, ChildInv, NEW x \in Ctx, Tree!Exit(x)
    PROVE  ChildInv'
<1>1. Tree!TypeOK'
  BY DEF ChildInv, Tree!ChildAssumption, Tree!TypeOK, Tree!Exit, Tree!Handles, Tree!Runs,
     Tree!Threads, Tree!Kids
<1>2. FreshInv'
  BY DEF ChildInv, Tree!ChildAssumption, Tree!TypeOK, FreshInv, Tree!Exit, Tree!Handles, Tree!Runs
<1>3. ThreadInv'
  BY DEF ChildInv, Tree!ChildAssumption, Tree!TypeOK, ThreadInv, LoopInv, Late, Tree!Exit,
     Tree!Handles, Tree!Runs, Tree!Threads, Tree!Kids
<1>4. ToldInv'
  BY DEF ChildInv, Tree!ChildAssumption, Tree!TypeOK, ToldInv, Tree!Told, Tree!Has, Late,
     Tree!Exit, Tree!Handles, Tree!Runs, Tree!Threads, Tree!Kids
<1>5. KillInv'
  BY DEF ChildInv, Tree!ChildAssumption, Tree!TypeOK, KillInv, FreshInv, Tree!Exit, Tree!Handles,
     Tree!Runs, Tree!Kids
<1>6. SignalInv' /\ LoopInv'
  BY DEF ChildInv, Tree!Exit, SignalInv, LoopInv, Tree!Kids
<1>7. NestInv' /\ SetInv'
  BY DEF ChildInv, Tree!ChildAssumption, Tree!TypeOK, NestInv, SetInv, FreshInv, LoopInv, Tree!Exit,
     Tree!Kids, Tree!Threads, Tree!Handles, Tree!Runs
<1> QED BY <1>1, <1>2, <1>3, <1>4, <1>5, <1>6, <1>7 DEF ChildInv

LEMMA WriteEventKeeps ==
    ASSUME Tree!ChildAssumption, ChildInv, NEW c \in Ctx, Tree!WriteEvent(c)
    PROVE  ChildInv'
<1>1. Tree!TypeOK'
  BY DEF ChildInv, Tree!ChildAssumption, Tree!TypeOK, Tree!WriteEvent, Tree!Threads, Tree!Kids
<1>2. FreshInv'
  BY DEF ChildInv, Tree!ChildAssumption, Tree!TypeOK, FreshInv, Tree!WriteEvent, Tree!Threads,
     Tree!Kids
<1>3. ThreadInv'
  BY DEF ChildInv, Tree!ChildAssumption, Tree!TypeOK, ThreadInv, LoopInv, Late, Tree!WriteEvent,
     Tree!Threads, Tree!Kids
<1>4. ToldInv'
  BY DEF ChildInv, Tree!ChildAssumption, Tree!TypeOK, ToldInv, ThreadInv, Tree!Told, Tree!Has,
     Late, Tree!WriteEvent, Tree!Threads, Tree!Kids
<1>5. KillInv'
  BY DEF ChildInv, Tree!ChildAssumption, Tree!TypeOK, KillInv, FreshInv, Tree!WriteEvent,
     Tree!Threads, Tree!Kids
<1>6. SignalInv' /\ LoopInv'
  BY DEF ChildInv, Tree!WriteEvent, SignalInv, LoopInv, Tree!Kids
<1>7. NestInv' /\ SetInv'
  BY DEF ChildInv, Tree!ChildAssumption, Tree!TypeOK, NestInv, SetInv, FreshInv, LoopInv, Tree!WriteEvent,
     Tree!Kids, Tree!Threads
<1> QED BY <1>1, <1>2, <1>3, <1>4, <1>5, <1>6, <1>7 DEF ChildInv

LEMMA ResultReadyKeeps ==
    ASSUME Tree!ChildAssumption, ChildInv, NEW c \in Ctx, Tree!ResultReady(c)
    PROVE  ChildInv'
<1>1. Tree!TypeOK'
  BY DEF ChildInv, Tree!ChildAssumption, Tree!TypeOK, Tree!ResultReady, Tree!Threads, Tree!Kids
<1>2. FreshInv'
  BY DEF ChildInv, Tree!ChildAssumption, Tree!TypeOK, FreshInv, Tree!ResultReady
<1>3. ThreadInv'
  BY DEF ChildInv, Tree!ChildAssumption, Tree!TypeOK, ThreadInv, LoopInv, Late, Tree!ResultReady,
     Tree!Threads, Tree!Kids
<1>4. ToldInv'
  BY DEF ChildInv, Tree!ChildAssumption, Tree!TypeOK, ToldInv, Tree!Told, Tree!Has, Late,
     Tree!ResultReady, Tree!Threads, Tree!Kids
<1>5. KillInv'
  BY DEF ChildInv, Tree!ChildAssumption, Tree!TypeOK, KillInv, FreshInv, Tree!ResultReady,
     Tree!Kids
<1>6. SignalInv' /\ LoopInv'
  BY DEF ChildInv, Tree!ResultReady, SignalInv, LoopInv, Tree!Kids
<1>7. NestInv' /\ SetInv'
  BY DEF ChildInv, Tree!ChildAssumption, Tree!TypeOK, NestInv, SetInv, FreshInv, LoopInv, Tree!ResultReady,
     Tree!Kids, Tree!Threads
<1> QED BY <1>1, <1>2, <1>3, <1>4, <1>5, <1>6, <1>7 DEF ChildInv

LEMMA ChildInit == ASSUME Tree!ChildAssumption, Tree!Init PROVE ChildInv
<1>1. Tree!TypeOK
  BY DEF Tree!ChildAssumption, Tree!Init, Tree!TypeOK, Tree!Threads, Tree!Kids
<1> QED BY <1>1 DEF Tree!ChildAssumption, Tree!Init, ChildInv, SignalInv, FreshInv, LoopInv,
   ThreadInv,
     ToldInv, KillInv, NestInv, SetInv, Tree!Threads, Tree!Kids, Late

LEMMA ChildNext ==
    ASSUME Tree!ChildAssumption, ChildInv, [Tree!Next]_(Tree!vars)
    PROVE  ChildInv'
<1>1. CASE UNCHANGED Tree!vars
  BY <1>1 DEF Tree!vars, ChildInv, Tree!TypeOK, SignalInv, FreshInv, LoopInv, ThreadInv, ToldInv,
     KillInv, NestInv, SetInv, Late, Tree!Told, Tree!Has
<1>2. ASSUME NEW x \in Ctx, Tree!Loop(x) PROVE ChildInv'
  BY <1>2, StartStopsKeeps, SignalReadKeeps, KillReadKeeps, StopBySignalKeeps, StopByKillEventKeeps,
     BlockKeeps, MainEndsKeeps, ExitKeeps, WriteEventKeeps, ResultReadyKeeps, HandlePollKeeps,
     ResultGotKeeps, LeaveNestedKeeps DEF Tree!Loop
<1> QED BY <1>1, <1>2, SignalKeeps, OpEndsKeeps, LaunchThreadKeeps, EnterNestedKeeps DEF Tree!Next

LEMMA ChildSafe ==
    ASSUME Tree!ChildAssumption, ChildInv
    PROVE  Tree!TypeOK /\ Tree!TellsBeforeWaiting /\ Tree!EventOpen
<1>1. Tree!TellsBeforeWaiting
  BY DEF ChildInv, LoopInv, ToldInv, ThreadInv, Tree!TypeOK, Tree!TellsBeforeWaiting,
     Tree!ChildAssumption,
     Tree!Threads, Tree!Kids, Late
<1>2. Tree!EventOpen
  BY DEF ChildInv, ThreadInv, Tree!TypeOK, Tree!EventOpen, Tree!Threads
<1> QED BY <1>1, <1>2 DEF ChildInv
-----------------------------------------------------------------------------
(* The suite: the invariant of the part that runs, and that of Concurrent,  *)
(* whose variables keep their first values while another part runs.         *)

AsyncInv ==
    /\ SelectorInv
    /\ part = "inotify stop" => Stopped!DispatchInv
    /\ part = "unrestricted" => AnyUse!DispatchInv
    /\ part = "watch" => RingInv
    /\ part = "generator" => GenInv
    /\ part = "tree" => ChildInv

\* While no background coroutine returns, none is popped.
LEMMA CountsSlots == ASSUME SelectorInv PROVE RemainingCounts
<1>1. SUFFICES ASSUME ~Busy PROVE remaining = Cardinality(Used)
  BY DEF RemainingCounts, Used
<1>2. got = 0
  BY <1>1 DEF SelectorInv, BusyInv, Busy, TypeOK
<1> QED BY <1>2 DEF SelectorInv, CountInv, TypeOK

LEMMA Assumed ==
    /\ ConcurrentAssumption /\ Watch!WdAssumption /\ Gen!GeneratorAssumption
    /\ Tree!ChildAssumption /\ Stopped!InotifyAssumption /\ AnyUse!InotifyAssumption
  BY MCAsyncAssumption DEF InotifyStop!InotifyAssumption, Unrestricted!InotifyAssumption,
     Stopped!InotifyAssumption, AnyUse!InotifyAssumption

LEMMA AsyncStarts == ASSUME AsyncInit PROVE AsyncInv
<1>1. SelectorInv
  BY Assumed, InitInv DEF AsyncInit
<1>2. ASSUME part = "inotify stop" PROVE Stopped!DispatchInv
  <2>1. Stopped!Init
    BY <1>2 DEF AsyncInit, InotifyStop!Init, Stopped!Init, InotifyStop!Wds, Stopped!Wds,
       InotifyStop!None, Stopped!None
  <2> QED BY <2>1, Assumed, Stopped!DispatchInit
<1>3. ASSUME part = "unrestricted" PROVE AnyUse!DispatchInv
  <2>1. AnyUse!Init
    BY <1>3 DEF AsyncInit, Unrestricted!Init, AnyUse!Init, Unrestricted!Wds, AnyUse!Wds,
       Unrestricted!None, AnyUse!None
  <2> QED BY <2>1, Assumed, AnyUse!DispatchInit
<1>4. ASSUME part = "watch" PROVE RingInv
  BY <1>4, Assumed, RingInit DEF AsyncInit
<1>5. ASSUME part = "generator" PROVE GenInv
  BY <1>5, Assumed, GenInit DEF AsyncInit
<1>6. ASSUME part = "tree" PROVE ChildInv
  BY <1>6, Assumed, ChildInit DEF AsyncInit
<1> QED BY <1>1, <1>2, <1>3, <1>4, <1>5, <1>6 DEF AsyncInv

LEMMA AsyncGoesOn == ASSUME AsyncInv, [AsyncNext]_asyncVars PROVE AsyncInv'
<1> USE Assumed
<1>1. ASSUME part' = part, UNCHANGED vars PROVE SelectorInv'
  BY <1>1, NextInv DEF AsyncInv
<1>2. CASE InotifyStopStep
  <2>1. part = "inotify stop" /\ part' = part /\ InotifyStop!Next /\ UNCHANGED vars
    BY <1>2 DEF InotifyStopStep, NotInotifyCtx, vars
  <2>2. Stopped!DispatchInv'
    BY <2>1, StopSame, Stopped!DispatchNext DEF AsyncInv
  <2> QED BY <1>1, <2>1, <2>2 DEF AsyncInv
<1>3. CASE UnrestrictedStep
  <2>1. part = "unrestricted" /\ part' = part /\ Unrestricted!Next /\ UNCHANGED vars
    BY <1>3 DEF UnrestrictedStep, NotInotifyCtx, vars
  <2>2. AnyUse!DispatchInv'
    BY <2>1, UnrestrictedSame, AnyUse!DispatchNext DEF AsyncInv
  <2> QED BY <1>1, <2>1, <2>2 DEF AsyncInv
<1>4. CASE WatchStep
  <2>1. part = "watch" /\ part' = part /\ Watch!Next /\ UNCHANGED vars
    BY <1>4 DEF WatchStep, NotWdEvents, vars
  <2>2. RingInv'
    BY <2>1, RingNext DEF AsyncInv
  <2> QED BY <1>1, <2>1, <2>2 DEF AsyncInv
<1>5. CASE ConcurrentStep
  <2>1. part = "concurrent" /\ part' = part /\ Next
    BY <1>5 DEF ConcurrentStep
  <2>2. SelectorInv'
    BY <2>1, NextInv DEF AsyncInv
  <2> QED BY <2>1, <2>2 DEF AsyncInv
<1>6. CASE GenStep
  <2>1. part = "generator" /\ part' = part /\ Gen!Next /\ UNCHANGED vars
    BY <1>6 DEF GenStep, NotAsyncGenerator, vars
  <2>2. GenInv'
    BY <2>1, GenNext DEF AsyncInv
  <2> QED BY <1>1, <2>1, <2>2 DEF AsyncInv
<1>7. CASE TreeStep
  <2>1. part = "tree" /\ part' = part /\ Tree!Next /\ UNCHANGED vars
    BY <1>7 DEF TreeStep, NotChildContexts, vars
  <2>2. ChildInv'
    BY <2>1, ChildNext DEF AsyncInv
  <2> QED BY <1>1, <2>1, <2>2 DEF AsyncInv
<1>8. CASE UNCHANGED asyncVars
  <2> USE <1>8
  <2>1. UNCHANGED vars /\ part' = part
    BY DEF asyncVars, vars
  <2>2. UNCHANGED Unrestricted!vars /\ UNCHANGED InotifyStop!vars
    BY DEF asyncVars, Unrestricted!vars, Unrestricted!kernelVars, Unrestricted!mapVars,
       Unrestricted!taskVars, InotifyStop!vars, InotifyStop!kernelVars, InotifyStop!mapVars,
       InotifyStop!taskVars
  <2>3. UNCHANGED Watch!vars /\ UNCHANGED Tree!vars
    BY DEF asyncVars, Watch!vars, Watch!ring, Tree!vars
  <2>4. GenInv => GenInv'
    BY DEF asyncVars, GenInv, EntriesInv, TransferInv, FramesInv, Gen!TypeOK, Gen!StackBounded
  <2>5. /\ part = "inotify stop" => Stopped!DispatchInv'
        /\ part = "unrestricted" => AnyUse!DispatchInv'
    BY <2>2, StopSame, UnrestrictedSame, Stopped!DispatchNext, AnyUse!DispatchNext DEF AsyncInv
  <2>6. (part = "watch" => RingInv') /\ (part = "tree" => ChildInv')
    BY <2>3, RingNext, ChildNext DEF AsyncInv
  <2> QED BY <1>1, <2>1, <2>4, <2>5, <2>6 DEF AsyncInv
<1> QED BY <1>2, <1>3, <1>4, <1>5, <1>6, <1>7, <1>8 DEF AsyncNext, Rests

\* The invariant holds of every part.
THEOREM AsyncCorrect == AsyncSpec => []AsyncInv
<1>1. AsyncInit => AsyncInv
  BY AsyncStarts
<1>2. AsyncInv /\ [AsyncNext]_asyncVars => AsyncInv'
  BY AsyncGoesOn
<1> QED BY <1>1, <1>2, PTL DEF AsyncSpec

\* A poll of a watch gives the newest events its poller has not seen, whatever
\* the size of the ring; the consumer of a generator gets the entries in order
\* and each once, and the transfers between the two coroutines leave a bounded
\* number of frames; and select() counts what is not taken.
THEOREM EventsInOrder == AsyncSpec => []InOrder
<1>1. SelectorInv => TypeOK /\ ReadyOnce /\ RemainingCounts
  BY CountsSlots DEF SelectorInv
<1>2. AsyncInv => InOrder
  BY <1>1, Assumed, RingSafe, StopSafe, GenSafe DEF AsyncInv, InOrder, RingInv
<1> QED BY <1>2, AsyncCorrect, PTL

\* inotify_ctx resumes a task once for each wait, however the tasks use it.
THEOREM ResumedOnceEach == AsyncSpec => []NeverTwice
<1>1. AsyncInv => NeverTwice
  BY UnrestrictedSafe DEF AsyncInv, NeverTwice
<1> QED BY <1>1, AsyncCorrect, PTL

\* In every tree of contexts, whatever the number of signals: the result of a
\* child is waited for only when the child was told to stop or ends, and its
\* event descriptor is open as long as the thread may write to it.
THEOREM ChildrenTold == AsyncSpec => []TellsBeforeWaiting
<1>1. AsyncInv => TellsBeforeWaiting
  BY Assumed, ChildSafe DEF AsyncInv, TellsBeforeWaiting
<1> QED BY <1>1, AsyncCorrect, PTL
=============================================================================
