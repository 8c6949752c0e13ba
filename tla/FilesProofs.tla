------------------------------ MODULE FilesProofs ------------------------------
(***************************************************************************)
(* Proofs about MCFiles, for every number of watchers, directories, bytes, *)
(* and sizes of buffers and pipes: UsersCounted, NothingLost, Consecutive, *)
(* AllOutput and WatchedIsPending.  Each part has an inductive invariant   *)
(* of its own.                                                             *)
(***************************************************************************)
EXTENDS MCFiles, FiniteSetTheorems, SequenceTheorems, TLAPS

-----------------------------------------------------------------------------
(* Directory watches.                                                      *)

\* The map of the singleton, and the users it counts for a directory.
IsMap(m) == /\ m \in [DOMAIN m -> [users : Nat, made : BOOLEAN]] /\ DOMAIN m \subseteq Dirs
            /\ \A d \in DOMAIN m : m[d].users = 0 => ~m[d].made

Count(m, d) == IF d \in DOMAIN m THEN m[d].users ELSE 0
Card(d) == Cardinality(Singleton!Users(d))

WatchersInv ==
    /\ alive \subseteq Watchers /\ id \in [Watchers -> Dirs \cup {NoDir}] /\ IsMap(ws)
    /\ \A d \in Dirs : Count(ws, d) = Card(d)
    /\ failed \in BOOLEAN /\ Singleton!EndsAfterFailure

LEMMA UnrefCounts ==
    ASSUME NEW m, IsMap(m), NEW d, d \in Dirs => Count(m, d) > 0, d \in Dirs \cup {NoDir}, NoDir \notin Dirs
    PROVE  /\ IsMap(Singleton!Unref(d, m))
           /\ \A e \in Dirs : Count(Singleton!Unref(d, m), e) = IF e = d THEN Count(m, e) - 1 ELSE Count(m, e)
<1> DEFINE r == Singleton!Unref(d, m)
<1>1. CASE d \notin DOMAIN m
  <2>1. r = m /\ d \notin Dirs
    BY <1>1 DEF Singleton!Unref, Count
  <2> QED BY <2>1
<1>2. CASE d \in DOMAIN m /\ m[d].users = 1
  <2>1. r = [e \in DOMAIN m \ {d} |-> m[e]]
    BY <1>2 DEF Singleton!Unref, Singleton!Restrict
  <2> HIDE DEF r
  <2>2. IsMap(r) /\ \A e \in Dirs : Count(r, e) = IF e = d THEN Count(m, e) - 1 ELSE Count(m, e)
    BY <1>2, <2>1 DEF IsMap, Count
  <2> QED BY <2>2 DEF r
<1>3. CASE d \in DOMAIN m /\ m[d].users # 1
  <2>1. m[d] \in [users : Nat, made : BOOLEAN] /\ m[d].users > 1
    BY <1>3 DEF IsMap, Count
  <2>2. r = [m EXCEPT ![d] = [m[d] EXCEPT !.users = m[d].users - 1]]
    BY <1>3 DEF Singleton!Unref
  <2> DEFINE n == [m[d] EXCEPT !.users = m[d].users - 1]
  <2>3. n \in [users : Nat, made : BOOLEAN] /\ n.users = m[d].users - 1 /\ n.users # 0
    BY <2>1
  <2> HIDE DEF r, n
  <2>4. DOMAIN r = DOMAIN m /\ \A e \in DOMAIN m : r[e] = IF e = d THEN n ELSE m[e]
    BY <2>2 DEF n
  <2>5. IsMap(r)
    <3>1. r \in [DOMAIN r -> [users : Nat, made : BOOLEAN]]
      BY <2>2, <2>3 DEF IsMap, n
    <3> QED BY <2>3, <2>4, <3>1 DEF IsMap
  <2>6. \A e \in Dirs : Count(r, e) = IF e = d THEN Count(m, e) - 1 ELSE Count(m, e)
    BY <1>3, <2>3, <2>4 DEF Count
  <2> QED BY <2>5, <2>6 DEF r
<1> QED BY <1>1, <1>2, <1>3

LEMMA RefCounts ==
    ASSUME NEW m, IsMap(m), NEW d \in Dirs
    PROVE  /\ IsMap(Singleton!RefPath(d, m))
           /\ \A e \in Dirs : Count(Singleton!RefPath(d, m), e) = IF e = d THEN Count(m, e) + 1 ELSE Count(m, e)
           /\ d \in DOMAIN m => Singleton!RefId(d, m) = Singleton!RefPath(d, m)
<1> DEFINE s == Singleton!WithEntry(d, m)
           n == [s[d] EXCEPT !.users = s[d].users + 1]
           r == [s EXCEPT ![d] = n]
<1>1. /\ s \in [DOMAIN s -> [users : Nat, made : BOOLEAN]] /\ DOMAIN s = DOMAIN m \cup {d}
      /\ \A e \in DOMAIN m : s[e] = m[e]
      /\ d \notin DOMAIN m => s[d].users = 0
      /\ d \in DOMAIN m => s = m
  BY DEF IsMap, Singleton!WithEntry, Singleton!WithNew
<1>2. Singleton!RefPath(d, m) = r /\ (d \in DOMAIN m => Singleton!RefId(d, m) = r)
  BY <1>1 DEF Singleton!RefPath, Singleton!RefId
<1> HIDE DEF s
<1>3. n \in [users : Nat, made : BOOLEAN] /\ n.users = s[d].users + 1 /\ n.users # 0
  BY <1>1
<1> HIDE DEF n
<1>4. /\ DOMAIN r = DOMAIN m \cup {d} /\ \A e \in DOMAIN r : r[e] = IF e = d THEN n ELSE m[e]
      /\ r \in [DOMAIN r -> [users : Nat, made : BOOLEAN]]
  BY <1>1, <1>3
<1> HIDE DEF r
<1>5. IsMap(r)
  BY <1>3, <1>4 DEF IsMap
<1>6. \A e \in Dirs : Count(r, e) = IF e = d THEN Count(m, e) + 1 ELSE Count(m, e)
  BY <1>1, <1>3, <1>4 DEF Count
<1> QED BY <1>2, <1>5, <1>6

\* The users are finitely many; one more and one less.
LEMMA UsersOf ==
    ASSUME IsFiniteSet(Watchers), NEW S, S \subseteq Watchers
    PROVE  /\ IsFiniteSet(S) /\ Cardinality(S) \in Nat /\ (S # {} => Cardinality(S) > 0)
           /\ \A w : Cardinality(S \cup {w}) = IF w \in S THEN Cardinality(S) ELSE Cardinality(S) + 1
           /\ \A w : Cardinality(S \ {w}) = IF w \in S THEN Cardinality(S) - 1 ELSE Cardinality(S)
<1>1. IsFiniteSet(S)
  BY FS_Subset
<1>2. Cardinality(S) \in Nat /\ (S # {} => Cardinality(S) > 0)
  BY <1>1, FS_CardinalityType, FS_EmptySet
<1> QED BY <1>1, <1>2, FS_AddElement, FS_RemoveElement

LEMMA CardOf ==
    ASSUME IsFiniteSet(Watchers), alive \subseteq Watchers, NEW d
    PROVE  /\ Singleton!Users(d) \subseteq Watchers /\ Card(d) \in Nat
           /\ \A w \in alive : id[w] = d => Card(d) > 0
<1>1. Singleton!Users(d) \subseteq Watchers
  BY DEF Singleton!Users
<1>2. Card(d) \in Nat /\ (Singleton!Users(d) # {} => Card(d) > 0)
  BY <1>1, UsersOf DEF Card
<1> QED BY <1>1, <1>2 DEF Singleton!Users

LEMMA CardGrows ==
    ASSUME IsFiniteSet(Watchers), alive \subseteq Watchers, NEW d, NEW w,
           Singleton!Users(d)' = Singleton!Users(d) \cup {w}
    PROVE  Card(d)' = IF w \in Singleton!Users(d) THEN Card(d) ELSE Card(d) + 1
<1>1. Card(d)' = Cardinality(Singleton!Users(d)')
  BY DEF Card
<1> QED BY <1>1, CardOf, UsersOf DEF Card

LEMMA CardShrinks ==
    ASSUME IsFiniteSet(Watchers), alive \subseteq Watchers, NEW d, NEW w,
           Singleton!Users(d)' = Singleton!Users(d) \ {w}
    PROVE  Card(d)' = IF w \in Singleton!Users(d) THEN Card(d) - 1 ELSE Card(d)
<1>1. Card(d)' = Cardinality(Singleton!Users(d)')
  BY DEF Card
<1> QED BY <1>1, CardOf, UsersOf DEF Card

\* The instance has its own copy of FiniteSets.
LEMMA SameOperators ==
    /\ Singleton!DirWatchAssumption => IsFiniteSet(Watchers) /\ NoDir \notin Dirs
    /\ \A d : Singleton!Cardinality(Singleton!Users(d)) = Card(d)
<1>1. Singleton!IsFiniteSet(Watchers) <=> IsFiniteSet(Watchers)
  BY DEF IsFiniteSet, Singleton!IsFiniteSet
<1>2. ASSUME NEW S
      PROVE  Singleton!Cardinality(S) = Cardinality(S)
  BY DEF Cardinality, Singleton!Cardinality
<1> QED BY <1>1, <1>2 DEF Card, Singleton!DirWatchAssumption

LEMMA WatchersInit ==
    ASSUME Singleton!DirWatchAssumption, Singleton!Init
    PROVE  WatchersInv
<1>1. alive = {} /\ failed = FALSE /\ id \in [Watchers -> Dirs \cup {NoDir}] /\ DOMAIN ws = {}
  BY DEF Singleton!Init
<1>2. \A d \in Dirs : Card(d) = 0
  BY <1>1, FS_EmptySet DEF Card, Singleton!Users
<1>3. IsMap(ws)
  BY <1>1 DEF IsMap, Singleton!Init
<1> QED BY <1>1, <1>2, <1>3 DEF WatchersInv, Count, Singleton!EndsAfterFailure

LEMMA OpenCounts ==
    ASSUME Singleton!DirWatchAssumption, WatchersInv, NEW w \in Watchers, NEW d \in Dirs,
           Singleton!Open(w, d), failed = FALSE
    PROVE  WatchersInv'
<1>0. IsFiniteSet(Watchers) /\ NoDir \notin Dirs
  BY SameOperators
<1>1. w \in alive /\ id[w] \in Dirs \cup {NoDir} /\ alive' = alive /\ failed' \in BOOLEAN
  BY DEF WatchersInv, Singleton!Open
<1>2. CASE failed'
  <2>1. ws' = ws /\ id' = id /\ \E e \in DOMAIN ws : ~ws[e].made
    BY <1>2 DEF Singleton!Open
  <2> QED
    BY <1>1, <2>1 DEF WatchersInv, Singleton!EndsAfterFailure, Card, Singleton!Users
<1>3. CASE ~failed'
  <2>1. ws' = Singleton!Unref(id[w], Singleton!RefPath(d, ws)) /\ id' = [id EXCEPT ![w] = d]
    BY <1>3 DEF Singleton!Open
  <2> DEFINE m == Singleton!RefPath(d, ws)
  <2>2. IsMap(m) /\ \A e \in Dirs : Count(m, e) = IF e = d THEN Count(ws, e) + 1 ELSE Count(ws, e)
    BY RefCounts DEF WatchersInv
  <2> HIDE DEF m
  <2>4. \A e \in Dirs : Count(ws, e) = Card(e) /\ Card(e) \in Nat
    BY <1>0, CardOf DEF WatchersInv
  <2>5. id[w] \in Dirs => Count(m, id[w]) > 0
    BY <1>0, <1>1, <2>2, <2>4, CardOf DEF WatchersInv
  <2>6. IsMap(ws') /\ \A e \in Dirs : Count(ws', e) = IF e = id[w] THEN Count(m, e) - 1 ELSE Count(m, e)
    BY <1>0, <1>1, <2>1, <2>2, <2>5, UnrefCounts DEF m
  <2>7. ASSUME NEW e \in Dirs
        PROVE  Count(ws', e) = Card(e)'
    <3>1. Singleton!Users(e)' = IF e = d THEN Singleton!Users(e) \cup {w} ELSE Singleton!Users(e) \ {w}
      BY <1>0, <1>1, <2>1 DEF Singleton!Users, WatchersInv
    <3>2. w \in Singleton!Users(e) <=> e = id[w]
      BY <1>1 DEF Singleton!Users
    <3>3. CASE e = d
      BY <1>0, <2>2, <2>4, <2>6, <3>1, <3>2, <3>3, CardGrows DEF WatchersInv
    <3>4. CASE e # d
      BY <1>0, <2>2, <2>4, <2>6, <3>1, <3>2, <3>4, CardShrinks DEF WatchersInv
    <3> QED BY <3>3, <3>4
  <2>8. id' \in [Watchers -> Dirs \cup {NoDir}]
    BY <2>1 DEF WatchersInv
  <2> QED BY <1>1, <1>3, <2>6, <2>7, <2>8 DEF WatchersInv, Singleton!EndsAfterFailure
<1> QED BY <1>2, <1>3

\* The other operations, which do not fail.
LEMMA LifeCounts ==
    ASSUME Singleton!DirWatchAssumption, WatchersInv, failed = FALSE, NEW w \in Watchers,
           Singleton!Construct(w) \/ Singleton!Destroy(w)
    PROVE  WatchersInv'
<1>0. IsFiniteSet(Watchers) /\ NoDir \notin Dirs
  BY SameOperators
<1>1. \A e \in Dirs : Count(ws, e) = Card(e) /\ Card(e) \in Nat
  BY <1>0, CardOf DEF WatchersInv
<1>2. CASE Singleton!Construct(w)
  <2>1. /\ ws' = ws /\ failed' = failed /\ alive' \subseteq Watchers
        /\ id' \in [Watchers -> Dirs \cup {NoDir}]
    BY <1>2 DEF Singleton!Construct, WatchersInv
  <2>2. ASSUME NEW e \in Dirs
        PROVE  Card(e)' = Card(e)
    <3>1. Singleton!Users(e)' = Singleton!Users(e)
      BY <1>0, <1>2 DEF Singleton!Construct, Singleton!Users, WatchersInv
    <3> QED BY <3>1 DEF Card
  <2> QED BY <1>1, <2>1, <2>2 DEF WatchersInv, Singleton!EndsAfterFailure
<1>3. CASE Singleton!Destroy(w)
  <2>1. /\ ws' = Singleton!Unref(id[w], ws) /\ failed' = failed /\ w \in alive
        /\ id[w] \in Dirs \cup {NoDir} /\ alive' \subseteq Watchers
        /\ id' \in [Watchers -> Dirs \cup {NoDir}]
    BY <1>3 DEF Singleton!Destroy, WatchersInv
  <2>2. /\ IsMap(ws')
        /\ \A e \in Dirs : Count(ws', e) = IF e = id[w] THEN Count(ws, e) - 1 ELSE Count(ws, e)
    <3>1. id[w] \in Dirs => Count(ws, id[w]) > 0
      BY <1>0, <1>1, <2>1, CardOf DEF WatchersInv
    <3> QED BY <1>0, <2>1, <3>1, UnrefCounts DEF WatchersInv
  <2>3. ASSUME NEW e \in Dirs
        PROVE  Count(ws', e) = Card(e)'
    <3>1. Singleton!Users(e)' = Singleton!Users(e) \ {w}
      BY <1>0, <1>3, <2>1 DEF Singleton!Destroy, Singleton!Users, WatchersInv
    <3>2. w \in Singleton!Users(e) <=> e = id[w]
      BY <2>1 DEF Singleton!Users
    <3> QED BY <1>0, <1>1, <2>2, <3>1, <3>2, CardShrinks DEF WatchersInv
  <2> QED BY <2>1, <2>2, <2>3 DEF WatchersInv, Singleton!EndsAfterFailure
<1> QED BY <1>2, <1>3

LEMMA CopyCounts ==
    ASSUME Singleton!DirWatchAssumption, WatchersInv, failed = FALSE, NEW w \in Watchers,
           NEW v \in Watchers, Singleton!CopyConstruct(w, v)
    PROVE  WatchersInv'
<1>0. IsFiniteSet(Watchers) /\ NoDir \notin Dirs
  BY SameOperators
<1>1. \A e \in Dirs : Count(ws, e) = Card(e) /\ Card(e) \in Nat
  BY <1>0, CardOf DEF WatchersInv
<1>2. /\ w \notin alive /\ v \in alive /\ w # v /\ id[v] \in Dirs \cup {NoDir}
      /\ alive' = alive \cup {w} /\ id' = [id EXCEPT ![w] = id[v]]
      /\ id' \in [Watchers -> Dirs \cup {NoDir}] /\ alive' \subseteq Watchers
  BY DEF Singleton!CopyConstruct, WatchersInv
<1>3. id[v] \in Dirs => id[v] \in DOMAIN ws
  BY <1>0, <1>1, <1>2, CardOf DEF WatchersInv, Count
<1>4. failed' = FALSE
  BY <1>2, <1>3 DEF Singleton!CopyConstruct
<1>5. /\ IsMap(ws')
      /\ \A e \in Dirs : Count(ws', e) = IF e = id[v] THEN Count(ws, e) + 1 ELSE Count(ws, e)
  <2>1. CASE id[v] = NoDir
    <3>1. ws' = ws
      BY <2>1 DEF Singleton!CopyConstruct
    <3> QED BY <1>0, <2>1, <3>1 DEF WatchersInv
  <2>2. CASE id[v] # NoDir
    <3>1. ws' = Singleton!RefId(id[v], ws) /\ id[v] \in Dirs /\ id[v] \in DOMAIN ws
      BY <1>2, <1>3, <1>4, <2>2 DEF Singleton!CopyConstruct
    <3> QED BY <3>1, RefCounts DEF WatchersInv
  <2> QED BY <2>1, <2>2
<1>6. ASSUME NEW e \in Dirs
      PROVE  Count(ws', e) = Card(e)'
  <2>1. w \notin Singleton!Users(e)
    BY <1>2 DEF Singleton!Users
  <2>2. CASE e = id[v]
    <3>1. Singleton!Users(e)' = Singleton!Users(e) \cup {w}
      BY <1>2, <2>2 DEF Singleton!Users, WatchersInv
    <3> QED BY <1>0, <1>1, <1>5, <2>1, <2>2, <3>1, CardGrows DEF WatchersInv
  <2>3. CASE e # id[v]
    <3>1. Singleton!Users(e)' = Singleton!Users(e)
      BY <1>2, <2>3 DEF Singleton!Users, WatchersInv
    <3>2. Card(e)' = Card(e)
      BY <3>1 DEF Card
    <3> QED BY <1>1, <1>5, <2>3, <3>2
  <2> QED BY <2>2, <2>3
<1> QED BY <1>2, <1>4, <1>5, <1>6 DEF WatchersInv, Singleton!EndsAfterFailure

\* The watcher v, which is moved from, gives its place among the users to w.
LEMMA MoveCounts ==
    ASSUME Singleton!DirWatchAssumption, WatchersInv, failed = FALSE, NEW w \in Watchers,
           NEW v \in Watchers, Singleton!MoveAssign(w, v)
    PROVE  WatchersInv'
<1>0. IsFiniteSet(Watchers) /\ NoDir \notin Dirs
  BY SameOperators
<1>1. \A e \in Dirs : Count(ws, e) = Card(e) /\ Card(e) \in Nat
  BY <1>0, CardOf DEF WatchersInv
<1>2. /\ w \in alive /\ v \in alive /\ w # v /\ {id[w], id[v]} \subseteq Dirs \cup {NoDir}
      /\ alive' = alive /\ failed' = failed /\ ws' = Singleton!Unref(id[w], ws)
      /\ id' \in [Watchers -> Dirs \cup {NoDir}]
      /\ \A x \in Watchers : id'[x] = IF x = v THEN NoDir ELSE IF x = w THEN id[v] ELSE id[x]
  BY DEF Singleton!MoveAssign, WatchersInv
<1>3. /\ IsMap(ws')
      /\ \A e \in Dirs : Count(ws', e) = IF e = id[w] THEN Count(ws, e) - 1 ELSE Count(ws, e)
  <2>1. id[w] \in Dirs => Count(ws, id[w]) > 0
    BY <1>0, <1>1, <1>2, CardOf DEF WatchersInv
  <2> QED BY <1>0, <1>2, <2>1, UnrefCounts DEF WatchersInv
<1>4. ASSUME NEW e \in Dirs
      PROVE  Count(ws', e) = Card(e)'
  <2> DEFINE rest == Singleton!Users(e) \ {w}
  <2>1. /\ Singleton!Users(e) \subseteq Watchers /\ rest \subseteq Watchers
        /\ w \in Singleton!Users(e) <=> e = id[w]
    BY <1>2, CardOf DEF Singleton!Users, WatchersInv
  <2>2. Count(ws', e) = Cardinality(rest)
    BY <1>0, <1>1, <1>3, <2>1, UsersOf DEF Card
  <2>3. CASE e = id[v]
    <3>1. Singleton!Users(e)' = (rest \ {v}) \cup {w} /\ w \notin rest \ {v} /\ v \in rest
      BY <1>0, <1>2, <2>3 DEF Singleton!Users, WatchersInv
    <3> HIDE DEF rest
    <3>2. Cardinality(rest \ {v}) = Cardinality(rest) - 1 /\ Cardinality(rest) \in Nat
      BY <1>0, <2>1, <3>1, UsersOf
    <3>3. Cardinality((rest \ {v}) \cup {w}) = Cardinality(rest \ {v}) + 1
      <4>1. rest \ {v} \subseteq Watchers
        BY <2>1
      <4> QED BY <1>0, <3>1, <4>1, UsersOf
    <3> QED BY <2>2, <3>1, <3>2, <3>3 DEF Card
  <2>4. CASE e # id[v]
    <3>1. Singleton!Users(e)' = rest
      BY <1>0, <1>2, <2>4 DEF Singleton!Users, WatchersInv
    <3> HIDE DEF rest
    <3> QED BY <2>2, <3>1 DEF Card
  <2> QED BY <2>3, <2>4
<1> QED BY <1>2, <1>3, <1>4 DEF WatchersInv, Singleton!EndsAfterFailure

LEMMA WatchersKeep ==
    ASSUME Singleton!DirWatchAssumption, WatchersInv, Singleton!Next
    PROVE  WatchersInv'
<1>1. failed = FALSE
  BY DEF WatchersInv, Singleton!Next
<1>2. ASSUME NEW d \in Dirs, Singleton!OpenFails(d)
      PROVE  WatchersInv'
  <2>1. /\ d \notin DOMAIN ws /\ UNCHANGED <<alive, id, failed>>
        /\ ws' = Singleton!WithNew(d, ws, [users |-> 0, made |-> FALSE])
    BY <1>2 DEF Singleton!OpenFails
  <2>2. IsMap(ws') /\ \A e \in Dirs : Count(ws', e) = Count(ws, e)
    BY <2>1 DEF WatchersInv, IsMap, Count, Singleton!WithNew
  <2>3. \A e \in Dirs : Card(e)' = Card(e)
    BY <2>1 DEF Card, Singleton!Users
  <2> QED BY <1>1, <2>1, <2>2, <2>3 DEF WatchersInv, Singleton!EndsAfterFailure
<1> QED
  BY <1>1, <1>2, OpenCounts, LifeCounts, CopyCounts, MoveCounts DEF Singleton!Next

LEMMA WatchersSafe ==
    ASSUME Singleton!DirWatchAssumption, WatchersInv
    PROVE  Singleton!TypeOK /\ Singleton!UsersCounted /\ Singleton!EndsAfterFailure
<1>0. IsFiniteSet(Watchers) /\ NoDir \notin Dirs /\ Singleton!Cardinality(Watchers) = Cardinality(Watchers)
  BY SameOperators DEF Cardinality, Singleton!Cardinality
<1>1. \A e \in Dirs : Count(ws, e) = Card(e) /\ Card(e) \in Nat
  BY <1>0, CardOf DEF WatchersInv
<1>2. \A d \in DOMAIN ws : ws[d].users = Card(d) /\ d \in Dirs
  BY <1>1 DEF Count, WatchersInv, IsMap
<1>3. Singleton!UsersCounted
  <2>1. \A w \in alive : id[w] # NoDir => id[w] \in DOMAIN ws
    BY <1>0, <1>1, CardOf DEF WatchersInv, Count
  <2>2. \A d \in DOMAIN ws : ws[d].users = Singleton!Cardinality(Singleton!Users(d))
    BY <1>2, SameOperators
  <2> QED BY <2>1, <2>2 DEF Singleton!UsersCounted, WatchersInv, IsMap
<1>4. \A d \in DOMAIN ws : ws[d] \in Singleton!Entry
  <2>1. ASSUME NEW d \in DOMAIN ws
        PROVE  Card(d) \in 0..Cardinality(Watchers)
    BY <1>0, CardOf, UsersOf, FS_Subset, FS_CardinalityType DEF Card, WatchersInv
  <2>2. ASSUME NEW d \in DOMAIN ws
        PROVE  ws[d] \in [users : Nat, made : BOOLEAN]
    BY DEF WatchersInv, IsMap
  <2> QED BY <1>0, <1>2, <2>1, <2>2 DEF Singleton!Entry
<1>5. Singleton!TypeOK
  BY <1>4 DEF Singleton!TypeOK, Singleton!Range, WatchersInv, IsMap
<1> QED BY <1>3, <1>5 DEF WatchersInv
-----------------------------------------------------------------------------
(* The buffer of an output file.                                           *)

\* What a part of a sequence is, and one written over a part of another.
LEMMA PartOf ==
    ASSUME NEW s \in Seq(Nat), NEW m \in Nat \ {0}, NEW n \in Nat, m <= n + 1, n <= Len(s)
    PROVE  /\ SubSeq(s, m, n) \in Seq(Nat) /\ Len(SubSeq(s, m, n)) = n - m + 1
           /\ \A i \in 1..(n - m + 1) : SubSeq(s, m, n)[i] = s[m + i - 1]
<1>1. \A i \in m..n : s[i] \in Nat
  BY ElementOfSeq
<1> QED BY <1>1, SubSeqProperties

LEMMA OverwriteIs ==
    ASSUME NEW s \in Seq(Nat), NEW d \in Seq(Nat), NEW p \in 0..Len(s)
    PROVE  /\ Out!Overwrite(s, p, d) \in Seq(Nat)
           /\ Len(Out!Overwrite(s, p, d)) = IF p + Len(d) > Len(s) THEN p + Len(d) ELSE Len(s)
           /\ \A i \in 1..Len(Out!Overwrite(s, p, d)) :
                 Out!Overwrite(s, p, d)[i] = IF p < i /\ i <= p + Len(d) THEN d[i - p] ELSE s[i]
<1> DEFINE k == Len(s)
           e == p + Len(d)
           n == IF e > k THEN 0 ELSE k - e
           a == SubSeq(s, 1, p)
           b == SubSeq(s, e + 1, k)
           r == Out!Overwrite(s, p, d)
<1>1. Len(s) \in Nat /\ Len(d) \in Nat /\ p \in Nat /\ p <= Len(s)
  BY LenProperties
<1>2. k \in Nat /\ e \in Nat /\ p \in Nat /\ p <= k /\ p <= e
  BY <1>1
<1>0. k = Len(s) /\ e = p + Len(d)
  OBVIOUS
<1>3. r = a \o d \o b
  BY DEF Out!Overwrite
<1> HIDE DEF k, e, r
<1>4. n \in Nat /\ (e > k => n = 0) /\ (e <= k => e + n = k)
  BY <1>2
<1> HIDE DEF n
<1>5. a \in Seq(Nat) /\ Len(a) = p /\ \A i \in 1..p : a[i] = s[i]
  BY <1>1, <1>2, <1>0, PartOf
<1>6. b \in Seq(Nat) /\ Len(b) = n /\ \A i \in 1..n : b[i] = s[e + i]
  <2>1. CASE e > k
    <3>1. b = <<>>
      BY <1>2, <2>1, SubSeqEmpty
    <3>2. n = 0
      BY <1>4, <2>1
    <3>3. b \in Seq(Nat) /\ Len(b) = 0
      BY <3>1, EmptySeq
    <3>4. \A i \in 1..n : FALSE
      BY <3>2
    <3> QED BY <3>2, <3>3, <3>4
  <2>2. CASE e <= k
    <3>1. e + 1 \in Nat \ {0} /\ e + 1 <= k + 1 /\ k - (e + 1) + 1 = n
      BY <1>2, <1>4, <2>2
    <3>2. b \in Seq(Nat) /\ Len(b) = n /\ \A i \in 1..n : b[i] = s[e + 1 + i - 1]
      <4>1. \A i \in 1..Len(s) : s[i] \in Nat
        BY ElementOfSeq
      <4>2. \A i \in (e + 1)..k : s[i] \in Nat
        <5>1. \A i \in 1..k : s[i] \in Nat
          BY <1>0, <4>1
        <5> QED BY <1>2, <5>1
      <4> QED BY <1>2, <3>1, <4>2, SubSeqProperties
    <3>3. \A i \in 1..n : e + 1 + i - 1 = e + i
      BY <1>2, <1>4
    <3> QED BY <3>2, <3>3
  <2> QED BY <1>2, <2>1, <2>2
<1> HIDE DEF a, b
<1>7. /\ a \o d \in Seq(Nat) /\ Len(a \o d) = e
      /\ \A i \in 1..e : (a \o d)[i] = IF i <= p THEN a[i] ELSE d[i - p]
  BY <1>0, <1>5, ConcatProperties
<1>8. /\ r \in Seq(Nat) /\ Len(r) = e + n
      /\ \A i \in 1..(e + n) : r[i] = IF i <= e THEN (a \o d)[i] ELSE b[i - e]
  <2> DEFINE ad == a \o d
  <2>1. ad \in Seq(Nat) /\ Len(ad) = e /\ r = ad \o b
    BY <1>3, <1>7
  <2> HIDE DEF ad
  <2>2. /\ ad \o b \in Seq(Nat) /\ Len(ad \o b) = Len(ad) + Len(b)
        /\ \A i \in 1..(Len(ad) + Len(b)) : (ad \o b)[i] = IF i <= Len(ad) THEN ad[i] ELSE b[i - Len(ad)]
    BY <1>6, <2>1, ConcatProperties
  <2>3. \A i \in 1..(e + n) : r[i] = IF i <= e THEN ad[i] ELSE b[i - e]
    BY <1>6, <2>1, <2>2
  <2> QED BY <1>6, <2>1, <2>2, <2>3 DEF ad
<1>9. ASSUME NEW i \in 1..(e + n)
      PROVE  r[i] = IF p < i /\ i <= e THEN d[i - p] ELSE s[i]
  <2>1. CASE i <= e
    <3>1. i \in 1..e /\ (i <= p => i \in 1..p) /\ (p < i <=> ~(i <= p))
      BY <1>2, <1>4, <2>1
    <3>2. r[i] = IF i <= p THEN a[i] ELSE d[i - p]
      BY <1>7, <1>8, <2>1, <3>1
    <3> QED BY <1>5, <2>1, <3>1, <3>2
  <2>2. CASE ~(i <= e)
    <3>1. i - e \in 1..n /\ e + (i - e) = i
      BY <1>2, <1>4, <2>2
    <3>2. b[i - e] = s[i]
      BY <1>6, <3>1
    <3> QED BY <1>8, <2>2, <3>2
  <2> QED BY <2>1, <2>2
<1>10. e + n = IF e > k THEN e ELSE k
  BY <1>2, <1>4
<1> QED BY <1>8, <1>9, <1>10 DEF r, e, k

LEMMA OverwriteNothing ==
    ASSUME NEW s \in Seq(Nat), NEW p \in 0..Len(s)
    PROVE  Out!Overwrite(s, p, <<>>) = s
<1> DEFINE e == <<>>
           r == Out!Overwrite(s, p, e)
<1>1. e \in Seq(Nat) /\ Len(e) = 0 /\ Len(s) \in Nat /\ p \in Nat /\ p <= Len(s)
  BY LenProperties
<1> HIDE DEF e
<1>2. /\ r \in Seq(Nat) /\ Len(r) = IF p + Len(e) > Len(s) THEN p + Len(e) ELSE Len(s)
      /\ \A i \in 1..Len(r) : r[i] = IF p < i /\ i <= p + Len(e) THEN e[i - p] ELSE s[i]
  BY <1>1, OverwriteIs
<1> HIDE DEF r
<1>3. p + Len(e) = p /\ ~(p > Len(s)) /\ \A i \in Nat : ~(p < i /\ i <= p)
  BY <1>1
<1>4. Len(r) = Len(s) /\ \A i \in 1..Len(r) : r[i] = s[i]
  BY <1>1, <1>2, <1>3
<1>5. r = s
  BY <1>2, <1>4, SeqEqual
<1> QED BY <1>5 DEF r, e

\* Two parts, one behind the other, are written like the whole.
LEMMA OverwriteTwice ==
    ASSUME NEW s \in Seq(Nat), NEW c \in Seq(Nat), NEW d \in Seq(Nat), NEW p \in 0..Len(s)
    PROVE  Out!Overwrite(Out!Overwrite(s, p, c), p + Len(c), d) = Out!Overwrite(s, p, c \o d)
<1> DEFINE r == Out!Overwrite(s, p, c)
           t == Out!Overwrite(r, p + Len(c), d)
           u == Out!Overwrite(s, p, c \o d)
<1>1. Len(s) \in Nat /\ Len(c) \in Nat /\ Len(d) \in Nat /\ p \in Nat
  OBVIOUS
<1>2. /\ c \o d \in Seq(Nat) /\ Len(c \o d) = Len(c) + Len(d)
      /\ \A i \in 1..(Len(c) + Len(d)) : (c \o d)[i] = IF i <= Len(c) THEN c[i] ELSE d[i - Len(c)]
  BY ConcatProperties
<1>3. /\ r \in Seq(Nat) /\ Len(r) = IF p + Len(c) > Len(s) THEN p + Len(c) ELSE Len(s)
      /\ \A i \in 1..Len(r) : r[i] = IF p < i /\ i <= p + Len(c) THEN c[i - p] ELSE s[i]
  BY OverwriteIs
<1>4. p + Len(c) \in 0..Len(r)
  BY <1>1, <1>3
<1> HIDE DEF r
<1>5. /\ t \in Seq(Nat) /\ Len(t) = IF p + Len(c) + Len(d) > Len(r) THEN p + Len(c) + Len(d) ELSE Len(r)
      /\ \A i \in 1..Len(t) :
            t[i] = IF p + Len(c) < i /\ i <= p + Len(c) + Len(d) THEN d[i - (p + Len(c))] ELSE r[i]
  BY <1>3, <1>4, OverwriteIs
<1>6. /\ u \in Seq(Nat)
      /\ Len(u) = IF p + (Len(c) + Len(d)) > Len(s) THEN p + (Len(c) + Len(d)) ELSE Len(s)
      /\ \A i \in 1..Len(u) : u[i] = IF p < i /\ i <= p + (Len(c) + Len(d)) THEN (c \o d)[i - p] ELSE s[i]
  <2> DEFINE cd == c \o d
  <2>1. cd \in Seq(Nat) /\ Len(cd) = Len(c) + Len(d)
    BY <1>2
  <2> HIDE DEF cd
  <2>2. /\ Out!Overwrite(s, p, cd) \in Seq(Nat)
        /\ Len(Out!Overwrite(s, p, cd)) = IF p + Len(cd) > Len(s) THEN p + Len(cd) ELSE Len(s)
        /\ \A i \in 1..Len(Out!Overwrite(s, p, cd)) :
              Out!Overwrite(s, p, cd)[i] = IF p < i /\ i <= p + Len(cd) THEN cd[i - p] ELSE s[i]
    BY <2>1, OverwriteIs
  <2> QED BY <2>1, <2>2 DEF cd
<1> HIDE DEF t, u
<1>7. Len(t) = Len(u) /\ Len(t) \in Nat
  <2>1. /\ Len(r) = IF p + Len(c) > Len(s) THEN p + Len(c) ELSE Len(s)
        /\ Len(t) = IF p + Len(c) + Len(d) > Len(r) THEN p + Len(c) + Len(d) ELSE Len(r)
        /\ Len(u) = IF p + (Len(c) + Len(d)) > Len(s) THEN p + (Len(c) + Len(d)) ELSE Len(s)
    BY <1>3, <1>5, <1>6, Zenon
  <2>2. PICK a, k, l : a = Len(s) /\ k = Len(c) /\ l = Len(d)
    BY Zenon
  <2>3. a \in Nat /\ k \in Nat /\ l \in Nat /\ p \in Nat
    BY <1>1, <2>2, Zenon
  <2>4. /\ Len(r) = IF p + k > a THEN p + k ELSE a
        /\ Len(t) = IF p + k + l > Len(r) THEN p + k + l ELSE Len(r)
        /\ Len(u) = IF p + (k + l) > a THEN p + (k + l) ELSE a
    BY <2>1, <2>2, Zenon
  <2> QED BY ONLY <2>3, <2>4
<1>8. ASSUME NEW i \in 1..Len(t)
      PROVE  t[i] = u[i]
  <2>1. CASE p + Len(c) < i /\ i <= p + Len(c) + Len(d)
    <3>1. /\ i - p \in 1..(Len(c) + Len(d)) /\ ~(i - p <= Len(c))
          /\ (i - p) - Len(c) = i - (p + Len(c)) /\ p < i /\ i <= p + (Len(c) + Len(d))
      BY <1>1, <1>7, <2>1
    <3>2. t[i] = d[i - (p + Len(c))]
      BY <1>5, <2>1
    <3>3. u[i] = (c \o d)[i - p]
      BY <1>6, <1>7, <3>1
    <3>4. (c \o d)[i - p] = d[(i - p) - Len(c)]
      BY <1>2, <3>1
    <3> QED BY <3>1, <3>2, <3>3, <3>4
  <2>2. CASE p < i /\ i <= p + Len(c)
    <3>1. /\ i - p \in 1..(Len(c) + Len(d)) /\ i - p <= Len(c) /\ i \in 1..Len(r)
          /\ i <= p + (Len(c) + Len(d)) /\ ~(p + Len(c) < i)
      BY <1>1, <1>3, <1>7, <2>2
    <3>2. t[i] = c[i - p]
      BY <1>3, <1>5, <2>2, <3>1
    <3>3. u[i] = (c \o d)[i - p]
      BY <1>6, <1>7, <2>2, <3>1
    <3> QED BY <1>2, <3>1, <3>2, <3>3
  <2>3. CASE ~(p < i /\ i <= p + Len(c) + Len(d))
    <3>1. i \in 1..Len(r) /\ i \in 1..Len(u)
      BY <1>1, <1>3, <1>5, <1>7, <2>3, SMTT(30)
    <3>2. t[i] = s[i]
      <4>1. t[i] = r[i]
        BY <1>1, <1>5, <1>7, <2>3
      <4>2. ~(p < i /\ i <= p + Len(c))
        BY <1>1, <1>7, <2>3
      <4> QED BY <1>3, <3>1, <4>1, <4>2
    <3>3. u[i] = s[i]
      BY <1>1, <1>6, <2>3, <3>1
    <3> QED BY <3>2, <3>3
  <2> QED BY <1>1, <1>7, <2>1, <2>2, <2>3
<1>9. t = u
  BY <1>5, <1>6, <1>7, <1>8, SeqEqual
<1> QED BY <1>9 DEF r, t, u

\* A part in two, and the front of a sequence with a part written at p.
LEMMA PartInTwo ==
    ASSUME NEW s \in Seq(Nat), NEW m \in Nat, NEW n \in Nat, n <= m, m <= Len(s)
    PROVE  /\ SubSeq(SubSeq(s, 1, m), 1, n) = SubSeq(s, 1, n)
           /\ SubSeq(s, 1, n) \o SubSeq(s, n + 1, m) = SubSeq(s, 1, m)
<1> DEFINE a == SubSeq(s, 1, m)
           b == SubSeq(s, 1, n)
           c == SubSeq(s, n + 1, m)
           d == SubSeq(a, 1, n)
<1>1. a \in Seq(Nat) /\ Len(a) = m /\ \A i \in 1..m : a[i] = s[i]
  BY PartOf
<1>2. b \in Seq(Nat) /\ Len(b) = n /\ \A i \in 1..n : b[i] = s[i]
  <2>1. Len(s) \in Nat /\ n <= Len(s)
    BY LenProperties
  <2> QED BY <2>1, PartOf
<1>3. c \in Seq(Nat) /\ Len(c) = m - n /\ \A i \in 1..(m - n) : c[i] = s[n + i]
  <2>1. n + 1 \in Nat \ {0} /\ n + 1 <= m + 1 /\ m - (n + 1) + 1 = m - n
    OBVIOUS
  <2>2. c \in Seq(Nat) /\ Len(c) = m - n /\ \A i \in 1..(m - n) : c[i] = s[n + 1 + i - 1]
    BY <2>1, PartOf
  <2>3. \A i \in 1..(m - n) : n + 1 + i - 1 = n + i
    OBVIOUS
  <2> QED BY <2>2, <2>3
<1> HIDE DEF a, b, c
<1>4. d \in Seq(Nat) /\ Len(d) = n /\ \A i \in 1..n : d[i] = a[i]
  BY <1>1, PartOf
<1> HIDE DEF d
<1>5. d = b
  <2>1. \A i \in 1..n : i \in 1..m
    OBVIOUS
  <2>2. \A i \in 1..n : d[i] = b[i]
    BY <1>1, <1>2, <1>4, <2>1
  <2> QED BY <1>2, <1>4, <2>2, SeqEqual
<1> DEFINE l == m - n
<1>7. l = m - n /\ l \in Nat /\ n + l = m
  OBVIOUS
<1> HIDE DEF l
<1>10. b \in Seq(Nat) /\ Len(b) = n /\ c \in Seq(Nat) /\ Len(c) = l /\ l \in Nat
  BY <1>2, <1>3, <1>7
<1>6. /\ b \o c \in Seq(Nat) /\ Len(b \o c) = n + l
      /\ \A i \in 1..(n + l) : (b \o c)[i] = IF i <= n THEN b[i] ELSE c[i - n]
  <2>1. /\ b \o c \in Seq(Nat) /\ Len(b \o c) = Len(b) + Len(c)
        /\ \A i \in 1..(Len(b) + Len(c)) : (b \o c)[i] = IF i <= Len(b) THEN b[i] ELSE c[i - Len(b)]
    BY <1>10, ConcatProperties
  <2>2. \A i \in 1..(n + l) : (b \o c)[i] = IF i <= n THEN b[i] ELSE c[i - n]
    BY <1>10, <2>1
  <2> QED BY <1>10, <2>1, <2>2
<1>8. ASSUME NEW i \in 1..m
      PROVE  (b \o c)[i] = a[i]
  <2>1. CASE i <= n
    <3>1. i \in 1..n /\ i \in 1..(n + l)
      BY <1>7, <2>1
    <3> QED BY <1>1, <1>2, <1>6, <2>1, <3>1
  <2>2. CASE ~(i <= n)
    <3>1. i - n \in 1..(m - n) /\ n + (i - n) = i /\ i \in 1..(n + l)
      BY <1>7, <2>2
    <3>2. c[i - n] = s[i]
      BY <1>3, <3>1
    <3> QED BY <1>1, <1>6, <2>2, <3>1, <3>2
  <2> QED BY <2>1, <2>2
<1>9. b \o c = a
  BY <1>1, <1>6, <1>7, <1>8, SeqEqual
<1> QED BY <1>5, <1>9 DEF a, b, c, d

LEMMA FrontOf ==
    ASSUME NEW s \in Seq(Nat), NEW d \in Seq(Nat), NEW p \in Nat, p + Len(d) <= Len(s)
    PROVE  /\ Out!Overwrite(s, p, d) \in Seq(Nat) /\ Len(Out!Overwrite(s, p, d)) = Len(s)
           /\ SubSeq(Out!Overwrite(s, p, d), 1, p + Len(d)) = SubSeq(s, 1, p) \o d
<1> DEFINE l == Len(d)
           r == Out!Overwrite(s, p, d)
           f == SubSeq(r, 1, p + l)
           a == SubSeq(s, 1, p)
<1>1. Len(s) \in Nat /\ l \in Nat /\ p <= Len(s) /\ p \in 0..Len(s) /\ p + l <= Len(s)
  BY LenProperties
<1>2. ~(p + l > Len(s)) /\ p + l \in Nat
  BY <1>1
<1>3. /\ r \in Seq(Nat) /\ Len(r) = IF p + l > Len(s) THEN p + l ELSE Len(s)
      /\ \A i \in 1..Len(r) : r[i] = IF p < i /\ i <= p + l THEN d[i - p] ELSE s[i]
  BY <1>1, OverwriteIs
<1>4. a \in Seq(Nat) /\ Len(a) = p /\ \A i \in 1..p : a[i] = s[i]
  BY <1>1, PartOf
<1>5. l = Len(d)
  OBVIOUS
<1> HIDE DEF r, a, l
<1>6. Len(r) = Len(s)
  BY <1>2, <1>3
<1>7. f \in Seq(Nat) /\ Len(f) = p + l /\ \A i \in 1..(p + l) : f[i] = r[i]
  <2>1. p + l <= Len(r)
    BY <1>1, <1>6
  <2> QED BY <1>2, <1>3, <2>1, PartOf, SMTT(30)
<1> HIDE DEF f
<1>8. /\ a \o d \in Seq(Nat) /\ Len(a \o d) = p + l
      /\ \A i \in 1..(p + l) : (a \o d)[i] = IF i <= p THEN a[i] ELSE d[i - p]
  BY <1>4, <1>5, ConcatProperties
<1>9. ASSUME NEW i \in 1..(p + l)
      PROVE  f[i] = (a \o d)[i]
  <2>1. i \in 1..Len(s) /\ (i <= p => i \in 1..p) /\ (p < i <=> ~(i <= p)) /\ i <= p + l
    BY <1>1
  <2>2. f[i] = IF p < i /\ i <= p + l THEN d[i - p] ELSE s[i]
    BY <1>3, <1>6, <1>7, <2>1
  <2>3. f[i] = IF i <= p THEN s[i] ELSE d[i - p]
    BY <2>1, <2>2
  <2>4. (a \o d)[i] = IF i <= p THEN s[i] ELSE d[i - p]
    BY <1>4, <1>8, <2>1
  <2> QED BY <2>3, <2>4
<1>10. f = a \o d
  BY <1>7, <1>8, <1>9, SeqEqual
<1> QED BY <1>3, <1>6, <1>10 DEF f, a, r, l

LEMMA OverwriteLen ==
    ASSUME NEW s \in Seq(Nat), NEW d \in Seq(Nat), NEW p \in 0..Len(s)
    PROVE  /\ Out!Overwrite(s, p, d) \in Seq(Nat) /\ Len(Out!Overwrite(s, p, d)) \in Nat
           /\ Len(s) <= Len(Out!Overwrite(s, p, d)) /\ p + Len(d) <= Len(Out!Overwrite(s, p, d))
           /\ Len(Out!Overwrite(s, p, d)) <= Len(s) + Len(d)
<1>1. Len(s) \in Nat /\ Len(d) \in Nat /\ p \in Nat /\ p <= Len(s)
  BY LenProperties
<1> DEFINE r == Out!Overwrite(s, p, d)
<1>2. r \in Seq(Nat) /\ Len(r) = IF p + Len(d) > Len(s) THEN p + Len(d) ELSE Len(s)
  BY OverwriteIs
<1> HIDE DEF r
<1>3. Len(r) \in Nat /\ Len(s) <= Len(r) /\ p + Len(d) <= Len(r) /\ Len(r) <= Len(s) + Len(d)
  BY <1>1, <1>2
<1> QED BY <1>2, <1>3 DEF r

\* The bytes that are in use are of the file, of the buffer and of the caller,
\* and no more than were given.
OutTypes ==
    /\ file \in Seq(Nat) /\ intended \in Seq(Nat) /\ todo \in Seq(Nat) /\ buff \in Seq(Nat)
    /\ Len(buff) = OutBS /\ pos \in 0..OutBS /\ fpos \in 0..Len(file) /\ wrote \in Nat
    /\ next \in Nat /\ next - 1 <= MaxBytes
    /\ Len(file) <= next - 1 /\ Len(intended) + Len(todo) <= next - 1
    /\ pc \in {"idle", "flush", "store", "failed"}

\* What a flush, a seek and a store rely on.
OutPhases ==
    /\ pc = "idle" => todo = <<>> /\ to = -1
    /\ pc \in {"flush", "store"} => to \in (-1)..Len(intended) /\ (to # -1 => todo = <<>>)
    /\ pc = "store" => /\ todo = <<>> \/ Len(todo) >= OutBS => pos = 0
                       /\ Len(todo) < OutBS => pos + Len(todo) <= OutBS
    /\ pc = "failed" => /\ todo = <<>> /\ to = -1 /\ wrote <= fpos
                        /\ pos > 0 => wrote <= pos

OutInv ==
    /\ OutTypes /\ OutPhases /\ Out!RestKept
    /\ pc # "failed" => Out!Overwrite(file, fpos, Out!Pending) = intended

LEMMA OutLens ==
    ASSUME Out!OutAssumption, OutTypes
    PROVE  /\ Len(file) \in Nat /\ Len(intended) \in Nat /\ Len(todo) \in Nat
           /\ OutBS \in Nat /\ pos \in Nat /\ pos <= OutBS /\ fpos \in Nat /\ fpos <= Len(file)
           /\ MaxLen \in Nat /\ MaxBytes \in Nat
           /\ Out!Pending \in Seq(Nat) /\ Len(Out!Pending) = pos
<1>1. Len(file) \in Nat /\ Len(intended) \in Nat /\ Len(todo) \in Nat /\ OutBS \in Nat
  BY LenProperties DEF OutTypes, Out!OutAssumption
<1>2. pos \in Nat /\ pos <= OutBS /\ fpos \in Nat /\ fpos <= Len(file)
  BY <1>1 DEF OutTypes
<1>3. Out!Pending \in Seq(Nat) /\ Len(Out!Pending) = pos
  BY <1>1, <1>2, PartOf DEF OutTypes, Out!Pending
<1> QED BY <1>1, <1>2, <1>3 DEF Out!OutAssumption

LEMMA NoneBuffered ==
    ASSUME NEW b
    PROVE  SubSeq(b, 1, 0) = <<>>
BY SubSeqEmpty

LEMMA OutInit ==
    ASSUME Out!OutAssumption, Out!Init
    PROVE  OutInv
<1>1. OutBS \in Nat /\ MaxBytes \in Nat
  BY DEF Out!OutAssumption
<1>2. <<>> \in Seq(Nat) /\ Len(<<>>) = 0
  BY EmptySeq
<1>3. /\ file = <<>> /\ fpos = 0 /\ pos = 0 /\ pc = "idle" /\ todo = <<>> /\ to = -1 /\ wrote = 0
      /\ next = 1 /\ intended = <<>>
  BY DEF Out!Init
<1>4. buff \in Seq(Nat) /\ Len(buff) = OutBS
  BY <1>1 DEF Out!Init
<1>5. OutTypes
  BY <1>1, <1>2, <1>3, <1>4 DEF OutTypes
<1>6. Out!Overwrite(file, fpos, Out!Pending) = intended
  <2>1. Out!Pending = <<>>
    BY <1>3, NoneBuffered DEF Out!Pending
  <2>2. 0 \in 0..Len(<<>>)
    BY <1>2
  <2>3. Out!Overwrite(<<>>, 0, <<>>) = <<>>
    BY <1>2, <2>2, OverwriteNothing
  <2> QED BY <1>3, <2>1, <2>3
<1> QED BY <1>3, <1>5, <1>6 DEF OutInv, OutPhases, Out!RestKept

\* A flush writes the front of what is pending; the file with the rest behind
\* it is complete.
LEMMA FlushKeeps ==
    ASSUME Out!OutAssumption, OutInv, Out!FlushBuffer
    PROVE  OutInv'
<1>1. PICK n \in Out!Accepted(pos) :
         /\ Out!WriteFile(Out!Pending, n)
         /\ IF n = pos
            THEN pos' = 0 /\ pc' = "store" /\ UNCHANGED <<buff, todo, to, wrote>>
            ELSE /\ buff' = Out!Overwrite(buff, 0, SubSeq(buff, n + 1, pos))
                 /\ todo' = <<>> /\ to' = -1 /\ wrote' = n /\ pc' = "failed"
                 /\ UNCHANGED pos
  BY DEF Out!FlushBuffer
<1>2. pc = "flush" /\ next' = next /\ intended' = intended /\ OutTypes
  BY DEF Out!FlushBuffer, OutInv
<1>3. n \in Nat /\ n <= pos
  BY <1>2, OutLens DEF Out!Accepted
<1> DEFINE front == SubSeq(buff, 1, n)
           rest == SubSeq(buff, n + 1, pos)
<1>4. /\ front \in Seq(Nat) /\ Len(front) = n /\ rest \in Seq(Nat) /\ Len(rest) = pos - n
      /\ front \o rest = Out!Pending /\ SubSeq(Out!Pending, 1, n) = front
  <2>1. buff \in Seq(Nat) /\ pos <= Len(buff) /\ pos \in Nat
    BY <1>2, OutLens DEF OutTypes
  <2>2. Len(buff) \in Nat /\ n <= Len(buff) /\ n + 1 \in Nat \ {0} /\ n + 1 <= pos + 1 /\ pos - (n + 1) + 1 = pos - n
    BY <1>3, <2>1, LenProperties
  <2>3. front \in Seq(Nat) /\ Len(front) = n - 1 + 1
    BY <1>3, <2>1, <2>2, PartOf
  <2>4. rest \in Seq(Nat) /\ Len(rest) = pos - n
    BY <2>1, <2>2, PartOf
  <2>5. front \o rest = Out!Pending /\ SubSeq(Out!Pending, 1, n) = front
    BY <1>3, <2>1, PartInTwo DEF Out!Pending
  <2> QED BY <1>3, <2>3, <2>4, <2>5
<1> HIDE DEF front, rest
<1>5. file' = Out!Overwrite(file, fpos, front) /\ fpos' = fpos + n
  BY <1>1, <1>4 DEF Out!WriteFile
<1>6. file \in Seq(Nat) /\ fpos \in 0..Len(file) /\ Out!Overwrite(file, fpos, Out!Pending) = intended
  BY <1>2 DEF OutInv, OutTypes
<1>7. /\ file' \in Seq(Nat) /\ Len(file') \in Nat /\ fpos' \in 0..Len(file')
      /\ Out!Overwrite(file', fpos', rest) = intended
  <2>1. Out!Overwrite(file', fpos', rest) = intended
    BY <1>4, <1>5, <1>6, OverwriteTwice
  <2>2. file' \in Seq(Nat) /\ Len(file') \in Nat /\ fpos + n <= Len(file')
    BY <1>4, <1>5, <1>6, OverwriteLen
  <2>3. fpos + n \in 0..Len(file')
    BY <1>2, <1>3, <2>2, OutLens
  <2> QED BY <1>5, <2>1, <2>2, <2>3
<1>8. Len(file') <= Len(intended)
  BY <1>4, <1>7, OverwriteLen
<1>9. CASE n = pos
  <2>1. pos' = 0 /\ pc' = "store" /\ UNCHANGED <<buff, todo, to, wrote>>
    BY <1>1, <1>9
  <2>2. file' = intended
    <3>1. rest = <<>>
      BY <1>2, <1>9, OutLens, SubSeqEmpty DEF rest
    <3> QED BY <1>7, <3>1, OverwriteNothing
  <2>3. Out!Overwrite(file', fpos', Out!Pending') = intended'
    <3>1. Out!Pending' = <<>>
      BY <2>1, NoneBuffered DEF Out!Pending
    <3> QED BY <1>2, <1>7, <2>2, <3>1, OverwriteNothing
  <2>4. OutTypes'
    BY <1>2, <1>7, <2>1, <2>2, OutLens DEF OutTypes
  <2>5. OutPhases'
    BY <1>2, <2>1, OutLens DEF OutPhases, OutInv
  <2> QED BY <2>1, <2>3, <2>4, <2>5 DEF OutInv, Out!RestKept
<1>10. CASE n # pos
  <2>1. /\ buff' = Out!Overwrite(buff, 0, rest) /\ todo' = <<>> /\ to' = -1 /\ wrote' = n
        /\ pc' = "failed" /\ pos' = pos
    BY <1>1, <1>10 DEF rest
  <2>2. /\ buff' \in Seq(Nat) /\ Len(buff') = Len(buff) /\ SubSeq(buff', 1, pos - n) = rest
    <3>1. 0 + Len(rest) <= Len(buff) /\ 0 + Len(rest) = pos - n
      BY <1>2, <1>3, <1>4, OutLens, SMTT(30) DEF OutTypes
    <3>2. /\ buff' \in Seq(Nat) /\ Len(buff') = Len(buff)
          /\ SubSeq(buff', 1, 0 + Len(rest)) = SubSeq(buff, 1, 0) \o rest
      BY <1>2, <1>4, <2>1, <3>1, FrontOf DEF OutTypes
    <3>3. SubSeq(buff, 1, 0) \o rest = rest
      BY <1>4, NoneBuffered, ConcatEmptySeq
    <3> QED BY <3>1, <3>2, <3>3
  <2>3. Len(todo') = 0 /\ todo' \in Seq(Nat) /\ Len(todo) \in Nat /\ Len(intended) \in Nat
    BY <1>2, <2>1, EmptySeq, OutLens
  <2>4. OutTypes'
    <3>1. Len(file') <= next' - 1 /\ Len(intended') + Len(todo') <= next' - 1
      BY <1>2, <1>7, <1>8, <2>3 DEF OutTypes
    <3> QED BY <1>2, <1>3, <1>7, <2>1, <2>2, <2>3, <3>1 DEF OutTypes
  <2>5. OutPhases'
    BY <1>2, <1>3, <1>5, <2>1, OutLens DEF OutPhases
  <2>6. Out!RestKept'
    BY <1>2, <1>7, <2>1, <2>2 DEF Out!RestKept
  <2> QED BY <2>1, <2>4, <2>5, <2>6 DEF OutInv
<1> QED BY <1>9, <1>10

\* The bytes of a write that do not fit into the empty buffer go to the file.
LEMMA BypassKeeps ==
    ASSUME Out!OutAssumption, OutInv, Out!Store, Out!Bypass
    PROVE  OutInv'
<1>1. PICK n \in Out!Accepted(Len(todo)) :
         /\ Out!WriteFile(todo, n) /\ wrote' = n
         /\ IF n = Len(todo)
            THEN pc' = "idle" /\ intended' = Out!Overwrite(intended, fpos, todo)
            ELSE pc' = "failed" /\ UNCHANGED intended
  BY DEF Out!Bypass
<1>2. /\ pc = "store" /\ todo # <<>> /\ Len(todo) >= OutBS
      /\ UNCHANGED <<buff, pos, to, next>> /\ todo' = <<>>
      /\ OutTypes /\ OutPhases
  BY DEF Out!Bypass, Out!Store, OutInv
<1>3. n \in Nat /\ n <= Len(todo) /\ pos = 0 /\ to = -1
  BY <1>2, OutLens DEF Out!Accepted, OutPhases
<1>4. file \in Seq(Nat) /\ fpos \in 0..Len(file) /\ file = intended /\ todo \in Seq(Nat)
  <2>1. Out!Pending = <<>>
    BY <1>3, NoneBuffered DEF Out!Pending
  <2> QED BY <1>2, <2>1, OverwriteNothing DEF OutInv, OutTypes
<1> DEFINE front == SubSeq(todo, 1, n)
<1>5. front \in Seq(Nat) /\ Len(front) = n
  <2>1. Len(todo) \in Nat /\ n - 1 + 1 = n
    BY <1>3, <1>4, LenProperties
  <2> QED BY <1>3, <1>4, <2>1, PartOf
<1>6. file' = Out!Overwrite(file, fpos, front) /\ fpos' = fpos + n
  BY <1>1 DEF Out!WriteFile
<1> HIDE DEF front
<1>7. /\ file' \in Seq(Nat) /\ Len(file') \in Nat /\ fpos + n <= Len(file')
      /\ Len(file') <= Len(file) + n
  BY <1>4, <1>5, <1>6, OverwriteLen
<1>8. Len(todo') = 0 /\ todo' \in Seq(Nat)
  BY <1>2, EmptySeq
<1>9. fpos' \in 0..Len(file') /\ Len(file') <= next' - 1 /\ n <= fpos'
  BY <1>2, <1>3, <1>4, <1>6, <1>7, OutLens DEF OutTypes
<1>10. pos' = 0 /\ Out!Pending' = <<>> /\ to' = -1 /\ wrote' = n
  BY <1>1, <1>2, <1>3, NoneBuffered DEF Out!Pending
<1>11. CASE n = Len(todo)
  <2>1. front = todo
    <3>1. \A i \in 1..n : front[i] = todo[i]
      <4>1. Len(todo) \in Nat /\ n - 1 + 1 = n
        BY <1>3, <1>4, LenProperties
      <4>2. \A i \in 1..n : 1 + i - 1 = i
        BY <1>3
      <4>3. \A i \in 1..n : front[i] = todo[1 + i - 1]
        BY <1>3, <1>4, <4>1, PartOf DEF front
      <4> QED BY <4>2, <4>3
    <3> QED BY <1>4, <1>5, <1>11, <3>1, SeqEqual
  <2>2. pc' = "idle" /\ intended' = file'
    BY <1>1, <1>4, <1>6, <1>11, <2>1
  <2>3. OutTypes'
    BY <1>2, <1>3, <1>7, <1>8, <1>9, <1>10, <2>2 DEF OutTypes
  <2>4. Out!Overwrite(file', fpos', Out!Pending') = intended'
    BY <1>7, <1>9, <1>10, <2>2, OverwriteNothing
  <2> QED BY <1>2, <1>10, <2>2, <2>3, <2>4 DEF OutInv, OutPhases, Out!RestKept
<1>12. CASE n # Len(todo)
  <2>1. pc' = "failed" /\ intended' = intended
    BY <1>1, <1>12
  <2>2. Len(intended') + Len(todo') <= next' - 1
    BY <1>2, <1>8, <2>1, OutLens DEF OutTypes
  <2>3. OutTypes'
    BY <1>2, <1>3, <1>7, <1>8, <1>9, <1>10, <2>1, <2>2 DEF OutTypes
  <2>4. OutPhases'
    BY <1>2, <1>9, <1>10, <2>1 DEF OutPhases
  <2> QED BY <1>10, <2>1, <2>3, <2>4 DEF OutInv, Out!RestKept
<1> QED BY <1>11, <1>12

\* The others are put behind what is pending.
LEMMA BufferKeeps ==
    ASSUME Out!OutAssumption, OutInv, Out!Store, Out!Buffer
    PROVE  OutInv'
<1>1. /\ pc = "store" /\ todo # <<>> /\ Len(todo) < OutBS /\ UNCHANGED <<file, fpos, wrote, to, next>>
      /\ buff' = Out!Overwrite(buff, pos, todo) /\ pos' = pos + Len(todo)
      /\ intended' = Out!Overwrite(intended, fpos + pos, todo) /\ pc' = "idle" /\ todo' = <<>>
      /\ OutTypes /\ OutPhases /\ Out!Overwrite(file, fpos, Out!Pending) = intended
  BY DEF Out!Buffer, Out!Store, OutInv
<1>2. pos + Len(todo) <= Len(buff) /\ pos + Len(todo) <= OutBS /\ to = -1
  BY <1>1 DEF OutPhases, OutTypes
<1>3. /\ buff' \in Seq(Nat) /\ Len(buff') = OutBS
      /\ Out!Pending' = Out!Pending \o todo
  <2>1. buff \in Seq(Nat) /\ todo \in Seq(Nat) /\ pos \in Nat
    BY <1>1, OutLens DEF OutTypes
  <2>2. /\ buff' \in Seq(Nat) /\ Len(buff') = Len(buff)
        /\ SubSeq(buff', 1, pos + Len(todo)) = SubSeq(buff, 1, pos) \o todo
    BY <1>1, <1>2, <2>1, FrontOf
  <2> QED BY <1>1, <2>2 DEF OutTypes, Out!Pending
<1>4. Out!Overwrite(file', fpos', Out!Pending') = intended'
  <2>1. file \in Seq(Nat) /\ fpos \in 0..Len(file) /\ todo \in Seq(Nat) /\ Out!Pending \in Seq(Nat)
        /\ Len(Out!Pending) = pos
    BY <1>1, OutLens DEF OutTypes
  <2>2. Out!Overwrite(Out!Overwrite(file, fpos, Out!Pending), fpos + Len(Out!Pending), todo)
        = Out!Overwrite(file, fpos, Out!Pending \o todo)
    BY <2>1, OverwriteTwice
  <2>3. Out!Overwrite(intended, fpos + pos, todo) = Out!Overwrite(file, fpos, Out!Pending \o todo)
    BY <1>1, <2>1, <2>2
  <2>4. file' = file /\ fpos' = fpos /\ Out!Pending' = Out!Pending \o todo
        /\ intended' = Out!Overwrite(intended, fpos + pos, todo)
    BY <1>1, <1>3
  <2>5. Out!Overwrite(file', fpos', Out!Pending') = Out!Overwrite(file, fpos, Out!Pending \o todo)
    BY <2>4
  <2> QED BY <2>3, <2>4, <2>5
<1>5. /\ intended' \in Seq(Nat) /\ Len(intended') \in Nat /\ Len(intended') <= Len(intended) + Len(todo)
  <2>1. file \in Seq(Nat) /\ fpos \in 0..Len(file) /\ intended \in Seq(Nat) /\ todo \in Seq(Nat)
    BY <1>1 DEF OutTypes
  <2>2. fpos + pos <= Len(intended)
    BY <1>1, <2>1, OutLens, OverwriteLen
  <2>3. fpos + pos \in 0..Len(intended)
    BY <1>1, <2>2, OutLens
  <2> QED BY <1>1, <2>1, <2>3, OverwriteLen
<1>6. Len(todo') = 0 /\ todo' \in Seq(Nat)
  BY <1>1, EmptySeq
<1>7. pos' \in 0..OutBS /\ Len(intended') + Len(todo') <= next' - 1
  <2>1. /\ pos \in Nat /\ Len(todo) \in Nat /\ OutBS \in Nat /\ next \in Nat
        /\ Len(intended) \in Nat /\ Len(intended) + Len(todo) <= next - 1
    BY <1>1, OutLens DEF OutTypes
  <2>2. pos' = pos + Len(todo) /\ pos + Len(todo) <= OutBS /\ next' = next
    BY <1>1, <1>2
  <2>3. pos' \in 0..OutBS
    BY <2>1, <2>2
  <2>4. Len(intended') + Len(todo') <= next - 1
    BY <2>1, <1>5, <1>6
  <2> QED BY <2>2, <2>3, <2>4
<1>8. OutTypes'
  BY <1>1, <1>3, <1>5, <1>6, <1>7 DEF OutTypes
<1> QED BY <1>1, <1>2, <1>4, <1>8 DEF OutInv, OutPhases, Out!RestKept

LEMMA OutKeeps ==
    ASSUME Out!OutAssumption, OutInv, Out!Next
    PROVE  OutInv'
<1>0. OutTypes /\ OutPhases
  BY DEF OutInv
<1>1. ASSUME NEW n \in 1..MaxLen, Out!Write(n)
      PROVE  OutInv'
  <2>1. /\ pc = "idle" /\ next + n - 1 <= MaxBytes /\ todo' = [i \in 1..n |-> next + i - 1]
        /\ next' = next + n /\ pc' = (IF Out!NeedsFlush(n) THEN "flush" ELSE "store")
        /\ UNCHANGED <<file, fpos, buff, pos, to, wrote, intended>>
    BY <1>1 DEF Out!Write
  <2>2. n \in Nat /\ n > 0 /\ next \in Nat
    BY <1>0, OutLens DEF OutTypes
  <2>3. todo' \in Seq(Nat) /\ Len(todo') = n
    BY <2>1, <2>2
  <2>4. todo = <<>> /\ Len(todo) = 0 /\ to = -1
    BY <1>0, <2>1, EmptySeq DEF OutPhases
  <2>5. OutTypes'
    BY <1>0, <2>1, <2>2, <2>3, <2>4, OutLens DEF OutTypes
  <2>6. OutPhases'
    BY <1>0, <2>1, <2>2, <2>3, <2>4, OutLens, SMTT(30) DEF OutPhases, Out!NeedsFlush
  <2>7. pc' # "failed" /\ Out!Pending' = Out!Pending
    BY <2>1 DEF Out!Pending
  <2> QED BY <2>1, <2>5, <2>6, <2>7 DEF OutInv, Out!RestKept
<1>2. CASE Out!Flush
  <2>1. /\ pc = "idle" /\ pc' = "flush"
        /\ UNCHANGED <<file, fpos, buff, pos, todo, to, wrote, next, intended>>
    BY <1>2 DEF Out!Flush
  <2>2. OutPhases'
    BY <1>0, <2>1, OutLens DEF OutPhases
  <2> QED BY <1>0, <2>1, <2>2 DEF OutInv, OutTypes, Out!RestKept, Out!Pending
<1>3. ASSUME NEW p \in 0..Len(intended), Out!Seek(p)
      PROVE  OutInv'
  <2>1. /\ pc = "idle" /\ pc' = "flush" /\ to' = p
        /\ UNCHANGED <<file, fpos, buff, pos, todo, wrote, next, intended>>
    BY <1>3 DEF Out!Seek
  <2>2. OutPhases'
    BY <1>0, <2>1, OutLens DEF OutPhases
  <2> QED BY <1>0, <2>1, <2>2 DEF OutInv, OutTypes, Out!RestKept, Out!Pending
<1>4. CASE Out!Store
  BY <1>4, BypassKeeps, BufferKeeps DEF Out!Store
<1>5. CASE Out!Flushed
  <2>1. /\ pc = "store" /\ todo = <<>> /\ pc' = "idle" /\ to' = -1
        /\ fpos' = (IF to = -1 THEN fpos ELSE to)
        /\ UNCHANGED <<file, buff, pos, todo, wrote, next, intended>>
    BY <1>5 DEF Out!Flushed
  <2>2. pos = 0 /\ Out!Pending = <<>> /\ Out!Pending' = <<>>
    <3>1. pos = 0
      BY <1>0, <2>1 DEF OutPhases
    <3> QED BY <2>1, <3>1, NoneBuffered DEF Out!Pending
  <2>3. file \in Seq(Nat) /\ file = intended
    BY <1>0, <2>1, <2>2, OverwriteNothing DEF OutInv, OutTypes
  <2>4. fpos' \in 0..Len(file')
    BY <1>0, <2>1, <2>3, OutLens DEF OutPhases
  <2>5. Out!Overwrite(file', fpos', Out!Pending') = intended'
    BY <2>1, <2>2, <2>3, <2>4, OverwriteNothing
  <2>6. OutTypes' /\ OutPhases'
    BY <1>0, <2>1, <2>4 DEF OutTypes, OutPhases
  <2> QED BY <2>1, <2>5, <2>6 DEF OutInv, Out!RestKept
<1>6. CASE Out!Recover
  <2>1. /\ pc = "failed" /\ pc' = "idle" /\ pos' = 0 /\ fpos' = fpos - wrote /\ intended' = file
        /\ UNCHANGED <<file, buff, todo, to, wrote, next>>
    BY <1>6 DEF Out!Recover
  <2>2. todo = <<>> /\ to = -1 /\ wrote <= fpos /\ wrote \in Nat /\ Len(todo) = 0
    BY <1>0, <2>1, EmptySeq DEF OutPhases, OutTypes
  <2>3. fpos' \in 0..Len(file') /\ pos' \in 0..OutBS
    BY <1>0, <2>1, <2>2, OutLens
  <2>4. Out!Overwrite(file', fpos', Out!Pending') = intended'
    <3>1. Out!Pending' = <<>>
      BY <2>1, NoneBuffered DEF Out!Pending
    <3> QED BY <1>0, <2>1, <2>3, <3>1, OverwriteNothing DEF OutTypes
  <2>5. OutTypes'
    BY <1>0, <2>1, <2>2, <2>3, OutLens DEF OutTypes
  <2> QED BY <2>1, <2>2, <2>4, <2>5 DEF OutInv, OutPhases, Out!RestKept
<1> QED
  BY <1>1, <1>2, <1>3, <1>4, <1>5, <1>6, FlushKeeps DEF Out!Next

LEMMA OutSafe ==
    ASSUME Out!OutAssumption, OutInv
    PROVE  Out!TypeOK /\ Out!NothingLost /\ Out!RestKept
<1>1. fpos \in 0..MaxBytes
  BY OutLens DEF OutInv, OutTypes
<1> QED BY <1>1 DEF OutInv, OutTypes, Out!TypeOK, Out!NothingLost

-----------------------------------------------------------------------------
(* The buffer of an input file.                                            *)

InInv ==
    /\ fpos \in 0..Length /\ buff \in Seq(Nat) /\ Len(buff) <= InBS
    /\ pos \in Nat /\ size \in Nat /\ pos + size <= Len(buff) /\ size <= fpos
    /\ partial \in BOOLEAN
    /\ InShort!Window

\* A buffer, as Ready gives it, whose unread part is what precedes the position
\* of its file.
IsAhead(b) ==
    /\ b.fpos \in 0..Length /\ b.buff \in Seq(Nat) /\ Len(b.buff) <= InBS
    /\ b.pos \in Nat /\ b.size \in Nat /\ b.pos + b.size <= Len(b.buff) /\ b.size <= b.fpos
    /\ SubSeq(b.buff, b.pos + 1, b.pos + b.size) = InShort!Bytes(b.fpos - b.size, b.size)

LEMMA BytesAre ==
    ASSUME NEW p \in Nat, NEW n \in Nat
    PROVE  /\ InShort!Bytes(p, n) \in Seq(Nat) /\ Len(InShort!Bytes(p, n)) = n
           /\ \A i \in 1..n : InShort!Bytes(p, n)[i] = p + i
BY DEF InShort!Bytes

\* The n bytes of a sequence behind q are those of the file behind p; so are
\* the m bytes of them behind the first k.
Same(s, q, p, n) == q + n <= Len(s) /\ SubSeq(s, q + 1, q + n) = InShort!Bytes(p, n)

LEMMA PartOfBytes ==
    ASSUME NEW s \in Seq(Nat), NEW p \in Nat, NEW q \in Nat, NEW n \in Nat, NEW k \in Nat, NEW m \in Nat,
           Same(s, q, p, n), k + m <= n
    PROVE  Same(s, q + k, p + k, m)
<1> DEFINE a == SubSeq(s, q + 1, q + n)
           b == SubSeq(s, q + k + 1, q + k + m)
           c == InShort!Bytes(p + k, m)
<1>0. q + n <= Len(s) /\ a = InShort!Bytes(p, n)
  BY DEF Same
<1>1. Len(s) \in Nat
  BY LenProperties
<1>2. q + 1 \in Nat \ {0} /\ q + n \in Nat /\ q + 1 <= q + n + 1 /\ (q + n) - (q + 1) + 1 = n
      /\ \A i \in 1..n : q + 1 + i - 1 = q + i
  OBVIOUS
<1>3. \A i \in 1..n : a[i] = s[q + 1 + i - 1]
  BY <1>0, <1>2, PartOf
<1>4. \A i \in 1..n : s[q + i] = p + i
  <2>1. a = InShort!Bytes(p, n) /\ \A i \in 1..n : InShort!Bytes(p, n)[i] = p + i
    BY <1>0, BytesAre, Zenon
  <2> HIDE DEF a
  <2> QED BY <1>2, <1>3, <2>1
<1>5. /\ q + k + 1 \in Nat \ {0} /\ q + k + m \in Nat /\ q + k + 1 <= (q + k + m) + 1
      /\ q + k + m <= Len(s) /\ (q + k + m) - (q + k + 1) + 1 = m
      /\ \A i \in 1..m : q + k + 1 + i - 1 = q + (k + i) /\ k + i \in 1..n
  BY <1>0, <1>1
<1>6. b \in Seq(Nat) /\ Len(b) = m /\ \A i \in 1..m : b[i] = s[q + k + 1 + i - 1]
  BY <1>5, PartOf
<1>7. c \in Seq(Nat) /\ Len(c) = m /\ \A i \in 1..m : c[i] = p + k + i
  <2>1. p + k \in Nat
    OBVIOUS
  <2> QED BY <2>1, BytesAre
<1>8. \A i \in 1..m : s[q + (k + i)] = p + (k + i)
  BY <1>4, <1>5
<1>9. \A i \in 1..m : b[i] = c[i]
  BY <1>5, <1>6, <1>7, <1>8
<1> HIDE DEF b, c
<1>10. b = c
  BY <1>6, <1>7, <1>9, SeqEqual
<1> QED BY <1>5, <1>10, Zenon DEF b, c, Same

\* Two parts that meet.
LEMMA BytesMeet ==
    ASSUME NEW p \in Nat, NEW n \in Nat, NEW m \in Nat
    PROVE  InShort!Bytes(p, n) \o InShort!Bytes(p + n, m) = InShort!Bytes(p, n + m)
<1> DEFINE a == InShort!Bytes(p, n)
           b == InShort!Bytes(p + n, m)
           c == InShort!Bytes(p, n + m)
           ab == a \o b
<1>1. /\ a \in Seq(Nat) /\ Len(a) = n /\ \A i \in 1..n : a[i] = p + i
      /\ b \in Seq(Nat) /\ Len(b) = m /\ \A i \in 1..m : b[i] = p + n + i
      /\ c \in Seq(Nat) /\ Len(c) = n + m /\ \A i \in 1..(n + m) : c[i] = p + i
  <2>1. p + n \in Nat /\ n + m \in Nat
    OBVIOUS
  <2> QED BY <2>1, BytesAre
<1> HIDE DEF a, b, c
<1>2. /\ ab \in Seq(Nat) /\ Len(ab) = Len(a) + Len(b)
      /\ \A i \in 1..(Len(a) + Len(b)) : ab[i] = IF i <= Len(a) THEN a[i] ELSE b[i - Len(a)]
  BY <1>1, ConcatProperties
<1> HIDE DEF ab
<1>3. /\ ab \in Seq(Nat) /\ Len(ab) = n + m
      /\ \A i \in 1..(n + m) : ab[i] = IF i <= n THEN a[i] ELSE b[i - n]
  BY <1>1, <1>2
<1>4. \A i \in 1..(n + m) : ab[i] = c[i]
  <2> SUFFICES ASSUME NEW i \in 1..(n + m)
               PROVE  ab[i] = c[i]
    OBVIOUS
  <2>1. CASE i <= n
    BY <1>1, <1>3, <2>1
  <2>2. CASE ~(i <= n)
    <3>1. i - n \in 1..m /\ p + n + (i - n) = p + i
      BY <2>2
    <3> QED BY <1>1, <1>3, <2>2, <3>1
  <2> QED BY <2>1, <2>2
<1>5. ab = c
  BY <1>1, <1>3, <1>4, SeqEqual
<1> QED BY <1>5 DEF a, b, c, ab

LEMMA NoBytes ==
    ASSUME NEW p \in Nat
    PROVE  InShort!Bytes(p, 0) = <<>>
BY BytesAre, EmptySeq

\* What a read of the file gives.
LEMMA GivesSome ==
    ASSUME InShort!InAssumption, NEW p \in 0..Length, NEW n \in Nat, NEW m \in InShort!Gives(p, n)
    PROVE  m \in Nat /\ m <= n /\ p + m <= Length /\ (m = 0 /\ n > 0 => p = Length)
<1> DEFINE most == InShort!Least(n, Length - p)
<1>1. Length \in Nat
  BY DEF InShort!InAssumption
<1>2. most \in Nat /\ most <= n /\ p + most <= Length /\ (most = 0 /\ n > 0 => p = Length)
  BY <1>1 DEF InShort!Least
<1>3. m \in (IF most > 0 THEN 1..most ELSE {most})
  BY DEF InShort!Gives
<1> HIDE DEF most
<1> QED BY <1>1, <1>2, <1>3

\* What is left of the buffer, or what a read of the file puts there.
LEMMA ReadyAhead ==
    ASSUME InShort!InAssumption, InInv, NEW b \in InShort!Ready
    PROVE  /\ IsAhead(b) /\ b.fpos - b.size = InShort!Logical
           /\ b.size = 0 => fpos = Length /\ size = 0 /\ b.fpos = fpos
           /\ size > 0 => b.buff = buff /\ b.pos = pos /\ b.size = size /\ b.fpos = fpos
<1>1. InBS \in Nat \ {0} /\ Length \in Nat /\ fpos \in Nat
  BY DEF InShort!InAssumption, InInv
<1>2. CASE size > 0
  <2>1. b = [buff |-> buff, pos |-> pos, size |-> size, fpos |-> fpos]
    BY <1>2 DEF InShort!Ready
  <2>2. b.buff = buff /\ b.pos = pos /\ b.size = size /\ b.fpos = fpos
    BY <2>1
  <2> QED BY <1>2, <2>2 DEF InInv, IsAhead, InShort!Logical, InShort!Window
<1>3. CASE ~(size > 0)
  <2>0. size = 0
    BY <1>3 DEF InInv
  <2>1. PICK n \in InShort!Gives(fpos, InBS) :
           b = [buff |-> InShort!Bytes(fpos, n), pos |-> 0, size |-> n, fpos |-> fpos + n]
    BY <1>3 DEF InShort!Ready
  <2>2. n \in Nat /\ n <= InBS /\ fpos + n <= Length /\ (n = 0 => fpos = Length)
    BY <1>1, GivesSome DEF InInv
  <2>3. b.buff = InShort!Bytes(fpos, n) /\ b.pos = 0 /\ b.size = n /\ b.fpos = fpos + n
    BY <2>1
  <2>4. b.buff \in Seq(Nat) /\ Len(b.buff) = n
    BY <1>1, <2>2, <2>3, BytesAre
  <2>5. SubSeq(b.buff, 1, n) = b.buff
    BY <2>2, <2>4, SubSeqFull
  <2>6. fpos + n - n = fpos /\ 0 + 1 = 1 /\ 0 + n = n /\ fpos - 0 = fpos
    BY <1>1, <2>2
  <2>7. SubSeq(b.buff, b.pos + 1, b.pos + b.size) = InShort!Bytes(b.fpos - b.size, b.size)
    <3>1. b.pos + 1 = 1 /\ b.pos + b.size = n /\ b.fpos - b.size = fpos
      BY <1>1, <2>2, <2>3
    <3> QED BY <2>3, <2>5, <3>1, Zenon
  <2>8. b.fpos \in 0..Length /\ b.pos \in Nat /\ b.size \in Nat /\ b.size <= b.fpos
    BY <1>1, <2>2, <2>3
  <2>9. Len(b.buff) <= InBS /\ b.pos + b.size <= Len(b.buff)
    BY <2>2, <2>3, <2>4
  <2>10. IsAhead(b)
    BY <2>4, <2>7, <2>8, <2>9 DEF IsAhead
  <2>11. b.fpos - b.size = InShort!Logical
    BY <1>1, <2>0, <2>2, <2>3 DEF InShort!Logical
  <2>12. b.size = 0 => fpos = Length /\ b.fpos = fpos
    BY <1>1, <2>2, <2>3
  <2> QED BY <1>3, <2>0, <2>10, <2>11, <2>12
<1> QED BY <1>2, <1>3

\* Nothing is unread.
LEMMA NothingAhead ==
    ASSUME NEW f \in Nat, NEW s, NEW p \in Nat
    PROVE  SubSeq(s, p + 1, p + 0) = InShort!Bytes(f - 0, 0)
<1>1. p + 1 \in Int /\ p + 0 \in Int /\ p + 0 < p + 1 /\ f - 0 = f
  OBVIOUS
<1>2. SubSeq(s, p + 1, p + 0) = <<>>
  BY <1>1, SubSeqEmpty
<1>3. InShort!Bytes(f, 0) = <<>>
  BY NoBytes
<1> QED BY <1>1, <1>2, <1>3, Zenon

\* What a read takes from the buffer, and what it leaves there.
LEMMA Taken ==
    ASSUME NEW b, IsAhead(b), NEW k \in Nat, k <= b.size
    PROVE  /\ SubSeq(b.buff, b.pos + 1, b.pos + k) = InShort!Bytes(b.fpos - b.size, k)
           /\ SubSeq(b.buff, (b.pos + k) + 1, (b.pos + k) + (b.size - k))
              = InShort!Bytes(b.fpos - (b.size - k), b.size - k)
<1> DEFINE q == b.pos
           n == b.size
           s == b.buff
           f == b.fpos
<1>1. /\ f \in Nat /\ q \in Nat /\ n \in Nat /\ n <= f /\ k <= n
      /\ s \in Seq(Nat) /\ q + n <= Len(s) /\ SubSeq(s, q + 1, q + n) = InShort!Bytes(f - n, n)
  BY DEF IsAhead
<1> HIDE DEF q, n, s, f
<1>2. PICK m \in Nat, g \in Nat, z \in Nat : m = n - k /\ g = f - n /\ z = 0
  BY <1>1
<1>3. k + m <= n /\ z + k <= n /\ Same(s, q, g, n)
  BY <1>1, <1>2 DEF Same
<1>4. Same(s, q + z, g + z, k)
  BY <1>1, <1>3, PartOfBytes
<1>5. Same(s, q + k, g + k, m)
  BY <1>1, <1>3, PartOfBytes
<1>6. /\ q + z + 1 = q + 1 /\ q + z + k = q + k /\ g + z = f - n
      /\ q + k + m = (q + k) + (n - k) /\ g + k = f - (n - k) /\ m = n - k
  BY <1>1, <1>2
<1>7. SubSeq(s, q + 1, q + k) = InShort!Bytes(f - n, k)
  BY <1>4, <1>6, Zenon DEF Same
<1>8. SubSeq(s, (q + k) + 1, (q + k) + (n - k)) = InShort!Bytes(f - (n - k), n - k)
  BY <1>5, <1>6, Zenon DEF Same
<1> QED BY <1>7, <1>8 DEF q, n, s, f

\* What the operations that give k bytes to their caller have in common.
GivesNext(k) ==
    /\ out' = InShort!Bytes(InShort!Logical, k) /\ Len(out') = k
    /\ InShort!Logical' = InShort!Logical + k

LEMMA InInit ==
    ASSUME InShort!InAssumption, InShort!Init
    PROVE  InInv
<1>1. fpos = 0 /\ buff = <<>> /\ pos = 0 /\ size = 0 /\ partial = FALSE /\ InBS \in Nat /\ Length \in Nat
  BY DEF InShort!Init, InShort!InAssumption
<1>2. buff \in Seq(Nat) /\ Len(buff) = 0
  BY <1>1, EmptySeq
<1>3. SubSeq(buff, pos + 1, pos + 0) = InShort!Bytes(fpos - 0, 0)
  BY <1>1, NothingAhead
<1>4. InShort!Window
  BY <1>1, <1>3 DEF InShort!Window, InShort!Logical
<1>5. /\ fpos \in 0..Length /\ pos \in Nat /\ size \in Nat /\ size <= fpos
      /\ 0 <= InBS /\ pos + size <= 0
  <2>1. fpos = 0 /\ pos = 0 /\ size = 0 /\ InBS \in Nat /\ Length \in Nat
    BY <1>1
  <2> QED BY <2>1
<1>7. partial \in BOOLEAN
  BY <1>1
<1>6. Len(buff) <= InBS /\ pos + size <= Len(buff)
  BY <1>2, <1>5, Zenon
<1> QED BY <1>2, <1>4, <1>5, <1>6, <1>7, Zenon DEF InInv

LEMMA InRead ==
    ASSUME InShort!InAssumption, InInv, NEW n \in Nat \ {0}, NEW e, NEW b \in InShort!Ready,
           InShort!AtEnd(b) \/ InShort!FromBuffer(b, n) \/ InShort!BeyondBuffer(b, n, e)
    PROVE  /\ InInv'
           /\ \E k \in Nat : GivesNext(k) /\ (k = 0 => InShort!Logical = Length)
<1>1. /\ IsAhead(b) /\ b.fpos - b.size = InShort!Logical
      /\ b.size = 0 => fpos = Length /\ size = 0 /\ b.fpos = fpos
  BY ReadyAhead
<1>2. /\ b.fpos \in 0..Length /\ b.buff \in Seq(Nat) /\ Len(b.buff) <= InBS
      /\ b.pos \in Nat /\ b.size \in Nat /\ b.pos + b.size <= Len(b.buff) /\ b.size <= b.fpos
  BY <1>1 DEF IsAhead
<1>3. Length \in Nat /\ InBS \in Nat /\ b.fpos \in Nat
  BY <1>2 DEF InShort!InAssumption
<1>4. CASE InShort!AtEnd(b)
  <2>1. /\ b.size = 0 /\ out' = <<>> /\ partial' = FALSE
        /\ buff' = b.buff /\ pos' = b.pos /\ size' = 0 /\ fpos' = fpos
    BY <1>4 DEF InShort!AtEnd
  <2>2. SubSeq(buff', pos' + 1, pos' + 0) = InShort!Bytes(fpos' - 0, 0)
    BY <1>1, <1>2, <1>3, <2>1, NothingAhead
  <2>3. InShort!Window'
    BY <2>1, <2>2 DEF InShort!Window, InShort!Logical
  <2>4. InInv'
    BY <1>1, <1>2, <1>3, <2>1, <2>3 DEF InInv
  <2>5. InShort!Logical = Length /\ InShort!Logical' = InShort!Logical + 0 /\ InShort!Logical \in Nat
    BY <1>1, <1>3, <2>1 DEF InShort!Logical
  <2>6. out' = InShort!Bytes(InShort!Logical, 0) /\ Len(out') = 0
    BY <2>1, <2>5, NoBytes, EmptySeq
  <2>7. GivesNext(0)
    BY <2>5, <2>6 DEF GivesNext
  <2> QED BY <2>4, <2>5, <2>7
<1>5. CASE InShort!FromBuffer(b, n)
  <2>1. /\ b.size >= n /\ out' = SubSeq(b.buff, b.pos + 1, b.pos + n) /\ partial' = FALSE
        /\ buff' = b.buff /\ pos' = b.pos + n /\ size' = b.size - n /\ fpos' = b.fpos
    BY <1>5 DEF InShort!FromBuffer
  <2>2. /\ SubSeq(b.buff, b.pos + 1, b.pos + n) = InShort!Bytes(b.fpos - b.size, n)
        /\ SubSeq(b.buff, (b.pos + n) + 1, (b.pos + n) + (b.size - n))
           = InShort!Bytes(b.fpos - (b.size - n), b.size - n)
    BY <1>1, <1>2, <2>1, Taken
  <2>3. InShort!Window'
    BY <2>1, <2>2 DEF InShort!Window, InShort!Logical
  <2>4. /\ pos' \in Nat /\ size' \in Nat /\ pos' + size' = b.pos + b.size /\ size' <= b.fpos
        /\ b.fpos - (b.size - n) = (b.fpos - b.size) + n /\ b.fpos - b.size \in Nat
    <3>1. b.pos \in Nat /\ b.size \in Nat /\ b.size <= b.fpos /\ b.fpos \in Nat
      BY <1>2, <1>3
    <3>2. b.size >= n /\ pos' = b.pos + n /\ size' = b.size - n
      BY <2>1
    <3> QED BY <3>1, <3>2
  <2>5. InInv'
    BY <1>2, <2>1, <2>3, <2>4 DEF InInv
  <2>6. out' = InShort!Bytes(InShort!Logical, n) /\ Len(out') = n
    <3>1. out' = InShort!Bytes(b.fpos - b.size, n) /\ b.fpos - b.size \in Nat /\ n \in Nat
      BY <2>1, <2>2, <2>4
    <3>2. Len(InShort!Bytes(b.fpos - b.size, n)) = n
      BY <3>1, BytesAre, Zenon
    <3> QED BY <1>1, <3>1, <3>2, Zenon
  <2>7. InShort!Logical' = InShort!Logical + n
    BY <1>1, <2>1, <2>4 DEF InShort!Logical
  <2> QED BY <2>5, <2>6, <2>7 DEF GivesNext
<1>6. CASE InShort!BeyondBuffer(b, n, e)
  <2>1. PICK m \in InShort!Gives(b.fpos, n - b.size) :
          /\ out' = SubSeq(b.buff, b.pos + 1, b.pos + b.size) \o InShort!Bytes(b.fpos, m)
          /\ partial' = ((b.size + m) % e # 0) /\ fpos' = b.fpos + m
    BY <1>6 DEF InShort!BeyondBuffer
  <2>2. 0 < b.size /\ b.size < n /\ buff' = b.buff /\ pos' = 0 /\ size' = 0
    BY <1>6 DEF InShort!BeyondBuffer
  <2>3. n - b.size \in Nat
    BY <1>2, <2>2
  <2>4. m \in Nat /\ b.fpos + m <= Length
    BY <1>2, <2>3, GivesSome
  <2>5. /\ fpos' \in Nat /\ fpos' \in 0..Length /\ b.fpos - b.size \in Nat /\ b.size + m \in Nat \ {0}
        /\ (b.fpos - b.size) + b.size = b.fpos /\ fpos' - 0 = (b.fpos - b.size) + (b.size + m)
    <3>1. b.size \in Nat /\ b.size <= b.fpos /\ b.fpos \in Nat /\ Length \in Nat
      BY <1>2, <1>3
    <3>2. fpos' = b.fpos + m /\ 0 < b.size /\ m \in Nat /\ b.fpos + m <= Length
      BY <2>1, <2>2, <2>4
    <3> QED BY <3>1, <3>2
  <2>6. SubSeq(b.buff, b.pos + 1, b.pos + b.size) = InShort!Bytes(b.fpos - b.size, b.size)
    BY <1>1 DEF IsAhead
  <2>7. InShort!Bytes(b.fpos - b.size, b.size) \o InShort!Bytes((b.fpos - b.size) + b.size, m)
        = InShort!Bytes(b.fpos - b.size, b.size + m)
    <3>1. b.fpos - b.size \in Nat /\ b.size \in Nat /\ m \in Nat
      BY <1>2, <2>4, <2>5
    <3> QED BY ONLY <3>1, BytesMeet, Zenon
  <2>8. out' = InShort!Bytes(InShort!Logical, b.size + m)
    <3>1. out' = InShort!Bytes(b.fpos - b.size, b.size) \o InShort!Bytes((b.fpos - b.size) + b.size, m)
      BY <2>1, <2>5, <2>6, Zenon
    <3> QED BY <1>1, <2>7, <3>1, Zenon
  <2>9. Len(out') = b.size + m
    BY <1>1, <2>5, <2>8, BytesAre
  <2>10. InShort!Logical' = InShort!Logical + (b.size + m)
    BY <1>1, <2>2, <2>5 DEF InShort!Logical
  <2>11. SubSeq(buff', pos' + 1, pos' + 0) = InShort!Bytes(fpos' - 0, 0)
    BY <2>2, <2>5, NothingAhead
  <2>12. InShort!Window'
    BY <2>2, <2>11 DEF InShort!Window, InShort!Logical
  <2>13. partial' \in BOOLEAN /\ pos' + size' <= Len(buff')
    BY <1>2, <2>1, <2>2
  <2>14. InInv'
    BY <1>2, <2>2, <2>5, <2>12, <2>13 DEF InInv
  <2> QED BY <2>5, <2>8, <2>9, <2>10, <2>14 DEF GivesNext
<1> QED BY <1>4, <1>5, <1>6

\* A seek of the file leaves nothing in the buffer.
LEMMA FileSought ==
    ASSUME InShort!InAssumption, InInv, NEW p \in Int, p <= Length, InShort!FileSeek(p), partial' = FALSE
    PROVE  InInv' /\ InShort!Logical' = IF p >= 0 THEN p ELSE InShort!Logical
<1>1. Length \in Nat /\ fpos \in Nat
  BY DEF InShort!InAssumption, InInv
<1>2. CASE p >= 0
  <2>1. fpos' = p /\ size' = 0 /\ buff' = buff /\ pos' = pos /\ p \in Nat
    BY <1>2 DEF InShort!FileSeek
  <2>2. SubSeq(buff', pos' + 1, pos' + 0) = InShort!Bytes(fpos' - 0, 0)
    BY <2>1, NothingAhead DEF InInv
  <2>3. InShort!Window' /\ InShort!Logical' = p
    BY <2>1, <2>2 DEF InShort!Window, InShort!Logical
  <2>4. pos' + size' <= Len(buff')
    BY <2>1, LenProperties DEF InInv
  <2>5. InInv'
    <3>1. fpos' \in 0..Length /\ size' \in Nat /\ size' <= fpos'
      <4>1. fpos' = p /\ size' = 0 /\ p \in Nat
        BY <2>1
      <4> QED BY <1>1, <4>1
    <3>3. partial' \in BOOLEAN
      OBVIOUS
    <3>2. buff' \in Seq(Nat) /\ Len(buff') <= InBS /\ pos' \in Nat
      BY <2>1 DEF InInv
    <3> QED BY <2>3, <2>4, <3>1, <3>2, <3>3, Zenon DEF InInv
  <2> QED BY <1>2, <2>3, <2>5
<1>3. CASE ~(p >= 0)
  <2>1. UNCHANGED <<fpos, size, buff, pos>>
    BY <1>3 DEF InShort!FileSeek
  <2>2. InShort!Window' /\ InShort!Logical' = InShort!Logical
    BY <2>1 DEF InShort!Window, InShort!Logical, InInv
  <2> QED BY <1>3, <2>1, <2>2 DEF InInv
<1> QED BY <1>2, <1>3

LEMMA InSeekCur ==
    ASSUME InShort!InAssumption, InInv, NEW d \in (-Length)..Length,
           InShort!Logical + d <= Length, InShort!SeekCur(d)
    PROVE  /\ InInv' /\ last'.op = "seek" /\ last'.n = InShort!Logical + d
           /\ InShort!Logical' = IF last'.n >= 0 THEN last'.n ELSE InShort!Logical
<1>1. Length \in Nat /\ fpos \in Nat /\ size \in Nat /\ pos \in Nat /\ size <= fpos /\ d \in Int
  BY DEF InShort!InAssumption, InInv
<1>2. partial' = FALSE /\ last'.op = "seek" /\ last'.n = InShort!Logical + d
  BY DEF InShort!SeekCur
<1>3. CASE 0 < d /\ d <= size
  <2>1. pos' = pos + d /\ size' = size - d /\ fpos' = fpos /\ buff' = buff
    BY <1>3 DEF InShort!SeekCur
  <2>2. d \in Nat /\ size - d \in Nat /\ d + (size - d) <= size /\ fpos - size \in Nat
    BY <1>1, <1>3
  <2>10. (fpos - size) + d = fpos - (size - d)
    BY <1>1, <1>3
  <2>3. buff \in Seq(Nat) /\ pos + size <= Len(buff)
        /\ SubSeq(buff, pos + 1, pos + size) = InShort!Bytes(fpos - size, size)
    BY DEF InInv, InShort!Window, InShort!Logical
  <2>4. SubSeq(buff, pos + d + 1, pos + d + (size - d)) = InShort!Bytes((fpos - size) + d, size - d)
    <3>1. PICK m \in Nat, g \in Nat : m = size - d /\ g = fpos - size
      BY <2>2
    <3>2. d \in Nat /\ d + m <= size
      BY <2>2, <3>1
    <3>4. Same(buff, pos, g, size)
      BY <2>3, <3>1, Zenon DEF Same
    <3>3. Same(buff, pos + d, g + d, m)
      BY <1>1, <2>3, <3>2, <3>4, PartOfBytes
    <3> QED BY <3>1, <3>3, Zenon DEF Same
  <2>5. SubSeq(buff', pos' + 1, pos' + size') = InShort!Bytes(fpos' - size', size')
    BY <2>1, <2>4, <2>10, Zenon
  <2>6. InShort!Window'
    BY <2>5 DEF InShort!Window, InShort!Logical
  <2>7. pos' \in Nat /\ size' \in Nat /\ pos' + size' = pos + size /\ size' <= fpos
    BY <1>1, <1>3, <2>1
  <2>8. InInv'
    BY <1>2, <2>1, <2>3, <2>6, <2>7 DEF InInv
  <2>9. InShort!Logical' = InShort!Logical + d /\ InShort!Logical + d >= 0
    BY <1>1, <1>3, <2>1 DEF InShort!Logical
  <2> QED BY <1>2, <2>8, <2>9
<1>4. CASE ~(0 < d /\ d <= size)
  <2>1. InShort!FileSeek(fpos + d - size)
    BY <1>4 DEF InShort!SeekCur
  <2>2. fpos + d - size \in Int /\ fpos + d - size <= Length /\ fpos + d - size = InShort!Logical + d
    BY <1>1 DEF InShort!Logical
  <2>3. InInv' /\ InShort!Logical' = IF fpos + d - size >= 0 THEN fpos + d - size ELSE InShort!Logical
    BY <1>2, <2>1, <2>2, FileSought
  <2> QED BY <1>2, <2>2, <2>3
<1> QED BY <1>3, <1>4

LEMMA InSeekSet ==
    ASSUME InShort!InAssumption, InInv, NEW p \in 0..Length, InShort!SeekSet(p)
    PROVE  /\ InInv' /\ last'.op = "seek"
           /\ InShort!Logical' = IF last'.n >= 0 THEN last'.n ELSE InShort!Logical
<1>1. InShort!FileSeek(p) /\ partial' = FALSE /\ last'.op = "seek" /\ last'.n = p
  BY DEF InShort!SeekSet
<1>2. p \in Int /\ p <= Length
  BY DEF InShort!InAssumption
<1>3. InInv' /\ InShort!Logical' = IF p >= 0 THEN p ELSE InShort!Logical
  BY <1>1, <1>2, FileSought
<1> QED BY <1>1, <1>3

\* The remainder of a number.
LEMMA Remainder ==
    ASSUME NEW n \in Nat, NEW k \in Nat \ {0}
    PROVE  n % k \in Nat /\ n % k <= n /\ n % k < k
BY SMT

LEMMA InCopy ==
    ASSUME InShort!InAssumption, InInv, InShort!CopyRest
    PROVE  InInv' /\ last'.op = "copy" /\ \E k \in Nat : GivesNext(k)
<1>0. Length \in Nat /\ InBS \in Nat \ {0} /\ fpos \in Nat /\ fpos <= Length /\ size \in Nat /\ size <= fpos
  BY DEF InShort!InAssumption, InInv
<1>1. PICK n \in 0..(Length - fpos) :
        /\ out' = SubSeq(buff, pos + 1, pos + size) \o InShort!Bytes(fpos, n) /\ partial' = FALSE
        /\ buff' = InShort!Bytes(fpos + n - (n % InBS), n % InBS) /\ pos' = 0 /\ size' = 0
        /\ fpos' = fpos + n
  BY DEF InShort!CopyRest
<1>2. last'.op = "copy"
  BY DEF InShort!CopyRest
<1>3. n \in Nat /\ n % InBS \in Nat /\ n % InBS <= n /\ n % InBS < InBS
  BY <1>0, Remainder
<1> DEFINE r == n % InBS
<1>4. r \in Nat /\ r <= n /\ r < InBS /\ buff' = InShort!Bytes(fpos + n - r, r)
  BY <1>1, <1>3
<1> HIDE DEF r
<1>5. fpos + n - r \in Nat /\ fpos' \in Nat /\ fpos' \in 0..Length /\ fpos - size \in Nat
      /\ (fpos - size) + size = fpos /\ fpos' - 0 = (fpos - size) + (size + n) /\ size + n \in Nat
  BY <1>0, <1>1, <1>3, <1>4
<1>6. buff' \in Seq(Nat) /\ Len(buff') = r
  BY <1>4, <1>5, BytesAre
<1>7. SubSeq(buff', pos' + 1, pos' + 0) = InShort!Bytes(fpos' - 0, 0)
  BY <1>1, <1>5, NothingAhead
<1>8. InShort!Window'
  BY <1>1, <1>7 DEF InShort!Window, InShort!Logical
<1>9. Len(buff') <= InBS /\ pos' + size' <= Len(buff')
  BY <1>0, <1>1, <1>4, <1>6
<1>17. /\ fpos' \in 0..Length /\ size' \in Nat /\ size' <= fpos' /\ pos' \in Nat
  <2>1. size' = 0 /\ pos' = 0
    BY <1>1
  <2> QED BY <1>5, <2>1
<1>18. partial' \in BOOLEAN
  BY <1>1
<1>10. InInv'
  BY <1>6, <1>8, <1>9, <1>17, <1>18, Zenon DEF InInv
<1>11. SubSeq(buff, pos + 1, pos + size) = InShort!Bytes(fpos - size, size)
  BY DEF InInv, InShort!Window, InShort!Logical
<1>12. InShort!Bytes(fpos - size, size) \o InShort!Bytes((fpos - size) + size, n)
       = InShort!Bytes(fpos - size, size + n)
  <2>1. PICK g \in Nat : g = fpos - size
    BY <1>5
  <2>2. InShort!Bytes(g, size) \o InShort!Bytes(g + size, n) = InShort!Bytes(g, size + n)
    BY <1>0, <1>3, BytesMeet
  <2> QED BY <2>1, <2>2, Zenon
<1>13. out' = InShort!Bytes(fpos - size, size + n)
  BY <1>1, <1>5, <1>11, <1>12, Zenon
<1>14. Len(out') = size + n
  BY <1>5, <1>13, BytesAre
<1>15. InShort!Logical' = InShort!Logical + (size + n)
  BY <1>1, <1>5 DEF InShort!Logical
<1>16. GivesNext(size + n)
  BY <1>13, <1>14, <1>15 DEF GivesNext, InShort!Logical
<1> QED BY <1>2, <1>5, <1>10, <1>16

\* A step keeps the invariant and does what the properties of steps say.
LEMMA InKeeps ==
    ASSUME InShort!InAssumption, InInv, InShort!Next
    PROVE  InInv' /\ InShort!Consecutive /\ InShort!ReadsAll /\ InShort!SeekMoves
<1>1. ASSUME NEW count \in 1..MaxCount, NEW e \in Sizes, InShort!Read(count, e)
      PROVE  InInv' /\ InShort!Consecutive /\ InShort!ReadsAll /\ InShort!SeekMoves
  <2>1. last'.op = "read"
    BY <1>1 DEF InShort!Read
  <2>2. count \in Nat \ {0} /\ e \in Nat \ {0}
    BY DEF InShort!InAssumption
  <2>3. count * e \in Nat \ {0}
    BY <2>2
  <2>4. PICK b \in InShort!Ready :
          InShort!AtEnd(b) \/ InShort!FromBuffer(b, count * e) \/ InShort!BeyondBuffer(b, count * e, e)
    BY <1>1 DEF InShort!Read
  <2>5. InInv' /\ \E k \in Nat : GivesNext(k) /\ (k = 0 => InShort!Logical = Length)
    BY <2>3, <2>4, InRead
  <2>6. PICK k \in Nat : GivesNext(k) /\ (k = 0 => InShort!Logical = Length)
    BY <2>5
  <2>7. InShort!Consecutive
    BY <2>6 DEF GivesNext, InShort!Consecutive
  <2>8. InShort!ReadsAll
    BY <2>6, EmptySeq DEF GivesNext, InShort!ReadsAll
  <2> QED BY <2>1, <2>5, <2>7, <2>8 DEF InShort!SeekMoves
<1>2. ASSUME NEW d \in (-Length)..Length, InShort!Logical + d <= Length, InShort!SeekCur(d)
      PROVE  InInv' /\ InShort!Consecutive /\ InShort!ReadsAll /\ InShort!SeekMoves
  BY <1>2, InSeekCur DEF InShort!Consecutive, InShort!ReadsAll, InShort!SeekMoves
<1>3. ASSUME NEW p \in 0..Length, InShort!SeekSet(p)
      PROVE  InInv' /\ InShort!Consecutive /\ InShort!ReadsAll /\ InShort!SeekMoves
  BY <1>3, InSeekSet DEF InShort!Consecutive, InShort!ReadsAll, InShort!SeekMoves
<1>4. CASE InShort!CopyRest
  <2>1. InInv' /\ last'.op = "copy" /\ \E k \in Nat : GivesNext(k)
    BY <1>4, InCopy
  <2> QED BY <2>1 DEF GivesNext, InShort!Consecutive, InShort!ReadsAll, InShort!SeekMoves
<1> QED BY <1>1, <1>2, <1>3, <1>4 DEF InShort!Next

LEMMA InSafe ==
    ASSUME InShort!InAssumption, InInv
    PROVE  InShort!TypeOK /\ InShort!Window
<1>1. Len(buff) \in Nat /\ InBS \in Nat /\ pos \in Nat /\ size \in Nat
      /\ pos + size <= Len(buff) /\ Len(buff) <= InBS
  BY LenProperties DEF InInv, InShort!InAssumption
<1>2. size \in 0..InBS
  BY <1>1
<1> QED BY <1>1, <1>2 DEF InInv, InShort!TypeOK

\* Complete reads are among the reads that may be short.
LEMMA GivesOne ==
    ASSUME InShort!InAssumption, NEW p \in 0..Length, NEW n \in Nat, NEW m \in In!Gives(p, n)
    PROVE  m \in InShort!Gives(p, n) /\ m = InShort!Least(n, Length - p)
<1> DEFINE most == InShort!Least(n, Length - p)
<1>1. most \in Nat
  BY DEF InShort!InAssumption, InShort!Least
<1>2. In!Least(n, Length - p) = most
  BY DEF In!Least, InShort!Least
<1>3. m = most
  BY <1>2 DEF In!Gives
<1> HIDE DEF most
<1>4. most \in (IF most > 0 THEN 1..most ELSE {most})
  BY <1>1
<1>5. InShort!Gives(p, n) = IF most > 0 THEN 1..most ELSE {most}
  BY DEF InShort!Gives, most
<1> QED BY <1>3, <1>4, <1>5 DEF most

LEMMA SameBytes == \A p, n : In!Bytes(p, n) = InShort!Bytes(p, n)
BY DEF In!Bytes, InShort!Bytes

LEMMA ReadyToo ==
    ASSUME InShort!InAssumption, InInv, NEW b \in In!Ready
    PROVE  b \in InShort!Ready
<1>1. fpos \in 0..Length /\ InBS \in Nat
  BY DEF InInv, InShort!InAssumption
<1>2. CASE size > 0
  BY <1>2 DEF In!Ready, InShort!Ready
<1>3. CASE ~(size > 0)
  <2>1. PICK n \in In!Gives(fpos, InBS) :
           b = [buff |-> In!Bytes(fpos, n), pos |-> 0, size |-> n, fpos |-> fpos + n]
    BY <1>3 DEF In!Ready
  <2>2. n \in InShort!Gives(fpos, InBS)
    BY <1>1, GivesOne
  <2> QED BY <1>3, <2>1, <2>2, SameBytes DEF InShort!Ready
<1> QED BY <1>2, <1>3

LEMMA BeyondToo ==
    ASSUME InShort!InAssumption, InInv, NEW b \in In!Ready, NEW n \in Nat, NEW e, In!BeyondBuffer(b, n, e)
    PROVE  /\ InShort!BeyondBuffer(b, n, e)
           /\ b.size + InShort!Least(n - b.size, Length - b.fpos) \in Nat
           /\ InShort!Logical' = InShort!Logical + (b.size + InShort!Least(n - b.size, Length - b.fpos))
<1>1. PICK m \in In!Gives(b.fpos, n - b.size) :
        /\ out' = SubSeq(b.buff, b.pos + 1, b.pos + b.size) \o In!Bytes(b.fpos, m)
        /\ partial' = ((b.size + m) % e # 0) /\ fpos' = b.fpos + m
  BY DEF In!BeyondBuffer
<1>2. 0 < b.size /\ b.size < n /\ buff' = b.buff /\ pos' = 0 /\ size' = 0
  BY DEF In!BeyondBuffer
<1>3. b.fpos \in 0..Length /\ b.size \in Nat /\ b.fpos - b.size = InShort!Logical
  BY ReadyToo, ReadyAhead DEF IsAhead
<1>4. n - b.size \in Nat
  BY <1>2, <1>3
<1>5. m \in InShort!Gives(b.fpos, n - b.size) /\ m = InShort!Least(n - b.size, Length - b.fpos)
  BY <1>3, <1>4, GivesOne
<1>6. m \in Nat
  BY <1>3, <1>4, <1>5, GivesSome
<1>7. InShort!BeyondBuffer(b, n, e)
  BY <1>1, <1>2, <1>5, SameBytes DEF InShort!BeyondBuffer
<1>8. fpos' - size' = (b.fpos - b.size) + (b.size + m) /\ b.size + m \in Nat
  <2>1. fpos' = b.fpos + m /\ size' = 0 /\ b.fpos \in Nat
    BY <1>1, <1>2, <1>3 DEF InShort!InAssumption
  <2> QED BY <1>3, <1>6, <2>1
<1>9. InShort!Logical' = InShort!Logical + (b.size + m)
  BY <1>3, <1>8 DEF InShort!Logical
<1> QED BY <1>5, <1>7, <1>8, <1>9

\* A complete read gives what it was asked for, up to the end of the file.
LEMMA FullRead ==
    ASSUME InShort!InAssumption, InInv, NEW count \in 1..MaxCount, NEW e \in Sizes, In!Read(count, e)
    PROVE  /\ InShort!Read(count, e) /\ last'.n = count * e /\ count * e \in Nat \ {0}
           /\ InShort!Logical' = InShort!Logical + InShort!Least(last'.n, Length - InShort!Logical)
<1> DEFINE n == count * e
           L == InShort!Logical
<1>1. n \in Nat \ {0}
  <2>1. count \in Nat \ {0} /\ e \in Nat \ {0}
    BY DEF InShort!InAssumption
  <2> QED BY <2>1
<1>2. last' = [op |-> "read", n |-> n]
  BY DEF In!Read
<1>3. last'.n = n
  BY <1>2
<1>4. PICK b \in In!Ready : In!AtEnd(b) \/ In!FromBuffer(b, n) \/ In!BeyondBuffer(b, n, e)
  BY DEF In!Read
<1>5. b \in InShort!Ready
  BY ReadyToo
<1>6. /\ b.fpos - b.size = L /\ (b.size = 0 => fpos = Length /\ size = 0 /\ b.fpos = fpos)
      /\ b.fpos \in 0..Length /\ b.size \in Nat /\ b.size <= b.fpos
  BY <1>5, ReadyAhead DEF IsAhead
<1>7. Length \in Nat /\ b.fpos \in Nat /\ b.fpos <= Length
  BY <1>6 DEF InShort!InAssumption
<1> HIDE DEF n, L
<1>8. CASE In!AtEnd(b)
  <2>1. InShort!AtEnd(b)
    BY <1>8 DEF In!AtEnd, InShort!AtEnd
  <2>2. b.size = 0 /\ size' = 0 /\ fpos' = fpos
    BY <1>8 DEF In!AtEnd
  <2>3. L = Length /\ fpos' - size' = L
    BY <1>6, <1>7, <2>2
  <2>4. L + InShort!Least(n, Length - L) = L
    BY <1>1, <1>7, <2>3 DEF InShort!Least
  <2>5. InShort!Logical' = L
    BY <2>3 DEF InShort!Logical
  <2> QED BY <1>1, <1>2, <1>3, <1>5, <2>1, <2>4, <2>5 DEF InShort!Read, n, L
<1>9. CASE In!FromBuffer(b, n)
  <2>1. InShort!FromBuffer(b, n)
    BY <1>9 DEF In!FromBuffer, InShort!FromBuffer
  <2>2. b.size >= n /\ size' = b.size - n /\ fpos' = b.fpos
    BY <1>9 DEF In!FromBuffer
  <2>3. fpos' - size' = L + n /\ n <= Length - L /\ L \in Int
    BY <1>1, <1>6, <1>7, <2>2
  <2>4. InShort!Least(n, Length - L) = n
    BY <1>1, <1>7, <2>3 DEF InShort!Least
  <2>5. InShort!Logical' = L + n
    BY <2>3 DEF InShort!Logical
  <2> QED BY <1>1, <1>2, <1>3, <1>5, <2>1, <2>4, <2>5 DEF InShort!Read, n, L
<1>10. CASE In!BeyondBuffer(b, n, e)
  <2>1. /\ InShort!BeyondBuffer(b, n, e)
        /\ InShort!Logical' = L + (b.size + InShort!Least(n - b.size, Length - b.fpos))
    BY <1>1, <1>10, BeyondToo DEF L
  <2>2. 0 < b.size /\ b.size < n
    BY <1>10 DEF In!BeyondBuffer
  <2>3. b.size + InShort!Least(n - b.size, Length - b.fpos) = InShort!Least(n, Length - L)
    BY <1>1, <1>6, <1>7, <2>2 DEF InShort!Least
  <2> QED BY <1>1, <1>2, <1>3, <1>5, <2>1, <2>3 DEF InShort!Read, n, L
<1> QED BY <1>4, <1>8, <1>9, <1>10

LEMMA FullKeeps ==
    ASSUME InShort!InAssumption, InInv, In!Next
    PROVE  InInv' /\ In!ReadsAll
<1>1. ASSUME NEW count \in 1..MaxCount, NEW e \in Sizes, In!Read(count, e)
      PROVE  InInv' /\ In!ReadsAll
  <2>1. /\ InShort!Read(count, e) /\ last'.n = count * e /\ count * e \in Nat \ {0}
        /\ InShort!Logical' = InShort!Logical + InShort!Least(last'.n, Length - InShort!Logical)
    BY <1>1, FullRead
  <2>2. PICK b \in InShort!Ready : \/ InShort!AtEnd(b) \/ InShort!FromBuffer(b, count * e)
                                   \/ InShort!BeyondBuffer(b, count * e, e)
    BY <2>1 DEF InShort!Read
  <2>3. InInv' /\ \E k \in Nat : GivesNext(k) /\ (k = 0 => InShort!Logical = Length)
    BY <2>1, <2>2, InRead
  <2>4. PICK k \in Nat : GivesNext(k) /\ (k = 0 => InShort!Logical = Length)
    BY <2>3
  <2>5. InShort!Logical \in Int /\ Length \in Nat
    BY DEF InInv, InShort!InAssumption, InShort!Logical
  <2>6. InShort!Least(last'.n, Length - InShort!Logical) \in Int
    BY <2>1, <2>5 DEF InShort!Least
  <2>7. InShort!Logical' = InShort!Logical + k /\ Len(out') = k
    BY <2>4 DEF GivesNext
  <2>8. k = InShort!Least(last'.n, Length - InShort!Logical)
    BY <2>1, <2>5, <2>6, <2>7
  <2>9. out' = <<>> => InShort!Logical = Length
    BY <2>4, <2>7, EmptySeq
  <2>10. /\ In!Logical = InShort!Logical
         /\ In!Least(last'.n, Length - In!Logical) = InShort!Least(last'.n, Length - InShort!Logical)
    BY DEF In!Logical, InShort!Logical, In!Least, InShort!Least
  <2> QED BY <2>3, <2>7, <2>8, <2>9, <2>10 DEF In!ReadsAll
<1>2. ASSUME NEW d \in (-Length)..Length, In!Logical + d <= Length, In!SeekCur(d)
      PROVE  InInv' /\ In!ReadsAll
  <2>1. InShort!Logical + d <= Length /\ InShort!SeekCur(d)
    BY <1>2 DEF In!Logical, InShort!Logical, In!SeekCur, InShort!SeekCur, In!FileSeek, InShort!FileSeek
  <2> QED BY <2>1, InSeekCur DEF In!ReadsAll
<1>3. ASSUME NEW p \in 0..Length, In!SeekSet(p)
      PROVE  InInv' /\ In!ReadsAll
  <2>1. InShort!SeekSet(p)
    BY <1>3 DEF In!SeekSet, InShort!SeekSet, In!FileSeek, InShort!FileSeek
  <2> QED BY <2>1, InSeekSet DEF In!ReadsAll
<1>4. CASE In!CopyRest
  <2>1. InShort!CopyRest
    <3>1. PICK n \in 0..(Length - fpos) :
        /\ (n % InBS) \in In!Gives(fpos + n - (n % InBS), InBS)
        /\ out' = SubSeq(buff, pos + 1, pos + size) \o In!Bytes(fpos, n) /\ partial' = FALSE
        /\ buff' = In!Bytes(fpos + n - (n % InBS), n % InBS) /\ pos' = 0 /\ size' = 0
        /\ fpos' = fpos + n
      BY <1>4 DEF In!CopyRest
    <3>2. last' = [op |-> "copy", n |-> 0]
      BY <1>4 DEF In!CopyRest
    <3>3. Length \in Nat /\ InBS \in Nat \ {0} /\ fpos \in Nat /\ fpos <= Length /\ n \in Nat /\ fpos + n <= Length
      BY DEF InInv, InShort!InAssumption
    <3>4. n % InBS \in Nat /\ n % InBS <= n
      BY <3>3, Remainder
    <3>5. fpos + n - (n % InBS) \in 0..Length
      BY <3>3, <3>4
    <3>6. (n % InBS) \in InShort!Gives(fpos + n - (n % InBS), InBS)
      BY <3>1, <3>3, <3>5, GivesOne
    <3> QED BY <3>1, <3>2, <3>6, SameBytes DEF InShort!CopyRest
  <2>2. InInv' /\ last'.op = "copy"
    BY <2>1, InCopy
  <2> QED BY <2>2 DEF In!ReadsAll
<1> QED BY <1>1, <1>2, <1>3, <1>4 DEF In!Next

-----------------------------------------------------------------------------
(* Processes.                                                              *)

Outs == Strings \cap {1, 2}
Gone == child \in {"exited", "reaped"}
DrainOf(i) == IF i = 1 THEN "drain1" ELSE "drain2"

\* The child writes while it runs, and every byte that it has written to a
\* string is in the string or in the pipe.
ChildInv ==
    /\ child \in {"none", "running", "exited", "reaped"}
    /\ child = "none" <=> pc = "run"
    /\ child = "reaped" <=> pc = "done"
    /\ doing # -1 => child = "running"

BytesInv ==
    /\ pipe \in [0..2 -> 0..PipeSize] /\ wrote \in [1..2 -> Nat] /\ got \in [1..2 -> Nat]
    /\ \A i \in Outs : wrote[i] = got[i] + pipe[i]

\* wait(): the batch that reports the end of the child reports its output as
\* well, and the loop ends only after that batch.
WaitInv ==
    /\ ChildInv /\ BytesInv /\ left \in 0..WaitInput /\ shutdown \in BOOLEAN
    /\ batch \subseteq 0..3
    /\ pc \in {"run", "wait", "dispatch", "feed", "drain1", "drain2", "waitid", "done"}
    /\ pc \in {"run", "wait"} => shutdown = FALSE /\ batch = {}
    /\ pc \in {"waitid", "done"} => shutdown = TRUE /\ batch = {}
    /\ shutdown = TRUE \/ 3 \in batch =>
          Gone /\ \A i \in Outs : pipe[i] = 0 \/ i \in batch \/ pc = DrainOf(i)

LEMMA WaitInit ==
    ASSUME Wait!ProcessAssumption, Wait!Init
    PROVE  WaitInv
<1>1. BytesInv
  BY DEF Wait!Init, BytesInv, Wait!ProcessAssumption, Outs
<1>2. left \in 0..WaitInput
  BY DEF Wait!Init, Wait!ProcessAssumption
<1> QED BY <1>1, <1>2 DEF Wait!Init, WaitInv, ChildInv

LEMMA WaitChild ==
    ASSUME Wait!ProcessAssumption, WaitInv, Wait!Child
    PROVE  WaitInv'
<1>1. /\ child = "running" /\ child' \in {"running", "exited"} /\ (doing' # -1 => child' = "running")
      /\ UNCHANGED <<got, left, pc, batch, shutdown, len>>
  BY DEF Wait!Child, Wait!ChildCalls, Wait!ChildReads, Wait!ChildWrites, Wait!ChildExits, WaitInv, ChildInv
<1>2. BytesInv'
  <2>1. CASE (\E i \in 0..2 : Wait!ChildCalls(i)) \/ Wait!ChildExits
    <3>1. UNCHANGED <<pipe, wrote, got>>
      BY <2>1 DEF Wait!ChildCalls, Wait!ChildExits
    <3> QED BY <3>1 DEF WaitInv, BytesInv
  <2>2. CASE Wait!ChildReads
    BY <2>2 DEF Wait!ChildReads, WaitInv, BytesInv, Outs, Wait!ProcessAssumption
  <2>3. ASSUME NEW i \in 1..2, Wait!ChildWrites(i)
        PROVE  BytesInv'
    BY <2>3 DEF Wait!ChildWrites, WaitInv, BytesInv, Outs, Wait!ProcessAssumption, Wait!Piped
  <2> QED BY <2>1, <2>2, <2>3 DEF Wait!Child
<1>3. shutdown = FALSE /\ 3 \notin batch
  BY <1>1 DEF WaitInv, Gone
<1> QED BY <1>1, <1>2, <1>3 DEF WaitInv, ChildInv

LEMMA WaitParent ==
    ASSUME Wait!ProcessAssumption, WaitInv, Wait!Parent
    PROVE  WaitInv'
<1>1. CASE Wait!Run
  <2>1. UNCHANGED <<doing, pipe, taken, wrote, got, left, batch, shutdown>> /\ child' = "running" /\ pc' = "wait" /\ pc = "run"
    BY <1>1 DEF Wait!Run
  <2> QED BY <2>1 DEF WaitInv, ChildInv, BytesInv, Gone
<1>2. CASE Wait!EpollWait
  <2>1. /\ pc = "wait" /\ pc' = "dispatch" /\ batch' = Wait!Ready
        /\ UNCHANGED <<child, doing, taken, wrote, pipe, got, left, shutdown>>
    BY <1>2 DEF Wait!EpollWait, Wait!process
  <2>2. shutdown = FALSE
    BY <2>1 DEF WaitInv
  <2>3. batch' \subseteq 0..3
    BY <2>1 DEF Wait!Ready, Wait!Pid, Wait!Outputs
  <2>4. 3 \in batch' => child = "exited" /\ Outs \subseteq batch'
    BY <2>1 DEF Wait!Ready, Wait!Pid, Wait!Outputs, Outs
  <2> QED BY <2>1, <2>2, <2>3, <2>4 DEF WaitInv, ChildInv, BytesInv, Gone
<1>3. CASE Wait!DispatchPid
  <2>1. /\ pc = "dispatch" /\ 3 \in batch /\ batch' = batch \ {3} /\ shutdown' = TRUE
        /\ UNCHANGED <<child, doing, taken, wrote, pipe, got, left, pc>>
    BY <1>3 DEF Wait!DispatchPid, Wait!process, Wait!Pid
  <2>2. \A i \in Outs : pipe[i] = 0 \/ i \in batch'
    BY <2>1 DEF WaitInv, Outs, DrainOf
  <2> QED BY <2>1, <2>2 DEF WaitInv, ChildInv, BytesInv, Gone
<1>4. ASSUME NEW i \in 0..2, Wait!Dispatch(i)
      PROVE  WaitInv'
  <2>1. /\ pc = "dispatch" /\ batch' = batch \ {i}
        /\ pc' = IF i = 0 THEN "feed" ELSE IF i = 1 THEN "drain1" ELSE "drain2"
        /\ UNCHANGED <<child, doing, taken, wrote, pipe, got, left, shutdown>>
    BY <1>4 DEF Wait!Dispatch, Wait!process
  <2>2. 3 \in batch' => 3 \in batch
    BY <2>1
  <2>3. i \in Outs => pc' = DrainOf(i)
    BY <2>1 DEF Outs, DrainOf
  <2>4. pc # DrainOf(1) /\ pc # DrainOf(2)
    BY <2>1 DEF DrainOf
  <2>5. \A j \in Outs : pipe[j] = 0 \/ j \in batch \/ pc = DrainOf(j) =>
           pipe[j] = 0 \/ j \in batch' \/ pc' = DrainOf(j)
    BY <2>1, <2>3, <2>4 DEF Outs
  <2>6. pc' \in {"feed", "drain1", "drain2"} /\ batch' \subseteq 0..3
    BY <2>1 DEF WaitInv
  <2> QED BY <2>1, <2>2, <2>5, <2>6 DEF WaitInv, ChildInv, BytesInv, Gone
<1>5. CASE Wait!Feed
  <2>1. /\ pc = "feed" /\ pc' \in {"feed", "dispatch"}
        /\ UNCHANGED <<child, doing, taken, wrote, got, batch, shutdown>>
    BY <1>5 DEF Wait!Feed, Wait!process
  <2>2. left' \in 0..WaitInput /\ pipe' \in [0..2 -> 0..PipeSize] /\ \A i \in Outs : pipe'[i] = pipe[i]
    BY <1>5 DEF Wait!Feed, WaitInv, BytesInv, Wait!ProcessAssumption, Outs
  <2>3. pc # DrainOf(1) /\ pc # DrainOf(2)
    BY <2>1 DEF DrainOf
  <2> QED BY <2>1, <2>2, <2>3 DEF WaitInv, ChildInv, BytesInv, Gone, Outs
<1>6. ASSUME NEW i \in 1..2, Wait!Drain(i)
      PROVE  WaitInv'
  <2> DEFINE n == Wait!Least(ReadBS, pipe[i])
  <2>1. /\ pc = DrainOf(i) /\ pc' \in {pc, "dispatch"}
        /\ UNCHANGED <<child, doing, taken, wrote, left, batch, shutdown>>
        /\ got' = [got EXCEPT ![i] = got[i] + n] /\ pipe' = [pipe EXCEPT ![i] = pipe[i] - n]
        /\ pc' # pc => ~(pipe[i] >= ReadBS)
    BY <1>6 DEF Wait!Drain, Wait!process, DrainOf
  <2>2. n \in Nat /\ n <= pipe[i] /\ (~(pipe[i] >= ReadBS) => n = pipe[i])
    BY DEF Wait!Least, WaitInv, BytesInv, Wait!ProcessAssumption
  <2> HIDE DEF n
  <2>3. BytesInv' /\ (pc' # pc => pipe'[i] = 0) /\ \A j \in Outs : pipe[j] = 0 => pipe'[j] = 0
    BY <2>1, <2>2 DEF WaitInv, BytesInv, Outs, Wait!ProcessAssumption
  <2>4. \A j \in Outs : pipe[j] = 0 \/ j \in batch \/ pc = DrainOf(j) =>
           pipe'[j] = 0 \/ j \in batch' \/ pc' = DrainOf(j)
    <3>1. \A j \in Outs : pc = DrainOf(j) => j = i
      BY <2>1 DEF Outs, DrainOf
    <3> QED BY <2>1, <2>3, <3>1
  <2>5. pc \in {"drain1", "drain2"} /\ pc' \in {"drain1", "drain2", "dispatch"}
    BY <2>1 DEF DrainOf
  <2> QED BY <2>1, <2>3, <2>4, <2>5 DEF WaitInv, ChildInv, Gone
<1>7. CASE Wait!Dispatched
  <2>1. /\ pc = "dispatch" /\ batch = {} /\ pc' = IF shutdown THEN "waitid" ELSE "wait"
        /\ UNCHANGED <<child, doing, taken, wrote, pipe, got, left, batch, shutdown>>
    BY <1>7 DEF Wait!Dispatched, Wait!process
  <2>2. \A i \in Outs : shutdown = TRUE => pipe[i] = 0
    BY <2>1 DEF WaitInv, Outs, DrainOf
  <2> QED BY <2>1, <2>2 DEF WaitInv, ChildInv, BytesInv, Gone
<1>8. CASE Wait!WaitId
  <2>1. /\ pc = "waitid" /\ child = "exited" /\ child' = "reaped" /\ pc' = "done"
        /\ UNCHANGED <<doing, pipe, taken, wrote, got, left, batch, shutdown>>
    BY <1>8 DEF Wait!WaitId
  <2>2. \A i \in Outs : pipe[i] = 0
    BY <2>1 DEF WaitInv, Outs, DrainOf
  <2> QED BY <2>1, <2>2 DEF WaitInv, ChildInv, BytesInv, Gone
<1>9. ~(Wait!WriteInput \/ Wait!InputWritten \/ Wait!ReadOutput \/ Wait!OutputEnds)
  BY DEF WaitInv, Wait!WriteInput, Wait!InputWritten, Wait!ReadOutput, Wait!OutputEnds, Wait!Awaiting
<1> QED
  BY <1>1, <1>2, <1>3, <1>4, <1>5, <1>6, <1>7, <1>8, <1>9 DEF Wait!Parent

LEMMA WaitSafe ==
    ASSUME Wait!ProcessAssumption, WaitInv
    PROVE  Wait!TypeOK /\ Wait!AllOutput
<1>1. Wait!TypeOK
  BY DEF Wait!TypeOK, WaitInv, ChildInv, BytesInv, Wait!Pid
<1>2. ASSUME pc = "done", NEW i \in Outs
      PROVE  pipe[i] = 0
  BY <1>2 DEF WaitInv, DrainOf, Outs
<1>3. ASSUME pc = "done", NEW i \in Outs
      PROVE  got[i] = wrote[i]
  BY <1>2, <1>3 DEF WaitInv, BytesInv, Outs
<1> QED BY <1>1, <1>2, <1>3 DEF Wait!AllOutput, Wait!Outputs, Outs

\* run_async(): the output task ends when the child is gone and its pipe is
\* empty, and the string has room for another read.
RunInv ==
    /\ ChildInv /\ BytesInv /\ left \in 0..RunInput /\ batch = {}
    /\ pc \in {"run", "input", "output", "waitid", "done"}
    /\ 1 \in Strings /\ pc \in {"waitid", "done"} => pipe[1] = 0 /\ Gone
    /\ len \in Nat /\ got[1] + ReadBS <= len

LEMMA RunInit ==
    ASSUME Run!ProcessAssumption, Run!Init
    PROVE  RunInv
<1>1. BytesInv
  BY DEF Run!Init, BytesInv, Run!ProcessAssumption, Outs
<1>2. left \in 0..RunInput /\ len \in Nat /\ got[1] + ReadBS <= len
  BY DEF Run!Init, Run!ProcessAssumption
<1> QED BY <1>1, <1>2 DEF Run!Init, RunInv, ChildInv

LEMMA RunChild ==
    ASSUME Run!ProcessAssumption, RunInv, Run!Child
    PROVE  RunInv'
<1>1. /\ child = "running" /\ child' \in {"running", "exited"} /\ (doing' # -1 => child' = "running")
      /\ UNCHANGED <<got, left, pc, batch, shutdown, len>>
  BY DEF Run!Child, Run!ChildCalls, Run!ChildReads, Run!ChildWrites, Run!ChildExits, RunInv, ChildInv
<1>2. BytesInv'
  <2>1. CASE (\E i \in 0..2 : Run!ChildCalls(i)) \/ Run!ChildExits
    <3>1. UNCHANGED <<pipe, wrote, got>>
      BY <2>1 DEF Run!ChildCalls, Run!ChildExits
    <3> QED BY <3>1 DEF RunInv, BytesInv
  <2>2. CASE Run!ChildReads
    BY <2>2 DEF Run!ChildReads, RunInv, BytesInv, Outs, Run!ProcessAssumption
  <2>3. ASSUME NEW i \in 1..2, Run!ChildWrites(i)
        PROVE  BytesInv'
    BY <2>3 DEF Run!ChildWrites, RunInv, BytesInv, Outs, Run!ProcessAssumption, Run!Piped
  <2> QED BY <2>1, <2>2, <2>3 DEF Run!Child
<1>3. ~(1 \in Strings /\ pc \in {"waitid", "done"})
  BY <1>1 DEF RunInv, Gone
<1> QED BY <1>1, <1>2, <1>3 DEF RunInv, ChildInv

LEMMA RunParent ==
    ASSUME Run!ProcessAssumption, RunInv, Run!Parent
    PROVE  RunInv'
<1>1. CASE Run!Run
  <2>1. /\ UNCHANGED <<doing, pipe, taken, wrote, got, left, batch, shutdown, len>>
        /\ child' = "running" /\ pc' \in {"input", "output"} /\ pc = "run"
    BY <1>1 DEF Run!Run
  <2> QED BY <2>1 DEF RunInv, ChildInv, BytesInv, Gone
<1>2. CASE Run!WriteInput
  <2>1. PICK n \in 1..Run!Least(left, PipeSize - pipe[0]) :
           pipe' = [pipe EXCEPT ![0] = pipe[0] + n] /\ left' = left - n
    BY <1>2 DEF Run!WriteInput
  <2>2. /\ pc \in {"input", "output"} /\ left > 0 /\ pipe[0] < PipeSize
        /\ UNCHANGED <<child, doing, taken, wrote, got, pc, batch, len>>
    BY <1>2 DEF Run!WriteInput, Run!Awaiting, Run!process
  <2>3. BytesInv' /\ left' \in 0..RunInput
    BY <2>1, <2>2 DEF RunInv, BytesInv, Outs, Run!Least, Run!ProcessAssumption
  <2> QED BY <2>2, <2>3 DEF RunInv, ChildInv
<1>3. CASE Run!InputWritten
  <2>1. /\ UNCHANGED <<child, doing, pipe, taken, wrote, got, left, batch, shutdown, len>>
        /\ pc' = "output" /\ pc = "input"
    BY <1>3 DEF Run!InputWritten, Run!process
  <2> QED BY <2>1 DEF RunInv, ChildInv, BytesInv
<1>4. CASE Run!ReadOutput
  <2>1. PICK n \in 1..Run!Least(ReadBS, pipe[1]) :
           /\ got' = [got EXCEPT ![1] = got[1] + n] /\ pipe' = [pipe EXCEPT ![1] = pipe[1] - n]
           /\ len' = Run!Grown(got[1], n)
    BY <1>4 DEF Run!ReadOutput
  <2>2. /\ pc \in {"input", "output"} /\ pipe[1] > 0
        /\ UNCHANGED <<child, doing, taken, wrote, left, pc, batch>>
    BY <1>4 DEF Run!ReadOutput, Run!Awaiting, Run!process
  <2>3. n \in Nat /\ n <= ReadBS /\ n <= pipe[1]
    BY <2>1, <2>2 DEF RunInv, BytesInv, Run!Least, Run!ProcessAssumption
  <2>4. BytesInv'
    BY <2>1, <2>2, <2>3 DEF RunInv, BytesInv, Outs, Run!ProcessAssumption
  <2>5. len' \in Nat /\ got'[1] + ReadBS <= len'
    <3>1. got[1] \in Nat /\ got'[1] = got[1] + n
      BY <2>1, <2>3 DEF RunInv, BytesInv
    <3> QED BY <2>1, <2>3, <3>1 DEF RunInv, Run!Grown, Run!ProcessAssumption
  <2> QED BY <2>2, <2>4, <2>5 DEF RunInv, ChildInv
<1>5. CASE Run!OutputEnds
  <2>1. /\ UNCHANGED <<child, doing, pipe, taken, wrote, got, left, batch, shutdown, len>>
        /\ pc' = "waitid" /\ pc = "output" /\ (1 \in Strings => pipe[1] = 0 /\ child = "exited")
    BY <1>5 DEF Run!OutputEnds, Run!process, Run!Piped
  <2> QED BY <2>1 DEF RunInv, ChildInv, BytesInv, Gone
<1>6. CASE Run!WaitId
  <2>1. /\ pc = "waitid" /\ child = "exited" /\ child' = "reaped" /\ pc' = "done"
        /\ UNCHANGED <<doing, pipe, taken, wrote, got, left, batch, len>>
    BY <1>6 DEF Run!WaitId
  <2> QED BY <2>1 DEF RunInv, ChildInv, BytesInv, Gone
<1>7. ~(\/ Run!EpollWait \/ Run!DispatchPid \/ (\E i \in 0..2 : Run!Dispatch(i)) \/ Run!Feed
        \/ (\E i \in 1..2 : Run!Drain(i)) \/ Run!Dispatched)
  BY DEF RunInv, Run!EpollWait, Run!DispatchPid, Run!Dispatch, Run!Feed, Run!Drain, Run!Dispatched
<1> QED
  BY <1>1, <1>2, <1>3, <1>4, <1>5, <1>6, <1>7 DEF Run!Parent

LEMMA RunSafe ==
    ASSUME Run!ProcessAssumption, RunInv
    PROVE  Run!TypeOK /\ Run!AllOutput /\ Run!OutputFits
<1>1. Run!TypeOK
  BY DEF Run!TypeOK, RunInv, ChildInv, BytesInv
<1>2. pc = "done" /\ 1 \in Outs => pipe[1] = 0 /\ got[1] = wrote[1]
  BY DEF RunInv, BytesInv, Outs
<1> QED BY <1>1, <1>2 DEF Run!AllOutput, Run!OutputFits, Run!Outputs, Outs, RunInv

-----------------------------------------------------------------------------
(* The recursive watch, with changes at any time.  What is kept: the root   *)
(* is waited for by one task or has one completion, which is no cancel; a    *)
(* task of the root waits for its inode, which no other component watches;   *)
(* a watched component has a task or a completion, or its task was refused;  *)
(* and the tasks and completions fit into the slots, which is why poll() can *)
(* always push a task in place of the one that has completed.                *)

\* The instance has a Cardinality of its own.
LEMMA SameCard == ASSUME NEW S PROVE Unsettled!Cardinality(S) = Cardinality(S)
BY DEF Unsettled!Cardinality, Cardinality

Completion == [comp : Unsettled!Levels, cancel : BOOLEAN]

\* The root is waited for once, or not at all, and a component is, by the tasks
\* T and the completions r.
RootOnce(T, r) ==
    \/ (\A k \in DOMAIN r : r[k].comp # 1) /\ \E t \in T : \A s \in T : s.comp = 1 <=> s = t
    \/ (\A t \in T : t.comp # 1) /\ \E k \in DOMAIN r : \A j \in DOMAIN r : r[j].comp = 1 <=> j = k
NoRoot(T, r) == (\A t \in T : t.comp # 1) /\ \A k \in DOMAIN r : r[k].comp # 1
Held(T, r, i) == (\E t \in T : t.comp = i) \/ \E k \in DOMAIN r : r[k].comp = i
RootStays(r) == \A k \in DOMAIN r : r[k].comp = 1 => ~r[k].cancel

TasksInv ==
    /\ IsFiniteSet(tasks)
    /\ \A t \in tasks : t.comp \in Unsettled!Levels /\ t.ino \in Nat /\ (t.comp = 1 => t.ino = 1)

ReadyInv ==
    ready \in Seq(Completion) /\ RootStays(ready)

PathInv ==
    /\ dirs \in [Unsettled!Levels -> Nat] /\ away \in [Unsettled!Levels -> Nat]
    /\ watch \in [Unsettled!Levels -> Nat] /\ made \in Nat \ {0} /\ watch[1] = 1
    /\ \A i \in Unsettled!Levels \ {1} : dirs[i] # 1 /\ away[i] # 1 /\ watch[i] # 1
    /\ pc = "init" => at \in Nat \ {0, 1}

PendingInv ==
    RootOnce(tasks, ready) /\ \A i \in Unsettled!Levels : watch[i] # 0 => Held(tasks, ready, i) \/ i \in refused

RoomInv == Cardinality(tasks) + Len(ready) <= Slots

RecursiveInv == TasksInv /\ ReadyInv /\ PathInv /\ PendingInv /\ RoomInv

LEMMA RecursiveStarts == ASSUME Unsettled!RecursiveAssumption, Unsettled!Init PROVE RecursiveInv
<1>1. tasks = {[comp |-> 1, ino |-> 1, id |-> 1]} /\ ready = <<>> /\ IsFiniteSet(tasks)
  BY FS_Singleton DEF Unsettled!Init, Unsettled!Task
<1>2. 1 \in Unsettled!Levels
  BY DEF Unsettled!RecursiveAssumption, Unsettled!Levels
<1>3. TasksInv
  BY <1>1, <1>2 DEF TasksInv
<1>4. ReadyInv
  BY <1>1 DEF ReadyInv, RootStays
<1>5. PathInv
  BY <1>2 DEF PathInv, Unsettled!Init, Unsettled!Nothing
<1>6. PendingInv
  BY <1>1, <1>2 DEF PendingInv, RootOnce, Held, Unsettled!Init, Unsettled!Nothing
<1>7. RoomInv
  <2>1. Cardinality(tasks) = 1
    BY <1>1, FS_Singleton, Zenon
  <2>2. Len(ready) = 0
    BY <1>1
  <2>3. Slots \in Nat \ {0}
    BY Zenon DEF Unsettled!RecursiveAssumption
  <2> QED BY ONLY <2>1, <2>2, <2>3 DEF RoomInv
<1> QED BY <1>3, <1>4, <1>5, <1>6, <1>7 DEF RecursiveInv

\* A walk over a set of tasks comes by each of them once.
LEMMA Walked ==
    ASSUME NEW set, IsFiniteSet(set), NEW seq \in Unsettled!Orders(set), NEW cancel \in BOOLEAN,
           \A t \in set : t.comp \in Unsettled!Levels
    PROVE  /\ Unsettled!Completions(seq, cancel) \in Seq(Completion)
           /\ \A k \in DOMAIN Unsettled!Completions(seq, cancel) :
                 /\ seq[k] \in set
                 /\ Unsettled!Completions(seq, cancel)[k] = [comp |-> seq[k].comp, cancel |-> cancel]
           /\ \A t \in set : \E k \in DOMAIN Unsettled!Completions(seq, cancel) : seq[k] = t
           /\ \A j, k \in DOMAIN Unsettled!Completions(seq, cancel) : seq[j] = seq[k] => j = k
           /\ Len(Unsettled!Completions(seq, cancel)) = Cardinality(set)
<1>1. PICK n \in Nat : n = Unsettled!Cardinality(set) /\ n = Cardinality(set)
  BY SameCard, FS_CardinalityType
<1>2. /\ seq \in [1..n -> set] /\ \A t \in set : \E k \in 1..n : seq[k] = t
      /\ \A j, k \in 1..n : seq[j] = seq[k] => j = k
  BY <1>1 DEF Unsettled!Orders, Unsettled!Bijection, Unsettled!Injection, Unsettled!Surjection, Unsettled!IsInjective
<1>3. Unsettled!Completions(seq, cancel) = [k \in 1..n |-> [comp |-> seq[k].comp, cancel |-> cancel]]
  BY <1>2 DEF Unsettled!Completions
<1>4. Unsettled!Completions(seq, cancel) \in [1..n -> Completion]
  BY <1>2, <1>3 DEF Completion
<1>5. Unsettled!Completions(seq, cancel) \in Seq(Completion)
  BY <1>1, <1>4
<1>6. Len(Unsettled!Completions(seq, cancel)) = n
  BY <1>1, <1>3
<1> QED BY <1>1, <1>2, <1>3, <1>5, <1>6

\* How the completions of a component move when the ones of a walk are put
\* behind the others.
LEMMA Appended ==
    ASSUME NEW r \in Seq(Completion), NEW c \in Seq(Completion)
    PROVE  /\ r \o c \in Seq(Completion)
           /\ DOMAIN r = 1..Len(r) /\ DOMAIN c = 1..Len(c) /\ DOMAIN (r \o c) = 1..(Len(r) + Len(c))
           /\ Len(r) \in Nat /\ Len(c) \in Nat /\ Len(r \o c) = Len(r) + Len(c)
           /\ \A k \in DOMAIN r : k \in DOMAIN (r \o c) /\ (r \o c)[k] = r[k]
           /\ \A k \in DOMAIN c : Len(r) + k \in DOMAIN (r \o c) /\ (r \o c)[Len(r) + k] = c[k]
           /\ \A k \in DOMAIN (r \o c) : k \in DOMAIN r \/ k - Len(r) \in DOMAIN c
OBVIOUS

LEMMA Handled ==
    ASSUME NEW r \in Seq(Completion), r # <<>>
    PROVE  /\ Tail(r) \in Seq(Completion) /\ Len(Tail(r)) = Len(r) - 1
           /\ DOMAIN r = 1..Len(r) /\ DOMAIN Tail(r) = 1..(Len(r) - 1) /\ Len(r) \in Nat /\ 1 \in DOMAIN r
           /\ \A k \in DOMAIN Tail(r) : k + 1 \in DOMAIN r /\ Tail(r)[k] = r[k + 1]
           /\ \A k \in DOMAIN r : k = 1 \/ k - 1 \in DOMAIN Tail(r)
OBVIOUS

LEMMA Completes ==
    ASSUME NEW T, NEW S \in SUBSET T, IsFiniteSet(T), \A t \in T : t.comp \in Unsettled!Levels,
           NEW r \in Seq(Completion), NEW cancel \in BOOLEAN, NEW seq \in Unsettled!Orders(S)
    PROVE  LET c == Unsettled!Completions(seq, cancel)
           IN  /\ r \o c \in Seq(Completion)
               /\ \A i : Held(T, r, i) => Held(T \ S, r \o c, i)
               /\ RootOnce(T, r) => RootOnce(T \ S, r \o c)
               /\ NoRoot(T, r) => NoRoot(T \ S, r \o c)
               /\ RootStays(r) /\ (cancel => \A t \in S : t.comp # 1) => RootStays(r \o c)
               /\ Cardinality(T \ S) + Len(r \o c) = Cardinality(T) + Len(r)
<1> DEFINE c == Unsettled!Completions(seq, cancel)
           q == r \o c
<1>1. IsFiniteSet(S)
  BY FS_Subset
<1>2. /\ c \in Seq(Completion)
      /\ \A k \in DOMAIN c : seq[k] \in S /\ c[k] = [comp |-> seq[k].comp, cancel |-> cancel]
      /\ \A t \in S : \E k \in DOMAIN c : seq[k] = t
      /\ \A j, k \in DOMAIN c : seq[j] = seq[k] => j = k
      /\ Len(c) = Cardinality(S)
  BY <1>1, Walked
<1>3. /\ q \in Seq(Completion)
      /\ DOMAIN r = 1..Len(r) /\ DOMAIN c = 1..Len(c) /\ DOMAIN q = 1..(Len(r) + Len(c))
      /\ Len(r) \in Nat /\ Len(c) \in Nat /\ Len(q) = Len(r) + Len(c)
      /\ \A k \in DOMAIN r : k \in DOMAIN q /\ q[k] = r[k]
      /\ \A k \in DOMAIN c : Len(r) + k \in DOMAIN q /\ q[Len(r) + k] = c[k]
      /\ \A k \in DOMAIN q : k \in DOMAIN r \/ k - Len(r) \in DOMAIN c
  BY <1>2, Appended
<1> HIDE DEF c, q
<1>4. ASSUME NEW i, Held(T, r, i)
      PROVE  Held(T \ S, q, i)
  <2>1. CASE \E k \in DOMAIN r : r[k].comp = i
    BY <1>3, <2>1 DEF Held
  <2>2. ASSUME NEW t \in T, t.comp = i, t \in S
        PROVE  \E k \in DOMAIN q : q[k].comp = i
    <3>1. PICK k \in DOMAIN c : c[k].comp = i
      BY <1>2, <2>2
    <3> QED BY <1>3, <3>1
  <2> QED BY <1>4, <2>1, <2>2 DEF Held
<1>5. ASSUME NEW k \in DOMAIN q
      PROVE  \/ k \in DOMAIN r /\ q[k] = r[k]
             \/ \E j \in DOMAIN c : k = Len(r) + j /\ q[k].comp = seq[j].comp /\ q[k].cancel = cancel
  <2>1. CASE k \in DOMAIN r
    BY <1>3, <2>1
  <2>2. CASE k \notin DOMAIN r
    <3>1. PICK j \in DOMAIN c : j = k - Len(r)
      BY <1>3, <2>2
    <3>2. k = Len(r) + j
      BY <1>3, <3>1
    <3>3. c[j].comp = seq[j].comp /\ c[j].cancel = cancel
      BY <1>2
    <3>4. q[k] = c[j]
      BY <1>3, <3>2
    <3> QED BY <3>2, <3>3, <3>4
  <2> QED BY <2>1, <2>2
<1>6. ASSUME RootOnce(T, r)
      PROVE  RootOnce(T \ S, q)
  <2>1. CASE (\A t \in T : t.comp # 1) /\ \E k \in DOMAIN r : \A j \in DOMAIN r : r[j].comp = 1 <=> j = k
    <3>1. PICK k \in DOMAIN r : \A j \in DOMAIN r : r[j].comp = 1 <=> j = k
      BY <2>1
    <3>2. k \in DOMAIN q /\ q[k].comp = 1
      BY <1>3, <3>1
    <3>3. ASSUME NEW j \in DOMAIN q, q[j].comp = 1
          PROVE  j = k
      BY <1>2, <1>5, <2>1, <3>1, <3>3
    <3> QED BY <2>1, <3>2, <3>3 DEF RootOnce
  <2>2. CASE (\A k \in DOMAIN r : r[k].comp # 1) /\ \E t \in T : \A s \in T : s.comp = 1 <=> s = t
    <3>1. PICK t \in T : \A s \in T : s.comp = 1 <=> s = t
      BY <2>2
    <3>2. CASE t \notin S
      <4>1. \A j \in DOMAIN q : q[j].comp # 1
        BY <1>2, <1>5, <2>2, <3>1, <3>2
      <4> QED BY <3>1, <3>2, <4>1 DEF RootOnce
    <3>3. CASE t \in S
      <4>1. PICK k \in DOMAIN c : seq[k] = t
        BY <1>2, <3>3
      <4>2. Len(r) + k \in DOMAIN q /\ q[Len(r) + k].comp = 1
        BY <1>2, <1>3, <3>1, <4>1
      <4>3. \A j \in DOMAIN q : q[j].comp = 1 => j = Len(r) + k
        BY <1>2, <1>5, <2>2, <3>1, <4>1
      <4> QED BY <3>1, <3>3, <4>2, <4>3 DEF RootOnce
    <3> QED BY <3>2, <3>3
  <2> QED BY <1>6, <2>1, <2>2 DEF RootOnce
<1>7. ASSUME RootStays(r), cancel => \A t \in S : t.comp # 1
      PROVE  RootStays(q)
  BY <1>2, <1>5, <1>7 DEF RootStays
<1>8. ASSUME NoRoot(T, r)
      PROVE  NoRoot(T \ S, q)
  BY <1>2, <1>5, <1>8 DEF NoRoot
<1>9. Cardinality(T \ S) + Len(q) = Cardinality(T) + Len(r)
  <2>1. Cardinality(T) \in Nat /\ Cardinality(S) \in Nat
    BY <1>1, FS_CardinalityType
  <2>2. T \cap S = S
    OBVIOUS
  <2>3. Cardinality(T \ S) = Cardinality(T) - Cardinality(S)
    BY <2>2, FS_Difference
  <2> QED BY <1>2, <1>3, <2>1, <2>3
<1> QED BY <1>3, <1>4, <1>6, <1>7, <1>8, <1>9 DEF c, q

LEMMA TakesFirst ==
    ASSUME NEW T, NEW r \in Seq(Completion), r # <<>>
    PROVE  /\ Tail(r) \in Seq(Completion) /\ r[1] \in Completion
           /\ RootOnce(T, r) /\ r[1].comp # 1 => RootOnce(T, Tail(r))
           /\ RootOnce(T, r) /\ r[1].comp = 1 => NoRoot(T, Tail(r))
           /\ \A i : Held(T, r, i) /\ i # r[1].comp => Held(T, Tail(r), i)
           /\ RootStays(r) => RootStays(Tail(r)) /\ (r[1].comp = 1 => ~r[1].cancel)
           /\ Len(Tail(r)) = Len(r) - 1 /\ Len(r) \in Nat
<1>1. /\ Tail(r) \in Seq(Completion)
      /\ DOMAIN r = 1..Len(r) /\ DOMAIN Tail(r) = 1..(Len(r) - 1) /\ Len(r) \in Nat /\ 1 \in DOMAIN r
      /\ \A k \in DOMAIN Tail(r) : k + 1 \in DOMAIN r /\ Tail(r)[k] = r[k + 1]
      /\ \A k \in DOMAIN r : k = 1 \/ k - 1 \in DOMAIN Tail(r)
      /\ Len(Tail(r)) = Len(r) - 1
  BY Handled
<1> DEFINE q == Tail(r)
<1> HIDE DEF q
<1>2. \A k \in DOMAIN r : k # 1 => k - 1 \in DOMAIN q /\ q[k - 1] = r[k] /\ k = (k - 1) + 1
  BY <1>1 DEF q
<1>3. \A k \in DOMAIN q : k + 1 \in DOMAIN r /\ q[k] = r[k + 1] /\ k + 1 # 1 /\ (k + 1) - 1 = k
  BY <1>1 DEF q
<1>4. ASSUME RootOnce(T, r), r[1].comp # 1
      PROVE  RootOnce(T, q)
  <2>1. CASE (\A t \in T : t.comp # 1) /\ \E k \in DOMAIN r : \A j \in DOMAIN r : r[j].comp = 1 <=> j = k
    <3>1. PICK k \in DOMAIN r : \A j \in DOMAIN r : r[j].comp = 1 <=> j = k
      BY <2>1
    <3>2. k - 1 \in DOMAIN q /\ \A j \in DOMAIN q : q[j].comp = 1 <=> j = k - 1
      BY <1>1, <1>2, <1>3, <1>4, <3>1
    <3> QED BY <2>1, <3>2 DEF RootOnce
  <2>2. CASE (\A k \in DOMAIN r : r[k].comp # 1) /\ \E t \in T : \A s \in T : s.comp = 1 <=> s = t
    BY <1>3, <2>2 DEF RootOnce
  <2> QED BY <1>4, <2>1, <2>2 DEF RootOnce
<1>5. ASSUME RootOnce(T, r), r[1].comp = 1
      PROVE  NoRoot(T, q)
  BY <1>1, <1>3, <1>5 DEF RootOnce, NoRoot
<1>6. \A i : Held(T, r, i) /\ i # r[1].comp => Held(T, q, i)
  BY <1>2 DEF Held
<1>7. RootStays(r) => RootStays(q) /\ (r[1].comp = 1 => ~r[1].cancel)
  BY <1>1, <1>3 DEF RootStays
<1>8. r[1] \in Completion
  BY <1>1
<1> QED BY <1>1, <1>4, <1>5, <1>6, <1>7, <1>8 DEF q

LEMMA OneMore ==
    ASSUME NEW S, NEW x, IsFiniteSet(S)
    PROVE  /\ Cardinality(S) \in Nat /\ Cardinality(S \cup {x}) \in Nat
           /\ Cardinality(S \cup {x}) <= Cardinality(S) + 1
<1>1. Cardinality(S) \in Nat
  BY FS_CardinalityType
<1>2. Cardinality(S \cup {x}) = IF x \in S THEN Cardinality(S) ELSE Cardinality(S) + 1
  BY FS_AddElement
<1> QED BY <1>1, <1>2

LEMMA Schedules ==
    ASSUME NEW T, NEW r, NEW i, NEW ino, NEW n,
           IsFiniteSet(T), (RootOnce(T, r) /\ i # 1) \/ (NoRoot(T, r) /\ i = 1)
    PROVE  /\ RootOnce(T \cup {Unsettled!Task(i, ino, n)}, r)
           /\ Held(T \cup {Unsettled!Task(i, ino, n)}, r, i)
           /\ \A j : Held(T, r, j) => Held(T \cup {Unsettled!Task(i, ino, n)}, r, j)
           /\ Cardinality(T \cup {Unsettled!Task(i, ino, n)}) <= Cardinality(T) + 1
           /\ Cardinality(T) \in Nat /\ Cardinality(T \cup {Unsettled!Task(i, ino, n)}) \in Nat
<1>1. Unsettled!Task(i, ino, n).comp = i
  BY DEF Unsettled!Task
<1> DEFINE t == Unsettled!Task(i, ino, n)
<1> HIDE DEF t
<1>2. RootOnce(T \cup {t}, r)
  BY <1>1 DEF RootOnce, NoRoot, t
<1>3. Held(T \cup {t}, r, i) /\ \A j : Held(T, r, j) => Held(T \cup {t}, r, j)
  BY <1>1 DEF Held, t
<1>4. /\ Cardinality(T \cup {t}) <= Cardinality(T) + 1
      /\ Cardinality(T) \in Nat /\ Cardinality(T \cup {t}) \in Nat
  BY OneMore, Zenon
<1> QED BY <1>2, <1>3, <1>4 DEF t

LEMMA FileSystemKeeps ==
    ASSUME Unsettled!RecursiveAssumption, RecursiveInv, Unsettled!FileSystem
    PROVE  RecursiveInv'
<1>1. UNCHANGED <<watch, evs, cp, resume, tasks, ready, pc, at, out, refused>>
  BY DEF Unsettled!FileSystem, Unsettled!Touch, Unsettled!Create, Unsettled!RemoveDir, Unsettled!MoveAway,
     Unsettled!MoveBack, Unsettled!Change, Unsettled!compvars
<1>2. PathInv'
  <2>1. /\ dirs' \in [Unsettled!Levels -> Nat] /\ away' \in [Unsettled!Levels -> Nat] /\ made' \in Nat \ {0}
        /\ \A i \in Unsettled!Levels \ {1} : dirs'[i] # 1 /\ away'[i] # 1
    <3>1. CASE Unsettled!Touch
      BY <3>1 DEF Unsettled!Touch, RecursiveInv, PathInv
    <3>2. ASSUME NEW i \in 2..Components,
                 Unsettled!Create(i) \/ Unsettled!RemoveDir(i) \/ Unsettled!MoveAway(i) \/ Unsettled!MoveBack(i)
          PROVE  /\ dirs' \in [Unsettled!Levels -> Nat] /\ away' \in [Unsettled!Levels -> Nat] /\ made' \in Nat \ {0}
                 /\ \A j \in Unsettled!Levels \ {1} : dirs'[j] # 1 /\ away'[j] # 1
      BY <3>2 DEF Unsettled!Create, Unsettled!RemoveDir, Unsettled!MoveAway, Unsettled!MoveBack, RecursiveInv, PathInv,
         Unsettled!Nothing
    <3> QED BY <3>1, <3>2 DEF Unsettled!FileSystem
  <2> QED BY <1>1, <2>1 DEF RecursiveInv, PathInv
<1> QED BY <1>1, <1>2 DEF RecursiveInv, TasksInv, ReadyInv, PendingInv, RoomInv

LEMMA RecursiveDispatches ==
    ASSUME RecursiveInv, Unsettled!Dispatcher
    PROVE  RecursiveInv'
<1>1. ASSUME NEW n \in 1..Unsettled!Len(kq), Unsettled!Dispatch(n)
      PROVE  RecursiveInv'
  <2>1. UNCHANGED <<dirs, away, made, watch, tasks, ready, pc, at, refused>>
    BY <1>1 DEF Unsettled!Dispatch
  <2> QED BY <2>1 DEF RecursiveInv, TasksInv, ReadyInv, PathInv, PendingInv, RoomInv
<1>2. ASSUME Unsettled!ResumeConsumer
      PROVE  RecursiveInv'
  <2>1. PICK S : S = {t \in tasks : t.ino = Head(resume)}
    OBVIOUS
  <2>2. PICK seq \in Unsettled!Orders(S) : ready' = ready \o Unsettled!Completions(seq, FALSE)
    BY <1>2, <2>1 DEF Unsettled!ResumeConsumer
  <2>3. /\ tasks' = tasks \ S /\ UNCHANGED <<dirs, away, made, watch, pc, at, refused>>
    BY <1>2, <2>1 DEF Unsettled!ResumeConsumer, Unsettled!fsvars, Unsettled!compvars
  <2>4. /\ S \in SUBSET tasks /\ IsFiniteSet(tasks) /\ \A t \in tasks : t.comp \in Unsettled!Levels
        /\ ready \in Seq(Completion) /\ RootStays(ready) /\ FALSE \in BOOLEAN
    BY <2>1 DEF RecursiveInv, TasksInv, ReadyInv
  <2>5. /\ ready' \in Seq(Completion) /\ RootStays(ready')
        /\ \A i : Held(tasks, ready, i) => Held(tasks', ready', i)
        /\ RootOnce(tasks, ready) => RootOnce(tasks', ready')
        /\ Cardinality(tasks') + Len(ready') = Cardinality(tasks) + Len(ready)
    BY <2>2, <2>3, <2>4, Completes
  <2>6. IsFiniteSet(tasks')
    BY <2>3, <2>4, FS_Subset
  <2>7. PendingInv'
    BY <2>3, <2>5 DEF RecursiveInv, PendingInv
  <2>8. RoomInv'
    BY <2>5 DEF RecursiveInv, RoomInv
  <2> QED BY <2>3, <2>4, <2>5, <2>6, <2>7, <2>8 DEF RecursiveInv, TasksInv, ReadyInv, PathInv
<1> QED BY <1>1, <1>2 DEF Unsettled!Dispatcher

LEMMA HandleKeeps ==
    ASSUME Unsettled!RecursiveAssumption, RecursiveInv, Unsettled!Handle
    PROVE  RecursiveInv'
<1>1. PICK i : i = ready[1].comp
  OBVIOUS
<1>2. /\ ready \in Seq(Completion) /\ ready # <<>> /\ RootStays(ready)
      /\ RootOnce(tasks, ready) /\ \A j \in Unsettled!Levels : watch[j] # 0 => Held(tasks, ready, j) \/ j \in refused
      /\ IsFiniteSet(tasks) /\ \A t \in tasks : t.comp \in Unsettled!Levels /\ t.ino \in Nat /\ (t.comp = 1 => t.ino = 1)
  BY DEF RecursiveInv, ReadyInv, PendingInv, TasksInv, Unsettled!Handle
<1>3. /\ Tail(ready) \in Seq(Completion) /\ RootStays(Tail(ready)) /\ i \in Unsettled!Levels
      /\ (i # 1 => RootOnce(tasks, Tail(ready))) /\ (i = 1 => NoRoot(tasks, Tail(ready)) /\ ~ready[1].cancel)
      /\ \A j : Held(tasks, ready, j) /\ j # i => Held(tasks, Tail(ready), j)
      /\ Len(Tail(ready)) = Len(ready) - 1 /\ Len(ready) \in Nat
  BY <1>1, <1>2, TakesFirst DEF Completion
<1>0. Cardinality(tasks) + Len(ready) <= Slots /\ Cardinality(tasks) \in Nat /\ Slots \in Nat
  BY <1>2, FS_CardinalityType DEF RecursiveInv, RoomInv, Unsettled!RecursiveAssumption
<1>4. CASE ready[1].cancel
  <2> DEFINE S == Unsettled!Abandoned(watch[i])
  <2>1. PICK seq \in Unsettled!Orders(S) : ready' = Tail(ready) \o Unsettled!Completions(seq, TRUE)
    BY <1>1, <1>4 DEF Unsettled!Handle, Unsettled!HandleCanceled
  <2>2. /\ tasks' = tasks \ S /\ watch' = [watch EXCEPT ![i] = 0] /\ pc' = "select"
        /\ UNCHANGED <<dirs, away, made, at, refused>>
    BY <1>1, <1>4 DEF Unsettled!Handle, Unsettled!HandleCanceled, Unsettled!LoopsOn, Unsettled!Nothing
  <2>3. S \in SUBSET tasks /\ \A t \in S : t.ino = watch[i]
    BY DEF Unsettled!Abandoned
  <2>4. i # 1 /\ \A t \in S : t.comp # 1
    BY <1>2, <1>3, <1>4, <2>3 DEF RecursiveInv, PathInv
  <2> HIDE DEF S
  <2>5. /\ ready' \in Seq(Completion) /\ RootStays(ready') /\ RootOnce(tasks', ready')
        /\ \A j : Held(tasks, Tail(ready), j) => Held(tasks', ready', j)
        /\ Cardinality(tasks') + Len(ready') = Cardinality(tasks) + Len(Tail(ready))
    BY <1>2, <1>3, <2>1, <2>2, <2>3, <2>4, Completes
  <2>6. TasksInv'
    BY <1>2, <2>2, FS_Subset DEF TasksInv
  <2>7. PathInv'
    BY <1>3, <2>2, <2>4 DEF RecursiveInv, PathInv
  <2>8. PendingInv'
    BY <1>2, <1>3, <2>2, <2>5 DEF RecursiveInv, PathInv, PendingInv
  <2>9. RoomInv'
    BY <1>0, <1>3, <2>5 DEF RoomInv
  <2> QED BY <2>5, <2>6, <2>7, <2>8, <2>9 DEF RecursiveInv, ReadyInv
<1>6. CASE ~ready[1].cancel /\ watch[i] = 0
  <2>1. UNCHANGED <<dirs, away, made, watch, tasks, ready, refused>> /\ pc' = "crashed"
    BY <1>1, <1>6 DEF Unsettled!Handle, Unsettled!HandleReset, Unsettled!fsvars, Unsettled!compvars, Unsettled!Nothing
  <2> QED BY <2>1 DEF RecursiveInv, TasksInv, ReadyInv, PathInv, PendingInv, RoomInv
<1>5. CASE ~ready[1].cancel /\ watch[i] # 0
  <2> DEFINE t == Unsettled!Task(i, watch[i], Unsettled!FreeId)
  <2>10. Unsettled!SlotFree(Len(ready) - 1)
    BY <1>0, <1>3, SameCard DEF Unsettled!SlotFree
  <2>11. Unsettled!HandleEvents(i)
    BY <1>1, <1>5, Zenon DEF Unsettled!Handle, Unsettled!Nothing
  <2>1. UNCHANGED <<dirs, away, made, watch>> /\ (pc' = "init" => at' = i + 1)
    BY <2>10, <2>11 DEF Unsettled!HandleEvents, Unsettled!HandleFinal, Unsettled!DestroyChild, Unsettled!CreateChild,
       Unsettled!Reschedule, Unsettled!LoopsOn, Unsettled!Returns, Unsettled!fsvars
  <2>2. PathInv'
    <3>1. i + 1 \in Nat \ {0, 1}
      BY <1>3 DEF Unsettled!Levels, Unsettled!RecursiveAssumption
    <3> QED BY <2>1, <3>1 DEF RecursiveInv, PathInv
  <2>3. /\ refused' = refused \ {i}
        /\ \/ tasks' = tasks \cup {t} /\ ready' = Tail(ready)
           \/ \E S \in SUBSET tasks : /\ \A s \in S : s.comp > i
                                     /\ tasks' = (tasks \ S) \cup {t}
                                     /\ \E seq \in Unsettled!Orders(S) :
                                           ready' = Tail(ready) \o Unsettled!Completions(seq, TRUE)
    <3>1. ASSUME NEW T, Unsettled!Schedule(i, T)
          PROVE  tasks' = T \cup {t} /\ refused' = refused \ {i}
      BY <2>1, <3>1 DEF Unsettled!Schedule
    <3>2. CASE Unsettled!DestroyChild(i)
      <4> DEFINE S == {s \in tasks : s.comp > i /\ s.id = cp[s.comp]}
      <4>1. tasks' = (tasks \ S) \cup {t} /\ refused' = refused \ {i}
        BY <3>1, <3>2 DEF Unsettled!DestroyChild
      <4>2. \E seq \in Unsettled!Orders(S) : ready' = Tail(ready) \o Unsettled!Completions(seq, TRUE)
        BY <3>2 DEF Unsettled!DestroyChild
      <4> QED BY <4>1, <4>2
    <3>3. CASE Unsettled!HandleFinal /\ i = Components
      BY <3>1, <3>3 DEF Unsettled!HandleFinal
    <3>4. CASE Unsettled!CreateChild(i) \/ Unsettled!Reschedule(i)
      BY <3>1, <3>4 DEF Unsettled!CreateChild, Unsettled!Reschedule
    <3> QED BY <2>10, <2>11, <3>2, <3>3, <3>4 DEF Unsettled!HandleEvents
  <2>4. t.comp = i /\ t.ino = watch[i]
    BY DEF Unsettled!Task
  <2>5. watch[i] \in Nat /\ (i = 1 => watch[i] = 1)
    BY <1>3 DEF RecursiveInv, PathInv
  <2>6. PICK T : /\ T \in SUBSET tasks /\ tasks' = T \cup {t}
                 /\ ready' \in Seq(Completion) /\ RootStays(ready')
                 /\ (i # 1 => RootOnce(T, ready')) /\ (i = 1 => NoRoot(T, ready'))
                 /\ \A j : Held(tasks, Tail(ready), j) => Held(T, ready', j)
                 /\ Cardinality(T) + Len(ready') = Cardinality(tasks) + Len(Tail(ready))
    <3>1. CASE tasks' = tasks \cup {t} /\ ready' = Tail(ready)
      BY <1>3, <3>1
    <3>2. ASSUME NEW S \in SUBSET tasks, \A s \in S : s.comp > i, tasks' = (tasks \ S) \cup {t},
                 NEW seq \in Unsettled!Orders(S), ready' = Tail(ready) \o Unsettled!Completions(seq, TRUE)
          PROVE  /\ ready' \in Seq(Completion) /\ RootStays(ready')
                 /\ (i # 1 => RootOnce(tasks \ S, ready')) /\ (i = 1 => NoRoot(tasks \ S, ready'))
                 /\ \A j : Held(tasks, Tail(ready), j) => Held(tasks \ S, ready', j)
                 /\ Cardinality(tasks \ S) + Len(ready') = Cardinality(tasks) + Len(Tail(ready))
      <4>1. \A s \in S : s.comp # 1
        BY <1>2, <1>3, <3>2 DEF Unsettled!Levels
      <4>2. /\ ready' \in Seq(Completion) /\ RootStays(ready')
            /\ (i # 1 => RootOnce(tasks \ S, ready')) /\ (i = 1 => NoRoot(tasks \ S, ready'))
            /\ \A j : Held(tasks, Tail(ready), j) => Held(tasks \ S, ready', j)
            /\ Cardinality(tasks \ S) + Len(ready') = Cardinality(tasks) + Len(Tail(ready))
        BY <1>2, <1>3, <3>2, <4>1, Completes
      <4> QED BY <4>2
    <3> QED BY <2>3, <3>1, <3>2
  <2> HIDE DEF t
  <2>7. TasksInv'
    BY <1>2, <1>3, <2>4, <2>5, <2>6, FS_Subset, FS_AddElement DEF TasksInv
  <2>8. PendingInv'
    <3>1. /\ RootOnce(tasks', ready') /\ Held(tasks', ready', i)
          /\ \A j : Held(T, ready', j) => Held(tasks', ready', j)
      BY <1>2, <1>3, <2>6, FS_Subset, Schedules DEF t
    <3> QED BY <1>2, <1>3, <2>1, <2>3, <2>6, <3>1 DEF PendingInv
  <2>9. RoomInv'
    <3>1. IsFiniteSet(T)
      BY <1>2, <2>6, FS_Subset
    <3>2. /\ Cardinality(tasks') <= Cardinality(T) + 1 /\ Cardinality(T) \in Nat /\ Cardinality(tasks') \in Nat
      BY <2>6, <3>1, OneMore, Zenon
    <3>3. Len(ready') \in Nat
      BY <2>6
    <3> QED BY <1>0, <1>3, <2>6, <3>2, <3>3 DEF RoomInv
  <2> QED BY <2>2, <2>6, <2>7, <2>8, <2>9 DEF RecursiveInv, ReadyInv
<1> QED BY <1>4, <1>5, <1>6

LEMMA InitStepKeeps ==
    ASSUME Unsettled!RecursiveAssumption, RecursiveInv, Unsettled!InitStep
    PROVE  RecursiveInv'
<1>1. PICK old : old = IF watch[at] = dirs[at] THEN 0 ELSE watch[at]
  OBVIOUS
<1>2. PICK i : i = at
  OBVIOUS
<1> DEFINE S == Unsettled!Abandoned(old)
           t == Unsettled!Task(i, dirs[i], Unsettled!FreeId)
<1>3. /\ pc = "init" /\ i \in Unsettled!Levels /\ i \in Nat \ {0, 1}
      /\ watch' = [watch EXCEPT ![i] = dirs[i]] /\ (pc' = "init" => at' = i + 1)
      /\ UNCHANGED <<dirs, away, made>>
  BY <1>2 DEF Unsettled!InitStep, Unsettled!Exists, Unsettled!Refused, Unsettled!Returns, RecursiveInv, PathInv
<1>4. watch'[i] = dirs[i] /\ dirs[i] \in Nat /\ dirs[i] # 1 /\ old # 1 /\ i # 1
  BY <1>1, <1>2, <1>3 DEF RecursiveInv, PathInv
<1>5. PICK seq \in Unsettled!Orders(S) : ready' = ready \o Unsettled!Completions(seq, TRUE)
  BY <1>1 DEF Unsettled!InitStep, Unsettled!Nothing
<1>6. \/ Cardinality(tasks) + Len(ready) < Slots /\ tasks' = (tasks \ S) \cup {t} /\ refused' = refused \ {i}
      \/ tasks' = tasks \ S /\ refused' = refused \cup {i}
  BY <1>1, <1>2, <1>4, SameCard
     DEF Unsettled!InitStep, Unsettled!Nothing, Unsettled!Schedule, Unsettled!Refused, Unsettled!SlotFree
<1>7. S \in SUBSET tasks /\ (\A s \in S : s.ino = old) /\ t.comp = i /\ t.ino = dirs[i]
  BY DEF Unsettled!Abandoned, Unsettled!Task
<1>8. /\ ready \in Seq(Completion) /\ RootStays(ready) /\ RootOnce(tasks, ready)
      /\ \A j \in Unsettled!Levels : watch[j] # 0 => Held(tasks, ready, j) \/ j \in refused
      /\ IsFiniteSet(tasks) /\ \A s \in tasks : s.comp \in Unsettled!Levels /\ s.ino \in Nat /\ (s.comp = 1 => s.ino = 1)
  BY DEF RecursiveInv, ReadyInv, PendingInv, TasksInv
<1> HIDE DEF S
<1>9. \A s \in S : s.comp # 1
  BY <1>4, <1>7, <1>8
<1>10. /\ ready' \in Seq(Completion) /\ RootStays(ready') /\ RootOnce(tasks \ S, ready')
       /\ \A j : Held(tasks, ready, j) => Held(tasks \ S, ready', j)
       /\ Cardinality(tasks \ S) + Len(ready') = Cardinality(tasks) + Len(ready)
  BY <1>5, <1>7, <1>8, <1>9, Completes
<1>11. /\ RootOnce(tasks', ready') /\ (Held(tasks', ready', i) \/ i \in refused')
       /\ \A j : Held(tasks \ S, ready', j) => Held(tasks', ready', j)
       /\ \A j : j \in refused /\ j # i => j \in refused'
  <2>1. IsFiniteSet(tasks \ S)
    BY <1>8, FS_Subset
  <2>2. CASE tasks' = (tasks \ S) \cup {t} /\ refused' = refused \ {i}
    <3>1. /\ RootOnce(tasks', ready') /\ Held(tasks', ready', i)
          /\ \A j : Held(tasks \ S, ready', j) => Held(tasks', ready', j)
      BY <1>4, <1>10, <2>1, <2>2, Schedules DEF t
    <3> QED BY <2>2, <3>1, Zenon
  <2>3. CASE tasks' = tasks \ S /\ refused' = refused \cup {i}
    BY <1>10, <2>3, Zenon
  <2> QED BY <1>6, <2>2, <2>3
<1>15. RoomInv'
  <2>1. IsFiniteSet(tasks \ S) /\ Cardinality(tasks) \in Nat /\ Cardinality(tasks \ S) \in Nat
    BY <1>8, FS_Subset, FS_CardinalityType
  <2>2. /\ Cardinality((tasks \ S) \cup {t}) <= Cardinality(tasks \ S) + 1
        /\ Cardinality((tasks \ S) \cup {t}) \in Nat
    BY <2>1, OneMore, Zenon
  <2>3. Len(ready) \in Nat /\ Len(ready') \in Nat /\ Cardinality(tasks) + Len(ready) <= Slots /\ Slots \in Nat
    BY <1>8, <1>10 DEF RecursiveInv, RoomInv, Unsettled!RecursiveAssumption
  <2>4. Cardinality(tasks \ S) + Len(ready') = Cardinality(tasks) + Len(ready)
    BY <1>10
  <2>5. \/ Cardinality(tasks) + Len(ready) < Slots /\ Cardinality(tasks') = Cardinality((tasks \ S) \cup {t})
        \/ Cardinality(tasks') = Cardinality(tasks \ S)
    BY <1>6, Zenon
  <2> QED BY ONLY <2>1, <2>2, <2>3, <2>4, <2>5 DEF RoomInv
<1> HIDE DEF t
<1>12. TasksInv'
  BY <1>3, <1>4, <1>6, <1>7, <1>8, FS_Subset, FS_AddElement DEF TasksInv
<1>13. PathInv'
  BY <1>3, <1>4 DEF RecursiveInv, PathInv
<1>14. PendingInv'
  BY <1>3, <1>8, <1>10, <1>11 DEF RecursiveInv, PathInv, PendingInv
<1> QED BY <1>10, <1>12, <1>13, <1>14, <1>15 DEF RecursiveInv, ReadyInv

LEMMA RecursiveKeeps ==
    ASSUME Unsettled!RecursiveAssumption, RecursiveInv, Unsettled!Next
    PROVE  RecursiveInv'
<1>1. CASE Unsettled!Poll \/ Unsettled!InitEnds
  <2>1. UNCHANGED <<dirs, away, made, watch, tasks, ready, refused>> /\ pc' # "init"
    BY <1>1 DEF Unsettled!Poll, Unsettled!InitEnds, Unsettled!LoopsOn, Unsettled!Returns, Unsettled!fsvars, Unsettled!compvars
  <2> QED BY <2>1 DEF RecursiveInv, TasksInv, ReadyInv, PathInv, PendingInv, RoomInv
<1> QED
  BY <1>1, FileSystemKeeps, RecursiveDispatches, HandleKeeps, InitStepKeeps DEF Unsettled!Next, Unsettled!Poller

LEMMA RecursiveSafe ==
    ASSUME Unsettled!RecursiveAssumption, RecursiveInv
    PROVE  Unsettled!RootPending /\ Unsettled!WatchedIsPending
<1>1. ASSUME NEW t \in tasks
      PROVE  Unsettled!TasksOf(1) = {t} <=> \A s \in tasks : s.comp = 1 <=> s = t
  BY DEF Unsettled!TasksOf
<1>2. ASSUME NEW k \in DOMAIN ready
      PROVE  Unsettled!CompletionsOf(1) = {k} <=> \A j \in DOMAIN ready : ready[j].comp = 1 <=> j = k
  BY DEF Unsettled!CompletionsOf
<1>3. /\ Unsettled!TasksOf(1) = {} <=> \A t \in tasks : t.comp # 1
      /\ Unsettled!CompletionsOf(1) = {} <=> \A k \in DOMAIN ready : ready[k].comp # 1
  BY DEF Unsettled!TasksOf, Unsettled!CompletionsOf
<1>4. Unsettled!RootPending
  BY <1>1, <1>2, <1>3 DEF RecursiveInv, PendingInv, Unsettled!RootPending, RootOnce
<1>5. ASSUME NEW i
      PROVE  /\ Unsettled!TasksOf(i) # {} <=> \E t \in tasks : t.comp = i
             /\ Unsettled!CompletionsOf(i) # {} <=> \E k \in DOMAIN ready : ready[k].comp = i
  BY DEF Unsettled!TasksOf, Unsettled!CompletionsOf
<1>6. ASSUME NEW i
      PROVE  (Unsettled!TasksOf(i) # {} \/ Unsettled!CompletionsOf(i) # {}) <=> Held(tasks, ready, i)
  BY <1>5, Zenon DEF Held
<1>7. Unsettled!WatchedIsPending
  <2>1. \A i \in Unsettled!Levels : watch[i] # Unsettled!Nothing =>
           Unsettled!TasksOf(i) # {} \/ Unsettled!CompletionsOf(i) # {} \/ i \in refused
    BY <1>6 DEF RecursiveInv, PendingInv, Unsettled!Nothing
  <2>2. Unsettled!Cardinality(tasks) + Len(ready) <= Slots
    BY SameCard DEF RecursiveInv, RoomInv
  <2> QED BY <2>1, <2>2, Zenon DEF Unsettled!WatchedIsPending
<1> QED BY <1>4, <1>7

-----------------------------------------------------------------------------
(* The suite.                                                              *)

FilesInv ==
    /\ part = "watchers" => WatchersInv
    /\ part = "out" => OutInv
    /\ part \in {"in", "in short"} => InInv
    /\ part = "wait" => WaitInv
    /\ part = "async" => RunInv
    /\ part = "recursive any" => RecursiveInv

LEMMA Bounds ==
    /\ Singleton!DirWatchAssumption /\ Out!OutAssumption /\ InShort!InAssumption
    /\ Wait!ProcessAssumption /\ Run!ProcessAssumption /\ Unsettled!RecursiveAssumption
BY MCFilesAssumption

\* Every part keeps its invariant from its first state on, for any number of
\* watchers and directories, any sizes of buffers and pipes and any input.
THEOREM FilesCorrect == Spec => []FilesInv
<1>1. Init => FilesInv
  <2>1. In!Init => InShort!Init
    BY DEF In!Init, InShort!Init
  <2> QED BY <2>1, Bounds, WatchersInit, OutInit, InInit, WaitInit, RunInit, RecursiveStarts DEF Init, FilesInv
<1>2. FilesInv /\ [Next]_vars => FilesInv'
  <2> SUFFICES ASSUME FilesInv, [Next]_vars
               PROVE  FilesInv'
    OBVIOUS
  <2>1. CASE SingletonStep
    BY <2>1, Bounds, WatchersKeep DEF SingletonStep, FilesInv
  <2>2. CASE OutStep
    BY <2>2, Bounds, OutKeeps DEF OutStep, FilesInv
  <2>3. CASE WaitStep
    BY <2>3, Bounds, WaitChild, WaitParent DEF WaitStep, FilesInv, Wait!Next
  <2>4. CASE RunStep
    BY <2>4, Bounds, RunChild, RunParent DEF RunStep, FilesInv, Run!Next
  <2>5. CASE InStep
    BY <2>5, Bounds, FullKeeps DEF InStep, FilesInv
  <2>6. CASE InShortStep
    BY <2>6, Bounds, InKeeps DEF InShortStep, FilesInv
  <2>7. CASE RecursiveStep
    BY <2>7 DEF RecursiveStep, FilesInv
  <2>8. CASE UnsettledStep
    BY <2>8, Bounds, RecursiveKeeps DEF UnsettledStep, FilesInv
  <2>9. CASE UNCHANGED vars
    <3>1. WatchersInv => WatchersInv'
      BY <2>9 DEF vars, WatchersInv, Count, Card, Singleton!Users, Singleton!EndsAfterFailure
    <3>2. OutInv => OutInv'
      BY <2>9 DEF vars, OutInv, OutTypes, OutPhases, Out!RestKept, Out!Pending
    <3>3. WaitInv => WaitInv'
      BY <2>9 DEF vars, WaitInv, ChildInv, BytesInv, Gone
    <3>4. RunInv => RunInv'
      BY <2>9 DEF vars, RunInv, ChildInv, BytesInv, Gone
    <3>5. InInv => InInv'
      BY <2>9 DEF vars, InInv, InShort!Window, InShort!Logical
    <3>6. RecursiveInv => RecursiveInv'
      BY <2>9 DEF vars, RecursiveInv, TasksInv, ReadyInv, PathInv, PendingInv, RoomInv
    <3> QED BY <2>9, <3>1, <3>2, <3>3, <3>4, <3>5, <3>6 DEF vars, FilesInv
  <2> QED BY <2>1, <2>2, <2>3, <2>4, <2>5, <2>6, <2>7, <2>8, <2>9 DEF Next, Rests
<1> QED BY <1>1, <1>2, PTL DEF Spec

\* The users of a directory are the watchers that hold it, through any order of
\* construction, move, destruction and failed inotify_add_watch.
THEOREM WatchersCounted == Spec => []UsersCounted
<1>1. FilesInv => UsersCounted
  BY Bounds, WatchersSafe DEF FilesInv, UsersCounted
<1> QED BY <1>1, FilesCorrect, PTL

\* The file with the buffer holds what was written, however the writes, the
\* flushes, the seeks and the short writes of the file fall.
THEOREM OutputKept == Spec => []NothingLost
<1>1. FilesInv => NothingLost
  BY Bounds, OutSafe DEF FilesInv, NothingLost
<1> QED BY <1>1, FilesCorrect, PTL

\* No byte of an input is given twice and none is skipped, a complete read gives
\* all that was asked for, and a seek is relative to the position the user knows.
THEOREM InputConsecutive == Spec => Consecutive
<1>1. FilesInv /\ [Next]_vars => [part = "in" => In!ReadsAll]_vars
  <2>1. ASSUME FilesInv, Next, part = "in"
        PROVE  In!ReadsAll
    <3>1. In!Next
      BY <2>1 DEF Next, SingletonStep, RecursiveStep, UnsettledStep, OutStep, InStep, InShortStep, WaitStep, RunStep, Rests
    <3> QED BY <2>1, <3>1, Bounds, FullKeeps DEF FilesInv
  <2> QED BY <2>1
<1>2. FilesInv /\ [Next]_vars =>
        [part = "in short" => InShort!ReadsAll /\ InShort!Consecutive /\ InShort!SeekMoves]_vars
  <2>1. ASSUME FilesInv, Next, part = "in short"
        PROVE  InShort!ReadsAll /\ InShort!Consecutive /\ InShort!SeekMoves
    <3>1. InShort!Next
      BY <2>1 DEF Next, SingletonStep, RecursiveStep, UnsettledStep, OutStep, InStep, InShortStep, WaitStep, RunStep, Rests
    <3> QED BY <2>1, <3>1, Bounds, InKeeps DEF FilesInv
  <2> QED BY <2>1
<1>3. FilesInv => (part = "in short" => InShort!TypeOK /\ InShort!Window)
  BY Bounds, InSafe DEF FilesInv
<1>4. /\ FilesInv /\ [Next]_vars => [part = "in short" => InShort!ReadsAll]_vars
      /\ FilesInv /\ [Next]_vars => [part = "in short" => InShort!Consecutive]_vars
      /\ FilesInv /\ [Next]_vars => [part = "in short" => InShort!SeekMoves]_vars
  BY <1>2
<1> QED BY <1>1, <1>3, <1>4, FilesCorrect, PTL DEF Spec, Consecutive

\* The caller of a process has all of its output when the call returns, and no
\* read of it goes beyond the string.
THEOREM OutputRead == Spec => []AllOutput
<1>1. FilesInv => AllOutput
  BY Bounds, WaitSafe, RunSafe DEF FilesInv, AllOutput
<1> QED BY <1>1, FilesCorrect, PTL

\* Until the program ends at an event of a component that was reset, which it
\* reads through a null watch, the root is waited for by one task or has one
\* completion, whatever changes and when, and so is any other watched component
\* unless init() found no slot for its task; poll() always finds one.
THEOREM RootWatched == Spec => []WatchedIsPending
<1>1. FilesInv => WatchedIsPending
  BY Bounds, RecursiveSafe DEF FilesInv, WatchedIsPending
<1> QED BY <1>1, FilesCorrect, PTL
=============================================================================
