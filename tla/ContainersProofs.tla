--------------------------- MODULE ContainersProofs ---------------------------
(***************************************************************************)
(* Proofs about the containers, for every size, set of keys and set of     *)
(* values: the ring buffer is a window, the robin map finds every key and  *)
(* implements a map, and of a variant, a function and an optional value    *)
(* one value lives, is destroyed once, and shows what an abstract holder   *)
(* shows.                                                                  *)
(***************************************************************************)
EXTENDS MCContainers, FiniteSetTheorems, WellFoundedInduction, TLAPS

-----------------------------------------------------------------------------
(* The inductive invariant: the insertion follows the newest element, and   *)
(* the cells that hold no element hold the default.                         *)

\* A position on its second round.
Wrap(p) == IF p < cap THEN p ELSE p - cap

RingInv ==
    /\ TypeOK
    /\ insert = Wrap(start + size)
    /\ \A k \in size..(cap - 1) : data[Wrap(start + k) + 1] = Default

-----------------------------------------------------------------------------
(* Remainders.                                                              *)

LEMMA ModWrap ==
    ASSUME NEW n \in Nat \ {0}, NEW x \in 0..(n + n - 1)
    PROVE  x % n = IF x < n THEN x ELSE x - n
<1>1. CASE x < n
  BY <1>1, SMT
<1>2. CASE ~(x < n)
  BY <1>2, SMT
<1> QED BY <1>1, <1>2

LEMMA ModSmall ==
    ASSUME NEW n \in Nat \ {0}, NEW x \in 0..(n - 1)
    PROVE  x % n = x
  BY SMT

LEMMA DivMod ==
    ASSUME NEW n \in Nat \ {0}, NEW x \in Nat
    PROVE  /\ x \div n \in Nat /\ x % n \in 0..(n - 1)
           /\ x = n * (x \div n) + (x % n)
  BY SMT

LEMMA ModOfSum ==
    ASSUME NEW n \in Nat \ {0}, NEW q \in Nat, NEW r \in 0..(n - 1)
    PROVE  (n * q + r) % n = r
  BY SMT

\* A round less.
LEMMA ModLess ==
    ASSUME NEW n \in Nat \ {0}, NEW x \in Nat, n <= x
    PROVE  (x - n) % n = x % n
<1>1. PICK y \in Nat : y = x - n
  OBVIOUS
<1>2. PICK q \in Nat, r \in 0..(n - 1) : y = n * q + r /\ r = y % n
  BY DivMod
<1>3. PICK p \in Nat : p = q + 1 /\ x = n * p + r
  BY <1>1, <1>2
<1>4. (n * p + r) % n = r
  BY ModOfSum
<1> QED BY <1>1, <1>2, <1>3, <1>4

\* A number is known by its remainder among n neighbours.
LEMMA ModDistinct ==
    ASSUME NEW n \in Nat \ {0}, NEW x \in Nat, NEW y \in Nat,
           x % n = y % n, x - y < n, y - x < n
    PROVE  x = y
<1>1. PICK p \in Nat, r \in 0..(n - 1) : x = n * p + r /\ r = x % n
  BY DivMod
<1>2. PICK q \in Nat : y = n * q + r
  BY <1>1, DivMod
<1>3. p = q
  BY <1>1, <1>2, SMT
<1> QED BY <1>1, <1>2, <1>3

\* Steps after a remainder.
LEMMA ModAdd ==
    ASSUME NEW n \in Nat \ {0}, NEW x \in Nat, NEW j \in 0..(n - 1)
    PROVE  (x + j) % n = ((x % n) + j) % n
<1>1. PICK q \in Nat, r \in 0..(n - 1) : x = n * q + r /\ r = x % n
  BY DivMod
<1>2. CASE r + j < n
  <2>1. PICK s \in 0..(n - 1) : s = r + j /\ x + j = n * q + s
    BY <1>1, <1>2
  <2>2. (n * q + s) % n = s /\ s % n = s
    BY ModOfSum, SMT
  <2> QED BY <1>1, <2>1, <2>2
<1>3. CASE ~(r + j < n)
  <2>1. PICK s \in 0..(n - 1), p \in Nat : s = r + j - n /\ p = q + 1 /\ x + j = n * p + s
    BY <1>1, <1>3
  <2>2. (n * p + s) % n = s
    BY ModOfSum
  <2>3. PICK u \in 0..(n + n - 1) : u = r + j /\ ~(u < n)
    BY <1>3, <2>1
  <2>4. u % n = u - n
    BY <2>3, SMT
  <2>5. (x + j) % n = s /\ s = u - n
    BY <2>1, <2>2, <2>3
  <2>6. (x % n) + j = u
    BY <1>1, <2>3
  <2> QED BY <2>4, <2>5, <2>6
<1> QED BY <1>2, <1>3
-----------------------------------------------------------------------------
(* What the elements are: the cells from the start on, size of them.        *)

LEMMA WrapMod ==
    ASSUME cap \in Nat \ {0}, NEW p \in 0..(cap + cap - 1)
    PROVE  p % cap = Wrap(p) /\ Wrap(p) \in 0..(cap - 1)
<1>1. p % cap = IF p < cap THEN p ELSE p - cap
  BY ModWrap
<1> QED BY <1>1 DEF Wrap

ContentsAre ==
    /\ Contents = [k \in 1..size |-> data[Wrap(start + k - 1) + 1]]
    /\ Contents \in Seq(Elems) /\ Len(Contents) = size
    /\ Begin = start /\ End = start + size
    /\ \A k \in 0..cap : start + k \in 0..(cap + cap - 1)

LEMMA ContentsForm == RingInv => ContentsAre
<1> SUFFICES ASSUME RingInv PROVE ContentsAre
  OBVIOUS
<1>1. /\ cap \in Nat \ {0} /\ data \in [1..cap -> Elems]
      /\ start \in 0..(cap - 1) /\ insert \in 0..(cap - 1) /\ size \in 0..cap
  BY DEF RingInv, TypeOK, cap
<1>2. End = start + size
  BY <1>1 DEF RingInv, Wrap, End
<1>3. \A k \in 1..size : /\ (start + k - 1) % cap = Wrap(start + k - 1)
                         /\ Wrap(start + k - 1) \in 0..(cap - 1)
  <2>1. TAKE k \in 1..size
  <2>2. PICK p \in 0..(cap + cap - 1) : p = start + k - 1
    BY <1>1
  <2>3. p % cap = Wrap(p) /\ Wrap(p) \in 0..(cap - 1)
    BY <1>1, WrapMod
  <2> QED BY <2>2, <2>3
<1>4. End - Begin = size
  BY <1>1, <1>2 DEF Begin
<1>5. Contents = [k \in 1..size |-> data[Wrap(start + k - 1) + 1]]
  BY <1>1, <1>3, <1>4 DEF Contents, At, Begin
<1>6. \A k \in 1..size : data[Wrap(start + k - 1) + 1] \in Elems
  BY <1>1, <1>3
<1> QED BY <1>1, <1>2, <1>5, <1>6 DEF Begin, ContentsAre

LEMMA ContentsNext == RingInv' => ContentsAre'
  BY ContentsForm, PTL

LEMMA RingTypes ==
    ASSUME RingInv
    PROVE  /\ cap \in Nat \ {0} /\ data \in [1..cap -> Elems]
           /\ start \in 0..(cap - 1) /\ insert \in 0..(cap - 1) /\ size \in 0..cap
           /\ insert = IF start + size < cap THEN start + size ELSE start + size - cap
           /\ Contents = [k \in 1..size |->
                 data[(IF start + k - 1 < cap THEN start + k - 1 ELSE start + k - 1 - cap) + 1]]
           /\ Contents \in Seq(Elems) /\ Len(Contents) = size
<1>1. ContentsAre
  BY ContentsForm
<1> QED BY <1>1 DEF RingInv, TypeOK, cap, Wrap, ContentsAre

-----------------------------------------------------------------------------
(* Each operation keeps the invariant and is one of the window's.           *)

LEMMA WrapNext ==
    ASSUME cap \in Nat \ {0}, NEW p \in 0..(cap - 1)
    PROVE  (p + 1) % cap = Wrap(p + 1)
<1>1. PICK q \in 0..(cap + cap - 1) : q = p + 1
  OBVIOUS
<1> QED BY <1>1, WrapMod

\* What push writes.
LEMMA PushCells ==
    ASSUME cap \in Nat \ {0}, data \in [1..cap -> Elems], insert \in 0..(cap - 1),
           NEW v \in Elems, Push(v)
    PROVE  /\ data' \in [1..cap -> Elems] /\ data' \in Seq(Elems) /\ cap' = cap
           /\ \A j \in 0..(cap - 1) : data'[j + 1] = IF j = insert THEN v ELSE data[j + 1]
<1>1. data' = [data EXCEPT ![insert + 1] = v] /\ insert + 1 \in 1..cap
  BY DEF Push
<1>2. data' \in [1..cap -> Elems]
  BY <1>1
<1>3. data' \in Seq(Elems) /\ Len(data') = cap
  BY <1>2
<1>4. cap' = cap
  BY <1>3 DEF cap
<1> QED BY <1>1, <1>2, <1>3, <1>4

LEMMA PushKeeps ==
    ASSUME RingInv, NEW v \in Elems, Push(v)
    PROVE  RingInv'
<1>1. /\ cap \in Nat \ {0} /\ data \in [1..cap -> Elems]
      /\ start \in 0..(cap - 1) /\ insert \in 0..(cap - 1) /\ size \in 0..cap
      /\ insert = IF start + size < cap THEN start + size ELSE start + size - cap
  BY RingTypes
<1>2. (insert + 1) % cap = Wrap(insert + 1) /\ (start + 1) % cap = Wrap(start + 1)
  BY <1>1, WrapNext
<1>3. /\ data' \in [1..cap -> Elems] /\ cap' = cap /\ data' \in Seq(Elems)
      /\ \A j \in 0..(cap - 1) : data'[j + 1] = IF j = insert THEN v ELSE data[j + 1]
  BY <1>1, PushCells
<1>4. CASE size = cap
  <2>1. size' = size /\ start' = Wrap(start + 1) /\ insert' = Wrap(insert + 1)
    BY <1>2, <1>4 DEF Push
  <2>2. TypeOK'
    BY <1>1, <1>3, <1>4, <2>1 DEF TypeOK, Wrap
  <2>3. insert' = Wrap(start + size)'
    BY <1>1, <1>3, <1>4, <2>1 DEF Wrap
  <2> QED BY <1>1, <1>3, <1>4, <2>1, <2>2, <2>3 DEF RingInv
<1>5. CASE size # cap
  <2>1. size' = size + 1 /\ start' = start /\ insert' = Wrap(insert + 1)
    BY <1>2, <1>5 DEF Push
  <2>2. TypeOK'
    BY <1>1, <1>3, <1>5, <2>1 DEF TypeOK, Wrap
  <2>3. insert' = Wrap(start + size)'
    BY <1>1, <1>3, <1>5, <2>1 DEF Wrap
  <2>4. ASSUME NEW k \in (size + 1)..(cap - 1)
        PROVE  data'[Wrap(start + k) + 1] = Default
    <3>1. Wrap(start + k) \in 0..(cap - 1) /\ Wrap(start + k) # insert
      BY <1>1 DEF Wrap
    <3>2. data'[Wrap(start + k) + 1] = data[Wrap(start + k) + 1]
      BY <1>3, <3>1
    <3> QED BY <1>1, <3>2 DEF RingInv
  <2>5. \A k \in (size' )..(cap' - 1) : data'[Wrap(start + k)' + 1] = Default
    BY <1>3, <2>1, <2>4 DEF Wrap
  <2> QED BY <2>2, <2>3, <2>5 DEF RingInv
<1> QED BY <1>4, <1>5

\* The window before and after, element by element.
LEMMA PushMaps ==
    ASSUME RingInv, NEW v \in Elems, Push(v)
    PROVE  W!Push(v)
<1>1. /\ cap \in Nat \ {0} /\ data \in [1..cap -> Elems]
      /\ start \in 0..(cap - 1) /\ insert \in 0..(cap - 1) /\ size \in 0..cap
      /\ insert = IF start + size < cap THEN start + size ELSE start + size - cap
      /\ Contents = [k \in 1..size |->
            data[(IF start + k - 1 < cap THEN start + k - 1 ELSE start + k - 1 - cap) + 1]]
      /\ Contents \in Seq(Elems) /\ Len(Contents) = size
  BY RingTypes
<1>2. (insert + 1) % cap = Wrap(insert + 1) /\ (start + 1) % cap = Wrap(start + 1)
  BY <1>1, WrapNext
<1>3. /\ cap' = cap
      /\ \A j \in 0..(cap - 1) : data'[j + 1] = IF j = insert THEN v ELSE data[j + 1]
  BY <1>1, PushCells
<1>4. Contents' = [k \in 1..size' |-> data'[Wrap(start + k - 1)' + 1]]
  BY PushKeeps, ContentsNext DEF ContentsAre
<1>5. CASE size = cap
  <2>1. size' = size /\ start' = Wrap(start + 1) /\ insert = start
    BY <1>1, <1>2, <1>5 DEF Push
  <2>2. W!Newest(Append(Contents, v), cap) = [i \in 1..cap |-> Append(Contents, v)[i + 1]]
    <3> DEFINE s == Append(Contents, v)
    <3>1. s \in Seq(Elems) /\ Len(s) = cap + 1
      BY <1>1, <1>5
    <3> HIDE DEF s
    <3>2. W!Newest(s, cap) = [i \in 1..cap |-> s[Len(s) - cap + i]]
      BY ONLY <1>1, <3>1 DEF W!Newest
    <3>3. W!Newest(s, cap) = [i \in 1..cap |-> s[i + 1]]
      BY ONLY <1>1, <3>1, <3>2
    <3> QED BY ONLY <3>3 DEF s
  <2>3. ASSUME NEW i \in 1..cap
        PROVE  data'[Wrap(start + i - 1)' + 1] = Append(Contents, v)[i + 1]
    <3>1. CASE i < cap
      <4>1. Append(Contents, v)[i + 1] = data[Wrap(start + i) + 1]
        BY <1>1, <1>5, <3>1 DEF Wrap
      <4>2. Wrap(start + i - 1)' = Wrap(start + i) /\ Wrap(start + i) \in 0..(cap - 1)
        BY <1>1, <1>3, <2>1 DEF Wrap
      <4>3. Wrap(start + i) # insert
        BY <1>1, <2>1, <3>1 DEF Wrap
      <4> QED BY <1>3, <4>1, <4>2, <4>3
    <3>2. CASE i = cap
      <4>1. Append(Contents, v)[i + 1] = v
        BY <1>1, <1>5, <3>2
      <4>2. Wrap(start + i - 1)' = insert
        BY <1>1, <1>3, <2>1, <3>2 DEF Wrap
      <4> QED BY <1>1, <1>3, <4>1, <4>2
    <3>3. i < cap \/ i = cap
      BY <1>1
    <3> QED BY <3>1, <3>2, <3>3
  <2> QED BY <1>3, <1>4, <1>5, <2>1, <2>2, <2>3 DEF W!Push
<1>6. CASE size # cap
  <2>1. size' = size + 1 /\ start' = start
    BY <1>6 DEF Push
  <2>2. /\ W!Newest(Append(Contents, v), cap) = Append(Contents, v)
        /\ Append(Contents, v) = [i \in 1..(size + 1) |-> Append(Contents, v)[i]]
    BY <1>1, <1>6 DEF W!Newest
  <2>3. ASSUME NEW i \in 1..(size + 1)
        PROVE  data'[Wrap(start + i - 1)' + 1] = Append(Contents, v)[i]
    <3>1. Wrap(start + i - 1)' = Wrap(start + i - 1) /\ Wrap(start + i - 1) \in 0..(cap - 1)
      BY <1>1, <1>3, <1>6, <2>1 DEF Wrap
    <3>2. CASE i <= size
      <4>1. Append(Contents, v)[i] = data[Wrap(start + i - 1) + 1]
        BY <1>1, <3>2 DEF Wrap
      <4>2. Wrap(start + i - 1) # insert
        BY <1>1, <1>6, <3>2 DEF Wrap
      <4> QED BY <1>1, <1>3, <3>1, <4>1, <4>2
    <3>3. CASE i = size + 1
      <4>1. Append(Contents, v)[i] = v
        BY <1>1, <3>3
      <4>2. Wrap(start + i - 1) = insert
        BY <1>1, <3>3 DEF Wrap
      <4> QED BY <1>1, <1>3, <3>1, <4>1, <4>2
    <3> QED BY <1>1, <3>2, <3>3
  <2> QED BY <1>3, <1>4, <2>1, <2>2, <2>3 DEF W!Push
<1> QED BY <1>5, <1>6

\* What pop writes.
LEMMA PopCells ==
    ASSUME RingInv, Pop
    PROVE  /\ data' \in [1..cap -> Elems] /\ data' \in Seq(Elems) /\ cap' = cap
           /\ start' = start /\ size' = size - 1 /\ size > 0
           /\ insert' = Wrap(start + size - 1) /\ insert' \in 0..(cap - 1)
           /\ \A j \in 0..(cap - 1) :
                 data'[j + 1] = IF j = insert' THEN Default ELSE data[j + 1]
<1>1. /\ cap \in Nat \ {0} /\ data \in [1..cap -> Elems]
      /\ start \in 0..(cap - 1) /\ insert \in 0..(cap - 1) /\ size \in 0..cap
      /\ insert = IF start + size < cap THEN start + size ELSE start + size - cap
  BY RingTypes
<1>2. /\ size > 0 /\ size' = size - 1 /\ start' = start
      /\ insert' = (IF insert = 0 THEN cap - 1 ELSE insert - 1)
      /\ data' = [data EXCEPT ![insert' + 1] = Default]
  BY DEF Pop
<1>3. insert' = Wrap(start + size - 1) /\ insert' \in 0..(cap - 1)
  BY <1>1, <1>2 DEF Wrap
<1>4. data' \in [1..cap -> Elems]
  BY <1>1, <1>2, <1>3 DEF Elems
<1>5. data' \in Seq(Elems) /\ Len(data') = cap
  BY <1>1, <1>4
<1>6. cap' = cap
  BY <1>5 DEF cap
<1>7. \A j \in 0..(cap - 1) : data'[j + 1] = IF j = insert' THEN Default ELSE data[j + 1]
  BY <1>1, <1>2, <1>3
<1> QED BY <1>2, <1>3, <1>4, <1>5, <1>6, <1>7

LEMMA PopKeeps ==
    ASSUME RingInv, Pop
    PROVE  RingInv'
<1>1. /\ cap \in Nat \ {0} /\ data \in [1..cap -> Elems]
      /\ start \in 0..(cap - 1) /\ size \in 0..cap
  BY RingTypes
<1>2. /\ data' \in Seq(Elems) /\ cap' = cap
      /\ start' = start /\ size' = size - 1 /\ size > 0
      /\ insert' = Wrap(start + size - 1) /\ insert' \in 0..(cap - 1)
      /\ \A j \in 0..(cap - 1) : data'[j + 1] = IF j = insert' THEN Default ELSE data[j + 1]
  BY PopCells
<1>3. TypeOK'
  BY <1>1, <1>2 DEF TypeOK
<1>4. insert' = Wrap(start + size)'
  BY <1>1, <1>2 DEF Wrap
<1>5. ASSUME NEW k \in (size - 1)..(cap - 1)
      PROVE  data'[Wrap(start + k) + 1] = Default
  <2>1. Wrap(start + k) \in 0..(cap - 1)
    BY <1>1, <1>2 DEF Wrap
  <2>2. CASE k = size - 1
    <3>1. Wrap(start + k) = insert'
      BY <1>1, <1>2, <2>2 DEF Wrap
    <3> QED BY <1>2, <2>1, <3>1
  <2>3. CASE k # size - 1
    <3>1. data[Wrap(start + k) + 1] = Default
      BY <1>1, <2>3 DEF RingInv
    <3> QED BY <1>2, <2>1, <3>1
  <2> QED BY <2>2, <2>3
<1>6. \A k \in (size')..(cap' - 1) : data'[Wrap(start + k)' + 1] = Default
  BY <1>2, <1>5 DEF Wrap
<1> QED BY <1>3, <1>4, <1>6 DEF RingInv

LEMMA PopMaps ==
    ASSUME RingInv, Pop
    PROVE  W!Pop
<1>1. /\ cap \in Nat \ {0} /\ data \in [1..cap -> Elems]
      /\ start \in 0..(cap - 1) /\ size \in 0..cap
      /\ Contents = [k \in 1..size |->
            data[(IF start + k - 1 < cap THEN start + k - 1 ELSE start + k - 1 - cap) + 1]]
      /\ Contents \in Seq(Elems) /\ Len(Contents) = size
  BY RingTypes
<1>2. /\ cap' = cap /\ start' = start /\ size' = size - 1 /\ size > 0
      /\ insert' = Wrap(start + size - 1) /\ insert' \in 0..(cap - 1)
      /\ \A j \in 0..(cap - 1) : data'[j + 1] = IF j = insert' THEN Default ELSE data[j + 1]
  BY PopCells
<1>3. Contents' = [k \in 1..(size - 1) |-> data'[Wrap(start + k - 1)' + 1]]
  BY <1>2, PopKeeps, ContentsNext DEF ContentsAre
<1>4. ASSUME NEW k \in 1..(size - 1)
      PROVE  data'[Wrap(start + k - 1)' + 1] = Contents[k]
  <2>1. /\ Wrap(start + k - 1)' = Wrap(start + k - 1) /\ Wrap(start + k - 1) \in 0..(cap - 1)
        /\ Wrap(start + k - 1) # insert'
    BY <1>1, <1>2 DEF Wrap
  <2>2. Contents[k] = data[Wrap(start + k - 1) + 1]
    BY <1>1 DEF Wrap
  <2> QED BY <1>2, <2>1, <2>2
<1>5. Contents' = [k \in 1..(size - 1) |-> Contents[k]]
  BY <1>3, <1>4
<1>6. SubSeq(Contents, 1, Len(Contents) - 1) = [k \in 1..(size - 1) |-> Contents[k]]
  BY <1>1, <1>2
<1>7. Contents # <<>>
  <2>1. Len(<<>>) = 0
    OBVIOUS
  <2>2. Len(Contents) # 0
    BY <1>1, <1>2
  <2> QED BY <2>1, <2>2
<1> QED BY <1>2, <1>5, <1>6, <1>7 DEF W!Pop

\* skip is the push of a default value: the cell it lets in is a default one.
LEMMA SkipIsPush ==
    ASSUME RingInv, Skip
    PROVE  Push(Default)
<1>1. /\ cap \in Nat \ {0} /\ data \in [1..cap -> Elems]
      /\ start \in 0..(cap - 1) /\ insert \in 0..(cap - 1) /\ size \in 0..cap
      /\ insert = IF start + size < cap THEN start + size ELSE start + size - cap
  BY RingTypes
<1>2. CASE size = cap
  BY <1>1, <1>2 DEF Skip, Push
<1>3. CASE size # cap
  <2>1. data[Wrap(start + size) + 1] = Default
    BY <1>1, <1>3 DEF RingInv
  <2>2. data[insert + 1] = Default
    BY <2>1 DEF RingInv
  <2>3. data = [data EXCEPT ![insert + 1] = Default]
    BY <1>1, <2>2
  <2> QED BY <1>3, <2>3 DEF Skip, Push
<1> QED BY <1>2, <1>3

LEMMA ClearKeeps ==
    ASSUME RingInv, Clear
    PROVE  RingInv' /\ W!Clear
<1>1. cap \in Nat \ {0} /\ data' = [i \in 1..cap |-> Default]
      /\ start' = 0 /\ insert' = 0 /\ size' = 0
  BY RingTypes DEF Clear, Filled
<1>2. data' \in Seq(Elems) /\ Len(data') = cap
  BY <1>1 DEF Elems
<1>3. cap' = cap
  BY <1>2 DEF cap
<1>4. RingInv'
  BY <1>1, <1>2, <1>3 DEF RingInv, TypeOK, Wrap
<1>5. Contents' = <<>>
  BY <1>1, <1>4, ContentsNext DEF ContentsAre
<1> QED BY <1>3, <1>4, <1>5 DEF W!Clear

\* What resize writes: the k-th element, if it is kept, and the default into
\* the cells that get none.
LEMMA ResizeCells ==
    ASSUME RingInv, NEW n \in Nat, Resize(n), NEW new, new = AtLeastOne(n)
    PROVE  /\ new \in Nat \ {0} /\ cap' = new /\ data' \in Seq(Elems)
           /\ start' = (IF size > new THEN (size - new) % new ELSE 0)
           /\ insert' = size % new /\ size' = (IF size > new THEN new ELSE size)
           /\ \A k \in 1..size : k > size - new => data'[((k - 1) % new) + 1] = Contents[k]
           /\ \A i \in 1..new :
                 (\A k \in 1..size : k > size - new => (k - 1) % new # i - 1) => data'[i] = Default
<1> DEFINE kept == {k \in 1..size : k > size - new}
<1>1. new \in Nat \ {0} /\ size \in Nat /\ Contents \in Seq(Elems) /\ Len(Contents) = size
  BY RingTypes DEF AtLeastOne
<1>2. /\ data' = [i \in 1..new |->
                    IF \E k \in kept : (k - 1) % new = i - 1
                    THEN Contents[CHOOSE k \in kept : (k - 1) % new = i - 1]
                    ELSE Default]
      /\ start' = (IF size > new THEN (size - new) % new ELSE 0)
      /\ insert' = size % new /\ size' = (IF size > new THEN new ELSE size)
  BY <1>1 DEF Resize
<1>3. \A k \in kept : Contents[k] \in Elems
  BY <1>1
<1>4. data' \in Seq(Elems) /\ Len(data') = new
  <2>1. data' \in [1..new -> Elems]
    BY <1>2, <1>3 DEF Elems
  <2> QED BY <1>1, <2>1
<1>5. cap' = new
  BY <1>4 DEF cap
<1>6. ASSUME NEW k \in kept
      PROVE  data'[((k - 1) % new) + 1] = Contents[k]
  <2>1. PICK x \in Nat : x = k - 1
    BY <1>1
  <2>2. x % new \in 0..(new - 1)
    BY <1>1, DivMod
  <2>3. \A l \in kept : (l - 1) % new = x % new => l = k
    <3>1. TAKE l \in kept
    <3>2. PICK y \in Nat : y = l - 1
      BY <1>1
    <3>3. x - y < new /\ y - x < new
      BY <1>1, <2>1, <3>2
    <3>4. x % new = y % new => x = y
      BY <1>1, <3>3, ModDistinct
    <3> QED BY <1>1, <2>1, <3>2, <3>4
  <2>4. PICK i \in 1..new : i = (x % new) + 1 /\ i - 1 = x % new
    BY <1>1, <2>2
  <2>5. (CHOOSE l \in kept : (l - 1) % new = i - 1) = k
    BY <2>1, <2>3, <2>4
  <2>6. \E l \in kept : (l - 1) % new = i - 1
    BY <2>1, <2>4
  <2>7. data'[i] = Contents[k]
    BY <1>2, <2>5, <2>6
  <2> QED BY <2>1, <2>4, <2>7
<1>7. ASSUME NEW i \in 1..new, \A k \in kept : (k - 1) % new # i - 1
      PROVE  data'[i] = Default
  BY <1>2, <1>7
<1> QED BY <1>1, <1>2, <1>4, <1>5, <1>6, <1>7

LEMMA ResizeKeeps ==
    ASSUME RingInv, NEW n \in Nat, Resize(n)
    PROVE  RingInv'
<1> DEFINE new == AtLeastOne(n)
<1>1. /\ new \in Nat \ {0} /\ cap' = new /\ data' \in Seq(Elems)
      /\ start' = (IF size > new THEN (size - new) % new ELSE 0)
      /\ insert' = size % new /\ size' = (IF size > new THEN new ELSE size)
      /\ \A i \in 1..new :
            (\A k \in 1..size : k > size - new => (k - 1) % new # i - 1) => data'[i] = Default
  BY ResizeCells
<1>2. size \in Nat
  BY RingTypes
<1> HIDE DEF new
<1>3. CASE size > new
  <2>1. start' = insert' /\ insert' \in 0..(new - 1) /\ size' = new
    <3>1. new \in Nat \ {0} /\ new <= size
      BY <1>1, <1>2, <1>3
    <3>2. (size - new) % new = size % new /\ size % new \in 0..(new - 1)
      BY <1>2, <3>1, ModLess, DivMod
    <3> QED BY <1>1, <1>3, <3>2
  <2> QED BY <1>1, <2>1 DEF RingInv, TypeOK, Wrap
<1>4. CASE ~(size > new)
  <2>1. size % new = (IF size < new THEN size ELSE size - new)
    <3>1. new \in Nat \ {0} /\ size \in 0..(new + new - 1)
      BY <1>1, <1>2, <1>4
    <3> QED BY <3>1, ModWrap
  <2>2. start' = 0 /\ size' = size /\ insert' = (IF size < new THEN size ELSE size - new)
    BY <1>1, <1>4, <2>1
  <2>3. TypeOK'
    BY <1>1, <1>2, <1>4, <2>2 DEF TypeOK
  <2>4. insert' = Wrap(start + size)'
    BY <1>1, <1>2, <1>4, <2>2 DEF Wrap
  <2>5. ASSUME NEW i \in size..(new - 1)
        PROVE  data'[i + 1] = Default
    <3>1. ASSUME NEW k \in 1..size
          PROVE  (k - 1) % new # i
      <4>1. PICK x \in 0..(new - 1) : x = k - 1 /\ x # i
        BY <1>1, <1>2, <1>4
      <4>2. x % new = x
        BY <1>1, ModSmall
      <4> QED BY <4>1, <4>2
    <3>2. PICK j \in 1..new : j = i + 1 /\ j - 1 = i
      BY <1>1, <1>2
    <3> QED BY <1>1, <3>1, <3>2
  <2>6. \A k \in (size')..(cap' - 1) : data'[Wrap(start + k)' + 1] = Default
    BY <1>1, <1>2, <2>2, <2>5 DEF Wrap
  <2> QED BY <2>3, <2>4, <2>6 DEF RingInv
<1> QED BY <1>3, <1>4

LEMMA ResizeMaps ==
    ASSUME RingInv, NEW n \in Nat, Resize(n)
    PROVE  W!Resize
<1> DEFINE new == AtLeastOne(n)
<1>1. /\ new \in Nat \ {0} /\ cap' = new
      /\ start' = (IF size > new THEN (size - new) % new ELSE 0)
      /\ size' = (IF size > new THEN new ELSE size)
      /\ \A k \in 1..size : k > size - new => data'[((k - 1) % new) + 1] = Contents[k]
  BY ResizeCells
<1>2. size \in Nat /\ Contents \in Seq(Elems) /\ Len(Contents) = size
  BY RingTypes
<1>3. Contents' = [k \in 1..size' |-> data'[Wrap(start + k - 1)' + 1]]
  BY ResizeKeeps, ContentsNext DEF ContentsAre
<1> HIDE DEF new
<1>4. CASE size > new
  <2>1. W!Newest(Contents, new) = [j \in 1..new |-> Contents[size - new + j]]
    BY <1>1, <1>2, <1>4 DEF W!Newest
  <2>2. ASSUME NEW j \in 1..new
        PROVE  data'[Wrap(start + j - 1)' + 1] = Contents[size - new + j]
    <3>1. PICK x \in Nat, i \in 0..(new - 1) : x = size - new /\ i = j - 1
      BY <1>1, <1>2, <1>4
    <3>2. start' = x % new /\ x % new \in 0..(new - 1)
      BY <1>1, <1>4, <3>1, DivMod
    <3>3. PICK p \in 0..(new + new - 1) : p = (x % new) + i
      BY <1>1, <3>1, <3>2
    <3>4. p % new = (IF p < new THEN p ELSE p - new)
      BY <1>1, ModWrap
    <3>5. Wrap(start + j - 1)' = p % new
      BY <1>1, <3>1, <3>2, <3>3, <3>4 DEF Wrap
    <3>6. (x + i) % new = p % new
      BY <1>1, <3>3, ModAdd
    <3>7. PICK k \in 1..size : k = size - new + j /\ k > size - new /\ k - 1 = x + i
      BY <1>1, <1>2, <1>4, <3>1
    <3> QED BY <1>1, <3>5, <3>6, <3>7
  <2> QED BY <1>1, <1>3, <1>4, <2>1, <2>2 DEF W!Resize
<1>5. CASE ~(size > new)
  <2>1. W!Newest(Contents, new) = [k \in 1..size |-> Contents[k]]
    BY <1>1, <1>2, <1>5 DEF W!Newest
  <2>2. ASSUME NEW k \in 1..size
        PROVE  data'[Wrap(start + k - 1)' + 1] = Contents[k]
    <3>1. PICK x \in 0..(new - 1) : x = k - 1
      BY <1>1, <1>2, <1>5
    <3>2. x % new = x
      BY <1>1, ModSmall
    <3>3. Wrap(start + k - 1)' = x
      BY <1>1, <1>5, <3>1 DEF Wrap
    <3>4. k > size - new
      BY <1>1, <1>2, <1>5
    <3> QED BY <1>1, <3>1, <3>2, <3>3, <3>4
  <2> QED BY <1>1, <1>3, <1>5, <2>1, <2>2 DEF W!Resize
<1> QED BY <1>4, <1>5

-----------------------------------------------------------------------------
(* The theorems.                                                            *)

LEMMA InitEstablishes ==
    ASSUME RingAssumption, Init
    PROVE  RingInv /\ W!Init
<1>1. PICK n \in Nat \ {0} : data = [i \in 1..n |-> Default]
  BY DEF Init, RingAssumption, AtLeastOne, Filled
<1>2. start = 0 /\ insert = 0 /\ size = 0
  BY DEF Init
<1>3. data \in Seq(Elems) /\ Len(data) = n
  BY <1>1 DEF Elems
<1>4. RingInv
  BY <1>1, <1>2, <1>3 DEF RingInv, TypeOK, Wrap, cap
<1>5. Contents = <<>>
  BY <1>2, <1>4, RingTypes
<1> QED BY <1>3, <1>4, <1>5 DEF W!Init, cap

LEMMA StepKeeps ==
    ASSUME RingAssumption, RingInv, [Next]_vars
    PROVE  RingInv' /\ [W!Next]_(W!vars)
<1>1. ASSUME NEW v \in Elems, Push(v)
      PROVE  RingInv' /\ W!Next
  BY <1>1, PushKeeps, PushMaps DEF W!Next, W!Elems, Elems
<1>2. CASE Pop
  BY <1>2, PopKeeps, PopMaps DEF W!Next
<1>3. CASE Skip
  <2>1. Push(Default) /\ Default \in Elems
    BY <1>3, SkipIsPush DEF Elems
  <2> QED BY <1>1, <2>1
<1>4. CASE Clear
  BY <1>4, ClearKeeps DEF W!Next
<1>5. ASSUME NEW n \in Caps, Resize(n)
      PROVE  RingInv' /\ W!Next
  <2>1. n \in Nat
    BY DEF RingAssumption
  <2> QED BY <1>5, <2>1, ResizeKeeps, ResizeMaps DEF W!Next
<1>6. CASE UNCHANGED vars
  <2>1. RingInv'
    BY <1>6 DEF vars, RingInv, TypeOK, Wrap, cap
  <2>2. Contents' = Contents /\ cap' = cap
    BY <1>6 DEF vars, Contents, Begin, End, At, cap
  <2> QED BY <2>1, <2>2 DEF W!vars
<1> QED BY <1>1, <1>2, <1>3, <1>4, <1>5, <1>6 DEF Next

\* The positions agree with the number of elements, and a cell that is not in
\* use holds the default value: pop, clear and resize put it back.
THEOREM RingCorrect ==
    ASSUME RingAssumption
    PROVE  Spec => []RingInv
<1>1. Init => RingInv
  BY InitEstablishes
<1>2. RingInv /\ [Next]_vars => RingInv'
  BY StepKeeps
<1> QED BY <1>1, <1>2, PTL DEF Spec

\* The buffer implements the window: push gives up the oldest element of a
\* full buffer only, and resize keeps the newest in their order, whatever the
\* capacities and wherever the elements start.
THEOREM RingIsWindow ==
    ASSUME RingAssumption
    PROVE  Spec => IsWindow
<1>1. Init => W!Init
  BY InitEstablishes
<1>2. RingInv /\ [Next]_vars => [W!Next]_(W!vars)
  BY StepKeeps
<1> QED BY <1>1, <1>2, RingCorrect, PTL DEF Spec, IsWindow, W!Spec

\* A skip is the push of a default value although it writes nothing into a
\* buffer that is not full.
THEOREM SkipPushes ==
    ASSUME RingAssumption
    PROVE  Spec => [][SkipPushesDefault]_vars
<1>1. RingInv /\ [Next]_vars => [SkipPushesDefault]_vars
  BY SkipIsPush, PushMaps DEF SkipPushesDefault, Elems
<1> QED BY <1>1, RingCorrect, PTL DEF Spec

\* back() is the newest element, and the iterator's operator-- and operator-=
\* meet the elements from end() in the reverse order.
THEOREM WalksBack ==
    ASSUME RingAssumption
    PROVE  Spec => []BackwardWalk
<1>1. ASSUME RingInv PROVE BackwardWalk
  <2>1. /\ cap \in Nat \ {0} /\ data \in [1..cap -> Elems]
        /\ start \in 0..(cap - 1) /\ insert \in 0..(cap - 1) /\ size \in 0..cap
        /\ insert = IF start + size < cap THEN start + size ELSE start + size - cap
    BY <1>1, RingTypes
  <2>2. ContentsAre
    BY <1>1, ContentsForm
  <2>3. ASSUME NEW i \in 1..size
        PROVE  At(Retreat(End, i)) = Contents[size + 1 - i]
    <3>1. PICK p \in 0..(cap + cap - 1) : p = start + size - i
      BY <2>1
    <3>2. Retreat(End, i) = p
      BY <2>1, <2>2, <3>1 DEF Retreat, ContentsAre
    <3>3. At(p) = data[Wrap(p) + 1]
      BY <2>1, <3>1, WrapMod DEF At
    <3>4. PICK k \in 1..size : k = size + 1 - i /\ start + k - 1 = p
      BY <2>1, <3>1
    <3>5. Contents[k] = data[Wrap(start + k - 1) + 1]
      BY <2>2 DEF ContentsAre
    <3> QED BY <3>2, <3>3, <3>4, <3>5
  <2>4. ASSUME size > 0
        PROVE  Back = Contents[size] /\ At(Decrement(End)) = Back
    <3>1. PICK p \in 0..(cap + cap - 1) : p = start + size - 1
      BY <2>1, <2>4
    <3>2. At(p) = data[Wrap(p) + 1]
      BY <2>1, <3>1, WrapMod DEF At
    <3>3. Contents[size] = data[Wrap(p) + 1]
      BY <2>1, <2>2, <2>4, <3>1 DEF ContentsAre
    <3>4. Decrement(End) = p
      BY <2>1, <2>2, <2>4, <3>1 DEF Decrement, ContentsAre
    <3>5. Back = data[Wrap(p) + 1]
      BY <2>1, <2>4, <3>1 DEF Back, Wrap
    <3> QED BY <3>2, <3>3, <3>4, <3>5
  <2> QED BY <2>3, <2>4 DEF BackwardWalk
<1> QED BY <1>1, RingCorrect, PTL

-----------------------------------------------------------------------------
(* The robin map. Its invariant: every element sits where its distance     *)
(* says, the cells from its home to it hold elements that are as far from  *)
(* theirs, and no key is stored twice.                                     *)

\* The cell that is j cells before another one, round the table.
CellBack(i, j) == IF j <= i THEN i - j ELSE i - j + MapCap

\* No element is far from its home behind one that is near to its own: the
\* search for it meets no cell at which it would end.
Reached ==
    \A i \in Map!Stored : \A j \in 0..(cells[i].dist - 1) :
        (pc = "shift" /\ CellBack(i, j) = at) \/ cells[CellBack(i, j)].dist >= cells[i].dist - j

KeysDiffer == \A i, j \in Map!Stored : cells[i].key = cells[j].key => i = j

\* The element in hand is where the search for it would go on, and has a cell.
HandReached ==
    IF pc = "relocate"
    THEN /\ carry \in Map!Bucket /\ occupied < MapCap
         /\ \A i \in Map!Stored : cells[i].key # carry.key
         /\ Map!Probe(carry.key, carry.dist) = at
         /\ \A j \in 1..(carry.dist - 1) : cells[CellBack(at, j)].dist >= carry.dist - j
    ELSE carry = Map!Hole

MapInv ==
    /\ Map!TypeOK /\ Map!DistanceTrue /\ Map!OccupiedCounts
    /\ Reached /\ KeysDiffer /\ HandReached
    /\ pc = "shift" => cells[at].dist = 0
    /\ assign = {}

-----------------------------------------------------------------------------
LEMMA MapNumbers ==
    MapCap \in Nat \ {0} /\ MapKeys \subseteq Nat /\ MapDefault \in MapVals /\ Map!Idxs = 0..(MapCap - 1)
  BY MCContainersAssumption DEF Map!RobinAssumption, Map!Idxs

LEMMA MapModWrap ==
    ASSUME NEW n \in Nat \ {0}, NEW x \in 0..(n + n - 1)
    PROVE  /\ x < n => x % n = x
           /\ ~(x < n) => x % n = x - n
<1>1. x < n => x % n = x
  BY SMT
<1>2. ~(x < n) => x % n = x - n
  BY SMT
<1> QED BY <1>1, <1>2

LEMMA MapHome ==
    ASSUME NEW k \in MapKeys
    PROVE  /\ Map!ToIdx(k) \in 0..(MapCap - 1)
           /\ \A d \in 1..(MapCap + 1) :
                Map!Probe(k, d) = IF Map!ToIdx(k) + d - 1 < MapCap THEN Map!ToIdx(k) + d - 1
                                                                   ELSE Map!ToIdx(k) + d - 1 - MapCap
<1>1. MapCap \in Nat \ {0} /\ k \in Nat
  BY MapNumbers
<1>2. k % MapCap \in 0..(MapCap - 1)
  BY ONLY <1>1, SMT
<1>3. Map!ToIdx(k) \in 0..(MapCap - 1)
  BY <1>2 DEF Map!ToIdx
<1> DEFINE h == Map!ToIdx(k)
<1> HIDE DEF h
<1>4. ASSUME NEW d \in 1..(MapCap + 1)
      PROVE  (h + d - 1) % MapCap = IF h + d - 1 < MapCap THEN h + d - 1 ELSE h + d - 1 - MapCap
  <2>1. h + d - 1 \in 0..(MapCap + MapCap - 1)
    BY <1>1, <1>3 DEF h
  <2>2. PICK x \in 0..(MapCap + MapCap - 1) : x = h + d - 1
    BY ONLY <2>1
  <2>3. /\ x < MapCap => x % MapCap = x
        /\ ~(x < MapCap) => x % MapCap = x - MapCap
    BY <1>1, MapModWrap, Zenon
  <2>4. (h + d - 1) % MapCap = x % MapCap
    BY ONLY <2>2, Zenon
  <2>5. h \in 0..(MapCap - 1)
    BY <1>3 DEF h
  <2>6. x % MapCap = IF h + d - 1 < MapCap THEN h + d - 1 ELSE h + d - 1 - MapCap
    BY ONLY <1>1, <2>2, <2>3, <2>5
  <2> QED BY ONLY <2>4, <2>6, Zenon
<1> QED BY <1>3, <1>4 DEF h, Map!Probe

LEMMA MapNext ==
    ASSUME NEW i \in Map!Idxs
    PROVE  Map!NextIdx(i) \in Map!Idxs /\ Map!NextIdx(i) = IF i + 1 < MapCap THEN i + 1 ELSE 0
<1>1. MapCap \in Nat \ {0} /\ i \in 0..(MapCap - 1) /\ Map!Idxs = 0..(MapCap - 1)
  BY MapNumbers
<1>2. (i + 1) % MapCap = IF i + 1 < MapCap THEN i + 1 ELSE i + 1 - MapCap
  <2>1. i + 1 \in 0..(MapCap + MapCap - 1)
    BY ONLY <1>1
  <2>2. PICK x \in 0..(MapCap + MapCap - 1) : x = i + 1
    BY ONLY <2>1
  <2>3. /\ x < MapCap => x % MapCap = x
        /\ ~(x < MapCap) => x % MapCap = x - MapCap
    BY <1>1, MapModWrap, Zenon
  <2>4. (i + 1) % MapCap = x % MapCap
    BY ONLY <2>2, Zenon
  <2>5. x % MapCap = IF i + 1 < MapCap THEN i + 1 ELSE i + 1 - MapCap
    BY ONLY <1>1, <2>2, <2>3
  <2> QED BY ONLY <2>4, <2>5, Zenon
<1>3. (i + 1) % MapCap = IF i + 1 < MapCap THEN i + 1 ELSE 0
  BY ONLY <1>1, <1>2
<1> QED BY <1>1, <1>3 DEF Map!NextIdx

\* The probes of a key go through the table cell by cell.
LEMMA ProbesFollow ==
    ASSUME NEW k \in MapKeys
    PROVE  /\ \A d \in 1..(MapCap + 1) : Map!Probe(k, d) \in Map!Idxs
           /\ \A d \in 1..MapCap : Map!Probe(k, d + 1) = Map!NextIdx(Map!Probe(k, d))
           /\ \A d \in 1..MapCap : \A g \in 1..d : Map!Probe(k, g) = CellBack(Map!Probe(k, d), d - g)
           /\ \A i \in Map!Idxs : \E d \in 1..MapCap : Map!Probe(k, d) = i
<1> DEFINE h == Map!ToIdx(k)
<1>1. MapCap \in Nat \ {0} /\ Map!Idxs = 0..(MapCap - 1) /\ h \in 0..(MapCap - 1)
  BY MapNumbers, MapHome
<1>2. \A d \in 1..(MapCap + 1) :
                Map!Probe(k, d) = IF h + d - 1 < MapCap THEN h + d - 1 ELSE h + d - 1 - MapCap
  BY MapHome
<1> HIDE DEF h
<1>3. \A d \in 1..(MapCap + 1) : Map!Probe(k, d) \in Map!Idxs
  BY ONLY <1>1, <1>2
<1>4. ASSUME NEW d \in 1..MapCap PROVE Map!Probe(k, d + 1) = Map!NextIdx(Map!Probe(k, d))
  <2>1. d \in 1..(MapCap + 1) /\ d + 1 \in 1..(MapCap + 1)
    BY <1>1
  <2>2. Map!NextIdx(Map!Probe(k, d)) = IF Map!Probe(k, d) + 1 < MapCap THEN Map!Probe(k, d) + 1 ELSE 0
    BY <1>3, <2>1, MapNext
  <2> QED BY ONLY <1>1, <1>2, <2>1, <2>2
<1>5. ASSUME NEW d \in 1..MapCap, NEW g \in 1..d PROVE Map!Probe(k, g) = CellBack(Map!Probe(k, d), d - g)
  <2>1. d \in 1..(MapCap + 1) /\ g \in 1..(MapCap + 1)
    BY <1>1
  <2> QED BY ONLY <1>1, <1>2, <2>1 DEF CellBack
<1>6. ASSUME NEW i \in Map!Idxs PROVE \E d \in 1..MapCap : Map!Probe(k, d) = i
  <2>1. CASE h <= i
    <3>1. i - h + 1 \in 1..MapCap /\ i - h + 1 \in 1..(MapCap + 1)
      BY ONLY <1>1, <2>1
    <3>2. Map!Probe(k, i - h + 1) = i
      BY ONLY <1>1, <1>2, <2>1, <3>1
    <3> QED BY ONLY <3>1, <3>2
  <2>2. CASE ~(h <= i)
    <3>1. i - h + 1 + MapCap \in 1..MapCap /\ i - h + 1 + MapCap \in 1..(MapCap + 1)
      BY ONLY <1>1, <2>2
    <3>2. Map!Probe(k, i - h + 1 + MapCap) = i
      BY ONLY <1>1, <1>2, <2>2, <3>1
    <3> QED BY ONLY <3>1, <3>2
  <2> QED BY <1>1, <2>1, <2>2
<1> QED BY <1>3, <1>4, <1>5, <1>6

\* Steps back and forth.
LEMMA BackNext ==
    ASSUME NEW i \in Map!Idxs
    PROVE  /\ \A j \in 0..(MapCap - 1) : CellBack(i, j) \in Map!Idxs
           /\ CellBack(i, 0) = i
           /\ \A j \in 1..(MapCap - 1) : CellBack(i, j) # i /\ CellBack(Map!NextIdx(i), j) = CellBack(i, j - 1)
           /\ \A j \in 1..(MapCap - 1) : Map!NextIdx(CellBack(i, j)) = CellBack(i, j - 1)
           /\ \A c \in Map!Idxs : \E j \in 0..(MapCap - 1) : CellBack(i, j) = c
<1>1. MapCap \in Nat \ {0} /\ i \in 0..(MapCap - 1) /\ Map!Idxs = 0..(MapCap - 1)
  BY MapNumbers
<1>2. Map!NextIdx(i) = IF i + 1 < MapCap THEN i + 1 ELSE 0
  BY MapNext
<1>3. \A j \in 0..(MapCap - 1) : CellBack(i, j) \in Map!Idxs
  BY ONLY <1>1 DEF CellBack
<1>4. CellBack(i, 0) = i
  BY ONLY <1>1 DEF CellBack
<1>5. \A j \in 1..(MapCap - 1) : CellBack(i, j) # i /\ CellBack(Map!NextIdx(i), j) = CellBack(i, j - 1)
  BY ONLY <1>1, <1>2 DEF CellBack
<1>6. ASSUME NEW j \in 1..(MapCap - 1) PROVE Map!NextIdx(CellBack(i, j)) = CellBack(i, j - 1)
  <2>1. CellBack(i, j) \in Map!Idxs
    BY <1>1, <1>3
  <2>2. Map!NextIdx(CellBack(i, j)) = IF CellBack(i, j) + 1 < MapCap THEN CellBack(i, j) + 1 ELSE 0
    BY <2>1, MapNext
  <2> QED BY ONLY <1>1, <2>2 DEF CellBack
<1>7. ASSUME NEW c \in Map!Idxs PROVE \E j \in 0..(MapCap - 1) : CellBack(i, j) = c
  <2>1. CASE c <= i
    <3>1. i - c \in 0..(MapCap - 1) /\ CellBack(i, i - c) = c
      BY ONLY <1>1, <2>1 DEF CellBack
    <3> QED BY <3>1
  <2>2. CASE ~(c <= i)
    <3>1. i - c + MapCap \in 0..(MapCap - 1) /\ CellBack(i, i - c + MapCap) = c
      BY ONLY <1>1, <2>2 DEF CellBack
    <3> QED BY <3>1
  <2> QED BY <1>1, <2>1, <2>2
<1> QED BY <1>3, <1>4, <1>5, <1>6, <1>7

LEMMA MapLeast ==
    ASSUME NEW T \in SUBSET Nat, T # {}
    PROVE  \E x \in T : \A y \in T : x <= y
<1> DEFINE R == {p \in Nat \X Nat : p[1] < p[2]}
<1>1. IsWellFoundedOn(R, Nat)
  BY NatLessThanWellFounded, Zenon DEF OpToRel
<1>2. \A x, y \in Nat : y < x => <<y, x>> \in R
  OBVIOUS
<1> HIDE DEF R
<1>3. PICK x \in T : \A y \in T : ~(y < x)
  BY <1>1, <1>2, WFMin
<1> QED BY <1>3

LEMMA MapCells ==
    ASSUME Map!TypeOK
    PROVE  /\ \A i \in Map!Idxs : cells[i].dist \in 0..MapCap
           /\ \A i \in Map!Stored : /\ i \in Map!Idxs /\ cells[i] \in Map!Bucket /\ cells[i].key \in MapKeys
                                    /\ cells[i].dist \in 1..MapCap /\ cells[i].val \in MapVals
           /\ \A i \in Map!Idxs : i \notin Map!Stored => cells[i] = Map!Hole /\ cells[i].dist = 0
           /\ \A i \in Map!Idxs : i \in Map!Stored <=> cells[i].dist # 0
           /\ cells \in [Map!Idxs -> Map!Bucket \cup {Map!Hole}] /\ MapCap \in Nat \ {0}
<1>1. cells \in [Map!Idxs -> Map!Bucket \cup {Map!Hole}] /\ MapCap \in Nat \ {0}
  BY MapNumbers DEF Map!TypeOK
<1>2. \A i \in Map!Idxs : i \in Map!Stored <=> cells[i].dist # 0
  BY DEF Map!Stored, Map!IsEmpty
<1>3. ASSUME NEW i \in Map!Idxs
      PROVE  \/ cells[i] = Map!Hole /\ cells[i].dist = 0
             \/ /\ cells[i] \in Map!Bucket /\ cells[i].dist \in 1..MapCap
                /\ cells[i].key \in MapKeys /\ cells[i].val \in MapVals
  BY <1>1 DEF Map!Hole, Map!Bucket
<1>4. Map!Stored \subseteq Map!Idxs
  BY DEF Map!Stored
<1> QED BY <1>1, <1>2, <1>3, <1>4

\* The search for a key: it passes elements that are as far from home as it has
\* come, and it comes to its end before the limit.
LEMMA Search ==
    ASSUME Map!TypeOK, NEW k \in MapKeys
    PROVE  /\ Map!StopDist(k) \in 1..(MapCap + 1)
           /\ \A g \in 1..(Map!StopDist(k) - 1) : g \in 1..MapCap /\ cells[Map!Probe(k, g)].dist >= g
           /\ cells[Map!Probe(k, Map!StopDist(k))].dist < Map!StopDist(k)
           /\ \A i \in Map!Idxs : cells[i].dist = 0 => Map!StopDist(k) \in 1..MapCap
<1> DEFINE T == {d \in 1..(MapCap + 2) : Map!Stops(k, d)}
<1>1. MapCap \in Nat \ {0}
  BY MapNumbers
<1>2. MapCap + 2 \in T
  BY <1>1 DEF Map!Stops, Map!DistLimit
<1>3. PICK x \in T : \A y \in T : x <= y
  <2>1. T \in SUBSET Nat /\ T # {}
    BY <1>1, <1>2
  <2> HIDE DEF T
  <2> QED BY <2>1, MapLeast
<1>4. x \in 1..Map!DistLimit /\ Map!Stops(k, x) /\ \A g \in 1..(x - 1) : ~Map!Stops(k, g)
  BY <1>1, <1>3 DEF Map!DistLimit
<1> DEFINE s == Map!StopDist(k)
<1>5. s \in 1..Map!DistLimit /\ Map!Stops(k, s) /\ \A g \in 1..(s - 1) : ~Map!Stops(k, g)
  BY <1>4 DEF Map!StopDist
<1> HIDE DEF s, T
<1>6. \A g \in 1..(s - 1) : cells[Map!Probe(k, g)].dist >= g
  <2>1. ASSUME NEW g \in 1..(s - 1) PROVE cells[Map!Probe(k, g)].dist >= g
    <3>1. g # Map!DistLimit /\ g \in 1..(MapCap + 1)
      BY <1>1, <1>5 DEF Map!DistLimit
    <3>2. Map!Probe(k, g) \in Map!Idxs
      BY <3>1, ProbesFollow
    <3>3. cells[Map!Probe(k, g)].dist \in 0..MapCap
      BY <3>2, MapCells
    <3> QED BY <1>1, <1>5, <3>1, <3>3 DEF Map!Stops
  <2> QED BY <2>1
<1>7. \A g \in 1..(MapCap + 1) : Map!Probe(k, g) \in Map!Idxs /\ cells[Map!Probe(k, g)].dist \in 0..MapCap
  BY ProbesFollow, MapCells
<1>8. s \in 1..(MapCap + 1) /\ \A g \in 1..(s - 1) : g \in 1..MapCap
  <2>1. s \in 1..(MapCap + 2)
    BY <1>5 DEF Map!DistLimit
  <2>2. s - 1 # MapCap + 1
    <3>1. SUFFICES ASSUME s - 1 = MapCap + 1 PROVE FALSE
      OBVIOUS
    <3>2. MapCap + 1 \in 1..(s - 1)
      BY <1>1, <3>1
    <3>3. MapCap + 1 \in 1..(MapCap + 1)
      BY <1>1
    <3> QED BY <1>1, <1>6, <1>7, <3>2, <3>3
  <2> QED BY ONLY <1>1, <2>1, <2>2
<1>9. cells[Map!Probe(k, s)].dist < s
  BY <1>1, <1>5, <1>8 DEF Map!Stops, Map!DistLimit
<1>10. ASSUME NEW i \in Map!Idxs, cells[i].dist = 0 PROVE s \in 1..MapCap
  <2>1. PICK d \in 1..MapCap : Map!Probe(k, d) = i
    BY ProbesFollow
  <2>2. ~(d \in 1..(s - 1))
    BY <1>6, <1>10, <2>1
  <2> QED BY ONLY <1>1, <1>8, <2>1, <2>2
<1> QED BY <1>6, <1>8, <1>9, <1>10 DEF s

LEMMA FoundOnce ==
    ASSUME MapInv, pc # "shift", NEW i \in Map!Stored
    PROVE  Map!Hits(cells[i].key) = {i}
<1> DEFINE k == cells[i].key
           d == cells[i].dist
           s == Map!StopDist(k)
<1>1. Map!TypeOK /\ MapCap \in Nat \ {0}
  BY MapNumbers DEF MapInv
<1>2. k \in MapKeys /\ d \in 1..MapCap
  BY <1>1, MapCells
<1>3. Map!Probe(k, d) = i
  BY DEF MapInv, Map!DistanceTrue
<1>4. \A j \in 0..(d - 1) : cells[CellBack(i, j)].dist >= d - j
  BY DEF MapInv, Reached
<1>5. /\ s \in 1..(MapCap + 1)
      /\ \A g \in 1..(s - 1) : g \in 1..MapCap /\ cells[Map!Probe(k, g)].dist >= g
      /\ cells[Map!Probe(k, s)].dist < s
  BY <1>1, <1>2, Search
<1> DEFINE H == {Map!Probe(k, c) : c \in {g \in 1..(s - 1) : cells[Map!Probe(k, g)].key = k}}
<1>6. Map!Hits(k) = H
  BY DEF Map!Hits
<1> HIDE DEF k, d, s
<1>7. \A g \in 1..d : cells[Map!Probe(k, g)].dist >= g
  <2>1. ASSUME NEW g \in 1..d PROVE cells[Map!Probe(k, g)].dist >= g
    <3>1. Map!Probe(k, g) = CellBack(i, d - g)
      BY <1>2, <1>3, ProbesFollow
    <3>2. PICK j \in 0..(d - 1) : j = d - g
      BY <1>2
    <3>3. cells[CellBack(i, j)].dist >= d - j /\ d - j = g
      BY <1>2, <1>4, <3>2
    <3> QED BY <3>1, <3>2, <3>3
  <2> QED BY <2>1
<1>8. ~(s \in 1..d)
  <2>1. SUFFICES ASSUME s \in 1..d PROVE FALSE
    OBVIOUS
  <2>2. cells[Map!Probe(k, s)].dist \in 0..MapCap
    BY <1>1, <1>2, <1>5, ProbesFollow, MapCells
  <2> QED BY <1>2, <1>5, <1>7, <2>1, <2>2
<1>9. i \in H
  <2>1. d \in 1..(s - 1)
    BY ONLY <1>1, <1>2, <1>5, <1>8
  <2> QED BY <1>3, <2>1 DEF k
<1>10. ASSUME NEW c \in 1..(s - 1), cells[Map!Probe(k, c)].key = k
       PROVE  Map!Probe(k, c) = i
  <2>1. c \in 1..MapCap /\ cells[Map!Probe(k, c)].dist >= c
    BY <1>5
  <2>2. Map!Probe(k, c) \in Map!Idxs
    BY <1>1, <1>2, <2>1, ProbesFollow
  <2>3. Map!Probe(k, c) \in Map!Stored
    BY <1>1, <2>1, <2>2, MapCells
  <2> QED BY <1>10, <2>3 DEF MapInv, KeysDiffer, k
<1> QED BY <1>6, <1>9, <1>10 DEF k

LEMMA FindIs ==
    ASSUME MapInv, pc # "shift", NEW k \in MapKeys
    PROVE  /\ Map!Find(k) = MapCap => \A i \in Map!Stored : cells[i].key # k
           /\ Map!Find(k) # MapCap => Map!Find(k) \in Map!Stored /\ cells[Map!Find(k)].key = k
           /\ Map!Find(k) \in 0..MapCap
<1>1. Map!TypeOK /\ MapCap \in Nat \ {0} /\ Map!Idxs = 0..(MapCap - 1)
  BY MapNumbers DEF MapInv
<1>2. ASSUME NEW i \in Map!Hits(k) PROVE i \in Map!Stored /\ cells[i].key = k /\ i \in Map!Idxs /\ i # MapCap
  <2>1. PICK c \in 1..(Map!StopDist(k) - 1) : cells[Map!Probe(k, c)].key = k /\ i = Map!Probe(k, c)
    BY <1>2 DEF Map!Hits
  <2>2. c \in 1..MapCap /\ cells[i].dist >= c
    BY <1>1, <2>1, Search
  <2>3. i \in Map!Idxs
    BY <1>1, <2>1, <2>2, ProbesFollow
  <2> QED BY <1>1, <2>1, <2>2, <2>3, MapCells
<1>3. CASE Map!Hits(k) = {}
  <2>1. \A i \in Map!Stored : cells[i].key # k
    BY <1>3, FoundOnce
  <2> QED BY <1>1, <1>3, <2>1 DEF Map!Find
<1>4. CASE Map!Hits(k) # {}
  <2>1. Map!Find(k) \in Map!Hits(k)
    BY <1>4 DEF Map!Find
  <2> QED BY <1>1, <1>2, <2>1
<1> QED BY <1>3, <1>4

LEMMA MapCard ==
    /\ \A S : Map!Cardinality(S) = Cardinality(S)
    /\ IsFiniteSet(Map!Idxs) /\ Cardinality(Map!Idxs) = MapCap
    /\ IsFiniteSet(Map!Stored)
<1>1. ASSUME NEW S PROVE Map!Cardinality(S) = Cardinality(S)
  BY DEF Cardinality, Map!Cardinality
<1>2. MapCap \in Nat /\ MapCap # 0 /\ Map!Idxs = 0..(MapCap - 1)
  BY MapNumbers
<1>3. IsFiniteSet(Map!Idxs) /\ Cardinality(Map!Idxs) = MapCap
  <2>1. PICK m \in Nat : m = MapCap - 1
    BY <1>2
  <2>2. IsFiniteSet(0..m) /\ Cardinality(0..m) = m - 0 + 1
    BY <2>1, FS_Interval
  <2> QED BY <1>2, <2>1, <2>2
<1>4. IsFiniteSet(Map!Stored)
  <2>1. Map!Stored \subseteq Map!Idxs
    BY DEF Map!Stored
  <2> QED BY <1>3, <2>1, FS_Subset
<1> QED BY <1>1, <1>3, <1>4

\* A table that is not full: a cell is empty, and no element is as far from home
\* as the table is long.
LEMMA EmptyCell ==
    ASSUME MapInv, pc # "shift", occupied # MapCap
    PROVE  /\ \E i \in Map!Idxs : cells[i].dist = 0
           /\ \A i \in Map!Stored : cells[i].dist < MapCap
<1>1. Map!TypeOK /\ MapCap \in Nat \ {0} /\ Map!Idxs = 0..(MapCap - 1)
  BY MapNumbers DEF MapInv
<1>2. PICK c \in Map!Idxs : cells[c].dist = 0
  <2>1. SUFFICES ASSUME \A i \in Map!Idxs : cells[i].dist # 0 PROVE FALSE
    OBVIOUS
  <2>2. Map!Stored = Map!Idxs
    BY <2>1 DEF Map!Stored, Map!IsEmpty
  <2> QED BY <2>2, MapCard DEF MapInv, Map!OccupiedCounts
<1>3. ASSUME NEW i \in Map!Stored, cells[i].dist = MapCap PROVE FALSE
  <2>1. i \in Map!Idxs
    BY <1>1, MapCells
  <2>2. PICK j \in 0..(MapCap - 1) : CellBack(i, j) = c
    BY <2>1, BackNext
  <2>3. cells[c].dist >= MapCap - j
    BY <1>3, <2>2 DEF MapInv, Reached
  <2> QED BY ONLY <1>1, <1>2, <2>2, <2>3
<1>4. \A i \in Map!Stored : cells[i].dist < MapCap
  <2>1. ASSUME NEW i \in Map!Stored PROVE cells[i].dist < MapCap
    <3>1. cells[i].dist \in 1..MapCap
      BY <1>1, MapCells
    <3> QED BY ONLY <1>1, <1>3, <3>1
  <2> QED BY <2>1
<1> QED BY <1>2, <1>4

\* An element that is stored where its search ends, in place of one that is
\* nearer to its home.
LEMMA PlaceKeeps ==
    ASSUME MapInv, pc # "shift", NEW i \in Map!Idxs, NEW el \in Map!Bucket,
           cells' = Map!Place(i, el, cells), cells[i].dist < el.dist, Map!Probe(el.key, el.dist) = i,
           \A j \in 1..(el.dist - 1) : cells[CellBack(i, j)].dist >= el.dist - j,
           \A c \in Map!Stored : cells[c].key # el.key
    PROVE  /\ cells' \in [Map!Idxs -> Map!Bucket \cup {Map!Hole}]
           /\ cells'[i] = el /\ \A c \in Map!Idxs \ {i} : cells'[c] = cells[c]
           /\ Map!Stored' = Map!Stored \cup {i}
           /\ Map!DistanceTrue' /\ Reached' /\ KeysDiffer'
           /\ \A c \in Map!Idxs : cells'[c].dist >= cells[c].dist
<1>1. Map!TypeOK /\ MapCap \in Nat \ {0} /\ cells \in [Map!Idxs -> Map!Bucket \cup {Map!Hole}]
  BY MapNumbers DEF MapInv, Map!TypeOK
<1>2. el.dist \in 1..MapCap /\ el.key \in MapKeys
  BY DEF Map!Bucket
<1>3. cells'[i] = el /\ \A c \in Map!Idxs \ {i} : cells'[c] = cells[c]
  BY <1>1 DEF Map!Place
<1>4. cells' \in [Map!Idxs -> Map!Bucket \cup {Map!Hole}]
  BY <1>1 DEF Map!Place
<1>5. Map!Stored' = Map!Stored \cup {i}
  BY <1>1, <1>2, <1>3 DEF Map!Stored, Map!IsEmpty
<1>6. Map!DistanceTrue'
  <2>1. \A c \in Map!Stored \ {i} : Map!Probe(cells[c].key, cells[c].dist) = c /\ cells'[c] = cells[c]
    BY <1>1, <1>3, MapCells DEF MapInv, Map!DistanceTrue
  <2>2. \A c \in Map!Stored' : Map!Probe(cells'[c].key, cells'[c].dist) = c
    BY <1>3, <1>5, <2>1
  <2> QED BY <2>2 DEF Map!DistanceTrue, Map!Probe, Map!ToIdx
<1>7. \A c \in Map!Idxs : cells'[c].dist >= cells[c].dist /\ cells'[c].dist \in 0..MapCap /\ cells[c].dist \in 0..MapCap
  <2>1. ASSUME NEW c \in Map!Idxs
        PROVE  cells'[c].dist >= cells[c].dist /\ cells'[c].dist \in 0..MapCap /\ cells[c].dist \in 0..MapCap
    <3>1. cells[c].dist \in 0..MapCap
      BY <1>1, MapCells
    <3> QED BY <1>1, <1>2, <1>3, <3>1
  <2> QED BY <2>1
<1>8. Reached'
  <2>1. ASSUME NEW c \in Map!Stored', NEW j \in 0..(cells'[c].dist - 1)
        PROVE  cells'[CellBack(c, j)].dist >= cells'[c].dist - j
    <3>1. c \in Map!Idxs
      BY <1>1, <1>5, MapCells
    <3>2. j \in 0..(MapCap - 1) /\ CellBack(c, j) \in Map!Idxs /\ CellBack(c, 0) = c
      BY <1>1, <1>7, <3>1, BackNext
    <3>3. cells'[CellBack(c, j)].dist >= cells[CellBack(c, j)].dist
          /\ cells'[CellBack(c, j)].dist \in 0..MapCap /\ cells[CellBack(c, j)].dist \in 0..MapCap
      BY <1>7, <3>2
    <3>4. CASE c # i
      <4>1. cells'[c] = cells[c] /\ c \in Map!Stored
        BY <1>3, <1>5, <3>1, <3>4
      <4>2. cells[CellBack(c, j)].dist >= cells[c].dist - j
        BY <4>1 DEF MapInv, Reached
      <4>3. cells[c].dist \in 0..MapCap
        BY <1>7, <3>1
      <4> QED BY <1>1, <3>3, <4>1, <4>2, <4>3
    <3>5. CASE c = i /\ j = 0
      BY <1>2, <1>3, <3>2, <3>5
    <3>6. CASE c = i /\ j # 0
      <4>1. j \in 1..(el.dist - 1)
        BY <1>3, <3>2, <3>6, <1>2
      <4>2. cells[CellBack(i, j)].dist >= el.dist - j
        BY <4>1
      <4> QED BY <1>2, <1>3, <3>3, <3>6, <4>1, <4>2
    <3> QED BY <3>4, <3>5, <3>6
  <2> QED BY <2>1 DEF Reached, CellBack
<1>9. KeysDiffer'
  <2>1. \A c \in Map!Stored \ {i} : cells'[c].key = cells[c].key /\ cells[c].key # el.key
    BY <1>1, <1>3, MapCells
  <2>2. \A c, d \in Map!Stored \cup {i} : cells'[c].key = cells'[d].key => c = d
    BY <1>3, <2>1 DEF MapInv, KeysDiffer
  <2> QED BY <1>5, <2>2 DEF KeysDiffer
<1> QED BY <1>3, <1>4, <1>5, <1>6, <1>7, <1>8, <1>9

\* The element that gave its place is taken in hand and goes on from the next cell.
LEMMA TakenInHand ==
    ASSUME MapInv, pc # "shift", NEW i \in Map!Stored, NEW el \in Map!Bucket, occupied # MapCap,
           cells' = Map!Place(i, el, cells), cells[i].dist < el.dist, Map!Probe(el.key, el.dist) = i,
           \A j \in 1..(el.dist - 1) : cells[CellBack(i, j)].dist >= el.dist - j,
           \A c \in Map!Stored : cells[c].key # el.key,
           pc' = "relocate", at' = Map!NextIdx(i), carry' = [cells[i] EXCEPT !.dist = @ + 1],
           UNCHANGED <<occupied, assign>>, ret' \in 0..MapCap
    PROVE  MapInv'
<1> DEFINE d == cells[i].dist
           k == cells[i].key
<1>1. Map!TypeOK /\ MapCap \in Nat \ {0} /\ cells \in [Map!Idxs -> Map!Bucket \cup {Map!Hole}] /\ i \in Map!Idxs
  BY MapNumbers, MapCells DEF MapInv, Map!TypeOK
<1>2. /\ cells' \in [Map!Idxs -> Map!Bucket \cup {Map!Hole}]
      /\ cells'[i] = el /\ \A c \in Map!Idxs \ {i} : cells'[c] = cells[c]
      /\ Map!Stored' = Map!Stored \cup {i}
      /\ Map!DistanceTrue' /\ Reached' /\ KeysDiffer'
      /\ \A c \in Map!Idxs : cells'[c].dist >= cells[c].dist
  BY <1>1, PlaceKeeps
<1>3. d \in 1..MapCap /\ d < MapCap /\ k \in MapKeys /\ cells[i].val \in MapVals /\ cells[i] \in Map!Bucket
  BY <1>1, MapCells, EmptyCell
<1>4. carry' \in Map!Bucket /\ carry'.key = k /\ carry'.dist = d + 1 /\ d + 1 \in 1..MapCap
  <2>1. d + 1 \in 1..MapCap
    BY ONLY <1>1, <1>3
  <2> QED BY <1>3, <2>1 DEF Map!Bucket
<1>5. \A c \in Map!Stored' : cells'[c].key # k
  <2>1. \A c \in Map!Stored \ {i} : cells'[c] = cells[c] /\ cells[c].key # k
    BY <1>1, <1>2, MapCells DEF MapInv, KeysDiffer
  <2> QED BY <1>2, <2>1
<1>6. Map!Probe(k, d + 1) = at'
  <2>1. Map!Probe(k, d) = i
    BY DEF MapInv, Map!DistanceTrue
  <2> QED BY <1>3, <2>1, ProbesFollow
<1>7. ASSUME NEW j \in 1..d PROVE cells'[CellBack(at', j)].dist >= d + 1 - j
  <2>1. j \in 1..(MapCap - 1) /\ j - 1 \in 0..(MapCap - 1) /\ j - 1 \in 0..(d - 1)
    BY ONLY <1>1, <1>3, <1>7
  <2>2. CellBack(at', j) = CellBack(i, j - 1) /\ CellBack(i, j - 1) \in Map!Idxs
    BY <1>1, <2>1, BackNext
  <2>3. cells[CellBack(i, j - 1)].dist >= d - (j - 1)
    BY <2>1 DEF MapInv, Reached
  <2>4. cells'[CellBack(i, j - 1)].dist >= cells[CellBack(i, j - 1)].dist
    BY <1>2, <2>2
  <2>5. cells[CellBack(i, j - 1)].dist \in 0..MapCap /\ cells'[CellBack(i, j - 1)].dist \in 0..MapCap
    BY <1>1, <1>2, <2>2, MapCells DEF Map!Bucket, Map!Hole
  <2> QED BY <1>1, <1>3, <2>2, <2>3, <2>4, <2>5
<1>8. HandReached'
  <2>1. \A j \in 1..(carry'.dist - 1) : cells'[CellBack(at', j)].dist >= carry'.dist - j
    BY <1>3, <1>4, <1>7
  <2>2. occupied \in 0..MapCap /\ occupied < MapCap
    BY <1>1 DEF Map!TypeOK
  <2>3. Map!Probe(carry'.key, carry'.dist) = at' /\ \A c \in Map!Stored' : cells'[c].key # carry'.key
    BY <1>4, <1>5, <1>6, Zenon
  <2> QED BY <1>4, <2>1, <2>2, <2>3 DEF HandReached, CellBack, Map!Probe, Map!ToIdx
<1>9. Map!TypeOK'
  <2>1. Map!NextIdx(i) \in Map!Idxs
    BY <1>1, MapNext
  <2> QED BY <1>1, <1>2, <1>4, <2>1 DEF Map!TypeOK
<1>10. Map!OccupiedCounts'
  <2>1. Map!Stored' = Map!Stored
    BY <1>2
  <2> QED BY <2>1, MapCard DEF MapInv, Map!OccupiedCounts
<1>11. (pc = "shift" => cells[at].dist = 0)' /\ assign' = {}
  BY DEF MapInv
<1> QED BY <1>2, <1>8, <1>9, <1>10, <1>11 DEF MapInv

\* An element that is stored in an empty cell, with none in hand afterwards.
LEMMA TakesEmpty ==
    ASSUME MapInv, pc # "shift", NEW i \in Map!Idxs, NEW el \in Map!Bucket, occupied # MapCap,
           cells' = Map!Place(i, el, cells), cells[i].dist = 0, Map!Probe(el.key, el.dist) = i,
           \A j \in 1..(el.dist - 1) : cells[CellBack(i, j)].dist >= el.dist - j,
           \A c \in Map!Stored : cells[c].key # el.key,
           pc' = "idle", carry' = Map!Hole, at' \in Map!Idxs, occupied' = occupied + 1,
           UNCHANGED assign, ret' \in 0..MapCap
    PROVE  MapInv'
<1>1. Map!TypeOK /\ MapCap \in Nat \ {0} /\ occupied \in 0..MapCap /\ i \notin Map!Stored
  BY MapNumbers, MapCells DEF MapInv, Map!TypeOK
<1>2. cells[i].dist < el.dist
  BY <1>1 DEF Map!Bucket
<1>3. /\ cells' \in [Map!Idxs -> Map!Bucket \cup {Map!Hole}]
      /\ Map!Stored' = Map!Stored \cup {i}
      /\ Map!DistanceTrue' /\ Reached' /\ KeysDiffer'
  BY <1>2, PlaceKeeps
<1>4. Map!OccupiedCounts'
  <2>1. Cardinality(Map!Stored \cup {i}) = Cardinality(Map!Stored) + 1
    BY <1>1, MapCard, FS_AddElement
  <2>2. occupied = Cardinality(Map!Stored)
    BY MapCard DEF MapInv, Map!OccupiedCounts
  <2>3. occupied' = Cardinality(Map!Stored')
    BY ONLY <1>3, <2>1, <2>2, occupied' = occupied + 1
  <2>4. Map!Cardinality(Map!Stored') = Cardinality(Map!Stored')
    BY MapCard
  <2> QED BY ONLY <2>3, <2>4 DEF Map!OccupiedCounts
<1>5. Map!TypeOK'
  BY <1>1, <1>3 DEF Map!TypeOK
<1>6. HandReached' /\ (pc = "shift" => cells[at].dist = 0)' /\ assign' = {}
  BY DEF HandReached, MapInv
<1> QED BY <1>3, <1>4, <1>5, <1>6 DEF MapInv

LEMMA MapStarts ==
    ASSUME Map!Init PROVE MapInv
<1>1. \A i \in Map!Idxs : cells[i] = Map!Hole /\ cells[i].dist = 0
  BY DEF Map!Init, Map!Hole
<1>2. Map!Stored = {}
  BY <1>1 DEF Map!Stored, Map!IsEmpty
<1>3. Map!TypeOK
  BY MapNumbers DEF Map!Init, Map!TypeOK
<1>4. Map!OccupiedCounts
  BY <1>2, MapCard, FS_EmptySet DEF Map!OccupiedCounts, Map!Init
<1>5. Map!DistanceTrue /\ Reached /\ KeysDiffer /\ HandReached
  BY <1>2 DEF Map!DistanceTrue, Reached, KeysDiffer, HandReached, Map!Init
<1> QED BY <1>3, <1>4, <1>5 DEF MapInv, Map!Init

LEMMA EmplaceKeeps ==
    ASSUME MapInv, NEW k \in MapKeys, NEW v \in MapVals, Map!Emplace(k, v) PROVE MapInv'
<1> DEFINE s == Map!StopDist(k)
           i == Map!Probe(k, s)
           el == [key |-> k, dist |-> s, val |-> v]
<1>1. pc = "idle" /\ Map!Find(k) = MapCap /\ occupied # MapCap /\ Map!InsertAt(i, el) /\ assign' = assign
  BY DEF Map!Emplace, Map!EmplaceNew
<1>2. Map!TypeOK /\ MapCap \in Nat \ {0} /\ Map!Idxs = 0..(MapCap - 1)
  BY MapNumbers DEF MapInv
<1>3. \E c \in Map!Idxs : cells[c].dist = 0
  BY <1>1, EmptyCell
<1>4. s \in 1..MapCap /\ (\A g \in 1..(s - 1) : g \in 1..MapCap /\ cells[Map!Probe(k, g)].dist >= g) /\ cells[i].dist < s
  BY <1>2, <1>3, Search
<1>5. el \in Map!Bucket /\ el.dist = s /\ el.key = k
  BY <1>4 DEF Map!Bucket
<1>6. \A c \in Map!Stored : cells[c].key # k
  BY <1>1, FindIs
<1>7. i \in Map!Idxs
  BY <1>2, <1>4, ProbesFollow
<1>8. ASSUME NEW j \in 1..(s - 1) PROVE cells[CellBack(i, j)].dist >= s - j
  <2>1. PICK g \in 1..(s - 1) : g = s - j
    BY <1>4
  <2>2. g \in 1..s /\ s - g = j
    BY <1>4, <2>1
  <2>3. Map!Probe(k, g) = CellBack(i, j)
    BY <1>4, <2>2, ProbesFollow
  <2> QED BY <1>4, <2>1, <2>3
<1>9. cells' = Map!Place(i, el, cells) /\ at \in Map!Idxs /\ ret \in 0..MapCap /\ i \in 0..MapCap
  BY <1>1, <1>2, <1>7 DEF Map!InsertAt, Map!TypeOK
<1>10. CASE cells[i].dist = 0
  <2>1. occupied' = occupied + 1 /\ ret' = i /\ UNCHANGED <<pc, carry, at>>
    BY <1>1, <1>10 DEF Map!InsertAt, Map!IsEmpty
  <2>2. carry = Map!Hole
    BY <1>1 DEF MapInv, HandReached
  <2>3. /\ Map!Probe(el.key, el.dist) = i /\ \A c \in Map!Stored : cells[c].key # el.key
        /\ \A j \in 1..(el.dist - 1) : cells[CellBack(i, j)].dist >= el.dist - j
    BY <1>5, <1>6, <1>8
  <2>4. pc # "shift" /\ pc' = "idle" /\ carry' = Map!Hole /\ at' \in Map!Idxs /\ ret' \in 0..MapCap
    BY <1>1, <1>9, <2>1, <2>2
  <2> HIDE DEF i, s, el
  <2> QED BY <1>1, <1>5, <1>7, <1>9, <1>10, <2>1, <2>3, <2>4, TakesEmpty
<1>11. CASE cells[i].dist # 0
  <2>1. pc' = "relocate" /\ at' = Map!NextIdx(i) /\ carry' = [cells[i] EXCEPT !.dist = @ + 1] /\ UNCHANGED <<occupied, ret>>
    BY <1>1, <1>11 DEF Map!InsertAt, Map!IsEmpty
  <2>2. i \in Map!Stored
    BY <1>2, <1>7, <1>11, MapCells
  <2>3. /\ Map!Probe(el.key, el.dist) = i /\ \A c \in Map!Stored : cells[c].key # el.key
        /\ \A j \in 1..(el.dist - 1) : cells[CellBack(i, j)].dist >= el.dist - j
    BY <1>5, <1>6, <1>8
  <2>4. pc # "shift" /\ ret' \in 0..MapCap /\ cells[i].dist < el.dist /\ UNCHANGED <<occupied, assign>>
    BY <1>1, <1>4, <1>5, <1>9, <2>1
  <2> HIDE DEF i, s, el
  <2> QED BY <1>1, <1>5, <1>9, <2>1, <2>2, <2>3, <2>4, TakenInHand
<1> QED BY <1>10, <1>11

LEMMA RelocateKeeps ==
    ASSUME MapInv, Map!Relocate PROVE MapInv'
<1>1. /\ pc = "relocate" /\ carry \in Map!Bucket /\ occupied < MapCap /\ occupied # MapCap
      /\ \A i \in Map!Stored : cells[i].key # carry.key
      /\ Map!Probe(carry.key, carry.dist) = at
      /\ \A j \in 1..(carry.dist - 1) : cells[CellBack(at, j)].dist >= carry.dist - j
  BY MapNumbers DEF Map!Relocate, MapInv, HandReached, Map!TypeOK
<1>2. /\ Map!TypeOK /\ MapCap \in Nat \ {0} /\ Map!Idxs = 0..(MapCap - 1) /\ at \in Map!Idxs
      /\ assign' = assign /\ ret \in 0..MapCap /\ at \in 0..MapCap
  BY MapNumbers DEF MapInv, Map!TypeOK, Map!Relocate
<1>3. CASE Map!RelocateEnds
  <2>1. /\ cells[at].dist = 0 /\ cells' = Map!Place(at, carry, cells) /\ occupied' = occupied + 1 /\ ret' = at
        /\ pc' = "idle" /\ carry' = Map!Hole /\ at' = at
    BY <1>3 DEF Map!RelocateEnds, Map!IsEmpty
  <2>2. pc # "shift" /\ at' \in Map!Idxs /\ ret' \in 0..MapCap
    BY <1>1, <1>2, <2>1
  <2>3. PICK i \in Map!Idxs, el \in Map!Bucket : i = at /\ el = carry
    BY <1>1, <1>2
  <2> QED BY <1>1, <1>2, <2>1, <2>2, <2>3, TakesEmpty
<1>4. CASE Map!RelocateSwaps
  <2>1. /\ cells[at].dist # 0 /\ cells[at].dist < carry.dist /\ cells' = Map!Place(at, carry, cells)
        /\ carry' = [cells[at] EXCEPT !.dist = @ + 1] /\ at' = Map!NextIdx(at) /\ UNCHANGED <<occupied, ret, pc>>
    BY <1>4 DEF Map!RelocateSwaps, Map!IsEmpty
  <2>2. at \in Map!Stored /\ pc # "shift" /\ pc' = "relocate" /\ ret' \in 0..MapCap
    BY <1>1, <1>2, <2>1, MapCells
  <2>3. PICK i \in Map!Stored, el \in Map!Bucket : i = at /\ el = carry
    BY <1>1, <1>2, <2>2
  <2> QED BY <1>1, <1>2, <2>1, <2>2, <2>3, TakenInHand
<1>5. CASE Map!RelocatePasses
  <2> DEFINE d == carry.dist
  <2>1. /\ cells[at].dist >= d /\ carry' = [carry EXCEPT !.dist = @ + 1]
        /\ at' = Map!NextIdx(at) /\ UNCHANGED <<cells, occupied, ret, pc>>
    BY <1>5 DEF Map!RelocatePasses, Map!GoesOn
  <2>2. d \in 1..MapCap /\ carry.key \in MapKeys /\ carry.val \in MapVals /\ cells[at].dist \in 0..MapCap
    BY <1>1, <1>2, MapCells DEF Map!Bucket
  <2>3. d + 1 \in 1..MapCap
    <3>1. at \in Map!Stored
      BY <1>2, <2>1, <2>2, MapCells
    <3>2. cells[at].dist < MapCap
      BY <1>1, <3>1, EmptyCell
    <3> QED BY ONLY <1>2, <2>1, <2>2, <3>2
  <2>4. carry' \in Map!Bucket /\ carry'.dist = d + 1 /\ carry'.key = carry.key
    BY <1>1, <2>1, <2>3 DEF Map!Bucket
  <2>5. Map!Probe(carry.key, d + 1) = Map!NextIdx(at)
    BY <1>1, <2>2, ProbesFollow
  <2> HIDE DEF d
  <2>6. ASSUME NEW j \in 1..d PROVE cells[CellBack(Map!NextIdx(at), j)].dist >= d + 1 - j
    <3>1. j \in 1..(MapCap - 1)
      BY ONLY <1>2, <2>2, <2>3
    <3>2. CellBack(Map!NextIdx(at), j) = CellBack(at, j - 1)
      BY <1>2, <3>1, BackNext
    <3>3. CASE j = 1
      <4>1. CellBack(at, 0) = at
        BY <1>2, BackNext
      <4>2. j - 1 = 0 /\ d + 1 - j = d
        BY ONLY <2>2, <3>3
      <4> QED BY ONLY <2>1, <3>2, <4>1, <4>2
    <3>4. CASE j # 1
      <4>1. PICK g \in 1..(d - 1) : g = j - 1
        BY ONLY <2>2, <3>4
      <4>2. cells[CellBack(at, g)].dist >= d - g
        BY <1>1 DEF d
      <4>3. d - g = d + 1 - j
        BY ONLY <2>2, <4>1
      <4> QED BY <3>2, <4>1, <4>2, <4>3
    <3> QED BY <3>3, <3>4
  <2>7. HandReached'
    <3>1. \A j \in 1..(carry'.dist - 1) : cells'[CellBack(at', j)].dist >= carry'.dist - j
      BY <2>1, <2>2, <2>4, <2>6
    <3>2. Map!Stored' = Map!Stored
      BY <2>1 DEF Map!Stored, Map!IsEmpty
    <3>3. \A i \in Map!Stored' : cells'[i].key # carry'.key
      BY <1>1, <2>1, <2>4, <3>2
    <3> QED BY <1>1, <2>1, <2>4, <2>5, <3>1, <3>3 DEF HandReached, CellBack, Map!Probe, Map!ToIdx
  <2>8. Map!TypeOK'
    BY <1>2, <2>1, <2>4, MapNext DEF Map!TypeOK
  <2>9. Map!Stored' = Map!Stored
    BY <2>1 DEF Map!Stored, Map!IsEmpty
  <2>10. Reached' /\ KeysDiffer' /\ Map!DistanceTrue'
    BY <1>1, <2>1, <2>9 DEF MapInv, Reached, KeysDiffer, Map!DistanceTrue, CellBack, Map!Probe, Map!ToIdx
  <2>11. Map!OccupiedCounts'
    BY <2>1, <2>9, MapCard DEF MapInv, Map!OccupiedCounts
  <2> QED BY <1>1, <1>2, <2>1, <2>7, <2>8, <2>10, <2>11 DEF MapInv
<1> QED BY <1>3, <1>4, <1>5 DEF Map!Relocate

LEMMA AssignKeeps ==
    ASSUME MapInv, NEW k \in MapKeys, NEW v \in MapVals, Map!AssignExisting(k, v) PROVE MapInv'
<1> DEFINE f == Map!Find(k)
<1>1. /\ pc = "idle" /\ f # MapCap /\ ret' = f /\ cells' = [cells EXCEPT ![f].val = v]
      /\ UNCHANGED <<occupied, pc, carry, at, assign>>
  BY DEF Map!AssignExisting
<1>2. f \in Map!Stored /\ f \in Map!Idxs /\ f \in 0..MapCap /\ Map!TypeOK
  BY <1>1, FindIs, MapCells DEF MapInv
<1> HIDE DEF f
<1>3. cells \in [Map!Idxs -> Map!Bucket \cup {Map!Hole}] /\ cells[f] \in Map!Bucket
  BY <1>2, MapCells
<1>4. \A c \in Map!Idxs : cells'[c].key = cells[c].key /\ cells'[c].dist = cells[c].dist
  BY <1>1, <1>2, <1>3 DEF Map!Bucket, Map!Hole
<1>5. cells' \in [Map!Idxs -> Map!Bucket \cup {Map!Hole}]
  <2>1. [cells[f] EXCEPT !.val = v] \in Map!Bucket
    BY <1>3 DEF Map!Bucket
  <2>2. cells' = [cells EXCEPT ![f] = [cells[f] EXCEPT !.val = v]]
    BY <1>1, <1>3
  <2> QED BY <1>3, <2>1, <2>2
<1>6. Map!Stored' = Map!Stored
  BY <1>4 DEF Map!Stored, Map!IsEmpty
<1>7. \A c \in Map!Stored : c \in Map!Idxs /\ cells[c].dist \in 1..MapCap
  BY <1>2, MapCells
<1>8. \A c \in Map!Idxs, j \in 0..(MapCap - 1) : CellBack(c, j) \in Map!Idxs
  BY BackNext
<1>9. Map!TypeOK'
  BY <1>1, <1>2, <1>5 DEF Map!TypeOK
<1>10. KeysDiffer' /\ Map!DistanceTrue'
  BY <1>4, <1>6, <1>7 DEF MapInv, KeysDiffer, Map!DistanceTrue, Map!Probe, Map!ToIdx
<1>11. Reached'
  <2>1. ASSUME NEW c \in Map!Stored, NEW j \in 0..(cells[c].dist - 1)
        PROVE  cells'[CellBack(c, j)].dist >= cells'[c].dist - j
    <3>1. c \in Map!Idxs /\ j \in 0..(MapCap - 1)
      BY <1>7, MapNumbers
    <3>2. cells[CellBack(c, j)].dist >= cells[c].dist - j
      BY <1>1 DEF MapInv, Reached
    <3> QED BY <1>4, <1>8, <3>1, <3>2
  <2>2. \A c \in Map!Stored' : cells'[c].dist = cells[c].dist
    BY <1>4, <1>6, <1>7
  <2> QED BY <1>6, <2>1, <2>2 DEF Reached, CellBack
<1>12. Map!OccupiedCounts'
  BY <1>1, <1>6, MapCard DEF MapInv, Map!OccupiedCounts
<1>13. HandReached' /\ (pc = "shift" => cells[at].dist = 0)' /\ assign' = {}
  BY <1>1 DEF MapInv, HandReached, Map!Hole
<1> QED BY <1>9, <1>10, <1>11, <1>12, <1>13 DEF MapInv

LEMMA HoleIs == Map!Hole \in Map!Bucket \cup {Map!Hole} /\ Map!Hole.dist = 0
  BY DEF Map!Hole

LEMMA EraseKeeps ==
    ASSUME MapInv, NEW k \in MapKeys, Map!Erase(k) PROVE MapInv'
<1> DEFINE f == Map!Find(k)
<1>1. /\ pc = "idle" /\ f # MapCap /\ cells' = Map!Place(f, Map!Hole, cells) /\ occupied' = occupied - 1
      /\ at' = f /\ pc' = "shift" /\ UNCHANGED <<carry, ret, assign>>
  BY DEF Map!Erase, Map!EraseAt
<1>2. f \in Map!Stored /\ f \in Map!Idxs /\ Map!TypeOK
  BY <1>1, FindIs, MapCells DEF MapInv
<1> HIDE DEF f
<1>3. cells \in [Map!Idxs -> Map!Bucket \cup {Map!Hole}]
  BY <1>2, MapCells
<1>4. cells'[f] = Map!Hole /\ cells'[f].dist = 0 /\ \A c \in Map!Idxs \ {f} : cells'[c] = cells[c]
  BY <1>1, <1>2, <1>3, HoleIs DEF Map!Place
<1>5. cells' \in [Map!Idxs -> Map!Bucket \cup {Map!Hole}]
  BY <1>1, <1>3, HoleIs DEF Map!Place
<1>6. Map!Stored' = Map!Stored \ {f}
  BY <1>4 DEF Map!Stored, Map!IsEmpty
<1>7. \A c \in Map!Stored : c \in Map!Idxs /\ cells[c].dist \in 1..MapCap
  BY <1>2, MapCells
<1>8. Cardinality(Map!Stored \ {f}) = Cardinality(Map!Stored) - 1
  BY <1>2, MapCard, FS_RemoveElement
<1>9. occupied' = Cardinality(Map!Stored') /\ occupied' \in 0..MapCap
  <2>1. occupied = Cardinality(Map!Stored) /\ occupied \in 0..MapCap /\ MapCap \in Nat
    BY <1>2, MapCard, MapNumbers DEF MapInv, Map!OccupiedCounts, Map!TypeOK
  <2>2. occupied # 0
    BY <1>2, <2>1, MapCard, FS_EmptySet
  <2> QED BY <1>1, <1>6, <1>8, <2>1, <2>2
<1>10. Map!TypeOK'
  BY <1>1, <1>2, <1>5, <1>9 DEF Map!TypeOK
<1>11. KeysDiffer' /\ Map!DistanceTrue'
  BY <1>4, <1>6, <1>7 DEF MapInv, KeysDiffer, Map!DistanceTrue, Map!Probe, Map!ToIdx
<1>12. Reached'
  <2>1. ASSUME NEW c \in Map!Stored \ {f}, NEW j \in 0..(cells[c].dist - 1)
        PROVE  CellBack(c, j) = f \/ cells'[CellBack(c, j)].dist >= cells[c].dist - j
    <3>1. c \in Map!Idxs /\ j \in 0..(MapCap - 1)
      BY <1>7, MapNumbers
    <3>2. cells[CellBack(c, j)].dist >= cells[c].dist - j
      BY <1>1 DEF MapInv, Reached
    <3> QED BY <1>4, <3>1, <3>2, BackNext
  <2>2. \A c \in Map!Stored' : c \in Map!Stored \ {f} /\ cells'[c].dist = cells[c].dist
    BY <1>4, <1>6, <1>7
  <2> QED BY <1>1, <2>1, <2>2 DEF Reached, CellBack
<1>13. Map!OccupiedCounts'
  BY <1>9, MapCard DEF Map!OccupiedCounts
<1>14. HandReached' /\ (pc = "shift" => cells[at].dist = 0)' /\ assign' = {}
  BY <1>1, <1>4 DEF MapInv, HandReached, Map!Hole
<1> QED BY <1>10, <1>11, <1>12, <1>13, <1>14 DEF MapInv

LEMMA ShiftTurnKeeps ==
    ASSUME MapInv, Map!Shift, Map!ShiftTurn PROVE MapInv'
<1> DEFINE n == Map!NextIdx(at)
           d == cells[n].dist
           el == Map!ShiftedBack(cells[n])
<1>1. /\ pc = "shift" /\ d > 1 /\ at' = n /\ UNCHANGED <<occupied, pc, carry, ret, assign>>
      /\ cells' = Map!Place(n, Map!Hole, Map!Place(at, el, cells))
  BY DEF Map!Shift, Map!ShiftTurn, Map!MayShift
<1>2. /\ Map!TypeOK /\ MapCap \in Nat \ {0} /\ at \in Map!Idxs /\ n \in Map!Idxs /\ cells[at].dist = 0
      /\ n = IF at + 1 < MapCap THEN at + 1 ELSE 0
  BY <1>1, MapNumbers, MapNext DEF MapInv, Map!TypeOK
<1>3. cells \in [Map!Idxs -> Map!Bucket \cup {Map!Hole}] /\ d \in 0..MapCap
  BY <1>2, MapCells
<1>4. n \in Map!Stored /\ cells[n] \in Map!Bucket /\ d \in 2..MapCap /\ n # at /\ at \notin Map!Stored
      /\ cells[n].key \in MapKeys /\ cells[n].val \in MapVals
  BY <1>1, <1>2, <1>3, MapCells
<1>5. el \in Map!Bucket /\ el.dist = d - 1 /\ el.key = cells[n].key /\ d - 1 \in 1..MapCap
  <2>1. d - 1 \in 1..MapCap
    BY ONLY <1>2, <1>4
  <2>2. el = [cells[n] EXCEPT !.dist = d - 1]
    BY DEF Map!ShiftedBack
  <2> QED BY <1>4, <2>1, <2>2 DEF Map!Bucket
<1> HIDE DEF n, el, d
<1>6. cells'[n] = Map!Hole /\ cells'[at] = el /\ \A c \in Map!Idxs \ {n, at} : cells'[c] = cells[c]
  BY <1>1, <1>2, <1>3, <1>4 DEF Map!Place
<1>7. cells' \in [Map!Idxs -> Map!Bucket \cup {Map!Hole}]
  BY <1>1, <1>3, <1>5, HoleIs DEF Map!Place
<1>8. Map!Stored' = (Map!Stored \ {n}) \cup {at}
  <2>1. \A c \in Map!Idxs : cells'[c].dist # 0 <=> (c = at \/ (c # n /\ cells[c].dist # 0))
    BY <1>2, <1>4, <1>5, <1>6, HoleIs
  <2>2. Map!Stored' = {c \in Map!Idxs : cells'[c].dist # 0} /\ Map!Stored = {c \in Map!Idxs : cells[c].dist # 0}
    BY DEF Map!Stored, Map!IsEmpty
  <2> QED BY ONLY <1>2, <1>4, <2>1, <2>2
<1>9. \A c \in Map!Stored : c \in Map!Idxs /\ cells[c].dist \in 1..MapCap
  BY <1>2, MapCells
<1>10. Map!OccupiedCounts'
  <2>1. Cardinality(Map!Stored \ {n}) = Cardinality(Map!Stored) - 1 /\ IsFiniteSet(Map!Stored \ {n})
    BY <1>4, MapCard, FS_RemoveElement
  <2>2. Cardinality((Map!Stored \ {n}) \cup {at}) = Cardinality(Map!Stored \ {n}) + 1
    BY <1>4, <2>1, FS_AddElement
  <2>3. Cardinality(Map!Stored) \in Nat
    BY MapCard, FS_CardinalityType
  <2>4. Cardinality(Map!Stored') = Cardinality(Map!Stored)
    BY ONLY <1>8, <2>1, <2>2, <2>3
  <2> QED BY <1>1, <2>4, MapCard DEF MapInv, Map!OccupiedCounts
<1>11. Map!DistanceTrue'
  <2>1. Map!Probe(el.key, el.dist) = at
    <3>1. Map!Probe(cells[n].key, d) = n
      BY <1>4 DEF MapInv, Map!DistanceTrue, d
    <3>2. d \in 1..MapCap /\ d - 1 \in 1..d /\ d - (d - 1) = 1 /\ 1 \in 1..(MapCap - 1)
      BY ONLY <1>2, <1>4
    <3>3. Map!Probe(cells[n].key, d - 1) = CellBack(n, 1)
      BY <1>4, <3>1, <3>2, ProbesFollow
    <3>4. CellBack(n, 1) = at
      <4>1. CellBack(n, 1) = CellBack(at, 0) /\ CellBack(at, 0) = at
        <5>1. CellBack(Map!NextIdx(at), 1) = CellBack(at, 1 - 1)
          BY <1>2, <3>2, BackNext
        <5> QED BY <1>2, <5>1, BackNext DEF n
      <4> QED BY <4>1
    <3> QED BY <1>5, <3>3, <3>4
  <2>2. \A c \in Map!Stored : Map!Probe(cells[c].key, cells[c].dist) = c
    BY DEF MapInv, Map!DistanceTrue
  <2>3. \A c \in Map!Stored' : Map!Probe(cells'[c].key, cells'[c].dist) = c
    BY <1>6, <1>8, <1>9, <2>1, <2>2
  <2> QED BY <2>3 DEF Map!DistanceTrue, Map!Probe, Map!ToIdx
<1>12. KeysDiffer'
  <2>1. \A c \in Map!Stored \ {n} : cells'[c].key = cells[c].key /\ cells[c].key # el.key
    BY <1>4, <1>5, <1>6, <1>9 DEF MapInv, KeysDiffer
  <2>2. \A c, g \in (Map!Stored \ {n}) \cup {at} : cells'[c].key = cells'[g].key => c = g
    BY <1>6, <2>1 DEF MapInv, KeysDiffer
  <2> QED BY <1>8, <2>2 DEF KeysDiffer
<1>13. Reached'
  <2>1. \A c \in Map!Stored, j \in 0..(MapCap - 1) :
            j < cells[c].dist => CellBack(c, j) = at \/ cells[CellBack(c, j)].dist >= cells[c].dist - j
    <3>1. ASSUME NEW c \in Map!Stored, NEW j \in 0..(MapCap - 1), j < cells[c].dist
          PROVE  CellBack(c, j) = at \/ cells[CellBack(c, j)].dist >= cells[c].dist - j
      <4>1. j \in 0..(cells[c].dist - 1)
        BY <1>9, <3>1
      <4> QED BY <4>1 DEF MapInv, Reached
    <3> QED BY <3>1
  <2>2. ASSUME NEW c \in Map!Stored \ {n}, NEW j \in 0..(cells[c].dist - 1)
        PROVE  CellBack(c, j) = n \/ cells'[CellBack(c, j)].dist >= cells[c].dist - j
    <3>1. c \in Map!Idxs /\ c # at /\ j \in 0..(MapCap - 1) /\ j < cells[c].dist /\ cells[c].dist \in 1..MapCap
      BY <1>2, <1>4, <1>9
    <3>2. CASE CellBack(c, j) = at
      <4>1. j # 0
        BY <3>1, <3>2, BackNext
      <4>2. j \in 1..(MapCap - 1) /\ j - 1 \in 0..(MapCap - 1) /\ j - 1 < cells[c].dist
        BY ONLY <1>2, <3>1, <4>1
      <4>3. n = CellBack(c, j - 1)
        BY <3>1, <3>2, <4>2, BackNext DEF n
      <4>4. d >= cells[c].dist - (j - 1)
        BY <1>4, <2>1, <4>2, <4>3 DEF d
      <4> QED BY <1>3, <1>5, <1>6, <3>1, <3>2, <4>4
    <3>3. CASE CellBack(c, j) # at
      <4>1. CellBack(c, j) \in Map!Idxs
        BY <3>1, BackNext
      <4> QED BY <1>6, <2>1, <3>1, <3>3, <4>1
    <3> QED BY <3>2, <3>3
  <2>3. ASSUME NEW j \in 0..(d - 2)
        PROVE  CellBack(at, j) = n \/ cells'[CellBack(at, j)].dist >= (d - 1) - j
    <3>1. j + 1 \in 1..(MapCap - 1) /\ j + 1 \in 0..(MapCap - 1) /\ j + 1 < d /\ (j + 1) - 1 = j
          /\ d - (j + 1) = (d - 1) - j /\ j \in 0..(MapCap - 1)
      BY ONLY <1>2, <1>4, <2>3
    <3>2. CellBack(n, j + 1) = CellBack(at, j)
      <4>1. CellBack(Map!NextIdx(at), j + 1) = CellBack(at, (j + 1) - 1)
        BY <1>2, <3>1, BackNext
      <4> QED BY <3>1, <4>1 DEF n
    <3>3. CellBack(at, j) = at \/ cells[CellBack(at, j)].dist >= (d - 1) - j
      <4>1. CellBack(n, j + 1) = at \/ cells[CellBack(n, j + 1)].dist >= d - (j + 1)
        BY <1>4, <2>1, <3>1 DEF d
      <4> QED BY <3>1, <3>2, <4>1
    <3>4. CASE CellBack(at, j) = at
      <4>1. el.dist >= (d - 1) - j
        BY <1>4, <1>5, <2>3
      <4> QED BY <1>6, <3>4, <4>1
    <3>5. CASE CellBack(at, j) # at
      <4>1. CellBack(at, j) \in Map!Idxs
        BY <1>2, <3>1, BackNext
      <4> QED BY <1>6, <3>3, <3>5, <4>1
    <3> QED BY <3>4, <3>5
  <2>4. ASSUME NEW c \in Map!Stored', NEW j \in 0..(cells'[c].dist - 1)
        PROVE  CellBack(c, j) = n \/ cells'[CellBack(c, j)].dist >= cells'[c].dist - j
    <3>1. CASE c = at
      <4>1. cells'[c].dist = d - 1
        BY <1>5, <1>6, <3>1
      <4>2. j \in 0..(d - 2)
        BY <1>4, <4>1
      <4> QED BY <2>3, <3>1, <4>1, <4>2
    <3>2. CASE c # at
      <4>1. c \in Map!Stored \ {n} /\ cells'[c] = cells[c]
        BY <1>6, <1>8, <1>9, <3>2
      <4> QED BY <2>2, <4>1
    <3> QED BY <3>1, <3>2
  <2> QED BY <1>1, <2>4 DEF Reached, CellBack
<1>14. Map!TypeOK'
  BY <1>1, <1>2, <1>7 DEF Map!TypeOK
<1>15. HandReached' /\ (pc = "shift" => cells[at].dist = 0)' /\ assign' = {}
  BY <1>1, <1>6 DEF MapInv, HandReached, Map!Hole
<1> QED BY <1>10, <1>11, <1>12, <1>13, <1>14, <1>15 DEF MapInv

LEMMA ShiftKeeps ==
    ASSUME MapInv, Map!Shift PROVE MapInv'
<1>1. CASE Map!ShiftTurn
  BY <1>1, ShiftTurnKeeps
<1>2. CASE ~Map!MayShift(Map!NextIdx(at)) /\ pc' = "idle" /\ UNCHANGED <<cells, occupied, at>>
  <2> DEFINE n == Map!NextIdx(at)
  <2>1. /\ pc = "shift" /\ ~(cells[n].dist > 1) /\ pc' = "idle"
        /\ UNCHANGED <<cells, occupied, at, carry, ret, assign>>
    BY <1>2 DEF Map!Shift, Map!MayShift
  <2>2. Map!TypeOK /\ MapCap \in Nat \ {0} /\ at \in Map!Idxs /\ cells[at].dist = 0 /\ n \in Map!Idxs
    BY <2>1, MapNumbers, MapNext DEF MapInv, Map!TypeOK
  <2>3. cells[n].dist \in 0..MapCap /\ \A c \in Map!Stored : c \in Map!Idxs /\ cells[c].dist \in 1..MapCap
    BY <2>2, MapCells
  <2>4. ASSUME NEW c \in Map!Stored, NEW j \in 0..(cells[c].dist - 1)
        PROVE  cells[CellBack(c, j)].dist >= cells[c].dist - j
    <3>1. CASE CellBack(c, j) = at
      <4>1. c # at /\ c \in Map!Idxs /\ j \in 0..(MapCap - 1)
        BY <2>2, <2>3
      <4>2. j # 0
        BY <3>1, <4>1, BackNext
      <4>3. j \in 1..(MapCap - 1) /\ j - 1 \in 0..(cells[c].dist - 1)
        BY <2>2, <2>3, <4>1, <4>2
      <4>4. n = CellBack(c, j - 1)
        BY <3>1, <4>1, <4>3, BackNext
      <4>5. n = at \/ cells[n].dist >= cells[c].dist - (j - 1)
        BY <2>1, <4>3, <4>4 DEF MapInv, Reached
      <4> HIDE DEF n
      <4>6. CASE n # at
        BY <2>1, <2>3, <4>3, <4>5, <4>6
      <4>7. CASE n = at
        <5>1. c \in Map!Idxs /\ MapCap \in Nat \ {0} /\ at \in 0..(MapCap - 1) /\ c \in 0..(MapCap - 1)
          BY <2>2, <4>1, MapNumbers
        <5>2. n = IF at + 1 < MapCap THEN at + 1 ELSE 0
          BY <2>2, MapNext DEF n
        <5> QED BY ONLY <4>1, <4>7, <5>1, <5>2
      <4> QED BY <4>6, <4>7
    <3>2. CASE CellBack(c, j) # at
      BY <2>1, <3>2 DEF MapInv, Reached
    <3> QED BY <3>1, <3>2
  <2>5. Map!Stored' = Map!Stored
    BY <2>1 DEF Map!Stored, Map!IsEmpty
  <2>6. Reached'
    BY <2>1, <2>4, <2>5 DEF Reached, CellBack
  <2>7. Map!TypeOK'
    BY <2>1, <2>2 DEF Map!TypeOK
  <2>8. KeysDiffer' /\ Map!DistanceTrue'
    BY <2>1, <2>5 DEF MapInv, KeysDiffer, Map!DistanceTrue, Map!Probe, Map!ToIdx
  <2>9. Map!OccupiedCounts'
    BY <2>1, <2>5, MapCard DEF MapInv, Map!OccupiedCounts
  <2>10. HandReached' /\ (pc = "shift" => cells[at].dist = 0)' /\ assign' = {}
    BY <2>1 DEF MapInv, HandReached, Map!Hole
  <2> QED BY <2>6, <2>7, <2>8, <2>9, <2>10 DEF MapInv
<1> QED BY <1>1, <1>2 DEF Map!Shift

LEMMA EmptyMapKeeps ==
    ASSUME MapInv, Map!Clear PROVE MapInv'
<1>1. pc = "idle" /\ cells' = [i \in Map!Idxs |-> Map!Hole] /\ occupied' = 0 /\ UNCHANGED <<pc, carry, at, ret, assign>>
  BY DEF Map!Clear
<1>2. \A i \in Map!Idxs : cells'[i] = Map!Hole /\ cells'[i].dist = 0
  BY <1>1, HoleIs
<1>3. Map!Stored' = {}
  BY <1>2 DEF Map!Stored, Map!IsEmpty
<1>4. Map!TypeOK'
  BY <1>1, MapNumbers DEF MapInv, Map!TypeOK
<1>5. Map!OccupiedCounts'
  BY <1>1, <1>3, MapCard, FS_EmptySet DEF Map!OccupiedCounts
<1>6. Map!DistanceTrue' /\ Reached' /\ KeysDiffer'
  BY <1>3 DEF Map!DistanceTrue, Reached, KeysDiffer
<1>7. HandReached' /\ (pc = "shift" => cells[at].dist = 0)' /\ assign' = {}
  BY <1>1 DEF MapInv, HandReached, Map!Hole
<1> QED BY <1>4, <1>5, <1>6, <1>7 DEF MapInv

LEMMA MapKeeps ==
    ASSUME MapInv, Map!Next PROVE MapInv'
<1>1. ASSUME NEW k \in MapKeys, NEW v \in MapVals, Map!Emplace(k, v) \/ Map!AssignExisting(k, v) PROVE MapInv'
  BY <1>1, EmplaceKeeps, AssignKeeps
<1>2. ASSUME NEW k \in MapKeys, Map!Erase(k) PROVE MapInv'
  BY <1>2, EraseKeeps
<1> QED BY <1>1, <1>2, RelocateKeeps, ShiftKeeps, EmptyMapKeeps DEF Map!Next

LEMMA MapFinds ==
    ASSUME MapInv
    PROVE  Map!TypeOK /\ Map!EveryKeyFound /\ Map!DistanceTrue /\ Map!OccupiedCounts
<1>1. Map!EveryKeyFound
  BY FoundOnce DEF Map!EveryKeyFound
<1> QED BY <1>1 DEF MapInv

LEMMA MapStays ==
    ASSUME MapInv, UNCHANGED <<cells, occupied, pc, carry, at, ret, assign>>
    PROVE  MapInv'
<1>1. Map!Stored' = Map!Stored
  BY DEF Map!Stored, Map!IsEmpty
<1>2. Map!TypeOK' /\ (pc = "shift" => cells[at].dist = 0)' /\ assign' = {}
  BY Zenon DEF MapInv, Map!TypeOK
<1>3. Map!DistanceTrue' /\ Reached' /\ KeysDiffer' /\ HandReached'
  BY <1>1 DEF MapInv, Map!DistanceTrue, Map!Probe, Map!ToIdx, Reached, KeysDiffer, HandReached, CellBack
<1>4. Map!OccupiedCounts'
  BY <1>1, MapCard DEF MapInv, Map!OccupiedCounts
<1> QED BY <1>2, <1>3, <1>4 DEF MapInv

-----------------------------------------------------------------------------
(* What the cells say as a map, and the steps of a map.                    *)

\* The keys and values that the callers see.
MapPairs ==
    {<<cells[i].key, cells[i].val>> : i \in Map!Stored} \cup
    (IF pc = "relocate" THEN {<<carry.key, carry.val>>} ELSE {})

PairsMap(P) == [k \in {p[1] : p \in P} |-> (CHOOSE p \in P : p[1] = k)[2]]
OneEach(P) == P \subseteq MapKeys \X MapVals /\ \A p, q \in P : p[1] = q[1] => p = q

LEMMA ContentsArePairs ==
    ASSUME MapInv PROVE Map!Contents = PairsMap(MapPairs) /\ OneEach(MapPairs)
<1> DEFINE E == Map!Elements
<1>1. /\ \A i \in Map!Stored : /\ cells[i] \in Map!Bucket /\ cells[i].key \in MapKeys /\ cells[i].val \in MapVals
                               /\ i \in Map!Idxs
      /\ pc = "relocate" => carry \in Map!Bucket /\ carry # Map!Hole /\ carry.key \in MapKeys /\ carry.val \in MapVals
                            /\ \A i \in Map!Stored : cells[i].key # carry.key
      /\ pc # "relocate" => carry = Map!Hole
  <2>1. \A x \in Map!Bucket : x # Map!Hole /\ x.key \in MapKeys /\ x.val \in MapVals
    BY DEF Map!Bucket, Map!Hole
  <2>2. Map!TypeOK
    BY DEF MapInv
  <2> QED BY <2>1, <2>2, MapCells DEF MapInv, HandReached
<1>2. E = {cells[i] : i \in Map!Stored} \cup (IF pc = "relocate" THEN {carry} ELSE {})
  BY <1>1 DEF Map!Elements, Map!InHand
<1>3. \A x, y \in E : x.key = y.key => x = y
  BY <1>1, <1>2 DEF MapInv, KeysDiffer
<1>4. MapPairs = {<<x.key, x.val>> : x \in E}
  BY <1>2 DEF MapPairs
<1>5. \A x \in E : x.key \in MapKeys /\ x.val \in MapVals
  BY <1>1, <1>2
<1>6. Map!Contents = [k \in {x.key : x \in E} |-> (CHOOSE x \in E : x.key = k).val]
  BY DEF Map!Contents
<1> HIDE DEF E
<1>7. OneEach(MapPairs)
  BY <1>3, <1>4, <1>5 DEF OneEach
<1>8. {p[1] : p \in MapPairs} = {x.key : x \in E}
  <2>1. ASSUME NEW p \in MapPairs PROVE p[1] \in {x.key : x \in E}
    <3>1. PICK x \in E : p = <<x.key, x.val>>
      BY <1>4
    <3> QED BY <3>1
  <2>2. ASSUME NEW x \in E PROVE \E p \in MapPairs : p[1] = x.key
    <3>1. <<x.key, x.val>> \in MapPairs
      BY <1>4
    <3> QED BY <3>1
  <2> QED BY <2>1, <2>2
<1> DEFINE A(k) == (CHOOSE x \in E : x.key = k).val
           B(k) == (CHOOSE p \in MapPairs : p[1] = k)[2]
<1>9. ASSUME NEW k \in {x.key : x \in E}
      PROVE  A(k) = B(k)
  <2>1. PICK y \in E : y.key = k
    OBVIOUS
  <2>2. (CHOOSE x \in E : x.key = k) = y
    BY <1>3, <2>1
  <2>3. <<k, y.val>> \in MapPairs
    BY <1>4, <2>1
  <2>4. (CHOOSE p \in MapPairs : p[1] = k) = <<k, y.val>>
    BY <1>7, <2>3 DEF OneEach
  <2>5. A(k) = y.val
    BY <2>2, Zenon
  <2>6. B(k) = <<k, y.val>>[2]
    BY <2>4, Zenon
  <2> HIDE DEF A, B
  <2> QED BY <2>5, <2>6
<1>11. Map!Contents = [k \in {x.key : x \in E} |-> A(k)] /\ PairsMap(MapPairs) = [k \in {p[1] : p \in MapPairs} |-> B(k)]
  BY <1>6, Zenon DEF PairsMap
<1> HIDE DEF A, B
<1>10. Map!Contents = PairsMap(MapPairs)
  BY ONLY <1>8, <1>9, <1>11
<1> QED BY <1>7, <1>10

LEMMA ContentsArePairsNext ==
    MapInv' => Map!Contents' = PairsMap(MapPairs') /\ OneEach(MapPairs')
<1>1. MapInv => Map!Contents = PairsMap(MapPairs) /\ OneEach(MapPairs)
  BY ContentsArePairs
<1>2. MapInv' => (Map!Contents = PairsMap(MapPairs) /\ OneEach(MapPairs))'
  BY <1>1, PTL
<1> QED BY <1>2 DEF PairsMap, OneEach

LEMMA PairsMapIs ==
    ASSUME NEW P, OneEach(P)
    PROVE  /\ DOMAIN PairsMap(P) = {p[1] : p \in P}
           /\ \A p \in P : PairsMap(P)[p[1]] = p[2]
           /\ PairsMap(P) = [k \in DOMAIN PairsMap(P) |-> PairsMap(P)[k]]
<1>1. ASSUME NEW p \in P PROVE PairsMap(P)[p[1]] = p[2]
  <2>1. (CHOOSE q \in P : q[1] = p[1]) = p
    BY DEF OneEach
  <2> QED BY <2>1 DEF PairsMap
<1> QED BY <1>1 DEF PairsMap

KeysOf(P) == {p[1] : p \in P}

LEMMA PairsStay ==
    ASSUME MapInv, MapInv', MapPairs' = MapPairs PROVE UNCHANGED Map!M!vars
<1>1. Map!Contents' = Map!Contents
  BY ContentsArePairs, ContentsArePairsNext DEF PairsMap
<1> QED BY <1>1 DEF Map!M!vars

LEMMA PairsAdd ==
    ASSUME MapInv, MapInv', NEW k, NEW v, MapPairs' = MapPairs \cup {<<k, v>>}, k \notin KeysOf(MapPairs),
           Cardinality(KeysOf(MapPairs)) < MapCap
    PROVE  Map!M!Insert(k, v)
<1> DEFINE P == MapPairs
           Q == MapPairs \cup {<<k, v>>}
<1>1. Map!Contents = PairsMap(P) /\ OneEach(P) /\ Map!Contents' = PairsMap(Q) /\ OneEach(Q)
  BY ContentsArePairs, ContentsArePairsNext, Zenon
<1>2. DOMAIN PairsMap(P) = KeysOf(P) /\ \A p \in P : PairsMap(P)[p[1]] = p[2]
  BY <1>1, PairsMapIs DEF KeysOf
<1>3. DOMAIN PairsMap(Q) = KeysOf(Q) /\ (\A p \in Q : PairsMap(Q)[p[1]] = p[2])
      /\ PairsMap(Q) = [j \in KeysOf(Q) |-> PairsMap(Q)[j]]
  BY <1>1, PairsMapIs DEF KeysOf
<1>4. KeysOf(Q) = KeysOf(P) \cup {k}
  <2>1. <<k, v>> \in Q /\ <<k, v>>[1] = k /\ P \subseteq Q /\ \A p \in Q : p \in P \/ p[1] = k
    OBVIOUS
  <2> HIDE DEF P, Q
  <2>2. k \in KeysOf(Q)
    BY <2>1 DEF KeysOf
  <2>3. KeysOf(P) \subseteq KeysOf(Q) /\ KeysOf(Q) \subseteq KeysOf(P) \cup {k}
    BY <2>1 DEF KeysOf
  <2> QED BY <2>2, <2>3
<1>5. \A j \in KeysOf(Q) : PairsMap(Q)[j] = IF j = k THEN v ELSE PairsMap(P)[j]
  <2>1. PairsMap(Q)[k] = v
    <3>1. <<k, v>> \in Q
      OBVIOUS
    <3>2. PairsMap(Q)[<<k, v>>[1]] = <<k, v>>[2]
      BY <1>3, <3>1, Zenon
    <3> QED BY <3>2
  <2>2. ASSUME NEW j \in KeysOf(P) PROVE PairsMap(Q)[j] = PairsMap(P)[j] /\ j # k
    <3>1. PICK p \in P : p[1] = j
      BY DEF KeysOf
    <3>2. p \in Q
      OBVIOUS
    <3> QED BY <1>2, <1>3, <3>1, <3>2
  <2> QED BY <1>4, <2>1, <2>2
<1> HIDE DEF Q, P
<1>6. Map!Contents' = [j \in DOMAIN Map!Contents \cup {k} |-> IF j = k THEN v ELSE Map!Contents[j]]
  BY ONLY <1>1, <1>2, <1>3, <1>4, <1>5
<1>7. Map!M!Cardinality(DOMAIN Map!Contents) = Cardinality(DOMAIN Map!Contents)
  BY DEF Cardinality, Map!M!Cardinality
<1> QED BY <1>1, <1>2, <1>6, <1>7 DEF Map!M!Insert, P

LEMMA PairsAssign ==
    ASSUME MapInv, MapInv', NEW k, NEW v, k \in KeysOf(MapPairs),
           MapPairs' = {p \in MapPairs : p[1] # k} \cup {<<k, v>>}
    PROVE  Map!M!Assign(k, v)
<1> DEFINE P == MapPairs
           Q == {p \in MapPairs : p[1] # k} \cup {<<k, v>>}
<1>1. Map!Contents = PairsMap(P) /\ OneEach(P) /\ Map!Contents' = PairsMap(Q) /\ OneEach(Q)
  BY ContentsArePairs, ContentsArePairsNext, Zenon
<1>2. DOMAIN PairsMap(P) = KeysOf(P) /\ (\A p \in P : PairsMap(P)[p[1]] = p[2])
      /\ PairsMap(P) = [j \in KeysOf(P) |-> PairsMap(P)[j]]
  BY <1>1, PairsMapIs DEF KeysOf
<1>3. DOMAIN PairsMap(Q) = KeysOf(Q) /\ (\A p \in Q : PairsMap(Q)[p[1]] = p[2])
      /\ PairsMap(Q) = [j \in KeysOf(Q) |-> PairsMap(Q)[j]]
  BY <1>1, PairsMapIs DEF KeysOf
<1>4. KeysOf(Q) = KeysOf(P)
  <2>1. ASSUME NEW j \in KeysOf(P) PROVE j \in KeysOf(Q)
    <3>1. PICK p \in P : p[1] = j
      BY DEF KeysOf
    <3>2. <<k, v>> \in Q /\ <<k, v>>[1] = k /\ (j # k => p \in Q)
      BY <3>1
    <3> HIDE DEF Q
    <3> QED BY <3>1, <3>2 DEF KeysOf
  <2>2. KeysOf(Q) \subseteq KeysOf(P)
    BY DEF KeysOf
  <2> QED BY <2>1, <2>2
<1>5. \A j \in KeysOf(P) : PairsMap(Q)[j] = IF j = k THEN v ELSE PairsMap(P)[j]
  <2>1. PairsMap(Q)[k] = v
    <3>1. <<k, v>> \in Q
      OBVIOUS
    <3>2. PairsMap(Q)[<<k, v>>[1]] = <<k, v>>[2]
      BY <1>3, <3>1, Zenon
    <3> QED BY <3>2
  <2>2. ASSUME NEW j \in KeysOf(P), j # k PROVE PairsMap(Q)[j] = PairsMap(P)[j]
    <3>1. PICK p \in P : p[1] = j
      BY DEF KeysOf
    <3>2. p \in Q
      BY <2>2, <3>1
    <3> QED BY <1>2, <1>3, <3>1, <3>2
  <2> QED BY <2>1, <2>2
<1>6. k \in KeysOf(P)
  OBVIOUS
<1> HIDE DEF Q, P
<1>7. Map!Contents' = [Map!Contents EXCEPT ![k] = v] /\ k \in DOMAIN Map!Contents
  BY ONLY <1>1, <1>2, <1>3, <1>4, <1>5, <1>6
<1> QED BY <1>7 DEF Map!M!Assign

LEMMA PairsErase ==
    ASSUME MapInv, MapInv', NEW k, k \in KeysOf(MapPairs), MapPairs' = {p \in MapPairs : p[1] # k}
    PROVE  Map!M!Erase(k)
<1> DEFINE P == MapPairs
           Q == {p \in MapPairs : p[1] # k}
<1>1. Map!Contents = PairsMap(P) /\ OneEach(P) /\ Map!Contents' = PairsMap(Q) /\ OneEach(Q)
  BY ContentsArePairs, ContentsArePairsNext, Zenon
<1>2. DOMAIN PairsMap(P) = KeysOf(P) /\ \A p \in P : PairsMap(P)[p[1]] = p[2]
  BY <1>1, PairsMapIs DEF KeysOf
<1>3. DOMAIN PairsMap(Q) = KeysOf(Q) /\ (\A p \in Q : PairsMap(Q)[p[1]] = p[2])
      /\ PairsMap(Q) = [j \in KeysOf(Q) |-> PairsMap(Q)[j]]
  BY <1>1, PairsMapIs DEF KeysOf
<1>4. KeysOf(Q) = KeysOf(P) \ {k}
  BY DEF KeysOf
<1>5. ASSUME NEW j \in KeysOf(Q) PROVE PairsMap(Q)[j] = PairsMap(P)[j]
  <2>1. PICK p \in Q : p[1] = j
    BY DEF KeysOf
  <2> QED BY <1>2, <1>3, <2>1
<1>6. k \in KeysOf(P)
  OBVIOUS
<1> HIDE DEF Q, P
<1>7. Map!Contents' = [j \in DOMAIN Map!Contents \ {k} |-> Map!Contents[j]] /\ k \in DOMAIN Map!Contents
  BY ONLY <1>1, <1>2, <1>3, <1>4, <1>5, <1>6
<1> QED BY <1>7 DEF Map!M!Erase

LEMMA PairsClear ==
    ASSUME MapInv', MapPairs' = {} PROVE Map!M!Clear
<1>1. Map!Contents' = PairsMap({})
  BY ContentsArePairsNext, Zenon
<1> QED BY <1>1 DEF PairsMap, Map!M!Clear, Map!M!Empty

LEMMA KeysCounted ==
    ASSUME MapInv, pc # "relocate", occupied # MapCap
    PROVE  Cardinality(KeysOf(MapPairs)) < MapCap
<1>1. KeysOf(MapPairs) = {cells[i].key : i \in Map!Stored}
  <2>1. MapPairs = {<<cells[i].key, cells[i].val>> : i \in Map!Stored}
    BY DEF MapPairs
  <2>2. ASSUME NEW p \in MapPairs PROVE p[1] \in {cells[i].key : i \in Map!Stored}
    <3>1. PICK i \in Map!Stored : p = <<cells[i].key, cells[i].val>>
      BY <2>1
    <3> QED BY <3>1
  <2>3. ASSUME NEW i \in Map!Stored PROVE \E p \in MapPairs : p[1] = cells[i].key
    <3>1. <<cells[i].key, cells[i].val>> \in MapPairs
      BY <2>1
    <3> QED BY <3>1
  <2> QED BY <2>2, <2>3 DEF KeysOf
<1> DEFINE f == [i \in Map!Stored |-> cells[i].key]
<1>2. f \in Surjection(Map!Stored, KeysOf(MapPairs))
  BY <1>1 DEF Surjection
<1>3. Cardinality(KeysOf(MapPairs)) <= Cardinality(Map!Stored) /\ IsFiniteSet(KeysOf(MapPairs))
  BY <1>2, MapCard, FS_Surjection
<1>4. Cardinality(Map!Stored) = occupied /\ occupied \in 0..MapCap /\ MapCap \in Nat
  BY MapNumbers, MapCard DEF MapInv, Map!OccupiedCounts, Map!TypeOK
<1>5. Cardinality(KeysOf(MapPairs)) \in Nat
  BY <1>3, FS_CardinalityType
<1> QED BY <1>3, <1>4, <1>5

\* Who is in the map after one cell is replaced.
LEMMA PairsPlaced ==
    ASSUME MapInv, NEW i \in Map!Idxs, NEW x \in Map!Bucket, cells' = Map!Place(i, x, cells)
    PROVE  /\ Map!Stored' = Map!Stored \cup {i} /\ cells'[i] = x
           /\ \A c \in Map!Stored \ {i} : cells'[c] = cells[c]
<1>1. cells \in [Map!Idxs -> Map!Bucket \cup {Map!Hole}] /\ x.dist \in 1..MapCap /\ MapCap \in Nat
  BY MapNumbers DEF MapInv, Map!TypeOK, Map!Bucket
<1>2. cells'[i] = x /\ \A c \in Map!Idxs \ {i} : cells'[c] = cells[c]
  BY <1>1 DEF Map!Place
<1>3. Map!Stored' = Map!Stored \cup {i}
  BY <1>1, <1>2 DEF Map!Stored, Map!IsEmpty
<1>4. Map!Stored \subseteq Map!Idxs
  BY DEF Map!Stored
<1> QED BY <1>2, <1>3, <1>4

LEMMA EmplaceMaps ==
    ASSUME MapInv, MapInv', NEW k \in MapKeys, NEW v \in MapVals, Map!Emplace(k, v) PROVE Map!M!Insert(k, v)
<1> DEFINE s == Map!StopDist(k)
           i == Map!Probe(k, s)
           x == [key |-> k, dist |-> s, val |-> v]
<1>1. pc = "idle" /\ Map!Find(k) = MapCap /\ occupied # MapCap /\ Map!InsertAt(i, x) /\ assign' = assign
  BY DEF Map!Emplace, Map!EmplaceNew
<1>2. Map!TypeOK /\ \E c \in Map!Idxs : cells[c].dist = 0
  BY <1>1, EmptyCell DEF MapInv
<1>3. s \in 1..MapCap /\ MapCap \in Nat
  BY <1>2, Search, MapNumbers
<1>4. i \in Map!Idxs /\ x \in Map!Bucket
  BY <1>3, ProbesFollow DEF Map!Bucket
<1>5. \A c \in Map!Stored : cells[c].key # k
  BY <1>1, FindIs
<1>6. k \notin KeysOf(MapPairs)
  BY <1>1, <1>5 DEF KeysOf, MapPairs
<1>7. x.key = k /\ x.val = v /\ cells' = Map!Place(i, x, cells)
  BY <1>1 DEF Map!InsertAt
<1>8. cells[i].dist = 0 <=> i \notin Map!Stored
  BY <1>2, <1>4, MapCells
<1>9. IF cells[i].dist = 0 THEN pc' = pc
      ELSE pc' = "relocate" /\ carry' = [cells[i] EXCEPT !.dist = @ + 1]
  BY <1>1 DEF Map!InsertAt, Map!IsEmpty
<1> HIDE DEF s, i, x
<1>10. /\ Map!Stored' = Map!Stored \cup {i} /\ cells'[i] = x
       /\ \A c \in Map!Stored \ {i} : cells'[c] = cells[c]
  BY <1>4, <1>7, PairsPlaced
<1>11. MapPairs' = MapPairs \cup {<<k, v>>}
  <2>1. CASE i \notin Map!Stored
    BY <1>1, <1>7, <1>8, <1>9, <1>10, <2>1 DEF MapPairs
  <2>2. CASE i \in Map!Stored
    <3>1. pc' = "relocate" /\ carry'.key = cells[i].key /\ carry'.val = cells[i].val
      <4>1. cells[i] \in Map!Bucket
        BY <1>2, <2>2, MapCells
      <4> QED BY <1>8, <1>9, <2>2, <4>1 DEF Map!Bucket
    <3> QED BY <1>1, <1>7, <1>10, <2>2, <3>1 DEF MapPairs
  <2> QED BY <2>1, <2>2
<1> QED BY <1>1, <1>6, <1>11, KeysCounted, PairsAdd

LEMMA RelocateMaps ==
    ASSUME MapInv, MapInv', Map!Relocate PROVE UNCHANGED Map!M!vars
<1>1. pc = "relocate" /\ carry \in Map!Bucket /\ at \in Map!Idxs /\ Map!TypeOK
  BY DEF Map!Relocate, MapInv, HandReached, Map!TypeOK
<1>2. cells[at].dist = 0 <=> at \notin Map!Stored
  BY <1>1, MapCells
<1>3. MapPairs' = MapPairs
  <2>1. CASE Map!RelocateEnds
    <3>1. at \notin Map!Stored /\ cells' = Map!Place(at, carry, cells) /\ pc' = "idle"
      BY <1>2, <2>1 DEF Map!RelocateEnds, Map!IsEmpty
    <3>2. /\ Map!Stored' = Map!Stored \cup {at} /\ cells'[at] = carry
          /\ \A c \in Map!Stored \ {at} : cells'[c] = cells[c]
      BY <1>1, <3>1, PairsPlaced
    <3> QED BY <1>1, <3>1, <3>2 DEF MapPairs
  <2>2. CASE Map!RelocateSwaps
    <3>1. /\ at \in Map!Stored /\ cells' = Map!Place(at, carry, cells) /\ pc' = "relocate"
          /\ carry' = [cells[at] EXCEPT !.dist = @ + 1]
      BY <1>1, <1>2, <2>2 DEF Map!RelocateSwaps, Map!IsEmpty
    <3>2. /\ Map!Stored' = Map!Stored \cup {at} /\ cells'[at] = carry
          /\ \A c \in Map!Stored \ {at} : cells'[c] = cells[c]
      BY <1>1, <3>1, PairsPlaced
    <3>3. carry'.key = cells[at].key /\ carry'.val = cells[at].val
      <4>1. cells[at] \in Map!Bucket
        BY <1>1, <3>1, MapCells
      <4> QED BY <3>1, <4>1 DEF Map!Bucket
    <3> QED BY <1>1, <3>1, <3>2, <3>3 DEF MapPairs
  <2>3. CASE Map!RelocatePasses
    <3>1. UNCHANGED <<cells, pc>> /\ carry' = [carry EXCEPT !.dist = @ + 1]
      BY <2>3 DEF Map!RelocatePasses, Map!GoesOn
    <3>2. carry'.key = carry.key /\ carry'.val = carry.val /\ Map!Stored' = Map!Stored
      BY <1>1, <3>1 DEF Map!Bucket, Map!Stored, Map!IsEmpty
    <3> QED BY <3>1, <3>2 DEF MapPairs
  <2> QED BY <2>1, <2>2, <2>3 DEF Map!Relocate
<1> QED BY <1>3, PairsStay

\* The keys of the cells of a table without an element in hand.
LEMMA KeysStored ==
    ASSUME MapInv, pc # "relocate"
    PROVE  /\ MapPairs = {<<cells[i].key, cells[i].val>> : i \in Map!Stored}
           /\ \A i \in Map!Stored : cells[i].key \in KeysOf(MapPairs)
<1>1. MapPairs = {<<cells[i].key, cells[i].val>> : i \in Map!Stored}
  BY DEF MapPairs
<1>2. ASSUME NEW i \in Map!Stored PROVE cells[i].key \in KeysOf(MapPairs)
  <2>1. <<cells[i].key, cells[i].val>> \in MapPairs
    BY <1>1
  <2> QED BY <2>1 DEF KeysOf
<1> QED BY <1>1, <1>2

LEMMA AssignMaps ==
    ASSUME MapInv, MapInv', NEW k \in MapKeys, NEW v \in MapVals, Map!AssignExisting(k, v) PROVE Map!M!Assign(k, v)
<1> DEFINE f == Map!Find(k)
<1>1. pc = "idle" /\ f # MapCap /\ cells' = [cells EXCEPT ![f].val = v] /\ pc' = pc
  BY DEF Map!AssignExisting
<1>2. f \in Map!Stored /\ cells[f].key = k /\ Map!TypeOK
  BY <1>1, FindIs DEF MapInv
<1> HIDE DEF f
<1>3. cells \in [Map!Idxs -> Map!Bucket \cup {Map!Hole}] /\ cells[f] \in Map!Bucket /\ Map!Stored \subseteq Map!Idxs
  BY <1>2, MapCells
<1>4. /\ cells'[f].key = k /\ cells'[f].val = v /\ cells'[f].dist = cells[f].dist
      /\ \A c \in Map!Idxs \ {f} : cells'[c] = cells[c]
  BY <1>1, <1>2, <1>3 DEF Map!Bucket
<1>5. Map!Stored' = Map!Stored
  BY <1>3, <1>4 DEF Map!Stored, Map!IsEmpty
<1>6. MapPairs = {<<cells[i].key, cells[i].val>> : i \in Map!Stored}
  BY <1>1, KeysStored
<1>7. MapPairs' = {<<cells'[i].key, cells'[i].val>> : i \in Map!Stored}
  BY <1>1, <1>5 DEF MapPairs
<1>8. \A c \in Map!Stored \ {f} : cells[c].key # k /\ cells'[c] = cells[c]
  BY <1>2, <1>3, <1>4 DEF MapInv, KeysDiffer
<1>9. MapPairs' = {p \in MapPairs : p[1] # k} \cup {<<k, v>>}
  <2>1. \A c \in Map!Stored : <<cells'[c].key, cells'[c].val>> = IF c = f THEN <<k, v>> ELSE <<cells[c].key, cells[c].val>>
    BY <1>4, <1>8
  <2>2. \A c \in Map!Stored : <<cells[c].key, cells[c].val>>[1] = cells[c].key
    OBVIOUS
  <2>3. ASSUME NEW p \in MapPairs' PROVE p \in {q \in MapPairs : q[1] # k} \cup {<<k, v>>}
    <3>1. PICK c \in Map!Stored : p = <<cells'[c].key, cells'[c].val>>
      BY <1>7, Zenon
    <3>2. CASE c = f
      BY <2>1, <3>1, <3>2
    <3>3. CASE c # f
      <4>1. p = <<cells[c].key, cells[c].val>> /\ cells[c].key # k
        BY <1>8, <2>1, <3>1, <3>3
      <4>2. p \in MapPairs /\ p[1] # k
        BY <1>6, <2>2, <4>1
      <4> QED BY <4>2, Zenon
    <3> QED BY <3>2, <3>3
  <2>4. ASSUME NEW p \in MapPairs, p[1] # k PROVE p \in MapPairs'
    <3>1. PICK c \in Map!Stored : p = <<cells[c].key, cells[c].val>>
      BY <1>6, Zenon
    <3>2. c # f
      BY <1>2, <2>2, <2>4, <3>1
    <3>3. p = <<cells'[c].key, cells'[c].val>>
      BY <2>1, <3>1, <3>2
    <3> QED BY <1>7, <3>3, Zenon
  <2>5. <<k, v>> \in MapPairs'
    <3>1. <<k, v>> = <<cells'[f].key, cells'[f].val>>
      BY <1>4
    <3> QED BY <1>2, <1>7, <3>1, Zenon
  <2> QED BY <2>3, <2>4, <2>5, Zenon
<1>10. k \in KeysOf(MapPairs)
  BY <1>1, <1>2, KeysStored
<1> QED BY <1>9, <1>10, PairsAssign

LEMMA EraseMaps ==
    ASSUME MapInv, MapInv', NEW k \in MapKeys, Map!Erase(k) PROVE Map!M!Erase(k)
<1> DEFINE f == Map!Find(k)
<1>1. pc = "idle" /\ f # MapCap /\ cells' = Map!Place(f, Map!Hole, cells) /\ pc' = "shift"
  BY DEF Map!Erase, Map!EraseAt
<1>2. f \in Map!Stored /\ cells[f].key = k /\ Map!TypeOK
  BY <1>1, FindIs DEF MapInv
<1> HIDE DEF f
<1>3. cells \in [Map!Idxs -> Map!Bucket \cup {Map!Hole}] /\ Map!Stored \subseteq Map!Idxs
  BY <1>2, MapCells
<1>4. cells'[f].dist = 0 /\ \A c \in Map!Idxs \ {f} : cells'[c] = cells[c]
  BY <1>1, <1>2, <1>3, HoleIs DEF Map!Place
<1>5. Map!Stored' = Map!Stored \ {f}
  BY <1>4 DEF Map!Stored, Map!IsEmpty
<1>6. MapPairs = {<<cells[i].key, cells[i].val>> : i \in Map!Stored}
  BY <1>1, KeysStored
<1>7. MapPairs' = {<<cells'[i].key, cells'[i].val>> : i \in Map!Stored \ {f}}
  BY <1>1, <1>5 DEF MapPairs
<1>8. \A c \in Map!Stored \ {f} : cells[c].key # k /\ cells'[c] = cells[c]
  BY <1>2, <1>3, <1>4 DEF MapInv, KeysDiffer
<1>9. MapPairs' = {p \in MapPairs : p[1] # k}
  <2>1. \A c \in Map!Stored : <<cells[c].key, cells[c].val>>[1] = cells[c].key
    OBVIOUS
  <2> QED BY ONLY <1>2, <1>6, <1>7, <1>8, <2>1
<1>10. k \in KeysOf(MapPairs)
  BY <1>1, <1>2, KeysStored
<1> QED BY <1>9, <1>10, PairsErase

LEMMA ShiftMaps ==
    ASSUME MapInv, MapInv', Map!Shift PROVE UNCHANGED Map!M!vars
<1> DEFINE n == Map!NextIdx(at)
<1>1. pc = "shift" /\ Map!TypeOK /\ at \in Map!Idxs /\ n \in Map!Idxs /\ cells[at].dist = 0
  BY MapNext DEF Map!Shift, MapInv, Map!TypeOK
<1>2. CASE Map!ShiftTurn
  <2> DEFINE x == Map!ShiftedBack(cells[n])
  <2>1. cells[n].dist > 1 /\ cells' = Map!Place(n, Map!Hole, Map!Place(at, x, cells)) /\ pc' = pc
    BY <1>2 DEF Map!ShiftTurn, Map!MayShift
  <2>2. /\ cells \in [Map!Idxs -> Map!Bucket \cup {Map!Hole}] /\ n # at /\ n \in Map!Stored /\ cells[n] \in Map!Bucket
        /\ cells[n].dist \in 2..MapCap /\ Map!Stored \subseteq Map!Idxs /\ at \notin Map!Stored
    <3>1. cells[n].dist \in 0..MapCap
      BY <1>1, MapCells
    <3> QED BY <1>1, <2>1, <3>1, MapCells
  <2>3. x.key = cells[n].key /\ x.val = cells[n].val /\ x.dist # 0
    BY <2>2 DEF Map!ShiftedBack, Map!Bucket
  <2> HIDE DEF n, x
  <2>4. cells'[n] = Map!Hole /\ cells'[at] = x /\ \A c \in Map!Idxs \ {n, at} : cells'[c] = cells[c]
    BY <1>1, <2>1, <2>2 DEF Map!Place
  <2>5. Map!Stored' = (Map!Stored \ {n}) \cup {at}
    <3>1. \A c \in Map!Idxs : cells'[c].dist # 0 <=> (c = at \/ (c # n /\ cells[c].dist # 0))
      BY <1>1, <2>2, <2>3, <2>4, HoleIs
    <3>2. Map!Stored' = {c \in Map!Idxs : cells'[c].dist # 0} /\ Map!Stored = {c \in Map!Idxs : cells[c].dist # 0}
      BY DEF Map!Stored, Map!IsEmpty
    <3> QED BY ONLY <1>1, <2>2, <3>1, <3>2
  <2>6. MapPairs = {<<cells[i].key, cells[i].val>> : i \in Map!Stored}
    BY <1>1, KeysStored
  <2>7. MapPairs' = {<<cells'[i].key, cells'[i].val>> : i \in (Map!Stored \ {n}) \cup {at}}
    BY <1>1, <2>1, <2>5 DEF MapPairs
  <2>8. \A c \in Map!Stored \ {n} : cells'[c] = cells[c]
    BY <2>2, <2>4
  <2>9. MapPairs' = MapPairs
    BY ONLY <2>2, <2>3, <2>4, <2>6, <2>7, <2>8
  <2> QED BY <2>9, PairsStay
<1>3. CASE ~Map!MayShift(n) /\ pc' = "idle" /\ UNCHANGED <<cells, occupied, at>>
  <2>1. Map!Stored' = Map!Stored
    BY <1>3 DEF Map!Stored, Map!IsEmpty
  <2>2. MapPairs' = MapPairs
    BY <1>1, <1>3, <2>1 DEF MapPairs
  <2> QED BY <2>2, PairsStay
<1> QED BY <1>2, <1>3 DEF Map!Shift

LEMMA ClearMaps ==
    ASSUME MapInv, MapInv', Map!Clear PROVE Map!M!Clear
<1>1. pc = "idle" /\ cells' = [i \in Map!Idxs |-> Map!Hole] /\ pc' = pc
  BY DEF Map!Clear
<1>2. \A i \in Map!Idxs : cells'[i].dist = 0
  BY <1>1, HoleIs
<1>3. Map!Stored' = {}
  BY <1>2 DEF Map!Stored, Map!IsEmpty
<1>4. MapPairs' = {}
  BY <1>1, <1>3 DEF MapPairs
<1> QED BY <1>4, PairsClear

LEMMA MapMaps ==
    ASSUME MapInv, Map!Next PROVE Map!M!Next \/ UNCHANGED Map!M!vars
<1>1. MapInv'
  BY MapKeeps
<1>2. ASSUME NEW k \in MapKeys, NEW v \in MapVals, Map!Emplace(k, v) \/ Map!AssignExisting(k, v) PROVE Map!M!Next
  BY <1>1, <1>2, EmplaceMaps, AssignMaps DEF Map!M!Next
<1>3. ASSUME NEW k \in MapKeys, Map!Erase(k) PROVE Map!M!Next
  BY <1>1, <1>3, EraseMaps DEF Map!M!Next
<1>4. CASE Map!Clear
  BY <1>1, <1>4, ClearMaps DEF Map!M!Next
<1> QED BY <1>1, <1>2, <1>3, <1>4, RelocateMaps, ShiftMaps DEF Map!Next

LEMMA MapStartsEmpty ==
    ASSUME Map!Init PROVE Map!M!Init
<1>1. MapInv /\ pc = "idle"
  BY MapStarts DEF Map!Init
<1>2. \A i \in Map!Idxs : cells[i].dist = 0
  BY HoleIs DEF Map!Init
<1>3. Map!Stored = {}
  BY <1>2 DEF Map!Stored, Map!IsEmpty
<1>4. MapPairs = {}
  BY <1>1, <1>3 DEF MapPairs
<1>5. Map!Contents = PairsMap({})
  BY <1>1, <1>4, ContentsArePairs, Zenon
<1> QED BY <1>5 DEF PairsMap, Map!M!Init, Map!M!Empty

-----------------------------------------------------------------------------
(* The variant: one storage of an object holds its value, the other        *)
(* nothing.                                                                *)

VarCell == (Alternatives \X (VarNums \cup {0})) \cup {<<0, 0>>}
VarInv == Var!TypeOK /\ Var!OneLives /\ Var!OnlyLiving /\ \A o \in made : idx[o] \in Alternatives

LEMMA VarStarts == ASSUME Var!VarAssumption, Var!Init PROVE VarInv /\ Var!H!Init
<1>1. Var!TypeOK
  <2>1. mem \in [VarObjs -> [0..1 -> VarCell]]
    BY DEF Var!Init, Var!None, VarCell
  <2>2. bpos \in [VarObjs -> 0..1] /\ idx \in [VarObjs -> Alternatives \cup {0}]
    BY DEF Var!Init
  <2>3. made \subseteq VarObjs /\ spent \subseteq VarObjs /\ bad \in BOOLEAN /\ traits \in [Alternatives -> Var!Traits]
    BY Zenon DEF Var!Init
  <2>4. \A o \in VarObjs : ~Var!Doubled => bpos[o] = 0
    BY DEF Var!Init
  <2> QED BY <2>1, <2>2, <2>3, <2>4, Zenon DEF Var!TypeOK, Var!None, Var!Moved, VarCell
<1>2. Var!OneLives /\ Var!OnlyLiving
  BY DEF Var!Init, Var!OneLives, Var!OnlyLiving, Var!None
<1>3. Var!H!Init
  BY DEF Var!Init, Var!H!Init
<1> QED BY <1>1, <1>2, <1>3 DEF VarInv, Var!Init

LEMMA VarMem ==
    ASSUME Var!VarAssumption, VarInv, NEW o \in VarObjs
    PROVE  /\ bpos[o] \in {0, 1} /\ DOMAIN mem[o] = {0, 1} /\ idx[o] \in Alternatives \cup {0}
           /\ Var!Value(o) \in VarNums \cup {0}
           /\ o \in made => /\ idx[o] \in Alternatives /\ mem[o][1 - bpos[o]] = <<0, 0>>
                            /\ \/ Var!Lives(o) /\ mem[o][bpos[o]] = <<idx[o], Var!Value(o)>>
                               \/ ~Var!Lives(o) /\ mem[o][bpos[o]] = <<0, 0>> /\ Var!InPlace /\ o \in spent
           /\ o \notin made => mem[o] = [b0 \in 0..1 |-> <<0, 0>>]
<1>1. /\ mem[o] \in [0..1 -> VarCell]
      /\ idx[o] \in Alternatives \cup {0} /\ bpos[o] \in 0..1
      /\ Alternatives \subseteq Nat \ {0}
  BY DEF VarInv, Var!TypeOK, Var!None, Var!Moved, Var!VarAssumption, VarCell
<1>2. mem[o][bpos[o]] \in VarCell /\ Var!Value(o) \in VarNums \cup {0}
  <2>1. mem[o][bpos[o]] \in VarCell
    BY <1>1
  <2> QED BY <2>1 DEF Var!Value, VarCell
<1>3. CASE o \in made
  <2>1. /\ mem[o][bpos[o]][1] = idx[o] \/ (~Var!Lives(o) /\ Var!InPlace /\ o \in spent)
        /\ mem[o][1 - bpos[o]] = <<0, 0>> /\ idx[o] \in Alternatives
    BY <1>3 DEF VarInv, Var!OneLives, Var!None
  <2>2. Var!Lives(o) <=> mem[o][bpos[o]] # <<0, 0>>
    BY DEF Var!Lives, Var!None
  <2>3. CASE mem[o][bpos[o]][1] = idx[o]
    <3>1. mem[o][bpos[o]] = <<idx[o], Var!Value(o)>> /\ idx[o] # 0
      BY <1>1, <1>2, <2>1, <2>3 DEF Var!Value, VarCell
    <3> QED BY <1>1, <1>2, <1>3, <2>1, <2>2, <3>1
  <2> QED BY <1>1, <1>2, <1>3, <2>1, <2>2, <2>3
<1>4. CASE o \notin made
  BY <1>1, <1>2, <1>4 DEF VarInv, Var!OneLives, Var!None
<1> QED BY <1>3, <1>4

\* No step of an object that exists finds another alternative than it destroys.
LEMMA VarDrops ==
    ASSUME Var!VarAssumption, VarInv, NEW o \in made PROVE ~Var!DropBad(o)
<1>1. o \in VarObjs
  BY DEF VarInv, Var!TypeOK
<1>2. mem[o][bpos[o]][1] = idx[o] \/ Var!Trivial
  BY <1>1, VarMem DEF Var!InPlace
<1> QED BY <1>2 DEF Var!DropBad

LEMMA VarMoved ==
    ASSUME Var!VarAssumption, VarInv, NEW ps \in SUBSET made
    PROVE  /\ Var!MovedFrom(ps) \in [VarObjs -> [0..1 -> VarCell]]
           /\ \A o \in VarObjs, d \in 0..1 :
                 Var!MovedFrom(ps)[o][d] = IF o \in ps /\ d = bpos[o] THEN <<idx[o], 0>> ELSE mem[o][d]
<1>1. \A o \in VarObjs : /\ bpos[o] \in {0, 1} /\ mem[o] \in [0..1 -> VarCell]
                         /\ o \in made => idx[o] \in Alternatives
  BY VarMem DEF VarInv, Var!TypeOK, Var!None, Var!Moved, VarCell
<1>2. \A o \in VarObjs : Var!MovedFrom(ps)[o] = IF o \in ps THEN [mem[o] EXCEPT ![bpos[o]] = <<idx[o], 0>>] ELSE mem[o]
  BY DEF Var!MovedFrom, Var!Moved
<1>3. \A o \in VarObjs : o \in ps => <<idx[o], 0>> \in VarCell
  BY <1>1 DEF VarCell
<1>4. ASSUME NEW o \in VarObjs PROVE Var!MovedFrom(ps)[o] \in [0..1 -> VarCell]
  BY <1>1, <1>2, <1>3
<1>5. Var!MovedFrom(ps) \in [VarObjs -> [0..1 -> VarCell]]
  BY <1>4 DEF Var!MovedFrom
<1> QED BY <1>1, <1>2, <1>5

\* What the operations work on: who exists and what each object shows.
VarContent(o) == IF o \notin made THEN <<0, 0>> ELSE IF Var!Lives(o) THEN <<idx[o], Var!Value(o)>> ELSE <<-1, 0>>

\* An object holds the cell that was given to it, which is empty only after an
\* exception, the others what they held, the ones moved from a residue.
VarGiven(o, t, x, ps) ==
    /\ made' \subseteq VarObjs /\ traits' = traits /\ bad' \in BOOLEAN
    /\ spent' \subseteq VarObjs /\ spent \ {o} \subseteq spent' /\ (bad' => spent' # {})
    /\ x = <<0, 0>> => Var!InPlace /\ o \in spent'
    /\ idx' = [idx EXCEPT ![o] = t]
    /\ bpos' \in [VarObjs -> 0..1] /\ (~Var!Doubled => bpos'[o] = 0)
    /\ mem' \in [VarObjs -> [0..1 -> VarCell]]
    /\ \A d \in 0..1 : mem'[o][d] = IF d = bpos'[o] THEN x ELSE <<0, 0>>
    /\ \A p \in VarObjs \ {o} : bpos'[p] = bpos[p]
    /\ \A p \in VarObjs \ {o}, d \in 0..1 :
          mem'[p][d] = IF p \in ps /\ d = bpos[p] THEN <<idx[p], 0>> ELSE mem[p][d]

LEMMA VarGivenKeeps ==
    ASSUME Var!VarAssumption, VarInv, NEW o \in VarObjs, NEW t \in Alternatives,
           NEW x \in ({t} \X (VarNums \cup {0})) \cup {<<0, 0>>},
           NEW ps \in SUBSET made, VarGiven(o, t, x, ps), made' = made \cup {o}
    PROVE  /\ VarInv'
           /\ \A p \in VarObjs : VarContent(p)' = IF p = o THEN (IF x = <<0, 0>> THEN <<-1, 0>> ELSE x)
                                                  ELSE IF p \in ps THEN <<idx[p], 0>> ELSE VarContent(p)
<1>1. \A p \in VarObjs : /\ bpos[p] \in {0, 1} /\ mem[p] \in [0..1 -> VarCell] /\ idx[p] \in Alternatives \cup {0}
                         /\ p \in made => idx[p] \in Alternatives
                         /\ p \in made => \/ mem[p][bpos[p]][1] = idx[p]
                                          \/ mem[p][bpos[p]] = <<0, 0>> /\ Var!InPlace /\ p \in spent
  <2>1. ASSUME NEW p \in VarObjs, p \in made
        PROVE  \/ mem[p][bpos[p]][1] = idx[p]
               \/ mem[p][bpos[p]] = <<0, 0>> /\ Var!InPlace /\ p \in spent
    BY <2>1, VarMem
  <2> QED BY <2>1, VarMem DEF VarInv, Var!TypeOK, Var!None, Var!Moved, VarCell
<1>2. idx' \in [VarObjs -> Alternatives \cup {0}] /\ idx'[o] = t /\ \A p \in VarObjs \ {o} : idx'[p] = idx[p]
  BY DEF VarGiven, VarInv, Var!TypeOK
<1>3. Var!TypeOK'
  <2>1. mem' \in [VarObjs -> [0..1 -> VarCell]] /\ bpos' \in [VarObjs -> 0..1] /\ made' \subseteq VarObjs
    BY DEF VarGiven
  <2>2. bad' \in BOOLEAN /\ spent' \subseteq VarObjs /\ traits' \in [Alternatives -> Var!Traits]
    BY Zenon DEF VarGiven, VarInv, Var!TypeOK
  <2>3. (\A q \in VarObjs : ~Var!Doubled => bpos[q] = 0)'
    <3>1. Var!Doubled' <=> Var!Doubled
      BY DEF VarGiven, Var!Doubled
    <3> QED BY <3>1 DEF VarGiven, VarInv, Var!TypeOK
  <2> QED BY <1>2, <2>1, <2>2, <2>3, Zenon DEF Var!TypeOK, Var!None, Var!Moved, VarCell
<1>7. Var!InPlace' <=> Var!InPlace
  BY Zenon DEF VarGiven, Var!InPlace, Var!Doubled, Var!Trivial
<1>8. 0 \notin Alternatives
  BY DEF Var!VarAssumption
<1>9. \A p \in VarObjs : bpos'[p] \in 0..1
  BY DEF VarGiven
<1>10. x = <<0, 0>> \/ (x # <<0, 0>> /\ x = <<t, x[2]>> /\ x[1] = t)
  BY <1>8
<1>4. Var!OneLives'
  <2>1. ASSUME NEW p \in VarObjs, p # o
        PROVE  IF p \in made' THEN /\ mem'[p][1 - bpos'[p]] = <<0, 0>>
                                   /\ \/ mem'[p][bpos'[p]][1] = idx'[p]
                                      \/ mem'[p][bpos'[p]] = <<0, 0>> /\ Var!InPlace /\ p \in spent'
                              ELSE \A c \in 0..1 : mem'[p][c] = <<0, 0>>
    <3>1. /\ bpos'[p] = bpos[p] /\ idx'[p] = idx[p] /\ bpos[p] \in 0..1 /\ 1 - bpos[p] \in 0..1
          /\ 1 - bpos[p] # bpos[p] /\ (p \in made' <=> p \in made)
      BY <1>1, <1>2, <2>1 DEF VarGiven
    <3>2. \A d \in 0..1 : mem'[p][d] = IF p \in ps /\ d = bpos[p] THEN <<idx[p], 0>> ELSE mem[p][d]
      BY <2>1 DEF VarGiven
    <3>3. /\ p \in made => mem[p][1 - bpos[p]] = <<0, 0>>
          /\ p \notin made => \A c \in 0..1 : mem[p][c] = <<0, 0>>
      BY DEF VarInv, Var!OneLives, Var!None
    <3>4. p \in ps => p \in made
      OBVIOUS
    <3>5. mem'[p][1 - bpos[p]] = mem[p][1 - bpos[p]]
      BY ONLY <3>1, <3>2
    <3>6. mem'[p][bpos[p]] = IF p \in ps THEN <<idx[p], 0>> ELSE mem[p][bpos[p]]
      BY ONLY <3>1, <3>2
    <3>7. p \notin made => \A c \in 0..1 : mem'[p][c] = <<0, 0>>
      BY ONLY <3>2, <3>3, <3>4
    <3>8. p \in made => \/ mem[p][bpos[p]][1] = idx[p]
                        \/ mem[p][bpos[p]] = <<0, 0>> /\ Var!InPlace /\ p \in spent
      BY <1>1
    <3>9. p \in spent => p \in spent'
      BY <2>1 DEF VarGiven
    <3> QED BY ONLY <3>1, <3>3, <3>5, <3>6, <3>7, <3>8, <3>9
  <2>2. /\ mem'[o][1 - bpos'[o]] = <<0, 0>>
        /\ mem'[o][bpos'[o]][1] = idx'[o] \/ (mem'[o][bpos'[o]] = <<0, 0>> /\ Var!InPlace /\ o \in spent')
    <3>1. bpos'[o] \in 0..1 /\ 1 - bpos'[o] \in 0..1 /\ 1 - bpos'[o] # bpos'[o]
      BY <1>9
    <3>2. mem'[o][bpos'[o]] = x /\ mem'[o][1 - bpos'[o]] = <<0, 0>>
      BY <3>1 DEF VarGiven
    <3>3. x = <<0, 0>> => Var!InPlace /\ o \in spent'
      BY DEF VarGiven
    <3> QED BY <1>2, <1>10, <3>2, <3>3
  <2>3. \A p \in VarObjs : mem'[p][bpos'[p]] = <<0, 0>> => Var!Lives(p)' = FALSE
    BY DEF Var!Lives, Var!None
  <2> QED BY <1>7, <2>1, <2>2, <2>3 DEF Var!OneLives, Var!None
<1>5. Var!OnlyLiving' /\ \A p \in made' : idx'[p] \in Alternatives
  BY <1>1, <1>2 DEF VarInv, VarGiven, Var!OnlyLiving, Var!TypeOK
<1>6. ASSUME NEW p \in VarObjs
      PROVE  VarContent(p)' = IF p = o THEN (IF x = <<0, 0>> THEN <<-1, 0>> ELSE x)
                              ELSE IF p \in ps THEN <<idx[p], 0>> ELSE VarContent(p)
  <2>1. CASE p = o
    <3>1. mem'[o][bpos'[o]] = x
      BY <1>9 DEF VarGiven
    <3>2. VarContent(o)' = IF x # <<0, 0>> THEN <<t, x[2]>> ELSE <<-1, 0>>
      BY <1>2, <3>1 DEF VarContent, Var!Value, Var!Lives, Var!None
    <3> QED BY <1>10, <2>1, <3>2
  <2>2. CASE p # o
    <3>1. /\ bpos'[p] = bpos[p] /\ bpos[p] \in 0..1 /\ idx'[p] = idx[p] /\ (p \in made' <=> p \in made)
          /\ p \in ps => p \in made /\ idx[p] \in Alternatives
      BY <1>1, <1>2, <2>2 DEF VarGiven
    <3>2. mem'[p][bpos[p]] = IF p \in ps THEN <<idx[p], 0>> ELSE mem[p][bpos[p]]
      BY <2>2, <3>1 DEF VarGiven
    <3>3. VarContent(p)' = IF p \notin made THEN <<0, 0>>
                           ELSE IF mem'[p][bpos[p]] # <<0, 0>> THEN <<idx[p], mem'[p][bpos[p]][2]>> ELSE <<-1, 0>>
      <4>1. VarContent(p)' = IF p \notin made' THEN <<0, 0>>
                             ELSE IF mem'[p][bpos'[p]] # <<0, 0>> THEN <<idx'[p], mem'[p][bpos'[p]][2]>> ELSE <<-1, 0>>
        BY DEF VarContent, Var!Value, Var!Lives, Var!None
      <4> QED BY ONLY <3>1, <4>1
    <3>4. VarContent(p) = IF p \notin made THEN <<0, 0>>
                          ELSE IF mem[p][bpos[p]] # <<0, 0>> THEN <<idx[p], mem[p][bpos[p]][2]>> ELSE <<-1, 0>>
      BY DEF VarContent, Var!Value, Var!Lives, Var!None
    <3>5. CASE p \in ps
      <4>1. <<idx[p], 0>> # <<0, 0>>
        BY <1>8, <3>1, <3>5
      <4> QED BY <2>2, <3>1, <3>2, <3>3, <3>5, <4>1
    <3>6. CASE p \notin ps
      BY <2>2, <3>2, <3>3, <3>4, <3>6
    <3> QED BY <3>5, <3>6
  <2> QED BY <2>1, <2>2
<1> QED BY <1>3, <1>4, <1>5, <1>6 DEF VarInv

LEMMA VarEmplace ==
    ASSUME Var!VarAssumption, VarInv, NEW o \in made, NEW t \in Alternatives, NEW v \in VarNums \cup {0},
           NEW nothrow \in BOOLEAN, NEW src \in SUBSET made, NEW ps \in SUBSET made, bad = FALSE,
           Var!Emplace(o, t, v, nothrow, src, ps), UNCHANGED <<traits, made>>
    PROVE  /\ VarGiven(o, t, <<t, v>>, ps)
           /\ ~bad' => \A q \in src : Var!Lives(q)
<1>1. /\ o \in VarObjs /\ bpos[o] \in 0..1 /\ made \subseteq VarObjs /\ bpos \in [VarObjs -> 0..1]
      /\ ~Var!Doubled => bpos[o] = 0
  BY DEF VarInv, Var!TypeOK
<1>2. PICK c \in 0..1 : /\ c = IF Var!Doubled /\ ~nothrow THEN 1 - bpos[o] ELSE bpos[o]
  BY <1>1
<1> DEFINE m1 == Var!MovedFrom(ps)
           m2 == Var!Put(m1, o, bpos[o], <<0, 0>>)
<1>3. mem' = Var!Put(m2, o, c, <<t, v>>) /\ idx' = [idx EXCEPT ![o] = t] /\ bpos' = [bpos EXCEPT ![o] = c]
  BY <1>2 DEF Var!Emplace, Var!Drop, Var!None
<1>4. /\ bad' \in BOOLEAN /\ spent' \subseteq VarObjs /\ spent \ {o} \subseteq spent' /\ (bad' => spent' # {})
      /\ ~bad' => \A q \in src : Var!Lives(q)
  <2> DEFINE reads == Var!ReadsDropped(o, nothrow, src)
  <2>1. /\ spent' = (spent \ ({o} \ src)) \cup {q \in src : reads}
        /\ bad' = (reads \/ \E q \in src : ~Var!Lives(q))
    BY VarDrops DEF Var!Emplace
  <2>2. reads => src # {}
    BY DEF Var!ReadsDropped
  <2>3. \A q \in src : ~Var!Lives(q) => q \in spent
    BY <1>1, VarMem
  <2>4. spent \subseteq VarObjs
    BY DEF VarInv, Var!TypeOK
  <2> HIDE DEF reads
  <2>5. spent' \subseteq VarObjs /\ spent \ {o} \subseteq spent'
    BY <1>1, <2>1, <2>4
  <2>6. bad' => spent' # {}
    BY <2>1, <2>2, <2>3
  <2> QED BY <2>1, <2>5, <2>6
<1>5. <<0, 0>> \in VarCell /\ <<t, v>> \in VarCell
  BY DEF VarCell
<1>6. /\ m1 \in [VarObjs -> [0..1 -> VarCell]]
      /\ \A p \in VarObjs, d \in 0..1 :
            m1[p][d] = IF p \in ps /\ d = bpos[p] THEN <<idx[p], 0>> ELSE mem[p][d]
  BY VarMoved
<1>7. mem[o][1 - bpos[o]] = <<0, 0>>
  BY <1>1, VarMem
<1> HIDE DEF m1
<1>8. /\ m2 \in [VarObjs -> [0..1 -> VarCell]]
      /\ \A p \in VarObjs, d \in 0..1 : m2[p][d] = IF p = o /\ d = bpos[o] THEN <<0, 0>> ELSE m1[p][d]
  <2>1. o \in VarObjs /\ bpos[o] \in 0..1 /\ <<0, 0>> \in VarCell /\ m1 \in [VarObjs -> [0..1 -> VarCell]]
    BY <1>1, <1>5, <1>6
  <2>2. /\ m2 \in [VarObjs -> [0..1 -> VarCell]] /\ m2[o][bpos[o]] = <<0, 0>>
        /\ \A p \in VarObjs, d \in 0..1 : (p = o /\ d = bpos[o]) \/ m2[p][d] = m1[p][d]
    BY ONLY <2>1 DEF m2, Var!Put
  <2> HIDE DEF m2
  <2> QED BY ONLY <2>2
<1> HIDE DEF m2
<1>9. /\ mem' \in [VarObjs -> [0..1 -> VarCell]]
      /\ \A p \in VarObjs, d \in 0..1 : mem'[p][d] = IF p = o /\ d = c THEN <<t, v>> ELSE m2[p][d]
  <2>1. o \in VarObjs /\ c \in 0..1 /\ <<t, v>> \in VarCell /\ m2 \in [VarObjs -> [0..1 -> VarCell]]
    BY <1>1, <1>5, <1>8
  <2>2. /\ mem' \in [VarObjs -> [0..1 -> VarCell]] /\ mem'[o][c] = <<t, v>>
        /\ \A p \in VarObjs, d \in 0..1 : (p = o /\ d = c) \/ mem'[p][d] = m2[p][d]
    BY ONLY <2>1, <1>3 DEF Var!Put
  <2> QED BY ONLY <2>2
<1>10. \A d \in 0..1 : d # c => m2[o][d] = <<0, 0>>
  <2>1. \A d \in 0..1 : m2[o][d] = IF d = bpos[o] THEN <<0, 0>> ELSE m1[o][d]
    BY <1>1, <1>8
  <2>2. 1 - bpos[o] \in 0..1 /\ 1 - bpos[o] # bpos[o] /\ o \in VarObjs
    BY <1>1
  <2>4. m1[o][1 - bpos[o]] = <<0, 0>>
    BY ONLY <1>6, <1>7, <2>2
  <2>3. \A d \in 0..1 : d = bpos[o] \/ d = 1 - bpos[o]
    BY <1>1
  <2> QED BY ONLY <2>1, <2>3, <2>4
<1>11. bpos'[o] = c /\ bpos' \in [VarObjs -> 0..1] /\ \A p \in VarObjs \ {o} : bpos'[p] = bpos[p]
  BY <1>1, <1>3
<1>12. ~Var!Doubled => c = 0
  BY <1>1, <1>2
<1>13. \A p \in VarObjs \ {o}, d \in 0..1 : mem'[p][d] = m1[p][d]
  BY <1>8, <1>9
<1>14. \A d \in 0..1 : mem'[o][d] = IF d = bpos'[o] THEN <<t, v>> ELSE <<0, 0>>
  BY <1>1, <1>9, <1>10, <1>11
<1>15. \A p \in VarObjs \ {o}, d \in 0..1 :
          mem'[p][d] = IF p \in ps /\ d = bpos[p] THEN <<idx[p], 0>> ELSE mem[p][d]
  BY ONLY <1>6, <1>13
<1>16. made' \subseteq VarObjs /\ traits' = traits /\ <<t, v>> # <<0, 0>>
  BY <1>1 DEF Var!VarAssumption
<1> QED BY ONLY <1>3, <1>4, <1>9, <1>11, <1>12, <1>14, <1>15, <1>16 DEF VarGiven

VarShown == [o \in VarObjs |-> VarContent(o)]

LEMMA VarShows ==
    /\ UNCHANGED Var!H!vars <=> VarShown' = VarShown
    /\ Var!H!Next <=> \E o \in VarObjs :
         \/ VarShown[o] # <<0, 0>> /\ VarShown' = [VarShown EXCEPT ![o] = <<-1, 0>>]
         \/ \E v \in (Alternatives \X VarNums) \cup {<<0, 0>>} : VarShown' = [VarShown EXCEPT ![o] = v]
         \/ \E p \in VarObjs \ {o} :
              \/ VarShown[p] # <<0, 0>> /\ VarShown' = [VarShown EXCEPT ![o] = VarShown[p]]
              \/ VarShown[p] # <<0, 0>> /\ \E left \in Alternatives \X {0} :
                    VarShown' = [VarShown EXCEPT ![p] = left, ![o] = VarShown[p]]
BY DEF Var!H!vars, Var!H!Next, Var!H!Store, Var!H!Copy, Var!H!Move, Var!H!Lose, VarShown, VarContent, Var!None, Var!Moved

VarKept == VarInv' /\ (~bad' => Var!H!Next \/ UNCHANGED Var!H!vars)

LEMMA VarValueGiven ==
    ASSUME Var!VarAssumption, VarInv, NEW o \in VarObjs, NEW t \in Alternatives, NEW v \in VarNums,
           VarGiven(o, t, <<t, v>>, {}), made' = made \cup {o}
    PROVE  VarKept
<1>1. /\ VarInv'
      /\ \A p \in VarObjs : VarContent(p)' = IF p = o THEN <<t, v>> ELSE VarContent(p)
  <2> DEFINE x == <<t, v>>
  <2>1. x \in ({t} \X (VarNums \cup {0})) \cup {<<0, 0>>} /\ x # <<0, 0>>
    BY DEF Var!VarAssumption
  <2>2. VarGiven(o, t, x, {})
    OBVIOUS
  <2> HIDE DEF x
  <2>3. /\ VarInv'
        /\ \A p \in VarObjs : VarContent(p)' = IF p = o THEN x ELSE VarContent(p)
    BY <2>1, <2>2, VarGivenKeeps
  <2> QED BY <2>3 DEF x
<1>2. VarShown' = [VarShown EXCEPT ![o] = <<t, v>>]
  BY <1>1 DEF VarShown
<1>3. <<t, v>> \in (Alternatives \X VarNums) \cup {<<0, 0>>}
  OBVIOUS
<1> QED BY <1>1, <1>2, <1>3, VarShows DEF VarKept

\* The cell of an object that exists goes to another one, which is then a copy of
\* it, and an empty one is copied as empty.
LEMMA VarTakenFrom ==
    ASSUME Var!VarAssumption, VarInv, NEW o \in VarObjs, NEW p \in made, NEW ps \in {{}, {p}},
           NEW x, (x = <<idx[p], Var!Value(p)>> /\ (~bad' => Var!Lives(p))) \/ (x = <<0, 0>> /\ ~Var!Lives(p) /\ ps = {}),
           VarGiven(o, idx[p], x, ps), made' = made \cup {o}
    PROVE  VarKept
<1>1. p \in VarObjs /\ idx[p] \in Alternatives /\ Var!Value(p) \in VarNums \cup {0} /\ ps \in SUBSET made
  BY VarMem DEF VarInv, Var!TypeOK
<1>2. PICK t \in Alternatives, v \in VarNums \cup {0} : t = idx[p] /\ v = Var!Value(p)
  BY <1>1
<1>3. x \in ({t} \X (VarNums \cup {0})) \cup {<<0, 0>>} /\ VarGiven(o, t, x, ps)
  BY <1>1, <1>2
<1>4. /\ VarInv'
      /\ \A q \in VarObjs : VarContent(q)' = IF q = o THEN (IF x = <<0, 0>> THEN <<-1, 0>> ELSE x)
                                             ELSE IF q \in ps THEN <<idx[q], 0>> ELSE VarContent(q)
  BY <1>1, <1>3, VarGivenKeeps
<1>5. SUFFICES ASSUME ~bad' PROVE Var!H!Next \/ UNCHANGED Var!H!vars
  BY <1>4 DEF VarKept
<1> DEFINE y == IF x = <<0, 0>> THEN <<-1, 0>> ELSE x
<1>6. VarContent(p) = y /\ VarShown[p] = y /\ VarShown[p] # <<0, 0>>
  <2>1. 0 \notin Alternatives /\ <<idx[p], Var!Value(p)>> # <<0, 0>>
    BY <1>1 DEF Var!VarAssumption
  <2>2. VarContent(p) = IF Var!Lives(p) THEN <<idx[p], Var!Value(p)>> ELSE <<-1, 0>>
    BY DEF VarContent
  <2>3. VarContent(p) = y /\ y # <<0, 0>>
    BY <1>5, <2>1, <2>2
  <2> QED BY <1>1, <2>3 DEF VarShown
<1>7. \A q \in VarObjs : VarContent(q)' = IF q = o THEN y ELSE IF q \in ps THEN <<idx[q], 0>> ELSE VarContent(q)
  BY <1>4
<1> HIDE DEF y
<1>8. CASE o # p /\ ps = {}
  <2>1. VarShown' = [VarShown EXCEPT ![o] = VarShown[p]]
    BY <1>6, <1>7, <1>8 DEF VarShown
  <2>2. p \in VarObjs \ {o}
    BY <1>1, <1>8
  <2> QED BY <1>6, <2>1, <2>2, VarShows
<1>9. CASE o = p
  <2>1. \A q \in VarObjs : VarContent(q)' = VarContent(q)
    BY <1>6, <1>7, <1>9
  <2>2. VarShown' = VarShown
    BY <2>1 DEF VarShown
  <2> QED BY <2>2, VarShows
<1>10. CASE o # p /\ ps = {p}
  <2> DEFINE left == <<idx[p], 0>>
  <2>1. \A q \in VarObjs : VarContent(q)' = IF q = o THEN y ELSE IF q = p THEN left ELSE VarContent(q)
    BY <1>7, <1>10
  <2>2. left \in Alternatives \X {0} /\ p \in VarObjs \ {o}
    BY <1>1, <1>10
  <2> HIDE DEF left
  <2>3. VarShown' = [VarShown EXCEPT ![p] = left, ![o] = VarShown[p]]
    BY <1>1, <1>6, <1>10, <2>1 DEF VarShown
  <2> QED BY <1>6, <2>2, <2>3, VarShows
<1> QED BY <1>8, <1>9, <1>10

LEMMA VarMakeGives ==
    ASSUME Var!VarAssumption, VarInv, NEW o \in VarObjs, NEW t \in Alternatives, NEW v \in VarNums \cup {0},
           NEW ps \in SUBSET made, Var!Make(o, t, v, ps), bad' \in BOOLEAN, bad' => spent \ {o} # {}
    PROVE  VarGiven(o, t, <<t, v>>, ps) /\ made' = made \cup {o}
<1> DEFINE m1 == Var!MovedFrom(ps)
<1>1. /\ o \notin made /\ made' = made \cup {o} /\ idx' = [idx EXCEPT ![o] = t] /\ bpos' = [bpos EXCEPT ![o] = 0]
      /\ traits' = traits /\ spent' = spent \ {o}
      /\ mem' = [m1 EXCEPT ![o] = [c \in 0..1 |-> IF c = 0 THEN <<t, v>> ELSE <<0, 0>>]]
  BY DEF Var!Make, Var!None
<1>2. made \subseteq VarObjs /\ bpos \in [VarObjs -> 0..1]
  BY DEF VarInv, Var!TypeOK
<1>3. /\ m1 \in [VarObjs -> [0..1 -> VarCell]]
      /\ \A p \in VarObjs, d \in 0..1 :
            m1[p][d] = IF p \in ps /\ d = bpos[p] THEN <<idx[p], 0>> ELSE mem[p][d]
  BY VarMoved
<1> HIDE DEF m1
<1>4. <<0, 0>> \in VarCell /\ <<t, v>> \in VarCell
  BY DEF VarCell
<1>5. mem' \in [VarObjs -> [0..1 -> VarCell]] /\ \A d \in 0..1 : mem'[o][d] = IF d = 0 THEN <<t, v>> ELSE <<0, 0>>
  BY <1>1, <1>3, <1>4
<1>6. \A p \in VarObjs \ {o}, d \in 0..1 :
          mem'[p][d] = IF p \in ps /\ d = bpos[p] THEN <<idx[p], 0>> ELSE mem[p][d]
  BY <1>1, <1>3
<1>7. bpos'[o] = 0 /\ bpos' \in [VarObjs -> 0..1] /\ \A p \in VarObjs \ {o} : bpos'[p] = bpos[p]
  BY <1>1, <1>2
<1>8. \A d \in 0..1 : mem'[o][d] = IF d = bpos'[o] THEN <<t, v>> ELSE <<0, 0>>
  BY <1>5, <1>7
<1>9. /\ made' \subseteq VarObjs /\ spent' \subseteq VarObjs /\ spent \ {o} \subseteq spent'
      /\ (bad' => spent' # {}) /\ bad' \in BOOLEAN /\ <<t, v>> # <<0, 0>>
  BY <1>1, <1>2 DEF VarInv, Var!TypeOK, Var!VarAssumption
<1> QED BY ONLY <1>1, <1>5, <1>6, <1>7, <1>8, <1>9 DEF VarGiven

LEMMA VarBytesGive ==
    ASSUME Var!VarAssumption, VarInv, NEW o \in made, NEW p \in made, bad = FALSE, Var!Bytes(o, p),
           UNCHANGED <<traits, made>>
    PROVE  VarKept
<1> DEFINE x == mem[p][bpos[p]]
<1>1. /\ made \subseteq VarObjs /\ bpos \in [VarObjs -> 0..1] /\ mem \in [VarObjs -> [0..1 -> VarCell]]
      /\ o \in VarObjs /\ p \in VarObjs /\ bpos[p] \in 0..1 /\ spent \subseteq VarObjs
      /\ ~Var!Doubled => bpos[p] = 0
  BY DEF VarInv, Var!TypeOK, Var!None, Var!Moved, VarCell
<1>2. /\ mem[p][1 - bpos[p]] = <<0, 0>>
      /\ \/ Var!Lives(p) /\ x = <<idx[p], Var!Value(p)>>
         \/ ~Var!Lives(p) /\ x = <<0, 0>> /\ Var!InPlace /\ p \in spent
      /\ idx[p] \in Alternatives /\ 0 \notin Alternatives
  BY <1>1, VarMem DEF Var!VarAssumption
<1>3. \A d \in 0..1 : d = bpos[p] \/ d = 1 - bpos[p]
  BY <1>1
<1>0. mem' = [mem EXCEPT ![o] = mem[p]] /\ idx' = [idx EXCEPT ![o] = idx[p]] /\ bpos' = [bpos EXCEPT ![o] = bpos[p]]
  BY DEF Var!Bytes
<1>4. mem'[o] = mem[p] /\ bpos'[o] = bpos[p] /\ \A q \in VarObjs \ {o} : mem'[q] = mem[q] /\ bpos'[q] = bpos[q]
  BY <1>0, <1>1
<1>5. \A d \in 0..1 : mem'[o][d] = IF d = bpos'[o] THEN x ELSE <<0, 0>>
  BY ONLY <1>2, <1>3, <1>4
<1>6. mem' \in [VarObjs -> [0..1 -> VarCell]] /\ bpos' \in [VarObjs -> 0..1]
  BY <1>0, <1>1
<1>7. made' \subseteq VarObjs /\ traits' = traits /\ made' = made \cup {o}
  BY <1>1
<1>8. \A q \in VarObjs \ {o}, d \in 0..1 : mem'[q][d] = mem[q][d]
  BY <1>4
<1>9. /\ bad' \in BOOLEAN /\ spent' \subseteq VarObjs /\ spent \ {o} \subseteq spent'
      /\ (bad' => spent' # {}) /\ (p \in spent => o \in spent')
  BY <1>1 DEF Var!Bytes
<1>10. x = <<0, 0>> => Var!InPlace /\ o \in spent'
  BY <1>2, <1>9
<1> HIDE DEF x
<1>11. VarGiven(o, idx[p], x, {})
  BY ONLY <1>0, <1>1, <1>4, <1>5, <1>6, <1>7, <1>8, <1>9, <1>10 DEF VarGiven
<1> QED BY <1>1, <1>2, <1>7, <1>11, VarTakenFrom

\* Nothing but the history may change.
LEMMA VarStays ==
    ASSUME VarInv, UNCHANGED <<traits, mem, idx, bpos, made>>, bad' \in BOOLEAN,
           spent' \subseteq VarObjs, spent \subseteq spent', bad' => spent' # {}
    PROVE  VarKept
<1>1. Var!TypeOK'
  BY Zenon DEF VarInv, Var!TypeOK, Var!Doubled
<1>2. Var!OneLives' /\ Var!OnlyLiving' /\ \A o \in made' : idx'[o] \in Alternatives
  <2>1. (Var!InPlace' <=> Var!InPlace) /\ \A o \in VarObjs : Var!Lives(o)' <=> Var!Lives(o)
    BY DEF Var!InPlace, Var!Doubled, Var!Trivial, Var!Lives
  <2> QED BY <2>1 DEF VarInv, Var!OneLives, Var!OnlyLiving
<1>3. VarShown' = VarShown
  BY DEF VarShown, VarContent, Var!Value, Var!Lives
<1> QED BY <1>1, <1>2, <1>3, VarShows DEF VarKept, VarInv

LEMMA VarThrowsKeeps ==
    ASSUME Var!VarAssumption, VarInv, NEW o \in made, bad = FALSE, Var!Throws(o), UNCHANGED <<traits, made>>
    PROVE  VarKept
<1>1. /\ o \in VarObjs /\ spent \subseteq VarObjs /\ made \subseteq VarObjs
      /\ UNCHANGED <<idx, bpos, bad>> /\ made' = made \cup {o}
  BY DEF Var!Throws, VarInv, Var!TypeOK
<1>2. CASE ~Var!InPlace
  BY <1>1, <1>2, VarStays DEF Var!Throws
<1>3. CASE Var!InPlace
  <2>1. /\ mem' = [mem EXCEPT ![o][bpos[o]] = <<0, 0>>] /\ spent' = spent \cup {o} /\ idx[o] \in Alternatives
        /\ mem[o][1 - bpos[o]] = <<0, 0>>
    BY <1>1, <1>3, VarMem DEF Var!Throws, Var!Drop, Var!Put, Var!None
  <2>2. /\ mem \in [VarObjs -> [0..1 -> VarCell]] /\ bpos \in [VarObjs -> 0..1] /\ bpos[o] \in 0..1
        /\ <<0, 0>> \in VarCell /\ idx \in [VarObjs -> Alternatives \cup {0}] /\ (~Var!Doubled => bpos[o] = 0)
    BY <1>1 DEF VarInv, Var!TypeOK, Var!None, Var!Moved, VarCell
  <2>3. \A d \in 0..1 : d = bpos[o] \/ d = 1 - bpos[o]
    BY <2>2
  <2>4. /\ mem' \in [VarObjs -> [0..1 -> VarCell]] /\ \A q \in VarObjs \ {o} : mem'[q] = mem[q]
        /\ mem'[o] = [mem[o] EXCEPT ![bpos[o]] = <<0, 0>>] /\ mem[o] \in [0..1 -> VarCell]
    BY <1>1, <2>1, <2>2
  <2>5. \A d \in 0..1 : mem'[o][d] = <<0, 0>>
    BY <2>1, <2>3, <2>4
  <2>6. idx' = [idx EXCEPT ![o] = idx[o]]
    BY <1>1, <2>2
  <2>7. VarGiven(o, idx[o], <<0, 0>>, {})
    BY <1>1, <1>3, <2>1, <2>2, <2>4, <2>5, <2>6 DEF VarGiven
  <2>8. /\ VarInv'
        /\ \A q \in VarObjs : VarContent(q)' = IF q = o THEN <<-1, 0>> ELSE VarContent(q)
    <3>1. PICK t \in Alternatives : t = idx[o]
      BY <2>1
    <3>2. VarGiven(o, t, <<0, 0>>, {})
      BY <2>7, <3>1
    <3> QED BY <1>1, <3>2, VarGivenKeeps
  <2>9. VarShown' = [VarShown EXCEPT ![o] = <<-1, 0>>]
    BY <2>8 DEF VarShown
  <2>10. VarShown[o] # <<0, 0>>
    <3>1. VarContent(o) \in {<<idx[o], Var!Value(o)>>, <<-1, 0>>} /\ 0 \notin Alternatives
      BY DEF VarContent, Var!VarAssumption
    <3> QED BY <1>1, <2>1, <3>1 DEF VarShown
  <2> QED BY <1>1, <2>8, <2>9, <2>10, VarShows DEF VarKept
<1> QED BY <1>2, <1>3

LEMMA VarDestroyKeeps ==
    ASSUME Var!VarAssumption, VarInv, NEW o \in VarObjs, bad = FALSE, Var!Destroy(o) PROVE VarKept
<1>1. /\ o \in made /\ made' = made \ {o} /\ mem' = [mem EXCEPT ![o][bpos[o]] = <<0, 0>>]
      /\ UNCHANGED <<traits, idx, bpos>> /\ bad' = FALSE /\ spent' = spent \ {o}
  BY VarDrops DEF Var!Destroy, Var!Drop, Var!Put, Var!None
<1>2. /\ mem \in [VarObjs -> [0..1 -> VarCell]] /\ made \subseteq VarObjs /\ bpos[o] \in 0..1
      /\ <<0, 0>> \in VarCell
  BY DEF VarInv, Var!TypeOK, Var!None, Var!Moved, VarCell
<1>3. mem[o][1 - bpos[o]] = <<0, 0>>
  BY <1>1, VarMem
<1>4. /\ mem' \in [VarObjs -> [0..1 -> VarCell]] /\ \A q \in VarObjs \ {o} : mem'[q] = mem[q]
      /\ mem'[o] = [mem[o] EXCEPT ![bpos[o]] = <<0, 0>>]
  BY <1>1, <1>2
<1>5. \A d \in 0..1 : mem'[o][d] = <<0, 0>>
  <2>1. \A d \in 0..1 : d = bpos[o] \/ d = 1 - bpos[o]
    BY <1>2
  <2>2. mem[o] \in [0..1 -> VarCell]
    BY <1>2
  <2> QED BY <1>3, <1>4, <2>1, <2>2
<1>6. Var!TypeOK'
  <2>1. /\ idx' \in [VarObjs -> Alternatives \cup {0}] /\ bpos' \in [VarObjs -> 0..1] /\ bad' \in BOOLEAN
        /\ traits' \in [Alternatives -> Var!Traits] /\ made' \subseteq VarObjs /\ spent' \subseteq VarObjs
    BY <1>1, Zenon DEF VarInv, Var!TypeOK
  <2>2. (\A q \in VarObjs : ~Var!Doubled => bpos[q] = 0)'
    BY <1>1, Zenon DEF VarInv, Var!TypeOK, Var!Doubled
  <2> QED BY <1>4, <2>1, <2>2, Zenon DEF Var!TypeOK, Var!None, Var!Moved, VarCell
<1>7. Var!OneLives'
  <2>1. ASSUME NEW q \in VarObjs, q # o
        PROVE  IF q \in made' THEN /\ mem'[q][1 - bpos'[q]] = <<0, 0>>
                                   /\ mem'[q][bpos'[q]][1] = idx'[q] \/ (~Var!Lives(q)' /\ Var!InPlace' /\ q \in spent')
                              ELSE \A c \in 0..1 : mem'[q][c] = <<0, 0>>
    <3>1. (Var!InPlace' <=> Var!InPlace) /\ (Var!Lives(q)' <=> Var!Lives(q)) /\ (q \in spent' <=> q \in spent)
      BY <1>1, <1>4, <2>1 DEF Var!InPlace, Var!Doubled, Var!Trivial, Var!Lives
    <3>2. mem'[q] = mem[q] /\ bpos'[q] = bpos[q] /\ idx'[q] = idx[q] /\ (q \in made' <=> q \in made)
      BY <1>1, <1>4, <2>1
    <3> QED BY <3>1, <3>2 DEF VarInv, Var!OneLives, Var!None
  <2>2. o \notin made' /\ \A c \in 0..1 : mem'[o][c] = <<0, 0>>
    BY <1>1, <1>5
  <2> QED BY <2>1, <2>2 DEF Var!OneLives, Var!None
<1>8. Var!OnlyLiving' /\ \A q \in made' : idx'[q] \in Alternatives
  BY <1>1 DEF VarInv, Var!OnlyLiving
<1>9. VarShown' = [VarShown EXCEPT ![o] = <<0, 0>>]
  <2>1. \A q \in VarObjs : VarContent(q)' = IF q = o THEN <<0, 0>> ELSE VarContent(q)
    BY <1>1, <1>4 DEF VarContent, Var!Value, Var!Lives
  <2> QED BY <2>1 DEF VarShown
<1> QED BY <1>6, <1>7, <1>8, <1>9, VarShows DEF VarKept, VarInv

LEMMA VarKeeps ==
    ASSUME Var!VarAssumption, VarInv, Var!Next PROVE VarKept
<1>1. PICK o \in VarObjs :
        \/ \E t \in Alternatives, n \in VarNums :
              Var!MakeValue(o, t, n) \/ \E nothrow \in BOOLEAN : Var!EmplaceValue(o, t, n, nothrow)
        \/ \E p \in VarObjs, move \in BOOLEAN : Var!MakeFrom(o, p, move) \/ Var!Assign(o, p, move)
        \/ Var!Destroy(o) \/ Var!EmplaceThrows(o)
  BY DEF Var!Next
<1>2. made \subseteq VarObjs /\ bad = FALSE
  BY DEF VarInv, Var!TypeOK, Var!Next
<1>3. ASSUME NEW t \in Alternatives, NEW n \in VarNums, Var!MakeValue(o, t, n) PROVE VarKept
  <2>1. Var!Make(o, t, n, {}) /\ bad' = FALSE
    BY <1>2, <1>3 DEF Var!MakeValue
  <2>2. n \in VarNums \cup {0} /\ {} \in SUBSET made /\ bad' \in BOOLEAN /\ (bad' => spent \ {o} # {})
    BY <2>1
  <2>3. VarGiven(o, t, <<t, n>>, {}) /\ made' = made \cup {o}
    BY <2>1, <2>2, VarMakeGives, Zenon
  <2> QED BY <2>3, VarValueGiven
<1>4. ASSUME NEW t \in Alternatives, NEW n \in VarNums, NEW nothrow \in BOOLEAN, Var!EmplaceValue(o, t, n, nothrow)
      PROVE  VarKept
  <2>1. o \in made /\ Var!Emplace(o, t, n, nothrow, {}, {}) /\ UNCHANGED <<traits, made>>
    BY <1>4 DEF Var!EmplaceValue
  <2>2. VarGiven(o, t, <<t, n>>, {})
    BY <1>2, <2>1, VarEmplace
  <2>3. made' = made \cup {o}
    BY <2>1
  <2> QED BY <2>2, <2>3, VarValueGiven
<1>5. ASSUME NEW p \in VarObjs, NEW move \in BOOLEAN, Var!MakeFrom(o, p, move) PROVE VarKept
  <2>1. p \in made /\ idx[p] \in Alternatives /\ Var!Value(p) \in VarNums \cup {0} /\ (~Var!Lives(p) => p \in spent)
    BY <1>5, VarMem DEF Var!MakeFrom
  <2>2. PICK ps \in {{}, {p}} : \/ Var!Make(o, idx[p], Var!Value(p), ps) /\ bad' = ~Var!Lives(p)
                                \/ Var!MakeThrows(o, idx[p], move)
    BY <1>2, <1>5 DEF Var!MakeFrom
  <2>3. CASE Var!Make(o, idx[p], Var!Value(p), ps) /\ bad' = ~Var!Lives(p)
    <3>1. PICK t \in Alternatives, v \in VarNums \cup {0} : t = idx[p] /\ v = Var!Value(p)
      BY <2>1
    <3>2. ps \in SUBSET made /\ Var!Make(o, t, v, ps) /\ bad' \in BOOLEAN /\ (bad' => spent \ {o} # {})
      BY <2>1, <2>3, <3>1 DEF Var!Make
    <3>3. VarGiven(o, t, <<t, v>>, ps) /\ made' = made \cup {o}
      BY <3>2, VarMakeGives
    <3> DEFINE x == <<t, v>>
    <3>4. x = <<idx[p], Var!Value(p)>> /\ (~bad' => Var!Lives(p)) /\ VarGiven(o, idx[p], x, ps)
      BY <2>3, <3>1, <3>3
    <3> HIDE DEF x
    <3> QED BY <2>1, <3>3, <3>4, VarTakenFrom
  <2>4. CASE Var!MakeThrows(o, idx[p], move)
    <3>1. /\ UNCHANGED <<traits, mem, idx, bpos, made>> /\ bad' = ~Var!Trivial
          /\ spent' = IF Var!Trivial THEN spent ELSE spent \cup {o}
      BY <1>2, <2>4 DEF Var!MakeThrows
    <3>2. spent' \subseteq VarObjs /\ spent \subseteq spent' /\ bad' \in BOOLEAN /\ (bad' => spent' # {})
      BY <3>1 DEF VarInv, Var!TypeOK
    <3> QED BY <3>1, <3>2, VarStays
  <2> QED BY <2>2, <2>3, <2>4
<1>6. ASSUME NEW p \in VarObjs, NEW move \in BOOLEAN, Var!Assign(o, p, move) PROVE VarKept
  <2>1. o \in made /\ p \in made /\ UNCHANGED <<traits, made>> /\ made' = made \cup {o}
    BY <1>6 DEF Var!Assign
  <2>2. idx[p] \in Alternatives /\ Var!Value(p) \in VarNums \cup {0}
    BY <2>1, VarMem
  <2>3. PICK nothrow \in BOOLEAN, ps \in {{}, {p}} :
           IF Var!Bytewise THEN Var!Bytes(o, p)
           ELSE Var!Emplace(o, idx[p], Var!Value(p), nothrow, {p}, ps) \/ (~nothrow /\ Var!Lives(p) /\ Var!Throws(o))
    <3> DEFINE nt == IF move THEN traits[idx[p]].move ELSE traits[idx[p]].copy
               qs == IF move THEN {p} ELSE {}
    <3>1. nt \in BOOLEAN
      <4>1. traits[idx[p]] \in Var!Traits
        BY <2>2 DEF VarInv, Var!TypeOK
      <4> QED BY <4>1 DEF Var!Traits
    <3>2. qs \in {{}, {p}}
      OBVIOUS
    <3>3. IF Var!Bytewise THEN Var!Bytes(o, p)
          ELSE Var!Emplace(o, idx[p], Var!Value(p), nt, {p}, qs) \/ (~nt /\ Var!Lives(p) /\ Var!Throws(o))
      BY <1>6, Zenon DEF Var!Assign
    <3> HIDE DEF nt, qs
    <3> QED BY <3>1, <3>2, <3>3, Zenon
  <2>4. CASE Var!Bytewise
    BY <1>2, <2>1, <2>3, <2>4, VarBytesGive
  <2>5. CASE ~Var!Bytewise /\ Var!Emplace(o, idx[p], Var!Value(p), nothrow, {p}, ps)
    <3>1. PICK t \in Alternatives, v \in VarNums \cup {0} : t = idx[p] /\ v = Var!Value(p)
      BY <2>2
    <3>2. PICK src \in SUBSET made, qs \in SUBSET made :
             src = {p} /\ qs = ps /\ Var!Emplace(o, t, v, nothrow, src, qs)
      BY <2>1, <2>3, <2>5, <3>1
    <3>6. o \in made /\ UNCHANGED <<traits, made>> /\ Var!Emplace(o, t, v, nothrow, src, qs)
      BY <2>1, <3>2
    <3>7. VarGiven(o, t, <<t, v>>, qs)
      BY <1>2, <3>6, VarEmplace
    <3>8. ~bad' => \A q \in src : Var!Lives(q)
      BY <3>6, Zenon DEF Var!Emplace
    <3>3. VarGiven(o, t, <<t, v>>, ps) /\ (~bad' => Var!Lives(p))
      BY <3>2, <3>7, <3>8
    <3> DEFINE x == <<t, v>>
    <3>4. x = <<idx[p], Var!Value(p)>> /\ (~bad' => Var!Lives(p)) /\ VarGiven(o, idx[p], x, ps)
      BY <3>1, <3>3
    <3> HIDE DEF x
    <3> QED BY <2>1, <3>4, VarTakenFrom
  <2>6. CASE ~Var!Bytewise /\ Var!Throws(o)
    BY <1>2, <2>1, <2>6, VarThrowsKeeps
  <2> QED BY <2>3, <2>4, <2>5, <2>6
<1>7. CASE Var!EmplaceThrows(o)
  BY <1>2, <1>7, VarThrowsKeeps DEF Var!EmplaceThrows
<1>8. CASE Var!Destroy(o)
  BY <1>2, <1>8, VarDestroyKeeps
<1> QED BY <1>1, <1>3, <1>4, <1>5, <1>6, <1>7, <1>8

LEMMA VarRests ==
    ASSUME VarInv, UNCHANGED <<traits, mem, idx, bpos, made, spent, bad>>
    PROVE  VarKept
<1>1. bad' \in BOOLEAN
  BY Zenon DEF VarInv, Var!TypeOK
<1>2. spent' \subseteq VarObjs
  BY DEF VarInv, Var!TypeOK
<1>3. bad' => spent' # {}
  BY DEF VarInv, Var!OnlyLiving
<1> QED BY <1>1, <1>2, <1>3, VarStays

-----------------------------------------------------------------------------
(* The function: what its pointers and its storage say of each other.      *)

FuncCell == (Callables \X (FuncNums \cup {0})) \cup {<<"none", 0>>}

\* What the pointers and the storage of a function say of each other: the
\* callable of the manager is there, and who can be called was not moved from.
FuncSound(c, g, x) == x[1] = g /\ (c # "none" => c = g /\ x[2] # 0)

\* A function that was reset, or left by an exception, has nothing in its
\* storage; until something undefined is done, any other is sound.
FuncInv ==
    /\ Func!TypeOK /\ Func!DestroyedOnce
    /\ ~bad => \A o \in FuncObjs :
          /\ IF o \in spent THEN o \in made /\ mem[o] = <<"none", 0>> ELSE FuncSound(call[o], mgr[o], mem[o])
          /\ o \notin made => mem[o] = <<"none", 0>> /\ mgr[o] = "none" /\ call[o] = "none"

FuncContent(o) == IF o \notin made THEN <<"none", -1>>
                  ELSE IF call[o] = "none" THEN <<"none", 0>>
                  ELSE IF mem[o] = <<"none", 0>> THEN <<"none", -2>> ELSE mem[o]
FuncShown == [o \in FuncObjs |-> FuncContent(o)]

LEMMA FuncNone == ASSUME Func!FunctionAssumption PROVE Func!Trivial("none")
BY DEF Func!Trivial, Func!FunctionAssumption, Func!None

LEMMA FuncTypes ==
    Func!TypeOK <=>
    /\ traits \in [Callables -> Func!Traits] /\ made \subseteq FuncObjs /\ spent \subseteq FuncObjs /\ bad \in BOOLEAN
    /\ call \in [FuncObjs -> Callables \cup {"none"}] /\ mgr \in [FuncObjs -> Callables \cup {"none"}]
    /\ mem \in [FuncObjs -> FuncCell]
    /\ \A o \in FuncObjs : call[o] \in {"none", mgr[o]}
BY Zenon DEF Func!TypeOK, Func!None, Func!Dead, Func!Moved, FuncCell

LEMMA FuncStarts ==
    ASSUME Func!FunctionAssumption, Func!Init PROVE FuncInv /\ Func!H!Init
<1>1. Func!TypeOK
  <2>1. traits \in [Callables -> Func!Traits] /\ made \subseteq FuncObjs /\ spent \subseteq FuncObjs /\ bad \in BOOLEAN
    BY DEF Func!Init
  <2>2. /\ call \in [FuncObjs -> Callables \cup {"none"}] /\ mgr \in [FuncObjs -> Callables \cup {"none"}]
        /\ \A o \in FuncObjs : call[o] \in {"none", mgr[o]}
    BY DEF Func!Init, Func!None
  <2>3. mem \in [FuncObjs -> FuncCell]
    BY DEF Func!Init, Func!Dead, Func!None, Func!Moved, FuncCell
  <2> QED BY <2>1, <2>2, <2>3, FuncTypes
<1>2. \A o \in FuncObjs : o \notin spent /\ mem[o] = <<"none", 0>> /\ mgr[o] = "none" /\ call[o] = "none"
  BY DEF Func!Init, Func!Dead, Func!None, Func!Moved
<1>3. Func!H!Init /\ Func!DestroyedOnce
  BY DEF Func!Init, Func!H!Init, Func!None, Func!DestroyedOnce
<1> QED BY <1>1, <1>2, <1>3 DEF FuncInv, FuncSound

LEMMA FuncShows ==
    /\ UNCHANGED Func!H!vars <=> FuncShown' = FuncShown
    /\ Func!H!Next <=> \E o \in FuncObjs :
         \/ FuncShown[o] # <<"none", -1>> /\ FuncShown' = [FuncShown EXCEPT ![o] = <<"none", -2>>]
         \/ \E v \in ((Callables \X FuncNums) \cup {<<"none", 0>>}) \cup {<<"none", -1>>} :
                FuncShown' = [FuncShown EXCEPT ![o] = v]
         \/ \E p \in FuncObjs \ {o} :
              \/ FuncShown[p] # <<"none", -1>> /\ FuncShown' = [FuncShown EXCEPT ![o] = FuncShown[p]]
              \/ FuncShown[p] # <<"none", -1>> /\ FuncShown' = [FuncShown EXCEPT ![p] = <<"none", 0>>, ![o] = FuncShown[p]]
<1>1. UNCHANGED Func!H!vars <=> FuncShown' = FuncShown
  BY DEF Func!H!vars, FuncShown, FuncContent, Func!None, Func!Dead, Func!Moved
<1>2. ASSUME NEW o \in FuncObjs
      PROVE  /\ Func!H!Lose(o) <=> (FuncShown[o] # <<"none", -1>> /\ FuncShown' = [FuncShown EXCEPT ![o] = <<"none", -2>>])
             /\ \A v : Func!H!Store(o, v) <=> FuncShown' = [FuncShown EXCEPT ![o] = v]
  BY DEF Func!H!Lose, Func!H!Store, FuncShown, FuncContent, Func!None, Func!Dead, Func!Moved
<1>3. ASSUME NEW o \in FuncObjs, NEW p \in FuncObjs \ {o}
      PROVE  /\ Func!H!Copy(o, p) <=> (FuncShown[p] # <<"none", -1>> /\ FuncShown' = [FuncShown EXCEPT ![o] = FuncShown[p]])
             /\ Func!H!Move(o, p) <=> /\ FuncShown[p] # <<"none", -1>>
                                     /\ FuncShown' = [FuncShown EXCEPT ![p] = <<"none", 0>>, ![o] = FuncShown[p]]
  BY DEF Func!H!Copy, Func!H!Move, FuncShown, FuncContent, Func!None, Func!Dead, Func!Moved
<1>4. Func!Dead = <<"none", 0>> /\ Func!None = "none"
  BY DEF Func!None, Func!Dead, Func!Moved
<1> QED BY <1>1, <1>2, <1>3, <1>4 DEF Func!H!Next

FuncKept == FuncInv' /\ (~bad' => Func!H!Next \/ UNCHANGED Func!H!vars)

LEMMA FuncObject ==
    ASSUME Func!FunctionAssumption, FuncInv, ~bad, NEW o \in FuncObjs
    PROVE  /\ call[o] \in Callables \cup {"none"} /\ mgr[o] \in Callables \cup {"none"} /\ call[o] \in {"none", mgr[o]}
           /\ mem[o] \in FuncCell /\ made \subseteq FuncObjs /\ spent \subseteq made
           /\ call \in [FuncObjs -> Callables \cup {"none"}] /\ mgr \in [FuncObjs -> Callables \cup {"none"}]
           /\ mem \in [FuncObjs -> FuncCell]
           /\ o \notin spent => FuncSound(call[o], mgr[o], mem[o])
           /\ o \in spent => mem[o] = <<"none", 0>>
           /\ o \notin made => mem[o] = <<"none", 0>> /\ mgr[o] = "none" /\ call[o] = "none"
           /\ Func!DeleteBad(o) => o \in spent
           /\ Func!Deleted(o) \in [FuncObjs -> FuncCell]
           /\ \A p \in FuncObjs \ {o} : Func!Deleted(o)[p] = mem[p]
           /\ Func!Trivial(Func!Deleted(o)[o][1])
           /\ IF Func!Trivial(mgr[o]) THEN Func!Deleted(o) = mem ELSE Func!Deleted(o)[o] = <<"none", 0>>
           /\ "none" \notin Callables
<1>1. /\ call \in [FuncObjs -> Callables \cup {"none"}] /\ mgr \in [FuncObjs -> Callables \cup {"none"}]
      /\ mem \in [FuncObjs -> FuncCell] /\ made \subseteq FuncObjs /\ spent \subseteq FuncObjs
      /\ \A p \in FuncObjs : call[p] \in {"none", mgr[p]}
  BY FuncTypes DEF FuncInv
<1>2. "none" \notin Callables
  BY DEF Func!FunctionAssumption, Func!None
<1>3. /\ o \notin spent => FuncSound(call[o], mgr[o], mem[o])
      /\ o \in spent => mem[o] = <<"none", 0>>
      /\ o \notin made => mem[o] = <<"none", 0>> /\ mgr[o] = "none" /\ call[o] = "none"
  BY DEF FuncInv
<1>4. Func!DeleteBad(o) => o \in spent
  BY <1>3 DEF FuncSound, Func!DeleteBad
<1>5. Func!Deleted(o) = IF Func!Trivial(mgr[o]) THEN mem ELSE [mem EXCEPT ![o] = <<"none", 0>>]
  BY DEF Func!Deleted, Func!Dead, Func!None, Func!Moved
<1>6. Func!Deleted(o) \in [FuncObjs -> FuncCell] /\ \A p \in FuncObjs \ {o} : Func!Deleted(o)[p] = mem[p]
  BY <1>1, <1>5 DEF FuncCell
<1>7. Func!Trivial(Func!Deleted(o)[o][1])
  <2>1. CASE ~Func!Trivial(mgr[o])
    BY <1>1, <1>5, <2>1, FuncNone
  <2>2. CASE Func!Trivial(mgr[o])
    <3>1. mem[o][1] = mgr[o] \/ mem[o][1] = "none"
      BY <1>3 DEF FuncSound
    <3> QED BY <1>5, <2>2, <3>1, FuncNone
  <2> QED BY <2>1, <2>2
<1>8. spent \subseteq made
  BY <1>1 DEF FuncInv
<1>9. IF Func!Trivial(mgr[o]) THEN Func!Deleted(o) = mem ELSE Func!Deleted(o)[o] = <<"none", 0>>
  BY <1>1, <1>5
<1> QED BY <1>1, <1>2, <1>3, <1>4, <1>6, <1>7, <1>8, <1>9

\* A function gets pointers and a callable, the others keep theirs but one that
\* is moved from.
FuncGiven(o, c, g, x, p) ==
    /\ call' \in [FuncObjs -> Callables \cup {"none"}] /\ mgr' \in [FuncObjs -> Callables \cup {"none"}]
    /\ mem' \in [FuncObjs -> FuncCell]
    /\ call'[o] = c /\ mgr'[o] = g /\ mem'[o] = x
    /\ \A q \in FuncObjs \ {o} : mgr'[q] = mgr[q]
    /\ \A q \in FuncObjs \ {o, p} : call'[q] = call[q] /\ mem'[q] = mem[q]
    /\ p \in FuncObjs \ {o} => /\ call'[p] = "none" /\ p \in made
                               /\ mem'[p] = mem[p] \/ (mem'[p] = <<mgr[p], 0>> /\ (~bad' => p \notin spent))
    /\ traits' = traits /\ bad' \in BOOLEAN

\* What is so of the function afterwards.
FuncEnds(o, c, g, x) ==
    /\ c \in {"none", g}
    /\ spent' \subseteq FuncObjs /\ (\A q \in FuncObjs \ {o} : q \in spent' <=> q \in spent)
    /\ bad' => spent' # {}
    /\ ~bad' => IF o \in spent' THEN o \in made' /\ x = <<"none", 0>> ELSE FuncSound(c, g, x)
    /\ \/ made' = made \cup {o}
       \/ made' = made \ {o} /\ c = "none" /\ g = "none" /\ x = <<"none", 0>>

LEMMA FuncGivenKeeps ==
    ASSUME Func!FunctionAssumption, FuncInv, ~bad, NEW o \in FuncObjs, NEW c, NEW g, NEW x, NEW p,
           FuncGiven(o, c, g, x, p), FuncEnds(o, c, g, x)
    PROVE  /\ FuncInv'
           /\ \A q \in FuncObjs \ {o, p} : FuncContent(q)' = FuncContent(q)
           /\ p \in FuncObjs \ {o} => FuncContent(p)' = <<"none", 0>>
           /\ FuncContent(o)' = IF o \notin made' THEN <<"none", -1>> ELSE IF c = "none" THEN <<"none", 0>>
                                ELSE IF x = <<"none", 0>> THEN <<"none", -2>> ELSE x
<1>1. made \subseteq FuncObjs /\ (\A q \in FuncObjs : call[q] \in {"none", mgr[q]})
  BY FuncTypes DEF FuncInv
<1>2. made' \subseteq FuncObjs /\ \A q \in FuncObjs \ {o} : q \in made' <=> q \in made
  BY <1>1 DEF FuncEnds
<1>3. Func!TypeOK'
  <2>1. traits' \in [Callables -> Func!Traits] /\ bad' \in BOOLEAN
    BY FuncTypes, Zenon DEF FuncInv, FuncGiven
  <2>2. \A q \in FuncObjs : call'[q] \in {"none", mgr'[q]}
    BY <1>1 DEF FuncGiven, FuncEnds
  <2>3. spent' \subseteq FuncObjs
    BY DEF FuncEnds
  <2> QED BY <1>2, <2>1, <2>2, <2>3, Zenon DEF FuncGiven, Func!TypeOK, Func!None, Func!Dead, Func!Moved, FuncCell
<1>4. ASSUME ~bad', NEW q \in FuncObjs
      PROVE  IF q \in spent' THEN q \in made' /\ mem'[q] = <<"none", 0>> ELSE FuncSound(call'[q], mgr'[q], mem'[q])
  <2>1. CASE q = o
    BY <1>4, <2>1 DEF FuncGiven, FuncEnds
  <2>2. CASE q \notin {o, p}
    BY <1>2, <2>2 DEF FuncGiven, FuncEnds, FuncInv
  <2>3. CASE q = p /\ q # o
    <3>1. /\ call'[q] = "none" /\ mgr'[q] = mgr[q]
          /\ mem'[q] = mem[q] \/ (mem'[q] = <<mgr[q], 0>> /\ q \notin spent)
      BY <1>4, <2>3 DEF FuncGiven
    <3>2. /\ q \in made' <=> q \in made
          /\ q \in spent' <=> q \in spent
      BY <1>2, <2>3 DEF FuncEnds
    <3>3. IF q \in spent THEN q \in made /\ mem[q] = <<"none", 0>> ELSE FuncSound(call[q], mgr[q], mem[q])
      BY DEF FuncInv
    <3> QED BY <3>1, <3>2, <3>3 DEF FuncSound
  <2> QED BY <2>1, <2>2, <2>3
<1>5. ASSUME ~bad', NEW q \in FuncObjs, q \notin made'
      PROVE  mem'[q] = <<"none", 0>> /\ mgr'[q] = "none" /\ call'[q] = "none"
  <2>1. CASE q = o
    BY <1>5, <2>1 DEF FuncGiven, FuncEnds
  <2>2. CASE q # o
    <3>1. q \notin made /\ q # p
      BY <1>2, <1>5, <2>2 DEF FuncGiven
    <3> QED BY <2>2, <3>1 DEF FuncGiven, FuncInv
  <2> QED BY <2>1, <2>2
<1>6. \A q \in FuncObjs \ {o, p} : FuncContent(q)' = FuncContent(q)
  BY <1>2 DEF FuncGiven, FuncContent
<1>7. p \in FuncObjs \ {o} => FuncContent(p)' = <<"none", 0>>
  BY <1>2 DEF FuncGiven, FuncContent
<1>8. FuncContent(o)' = IF o \notin made' THEN <<"none", -1>> ELSE IF c = "none" THEN <<"none", 0>>
                        ELSE IF x = <<"none", 0>> THEN <<"none", -2>> ELSE x
  BY DEF FuncGiven, FuncContent
<1>9. Func!DestroyedOnce'
  BY DEF FuncEnds, Func!DestroyedOnce
<1>10. FuncInv'
  BY <1>3, <1>4, <1>5, <1>9 DEF FuncInv
<1> QED BY <1>6, <1>7, <1>8, <1>10

LEMMA FuncSeen ==
    ASSUME Func!FunctionAssumption, FuncInv, ~bad, NEW p \in made
    PROVE  p \in FuncObjs /\ FuncShown[p] = FuncContent(p) /\ FuncShown[p] # <<"none", -1>>
<1>1. p \in FuncObjs
  BY FuncTypes DEF FuncInv
<1>2. mem[p] \in FuncCell /\ "none" \notin Callables
  BY <1>1, FuncObject
<1>3. mem[p] # <<"none", -1>>
  BY <1>2 DEF FuncCell
<1> QED BY <1>1, <1>3 DEF FuncShown, FuncContent

\* The callable comes from outside, or there is none.
LEMMA FuncStored ==
    ASSUME Func!FunctionAssumption, FuncInv, ~bad, NEW o \in FuncObjs, NEW c, NEW g, NEW x,
           FuncGiven(o, c, g, x, o), FuncEnds(o, c, g, x),
           c = "none" \/ x \in Callables \X FuncNums \/ (x = <<"none", 0>> /\ o \in made)
    PROVE  FuncKept
<1>1. /\ FuncInv'
      /\ \A q \in FuncObjs \ {o} : FuncContent(q)' = FuncContent(q)
      /\ FuncContent(o)' = IF o \notin made' THEN <<"none", -1>> ELSE IF c = "none" THEN <<"none", 0>>
                           ELSE IF x = <<"none", 0>> THEN <<"none", -2>> ELSE x
  BY FuncGivenKeeps
<1>2. PICK v : v = FuncContent(o)'
  OBVIOUS
<1>3. FuncShown' = [FuncShown EXCEPT ![o] = v]
  BY <1>1, <1>2 DEF FuncShown
<1>4. CASE v \in ((Callables \X FuncNums) \cup {<<"none", 0>>}) \cup {<<"none", -1>>}
  BY <1>1, <1>3, <1>4, FuncShows DEF FuncKept
<1>5. CASE v = <<"none", -2>> /\ o \in made
  BY <1>1, <1>3, <1>5, FuncSeen, FuncShows DEF FuncKept
<1>6. \/ v \in ((Callables \X FuncNums) \cup {<<"none", 0>>}) \cup {<<"none", -1>>}
      \/ v = <<"none", -2>> /\ o \in made
  BY <1>1, <1>2 DEF Func!FunctionAssumption, Func!None
<1> QED BY <1>4, <1>5, <1>6

LEMMA FuncPart ==
    ASSUME Func!FunctionAssumption, FuncInv, ~bad, NEW p \in made
    PROVE  /\ p \in FuncObjs /\ Func!Content(p) \in FuncCell
           /\ call[p] \in {"none", mgr[p]} /\ call[p] \in Callables \cup {"none"} /\ mgr[p] \in Callables \cup {"none"}
           /\ Func!Content(p)[1] = mgr[p] =>
                /\ FuncSound(call[p], mgr[p], Func!Content(p))
                /\ FuncContent(p) = IF call[p] = "none" THEN <<"none", 0>> ELSE Func!Content(p)
                /\ p \in spent => mgr[p] = "none"
                /\ call[p] # "none" => Func!Content(p) # <<"none", 0>>
           /\ Func!Content(p)[1] # mgr[p] => p \in spent
           /\ \/ Func!MovedOut(p) = mem
              \/ Func!MovedOut(p) = [mem EXCEPT ![p] = <<mgr[p], 0>>] /\ mgr[p] \in Callables
<1>1. p \in FuncObjs
  BY FuncTypes DEF FuncInv
<1>2. /\ call[p] \in {"none", mgr[p]} /\ call[p] \in Callables \cup {"none"} /\ mgr[p] \in Callables \cup {"none"}
      /\ mem[p] \in FuncCell /\ "none" \notin Callables
      /\ p \notin spent => FuncSound(call[p], mgr[p], mem[p])
      /\ p \in spent => mem[p] = <<"none", 0>>
  BY <1>1, FuncObject
<1>3. Func!Content(p) = IF mgr[p] = "none" THEN <<"none", 0>> ELSE mem[p]
  BY DEF Func!Content, Func!None, Func!Dead, Func!Moved
<1>4. Func!Content(p) \in FuncCell
  BY <1>2, <1>3 DEF FuncCell
<1>5. ASSUME Func!Content(p)[1] = mgr[p]
      PROVE  /\ FuncSound(call[p], mgr[p], Func!Content(p)) /\ (p \in spent => mgr[p] = "none")
             /\ call[p] # "none" => Func!Content(p) # <<"none", 0>> /\ Func!Content(p) = mem[p]
  <2>1. CASE mgr[p] = "none"
    BY <1>2, <1>3, <2>1 DEF FuncSound
  <2>2. CASE mgr[p] # "none"
    <3>1. p \notin spent
      BY <1>2, <1>3, <1>5, <2>2
    <3>2. mem[p] # <<"none", 0>>
      BY <1>3, <1>5, <2>2
    <3> QED BY <1>2, <1>3, <2>2, <3>1, <3>2
  <2> QED BY <2>1, <2>2
<1>6. Func!Content(p)[1] = mgr[p] => FuncContent(p) = IF call[p] = "none" THEN <<"none", 0>> ELSE Func!Content(p)
  BY <1>5 DEF FuncContent
<1>7. Func!Content(p)[1] # mgr[p] => p \in spent
  BY <1>2, <1>3 DEF FuncSound
<1>8. \/ Func!MovedOut(p) = mem
      \/ Func!MovedOut(p) = [mem EXCEPT ![p] = <<mgr[p], 0>>] /\ mgr[p] \in Callables
  BY <1>2 DEF Func!MovedOut, Func!None, Func!Moved
<1> QED BY <1>1, <1>2, <1>4, <1>5, <1>6, <1>7, <1>8

\* The callable comes from another function, which keeps it or gives it up.
LEMMA FuncTaken ==
    ASSUME Func!FunctionAssumption, FuncInv, ~bad, NEW o \in FuncObjs, NEW p \in made, p # o, NEW q \in {o, p},
           FuncGiven(o, call[p], mgr[p], Func!Content(p), q),
           FuncEnds(o, call[p], mgr[p], Func!Content(p)), made' = made \cup {o},
           ~bad' => Func!Content(p)[1] = mgr[p]
    PROVE  FuncKept
<1>1. PICK c, g, x : c = call[p] /\ g = mgr[p] /\ x = Func!Content(p)
  OBVIOUS
<1>2. FuncGiven(o, c, g, x, q) /\ FuncEnds(o, c, g, x) /\ p \in FuncObjs \ {o}
  BY <1>1, FuncPart
<1>3. /\ FuncInv'
      /\ \A r \in FuncObjs \ {o, q} : FuncContent(r)' = FuncContent(r)
      /\ q \in FuncObjs \ {o} => FuncContent(q)' = <<"none", 0>>
      /\ FuncContent(o)' = IF o \notin made' THEN <<"none", -1>> ELSE IF c = "none" THEN <<"none", 0>>
                           ELSE IF x = <<"none", 0>> THEN <<"none", -2>> ELSE x
  BY <1>2, FuncGivenKeeps
<1>4. ASSUME ~bad' PROVE Func!H!Next
  <2>1. FuncContent(p) = (IF c = "none" THEN <<"none", 0>> ELSE x) /\ (c # "none" => x # <<"none", 0>>)
    BY <1>1, <1>4, FuncPart
  <2>2. FuncContent(o)' = FuncShown[p] /\ FuncShown[p] # <<"none", -1>>
    BY <1>3, <2>1, FuncSeen
  <2>3. CASE q = o
    <3>1. FuncShown' = [FuncShown EXCEPT ![o] = FuncShown[p]]
      BY <1>3, <2>2, <2>3 DEF FuncShown
    <3> QED BY <1>2, <2>2, <3>1, FuncShows
  <2>4. CASE q = p
    <3>1. FuncShown' = [FuncShown EXCEPT ![p] = <<"none", 0>>, ![o] = FuncShown[p]]
      BY <1>2, <1>3, <2>2, <2>4 DEF FuncShown
    <3> QED BY <1>2, <2>2, <3>1, FuncShows
  <2> QED BY <2>3, <2>4
<1> QED BY <1>3, <1>4 DEF FuncKept

\* What replacing a callable does to the history.
LEMMA FuncReplaced ==
    ASSUME Func!FunctionAssumption, FuncInv, ~bad, NEW o \in FuncObjs, NEW t, NEW x, NEW m, Func!Replace(o, t, x, m)
    PROVE  /\ mem' = [m EXCEPT ![o] = x] /\ mgr' = [mgr EXCEPT ![o] = t] /\ bad' \in BOOLEAN
           /\ spent' \subseteq FuncObjs /\ (\A q \in FuncObjs \ {o} : q \in spent' <=> q \in spent)
           /\ ~bad' => o \notin spent' /\ x[1] = t
           /\ bad' => x[1] # t \/ spent' # {}
<1>1. /\ mem' = [m EXCEPT ![o] = x] /\ mgr' = [mgr EXCEPT ![o] = t]
      /\ spent' = IF Func!DeleteBad(o) THEN spent ELSE spent \ {o}
  BY DEF Func!Replace
<1>2. bad' \in BOOLEAN
  BY Zenon DEF Func!Replace
<1>3. ~bad' => ~Func!DeleteBad(o) /\ x[1] = t
  BY Zenon DEF Func!Replace
<1>4. Func!Trivial(Func!Deleted(o)[o][1]) /\ (Func!DeleteBad(o) => o \in spent)
  BY FuncObject
<1>5. bad' => Func!DeleteBad(o) \/ x[1] # t
  BY <1>4, Zenon DEF Func!Replace
<1>6. spent \subseteq FuncObjs
  BY FuncTypes DEF FuncInv
<1> QED BY <1>1, <1>2, <1>3, <1>4, <1>5, <1>6

\* A callable of its own for a function.
LEMMA FuncOwn ==
    ASSUME Func!FunctionAssumption, FuncInv, ~bad, NEW o \in FuncObjs, NEW t \in Callables, NEW n \in FuncNums,
           Func!Replace(o, t, <<t, n>>, mem), call' = [call EXCEPT ![o] = t], traits' = traits, made' = made \cup {o}
    PROVE  FuncKept
<1>1. <<t, n>> \in FuncCell /\ <<t, n>> \in Callables \X FuncNums /\ FuncSound(t, t, <<t, n>>)
  BY DEF FuncCell, FuncSound, Func!FunctionAssumption
<1>2. PICK x \in FuncCell : x = <<t, n>>
  BY <1>1
<1>3. Func!Replace(o, t, x, mem) /\ x[1] = t
  BY <1>2
<1>4. /\ mem' = [mem EXCEPT ![o] = x] /\ mgr' = [mgr EXCEPT ![o] = t] /\ bad' \in BOOLEAN
      /\ spent' \subseteq FuncObjs /\ (\A q \in FuncObjs \ {o} : q \in spent' <=> q \in spent)
      /\ ~bad' => o \notin spent'
      /\ bad' => spent' # {}
  BY <1>3, FuncReplaced
<1>5. /\ call \in [FuncObjs -> Callables \cup {"none"}] /\ mgr \in [FuncObjs -> Callables \cup {"none"}]
      /\ mem \in [FuncObjs -> FuncCell]
  BY FuncObject
<1>6. FuncGiven(o, t, t, x, o)
  BY <1>4, <1>5 DEF FuncGiven
<1>7. FuncEnds(o, t, t, x)
  BY <1>1, <1>2, <1>4 DEF FuncEnds
<1> QED BY <1>1, <1>2, <1>6, <1>7, FuncStored

\* A copy of another function.
LEMMA FuncCopies ==
    ASSUME Func!FunctionAssumption, FuncInv, ~bad, NEW o \in FuncObjs, NEW p \in made, p # o,
           Func!Replace(o, mgr[p], Func!Content(p), mem), call' = [call EXCEPT ![o] = call[p]],
           traits' = traits, made' = made \cup {o}
    PROVE  FuncKept
<1>1. PICK c \in Callables \cup {"none"}, g \in Callables \cup {"none"}, x \in FuncCell :
           c = call[p] /\ g = mgr[p] /\ x = Func!Content(p)
  BY FuncPart
<1>2. /\ p \in FuncObjs /\ c \in {"none", g}
      /\ x[1] = g => FuncSound(c, g, x)
      /\ x[1] # g => p \in spent
  BY <1>1, FuncPart
<1>3. /\ mem' = [mem EXCEPT ![o] = x] /\ mgr' = [mgr EXCEPT ![o] = g] /\ bad' \in BOOLEAN
      /\ spent' \subseteq FuncObjs /\ (\A q \in FuncObjs \ {o} : q \in spent' <=> q \in spent)
      /\ ~bad' => o \notin spent' /\ x[1] = g
      /\ bad' => x[1] # g \/ spent' # {}
  BY <1>1, FuncReplaced
<1>4. bad' => spent' # {}
  BY <1>2, <1>3
<1>5. /\ call \in [FuncObjs -> Callables \cup {"none"}] /\ mgr \in [FuncObjs -> Callables \cup {"none"}]
      /\ mem \in [FuncObjs -> FuncCell]
  BY FuncObject
<1>6. FuncGiven(o, c, g, x, o)
  BY <1>1, <1>3, <1>5 DEF FuncGiven
<1>7. FuncEnds(o, c, g, x)
  BY <1>2, <1>3, <1>4 DEF FuncEnds
<1>8. FuncGiven(o, call[p], mgr[p], Func!Content(p), o) /\ FuncEnds(o, call[p], mgr[p], Func!Content(p))
  BY <1>1, <1>6, <1>7
<1> QED BY <1>1, <1>3, <1>8, FuncTaken

\* A move out of another function.
LEMMA FuncMoves ==
    ASSUME Func!FunctionAssumption, FuncInv, ~bad, NEW o \in FuncObjs, NEW p \in made, p # o,
           Func!Replace(o, mgr[p], Func!Content(p), Func!MovedOut(p)),
           call' = [call EXCEPT ![o] = call[p], ![p] = "none"], traits' = traits, made' = made \cup {o}
    PROVE  FuncKept
<1>1. PICK c \in Callables \cup {"none"}, g \in Callables \cup {"none"}, x \in FuncCell :
           c = call[p] /\ g = mgr[p] /\ x = Func!Content(p)
  BY FuncPart
<1>2. /\ p \in FuncObjs /\ c \in {"none", g}
      /\ x[1] = g => FuncSound(c, g, x) /\ (p \in spent => g = "none")
      /\ x[1] # g => p \in spent
      /\ Func!MovedOut(p) = mem \/ (Func!MovedOut(p) = [mem EXCEPT ![p] = <<g, 0>>] /\ g \in Callables)
  BY <1>1, FuncPart
<1>3. /\ mem' = [Func!MovedOut(p) EXCEPT ![o] = x] /\ mgr' = [mgr EXCEPT ![o] = g] /\ bad' \in BOOLEAN
      /\ spent' \subseteq FuncObjs /\ (\A q \in FuncObjs \ {o} : q \in spent' <=> q \in spent)
      /\ ~bad' => o \notin spent' /\ x[1] = g
      /\ bad' => x[1] # g \/ spent' # {}
  BY <1>1, FuncReplaced
<1>4. bad' => spent' # {}
  BY <1>2, <1>3
<1>5. /\ call \in [FuncObjs -> Callables \cup {"none"}] /\ mgr \in [FuncObjs -> Callables \cup {"none"}]
      /\ mem \in [FuncObjs -> FuncCell] /\ "none" \notin Callables
  BY FuncObject
<1>6. /\ mem' \in [FuncObjs -> FuncCell] /\ mem'[o] = x /\ (\A q \in FuncObjs \ {o, p} : mem'[q] = mem[q])
      /\ mem'[p] = mem[p] \/ (mem'[p] = <<g, 0>> /\ g # "none")
  <2>1. CASE Func!MovedOut(p) = mem
    BY <1>2, <1>3, <1>5, <2>1
  <2>2. CASE Func!MovedOut(p) = [mem EXCEPT ![p] = <<g, 0>>] /\ g \in Callables
    <3>1. <<g, 0>> \in FuncCell
      BY <2>2 DEF FuncCell
    <3> QED BY <1>2, <1>3, <1>5, <2>2, <3>1
  <2> QED BY <1>2, <2>1, <2>2
<1>7. /\ call' \in [FuncObjs -> Callables \cup {"none"}] /\ call'[o] = c /\ call'[p] = "none"
      /\ \A q \in FuncObjs \ {o, p} : call'[q] = call[q]
  BY <1>1, <1>2, <1>5
<1>8. mgr' \in [FuncObjs -> Callables \cup {"none"}] /\ mgr'[o] = g /\ \A q \in FuncObjs \ {o} : mgr'[q] = mgr[q]
  BY <1>3, <1>5
<1>9. mem'[p] = mem[p] \/ (mem'[p] = <<mgr[p], 0>> /\ (~bad' => p \notin spent))
  BY <1>1, <1>2, <1>3, <1>6
<1>10. FuncGiven(o, c, g, x, p)
  BY <1>3, <1>6, <1>7, <1>8, <1>9 DEF FuncGiven
<1>11. FuncEnds(o, c, g, x)
  BY <1>2, <1>3, <1>4 DEF FuncEnds
<1>12. FuncGiven(o, call[p], mgr[p], Func!Content(p), p) /\ FuncEnds(o, call[p], mgr[p], Func!Content(p))
  BY <1>1, <1>10, <1>11
<1> QED BY <1>1, <1>3, <1>12, FuncTaken

LEMMA FuncHalf ==
    ASSUME Func!FunctionAssumption, FuncInv, ~bad, NEW o \in made, NEW t \in Callables \cup {"none"},
           NEW c \in {"none", t}, Func!Half(o, c, t), UNCHANGED <<traits, made>>
    PROVE  FuncKept
<1>1. /\ spent' = spent \cup {o} /\ mem' = [Func!Deleted(o) EXCEPT ![o] = <<"none", 0>>]
      /\ call' = [call EXCEPT ![o] = c] /\ mgr' = [mgr EXCEPT ![o] = t]
  BY DEF Func!Half, Func!Dead, Func!None, Func!Moved
<1>2. bad' \in BOOLEAN
  BY Zenon DEF Func!Half
<1>3. o \in FuncObjs /\ made' = made \cup {o} /\ <<"none", 0>> \in FuncCell
  BY FuncPart DEF FuncCell
<1>4. /\ call \in [FuncObjs -> Callables \cup {"none"}] /\ mgr \in [FuncObjs -> Callables \cup {"none"}]
      /\ Func!Deleted(o) \in [FuncObjs -> FuncCell] /\ (\A q \in FuncObjs \ {o} : Func!Deleted(o)[q] = mem[q])
      /\ spent \subseteq FuncObjs
  BY <1>3, FuncObject
<1>5. FuncGiven(o, c, t, <<"none", 0>>, o)
  BY <1>1, <1>2, <1>3, <1>4 DEF FuncGiven
<1>6. FuncEnds(o, c, t, <<"none", 0>>)
  BY <1>1, <1>3, <1>4 DEF FuncEnds
<1> QED BY <1>3, <1>5, <1>6, FuncStored

LEMMA FuncDestroyed ==
    ASSUME Func!FunctionAssumption, FuncInv, ~bad, NEW o \in FuncObjs, Func!Destroy(o) PROVE FuncKept
<1>1. /\ o \in made /\ made' = made \ {o} /\ spent' = IF Func!DeleteBad(o) THEN spent ELSE spent \ {o}
      /\ mem' = [Func!Deleted(o) EXCEPT ![o] = <<"none", 0>>]
      /\ call' = [call EXCEPT ![o] = "none"] /\ mgr' = [mgr EXCEPT ![o] = "none"] /\ traits' = traits
  BY DEF Func!Destroy, Func!Dead, Func!None, Func!Moved
<1>2. bad' \in BOOLEAN /\ (bad' <=> Func!DeleteBad(o))
  BY Zenon DEF Func!Destroy
<1>3. /\ call \in [FuncObjs -> Callables \cup {"none"}] /\ mgr \in [FuncObjs -> Callables \cup {"none"}]
      /\ Func!Deleted(o) \in [FuncObjs -> FuncCell] /\ (\A q \in FuncObjs \ {o} : Func!Deleted(o)[q] = mem[q])
      /\ spent \subseteq made /\ made \subseteq FuncObjs /\ (Func!DeleteBad(o) => o \in spent)
  BY <1>1, FuncObject
<1>4. <<"none", 0>> \in FuncCell
  BY DEF FuncCell
<1>5. /\ call' \in [FuncObjs -> Callables \cup {"none"}] /\ mgr' \in [FuncObjs -> Callables \cup {"none"}]
      /\ mem' \in [FuncObjs -> FuncCell] /\ mem'[o] = <<"none", 0>> /\ \A q \in FuncObjs \ {o} : mem'[q] = mem[q]
  BY <1>1, <1>3, <1>4
<1>6. FuncGiven(o, "none", "none", <<"none", 0>>, o)
  BY <1>1, <1>2, <1>3, <1>5 DEF FuncGiven
<1>7. FuncEnds(o, "none", "none", <<"none", 0>>)
  BY <1>1, <1>2, <1>3 DEF FuncEnds, FuncSound
<1> QED BY <1>6, <1>7, FuncStored

LEMMA FuncReset ==
    ASSUME Func!FunctionAssumption, FuncInv, ~bad, NEW o \in FuncObjs, Func!Reset(o) PROVE FuncKept
<1>1. /\ o \in made /\ spent' = IF Func!Trivial(mgr[o]) THEN spent ELSE spent \cup {o}
      /\ mem' = Func!Deleted(o) /\ call' = [call EXCEPT ![o] = "none"]
      /\ UNCHANGED <<traits, made, mgr>> /\ made' = made \cup {o}
  BY DEF Func!Reset, Func!None
<1>2. bad' \in BOOLEAN /\ (bad' <=> Func!DeleteBad(o))
  BY Zenon DEF Func!Reset
<1>3. /\ call \in [FuncObjs -> Callables \cup {"none"}] /\ mgr \in [FuncObjs -> Callables \cup {"none"}]
      /\ mem' \in [FuncObjs -> FuncCell] /\ (\A q \in FuncObjs \ {o} : mem'[q] = mem[q])
      /\ spent \subseteq made /\ made \subseteq FuncObjs
      /\ o \notin spent => FuncSound(call[o], mgr[o], mem[o])
      /\ o \in spent => mem[o] = <<"none", 0>>
      /\ IF Func!Trivial(mgr[o]) THEN mem' = mem ELSE mem'[o] = <<"none", 0>>
  BY <1>1, FuncObject
<1>4. Func!DeleteBad(o) => ~Func!Trivial(mgr[o])
  BY DEF Func!DeleteBad
<1>5. PICK g, x : g = mgr[o] /\ x = mem'[o]
  OBVIOUS
<1>6. FuncGiven(o, "none", g, x, o)
  <2>1. call' \in [FuncObjs -> Callables \cup {"none"}] /\ mgr' \in [FuncObjs -> Callables \cup {"none"}]
    BY <1>1, <1>3
  <2> QED BY <1>1, <1>2, <1>3, <1>5, <2>1 DEF FuncGiven
<1>7. FuncEnds(o, "none", g, x)
  <2>1. bad' => spent' # {}
    BY <1>1, <1>2, <1>4
  <2>2. IF o \in spent' THEN x = <<"none", 0>> ELSE FuncSound("none", g, x)
    BY <1>1, <1>3, <1>5 DEF FuncSound
  <2> QED BY <1>1, <1>3, <2>1, <2>2 DEF FuncEnds
<1> QED BY <1>6, <1>7, FuncStored

LEMMA FuncKeeps ==
    ASSUME Func!FunctionAssumption, FuncInv, Func!Next PROVE FuncKept
<1>1. PICK o \in FuncObjs :
        \/ Func!Construct(o) \/ Func!Destroy(o) \/ Func!Emplace(o) \/ Func!Reset(o)
        \/ \E p \in FuncObjs : Func!ConstructMoved(o, p) \/ Func!AssignCopy(o, p) \/ Func!AssignMove(o, p)
  BY DEF Func!Next
<1>2. ~bad /\ made \subseteq FuncObjs
  BY FuncTypes DEF FuncInv, Func!Next
<1>3. CASE Func!Construct(o)
  <2>1. o \notin made /\ made' = made \cup {o} /\ traits' = traits
    BY <1>3 DEF Func!Construct
  <2>2. CASE UNCHANGED <<call, mgr, mem, spent, bad>>
    <3>1. call[o] = "none" /\ mgr[o] = "none" /\ mem[o] = <<"none", 0>> /\ spent \subseteq made
      BY <1>2, <2>1, FuncObject
    <3>2. bad' \in BOOLEAN
      BY <2>2, FuncTypes, Zenon DEF FuncInv
    <3>3. FuncGiven(o, "none", "none", <<"none", 0>>, o)
      BY <1>2, <2>1, <2>2, <3>1, <3>2, FuncObject DEF FuncGiven
    <3>4. FuncEnds(o, "none", "none", <<"none", 0>>)
      BY <1>2, <2>1, <2>2, <3>1 DEF FuncEnds, FuncSound
    <3> QED BY <1>2, <3>3, <3>4, FuncStored
  <2>3. ASSUME NEW t \in Callables, NEW n \in FuncNums, Func!Replace(o, t, <<t, n>>, mem), call' = [call EXCEPT ![o] = t]
        PROVE  FuncKept
    BY <1>2, <2>1, <2>3, FuncOwn
  <2>4. ASSUME NEW p \in made, Func!Replace(o, mgr[p], Func!Content(p), mem), call' = [call EXCEPT ![o] = call[p]]
        PROVE  FuncKept
    BY <1>2, <2>1, <2>4, FuncCopies
  <2> QED BY <1>3, <2>2, <2>3, <2>4 DEF Func!Construct
<1>4. CASE Func!Emplace(o)
  <2>1. o \in made /\ UNCHANGED <<traits, made>> /\ made' = made \cup {o}
    BY <1>4 DEF Func!Emplace
  <2>2. ASSUME NEW t \in Callables, NEW n \in FuncNums, Func!Replace(o, t, <<t, n>>, mem), call' = [call EXCEPT ![o] = t]
        PROVE  FuncKept
    BY <1>2, <2>1, <2>2, FuncOwn
  <2>3. ASSUME NEW t \in Callables, Func!Half(o, t, t) PROVE FuncKept
    BY <1>2, <2>1, <2>3, FuncHalf
  <2> QED BY <1>4, <2>2, <2>3 DEF Func!Emplace
<1>5. ASSUME NEW p \in FuncObjs, Func!ConstructMoved(o, p) \/ Func!AssignMove(o, p) PROVE FuncKept
  <2>1. /\ p \in made /\ o # p /\ made' = made \cup {o} /\ traits' = traits
        /\ Func!Replace(o, mgr[p], Func!Content(p), Func!MovedOut(p))
        /\ call' = [call EXCEPT ![o] = call[p], ![p] = "none"]
    BY <1>5 DEF Func!ConstructMoved, Func!AssignMove, Func!None
  <2> QED BY <1>2, <2>1, FuncMoves
<1>6. ASSUME NEW p \in FuncObjs, Func!AssignCopy(o, p) PROVE FuncKept
  <2>1. p \in made /\ o \in made /\ o # p /\ UNCHANGED <<traits, made>> /\ made' = made \cup {o}
    BY <1>6 DEF Func!AssignCopy
  <2>2. CASE Func!Replace(o, mgr[p], Func!Content(p), mem) /\ call' = [call EXCEPT ![o] = call[p]]
    BY <1>2, <2>1, <2>2, FuncCopies
  <2>3. CASE Func!Half(o, call[p], mgr[p])
    <3>1. PICK t \in Callables \cup {"none"} : \E c \in {"none", t} : t = mgr[p] /\ c = call[p]
      BY <1>2, <2>1, FuncPart
    <3> QED BY <1>2, <2>1, <2>3, <3>1, FuncHalf
  <2> QED BY <1>6, <2>2, <2>3 DEF Func!AssignCopy
<1> QED BY <1>1, <1>2, <1>3, <1>4, <1>5, <1>6, FuncDestroyed, FuncReset

LEMMA FuncCallable ==
    ASSUME FuncInv PROVE Func!Callable
<1>1. ASSUME ~bad, NEW o \in made, call[o] # "none"
      PROVE  (mem[o][1] = call[o] /\ mem[o][2] # 0) \/ (mem[o] = <<"none", 0>> /\ o \in spent)
  <2>1. o \in FuncObjs
    BY FuncTypes DEF FuncInv
  <2> QED BY <1>1, <2>1 DEF FuncInv, FuncSound
<1> QED BY <1>1 DEF Func!Callable, Func!None, Func!Moved, Func!Dead

LEMMA FuncStays ==
    ASSUME FuncInv, UNCHANGED <<traits, mem, call, mgr, made, spent, bad>>
    PROVE  FuncKept
<1>1. Func!TypeOK'
  BY Zenon DEF FuncInv, Func!TypeOK
<1>2. Func!DestroyedOnce'
  BY DEF FuncInv, Func!DestroyedOnce
<1>3. FuncShown' = FuncShown
  BY DEF FuncShown, FuncContent
<1>4. FuncInv'
  BY <1>1, <1>2 DEF FuncInv, FuncSound
<1> QED BY <1>3, <1>4, FuncShows DEF FuncKept

-----------------------------------------------------------------------------
(* The optional value: the flag tells if a value lives.                    *)

OptInv ==
    /\ Opt!TypeOK /\ Opt!OneLives /\ Opt!OnlyLiving
    /\ \A o \in OptObjs \ made : ~has_value[o]

OptContent(o) == IF o \notin made THEN "gone" ELSE IF has_value[o] THEN value[o] ELSE "empty"
OptShown == [o \in OptObjs |-> OptContent(o)]

LEMMA OptStarts ==
    ASSUME Opt!Init PROVE OptInv /\ Opt!H!Init
<1>1. Opt!TypeOK
  BY DEF Opt!Init, Opt!TypeOK
<1>2. Opt!OneLives /\ Opt!OnlyLiving /\ \A o \in OptObjs \ made : ~has_value[o]
  BY DEF Opt!Init, Opt!OneLives, Opt!OnlyLiving, Opt!Lives
<1>3. Opt!H!Init
  BY DEF Opt!Init, Opt!H!Init
<1> QED BY <1>1, <1>2, <1>3 DEF OptInv

LEMMA OptShows ==
    /\ UNCHANGED Opt!H!vars <=> OptShown' = OptShown
    /\ Opt!H!Next <=> \E o \in OptObjs :
         \/ OptShown[o] # "gone" /\ OptShown' = [OptShown EXCEPT ![o] = "gone"]
         \/ \E v \in OptNums \cup {"empty", "gone"} : OptShown' = [OptShown EXCEPT ![o] = v]
         \/ \E p \in OptObjs \ {o} :
              \/ OptShown[p] # "gone" /\ OptShown' = [OptShown EXCEPT ![o] = OptShown[p]]
              \/ OptShown[p] # "gone" /\ OptShown' = [OptShown EXCEPT ![p] = "moved", ![o] = OptShown[p]]
BY DEF Opt!H!vars, Opt!H!Next, Opt!H!Lose, Opt!H!Store, Opt!H!Copy, Opt!H!Move, OptShown, OptContent

OptKept == OptInv' /\ (Opt!H!Next \/ UNCHANGED Opt!H!vars)

LEMMA OptObject ==
    ASSUME Opt!OptAssumption, OptInv, NEW o \in OptObjs
    PROVE  /\ value[o] \in OptNums \cup {"gone", "moved"} /\ has_value[o] \in BOOLEAN
           /\ value[o] # "gone" <=> has_value[o]
           /\ has_value[o] => o \in made
           /\ value \in [OptObjs -> OptNums \cup {"gone", "moved"}] /\ has_value \in [OptObjs -> BOOLEAN]
           /\ made \subseteq OptObjs /\ bad = FALSE
           /\ OptShown[o] = OptContent(o)
BY DEF OptInv, Opt!TypeOK, Opt!OneLives, Opt!OnlyLiving, Opt!Lives, OptShown

\* An object is given a value, or none, the others keep what they have but
\* those that the value is moved from.
OptGiven(o, x, f, ps) ==
    /\ x # "gone" <=> f
    /\ \A p \in ps : has_value[p] /\ p # o
    /\ value' \in [OptObjs -> OptNums \cup {"gone", "moved"}] /\ has_value' \in [OptObjs -> BOOLEAN]
    /\ value'[o] = x /\ (has_value'[o] <=> f)
    /\ \A p \in OptObjs \ {o} : /\ value'[p] = IF p \in ps THEN "moved" ELSE value[p]
                                /\ (has_value'[p] <=> has_value[p])
    /\ UNCHANGED <<bytes, throws, bad>>
    /\ made' = made \cup {o} \/ (made' = made \ {o} /\ ~f)

LEMMA OptGivenKeeps ==
    ASSUME Opt!OptAssumption, OptInv, NEW o \in OptObjs, NEW x, NEW f \in BOOLEAN, NEW ps \in SUBSET OptObjs,
           OptGiven(o, x, f, ps)
    PROVE  /\ OptInv'
           /\ \A p \in OptObjs \ {o} : OptContent(p)' = IF p \in ps THEN "moved" ELSE OptContent(p)
           /\ OptContent(o)' = IF o \notin made' THEN "gone" ELSE IF f THEN x ELSE "empty"
<1>1. \A p \in OptObjs : /\ value[p] # "gone" <=> has_value[p]
                         /\ has_value[p] => p \in made
                         /\ has_value[p] \in BOOLEAN
  BY OptObject
<1>2. made' \subseteq OptObjs /\ \A p \in OptObjs \ {o} : p \in made' <=> p \in made
  BY DEF OptGiven, OptInv, Opt!TypeOK
<1>3. Opt!TypeOK'
  <2>1. bytes' \in Opt!ByteWays /\ throws' \in BOOLEAN /\ bad' \in BOOLEAN
    BY Zenon DEF OptGiven, OptInv, Opt!TypeOK
  <2> QED BY <1>2, <2>1, Zenon DEF OptGiven, Opt!TypeOK, Opt!ByteWays
<1>4. \A p \in OptObjs : /\ value'[p] # "gone" <=> has_value'[p]
                         /\ has_value'[p] => p \in made'
  BY <1>1, <1>2 DEF OptGiven
<1>5. Opt!OneLives' /\ Opt!OnlyLiving' /\ \A p \in OptObjs \ made' : ~has_value'[p]
  BY <1>4 DEF Opt!OneLives, Opt!Lives, OptGiven, OptInv, Opt!OnlyLiving
<1>6. \A p \in OptObjs \ {o} : OptContent(p)' = IF p \in ps THEN "moved" ELSE OptContent(p)
  BY <1>1, <1>2 DEF OptGiven, OptContent
<1>7. OptContent(o)' = IF o \notin made' THEN "gone" ELSE IF f THEN x ELSE "empty"
  BY <1>2 DEF OptGiven, OptContent
<1> QED BY <1>3, <1>5, <1>6, <1>7 DEF OptInv

\* The value comes from outside.
LEMMA OptStored ==
    ASSUME Opt!OptAssumption, OptInv, NEW o \in OptObjs, NEW x \in OptNums \cup {"gone"}, NEW f \in BOOLEAN,
           OptGiven(o, x, f, {})
    PROVE  OptKept
<1>1. /\ OptInv'
      /\ \A p \in OptObjs \ {o} : OptContent(p)' = OptContent(p)
      /\ OptContent(o)' = IF o \notin made' THEN "gone" ELSE IF f THEN x ELSE "empty"
  BY OptGivenKeeps
<1>2. PICK v \in OptNums \cup {"empty", "gone"} : v = OptContent(o)'
  BY <1>1
<1>3. OptShown' = [OptShown EXCEPT ![o] = v]
  BY <1>1, <1>2 DEF OptShown
<1> QED BY <1>1, <1>3, OptShows DEF OptKept

\* It comes from another object.
LEMMA OptTaken ==
    ASSUME Opt!OptAssumption, OptInv, NEW o \in OptObjs, NEW p \in made, NEW ps \in {{}, {p}}, p # o,
           OptGiven(o, value[p], has_value[p], ps), made' = made \cup {o}
    PROVE  OptKept
<1>1. /\ p \in OptObjs \ {o} /\ value[p] \in OptNums \cup {"gone", "moved"} /\ has_value[p] \in BOOLEAN
      /\ ps \in SUBSET OptObjs
  BY OptObject DEF OptInv, Opt!TypeOK
<1>2. PICK x \in OptNums \cup {"gone", "moved"}, f \in BOOLEAN : x = value[p] /\ f = has_value[p]
  BY <1>1
<1>3. /\ OptInv'
      /\ \A q \in OptObjs \ {o} : OptContent(q)' = IF q \in ps THEN "moved" ELSE OptContent(q)
      /\ OptContent(o)' = IF o \notin made' THEN "gone" ELSE IF f THEN x ELSE "empty"
  <2>1. OptGiven(o, x, f, ps)
    BY <1>2
  <2> QED BY <1>1, <2>1, OptGivenKeeps
<1>4. OptContent(o)' = OptContent(p) /\ OptShown[p] = OptContent(p)
  BY <1>1, <1>2, <1>3 DEF OptContent, OptShown
<1>5. OptShown[p] # "gone"
  BY <1>1, <1>4, OptObject DEF OptContent
<1>6. CASE ps = {}
  <2>1. OptShown' = [OptShown EXCEPT ![o] = OptShown[p]]
    BY <1>3, <1>4, <1>6 DEF OptShown
  <2> QED BY <1>1, <1>3, <1>5, <2>1, OptShows DEF OptKept
<1>7. CASE ps = {p}
  <2>1. OptShown' = [OptShown EXCEPT ![p] = "moved", ![o] = OptShown[p]]
    BY <1>1, <1>3, <1>4, <1>7 DEF OptShown
  <2> QED BY <1>1, <1>3, <1>5, <2>1, OptShows DEF OptKept
<1> QED BY <1>6, <1>7

LEMMA OptStays ==
    ASSUME OptInv, UNCHANGED <<bytes, throws, value, has_value, made, bad>>
    PROVE  OptKept
<1>1. Opt!TypeOK'
  BY Zenon DEF OptInv, Opt!TypeOK, Opt!ByteWays
<1>2. Opt!OneLives' /\ Opt!OnlyLiving' /\ \A o \in OptObjs \ made' : ~has_value'[o]
  BY DEF OptInv, Opt!OneLives, Opt!OnlyLiving, Opt!Lives
<1>3. OptShown' = OptShown
  BY DEF OptShown, OptContent
<1> QED BY <1>1, <1>2, <1>3, OptShows DEF OptKept, OptInv

LEMMA OptBytes ==
    ASSUME Opt!OptAssumption, OptInv, NEW o \in OptObjs, NEW p \in made, Opt!AsBytes(o, p),
           UNCHANGED <<bytes, throws>>, made' = made \cup {o}
    PROVE  OptKept
<1>1. p \in OptObjs /\ value' = [value EXCEPT ![p] = value[p], ![o] = value[p]]
      /\ has_value' = [has_value EXCEPT ![o] = has_value[p]] /\ bad' = bad
  BY DEF Opt!AsBytes, Opt!Take, Opt!Flag, OptInv, Opt!TypeOK
<1>2. /\ value \in [OptObjs -> OptNums \cup {"gone", "moved"}] /\ has_value \in [OptObjs -> BOOLEAN]
      /\ value[p] # "gone" <=> has_value[p]
  BY <1>1, OptObject
<1>3. CASE o = p
  <2>1. UNCHANGED <<value, has_value, made>>
    BY <1>1, <1>2, <1>3
  <2> QED BY <1>1, <2>1, OptStays
<1>4. CASE o # p
  <2>1. OptGiven(o, value[p], has_value[p], {})
    BY <1>1, <1>2, <1>4 DEF OptGiven
  <2> QED BY <1>4, <2>1, OptTaken
<1> QED BY <1>3, <1>4

\* init_from of an object without a value.
LEMMA OptInitFrom ==
    ASSUME Opt!OptAssumption, OptInv, NEW o \in OptObjs, NEW p \in made, p # o, NEW move \in BOOLEAN,
           Opt!InitFrom(o, p, move), ~has_value[o], UNCHANGED <<bytes, throws>>, made' = made \cup {o}
    PROVE  OptKept
<1>1. /\ p \in OptObjs /\ value \in [OptObjs -> OptNums \cup {"gone", "moved"}] /\ has_value \in [OptObjs -> BOOLEAN]
      /\ value[p] # "gone" <=> has_value[p]
      /\ value[o] = "gone" /\ bad = FALSE
  BY OptObject DEF OptInv, Opt!TypeOK
<1>2. CASE has_value[p] /\ ~move
  <2>1. /\ value' = [value EXCEPT ![p] = value[p], ![o] = value[p]]
        /\ has_value' = [has_value EXCEPT ![o] = TRUE] /\ bad' = (bad \/ value[o] # "gone")
    BY <1>2 DEF Opt!InitFrom, Opt!Take, Opt!Built, Opt!Flag, Opt!Lives
  <2>2. OptGiven(o, value[p], has_value[p], {})
    BY <1>1, <1>2, <2>1 DEF OptGiven
  <2> QED BY <2>2, OptTaken
<1>3. CASE has_value[p] /\ move
  <2>1. /\ value' = [value EXCEPT ![p] = "moved", ![o] = value[p]]
        /\ has_value' = [has_value EXCEPT ![o] = TRUE] /\ bad' = (bad \/ value[o] # "gone")
    BY <1>3 DEF Opt!InitFrom, Opt!Take, Opt!Built, Opt!Flag, Opt!Lives
  <2>2. OptGiven(o, value[p], has_value[p], {p})
    BY <1>1, <1>3, <2>1 DEF OptGiven
  <2> QED BY <2>2, OptTaken
<1>4. CASE ~has_value[p]
  <2>1. UNCHANGED <<value, has_value, bad>>
    BY <1>4 DEF Opt!InitFrom, Opt!Nothing
  <2>2. OptGiven(o, value[p], has_value[p], {})
    BY <1>1, <1>4, <2>1 DEF OptGiven
  <2> QED BY <2>2, OptTaken
<1> QED BY <1>2, <1>3, <1>4

LEMMA OptReset ==
    ASSUME Opt!OptAssumption, OptInv, NEW o \in made, Opt!Reset(o), UNCHANGED <<bytes, throws>>,
           made' = made \cup {o} \/ made' = made \ {o}
    PROVE  OptKept
<1>1. /\ o \in OptObjs /\ value \in [OptObjs -> OptNums \cup {"gone", "moved"}] /\ has_value \in [OptObjs -> BOOLEAN]
      /\ value[o] # "gone" <=> has_value[o]
      /\ bad = FALSE
  BY OptObject DEF OptInv, Opt!TypeOK
<1>2. /\ value' = IF has_value[o] THEN [value EXCEPT ![o] = "gone"] ELSE value
      /\ has_value' = [has_value EXCEPT ![o] = FALSE] /\ bad' = (bad \/ (has_value[o] /\ ~(value[o] # "gone")))
  BY DEF Opt!Reset, Opt!Flag, Opt!Lives
<1>3. OptGiven(o, "gone", FALSE, {})
  BY <1>1, <1>2 DEF OptGiven
<1> QED BY <1>1, <1>3, OptStored

LEMMA OptAssigns ==
    ASSUME Opt!OptAssumption, OptInv, NEW o \in made, NEW p \in made, NEW move \in BOOLEAN,
           Opt!AssignFrom(o, p, move), UNCHANGED <<bytes, throws, made>>
    PROVE  OptKept
<1>1. /\ o \in OptObjs /\ p \in OptObjs /\ made' = made \cup {o}
      /\ value \in [OptObjs -> OptNums \cup {"gone", "moved"}] /\ has_value \in [OptObjs -> BOOLEAN]
      /\ value[p] # "gone" <=> has_value[p]
      /\ value[o] # "gone" <=> has_value[o]
      /\ bad = FALSE
  BY OptObject DEF OptInv, Opt!TypeOK
<1>2. CASE Opt!Nothing
  BY <1>2, OptStays DEF Opt!Nothing
<1>3. CASE o # p /\ has_value[o] /\ has_value[p] /\ Opt!Take(o, p, move) /\ Opt!Assigned(o)
  <2>1. /\ value' = [value EXCEPT ![p] = IF move THEN "moved" ELSE value[p], ![o] = value[p]]
        /\ has_value' = has_value /\ bad' = (bad \/ ~(value[o] # "gone"))
    BY <1>1, <1>3 DEF Opt!Take, Opt!Assigned, Opt!Lives
  <2>2. CASE move
    <3>1. OptGiven(o, value[p], has_value[p], {p})
      BY <1>1, <1>3, <2>1, <2>2 DEF OptGiven
    <3> QED BY <1>1, <1>3, <3>1, OptTaken
  <2>3. CASE ~move
    <3>1. OptGiven(o, value[p], has_value[p], {})
      BY <1>1, <1>3, <2>1, <2>3 DEF OptGiven
    <3> QED BY <1>1, <1>3, <3>1, OptTaken
  <2> QED BY <2>2, <2>3
<1>4. CASE Opt!Reset(o)
  BY <1>1, <1>4, OptReset
<1>5. CASE o # p /\ ~has_value[o] /\ Opt!InitFrom(o, p, move)
  BY <1>1, <1>5, OptInitFrom
<1> QED BY <1>2, <1>3, <1>4, <1>5 DEF Opt!AssignFrom, Opt!AssignThrows, Opt!InitThrows, Opt!BuildThrows

LEMMA OptKeeps ==
    ASSUME Opt!OptAssumption, OptInv, Opt!Next PROVE OptKept
<1>1. PICK o \in OptObjs :
        \/ Opt!MakeEmpty(o) \/ Opt!AssignNull(o) \/ Opt!Destroy(o)
        \/ \E n \in OptNums : Opt!MakeValue(o, n) \/ Opt!AssignValue(o, n)
        \/ \E p \in OptObjs : Opt!MakeCopy(o, p) \/ Opt!MakeMove(o, p) \/ Opt!AssignCopy(o, p) \/ Opt!AssignMove(o, p)
  BY DEF Opt!Next
<1>2. /\ value \in [OptObjs -> OptNums \cup {"gone", "moved"}] /\ has_value \in [OptObjs -> BOOLEAN]
      /\ value[o] # "gone" <=> has_value[o]
      /\ has_value[o] => o \in made
      /\ bad = FALSE
  BY OptObject DEF OptInv, Opt!TypeOK
<1>3. CASE Opt!MakeEmpty(o)
  <2>1. o \notin made /\ made' = made \cup {o} /\ UNCHANGED <<bytes, throws, value, has_value, bad>>
    BY <1>3 DEF Opt!MakeEmpty, Opt!Make, Opt!Nothing
  <2>2. OptGiven(o, "gone", FALSE, {})
    BY <1>2, <2>1 DEF OptGiven
  <2> QED BY <2>2, OptStored
<1>4. CASE Opt!AssignNull(o)
  <2>1. o \in made /\ made' = made \cup {o} /\ UNCHANGED <<bytes, throws>> /\ Opt!Reset(o)
    BY <1>4 DEF Opt!AssignNull, Opt!On
  <2> QED BY <2>1, OptReset
<1>5. CASE Opt!Destroy(o)
  BY <1>5, OptReset DEF Opt!Destroy
<1>6. ASSUME NEW n \in OptNums, Opt!MakeValue(o, n) PROVE OptKept
  <2>1. /\ o \notin made /\ made' = made \cup {o} /\ UNCHANGED <<bytes, throws>> /\ value' = [value EXCEPT ![o] = n]
        /\ has_value' = [has_value EXCEPT ![o] = TRUE] /\ bad' = (bad \/ value[o] # "gone")
    BY <1>6 DEF Opt!MakeValue, Opt!Make, Opt!Built, Opt!Flag, Opt!Lives
  <2>2. n # "gone"
    BY DEF Opt!OptAssumption
  <2>3. OptGiven(o, n, TRUE, {})
    BY <1>2, <2>1, <2>2 DEF OptGiven
  <2> QED BY <2>3, OptStored
<1>7. ASSUME NEW n \in OptNums, Opt!AssignValue(o, n) PROVE OptKept
  <2>1. o \in made /\ made' = made \cup {o} /\ UNCHANGED <<bytes, throws, made>> /\ n # "gone"
    BY <1>7 DEF Opt!AssignValue, Opt!On, Opt!OptAssumption
  <2>2. CASE Opt!Nothing
    BY <2>1, <2>2, OptStays DEF Opt!Nothing
  <2>3. CASE value' = [value EXCEPT ![o] = n] /\ IF has_value[o] THEN Opt!Assigned(o) ELSE Opt!Built(o)
    <3>1. /\ value' = [value EXCEPT ![o] = n] /\ has_value' = [has_value EXCEPT ![o] = TRUE] /\ bad' = FALSE
      BY <1>2, <2>3 DEF Opt!Assigned, Opt!Built, Opt!Flag, Opt!Lives
    <3>2. OptGiven(o, n, TRUE, {})
      BY <1>2, <2>1, <3>1 DEF OptGiven
    <3> QED BY <3>2, OptStored
  <2> QED BY <1>7, <2>2, <2>3 DEF Opt!AssignValue, Opt!AssignThrows, Opt!BuildThrows
<1>8. ASSUME NEW p \in OptObjs, Opt!MakeCopy(o, p) \/ Opt!MakeMove(o, p) PROVE OptKept
  <2>1. p \in made /\ o \notin made /\ UNCHANGED <<bytes, throws>>
    BY <1>8 DEF Opt!MakeCopy, Opt!MakeMove, Opt!Make
  <2>2. CASE Opt!Nothing /\ made' = made
    BY <2>1, <2>2, OptStays DEF Opt!Nothing
  <2>3. CASE made' = made \cup {o} /\ Opt!AsBytes(o, p)
    BY <2>1, <2>3, OptBytes
  <2>4. CASE made' = made \cup {o} /\ \E move \in BOOLEAN : Opt!InitFrom(o, p, move)
    <3>1. p # o /\ ~has_value[o]
      BY <1>2, <2>1
    <3> QED BY <2>1, <2>4, <3>1, OptInitFrom
  <2> QED
    BY <1>8, <2>2, <2>3, <2>4 DEF Opt!MakeCopy, Opt!MakeMove, Opt!Make, Opt!InitThrows, Opt!BuildThrows
<1>9. ASSUME NEW p \in OptObjs, Opt!AssignCopy(o, p) \/ Opt!AssignMove(o, p) PROVE OptKept
  <2>1. p \in made /\ o \in made /\ UNCHANGED <<bytes, throws, made>> /\ made' = made \cup {o}
    BY <1>9 DEF Opt!AssignCopy, Opt!AssignMove, Opt!On
  <2>2. CASE Opt!AsBytes(o, p)
    BY <2>1, <2>2, OptBytes
  <2>3. CASE \E move \in BOOLEAN : Opt!AssignFrom(o, p, move)
    BY <2>1, <2>3, OptAssigns
  <2> QED BY <1>9, <2>2, <2>3 DEF Opt!AssignCopy, Opt!AssignMove
<1> QED BY <1>1, <1>3, <1>4, <1>5, <1>6, <1>7, <1>8, <1>9

-----------------------------------------------------------------------------
(* The specification of all the parts: a step is of the part that runs.     *)

\* The invariant of the part that runs.
PartsInv ==
    /\ part = "ring" => RingInv
    /\ part = "map" => MapInv
    /\ part = "var" => VarInv
    /\ part = "function" => FuncInv
    /\ part = "opt" => OptInv

\* What a step says of the abstract specification of the part that runs.
PartsStep ==
    /\ part = "map" => Map!M!Next \/ UNCHANGED Map!M!vars
    /\ part = "var" /\ ~bad' => Var!H!Next \/ UNCHANGED Var!H!vars
    /\ part = "function" /\ ~bad' => Func!H!Next \/ UNCHANGED Func!H!vars
    /\ part = "opt" => Opt!H!Next \/ UNCHANGED Opt!H!vars
    /\ part = "ring" => SkipPushesDefault

LEMMA PartsStart ==
    ASSUME ContainersInit
    PROVE  /\ PartsInv
           /\ part = "map" => Map!M!Init
           /\ part = "var" => Var!H!Init
           /\ part = "function" => Func!H!Init
           /\ part = "opt" => Opt!H!Init
<1>1. /\ RingAssumption /\ Map!RobinAssumption /\ Var!VarAssumption /\ Func!FunctionAssumption /\ Opt!OptAssumption
  BY MCContainersAssumption
<1>2. part = "ring" => RingInv
  BY <1>1, InitEstablishes, Zenon DEF ContainersInit
<1>3. part = "map" => MapInv /\ Map!M!Init
  BY MapStarts, MapStartsEmpty, Zenon DEF ContainersInit
<1>4. part = "var" => VarInv /\ Var!H!Init
  BY <1>1, VarStarts, Zenon DEF ContainersInit
<1>5. part = "function" => FuncInv /\ Func!H!Init
  BY <1>1, FuncStarts, Zenon DEF ContainersInit
<1>6. part = "opt" => OptInv /\ Opt!H!Init
  BY OptStarts, Zenon DEF ContainersInit
<1> QED BY <1>2, <1>3, <1>4, <1>5, <1>6, Zenon DEF PartsInv

\* A step of the part that runs.
LEMMA PartSteps ==
    ASSUME ContainersNext
    PROVE  /\ part' = part
           /\ part = "ring" => Next
           /\ part = "map" => Map!Next
           /\ part = "var" => Var!Next \/ UNCHANGED containersVars
           /\ part = "function" => Func!Next \/ UNCHANGED containersVars
           /\ part = "opt" => Opt!Next
<1>1. UNCHANGED containersVars => part' = part
  BY DEF containersVars
<1> QED
  BY <1>1, Zenon DEF ContainersNext, RingStep, MapStep, VarStep, FuncStep, OptStep, IndexesStep, LiteralStep,
     SubstitutionStep, SplittingStep, ArgsStep, Rests

LEMMA PartsKeep ==
    ASSUME PartsInv, ContainersNext
    PROVE  PartsInv' /\ PartsStep
<1>1. /\ RingAssumption /\ Map!RobinAssumption /\ Var!VarAssumption /\ Func!FunctionAssumption /\ Opt!OptAssumption
  BY MCContainersAssumption
<1>2. part' = part
  BY PartSteps
<1>3. CASE part = "ring"
  <2>1. RingInv /\ [Next]_vars
    BY <1>3, PartSteps DEF PartsInv
  <2>2. RingInv'
    BY <1>1, <2>1, StepKeeps
  <2>3. SkipPushesDefault
    BY <2>1, SkipIsPush, PushMaps DEF SkipPushesDefault, Elems
  <2> QED BY <1>2, <1>3, <2>2, <2>3 DEF PartsInv, PartsStep
<1>4. CASE part = "map"
  <2>1. MapInv /\ Map!Next
    BY <1>4, PartSteps DEF PartsInv
  <2>2. MapInv' /\ (Map!M!Next \/ UNCHANGED Map!M!vars)
    BY <2>1, MapKeeps, MapMaps, Zenon
  <2> QED BY <1>2, <1>4, <2>2 DEF PartsInv, PartsStep
<1>5. CASE part = "var"
  <2>1. VarInv /\ (Var!Next \/ UNCHANGED containersVars)
    BY <1>5, PartSteps DEF PartsInv
  <2>2. UNCHANGED containersVars => UNCHANGED <<traits, mem, idx, bpos, made, spent, bad>>
    BY DEF containersVars
  <2>3. VarKept
    BY <1>1, <2>1, <2>2, VarKeeps, VarRests, Zenon
  <2> QED BY <1>2, <1>5, <2>3, Zenon DEF PartsInv, PartsStep, VarKept
<1>6. CASE part = "function"
  <2>1. FuncInv /\ (Func!Next \/ UNCHANGED containersVars)
    BY <1>6, PartSteps DEF PartsInv
  <2>2. UNCHANGED containersVars => UNCHANGED <<traits, mem, call, mgr, made, spent, bad>>
    BY DEF containersVars
  <2>3. FuncKept
    BY <1>1, <2>1, <2>2, FuncKeeps, FuncStays, Zenon
  <2> QED BY <1>2, <1>6, <2>3, Zenon DEF PartsInv, PartsStep, FuncKept
<1>7. CASE part = "opt"
  <2>1. OptInv /\ Opt!Next
    BY <1>7, PartSteps DEF PartsInv
  <2>2. OptKept
    BY <1>1, <2>1, OptKeeps, Zenon
  <2> QED BY <1>2, <1>7, <2>2 DEF PartsInv, PartsStep, OptKept
<1>8. CASE part \notin {"ring", "map", "var", "function", "opt"}
  BY <1>2, <1>8 DEF PartsInv, PartsStep
<1> QED BY <1>3, <1>4, <1>5, <1>6, <1>7, <1>8

LEMMA PartsStay ==
    ASSUME PartsInv, UNCHANGED containersVars
    PROVE  PartsInv'
<1>1. /\ part' = part /\ UNCHANGED vars
      /\ UNCHANGED <<cells, occupied, pc, carry, at, ret, assign>>
      /\ UNCHANGED <<traits, mem, idx, bpos, made, spent, bad>>
      /\ UNCHANGED <<traits, mem, call, mgr, made, spent, bad>>
      /\ UNCHANGED <<bytes, throws, value, has_value, made, bad>>
  BY DEF containersVars, vars
<1>2. RingAssumption
  BY MCContainersAssumption
<1>3. RingInv => RingInv'
  BY <1>1, <1>2, StepKeeps
<1>4. /\ MapInv => MapInv'
      /\ VarInv => VarInv'
      /\ FuncInv => FuncInv'
      /\ OptInv => OptInv'
  BY <1>1, MapStays, VarRests, FuncStays, OptStays, Zenon DEF VarKept, FuncKept, OptKept
<1> QED BY <1>1, <1>3, <1>4 DEF PartsInv

\* The part that runs keeps its invariant.
THEOREM PartsCorrect == ContainersSpec => []PartsInv
<1>1. ContainersInit => PartsInv
  BY PartsStart
<1>2. PartsInv /\ [ContainersNext]_containersVars => PartsInv'
  BY PartsKeep, PartsStay
<1> QED BY <1>1, <1>2, PTL DEF ContainersSpec

\* Between two calls every key stored in a robin map is found, in one cell, the
\* size counts them, and the distance of every element is true while others are
\* displaced or shifted.
THEOREM MapCorrect == ContainersSpec => []EveryKeyFound
<1>1. PartsInv => EveryKeyFound
  BY MapFinds DEF PartsInv, EveryKeyFound
<1> QED BY <1>1, PartsCorrect, PTL

\* Through exceptions in every construction, of any variants, functions and
\* optional values: a variant has one value, or none after a throw in place; a
\* function that can be called has its callable, or an exception has taken it;
\* nothing is destroyed, read, called or assigned to that does not live before
\* an object lost its value in this way, was moved out by a constructor that
\* throws, or was reset.  An optional value needs no exception of this kind.
THEOREM HoldersCorrect == ContainersSpec => []DestroyedOnce
<1>1. PartsInv => DestroyedOnce
  BY FuncCallable DEF PartsInv, DestroyedOnce, VarInv, FuncInv, OptInv
<1> QED BY <1>1, PartsCorrect, PTL

\* Each container implements its abstract specification: the robin map a map
\* with the element in hand; an optional value the holder of which an exception
\* changes nothing; variant and function, until something undefined is done,
\* the holder whose target alone may lose its value to an exception; and the
\* skip of a ring is a push of the default value.
THEOREM PromisesKept == ContainersSpec => KeepPromises
<1>1. ContainersInit => /\ part = "map" => Map!M!Init
                        /\ part = "var" => Var!H!Init
                        /\ part = "function" => Func!H!Init
                        /\ part = "opt" => Opt!H!Init
  BY PartsStart
<1>2. PartsInv /\ [ContainersNext]_containersVars =>
        /\ [part = "map" => Map!M!Next \/ UNCHANGED Map!M!vars]_containersVars
        /\ [part = "var" /\ ~bad' => Var!H!Next \/ UNCHANGED Var!H!vars]_containersVars
        /\ [part = "function" /\ ~bad' => Func!H!Next \/ UNCHANGED Func!H!vars]_containersVars
        /\ [part = "opt" => Opt!H!Next \/ UNCHANGED Opt!H!vars]_containersVars
        /\ [part = "ring" => SkipPushesDefault]_containersVars
  BY PartsKeep, Zenon DEF PartsStep
<1> QED BY <1>1, <1>2, PartsCorrect, PTL DEF ContainersSpec, KeepPromises
=============================================================================
