-------------------------- MODULE ReplayBuffer_proofs --------------------------
(* Proofs about the replay buffer: what the spill to disk keeps            *)
(* (FilesAreKept), what a save that is told it is complete has             *)
(* (CompleteIsCurrent), and that the window is there, whole, and within    *)
(* the memory it may have (WindowIsWhole).                                 *)
(*                                                                         *)
(* The functions under the lock come first: each is shown to leave the     *)
(* segments in order (Fine), the newest of them the last picture there was *)
(* unless there is a gap (UpToDate), and nothing that was neither new nor  *)
(* held before (ComesFrom).  The steps of the threads around the lock then *)
(* keep SpillInv, one lemma to an action.  The window comes last: sums of  *)
(* bytes, then what each function under the lock leaves of Sized, Reaches, *)
(* Unbroken and Light, then the steps again (Whole, Given, Within).        *)
EXTENDS ReplayBuffer, TLAPS, SequenceTheorems, WellFoundedInduction

-----------------------------------------------------------------------------
(* The least and the greatest of a set of numbers.                         *)

Below == OpToRel(<, Nat)

LEMMA BelowIsWellFounded == IsWellFoundedOn(Below, Nat)
BY NatLessThanWellFounded DEF Below

LEMMA NotBelow ==
  ASSUME NEW E \in SUBSET Nat, NEW x \in E, \A y \in E : ~ (<<y, x>> \in Below)
  PROVE  \A y \in E : x <= y
<1>1. SUFFICES ASSUME NEW y \in E, y < x PROVE FALSE
  OBVIOUS
<1>2. <<y, x>> \in Below
  BY <1>1 DEF Below, OpToRel
<1>3. QED
  BY <1>2

LEMMA LeastIsThere ==
  ASSUME NEW E \in SUBSET Nat, E # {}
  PROVE  Min(E) \in E /\ \A y \in E : Min(E) <= y
<1>1. PICK x \in E : \A y \in E : ~ (<<y, x>> \in Below)
  BY BelowIsWellFounded, WFMin
<1>2. \A y \in E : x <= y
  BY <1>1, NotBelow
<1>3. QED
  BY <1>2 DEF Min

LEMMA GreatestIsThere ==
  ASSUME NEW n \in Nat, NEW E \in SUBSET (0 .. n), E # {}
  PROVE  Max(E) \in E /\ \A y \in E : y <= Max(E)
<1>. DEFINE F == {n - x : x \in E}
<1>1. F \in SUBSET Nat /\ F # {}
  <2>1. \A x \in E : x \in 0 .. n
    OBVIOUS
  <2>2. \A x \in E : n - x \in Nat
    BY <2>1
  <2>3. PICK x \in E : TRUE
    OBVIOUS
  <2>4. n - x \in F
    BY <2>3
  <2>5. QED
    BY <2>2, <2>4
<1>2. PICK x \in F : \A y \in F : ~ (<<y, x>> \in Below)
  BY <1>1, BelowIsWellFounded, WFMin
<1>3. \A y \in F : x <= y
  <2>. HIDE DEF F
  <2>. QED
    BY <1>1, <1>2, NotBelow
<1>4. PICK m \in E : x = n - m
  OBVIOUS
<1>5. \A y \in E : n - m <= n - y
  BY <1>3, <1>4
<1>6. \A y \in E : y <= m
  BY <1>5
<1>7. QED
  BY <1>6 DEF Max

LEMMA MaxOfTwo ==
  ASSUME NEW i \in Int, NEW j \in Int
  PROVE  Max({i, j}) = IF i >= j THEN i ELSE j
BY DEF Max

-----------------------------------------------------------------------------
(* What holds of the state behind the lock.                                *)

Buffer == [sealed : Seq(Segment), open : Segment \cup {NoSegment},
           ceilingGap : {None, 0, 1}, sourceGap : (Nat \ {0}) \cup {None},
           silence : Int, ids : Nat, spilling : SUBSET Nat, givenUp : BOOLEAN,
           leased : SUBSET Nat, began : Nat \cup {None}, holes : SUBSET Nat]

(* Segments are numbered and timed in the order they are held, and the one *)
(* being written is the newest and in memory.                              *)
InOrder(x, at) ==
    /\ \A i, j \in DOMAIN x.sealed : i < j =>
          x.sealed[i].id < x.sealed[j].id /\ x.sealed[i].last <= x.sealed[j].last
    /\ \A i \in DOMAIN x.sealed : x.sealed[i].id <= x.ids /\ x.sealed[i].last <= at
    /\ x.open # NoSegment =>
          /\ ~x.open.spilled /\ x.open.id <= x.ids /\ x.open.last <= at
          /\ \A i \in DOMAIN x.sealed :
                x.sealed[i].id < x.open.id /\ x.sealed[i].last <= x.open.last

Fine(x, at) == x \in Buffer /\ InOrder(x, at)

(* Unless it is in a gap, a buffer that holds anything is writing, and its *)
(* newest picture is the last one there was.                               *)
UpToDate(x, at) ==
    x.ceilingGap = None /\ x.sourceGap = None =>
        \/ x.sealed = <<>> /\ x.open = NoSegment
        \/ x.open # NoSegment /\ x.open.last = at

Holds(x) == ToSet(x.sealed) \cup ({x.open} \ {NoSegment})

(* What y holds is new and in memory, or was in x and is where it was.     *)
ComesFrom(x, y) ==
    /\ y.spilling = x.spilling /\ y.givenUp = x.givenUp /\ x.ids <= y.ids
    /\ \A s \in Holds(y) :
          \/ s.id > x.ids /\ ~s.spilled
          \/ \E t \in Holds(x) : t.id = s.id /\ t.spilled = s.spilled

-----------------------------------------------------------------------------
(* What each function under the lock leaves.                               *)

LEMMA HoldsAll ==
  ASSUME NEW x
  PROVE  \A s : s \in Holds(x) <=>
            (\E i \in DOMAIN x.sealed : s = x.sealed[i])
               \/ (x.open # NoSegment /\ s = x.open)
BY DEF Holds, ToSet

LEMMA FromSome ==
  ASSUME NEW x, NEW y, Holds(y) \subseteq Holds(x),
         y.spilling = x.spilling, y.givenUp = x.givenUp, y.ids = x.ids,
         x \in Buffer
  PROVE  ComesFrom(x, y)
BY DEF ComesFrom, Buffer

LEMMA FromTransitive ==
  ASSUME NEW x \in Buffer, NEW y \in Buffer, NEW z \in Buffer,
         ComesFrom(x, y), ComesFrom(y, z)
  PROVE  ComesFrom(x, z)
<1>1. x.ids \in Nat /\ y.ids \in Nat /\ z.ids \in Nat
  BY DEF Buffer
<1>2. ASSUME NEW s \in Holds(z)
      PROVE  \/ s.id > x.ids /\ ~s.spilled
             \/ \E t \in Holds(x) : t.id = s.id /\ t.spilled = s.spilled
  <2>0. s \in Segment
    BY HoldsAll DEF Buffer
  <2>1. CASE s.id > y.ids /\ ~s.spilled
    BY <1>1, <2>0, <2>1 DEF ComesFrom, Segment
  <2>2. CASE \E t \in Holds(y) : t.id = s.id /\ t.spilled = s.spilled
    BY <2>2 DEF ComesFrom
  <2>3. QED
    BY <2>1, <2>2 DEF ComesFrom
<1>3. QED
  BY <1>1, <1>2 DEF ComesFrom

(* y is x with some of the oldest segments dropped. *)
Trims(x, y, at) ==
    /\ Fine(y, at) /\ ComesFrom(x, y)
    /\ y.open = x.open
    /\ y.ceilingGap = x.ceilingGap /\ y.sourceGap = x.sourceGap
    /\ x.sealed = <<>> => y.sealed = <<>>

LEMMA TrimsTransitive ==
  ASSUME NEW at \in Nat, NEW x, NEW y, NEW z,
         Fine(x, at), Trims(x, y, at), Trims(y, z, at)
  PROVE  Trims(x, z, at)
BY FromTransitive DEF Trims, Fine

LEMMA TailInOrder ==
  ASSUME NEW at \in Nat, NEW x, Fine(x, at), NEW n \in 0 .. Len(x.sealed),
         NEW y \in Buffer, y.sealed = SubSeq(x.sealed, n + 1, Len(x.sealed)),
         y.open = x.open, y.ids = x.ids,
         y.spilling = x.spilling, y.givenUp = x.givenUp
  PROVE  Fine(y, at) /\ ComesFrom(x, y) /\ (x.sealed = <<>> => y.sealed = <<>>)
<1>1. x.sealed \in Seq(Segment) /\ x \in Buffer
  BY DEF Fine, Buffer
<1>2. /\ Len(y.sealed) = Len(x.sealed) - n /\ DOMAIN y.sealed = 1 .. (Len(x.sealed) - n)
      /\ \A i \in DOMAIN y.sealed : i + n \in DOMAIN x.sealed
                                      /\ y.sealed[i] = x.sealed[i + n]
  BY <1>1
<1>3. InOrder(y, at)
  <2>1. ASSUME NEW i \in DOMAIN y.sealed, NEW j \in DOMAIN y.sealed, i < j
        PROVE  /\ y.sealed[i].id < y.sealed[j].id
               /\ y.sealed[i].last <= y.sealed[j].last
    <3>1. i + n < j + n
      BY <1>2, <2>1
    <3>2. QED
      BY <1>2, <3>1 DEF Fine, InOrder
  <2>2. \A i \in DOMAIN y.sealed : y.sealed[i].id <= y.ids /\ y.sealed[i].last <= at
    BY <1>2 DEF Fine, InOrder
  <2>3. y.open # NoSegment =>
          /\ ~y.open.spilled /\ y.open.id <= y.ids /\ y.open.last <= at
          /\ \A i \in DOMAIN y.sealed :
                y.sealed[i].id < y.open.id /\ y.sealed[i].last <= y.open.last
    BY <1>2 DEF Fine, InOrder
  <2>4. QED
    BY <2>1, <2>2, <2>3 DEF InOrder
<1>4. Holds(y) \subseteq Holds(x)
  <2>1. \A s \in Holds(y) : \/ \E i \in DOMAIN y.sealed : s = y.sealed[i]
                            \/ x.open # NoSegment /\ s = x.open
    BY HoldsAll
  <2>2. \A i \in DOMAIN y.sealed : \E j \in DOMAIN x.sealed : y.sealed[i] = x.sealed[j]
    BY <1>2
  <2>3. \A s \in Holds(y) : \/ \E j \in DOMAIN x.sealed : s = x.sealed[j]
                            \/ x.open # NoSegment /\ s = x.open
    BY <2>1, <2>2
  <2>. HIDE DEF Holds
  <2>4. QED
    BY <2>3, HoldsAll
<1>5. ComesFrom(x, y)
  BY <1>1, <1>4, FromSome
<1>6. x.sealed = <<>> => y.sealed = <<>>
  BY <1>1, <1>2
<1>7. QED
  BY <1>3, <1>5, <1>6 DEF Fine

LEMMA HeldStart ==
  ASSUME NEW y \in Buffer, Segments(y) # <<>>
  PROVE  Held(y).start \in Nat
<1>1. Segments(y) \in Seq(Segment)
  BY DEF Segments, Buffer
<1>2. Segments(y)[1] \in Segment
  BY <1>1
<1>3. QED
  BY <1>2 DEF Held, Segment

LEMMA DropTrims ==
  ASSUME NEW at \in Nat, NEW x, Fine(x, at), NEW n \in 0 .. Len(x.sealed),
         NEW shortens \in BOOLEAN
  PROVE  Trims(x, Drop(x, n, shortens), at)
<1>. DEFINE gone == {s.id : s \in {s \in ToSet(SubSeq(x.sealed, 1, n)) : ~s.spilled}}
            rest == SubSeq(x.sealed, n + 1, Len(x.sealed))
            y == [x EXCEPT !.sealed = rest, !.leased = @ \cup (gone \cap Shared)]
            z == [y EXCEPT !.began = IF Segments(y) = <<>> THEN None ELSE Held(y).start]
<1>1. x \in Buffer /\ x.sealed \in Seq(Segment)
  BY DEF Fine, Buffer
<1>2. gone \subseteq Nat
  <2>1. SubSeq(x.sealed, 1, n) \in Seq(Segment)
    BY <1>1
  <2>2. ToSet(SubSeq(x.sealed, 1, n)) \subseteq Segment
    BY <2>1 DEF ToSet
  <2>3. QED
    BY <2>2 DEF Segment
<1>3. rest \in Seq(Segment)
  BY <1>1
<1>. HIDE DEF gone, rest
<1>4. y \in Buffer /\ y.sealed = rest /\ y.open = x.open /\ y.ids = x.ids
      /\ y.spilling = x.spilling /\ y.givenUp = x.givenUp
      /\ y.ceilingGap = x.ceilingGap /\ y.sourceGap = x.sourceGap
  BY <1>1, <1>2, <1>3 DEF Buffer
<1>. HIDE DEF y
<1>5. (IF Segments(y) = <<>> THEN None ELSE Held(y).start) \in Nat \cup {None}
  BY <1>4, HeldStart
<1>6. z \in Buffer /\ z.sealed = rest /\ z.open = x.open /\ z.ids = x.ids
      /\ z.spilling = x.spilling /\ z.givenUp = x.givenUp
      /\ z.ceilingGap = x.ceilingGap /\ z.sourceGap = x.sourceGap
  BY <1>4, <1>5 DEF Buffer
<1>7. Trims(x, y, at)
  BY <1>4, TailInOrder DEF Trims, rest
<1>8. Trims(x, z, at)
  <2>. HIDE DEF z
  <2>. QED
    BY <1>6, TailInOrder DEF Trims, rest
<1>9. Drop(x, n, shortens) = IF n = 0 \/ ~shortens THEN y ELSE z
  BY DEF Drop, y, z, rest, gone
<1>10. QED
  BY <1>7, <1>8, <1>9

LEMMA WindowTrims ==
  ASSUME NEW at \in Nat, NEW x, Fine(x, at)
  PROVE  Trims(x, DropWhile(x, PastWindow, FALSE), at)
<1>. DEFINE enough == {n \in 0 .. Len(x.sealed) : n = Len(x.sealed)
                                                   \/ ~PastWindow(Drop(x, n, FALSE))}
<1>1. Len(x.sealed) \in Nat
  BY DEF Fine, Buffer
<1>2. Min(enough) \in 0 .. Len(x.sealed)
  <2>0. Len(x.sealed) \in 0 .. Len(x.sealed)
    BY <1>1
  <2>1. enough \in SUBSET Nat /\ Len(x.sealed) \in enough
    <3>1. \A n \in enough : n \in 0 .. Len(x.sealed)
      OBVIOUS
    <3>2. Len(x.sealed) \in enough
      BY <2>0, Zenon
    <3>. HIDE DEF enough
    <3>3. QED
      BY <1>1, <3>1, <3>2
  <2>. HIDE DEF enough
  <2>2. Min(enough) \in enough
    BY <2>1, LeastIsThere
  <2>3. QED
    BY <2>2 DEF enough
<1>3. DropWhile(x, PastWindow, FALSE) = Drop(x, Min(enough), FALSE)
  BY DEF DropWhile
<1>. HIDE DEF enough
<1>4. QED
  BY <1>2, <1>3, DropTrims

LEMMA CeilingTrims ==
  ASSUME NEW at \in Nat, NEW x, Fine(x, at)
  PROVE  Trims(x, DropWhile(x, OverCeiling, TRUE), at)
<1>. DEFINE enough == {n \in 0 .. Len(x.sealed) : n = Len(x.sealed)
                                                   \/ ~OverCeiling(Drop(x, n, TRUE))}
<1>1. Len(x.sealed) \in Nat
  BY DEF Fine, Buffer
<1>2. Min(enough) \in 0 .. Len(x.sealed)
  <2>0. Len(x.sealed) \in 0 .. Len(x.sealed)
    BY <1>1
  <2>1. enough \in SUBSET Nat /\ Len(x.sealed) \in enough
    <3>1. \A n \in enough : n \in 0 .. Len(x.sealed)
      OBVIOUS
    <3>2. Len(x.sealed) \in enough
      BY <2>0, Zenon
    <3>. HIDE DEF enough
    <3>3. QED
      BY <1>1, <3>1, <3>2
  <2>. HIDE DEF enough
  <2>2. Min(enough) \in enough
    BY <2>1, LeastIsThere
  <2>3. QED
    BY <2>2 DEF enough
<1>3. DropWhile(x, OverCeiling, TRUE) = Drop(x, Min(enough), TRUE)
  BY DEF DropWhile
<1>. HIDE DEF enough
<1>4. QED
  BY <1>2, <1>3, DropTrims

LEMMA ReleaseTrims ==
  ASSUME NEW at \in Nat, NEW x, Fine(x, at)
  PROVE  Trims(x, Release(x), at)
<1>1. x \in Buffer
  BY DEF Fine
<1>2. /\ Release(x) \in Buffer
      /\ Release(x).sealed = x.sealed /\ Release(x).open = x.open
      /\ Release(x).ids = x.ids /\ Release(x).spilling = x.spilling
      /\ Release(x).givenUp = x.givenUp /\ Release(x).ceilingGap = x.ceilingGap
      /\ Release(x).sourceGap = x.sourceGap
  BY <1>1 DEF Release, Buffer
<1>. DEFINE y == Release(x)
<1>. HIDE DEF y
<1>3. Holds(y) = Holds(x)
  BY <1>2 DEF Holds, y
<1>4. InOrder(y, at)
  BY <1>2 DEF InOrder, Fine, y
<1>5. ComesFrom(x, y)
  BY <1>1, <1>2, <1>3, FromSome DEF y
<1>6. QED
  BY <1>2, <1>4, <1>5 DEF Trims, Fine, y

LEMMA EvictTrims ==
  ASSUME NEW at \in Nat, NEW x, Fine(x, at)
  PROVE  Trims(x, Evict(x), at)
<1>. DEFINE y == Release(x)
            z == DropWhile(y, PastWindow, FALSE)
            w == DropWhile(z, OverCeiling, TRUE)
<1>1. Trims(x, y, at)
  BY ReleaseTrims
<1>2. Trims(y, z, at)
  BY <1>1, WindowTrims DEF Trims
<1>3. Trims(z, w, at)
  BY <1>2, CeilingTrims DEF Trims
<1>4. Trims(x, w, at)
  <2>. HIDE DEF y, z, w
  <2>1. Trims(x, z, at)
    BY <1>1, <1>2, TrimsTransitive
  <2>2. QED
    BY <2>1, <1>3, TrimsTransitive
<1>5. QED
  BY <1>4 DEF Evict

(* y is x with what it was writing sealed, in the same order. *)
LEMMA SealKeeps ==
  ASSUME NEW at \in Nat, NEW x, Fine(x, at)
  PROVE  /\ Fine(Seal(x), at) /\ ComesFrom(x, Seal(x))
         /\ Seal(x).open = NoSegment
         /\ Seal(x).ceilingGap = x.ceilingGap /\ Seal(x).sourceGap = x.sourceGap
<1>1. x \in Buffer /\ x.sealed \in Seq(Segment)
  BY DEF Fine, Buffer
<1>2. CASE x.open = NoSegment
  BY <1>1, <1>2, FromSome DEF Seal
<1>3. CASE x.open # NoSegment
  <2>. DEFINE y == [x EXCEPT !.sealed = Append(@, x.open), !.open = NoSegment]
  <2>1. x.open \in Segment /\ Append(x.sealed, x.open) \in Seq(Segment)
    BY <1>1, <1>3 DEF Buffer
  <2>2. /\ y \in Buffer /\ y.sealed = Append(x.sealed, x.open) /\ y.open = NoSegment
        /\ y.ids = x.ids /\ y.spilling = x.spilling /\ y.givenUp = x.givenUp
        /\ y.ceilingGap = x.ceilingGap /\ y.sourceGap = x.sourceGap
    BY <1>1, <2>1 DEF Buffer
  <2>3. Seal(x) = y
    BY <1>3 DEF Seal
  <2>. HIDE DEF y
  <2>4. /\ DOMAIN y.sealed = DOMAIN x.sealed \cup {Len(x.sealed) + 1}
        /\ \A i \in DOMAIN x.sealed : y.sealed[i] = x.sealed[i] /\ i < Len(x.sealed) + 1
        /\ y.sealed[Len(x.sealed) + 1] = x.open
        /\ Len(x.sealed) + 1 \notin DOMAIN x.sealed
    BY <1>1, <2>1, <2>2
  <2>5. InOrder(y, at)
    <3>1. ASSUME NEW i \in DOMAIN y.sealed, NEW j \in DOMAIN y.sealed, i < j
          PROVE  /\ y.sealed[i].id < y.sealed[j].id
                 /\ y.sealed[i].last <= y.sealed[j].last
      <4>1. i \in DOMAIN x.sealed
        BY <1>1, <2>4, <3>1
      <4>2. CASE j \in DOMAIN x.sealed
        BY <2>4, <3>1, <4>1, <4>2 DEF Fine, InOrder
      <4>3. CASE j = Len(x.sealed) + 1
        BY <1>3, <2>4, <4>1, <4>3 DEF Fine, InOrder
      <4>4. QED
        BY <2>4, <4>2, <4>3
    <3>2. ASSUME NEW i \in DOMAIN y.sealed
          PROVE  y.sealed[i].id <= y.ids /\ y.sealed[i].last <= at
      BY <1>3, <2>2, <2>4 DEF Fine, InOrder
    <3>3. QED
      BY <2>2, <3>1, <3>2 DEF InOrder
  <2>6. Holds(y) \subseteq Holds(x)
    <3>1. \A s \in Holds(y) : \E i \in DOMAIN y.sealed : s = y.sealed[i]
      BY <2>2, HoldsAll
    <3>2. \A s \in Holds(y) : \/ \E i \in DOMAIN x.sealed : s = x.sealed[i]
                              \/ x.open # NoSegment /\ s = x.open
      BY <1>3, <2>4, <3>1
    <3>3. QED
      BY <3>2, HoldsAll
  <2>7. ComesFrom(x, y)
    BY <1>1, <2>2, <2>6, FromSome
  <2>8. QED
    BY <2>2, <2>3, <2>5, <2>7 DEF Fine
<1>4. QED
  BY <1>2, <1>3

(* A change to fields that nothing here is about. *)
LEMMA AsideKeeps ==
  ASSUME NEW at \in Nat, NEW x, Fine(x, at), NEW y \in Buffer,
         y.sealed = x.sealed, y.open = x.open, y.ids = x.ids,
         y.spilling = x.spilling, y.givenUp = x.givenUp
  PROVE  Fine(y, at) /\ ComesFrom(x, y)
<1>1. Holds(y) = Holds(x)
  BY DEF Holds
<1>2. ComesFrom(x, y)
  BY <1>1, FromSome DEF Fine
<1>3. QED
  BY <1>2 DEF Fine, InOrder

LEMMA RoomTrims ==
  ASSUME NEW at \in Nat, NEW x, Fine(x, at), NEW cost, x.open # NoSegment
  PROVE  LET y == MakeRoom(x, cost) IN
         \/ Trims(x, y, at)
         \/ /\ Fine(y, at) /\ ComesFrom(x, y)
            /\ y.open = NoSegment /\ y.ceilingGap = 0 /\ y.sourceGap = x.sourceGap
<1>. DEFINE Full(y) == SealedBytes(y) + cost > MemoryCeiling
            Evictable(y) == Full(y) /\ Len(y.sealed) >= 2
            enough == {n \in 0 .. Len(x.sealed) : n = Len(x.sealed)
                                                   \/ ~Evictable(Drop(x, n, TRUE))}
            room == Drop(x, Min(enough), TRUE)
            shut == [Seal(room) EXCEPT !.ceilingGap = 0]
<1>1. Len(x.sealed) \in Nat
  BY DEF Fine, Buffer
<1>2. Min(enough) \in 0 .. Len(x.sealed)
  <2>0. Len(x.sealed) \in 0 .. Len(x.sealed)
    BY <1>1
  <2>1. enough \in SUBSET Nat /\ Len(x.sealed) \in enough
    <3>. HIDE DEF Evictable
    <3>1. \A n \in enough : n \in 0 .. Len(x.sealed)
      OBVIOUS
    <3>2. Len(x.sealed) \in enough
      BY <2>0, Zenon
    <3>. HIDE DEF enough
    <3>3. QED
      BY <1>1, <3>1, <3>2
  <2>. HIDE DEF enough
  <2>2. Min(enough) \in enough
    BY <2>1, LeastIsThere
  <2>3. QED
    BY <2>2 DEF enough
<1>3. MakeRoom(x, cost) = IF Full(room) THEN shut ELSE room
  BY DEF MakeRoom, DropWhile
<1>. HIDE DEF enough, Full
<1>4. Trims(x, room, at)
  BY <1>2, DropTrims
<1>. HIDE DEF room
<1>5. /\ Fine(Seal(room), at) /\ ComesFrom(room, Seal(room))
      /\ Seal(room).open = NoSegment /\ Seal(room).sourceGap = room.sourceGap
  BY <1>4, SealKeeps DEF Trims
<1>6. /\ shut \in Buffer /\ shut.sealed = Seal(room).sealed /\ shut.open = NoSegment
      /\ shut.ids = Seal(room).ids /\ shut.spilling = Seal(room).spilling
      /\ shut.givenUp = Seal(room).givenUp /\ shut.ceilingGap = 0
      /\ shut.sourceGap = room.sourceGap
  BY <1>5 DEF Fine, Buffer
<1>. HIDE DEF shut
<1>7. Fine(shut, at) /\ ComesFrom(Seal(room), shut)
  BY <1>5, <1>6, AsideKeeps
<1>8. ComesFrom(room, shut)
  BY <1>4, <1>5, <1>7, FromTransitive DEF Trims, Fine
<1>9. ComesFrom(x, shut)
  BY <1>4, <1>7, <1>8, FromTransitive DEF Trims, Fine
<1>10. shut.sourceGap = x.sourceGap
  BY <1>4, <1>6 DEF Trims
<1>11. QED
  BY <1>3, <1>4, <1>6, <1>7, <1>9, <1>10

LEMMA FineLater ==
  ASSUME NEW at \in Nat, NEW later \in Nat, at <= later, NEW x, Fine(x, at)
  PROVE  Fine(x, later)
<1>1. x \in Buffer /\ InOrder(x, at)
  BY DEF Fine
<1>2. /\ \A i \in DOMAIN x.sealed : x.sealed[i].last \in Nat
      /\ x.open # NoSegment => x.open.last \in Nat
  <2>1. /\ \A i \in DOMAIN x.sealed : x.sealed[i] \in Segment
        /\ x.open # NoSegment => x.open \in Segment
    BY <1>1 DEF Buffer
  <2>2. QED
    BY <2>1 DEF Segment
<1>3. /\ \A i \in DOMAIN x.sealed : x.sealed[i].last <= later
      /\ x.open # NoSegment => x.open.last <= later
  BY <1>1, <1>2 DEF InOrder
<1>4. QED
  BY <1>1, <1>3 DEF Fine, InOrder

LEMMA NewestSegment ==
  ASSUME NEW x \in Buffer, Segments(x) # <<>>
  PROVE  /\ Segments(x) \in Seq(Segment)
         /\ LatestPresentation(x) \in Nat
         /\ LatestPresentation(x) = IF x.open = NoSegment
                                    THEN x.sealed[Len(x.sealed)].last ELSE x.open.last
<1>1. Segments(x) \in Seq(Segment) /\ Len(Segments(x)) \in DOMAIN Segments(x)
  BY DEF Segments, Buffer
<1>2. LatestPresentation(x) = Segments(x)[Len(Segments(x))].last
  BY DEF LatestPresentation, Last
<1>3. Segments(x)[Len(Segments(x))] =
        IF x.open = NoSegment THEN x.sealed[Len(x.sealed)] ELSE x.open
  BY <1>1 DEF Segments, Buffer
<1>4. QED
  <2>1. Segments(x)[Len(Segments(x))] \in Segment
    BY <1>1
  <2>2. Segments(x)[Len(Segments(x))].last \in Nat
    BY <2>1 DEF Segment
  <2>3. QED
    BY <1>1, <1>2, <1>3, <2>2

LEMMA SourceGapKeeps ==
  ASSUME NEW at \in Nat, NEW x, Fine(x, at)
  PROVE  LET y == SealAtSourceGap(x, at) IN
         /\ Fine(y, at) /\ ComesFrom(x, y)
         /\ y = x \/ (y.open = NoSegment /\ y.sourceGap # None)
<1>1. CASE GapBefore(x, at)
  <2>. DEFINE silent == at - LatestPresentation(x)
              y == [Seal(x) EXCEPT !.sourceGap = silent]
  <2>1. x \in Buffer /\ Segments(x) # <<>>
    BY <1>1 DEF Fine, GapBefore, LatestPresentation
  <2>2. silent \in Nat \ {0}
    <3>1. LatestPresentation(x) \in Nat
      BY <2>1, NewestSegment
    <3>2. silent > SegmentDuration /\ SegmentDuration \in Nat
      BY <1>1, <3>1, ReplayConfigOK DEF GapBefore
    <3>3. QED
      BY <3>1, <3>2
  <2>. HIDE DEF silent
  <2>3. Fine(Seal(x), at) /\ ComesFrom(x, Seal(x)) /\ Seal(x).open = NoSegment
    BY SealKeeps
  <2>4. /\ y \in Buffer /\ y.sealed = Seal(x).sealed /\ y.open = NoSegment
        /\ y.ids = Seal(x).ids /\ y.spilling = Seal(x).spilling
        /\ y.givenUp = Seal(x).givenUp /\ y.sourceGap = silent
    BY <2>2, <2>3 DEF Fine, Buffer
  <2>5. SealAtSourceGap(x, at) = y
    BY <1>1 DEF SealAtSourceGap, silent
  <2>. HIDE DEF y
  <2>6. Fine(y, at) /\ ComesFrom(Seal(x), y)
    BY <2>3, <2>4, AsideKeeps
  <2>7. ComesFrom(x, y)
    BY <2>1, <2>3, <2>6, FromTransitive DEF Fine
  <2>8. QED
    BY <2>2, <2>4, <2>5, <2>6, <2>7, ReplayConfigOK
<1>2. CASE ~GapBefore(x, at)
  <2>1. SealAtSourceGap(x, at) = x
    BY <1>2 DEF SealAtSourceGap
  <2>2. ComesFrom(x, x)
    BY FromSome DEF Fine
  <2>3. QED
    BY <2>1, <2>2
<1>3. QED
  BY <1>1, <1>2

LEMMA DiscardKeeps ==
  ASSUME NEW at \in Nat, NEW x, Fine(x, at)
  PROVE  LET y == DiscardAwaitingKeyframe(x) IN
         /\ Fine(y, at) /\ ComesFrom(x, y)
         /\ y.sealed = x.sealed /\ y.open = x.open /\ y.sourceGap = x.sourceGap
         /\ y.ceilingGap = None <=> x.ceilingGap = None
<1>. DEFINE holes == IF x.sealed = <<>> THEN x.holes
                     ELSE x.holes \cup {Last(x.sealed).id}
            y == DiscardAwaitingKeyframe(x)
<1>1. x \in Buffer
  BY DEF Fine
<1>2. holes \subseteq Nat
  <2>1. CASE x.sealed # <<>>
    <3>1. x.sealed[Len(x.sealed)] \in Segment
      BY <1>1, <2>1 DEF Buffer
    <3>2. QED
      BY <1>1, <2>1, <3>1 DEF Buffer, Last, Segment
  <2>2. QED
    BY <1>1, <2>1 DEF Buffer
<1>. HIDE DEF holes
<1>3. y = [x EXCEPT !.ceilingGap = IF x.ceilingGap = None THEN None ELSE 1,
                    !.holes = holes]
  BY DEF DiscardAwaitingKeyframe, holes
<1>. HIDE DEF y
<1>4. /\ y \in Buffer /\ y.sealed = x.sealed /\ y.open = x.open /\ y.ids = x.ids
      /\ y.spilling = x.spilling /\ y.givenUp = x.givenUp
      /\ y.sourceGap = x.sourceGap
      /\ y.ceilingGap = IF x.ceilingGap = None THEN None ELSE 1
  BY <1>1, <1>2, <1>3 DEF Buffer
<1>5. Fine(y, at) /\ ComesFrom(x, y)
  BY <1>4, AsideKeeps
<1>6. QED
  BY <1>4, <1>5, ReplayConfigOK DEF y

LEMMA ResumeKeeps ==
  ASSUME NEW at \in Nat, NEW x, Fine(x, at)
  PROVE  LET y == ResumeAfterAnyGap(x) IN
         Fine(y, at) /\ ComesFrom(x, y) /\ y.open = x.open
<1>. DEFINE z == [x EXCEPT !.ceilingGap = None, !.sourceGap = None]
<1>1. /\ z \in Buffer /\ z.sealed = x.sealed /\ z.open = x.open /\ z.ids = x.ids
      /\ z.spilling = x.spilling /\ z.givenUp = x.givenUp
  BY DEF Fine, Buffer
<1>2. ResumeAfterAnyGap(x) = IF AnyGap(x) THEN Drop(z, Len(z.sealed), TRUE) ELSE z
  BY DEF ResumeAfterAnyGap
<1>. HIDE DEF z
<1>3. Fine(z, at) /\ ComesFrom(x, z)
  BY <1>1, AsideKeeps
<1>4. Trims(z, Drop(z, Len(z.sealed), TRUE), at)
  <2>1. Len(z.sealed) \in 0 .. Len(z.sealed)
    BY <1>1 DEF Buffer
  <2>2. QED
    BY <1>3, <2>1, DropTrims
<1>5. QED
  BY <1>1, <1>2, <1>3, <1>4, FromTransitive DEF Trims, Fine

LEMMA OpenKeeps ==
  ASSUME NEW at \in Nat, NEW x, Fine(x, at), x.open = NoSegment
  PROVE  LET y == OpenSegment(x, at) IN
         Fine(y, at) /\ ComesFrom(x, y) /\ y.open # NoSegment
<1>. DEFINE z == ResumeAfterAnyGap(x)
            new == Seg(z.ids + 1, at)
            y == OpenSegment(x, at)
<1>1. Fine(z, at) /\ ComesFrom(x, z) /\ z.open = NoSegment
  BY ResumeKeeps
<1>2. z \in Buffer
  BY <1>1 DEF Fine
<1>3. y = [z EXCEPT !.open = new, !.ids = z.ids + 1,
                    !.began = IF z.began = None THEN at ELSE z.began]
  BY DEF OpenSegment
<1>. HIDE DEF z, y
<1>4. /\ new \in Segment /\ new.id = z.ids + 1 /\ new.last = at /\ ~new.spilled
      /\ z.ids \in Nat
  BY <1>2 DEF Seg, Segment, Buffer
<1>. HIDE DEF new
<1>5. /\ y \in Buffer /\ y.sealed = z.sealed /\ y.open = new /\ y.ids = z.ids + 1
      /\ y.spilling = z.spilling /\ y.givenUp = z.givenUp
  <2>. DEFINE began == IF z.began = None THEN at ELSE z.began
  <2>1. began \in Nat \cup {None} /\ z.ids + 1 \in Nat
    BY <1>2, <1>4 DEF Buffer
  <2>. HIDE DEF began
  <2>2. y = [z EXCEPT !.open = new, !.ids = z.ids + 1, !.began = began]
    BY <1>3 DEF began
  <2>3. QED
    BY <1>2, <1>4, <2>1, <2>2 DEF Buffer
<1>6. \A i \in DOMAIN z.sealed : z.sealed[i] \in Segment
  BY <1>2 DEF Buffer
<1>7. InOrder(y, at)
  <2>1. \A i \in DOMAIN z.sealed : /\ z.sealed[i].id < z.ids + 1
                                   /\ z.sealed[i].id <= z.ids + 1
                                   /\ z.sealed[i].last <= at
    BY <1>1, <1>4, <1>6 DEF Fine, InOrder, Segment
  <2>2. QED
    BY <1>1, <1>4, <1>5, <2>1 DEF Fine, InOrder
<1>8. ComesFrom(z, y)
  <2>1. \A s \in Holds(y) : s = new \/ s \in Holds(z)
    BY <1>5, HoldsAll
  <2>2. QED
    BY <1>4, <1>5, <2>1 DEF ComesFrom
<1>9. ComesFrom(x, y)
  BY <1>1, <1>2, <1>5, <1>8, FromTransitive DEF Fine
<1>10. y.open # NoSegment
  BY <1>4, <1>5, ReplayConfigOK
<1>11. QED
  BY <1>5, <1>7, <1>9, <1>10 DEF Fine, y

(* What is being written takes another picture or block of audio. *)
LEMMA GrownKeeps ==
  ASSUME NEW at \in Nat, NEW x, Fine(x, at), x.open # NoSegment,
         NEW new \in Segment, new.id = x.open.id, ~new.spilled,
         new.last <= at, x.open.last <= new.last,
         NEW y \in Buffer, y = [x EXCEPT !.open = new]
  PROVE  Fine(y, at) /\ ComesFrom(x, y) /\ y.open = new
<1>1. /\ x \in Buffer /\ y.sealed = x.sealed /\ y.open = new /\ y.ids = x.ids
      /\ y.spilling = x.spilling /\ y.givenUp = x.givenUp
      /\ x.open \in Segment /\ ~x.open.spilled /\ x.ids \in Nat
  BY DEF Fine, Buffer, InOrder
<1>2. \A i \in DOMAIN x.sealed : x.sealed[i] \in Segment
  BY <1>1 DEF Buffer
<1>3. InOrder(y, at)
  <2>1. \A i \in DOMAIN x.sealed : /\ x.sealed[i].id < new.id
                                   /\ x.sealed[i].last <= new.last
    BY <1>1, <1>2 DEF Fine, InOrder, Segment
  <2>2. QED
    BY <1>1, <2>1 DEF Fine, InOrder
<1>4. ComesFrom(x, y)
  <2>1. x.open \in Holds(x)
    BY HoldsAll
  <2>2. \A s \in Holds(y) : s = new \/ s \in Holds(x)
    <3>0. \A s \in Holds(y) : \/ \E i \in DOMAIN y.sealed : s = y.sealed[i]
                              \/ s = y.open
      BY HoldsAll
    <3>1. \A s \in Holds(y) : s = new \/ \E i \in DOMAIN x.sealed : s = x.sealed[i]
      BY <1>1, <3>0
    <3>2. QED
      BY <3>1, HoldsAll
  <2>3. new.spilled = x.open.spilled
    BY <1>1 DEF Segment
  <2>4. QED
    BY <1>1, <2>1, <2>2, <2>3 DEF ComesFrom
<1>5. QED
  BY <1>1, <1>3, <1>4 DEF Fine

LEMMA PictureKeeps ==
  ASSUME NEW at \in Nat, NEW x, Fine(x, at), x.open # NoSegment
  PROVE  LET y == AppendPicture(x, at) IN
         Fine(y, at) /\ ComesFrom(x, y) /\ y.open # NoSegment /\ y.open.last = at
<1>. DEFINE new == [x.open EXCEPT !.video = x.open.video + 1, !.last = at]
            y == AppendPicture(x, at)
<1>1. x \in Buffer /\ x.open \in Segment /\ ~x.open.spilled /\ x.open.last <= at
  BY DEF Fine, Buffer, InOrder
<1>2. new \in Segment /\ new.id = x.open.id /\ ~new.spilled /\ new.last = at
  <2>1. x.open.video + 1 \in Nat
    BY <1>1 DEF Segment
  <2>2. QED
    BY <1>1, <2>1 DEF Segment
<1>3. y = [x EXCEPT !.open = new]
  BY <1>1 DEF AppendPicture, Buffer, Segment
<1>. HIDE DEF new, y
<1>4. y \in Buffer
  BY <1>1, <1>2, <1>3 DEF Buffer
<1>5. at <= at
  OBVIOUS
<1>6. Fine(y, at) /\ ComesFrom(x, y) /\ y.open = new
  BY <1>1, <1>2, <1>3, <1>4, <1>5, GrownKeeps
<1>7. QED
  BY <1>2, <1>6, ReplayConfigOK DEF y

LEMMA BlockKeeps ==
  ASSUME NEW at \in Nat, NEW x, Fine(x, at), x.open # NoSegment
  PROVE  LET y == [x EXCEPT !.open.audio = @ + 1] IN
         /\ Fine(y, at) /\ ComesFrom(x, y)
         /\ y.open # NoSegment /\ y.open.last = x.open.last
         /\ y.sourceGap = x.sourceGap /\ y.ceilingGap = x.ceilingGap
<1>. DEFINE new == [x.open EXCEPT !.audio = x.open.audio + 1]
            y == [x EXCEPT !.open.audio = @ + 1]
<1>1. x \in Buffer /\ x.open \in Segment /\ ~x.open.spilled /\ x.open.last <= at
  BY DEF Fine, Buffer, InOrder
<1>2. /\ new \in Segment /\ new.id = x.open.id /\ ~new.spilled
      /\ new.last = x.open.last /\ x.open.last <= x.open.last
  BY <1>1 DEF Segment
<1>3. y = [x EXCEPT !.open = new]
  BY <1>1 DEF Buffer, Segment
<1>. HIDE DEF new, y
<1>4. y \in Buffer /\ y.sourceGap = x.sourceGap /\ y.ceilingGap = x.ceilingGap
  BY <1>1, <1>2, <1>3 DEF Buffer
<1>5. Fine(y, at) /\ ComesFrom(x, y) /\ y.open = new
  BY <1>1, <1>2, <1>3, <1>4, GrownKeeps
<1>6. QED
  BY <1>2, <1>4, <1>5, ReplayConfigOK DEF y

LEMMA FullKeeps ==
  ASSUME NEW at \in Nat, NEW x, Fine(x, at), NEW key \in BOOLEAN
  PROVE  LET y == SealIfFull(x, key, at) IN
         Fine(y, at) /\ ComesFrom(x, y) /\ (key \/ y = x)
<1>1. ComesFrom(x, x)
  BY FromSome DEF Fine
<1>2. QED
  BY <1>1, SealKeeps DEF SealIfFull

(* A picture: what is held stays in order and up to date, whatever it had  *)
(* to throw away.                                                          *)
LEMMA PushKeeps ==
  ASSUME NEW at \in Nat, NEW before \in Nat, before <= at,
         NEW x, Fine(x, before), UpToDate(x, before), NEW key \in BOOLEAN
  PROVE  LET y == Push(x, key, at) IN
         Fine(y, at) /\ ComesFrom(x, y) /\ UpToDate(y, at)
<1>. DEFINE x0 == [x EXCEPT !.silence = 0]
            y == SealAtSourceGap(x0, at)
            Awaiting(z) == z.open = NoSegment /\ ~key
            sealed == SealIfFull(y, key, at)
            z == IF sealed.open = NoSegment THEN sealed
                 ELSE MakeRoom(sealed, CostOfPicture(sealed))
            w == IF z.open = NoSegment THEN OpenSegment(z, at) ELSE z
            v == AppendPicture(w, at)
<1>0. Push(x, key, at) = IF Awaiting(y) THEN DiscardAwaitingKeyframe(y)
                         ELSE IF Awaiting(z) THEN DiscardAwaitingKeyframe(z)
                         ELSE Evict(v)
  BY DEF Push
<1>1. /\ Fine(x0, at) /\ ComesFrom(x, x0)
      /\ x0.open = x.open /\ x0.sealed = x.sealed
      /\ x0.ceilingGap = x.ceilingGap /\ x0.sourceGap = x.sourceGap
  <2>1. Fine(x, at)
    BY FineLater
  <2>2. /\ x0 \in Buffer /\ x0.open = x.open /\ x0.sealed = x.sealed
        /\ x0.ids = x.ids /\ x0.spilling = x.spilling /\ x0.givenUp = x.givenUp
        /\ x0.ceilingGap = x.ceilingGap /\ x0.sourceGap = x.sourceGap
    BY DEF Fine, Buffer
  <2>. HIDE DEF x0
  <2>3. QED
    BY <2>1, <2>2, AsideKeeps
<1>. HIDE DEF x0
<1>2. /\ Fine(y, at) /\ ComesFrom(x0, y)
      /\ y = x0 \/ (y.open = NoSegment /\ y.sourceGap # None)
  BY <1>1, SourceGapKeeps
<1>3. ComesFrom(x, y)
  BY <1>1, <1>2, FromTransitive DEF Fine
<1>. HIDE DEF y
<1>4. Fine(sealed, at) /\ ComesFrom(y, sealed) /\ (key \/ sealed = y)
  BY <1>2, FullKeeps
<1>5. ComesFrom(x, sealed)
  BY <1>2, <1>3, <1>4, FromTransitive DEF Fine
<1>. HIDE DEF sealed
<1>6. /\ Fine(z, at) /\ ComesFrom(sealed, z)
      /\ z.open = NoSegment => sealed.open = NoSegment \/ z.ceilingGap = 0
  <2>1. CASE sealed.open = NoSegment
    <3>1. ComesFrom(sealed, sealed)
      BY <1>4, FromSome DEF Fine
    <3>2. QED
      BY <1>4, <2>1, <3>1
  <2>2. CASE sealed.open # NoSegment
    BY <1>4, <2>2, RoomTrims DEF Trims
  <2>3. QED
    BY <2>1, <2>2
<1>7. ComesFrom(x, z)
  BY <1>4, <1>5, <1>6, FromTransitive DEF Fine
<1>. HIDE DEF z
<1>8. CASE Awaiting(y)
  <2>. DEFINE d == DiscardAwaitingKeyframe(y)
  <2>1. /\ Fine(d, at) /\ ComesFrom(y, d)
        /\ d.sealed = y.sealed /\ d.open = y.open /\ d.sourceGap = y.sourceGap
        /\ d.ceilingGap = None <=> y.ceilingGap = None
    BY <1>2, DiscardKeeps
  <2>2. ComesFrom(x, d)
    BY <1>2, <1>3, <2>1, FromTransitive DEF Fine
  <2>3. UpToDate(d, at)
    <3>1. CASE y = x0
      BY <1>1, <1>8, <2>1, <3>1 DEF UpToDate
    <3>2. CASE y.sourceGap # None
      BY <2>1, <3>2 DEF UpToDate
    <3>3. QED
      BY <1>2, <3>1, <3>2
  <2>4. QED
    BY <1>0, <1>8, <2>1, <2>2, <2>3
<1>9. CASE ~Awaiting(y) /\ Awaiting(z)
  <2>. DEFINE d == DiscardAwaitingKeyframe(z)
  <2>1. /\ Fine(d, at) /\ ComesFrom(z, d)
        /\ d.ceilingGap = None <=> z.ceilingGap = None
    BY <1>6, DiscardKeeps
  <2>2. ComesFrom(x, d)
    BY <1>6, <1>7, <2>1, FromTransitive DEF Fine
  <2>3. z.ceilingGap = 0
    BY <1>4, <1>6, <1>9
  <2>4. UpToDate(d, at)
    BY <2>1, <2>3, ReplayConfigOK DEF UpToDate
  <2>5. QED
    BY <1>0, <1>9, <2>1, <2>2, <2>4
<1>10. CASE ~Awaiting(y) /\ ~Awaiting(z)
  <2>1. Fine(w, at) /\ ComesFrom(z, w) /\ w.open # NoSegment
    <3>1. CASE z.open = NoSegment
      BY <1>6, <3>1, OpenKeeps
    <3>2. CASE z.open # NoSegment
      <4>1. ComesFrom(z, z)
        BY <1>6, FromSome DEF Fine
      <4>2. QED
        BY <1>6, <3>2, <4>1
    <3>3. QED
      BY <3>1, <3>2
  <2>2. ComesFrom(x, w)
    BY <1>6, <1>7, <2>1, FromTransitive DEF Fine
  <2>. HIDE DEF w
  <2>3. Fine(v, at) /\ ComesFrom(w, v) /\ v.open # NoSegment /\ v.open.last = at
    BY <2>1, PictureKeeps
  <2>4. ComesFrom(x, v)
    BY <2>1, <2>2, <2>3, FromTransitive DEF Fine
  <2>. HIDE DEF v
  <2>5. Trims(v, Evict(v), at)
    BY <2>3, EvictTrims
  <2>6. ComesFrom(x, Evict(v))
    BY <2>3, <2>4, <2>5, FromTransitive DEF Trims, Fine
  <2>7. UpToDate(Evict(v), at)
    BY <2>3, <2>5 DEF Trims, UpToDate
  <2>8. QED
    BY <1>0, <1>10, <2>5, <2>6, <2>7 DEF Trims
<1>11. QED
  BY <1>8, <1>9, <1>10

LEMMA PushBlockKeeps ==
  ASSUME NEW at \in Nat, NEW x, Fine(x, at), UpToDate(x, at)
  PROVE  LET y == PushBlock(x) IN
         Fine(y, at) /\ ComesFrom(x, y) /\ UpToDate(y, at)
<1>. DEFINE z == MakeRoom(x, CostOfAudio(x))
            v == [z EXCEPT !.open.audio = @ + 1]
<1>1. CASE x.open = NoSegment
  <2>1. ComesFrom(x, x) /\ PushBlock(x) = x
    BY <1>1, FromSome DEF Fine, PushBlock
  <2>2. QED
    BY <2>1
<1>2. CASE x.open # NoSegment
  <2>0. PushBlock(x) = IF z.open = NoSegment THEN z ELSE Evict(v)
    BY <1>2 DEF PushBlock
  <2>1. \/ Trims(x, z, at)
        \/ Fine(z, at) /\ ComesFrom(x, z) /\ z.open = NoSegment /\ z.ceilingGap = 0
    BY <1>2, RoomTrims
  <2>. HIDE DEF z
  <2>2. CASE z.open = NoSegment
    <3>1. Fine(z, at) /\ ComesFrom(x, z) /\ z.ceilingGap = 0
      BY <1>2, <2>1, <2>2 DEF Trims
    <3>2. UpToDate(z, at)
      BY <3>1, ReplayConfigOK DEF UpToDate
    <3>3. QED
      BY <2>0, <2>2, <3>1, <3>2
  <2>3. CASE z.open # NoSegment
    <3>1. Trims(x, z, at)
      BY <2>1, <2>3
    <3>2. UpToDate(z, at)
      BY <1>2, <3>1 DEF Trims, UpToDate
    <3>3. /\ Fine(v, at) /\ ComesFrom(z, v)
          /\ v.open # NoSegment /\ v.open.last = z.open.last
          /\ v.sourceGap = z.sourceGap /\ v.ceilingGap = z.ceilingGap
      BY <2>3, <3>1, BlockKeeps DEF Trims
    <3>4. ComesFrom(x, v)
      BY <3>1, <3>3, FromTransitive DEF Trims, Fine
    <3>. HIDE DEF v
    <3>5. Trims(v, Evict(v), at)
      BY <3>3, EvictTrims
    <3>6. ComesFrom(x, Evict(v))
      BY <3>3, <3>4, <3>5, FromTransitive DEF Trims, Fine
    <3>7. UpToDate(Evict(v), at)
      BY <2>3, <3>2, <3>3, <3>5 DEF Trims, UpToDate
    <3>8. QED
      BY <2>0, <2>3, <3>5, <3>6, <3>7 DEF Trims
  <2>4. QED
    BY <2>2, <2>3
<1>3. QED
  BY <1>1, <1>2

-----------------------------------------------------------------------------
(* What holds of the threads around it.                                    *)

Lease == [resident : SUBSET Nat, onDisk : SUBSET Nat]

Pushed == [video : Nat, audio : Nat, at : Nat]

Capture == [pc : {"idle", "offer", "send", "declined"}, segment : Nat \cup {None}]

Writer == [pc : {"none", "recv", "write", "upgrade", "report", "offer", "send",
                 "declined", "release", "ended", "joins itself"},
           segment : Nat \cup {None}, strong : BOOLEAN, ending : BOOLEAN]

Typed ==
    /\ clock \in Nat
    /\ pushed \in Pushed /\ pushed.at <= clock
    /\ leases \in [Saves -> Lease]
    /\ capture \in Capture
    /\ writer \in Writer
    /\ queue \in Seq(Nat)
    /\ files \subseteq Nat
    /\ owner \in {"holds", "joins", "gone"}

(* What a thread has in hand at each point of its loop.                    *)
InHand ==
    /\ capture.segment # None <=> capture.pc \in {"send", "declined"}
    /\ writer.segment # None
        <=> writer.pc \in {"write", "upgrade", "report", "send", "declined"}
    /\ writer.strong
        <=> writer.pc \in {"report", "offer", "send", "declined", "release"}
    /\ writer.ending => writer.pc \notin {"recv", "write"}

Flight == ToSet(queue) \cup ({capture.segment, writer.segment} \ {None})

(* A segment on its way to the disk is marked, until the spill is given up *)
(* or there is no buffer to choose from.                                   *)
Claimed ==
    IF BufferLives
    THEN b.givenUp \/ Flight \subseteq b.spilling
    ELSE b.sealed = <<>> /\ b.open = NoSegment

(* It is not on disk yet as far as the buffer and the saves know, and what *)
(* a save has pinned on disk the buffer, if it still holds it, knows is.   *)
Apart ==
    /\ Flight \cap (SpilledIn(b) \cup PinnedFiles) = {}
    /\ \A s \in Holds(b) : s.id \in PinnedFiles => s.spilled
    /\ owner = "holds" => \A id \in PinnedFiles : id <= b.ids

(* The writer's segment has a file from the write until it is reported.    *)
WrittenIsThere ==
    writer.segment # None =>
        (writer.segment \in files
            <=> writer.pc \in {"upgrade", "report"} /\ ~writer.ending)

SpillInv == /\ Typed /\ InHand /\ Fine(b, pushed.at) /\ UpToDate(b, pushed.at)
            /\ Claimed /\ Apart /\ WrittenIsThere /\ FilesAreKept

-----------------------------------------------------------------------------
(* The channel.                                                            *)

LEMMA QueueAppend ==
  ASSUME NEW q \in Seq(Nat), NEW e \in Nat
  PROVE  /\ Append(q, e) \in Seq(Nat)
         /\ ToSet(Append(q, e)) = ToSet(q) \cup {e}
         /\ IsInjective(q) /\ e \notin ToSet(q) => IsInjective(Append(q, e))
<1>. DEFINE r == Append(q, e)
<1>1. /\ r \in Seq(Nat) /\ DOMAIN r = DOMAIN q \cup {Len(q) + 1}
      /\ \A i \in DOMAIN q : r[i] = q[i]
      /\ r[Len(q) + 1] = e
  OBVIOUS
<1>. HIDE DEF r
<1>2. ToSet(r) = ToSet(q) \cup {e}
  BY <1>1 DEF ToSet
<1>3. ASSUME IsInjective(q), e \notin ToSet(q) PROVE IsInjective(r)
  <2>1. \A i \in DOMAIN q : r[i] # e
    BY <1>1, <1>3 DEF ToSet
  <2>2. QED
    BY <1>1, <1>3, <2>1 DEF IsInjective
<1>4. QED
  BY <1>1, <1>2, <1>3 DEF r

LEMMA QueueTail ==
  ASSUME NEW q \in Seq(Nat), q # <<>>
  PROVE  /\ Tail(q) \in Seq(Nat) /\ Head(q) \in Nat
         /\ ToSet(q) = ToSet(Tail(q)) \cup {Head(q)}
         /\ IsInjective(q) => Head(q) \notin ToSet(Tail(q)) /\ IsInjective(Tail(q))
<1>. DEFINE t == Tail(q)
<1>1. /\ t \in Seq(Nat) /\ Head(q) \in Nat /\ Head(q) = q[1] /\ 1 \in DOMAIN q
      /\ \A i \in DOMAIN t : i + 1 \in DOMAIN q /\ t[i] = q[i + 1] /\ i + 1 # 1
      /\ \A i \in DOMAIN q : i = 1 \/ (i - 1 \in DOMAIN t /\ q[i] = t[i - 1])
      /\ \A i \in DOMAIN t : i \in Nat
  OBVIOUS
<1>. HIDE DEF t
<1>2. ToSet(q) = ToSet(t) \cup {Head(q)}
  BY <1>1 DEF ToSet
<1>3. ASSUME IsInjective(q) PROVE Head(q) \notin ToSet(t) /\ IsInjective(t)
  <2>1. \A i \in DOMAIN t : t[i] # q[1]
    BY <1>1, <1>3 DEF IsInjective
  <2>2. \A i, j \in DOMAIN t : t[i] = t[j] => i + 1 = j + 1
    BY <1>1, <1>3 DEF IsInjective
  <2>3. \A i, j \in DOMAIN t : t[i] = t[j] => i = j
    BY <1>1, <2>2
  <2>4. QED
    BY <1>1, <2>1, <2>3 DEF ToSet, IsInjective
<1>4. QED
  BY <1>1, <1>2, <1>3 DEF t

LEMMA EmptyQueue == ToSet(<<>>) = {} /\ IsInjective(<<>>) /\ <<>> \in Seq(Nat)
BY DEF ToSet, IsInjective

-----------------------------------------------------------------------------
(* The segments that are on disk.                                          *)

LEMMA SpilledAre ==
  ASSUME NEW x
  PROVE  \A id : id \in SpilledIn(x) <=>
            \E i \in DOMAIN x.sealed : x.sealed[i].spilled /\ x.sealed[i].id = id
BY DEF SpilledIn, ToSet

LEMMA SpilledShrinks ==
  ASSUME NEW at, NEW x, NEW y, Fine(x, at), ComesFrom(x, y)
  PROVE  SpilledIn(y) \subseteq SpilledIn(x)
<1>. SUFFICES ASSUME NEW id \in SpilledIn(y) PROVE id \in SpilledIn(x)
  OBVIOUS
<1>1. PICK i \in DOMAIN y.sealed : y.sealed[i].spilled /\ y.sealed[i].id = id
  BY SpilledAre
<1>2. y.sealed[i] \in Holds(y)
  BY HoldsAll
<1>3. PICK t \in Holds(x) : t.id = id /\ t.spilled = y.sealed[i].spilled
  BY <1>1, <1>2 DEF ComesFrom
<1>4. t.spilled
  BY <1>1, <1>3
<1>5. PICK j \in DOMAIN x.sealed : t = x.sealed[j]
  BY <1>4, HoldsAll DEF Fine, InOrder
<1>6. QED
  BY <1>3, <1>4, <1>5, SpilledAre

LEMMA SpilledSame ==
  ASSUME NEW x, NEW y, y.sealed = x.sealed
  PROVE  SpilledIn(y) = SpilledIn(x)
BY DEF SpilledIn

LEMMA EmptyHasNone ==
  /\ SpilledIn(Empty) = {} /\ Holds(Empty) = {}
  /\ Empty \in Buffer
  /\ \A at \in Nat : Fine(Empty, at) /\ UpToDate(Empty, at)
<1>1. Empty \in Buffer
  BY ReplayConfigOK DEF Empty, Buffer
<1>2. Empty.sealed = <<>> /\ Empty.open = NoSegment
  BY DEF Empty
<1>3. SpilledIn(Empty) = {} /\ Holds(Empty) = {}
  BY <1>2 DEF SpilledIn, Holds, ToSet
<1>4. \A at \in Nat : Fine(Empty, at) /\ UpToDate(Empty, at)
  BY <1>1, <1>2 DEF Fine, InOrder, UpToDate
<1>5. QED
  BY <1>1, <1>3, <1>4

(* No two segments have one number. *)
LEMMA OneNumber ==
  ASSUME NEW at, NEW x, Fine(x, at),
         NEW s \in Holds(x), NEW t \in Holds(x), s.id = t.id
  PROVE  s = t
<1>1. /\ \A i \in DOMAIN x.sealed : x.sealed[i] \in Segment /\ i \in Int
      /\ x.open # NoSegment => x.open \in Segment
  BY DEF Fine, Buffer
<1>2. s.id \in Nat /\ t.id \in Nat
  BY <1>1, HoldsAll DEF Segment
<1>3. ASSUME NEW i \in DOMAIN x.sealed, NEW j \in DOMAIN x.sealed,
             x.sealed[i].id = x.sealed[j].id
      PROVE  i = j
  <2>1. x.sealed[i].id \in Nat /\ x.sealed[j].id \in Nat
    BY <1>1 DEF Segment
  <2>2. ~ (i < j) /\ ~ (j < i)
    BY <1>3, <2>1 DEF Fine, InOrder
  <2>3. QED
    BY <1>1, <2>2
<1>4. ASSUME NEW i \in DOMAIN x.sealed, x.open # NoSegment
      PROVE  x.sealed[i].id # x.open.id
  <2>1. x.sealed[i].id \in Nat /\ x.open.id \in Nat
    BY <1>1, <1>4 DEF Segment
  <2>2. x.sealed[i].id < x.open.id
    BY <1>4 DEF Fine, InOrder
  <2>3. QED
    BY <2>1, <2>2
<1>5. CASE \E i \in DOMAIN x.sealed : s = x.sealed[i]
  BY <1>3, <1>4, <1>5, HoldsAll
<1>6. CASE x.open # NoSegment /\ s = x.open
  BY <1>4, <1>6, HoldsAll
<1>7. QED
  BY <1>5, <1>6, HoldsAll

-----------------------------------------------------------------------------
(* What each step leaves.                                                  *)

LEMMA SpillInit == Init => SpillInv
<1>. SUFFICES ASSUME Init PROVE SpillInv
  OBVIOUS
<1>. USE DEF Init
<1>1. b = Empty /\ queue = <<>> /\ files = {} /\ owner = "holds"
      /\ capture = [pc |-> "idle", segment |-> None]
      /\ writer.segment = None /\ writer.pc \in {"none", "recv"}
      /\ ~writer.ending /\ ~writer.strong
  BY DEF Idle
<1>2. PinnedFiles = {}
  BY DEF PinnedFiles, NoLease
<1>3. Flight = {}
  BY <1>1, EmptyQueue DEF Flight
<1>4. Typed
  <2>1. leases \in [Saves -> Lease]
    BY DEF NoLease, Lease
  <2>2. writer \in Writer
    <3>1. PICK kind \in Kinds :
             writer = [pc |-> IF kind THEN "recv" ELSE "none", segment |-> None,
                       strong |-> FALSE, ending |-> FALSE]
      OBVIOUS
    <3>2. QED
      BY <3>1 DEF Writer
  <2>3. capture \in Capture
    BY <1>1 DEF Capture
  <2>4. pushed \in Pushed /\ pushed.at <= clock
    BY DEF Pushed
  <2>5. QED
    BY <1>1, <2>1, <2>2, <2>3, <2>4, EmptyQueue DEF Typed
<1>5. InHand
  BY <1>1 DEF InHand
<1>6. Fine(b, pushed.at) /\ UpToDate(b, pushed.at) /\ SpilledIn(b) = {} /\ Holds(b) = {}
  BY <1>1, EmptyHasNone
<1>7. Claimed
  BY <1>1, <1>3 DEF Claimed, BufferLives
<1>8. Apart
  BY <1>2, <1>3, <1>6 DEF Apart
<1>9. WrittenIsThere
  BY <1>1 DEF WrittenIsThere
<1>10. FilesAreKept
  BY <1>1, <1>2, <1>6, EmptyQueue DEF FilesAreKept, QueuedOnce, NothingIsLost, NoFileLeaks
<1>11. QED
  BY <1>4, <1>5, <1>6, <1>7, <1>8, <1>9, <1>10 DEF SpillInv

LEMMA PinnedAreNumbers ==
  ASSUME Typed
  PROVE  PinnedFiles \subseteq Nat
<1>1. \A v \in Saves : leases[v] \in Lease
  BY DEF Typed
<1>2. \A v \in Saves : leases[v].onDisk \subseteq Nat
  BY <1>1 DEF Lease
<1>3. QED
  BY <1>2 DEF PinnedFiles

(* A step that leaves the threads, the channel, the disk and the saves     *)
(* alone, and of the buffer whatever the spill reads.                      *)
LEMMA FilesSame ==
  ASSUME SpillInv, UNCHANGED <<leases, capture, writer, queue, files, owner>>,
         b'.sealed = b.sealed, b'.open = b.open, b'.ids = b.ids,
         b'.givenUp = b.givenUp, b'.spilling = b.spilling
  PROVE  (Claimed /\ Apart /\ WrittenIsThere /\ FilesAreKept)'
<1>1. SpilledIn(b') = SpilledIn(b) /\ Holds(b') = Holds(b)
  BY SpilledSame DEF Holds
<1>2. PinnedFiles' = PinnedFiles /\ Flight' = Flight /\ (BufferLives' <=> BufferLives)
  BY DEF PinnedFiles, Flight, BufferLives
<1>3. Claimed' /\ Apart' /\ WrittenIsThere'
  BY <1>1, <1>2 DEF SpillInv, Claimed, Apart, WrittenIsThere
<1>4. FilesAreKept'
  BY <1>1, <1>2 DEF SpillInv, FilesAreKept, QueuedOnce, NothingIsLost, NoFileLeaks
<1>5. QED
  BY <1>3, <1>4

(* The buffer takes something in, or is let go: what leaves the window     *)
(* takes its file with it, unless a save has it pinned.                    *)
LEMMA UnlinkedHolds ==
  ASSUME SpillInv, UNCHANGED <<leases, queue>>, capture'.segment = capture.segment,
         writer'.segment = writer.segment, writer.segment # None => writer' = writer,
         SpilledIn(b') \subseteq SpilledIn(b), files' = Unlinked(b')
  PROVE  /\ (Flight \cap (SpilledIn(b) \cup PinnedFiles) = {})'
         /\ WrittenIsThere' /\ FilesAreKept'
<1>0. /\ Apart /\ WrittenIsThere /\ QueuedOnce /\ NothingIsLost /\ NoFileLeaks
  BY DEF SpillInv, FilesAreKept
<1>1. PinnedFiles' = PinnedFiles /\ Flight' = Flight
  BY DEF PinnedFiles, Flight
<1>2. (Flight \cap (SpilledIn(b) \cup PinnedFiles) = {})'
  BY <1>0, <1>1 DEF Apart
<1>3. writer.segment # None => (writer.segment \in files' <=> writer.segment \in files)
  BY <1>0 DEF Apart, Flight, Unlinked
<1>4. WrittenIsThere'
  BY <1>0, <1>3 DEF WrittenIsThere
<1>5. NothingIsLost'
  BY <1>0, <1>1 DEF NothingIsLost, Unlinked
<1>6. NoFileLeaks'
  BY <1>0, <1>1 DEF NoFileLeaks, Unlinked
<1>7. QueuedOnce'
  BY <1>0 DEF QueuedOnce
<1>8. QED
  BY <1>2, <1>4, <1>5, <1>6, <1>7 DEF FilesAreKept

LEMMA TakenInHolds ==
  ASSUME SpillInv, owner = "holds", UNCHANGED <<leases, writer, queue, owner>>,
         capture'.segment = capture.segment,
         ComesFrom(b, b'), b' \in Buffer, files' = Unlinked(b')
  PROVE  (Claimed /\ Apart /\ WrittenIsThere /\ FilesAreKept)'
<1>1. Fine(b, pushed.at) /\ Claimed /\ Apart /\ b \in Buffer
  BY DEF SpillInv, Fine
<1>2. SpilledIn(b') \subseteq SpilledIn(b)
  BY <1>1, SpilledShrinks
<1>3. /\ (Flight \cap (SpilledIn(b) \cup PinnedFiles) = {})'
      /\ WrittenIsThere' /\ FilesAreKept'
  BY <1>2, UnlinkedHolds
<1>4. PinnedFiles' = PinnedFiles /\ Flight' = Flight /\ BufferLives /\ BufferLives'
  BY DEF PinnedFiles, Flight, BufferLives
<1>5. Claimed'
  BY <1>1, <1>4 DEF Claimed, ComesFrom
<1>6. ASSUME NEW s \in Holds(b'), s.id \in PinnedFiles PROVE s.spilled
  <2>1. s.id <= b.ids /\ b.ids \in Nat
    BY <1>1, <1>6 DEF Apart, Buffer
  <2>2. s.id \in Nat
    <3>1. s \in Segment
      BY HoldsAll DEF Buffer
    <3>2. QED
      BY <3>1 DEF Segment
  <2>3. PICK t \in Holds(b) : t.id = s.id /\ t.spilled = s.spilled
    BY <2>1, <2>2 DEF ComesFrom
  <2>4. QED
    BY <1>1, <1>6, <2>3 DEF Apart
<1>7. ASSUME NEW id \in PinnedFiles PROVE id <= b'.ids
  <2>1. id \in Nat
    BY PinnedAreNumbers DEF SpillInv
  <2>2. id <= b.ids /\ b.ids <= b'.ids /\ b.ids \in Nat /\ b'.ids \in Nat
    BY <1>1 DEF Apart, ComesFrom, Buffer
  <2>3. QED
    BY <2>1, <2>2
<1>8. Apart'
  BY <1>3, <1>4, <1>6, <1>7 DEF Apart
<1>9. QED
  BY <1>3, <1>5, <1>8

LEMMA TickHolds == SpillInv /\ Tick => SpillInv'
<1>. SUFFICES ASSUME SpillInv, Tick PROVE SpillInv'
  OBVIOUS
<1>1. (Claimed /\ Apart /\ WrittenIsThere /\ FilesAreKept)'
  BY FilesSame DEF Tick
<1>2. Typed' /\ InHand'
  <2>1. pushed.at \in Nat /\ clock \in Nat /\ clock' = clock + 1 /\ pushed.at <= clock
    BY DEF SpillInv, Typed, Pushed, Tick
  <2>2. QED
    BY <2>1 DEF SpillInv, Typed, InHand, Tick
<1>3. (Fine(b, pushed.at) /\ UpToDate(b, pushed.at))'
  BY DEF SpillInv, Tick
<1>4. QED
  BY <1>1, <1>2, <1>3 DEF SpillInv

LEMMA PushVideoHolds ==
  ASSUME SpillInv, NEW key \in BOOLEAN, PushVideo(key)
  PROVE  SpillInv'
<1>0. /\ Typed /\ InHand /\ Fine(b, pushed.at) /\ UpToDate(b, pushed.at)
      /\ clock \in Nat /\ pushed.at \in Nat /\ pushed.at <= clock
  BY DEF SpillInv, Typed, Pushed
<1>1. Fine(b', clock) /\ ComesFrom(b, b') /\ UpToDate(b', clock)
  BY <1>0, PushKeeps DEF PushVideo
<1>2. pushed'.at = clock /\ pushed' \in Pushed
  <2>1. pushed \in Pushed /\ pushed.video + 1 \in Nat
    BY <1>0 DEF Typed, Pushed
  <2>2. QED
    BY <1>0, <2>1 DEF PushVideo, Pushed
<1>3. capture'.segment = capture.segment /\ capture'.pc \in {"idle", "offer"}
      /\ capture' \in Capture
  BY <1>0 DEF PushVideo, Idle, Typed, InHand, Capture
<1>4. (Claimed /\ Apart /\ WrittenIsThere /\ FilesAreKept)'
  BY <1>1, <1>3, TakenInHolds DEF PushVideo, Fine
<1>5. files' \subseteq Nat
  BY <1>0 DEF PushVideo, Unlinked, Typed
<1>6. Typed'
  <2>1. clock <= clock
    BY <1>0
  <2>2. QED
    BY <1>0, <1>2, <1>3, <1>5, <2>1 DEF PushVideo, Typed
<1>7. InHand'
  BY <1>0, <1>3 DEF PushVideo, InHand
<1>8. QED
  BY <1>1, <1>2, <1>4, <1>6, <1>7 DEF SpillInv, PushVideo

LEMMA PushAudioHolds == SpillInv /\ PushAudio => SpillInv'
<1>. SUFFICES ASSUME SpillInv, PushAudio PROVE SpillInv'
  OBVIOUS
<1>0. Typed /\ InHand /\ Fine(b, pushed.at) /\ UpToDate(b, pushed.at) /\ pushed.at \in Nat
  BY DEF SpillInv, Typed, Pushed
<1>1. Fine(b', pushed.at) /\ ComesFrom(b, b') /\ UpToDate(b', pushed.at)
  BY <1>0, PushBlockKeeps DEF PushAudio
<1>2. pushed'.at = pushed.at /\ pushed' \in Pushed
  BY <1>0 DEF PushAudio, Typed, Pushed
<1>3. (Claimed /\ Apart /\ WrittenIsThere /\ FilesAreKept)'
  BY <1>1, TakenInHolds DEF PushAudio, Fine
<1>4. files' \subseteq Nat
  BY <1>0 DEF PushAudio, Unlinked, Typed
<1>5. Typed' /\ InHand'
  BY <1>0, <1>2, <1>4 DEF PushAudio, Typed, InHand
<1>6. QED
  BY <1>1, <1>2, <1>3, <1>5 DEF SpillInv

LEMMA SilenceHolds == SpillInv /\ NoteSourceSilence => SpillInv'
<1>. SUFFICES ASSUME SpillInv, NoteSourceSilence PROVE SpillInv'
  OBVIOUS
<1>0. Typed /\ InHand /\ Fine(b, pushed.at) /\ UpToDate(b, pushed.at)
  BY DEF SpillInv
<1>1. clock - pushed.at \in Int
  BY <1>0 DEF Typed, Pushed
<1>2. /\ b' \in Buffer /\ b'.sealed = b.sealed /\ b'.open = b.open /\ b'.ids = b.ids
      /\ b'.spilling = b.spilling /\ b'.givenUp = b.givenUp
      /\ b'.ceilingGap = b.ceilingGap /\ b'.sourceGap = b.sourceGap
  BY <1>0, <1>1 DEF NoteSourceSilence, Fine, Buffer
<1>3. Fine(b', pushed.at) /\ UpToDate(b', pushed.at)
  BY <1>0, <1>2 DEF Fine, InOrder, UpToDate
<1>4. (Claimed /\ Apart /\ WrittenIsThere /\ FilesAreKept)'
  BY <1>2, FilesSame DEF NoteSourceSilence
<1>5. Typed' /\ InHand'
  BY <1>0 DEF Typed, InHand, NoteSourceSilence
<1>6. QED
  BY <1>3, <1>4, <1>5 DEF SpillInv, NoteSourceSilence

LEMMA SameSegments ==
  ASSUME SpillInv, b' \in Buffer, b'.sealed = b.sealed, b'.open = b.open, b'.ids = b.ids,
         b'.ceilingGap = b.ceilingGap, b'.sourceGap = b.sourceGap, pushed' = pushed
  PROVE  /\ (Fine(b, pushed.at) /\ UpToDate(b, pushed.at))'
         /\ SpilledIn(b') = SpilledIn(b) /\ Holds(b') = Holds(b)
<1>1. SpilledIn(b') = SpilledIn(b) /\ Holds(b') = Holds(b)
  BY SpilledSame DEF Holds
<1>2. (Fine(b, pushed.at) /\ UpToDate(b, pushed.at))'
  BY DEF SpillInv, Fine, InOrder, UpToDate
<1>3. QED
  BY <1>1, <1>2

(* Of what is on its way, some arrives or is given back. *)
LEMMA FlightShrinks ==
  ASSUME SpillInv, UNCHANGED <<leases, owner>>,
         b'.sealed = b.sealed, b'.open = b.open, b'.ids = b.ids, b'.givenUp = b.givenUp,
         Flight' \subseteq Flight, BufferLives' <=> BufferLives,
         Flight \subseteq b.spilling => Flight' \subseteq b'.spilling
  PROVE  Claimed' /\ Apart'
<1>1. SpilledIn(b') = SpilledIn(b) /\ Holds(b') = Holds(b)
  BY SpilledSame DEF Holds
<1>2. PinnedFiles' = PinnedFiles
  BY DEF PinnedFiles
<1>3. QED
  BY <1>1, <1>2 DEF SpillInv, Claimed, Apart

LEMMA FilesSound ==
  ASSUME UNCHANGED <<leases, files>>, SpilledIn(b') = SpilledIn(b),
         NothingIsLost, NoFileLeaks, writer.segment \in files => writer'.segment = writer.segment
  PROVE  NothingIsLost' /\ NoFileLeaks'
<1>1. PinnedFiles' = PinnedFiles
  BY DEF PinnedFiles
<1>2. QED
  BY <1>1 DEF NothingIsLost, NoFileLeaks

(* What is chosen to be spilled is in memory, and nobody has it yet. *)
LEMMA ChosenIsNew ==
  ASSUME SpillInv, ~NothingToOffer(b)
  PROVE  /\ NextToSpill(b) \in Nat
         /\ NextToSpill(b) \notin Flight \cup SpilledIn(b) \cup PinnedFiles
         /\ BufferLives /\ Flight \subseteq b.spilling
<1>0. Fine(b, pushed.at) /\ Claimed /\ Apart /\ b \in Buffer /\ b.sealed \in Seq(Segment)
  BY DEF SpillInv, Fine, Buffer
<1>1. ToSpill(b) \in SUBSET Nat /\ ToSpill(b) # {}
  BY <1>0 DEF NothingToOffer, ToSpill
<1>2. PICK i \in DOMAIN b.sealed : /\ NextToSpill(b) = b.sealed[i].id
                                   /\ ~b.sealed[i].spilled
                                   /\ b.sealed[i].id \notin b.spilling
  BY <1>1, LeastIsThere DEF NextToSpill, ToSpill
<1>3. b.sealed[i] \in Segment /\ b.sealed # <<>>
  BY <1>0
<1>4. b.sealed[i] \in Holds(b)
  BY HoldsAll
<1>5. NextToSpill(b) \notin SpilledIn(b)
  <2>1. SUFFICES ASSUME NextToSpill(b) \in SpilledIn(b) PROVE FALSE
    OBVIOUS
  <2>2. PICK j \in DOMAIN b.sealed : b.sealed[j].spilled
                                        /\ b.sealed[j].id = NextToSpill(b)
    BY <2>1, SpilledAre
  <2>3. b.sealed[j] \in Holds(b)
    BY HoldsAll
  <2>4. b.sealed[i] = b.sealed[j]
    BY <1>0, <1>2, <1>4, <2>2, <2>3, OneNumber
  <2>5. QED
    BY <1>2, <2>2, <2>4
<1>6. NextToSpill(b) \notin PinnedFiles
  BY <1>0, <1>2, <1>4 DEF Apart
<1>7. BufferLives /\ ~b.givenUp
  BY <1>0, <1>3 DEF Claimed, NothingToOffer
<1>8. Flight \subseteq b.spilling
  BY <1>0, <1>7 DEF Claimed
<1>9. QED
  BY <1>2, <1>3, <1>5, <1>6, <1>7, <1>8 DEF Segment

LEMMA ChosenHolds ==
  ASSUME SpillInv, ~NothingToOffer(b), UNCHANGED <<leases, owner, pushed>>,
         b' = [b EXCEPT !.spilling = @ \cup {NextToSpill(b)}],
         Flight' \subseteq Flight \cup {NextToSpill(b)}, BufferLives' <=> BufferLives
  PROVE  /\ (Fine(b, pushed.at) /\ UpToDate(b, pushed.at) /\ Claimed /\ Apart)'
         /\ SpilledIn(b') = SpilledIn(b)
<1>. DEFINE id == NextToSpill(b)
<1>1. /\ id \in Nat /\ id \notin Flight \cup SpilledIn(b) \cup PinnedFiles
      /\ BufferLives /\ Flight \subseteq b.spilling
  BY ChosenIsNew
<1>. HIDE DEF id
<1>2. /\ b' \in Buffer /\ b'.sealed = b.sealed /\ b'.open = b.open /\ b'.ids = b.ids
      /\ b'.ceilingGap = b.ceilingGap /\ b'.sourceGap = b.sourceGap
      /\ b'.spilling = b.spilling \cup {id}
  <2>1. b \in Buffer /\ b' = [b EXCEPT !.spilling = b.spilling \cup {id}]
    BY DEF SpillInv, Fine, id
  <2>2. QED
    BY <1>1, <2>1 DEF Buffer
<1>3. /\ (Fine(b, pushed.at) /\ UpToDate(b, pushed.at))'
      /\ SpilledIn(b') = SpilledIn(b) /\ Holds(b') = Holds(b)
  BY <1>2, SameSegments
<1>4. PinnedFiles' = PinnedFiles /\ Flight' \subseteq Flight \cup {id}
  BY DEF PinnedFiles, id
<1>5. Claimed'
  BY <1>1, <1>2, <1>4 DEF Claimed
<1>6. Apart'
  BY <1>1, <1>2, <1>3, <1>4 DEF SpillInv, Apart
<1>7. QED
  BY <1>3, <1>5, <1>6

LEMMA DeclinedHolds ==
  ASSUME SpillInv, NEW id, UNCHANGED <<leases, owner, pushed>>,
         b' = [b EXCEPT !.spilling = @ \ {id}],
         Flight' \subseteq Flight \ {id}, BufferLives' <=> BufferLives
  PROVE  /\ (Fine(b, pushed.at) /\ UpToDate(b, pushed.at) /\ Claimed /\ Apart)'
         /\ SpilledIn(b') = SpilledIn(b)
<1>1. /\ b' \in Buffer /\ b'.sealed = b.sealed /\ b'.open = b.open /\ b'.ids = b.ids
      /\ b'.ceilingGap = b.ceilingGap /\ b'.sourceGap = b.sourceGap
      /\ b'.givenUp = b.givenUp /\ b'.spilling = b.spilling \ {id}
  <2>1. b \in Buffer
    BY DEF SpillInv, Fine
  <2>2. QED
    BY <2>1 DEF Buffer
<1>2. (Fine(b, pushed.at) /\ UpToDate(b, pushed.at))' /\ SpilledIn(b') = SpilledIn(b)
  BY <1>1, SameSegments
<1>3. Claimed' /\ Apart'
  BY <1>1, FlightShrinks
<1>4. QED
  BY <1>2, <1>3

LEMMA UnchangedBuffer ==
  ASSUME SpillInv, UNCHANGED <<b, pushed>>
  PROVE  /\ (Fine(b, pushed.at) /\ UpToDate(b, pushed.at))'
         /\ SpilledIn(b') = SpilledIn(b)
BY DEF SpillInv

-----------------------------------------------------------------------------
(* The capture thread's part of the spill.                                 *)

LEMMA CaptureStep ==
  ASSUME SpillInv, UNCHANGED <<clock, pushed, leases, files, owner, writer>>,
         queue' \in Seq(Nat), capture' \in Capture,
         capture'.segment # None <=> capture'.pc \in {"send", "declined"},
         (Fine(b, pushed.at) /\ UpToDate(b, pushed.at) /\ Claimed /\ Apart)',
         SpilledIn(b') = SpilledIn(b), QueuedOnce'
  PROVE  SpillInv'
<1>1. Typed' /\ InHand'
  BY DEF SpillInv, Typed, InHand
<1>2. WrittenIsThere'
  BY DEF SpillInv, WrittenIsThere
<1>3. FilesAreKept'
  BY FilesSound DEF SpillInv, FilesAreKept
<1>4. QED
  BY <1>1, <1>2, <1>3 DEF SpillInv

LEMMA CaptureOffersHolds == SpillInv /\ CaptureOffers => SpillInv'
<1>. SUFFICES ASSUME SpillInv, CaptureOffers PROVE SpillInv'
  OBVIOUS
<1>0. /\ capture \in Capture /\ capture.pc = "offer" /\ capture.segment = None
      /\ queue \in Seq(Nat) /\ QueuedOnce
      /\ UNCHANGED <<clock, pushed, leases, writer, queue, files, owner>>
      /\ BufferLives' <=> BufferLives
  BY DEF SpillInv, Typed, InHand, FilesAreKept, CaptureOffers, BufferLives
<1>1. CASE NothingToOffer(b)
  <2>1. capture' = [capture EXCEPT !.pc = "idle"] /\ UNCHANGED b
    BY <1>1 DEF CaptureOffers, Choose
  <2>2. capture' \in Capture /\ capture'.segment = None /\ capture'.pc = "idle"
    BY <1>0, <2>1 DEF Capture
  <2>3. Flight' = Flight
    BY <1>0, <2>2 DEF Flight
  <2>4. Claimed' /\ Apart'
    BY <1>0, <2>1, <2>3, FlightShrinks
  <2>5. QueuedOnce'
    BY <1>0, <2>2 DEF QueuedOnce
  <2>6. QED
    BY <1>0, <2>1, <2>2, <2>4, <2>5, UnchangedBuffer, CaptureStep
<1>2. CASE ~NothingToOffer(b)
  <2>. DEFINE id == NextToSpill(b)
  <2>1. /\ capture' = [capture EXCEPT !.pc = "send", !.segment = id]
        /\ b' = [b EXCEPT !.spilling = @ \cup {id}]
    BY <1>2 DEF CaptureOffers, Choose
  <2>2. id \in Nat /\ id \notin Flight
    BY <1>2, ChosenIsNew
  <2>3. /\ (Fine(b, pushed.at) /\ UpToDate(b, pushed.at) /\ Claimed /\ Apart)'
        /\ SpilledIn(b') = SpilledIn(b)
    <3>1. capture'.segment = id
      BY <1>0, <2>1 DEF Capture
    <3>2. Flight' \subseteq Flight \cup {id}
      BY <1>0, <3>1 DEF Flight
    <3>3. QED
      BY <1>0, <1>2, <2>1, <3>2, ChosenHolds
  <2>. HIDE DEF id
  <2>4. capture' \in Capture /\ capture'.segment = id /\ capture'.pc = "send"
    BY <1>0, <2>1, <2>2 DEF Capture
  <2>5. QueuedOnce'
    BY <1>0, <2>2, <2>4 DEF QueuedOnce, Flight
  <2>6. id # None
    BY <2>2, ReplayConfigOK
  <2>7. QED
    BY <1>0, <2>3, <2>4, <2>5, <2>6, CaptureStep
<1>3. QED
  BY <1>1, <1>2

LEMMA CaptureSendsHolds == SpillInv /\ CaptureSends => SpillInv'
<1>. SUFFICES ASSUME SpillInv, CaptureSends PROVE SpillInv'
  OBVIOUS
<1>0. /\ capture \in Capture /\ capture.pc = "send" /\ capture.segment # None
      /\ capture.segment \in Nat
      /\ queue \in Seq(Nat) /\ QueuedOnce
      /\ UNCHANGED <<clock, pushed, b, leases, writer, files, owner>>
      /\ BufferLives' <=> BufferLives
  BY DEF SpillInv, Typed, InHand, FilesAreKept, CaptureSends, TrySend, BufferLives,
         Capture
<1>1. CASE queue' = Append(queue, capture.segment)
           /\ capture' = [capture EXCEPT !.pc = "offer", !.segment = None]
  <2>1. capture' \in Capture /\ capture'.segment = None /\ capture'.pc = "offer"
    BY <1>0, <1>1 DEF Capture
  <2>2. /\ queue' \in Seq(Nat) /\ ToSet(queue') = ToSet(queue) \cup {capture.segment}
        /\ IsInjective(queue')
    BY <1>0, <1>1, QueueAppend DEF QueuedOnce
  <2>3. Flight' \subseteq Flight
    BY <1>0, <2>1, <2>2 DEF Flight
  <2>4. Claimed' /\ Apart'
    BY <1>0, <2>3, FlightShrinks
  <2>5. QueuedOnce'
    BY <1>0, <2>1, <2>2 DEF QueuedOnce
  <2>6. QED
    BY <1>0, <2>1, <2>2, <2>4, <2>5, UnchangedBuffer, CaptureStep
<1>2. CASE capture' = [capture EXCEPT !.pc = "declined"] /\ UNCHANGED queue
  <2>1. /\ capture' \in Capture /\ capture'.segment = capture.segment
        /\ capture'.pc = "declined"
    BY <1>0, <1>2 DEF Capture
  <2>2. Flight' = Flight
    BY <1>0, <1>2, <2>1 DEF Flight
  <2>3. Claimed' /\ Apart'
    BY <1>0, <2>2, FlightShrinks
  <2>4. QueuedOnce'
    BY <1>0, <1>2, <2>1 DEF QueuedOnce
  <2>5. QED
    BY <1>0, <1>2, <2>1, <2>3, <2>4, UnchangedBuffer, CaptureStep
<1>3. QED
  BY <1>1, <1>2 DEF CaptureSends, TrySend

LEMMA CaptureDeclinesHolds == SpillInv /\ CaptureDeclines => SpillInv'
<1>. SUFFICES ASSUME SpillInv, CaptureDeclines PROVE SpillInv'
  OBVIOUS
<1>0. /\ capture \in Capture /\ capture.segment # None
      /\ queue \in Seq(Nat) /\ QueuedOnce
      /\ UNCHANGED <<clock, pushed, leases, writer, queue, files, owner>>
      /\ BufferLives' <=> BufferLives
  BY DEF SpillInv, Typed, InHand, FilesAreKept, CaptureDeclines, BufferLives
<1>1. /\ capture' = [capture EXCEPT !.pc = "idle", !.segment = None]
      /\ b' = [b EXCEPT !.spilling = @ \ {capture.segment}]
  BY DEF CaptureDeclines, Decline
<1>2. capture' \in Capture /\ capture'.segment = None /\ capture'.pc = "idle"
  BY <1>0, <1>1 DEF Capture
<1>3. Flight' \subseteq Flight \ {capture.segment}
  BY <1>0, <1>2 DEF Flight, QueuedOnce
<1>4. /\ (Fine(b, pushed.at) /\ UpToDate(b, pushed.at) /\ Claimed /\ Apart)'
      /\ SpilledIn(b') = SpilledIn(b)
  BY <1>0, <1>1, <1>3, DeclinedHolds
<1>5. QueuedOnce'
  BY <1>0, <1>2 DEF QueuedOnce
<1>6. QED
  BY <1>0, <1>2, <1>4, <1>5, CaptureStep

-----------------------------------------------------------------------------
(* The writer.                                                             *)

LEMMA WriterHas ==
  ASSUME SpillInv
  PROVE  /\ writer \in Writer /\ queue \in Seq(Nat) /\ files \subseteq Nat
         /\ writer.segment # None => writer.segment \in Nat
         /\ writer.segment # None => writer.segment \in Flight
         /\ Flight \cap (SpilledIn(b) \cup PinnedFiles) = {}
         /\ None \notin files
         /\ InHand /\ QueuedOnce /\ NothingIsLost /\ NoFileLeaks /\ WrittenIsThere
BY ReplayConfigOK DEF SpillInv, Typed, Writer, Flight, Apart, FilesAreKept

LEMMA WriterStepHolds ==
  ASSUME SpillInv, UNCHANGED <<clock, pushed, leases, capture, owner>>,
         queue' \in Seq(Nat), files' \subseteq Nat, writer' \in Writer, InHand',
         (Fine(b, pushed.at) /\ UpToDate(b, pushed.at) /\ Claimed /\ Apart)',
         WrittenIsThere', QueuedOnce', NothingIsLost', NoFileLeaks'
  PROVE  SpillInv'
BY DEF SpillInv, Typed, FilesAreKept

LEMMA WriterEndsHolds ==
  ASSUME SpillInv, WriterEnds, UNCHANGED <<clock, pushed, b, leases, capture, owner>>,
         files' = files \ {writer.segment}, BufferLives' <=> BufferLives
  PROVE  SpillInv'
<1>1. /\ writer' \in Writer /\ writer'.pc = "ended" /\ writer'.segment = None
      /\ ~writer'.strong /\ queue' = <<>>
  BY WriterHas DEF WriterEnds, Writer
<1>2. InHand'
  BY <1>1, WriterHas DEF InHand
<1>3. Flight' \subseteq Flight
  BY <1>1, EmptyQueue DEF Flight
<1>4. Claimed' /\ Apart'
  BY <1>3, FlightShrinks
<1>5. WrittenIsThere' /\ QueuedOnce'
  BY <1>1, EmptyQueue DEF WrittenIsThere, QueuedOnce
<1>6. NothingIsLost' /\ NoFileLeaks'
  <2>1. PinnedFiles' = PinnedFiles
    BY DEF PinnedFiles
  <2>2. NothingIsLost /\ NoFileLeaks
        /\ writer.segment \notin SpilledIn(b) \cup PinnedFiles
    <3>1. NothingIsLost /\ NoFileLeaks
      BY WriterHas
    <3>2. CASE writer.segment = None
      BY <3>1, <3>2, WriterHas DEF NothingIsLost
    <3>3. CASE writer.segment # None
      BY <3>1, <3>3, WriterHas
    <3>4. QED
      BY <3>2, <3>3
  <2>3. QED
    BY <2>1, <2>2 DEF NothingIsLost, NoFileLeaks
<1>7. files' \subseteq Nat /\ queue' \in Seq(Nat)
  BY <1>1, WriterHas, EmptyQueue
<1>8. QED
  BY <1>1, <1>2, <1>4, <1>5, <1>6, <1>7, UnchangedBuffer, WriterStepHolds

LEMMA ReceiveHolds == SpillInv /\ Receive => SpillInv'
<1>. SUFFICES ASSUME SpillInv, Receive PROVE SpillInv'
  OBVIOUS
<1>0. /\ writer \in Writer /\ writer.pc = "recv" /\ writer.segment = None
      /\ ~writer.strong /\ ~writer.ending
      /\ queue \in Seq(Nat) /\ QueuedOnce
      /\ UNCHANGED <<clock, pushed, b, leases, capture, files, owner>>
  BY WriterHas DEF InHand, Receive, Writer
<1>1. CASE queue # <<>> /\ writer' = [writer EXCEPT !.pc = "write", !.segment = Head(queue)]
           /\ queue' = Tail(queue)
  <2>1. /\ queue' \in Seq(Nat) /\ Head(queue) \in Nat
        /\ ToSet(queue) = ToSet(queue') \cup {Head(queue)}
        /\ Head(queue) \notin ToSet(queue') /\ IsInjective(queue')
    BY <1>0, <1>1, QueueTail DEF QueuedOnce
  <2>2. Head(queue) # None
    BY <2>1, ReplayConfigOK
  <2>3. /\ writer' \in Writer /\ writer'.pc = "write" /\ writer'.segment = Head(queue)
        /\ ~writer'.strong /\ ~writer'.ending
    BY <1>0, <1>1, <2>1 DEF Writer
  <2>4. Flight' \subseteq Flight /\ Head(queue) \in Flight
    BY <1>0, <2>1, <2>2, <2>3 DEF Flight
  <2>5. BufferLives' <=> BufferLives
    BY <1>0, <2>3 DEF BufferLives
  <2>6. Claimed' /\ Apart'
    BY <1>0, <2>4, <2>5, FlightShrinks
  <2>7. InHand'
    BY <1>0, <2>2, <2>3, WriterHas DEF InHand
  <2>8. Head(queue) \notin files
    BY <1>0, <2>2, <2>4, WriterHas DEF NoFileLeaks
  <2>9. WrittenIsThere'
    BY <1>0, <2>3, <2>8 DEF WrittenIsThere
  <2>10. QueuedOnce'
    BY <1>0, <2>1, <2>2, <2>3 DEF QueuedOnce
  <2>11. NothingIsLost' /\ NoFileLeaks'
    BY <1>0, WriterHas, FilesSound
  <2>12. QED
    BY <1>0, <2>1, <2>3, <2>6, <2>7, <2>9, <2>10, <2>11, WriterHas, UnchangedBuffer,
       WriterStepHolds
<1>2. CASE queue = <<>> /\ ~BufferLives /\ WriterEnds
  <2>1. ~writer'.strong
    BY <1>0, <1>2 DEF WriterEnds, Writer
  <2>2. BufferLives' <=> BufferLives
    BY <1>0, <1>2, <2>1 DEF BufferLives
  <2>3. files' = files \ {writer.segment}
    BY <1>0, WriterHas
  <2>4. QED
    BY <1>0, <1>2, <2>2, <2>3, WriterEndsHolds
<1>3. QED
  BY <1>1, <1>2 DEF Receive

LEMMA WriteHolds == SpillInv /\ Write => SpillInv'
<1>. SUFFICES ASSUME SpillInv, Write PROVE SpillInv'
  OBVIOUS
<1>. DEFINE id == writer.segment
<1>0. /\ writer \in Writer /\ writer.pc = "write" /\ id # None /\ id \in Nat
      /\ ~writer.strong /\ ~writer.ending
      /\ id \notin SpilledIn(b) \cup PinnedFiles
      /\ UNCHANGED <<clock, pushed, b, leases, capture, queue, owner>>
  BY WriterHas DEF InHand, Write, Writer
<1>1. /\ writer' \in Writer /\ writer'.pc = "upgrade" /\ writer'.segment = id
      /\ ~writer'.strong /\ files' \subseteq Nat
      /\ \/ files' = files \cup {id} /\ ~writer'.ending
         \/ files' = files \ {id} /\ writer'.ending
  <2>1. CASE files' = files \cup {id} /\ writer' = [writer EXCEPT !.pc = "upgrade"]
    BY <1>0, <2>1, WriterHas DEF Writer
  <2>2. CASE files' = files \ {id}
             /\ writer' = [writer EXCEPT !.pc = "upgrade", !.ending = TRUE]
    BY <1>0, <2>2, WriterHas DEF Writer
  <2>3. QED
    BY <2>1, <2>2 DEF Write
<1>. HIDE DEF id
<1>2. Flight' \subseteq Flight /\ (BufferLives' <=> BufferLives)
  BY <1>0, <1>1 DEF Flight, BufferLives, id
<1>3. Claimed' /\ Apart'
  BY <1>0, <1>2, FlightShrinks
<1>4. InHand'
  BY <1>0, <1>1, WriterHas DEF InHand
<1>5. WrittenIsThere'
  BY <1>1 DEF WrittenIsThere
<1>6. QueuedOnce'
  BY <1>0, <1>1, WriterHas DEF QueuedOnce, id
<1>7. NothingIsLost' /\ NoFileLeaks'
  <2>1. PinnedFiles' = PinnedFiles
    BY <1>0 DEF PinnedFiles
  <2>2. QED
    BY <1>0, <1>1, <2>1, WriterHas DEF NothingIsLost, NoFileLeaks, id
<1>8. QED
  BY <1>0, <1>1, <1>3, <1>4, <1>5, <1>6, <1>7, WriterHas, UnchangedBuffer, WriterStepHolds

LEMMA UpgradeHolds == SpillInv /\ Upgrade => SpillInv'
<1>. SUFFICES ASSUME SpillInv, Upgrade PROVE SpillInv'
  OBVIOUS
<1>0. /\ writer \in Writer /\ writer.pc = "upgrade" /\ ~writer.strong
      /\ UNCHANGED <<clock, pushed, b, leases, capture, owner>>
  BY WriterHas DEF InHand, Upgrade, Writer
<1>1. CASE BufferLives /\ writer' = [writer EXCEPT !.pc = "report", !.strong = TRUE]
           /\ UNCHANGED <<queue, files>>
  <2>1. /\ writer' \in Writer /\ writer'.pc = "report" /\ writer'.strong
        /\ writer'.segment = writer.segment /\ writer'.ending = writer.ending
    BY <1>0, <1>1 DEF Writer
  <2>2. Flight' = Flight /\ (BufferLives' <=> BufferLives)
    BY <1>0, <1>1, <2>1 DEF Flight, BufferLives
  <2>3. Claimed' /\ Apart'
    BY <1>0, <2>2, FlightShrinks
  <2>4. InHand'
    BY <1>0, <2>1, WriterHas DEF InHand
  <2>5. WrittenIsThere' /\ QueuedOnce'
    BY <1>0, <1>1, <2>1, WriterHas DEF WrittenIsThere, QueuedOnce
  <2>6. NothingIsLost' /\ NoFileLeaks'
    BY <1>0, <1>1, <2>1, WriterHas, FilesSound
  <2>7. QED
    BY <1>0, <1>1, <2>1, <2>3, <2>4, <2>5, <2>6, WriterHas, UnchangedBuffer,
       WriterStepHolds
<1>2. CASE ~BufferLives /\ files' = files \ {writer.segment} /\ WriterEnds
  <2>1. BufferLives' <=> BufferLives
    BY <1>0, <1>2 DEF WriterEnds, Writer, BufferLives
  <2>2. QED
    BY <1>0, <1>2, <2>1, WriterEndsHolds
<1>3. QED
  BY <1>1, <1>2 DEF Upgrade

LEMMA WriterOffersHolds == SpillInv /\ WriterOffers => SpillInv'
<1>. SUFFICES ASSUME SpillInv, WriterOffers PROVE SpillInv'
  OBVIOUS
<1>0. /\ writer \in Writer /\ writer.pc = "offer" /\ writer.segment = None
      /\ writer.strong
      /\ UNCHANGED <<clock, pushed, leases, capture, queue, files, owner>>
  BY WriterHas DEF InHand, WriterOffers, Writer
<1>1. CASE NothingToOffer(b)
  <2>1. writer' = [writer EXCEPT !.pc = "release"] /\ UNCHANGED b
    BY <1>1 DEF WriterOffers, Choose
  <2>2. /\ writer' \in Writer /\ writer'.segment = None /\ writer'.pc = "release"
        /\ writer'.strong
    BY <1>0, <2>1 DEF Writer
  <2>3. Flight' = Flight /\ (BufferLives' <=> BufferLives)
    BY <1>0, <2>2 DEF Flight, BufferLives
  <2>4. Claimed' /\ Apart'
    BY <1>0, <2>1, <2>3, FlightShrinks
  <2>5. InHand' /\ WrittenIsThere' /\ QueuedOnce'
    BY <1>0, <2>2, WriterHas DEF InHand, WrittenIsThere, QueuedOnce
  <2>6. NothingIsLost' /\ NoFileLeaks'
    BY <1>0, <2>1, <2>2, WriterHas, FilesSound
  <2>7. QED
    BY <1>0, <2>1, <2>2, <2>4, <2>5, <2>6, WriterHas, UnchangedBuffer, WriterStepHolds
<1>2. CASE ~NothingToOffer(b)
  <2>. DEFINE id == NextToSpill(b)
  <2>1. /\ writer' = [writer EXCEPT !.pc = "send", !.segment = id]
        /\ b' = [b EXCEPT !.spilling = @ \cup {id}]
    BY <1>2 DEF WriterOffers, Choose
  <2>2. id \in Nat /\ id \notin Flight \cup SpilledIn(b) \cup PinnedFiles
    BY <1>2, ChosenIsNew
  <2>3. /\ (Fine(b, pushed.at) /\ UpToDate(b, pushed.at) /\ Claimed /\ Apart)'
        /\ SpilledIn(b') = SpilledIn(b)
    <3>1. writer'.segment = id /\ writer'.strong = writer.strong
      BY <1>0, <2>1 DEF Writer
    <3>2. Flight' \subseteq Flight \cup {id} /\ (BufferLives' <=> BufferLives)
      BY <1>0, <3>1 DEF Flight, BufferLives
    <3>3. QED
      BY <1>0, <1>2, <2>1, <3>2, ChosenHolds
  <2>. HIDE DEF id
  <2>4. /\ writer' \in Writer /\ writer'.segment = id /\ writer'.pc = "send"
        /\ writer'.strong
    BY <1>0, <2>1, <2>2 DEF Writer
  <2>5. id # None
    BY <2>2, ReplayConfigOK
  <2>6. InHand'
    BY <1>0, <2>4, <2>5, WriterHas DEF InHand
  <2>7. WrittenIsThere'
    <3>1. id \notin files
      BY <1>0, <2>2, <2>5, WriterHas DEF NoFileLeaks
    <3>2. QED
      BY <1>0, <2>4, <3>1 DEF WrittenIsThere
  <2>8. QueuedOnce'
    BY <1>0, <2>2, <2>4, <2>5, WriterHas DEF QueuedOnce, Flight
  <2>9. NothingIsLost' /\ NoFileLeaks'
    BY <1>0, <2>3, WriterHas, FilesSound
  <2>10. QED
    BY <1>0, <2>3, <2>4, <2>6, <2>7, <2>8, <2>9, WriterHas, WriterStepHolds
<1>3. QED
  BY <1>1, <1>2

LEMMA WriterSendsHolds == SpillInv /\ WriterSends => SpillInv'
<1>. SUFFICES ASSUME SpillInv, WriterSends PROVE SpillInv'
  OBVIOUS
<1>0. /\ writer \in Writer /\ writer.pc = "send" /\ writer.segment # None
      /\ writer.strong /\ writer.segment \in Nat /\ writer.segment \notin files
      /\ queue \in Seq(Nat) /\ QueuedOnce
      /\ UNCHANGED <<clock, pushed, b, leases, capture, files, owner>>
  BY WriterHas DEF InHand, WriterSends, TrySend, WrittenIsThere
<1>1. CASE queue' = Append(queue, writer.segment)
           /\ writer' = [writer EXCEPT !.pc = "offer", !.segment = None]
  <2>1. /\ writer' \in Writer /\ writer'.segment = None /\ writer'.pc = "offer"
        /\ writer'.strong /\ writer'.ending = writer.ending
    BY <1>0, <1>1 DEF Writer
  <2>2. /\ queue' \in Seq(Nat) /\ ToSet(queue') = ToSet(queue) \cup {writer.segment}
        /\ IsInjective(queue')
    BY <1>0, <1>1, QueueAppend DEF QueuedOnce
  <2>3. Flight' \subseteq Flight /\ (BufferLives' <=> BufferLives)
    BY <1>0, <2>1, <2>2 DEF Flight, BufferLives
  <2>4. Claimed' /\ Apart'
    BY <1>0, <2>3, FlightShrinks
  <2>5. InHand' /\ WrittenIsThere'
    BY <1>0, <2>1, WriterHas DEF InHand, WrittenIsThere
  <2>6. QueuedOnce'
    BY <1>0, <2>1, <2>2 DEF QueuedOnce
  <2>7. NothingIsLost' /\ NoFileLeaks'
    BY <1>0, WriterHas, FilesSound
  <2>8. QED
    BY <1>0, <2>1, <2>2, <2>4, <2>5, <2>6, <2>7, WriterHas, UnchangedBuffer,
       WriterStepHolds
<1>2. CASE writer' = [writer EXCEPT !.pc = "declined"] /\ UNCHANGED queue
  <2>1. /\ writer' \in Writer /\ writer'.segment = writer.segment
        /\ writer'.pc = "declined" /\ writer'.strong
    BY <1>0, <1>2 DEF Writer
  <2>2. Flight' = Flight /\ (BufferLives' <=> BufferLives)
    BY <1>0, <1>2, <2>1 DEF Flight, BufferLives
  <2>3. Claimed' /\ Apart'
    BY <1>0, <2>2, FlightShrinks
  <2>4. InHand' /\ WrittenIsThere' /\ QueuedOnce'
    BY <1>0, <1>2, <2>1, WriterHas DEF InHand, WrittenIsThere, QueuedOnce
  <2>5. NothingIsLost' /\ NoFileLeaks'
    BY <1>0, <2>1, WriterHas, FilesSound
  <2>6. QED
    BY <1>0, <1>2, <2>1, <2>3, <2>4, <2>5, WriterHas, UnchangedBuffer, WriterStepHolds
<1>3. QED
  BY <1>1, <1>2 DEF WriterSends, TrySend

LEMMA WriterDeclinesHolds == SpillInv /\ WriterDeclines => SpillInv'
<1>. SUFFICES ASSUME SpillInv, WriterDeclines PROVE SpillInv'
  OBVIOUS
<1>0. /\ writer \in Writer /\ writer.segment # None /\ writer.pc = "declined"
      /\ writer.strong /\ writer.segment \notin files /\ QueuedOnce
      /\ UNCHANGED <<clock, pushed, leases, capture, queue, files, owner>>
  BY WriterHas DEF InHand, WriterDeclines, WrittenIsThere
<1>1. /\ writer' = [writer EXCEPT !.pc = "release", !.segment = None]
      /\ b' = [b EXCEPT !.spilling = @ \ {writer.segment}]
  BY DEF WriterDeclines, Decline
<1>2. /\ writer' \in Writer /\ writer'.segment = None /\ writer'.pc = "release"
      /\ writer'.strong
  BY <1>0, <1>1 DEF Writer
<1>3. Flight' \subseteq Flight \ {writer.segment} /\ (BufferLives' <=> BufferLives)
  BY <1>0, <1>2 DEF Flight, QueuedOnce, BufferLives
<1>4. /\ (Fine(b, pushed.at) /\ UpToDate(b, pushed.at) /\ Claimed /\ Apart)'
      /\ SpilledIn(b') = SpilledIn(b)
  BY <1>0, <1>1, <1>3, DeclinedHolds
<1>5. InHand' /\ WrittenIsThere' /\ QueuedOnce'
  BY <1>0, <1>2, WriterHas DEF InHand, WrittenIsThere, QueuedOnce
<1>6. NothingIsLost' /\ NoFileLeaks'
  BY <1>0, <1>4, WriterHas, FilesSound
<1>7. QED
  BY <1>0, <1>2, <1>4, <1>5, <1>6, WriterHas, WriterStepHolds

(* mark_spilled, of a segment the buffer still holds. *)
Marked(x, i) == [x EXCEPT !.spilling = @ \ {x.sealed[i].id},
                          !.sealed[i].spilled = TRUE]

LEMMA MarkedKeeps ==
  ASSUME NEW at \in Nat, NEW x, Fine(x, at), NEW i \in DOMAIN x.sealed,
         NEW y, y = Marked(x, i)
  PROVE  /\ Fine(y, at)
         /\ y.open = x.open /\ y.ids = x.ids /\ y.givenUp = x.givenUp
         /\ y.ceilingGap = x.ceilingGap /\ y.sourceGap = x.sourceGap
         /\ y.spilling = x.spilling \ {x.sealed[i].id}
         /\ y.sealed # <<>> /\ x.sealed # <<>>
         /\ SpilledIn(y) = SpilledIn(x) \cup {x.sealed[i].id}
         /\ \A s \in Holds(y) : s \in Holds(x) \/ s.spilled
<1>. DEFINE new == [x.sealed[i] EXCEPT !.spilled = TRUE]
            list == [x.sealed EXCEPT ![i] = new]
<1>1. x \in Buffer /\ x.sealed \in Seq(Segment) /\ x.sealed[i] \in Segment
  BY DEF Fine, Buffer
<1>2. /\ new \in Segment /\ new.id = x.sealed[i].id /\ new.last = x.sealed[i].last
      /\ new.spilled
  BY <1>1 DEF Segment
<1>. HIDE DEF new
<1>3. /\ list \in Seq(Segment) /\ DOMAIN list = DOMAIN x.sealed /\ list[i] = new
      /\ \A j \in DOMAIN x.sealed : j # i => list[j] = x.sealed[j]
      /\ list # <<>> /\ x.sealed # <<>>
  BY <1>1, <1>2
<1>4. y = [x EXCEPT !.spilling = x.spilling \ {x.sealed[i].id}, !.sealed = list]
  BY <1>1 DEF Marked, Buffer, new
<1>. HIDE DEF list
<1>5. /\ y \in Buffer /\ y.sealed = list /\ y.open = x.open /\ y.ids = x.ids
      /\ y.givenUp = x.givenUp
      /\ y.ceilingGap = x.ceilingGap /\ y.sourceGap = x.sourceGap
      /\ y.spilling = x.spilling \ {x.sealed[i].id}
  BY <1>1, <1>3, <1>4 DEF Buffer
<1>6. \A j \in DOMAIN x.sealed : /\ list[j].id = x.sealed[j].id
                                 /\ list[j].last = x.sealed[j].last
  BY <1>2, <1>3
<1>7. InOrder(y, at)
  BY <1>3, <1>5, <1>6 DEF Fine, InOrder
<1>8. SpilledIn(y) = SpilledIn(x) \cup {x.sealed[i].id}
  <2>1. \A id : id \in SpilledIn(y) <=>
           \E j \in DOMAIN x.sealed : list[j].spilled /\ x.sealed[j].id = id
    <3>0. \A id : id \in SpilledIn(y) <=>
             \E j \in DOMAIN y.sealed : y.sealed[j].spilled /\ y.sealed[j].id = id
      BY SpilledAre, Zenon
    <3>. DEFINE old == y.sealed
    <3>a. old = list
      BY <1>5
    <3>b. \A id : id \in SpilledIn(y) <=>
             \E j \in DOMAIN old : old[j].spilled /\ old[j].id = id
      BY <3>0
    <3>. HIDE DEF old
    <3>1. \A id : id \in SpilledIn(y) <=>
             \E j \in DOMAIN list : list[j].spilled /\ list[j].id = id
      BY <3>a, <3>b
    <3>2. QED
      BY <1>3, <1>6, <3>1
  <2>2. \A j \in DOMAIN x.sealed : list[j].spilled <=> (x.sealed[j].spilled \/ j = i)
    BY <1>2, <1>3
  <2>3. \A id : id \in SpilledIn(y) <=> id \in SpilledIn(x) \/ id = x.sealed[i].id
    BY <2>1, <2>2, SpilledAre
  <2>4. QED
    BY <2>3
<1>9. ASSUME NEW s \in Holds(y) PROVE s \in Holds(x) \/ s.spilled
  <2>1. CASE \E j \in DOMAIN x.sealed : s = list[j]
    BY <1>2, <1>3, <2>1, HoldsAll
  <2>2. CASE x.open # NoSegment /\ s = x.open
    BY <2>2, HoldsAll
  <2>3. (\E j \in DOMAIN list : s = list[j]) \/ (x.open # NoSegment /\ s = x.open)
    <3>1. \/ \E j \in DOMAIN y.sealed : s = y.sealed[j]
          \/ y.open # NoSegment /\ s = y.open
      BY HoldsAll
    <3>2. QED
      BY <1>5, <3>1
  <2>4. QED
    BY <1>3, <2>1, <2>2, <2>3
<1>10. QED
  BY <1>3, <1>5, <1>7, <1>8, <1>9 DEF Fine

LEMMA MarkSpilledHolds == SpillInv /\ MarkSpilled => SpillInv'
<1>. SUFFICES ASSUME SpillInv, MarkSpilled PROVE SpillInv'
  OBVIOUS
<1>. DEFINE id == writer.segment
            y == [b EXCEPT !.spilling = @ \ {id}]
<1>0. /\ writer \in Writer /\ writer.pc = "report" /\ writer.strong /\ ~writer.ending
      /\ id # None /\ id \in Nat /\ id \in files /\ QueuedOnce
      /\ id \notin SpilledIn(b) \cup PinnedFiles
      /\ UNCHANGED <<clock, pushed, leases, capture, queue, owner>>
  BY WriterHas DEF InHand, MarkSpilled, WrittenIsThere
<1>1. Fine(b, pushed.at) /\ UpToDate(b, pushed.at) /\ pushed.at \in Nat
      /\ Claimed /\ Apart /\ b \in Buffer /\ BufferLives
  BY <1>0 DEF SpillInv, Typed, Pushed, Fine, BufferLives
<1>2. CASE Positions(b, id) = {} /\ b' = y /\ files' = files \ {id}
           /\ writer' = [writer EXCEPT !.pc = "release", !.segment = None]
  <2>1. /\ writer' \in Writer /\ writer'.segment = None /\ writer'.pc = "release"
        /\ writer'.strong
    BY <1>0, <1>2 DEF Writer
  <2>2. Flight' \subseteq Flight \ {id} /\ (BufferLives' <=> BufferLives)
    BY <1>0, <2>1 DEF Flight, QueuedOnce, BufferLives
  <2>3. /\ (Fine(b, pushed.at) /\ UpToDate(b, pushed.at) /\ Claimed /\ Apart)'
        /\ SpilledIn(b') = SpilledIn(b)
    BY <1>0, <1>2, <2>2, DeclinedHolds
  <2>4. InHand' /\ WrittenIsThere' /\ QueuedOnce'
    BY <1>0, <2>1, WriterHas DEF InHand, WrittenIsThere, QueuedOnce
  <2>5. NothingIsLost' /\ NoFileLeaks'
    <3>1. PinnedFiles' = PinnedFiles
      BY <1>0 DEF PinnedFiles
    <3>2. QED
      BY <1>0, <1>2, <2>3, <3>1, WriterHas DEF NothingIsLost, NoFileLeaks
  <2>6. QED
    BY <1>0, <1>2, <2>1, <2>3, <2>4, <2>5, WriterHas, WriterStepHolds
<1>3. CASE /\ Positions(b, id) # {}
           /\ b' = [y EXCEPT !.sealed[Min(Positions(b, id))].spilled = TRUE]
           /\ writer' = [writer EXCEPT !.pc = "offer", !.segment = None]
           /\ UNCHANGED files
  <2>. DEFINE i == Min(Positions(b, id))
  <2>1. i \in DOMAIN b.sealed /\ b.sealed[i].id = id
    <3>1. Positions(b, id) \in SUBSET Nat
      <4>1. b.sealed \in Seq(Segment)
        BY <1>1 DEF Buffer
      <4>2. QED
        BY <4>1 DEF Positions
    <3>2. QED
      BY <1>3, <3>1, LeastIsThere DEF Positions
  <2>2. b' = Marked(b, i)
    BY <1>1, <1>3, <2>1 DEF Buffer, Marked
  <2>. HIDE DEF i
  <2>3. /\ Fine(b', pushed.at)
        /\ b'.open = b.open /\ b'.ids = b.ids /\ b'.givenUp = b.givenUp
        /\ b'.ceilingGap = b.ceilingGap /\ b'.sourceGap = b.sourceGap
        /\ b'.spilling = b.spilling \ {id}
        /\ b'.sealed # <<>> /\ b.sealed # <<>>
        /\ SpilledIn(b') = SpilledIn(b) \cup {id}
        /\ \A s \in Holds(b') : s \in Holds(b) \/ s.spilled
    <3>. HIDE DEF Marked
    <3>1. /\ b'.spilling = b.spilling \ {b.sealed[i].id}
          /\ SpilledIn(b') = SpilledIn(b) \cup {b.sealed[i].id}
      BY <1>1, <2>1, <2>2, MarkedKeeps
    <3>2. /\ Fine(b', pushed.at)
          /\ b'.open = b.open /\ b'.ids = b.ids /\ b'.givenUp = b.givenUp
          /\ b'.ceilingGap = b.ceilingGap /\ b'.sourceGap = b.sourceGap
          /\ b'.sealed # <<>> /\ b.sealed # <<>>
          /\ \A s \in Holds(b') : s \in Holds(b) \/ s.spilled
      BY <1>1, <2>1, <2>2, MarkedKeeps
    <3>3. QED
      BY <2>1, <3>1, <3>2
  <2>4. /\ writer' \in Writer /\ writer'.segment = None /\ writer'.pc = "offer"
        /\ writer'.strong /\ writer'.ending = writer.ending
    BY <1>0, <1>3 DEF Writer
  <2>5. Flight' \subseteq Flight \ {id} /\ (BufferLives' <=> BufferLives)
    BY <1>0, <2>4 DEF Flight, QueuedOnce, BufferLives
  <2>6. PinnedFiles' = PinnedFiles
    BY <1>0 DEF PinnedFiles
  <2>7. UpToDate(b, pushed.at)'
    BY <1>0, <1>1, <2>3 DEF UpToDate
  <2>8. Claimed'
    BY <1>1, <2>3, <2>5 DEF Claimed
  <2>9. Apart'
    BY <1>0, <1>1, <2>3, <2>5, <2>6 DEF Apart
  <2>10. InHand' /\ WrittenIsThere' /\ QueuedOnce'
    BY <1>0, <2>4, WriterHas DEF InHand, WrittenIsThere, QueuedOnce
  <2>11. NothingIsLost' /\ NoFileLeaks'
    BY <1>0, <1>3, <2>3, <2>6, WriterHas DEF NothingIsLost, NoFileLeaks
  <2>12. QED
    BY <1>0, <1>3, <2>3, <2>4, <2>7, <2>8, <2>9, <2>10, <2>11, WriterHas,
       WriterStepHolds
<1>4. QED
  BY <1>2, <1>3 DEF MarkSpilled

LEMMA GiveUpHolds == SpillInv /\ GiveUpSpilling => SpillInv'
<1>. SUFFICES ASSUME SpillInv, GiveUpSpilling PROVE SpillInv'
  OBVIOUS
<1>0. /\ writer \in Writer /\ writer.pc = "report" /\ writer.strong /\ writer.ending
      /\ writer.segment \notin files /\ b \in Buffer
      /\ UNCHANGED <<clock, pushed, leases, capture, queue, files, owner>>
  BY WriterHas DEF InHand, GiveUpSpilling, WrittenIsThere, SpillInv, Fine
<1>1. writer' = [writer EXCEPT !.pc = "release", !.segment = None]
      /\ b' = [b EXCEPT !.givenUp = TRUE, !.spilling = {}]
  BY DEF GiveUpSpilling
<1>2. /\ writer' \in Writer /\ writer'.segment = None /\ writer'.pc = "release"
      /\ writer'.strong
  BY <1>0, <1>1 DEF Writer
<1>3. /\ b' \in Buffer /\ b'.sealed = b.sealed /\ b'.open = b.open /\ b'.ids = b.ids
      /\ b'.ceilingGap = b.ceilingGap /\ b'.sourceGap = b.sourceGap /\ b'.givenUp
  BY <1>0, <1>1 DEF Buffer
<1>4. /\ (Fine(b, pushed.at) /\ UpToDate(b, pushed.at))'
      /\ SpilledIn(b') = SpilledIn(b) /\ Holds(b') = Holds(b)
  BY <1>0, <1>3, SameSegments
<1>5. Flight' \subseteq Flight /\ BufferLives' /\ PinnedFiles' = PinnedFiles
  BY <1>0, <1>2 DEF Flight, BufferLives, PinnedFiles
<1>6. Claimed' /\ Apart'
  BY <1>0, <1>3, <1>4, <1>5 DEF Claimed, Apart, SpillInv
<1>7. InHand' /\ WrittenIsThere' /\ QueuedOnce'
  BY <1>0, <1>2, WriterHas DEF InHand, WrittenIsThere, QueuedOnce
<1>8. NothingIsLost' /\ NoFileLeaks'
  BY <1>0, <1>4, WriterHas, FilesSound
<1>9. QED
  BY <1>0, <1>2, <1>4, <1>6, <1>7, <1>8, WriterHas, WriterStepHolds

(* The buffer is dropped, and the segments it holds with it. *)
LEMMA DroppedHolds ==
  ASSUME SpillInv, UNCHANGED <<clock, pushed, leases, queue>>, capture' = capture,
         b' = Empty, files' = Unlinked(b'), owner' \in {"joins", "gone"}, ~BufferLives',
         writer'.segment = writer.segment, writer.segment # None => writer' = writer,
         writer' \in Writer, InHand'
  PROVE  SpillInv'
<1>1. SpilledIn(b') = {} /\ Holds(b') = {}
      /\ (Fine(b, pushed.at) /\ UpToDate(b, pushed.at))'
  BY EmptyHasNone DEF SpillInv, Typed, Pushed
<1>2. /\ (Flight \cap (SpilledIn(b) \cup PinnedFiles) = {})'
      /\ WrittenIsThere' /\ FilesAreKept'
  BY <1>1, UnlinkedHolds
<1>3. Claimed'
  BY DEF Claimed, Empty
<1>4. Apart'
  BY <1>1, <1>2 DEF Apart
<1>5. Typed'
  BY DEF SpillInv, Typed, Unlinked
<1>6. QED
  BY <1>1, <1>2, <1>3, <1>4, <1>5 DEF SpillInv

LEMMA WriterReleasesHolds == SpillInv /\ WriterReleases => SpillInv'
<1>. SUFFICES ASSUME SpillInv, WriterReleases PROVE SpillInv'
  OBVIOUS
<1>0. /\ writer \in Writer /\ writer.pc = "release" /\ writer.segment = None
      /\ writer.strong
      /\ UNCHANGED <<clock, pushed, leases, capture, owner>>
  BY WriterHas DEF InHand, WriterReleases
<1>1. CASE /\ owner = "holds" /\ ~writer.ending
           /\ writer' = [writer EXCEPT !.pc = "recv", !.strong = FALSE]
           /\ UNCHANGED <<b, queue, files>>
  <2>1. /\ writer' \in Writer /\ writer'.segment = None /\ writer'.pc = "recv"
        /\ ~writer'.strong /\ ~writer'.ending
    BY <1>0, <1>1 DEF Writer
  <2>2. Flight' \subseteq Flight /\ (BufferLives' <=> BufferLives)
    BY <1>0, <1>1, <2>1 DEF Flight, BufferLives
  <2>3. Claimed' /\ Apart'
    BY <1>0, <1>1, <2>2, FlightShrinks
  <2>4. InHand' /\ WrittenIsThere' /\ QueuedOnce'
    BY <1>0, <1>1, <2>1, WriterHas DEF InHand, WrittenIsThere, QueuedOnce
  <2>5. NothingIsLost' /\ NoFileLeaks'
    BY <1>0, <1>1, <2>1, WriterHas, FilesSound
  <2>6. QED
    BY <1>0, <1>1, <2>1, <2>3, <2>4, <2>5, WriterHas, UnchangedBuffer, WriterStepHolds
<1>2. CASE owner = "holds" /\ WriterEnds /\ UNCHANGED <<b, files>>
  <2>1. files' = files \ {writer.segment}
    BY <1>0, <1>2, WriterHas
  <2>2. BufferLives' <=> BufferLives
    BY <1>0, <1>2 DEF BufferLives
  <2>3. QED
    BY <1>0, <1>2, <2>1, <2>2, WriterEndsHolds
<1>3. CASE /\ owner # "holds"
           /\ writer' = [writer EXCEPT !.pc = "joins itself", !.strong = FALSE]
           /\ b' = Empty /\ files' = Unlinked(Empty) /\ UNCHANGED queue
  <2>1. /\ writer' \in Writer /\ writer'.segment = None /\ writer'.pc = "joins itself"
        /\ ~writer'.strong /\ writer'.ending = writer.ending
    BY <1>0, <1>3 DEF Writer
  <2>2. owner' \in {"joins", "gone"} /\ ~BufferLives'
    BY <1>0, <1>3, <2>1 DEF SpillInv, Typed, BufferLives
  <2>3. InHand'
    BY <1>0, <2>1, WriterHas DEF InHand
  <2>4. QED
    BY <1>0, <1>3, <2>1, <2>2, <2>3, DroppedHolds
<1>4. QED
  BY <1>1, <1>2, <1>3 DEF WriterReleases

-----------------------------------------------------------------------------
(* Saves, and the end of the recording.                                    *)

LEMMA EndRecordingHolds == SpillInv /\ EndRecording => SpillInv'
<1>. SUFFICES ASSUME SpillInv, EndRecording PROVE SpillInv'
  OBVIOUS
<1>0. /\ owner = "holds" /\ writer \in Writer /\ InHand
      /\ UNCHANGED <<clock, pushed, leases, capture, writer, queue>>
  BY WriterHas DEF EndRecording
<1>1. CASE writer.strong /\ owner' = "gone" /\ UNCHANGED <<b, files>>
  <2>1. Flight' = Flight /\ BufferLives /\ BufferLives' /\ PinnedFiles' = PinnedFiles
    BY <1>0, <1>1 DEF Flight, BufferLives, PinnedFiles
  <2>2. Claimed' /\ Apart'
    BY <1>0, <1>1, <2>1 DEF SpillInv, Claimed, Apart
  <2>3. Typed' /\ InHand' /\ WrittenIsThere' /\ QueuedOnce'
    BY <1>0, <1>1, WriterHas DEF SpillInv, Typed, InHand, WrittenIsThere, QueuedOnce
  <2>4. NothingIsLost' /\ NoFileLeaks'
    BY <1>0, <1>1, WriterHas, FilesSound
  <2>5. QED
    BY <1>0, <1>1, <2>2, <2>3, <2>4, UnchangedBuffer DEF SpillInv, FilesAreKept
<1>2. CASE ~writer.strong /\ owner' = "joins" /\ b' = Empty /\ files' = Unlinked(Empty)
  <2>1. ~BufferLives' /\ InHand'
    BY <1>0, <1>2 DEF BufferLives, InHand
  <2>2. QED
    BY <1>0, <1>2, <2>1, DroppedHolds
<1>3. QED
  BY <1>1, <1>2 DEF EndRecording

LEMMA JoinedHolds == SpillInv /\ Joined => SpillInv'
<1>. SUFFICES ASSUME SpillInv, Joined PROVE SpillInv'
  OBVIOUS
<1>0. /\ owner = "joins" /\ owner' = "gone"
      /\ UNCHANGED <<clock, pushed, b, leases, capture, writer, queue, files>>
  BY DEF Joined
<1>1. Flight' = Flight /\ (BufferLives' <=> BufferLives) /\ PinnedFiles' = PinnedFiles
  BY <1>0 DEF Flight, BufferLives, PinnedFiles
<1>2. Claimed' /\ Apart'
  BY <1>0, <1>1 DEF SpillInv, Claimed, Apart
<1>3. Typed' /\ InHand' /\ WrittenIsThere' /\ QueuedOnce'
  BY <1>0, WriterHas DEF SpillInv, Typed, InHand, WrittenIsThere, QueuedOnce
<1>4. NothingIsLost' /\ NoFileLeaks'
  BY <1>0, WriterHas, FilesSound
<1>5. QED
  BY <1>0, <1>2, <1>3, <1>4, UnchangedBuffer DEF SpillInv, FilesAreKept

LEMMA StutterHolds == SpillInv /\ UNCHANGED vars => SpillInv'
BY DEF SpillInv, vars, Typed, InHand, Claimed, Apart, WrittenIsThere, FilesAreKept,
       QueuedOnce, NothingIsLost, NoFileLeaks, BufferLives, Flight, PinnedFiles

(* What a save is given is of what the buffer holds. *)
LEMMA PlannedIsHeld ==
  ASSUME NEW x \in Buffer, NEW length \in Lengths, Segments(x) # <<>>
  PROVE  /\ Planned(x, length) # <<>>
         /\ \E first, final \in DOMAIN Segments(x) :
               /\ first <= final
               /\ Planned(x, length) = SubSeq(Segments(x), first, final)
<1>. DEFINE all == Segments(x)
            r == Requested(x, length)
            Begun(t) == {1} \cup {i \in DOMAIN all : all[i].start <= t}
            first == Max(Begun(r.start))
            final == Max({first, Max(Begun(r.end))})
<1>1. all \in Seq(Segment) /\ Len(all) \in Nat /\ DOMAIN all = 1 .. Len(all)
      /\ 1 \in DOMAIN all
  BY DEF Segments, Buffer
<1>. HIDE DEF all, r
<1>2. \A t : Max(Begun(t)) \in DOMAIN all
  <2>1. SUFFICES ASSUME NEW t PROVE Max(Begun(t)) \in DOMAIN all
    OBVIOUS
  <2>2. Begun(t) \in SUBSET (0 .. Len(all)) /\ Begun(t) # {} /\ Begun(t) \subseteq DOMAIN all
    BY <1>1
  <2>. HIDE DEF Begun
  <2>3. Max(Begun(t)) \in Begun(t)
    BY <1>1, <2>2, GreatestIsThere
  <2>4. QED
    BY <2>2, <2>3
<1>3. Planned(x, length) = SubSeq(all, first, final)
  BY DEF Planned, all, r
<1>. HIDE DEF Begun
<1>4. first \in DOMAIN all /\ Max(Begun(r.end)) \in DOMAIN all
  BY <1>2
<1>. DEFINE m == Max(Begun(r.end))
<1>. HIDE DEF first, m
<1>5. final \in DOMAIN all /\ first <= final
  <2>1. first \in Int /\ m \in Int /\ m \in DOMAIN all
    BY <1>1, <1>4 DEF m
  <2>2. final = IF first >= m THEN first ELSE m
    BY <2>1, MaxOfTwo DEF m
  <2>3. QED
    BY <1>4, <2>1, <2>2
<1>. HIDE DEF final
<1>6. SubSeq(all, first, final) # <<>>
  <2>1. first \in Nat /\ final \in Nat /\ final <= Len(all) /\ first >= 1
    BY <1>1, <1>4, <1>5
  <2>2. Len(SubSeq(all, first, final)) = final - first + 1
    BY <1>1, <1>5, <2>1
  <2>3. Len(SubSeq(all, first, final)) # 0
    BY <1>5, <2>1, <2>2
  <2>4. Len(<<>>) = 0
    OBVIOUS
  <2>5. QED
    BY <2>3, <2>4, Zenon
<1>7. QED
  BY <1>3, <1>4, <1>5, <1>6 DEF all

LEMMA PlannedAreHeld ==
  ASSUME NEW x \in Buffer, NEW length \in Lengths, Segments(x) # <<>>
  PROVE  ToSet(Planned(x, length)) \subseteq Holds(x)
<1>. DEFINE all == Segments(x)
            plan == Planned(x, length)
<1>1. all \in Seq(Segment)
  BY DEF Segments, Buffer
<1>2. PICK first \in DOMAIN all, final \in DOMAIN all :
         first <= final /\ plan = SubSeq(all, first, final)
  BY PlannedIsHeld
<1>3. \A i \in DOMAIN all : all[i] \in Holds(x)
  <2>1. CASE x.open = NoSegment
    BY <2>1, HoldsAll DEF Segments
  <2>2. CASE x.open # NoSegment
    <3>1. /\ x.sealed \in Seq(Segment) /\ x.open \in Segment
          /\ all = Append(x.sealed, x.open)
      BY <2>2 DEF Segments, Buffer
    <3>2. \A i \in DOMAIN all : \/ all[i] = x.open
                                \/ i \in DOMAIN x.sealed /\ all[i] = x.sealed[i]
      BY <3>1
    <3>3. QED
      BY <2>2, <3>2, HoldsAll
  <2>3. QED
    BY <2>1, <2>2
<1>. HIDE DEF all, plan
<1>4. \A i \in DOMAIN plan : \E j \in DOMAIN all : plan[i] = all[j]
  <2>1. /\ DOMAIN plan = 1 .. (final - first + 1)
        /\ \A i \in DOMAIN plan : plan[i] = all[first + i - 1]
        /\ DOMAIN all = 1 .. Len(all) /\ Len(all) \in Nat
    BY <1>1, <1>2
  <2>2. \A i \in DOMAIN plan : first + i - 1 \in DOMAIN all
    BY <1>2, <2>1
  <2>3. QED
    BY <2>1, <2>2
<1>5. \A i \in DOMAIN plan : plan[i] \in Holds(x)
  BY <1>3, <1>4
<1>6. QED
  BY <1>5 DEF ToSet, plan

(* The lease pins what is on disk there, and nothing else on disk. *)
LEMMA TakeLeaseHolds ==
  ASSUME SpillInv, NEW v \in Saves, NEW length \in Lengths, TakeLease(v, length)
  PROVE  SpillInv'
<1>. DEFINE plan == ToSet(Planned(b, length)) \ {b.open}
            memory == {s.id : s \in {t \in plan : ~t.spilled}}
            disk == {s.id : s \in {t \in plan : t.spilled}}
<1>0. /\ Typed /\ InHand /\ Fine(b, pushed.at) /\ UpToDate(b, pushed.at)
      /\ Claimed /\ Apart /\ WrittenIsThere /\ FilesAreKept /\ b \in Buffer
      /\ pushed.at \in Nat
  BY DEF SpillInv, Fine, Typed, Pushed
<1>1. /\ owner = "holds" /\ leases[v] = NoLease /\ Segments(b) # <<>>
      /\ leases' = [leases EXCEPT ![v] = [resident |-> memory, onDisk |-> disk]]
      /\ b' = Release(b)
      /\ UNCHANGED <<clock, pushed, capture, writer, queue, files, owner>>
  BY DEF TakeLease, Refused
<1>2. plan \subseteq Holds(b)
  BY <1>0, <1>1, PlannedAreHeld
<1>. HIDE DEF plan
<1>3. ASSUME NEW s \in Holds(b) PROVE s.id \in Nat
  <2>1. s \in Segment
    BY <1>0, HoldsAll DEF Buffer
  <2>2. QED
    BY <2>1 DEF Segment
<1>4. memory \subseteq Nat /\ disk \subseteq Nat
  BY <1>2, <1>3
<1>5. disk \subseteq SpilledIn(b)
  <2>1. ASSUME NEW s \in plan, s.spilled PROVE s.id \in SpilledIn(b)
    <3>1. PICK i \in DOMAIN b.sealed : s = b.sealed[i]
      BY <1>0, <1>2, <2>1, HoldsAll DEF Fine, InOrder
    <3>2. QED
      BY <2>1, <3>1, SpilledAre
  <2>2. QED
    BY <2>1
<1>6. \A id \in disk : \E s \in Holds(b) : s.id = id /\ s.spilled
  BY <1>2
<1>. HIDE DEF memory, disk
<1>7. leases' \in [Saves -> Lease] /\ PinnedFiles' = PinnedFiles \cup disk
  <2>1. leases \in [Saves -> Lease] /\ leases[v].onDisk = {}
    BY <1>0, <1>1 DEF Typed, NoLease
  <2>2. [resident |-> memory, onDisk |-> disk] \in Lease
    BY <1>4 DEF Lease
  <2>3. /\ leases' \in [Saves -> Lease] /\ leases'[v].onDisk = disk
        /\ \A w \in Saves : w # v => leases'[w] = leases[w]
    BY <1>1, <2>1, <2>2
  <2>4. QED
    BY <2>1, <2>3 DEF PinnedFiles
<1>8. /\ Fine(b', pushed.at) /\ b'.sealed = b.sealed /\ b'.open = b.open
      /\ b'.ids = b.ids /\ b'.spilling = b.spilling /\ b'.givenUp = b.givenUp
      /\ b'.ceilingGap = b.ceilingGap /\ b'.sourceGap = b.sourceGap
  <2>. DEFINE y == Release(b)
  <2>1. /\ y.sealed = b.sealed /\ y.open = b.open
        /\ y.ids = b.ids /\ y.spilling = b.spilling /\ y.givenUp = b.givenUp
        /\ y.ceilingGap = b.ceilingGap /\ y.sourceGap = b.sourceGap
    BY <1>0 DEF Release, Buffer
  <2>2. Fine(y, pushed.at)
    BY <1>0, ReleaseTrims DEF Trims
  <2>3. b' = y
    BY <1>1
  <2>. HIDE DEF y
  <2>4. QED
    BY <2>1, <2>2, <2>3
<1>9. /\ SpilledIn(b') = SpilledIn(b) /\ Holds(b') = Holds(b)
      /\ Flight' = Flight /\ BufferLives /\ BufferLives'
  BY <1>1, <1>8 DEF SpilledIn, Holds, Flight, BufferLives
<1>10. Typed' /\ InHand' /\ WrittenIsThere' /\ QueuedOnce'
  BY <1>0, <1>1, <1>7
     DEF Typed, InHand, WrittenIsThere, FilesAreKept, QueuedOnce
<1>11. Fine(b, pushed.at)' /\ UpToDate(b, pushed.at)'
  BY <1>0, <1>1, <1>8 DEF UpToDate
<1>12. Claimed'
  BY <1>0, <1>8, <1>9 DEF Claimed
<1>13. Apart'
  <2>1. Flight \cap disk = {}
    BY <1>0, <1>5 DEF Apart
  <2>2. ASSUME NEW s \in Holds(b), s.id \in disk PROVE s.spilled
    <3>1. PICK t \in Holds(b) : t.id = s.id /\ t.spilled
      BY <1>6, <2>2
    <3>2. s = t
      BY <1>0, <3>1, OneNumber
    <3>3. QED
      BY <3>1, <3>2
  <2>3. ASSUME NEW id \in disk PROVE id <= b.ids
    <3>1. PICK s \in Holds(b) : s.id = id
      BY <1>6
    <3>2. QED
      BY <1>0, <3>1, HoldsAll DEF Fine, InOrder
  <2>4. (Flight \cap (SpilledIn(b) \cup PinnedFiles) = {})'
    BY <1>0, <1>7, <1>9, <2>1 DEF Apart
  <2>5. (\A s \in Holds(b) : s.id \in PinnedFiles => s.spilled)'
    BY <1>0, <1>7, <1>9, <2>2 DEF Apart
  <2>6. (\A id \in PinnedFiles : id <= b.ids)'
    BY <1>0, <1>1, <1>7, <1>8, <2>3 DEF Apart
  <2>7. QED
    BY <2>4, <2>5, <2>6 DEF Apart
<1>14. NothingIsLost' /\ NoFileLeaks'
  BY <1>0, <1>1, <1>5, <1>7, <1>9 DEF FilesAreKept, NothingIsLost, NoFileLeaks
<1>15. QED
  BY <1>10, <1>11, <1>12, <1>13, <1>14 DEF SpillInv, FilesAreKept

(* What a save lets go of goes from the disk, unless the window or another *)
(* save has it.                                                            *)
LEMMA MaterialiseHolds ==
  ASSUME SpillInv, NEW v \in Saves, Materialise(v)
  PROVE  SpillInv'
<1>. DEFINE mine == leases[v].onDisk
            others == UNION {leases[w].onDisk : w \in Saves \ {v}}
<1>0. /\ Typed /\ InHand /\ Fine(b, pushed.at) /\ UpToDate(b, pushed.at)
      /\ Claimed /\ Apart /\ WrittenIsThere /\ b \in Buffer
      /\ QueuedOnce /\ NothingIsLost /\ NoFileLeaks
  BY DEF SpillInv, Fine, FilesAreKept
<1>1. /\ leases' = [leases EXCEPT ![v].onDisk = {}]
      /\ files' = files \ (mine \ (SpilledIn(b) \cup others))
      /\ UNCHANGED <<clock, pushed, b, capture, writer, queue, owner>>
  BY DEF Materialise, StillLinked
<1>2. leases' \in [Saves -> Lease] /\ PinnedFiles = mine \cup others
      /\ PinnedFiles' = others
  <2>1. leases \in [Saves -> Lease] /\ leases[v] \in Lease
    BY <1>0 DEF Typed
  <2>2. [leases[v] EXCEPT !.onDisk = {}] \in Lease
    BY <2>1 DEF Lease
  <2>3. leases' = [leases EXCEPT ![v] = [leases[v] EXCEPT !.onDisk = {}]]
    BY <1>1, <2>1
  <2>4. /\ leases' \in [Saves -> Lease]
        /\ leases'[v] = [leases[v] EXCEPT !.onDisk = {}]
        /\ \A w \in Saves : w # v => leases'[w] = leases[w]
    BY <2>1, <2>2, <2>3
  <2>5. leases'[v].onDisk = {}
    BY <2>1, <2>4 DEF Lease
  <2>6. PinnedFiles' = others
    <3>1. \A w \in Saves : leases'[w].onDisk = IF w = v THEN {} ELSE leases[w].onDisk
      BY <2>4, <2>5
    <3>2. \A id : id \in PinnedFiles' <=> \E w \in Saves : id \in leases'[w].onDisk
      BY DEF PinnedFiles
    <3>3. \A id : id \in others <=> \E w \in Saves : w # v /\ id \in leases[w].onDisk
      OBVIOUS
    <3>. HIDE DEF others
    <3>4. \A id : id \in PinnedFiles' <=> id \in others
      BY <3>1, <3>2, <3>3
    <3>5. QED
      BY <3>4
  <2>7. QED
    BY <2>4, <2>6 DEF PinnedFiles
<1>. HIDE DEF mine, others
<1>3. Flight' = Flight /\ (BufferLives' <=> BufferLives)
  BY <1>1 DEF Flight, BufferLives
<1>4. files' \subseteq Nat
  BY <1>0, <1>1 DEF Typed
<1>5. Typed' /\ InHand' /\ QueuedOnce' /\ Claimed'
  BY <1>0, <1>1, <1>2, <1>3, <1>4 DEF Typed, InHand, QueuedOnce, Claimed
<1>6. Apart'
  BY <1>0, <1>1, <1>2, <1>3 DEF Apart
<1>7. WrittenIsThere'
  <2>1. writer.segment # None => writer.segment \notin mine
    BY <1>0, <1>2 DEF Apart, Flight
  <2>2. QED
    BY <1>0, <1>1, <2>1 DEF WrittenIsThere
<1>8. NothingIsLost' /\ NoFileLeaks'
  <2>1. SpilledIn(b') = SpilledIn(b)
    BY <1>1
  <2>2. QED
    BY <1>0, <1>1, <1>2, <2>1 DEF NothingIsLost, NoFileLeaks
<1>9. QED
  BY <1>0, <1>1, <1>5, <1>6, <1>7, <1>8, UnchangedBuffer DEF SpillInv, FilesAreKept

LEMMA FinishSaveHolds ==
  ASSUME SpillInv, NEW v \in Saves, FinishSave(v)
  PROVE  SpillInv'
<1>0. /\ Typed /\ InHand /\ Fine(b, pushed.at) /\ UpToDate(b, pushed.at)
      /\ Claimed /\ Apart /\ WrittenIsThere /\ b \in Buffer
      /\ QueuedOnce /\ NothingIsLost /\ NoFileLeaks
  BY DEF SpillInv, Fine, FilesAreKept
<1>1. /\ leases[v].onDisk = {} /\ leases' = [leases EXCEPT ![v] = NoLease]
      /\ UNCHANGED <<clock, pushed, b, capture, writer, queue, files, owner>>
  BY DEF FinishSave
<1>2. leases' \in [Saves -> Lease] /\ PinnedFiles' = PinnedFiles
  <2>1. leases \in [Saves -> Lease] /\ NoLease \in Lease /\ NoLease.onDisk = {}
    BY <1>0 DEF Typed, NoLease, Lease
  <2>2. /\ leases' \in [Saves -> Lease] /\ leases'[v].onDisk = {}
        /\ \A w \in Saves : w # v => leases'[w] = leases[w]
    BY <1>1, <2>1
  <2>3. \A w \in Saves : leases'[w].onDisk = leases[w].onDisk
    BY <1>1, <2>2
  <2>4. QED
    BY <2>2, <2>3 DEF PinnedFiles
<1>3. Flight' = Flight /\ (BufferLives' <=> BufferLives)
      /\ SpilledIn(b') = SpilledIn(b) /\ Holds(b') = Holds(b)
  BY <1>1 DEF Flight, BufferLives
<1>4. Typed' /\ InHand' /\ QueuedOnce' /\ Claimed' /\ WrittenIsThere'
  BY <1>0, <1>1, <1>2, <1>3 DEF Typed, InHand, QueuedOnce, Claimed, WrittenIsThere
<1>5. Apart' /\ NothingIsLost' /\ NoFileLeaks'
  BY <1>0, <1>1, <1>2, <1>3 DEF Apart, NothingIsLost, NoFileLeaks
<1>6. QED
  BY <1>0, <1>1, <1>4, <1>5, UnchangedBuffer DEF SpillInv, FilesAreKept

(* Every step, and so every state. *)
LEMMA SpillStep == SpillInv /\ [Next]_vars => SpillInv'
<1>. SUFFICES ASSUME SpillInv, [Next]_vars PROVE SpillInv'
  OBVIOUS
<1>1. CASE Tick \/ PushAudio \/ NoteSourceSilence
  BY <1>1, TickHolds, PushAudioHolds, SilenceHolds
<1>2. CASE Spill
  BY <1>2, CaptureOffersHolds, CaptureSendsHolds, CaptureDeclinesHolds DEF Spill
<1>3. CASE WriterStep
  BY <1>3, ReceiveHolds, WriteHolds, UpgradeHolds, MarkSpilledHolds, GiveUpHolds,
     WriterOffersHolds, WriterSendsHolds, WriterDeclinesHolds, WriterReleasesHolds
     DEF WriterStep
<1>4. CASE EndRecording \/ Joined
  BY <1>4, EndRecordingHolds, JoinedHolds
<1>5. CASE \E key \in BOOLEAN : PushVideo(key)
  BY <1>5, PushVideoHolds
<1>6. CASE \E v \in Saves : Save(v)
  BY <1>6, TakeLeaseHolds, MaterialiseHolds, FinishSaveHolds DEF Save
<1>7. CASE UNCHANGED vars
  BY <1>7, StutterHolds
<1>8. QED
  BY <1>1, <1>2, <1>3, <1>4, <1>5, <1>6, <1>7 DEF Next

LEMMA SpillAlways == Spec => []SpillInv
<1>1. Init => SpillInv
  BY SpillInit
<1>2. SpillInv /\ [Next]_vars => SpillInv'
  BY SpillStep
<1>3. QED
  BY <1>1, <1>2, PTL DEF Spec

(* However saves, evictions, the disk and the end of the recording fall    *)
(* together, a segment is with the writer once, every segment that has     *)
(* left memory has its file for as long as the window or a save's lease    *)
(* may read it, and no file is left behind (buffer.rs's spill_if_needed,   *)
(* spill_loop, mark_spilled and the Drop of a spilled segment).            *)
THEOREM FilesAreHeld == Spec => []FilesAreKept
<1>1. SpillInv => FilesAreKept
  BY DEF SpillInv
<1>2. QED
  BY <1>1, SpillAlways, PTL

-----------------------------------------------------------------------------
(* What a save is told.                                                    *)

LEMMA NewestIsLast ==
  ASSUME NEW at \in Nat, NEW x, Fine(x, at), NEW i \in DOMAIN Segments(x)
  PROVE  Segments(x)[i].last <= LatestPresentation(x)
<1>0. /\ x \in Buffer /\ x.sealed \in Seq(Segment) /\ InOrder(x, at)
      /\ Segments(x) # <<>>
  <2>1. x \in Buffer
    BY DEF Fine
  <2>2. Segments(x) \in Seq(Segment)
    BY <2>1 DEF Segments, Buffer
  <2>3. QED
    BY <2>1, <2>2 DEF Fine, Buffer
<1>1. CASE x.open = NoSegment
  <2>1. Segments(x) = x.sealed /\ i \in DOMAIN x.sealed /\ i \in Nat
    BY <1>0, <1>1 DEF Segments
  <2>2. LatestPresentation(x) = x.sealed[Len(x.sealed)].last
    BY <1>0, <1>1, NewestSegment
  <2>3. Len(x.sealed) \in DOMAIN x.sealed /\ i <= Len(x.sealed)
        /\ Len(x.sealed) \in Nat
    BY <1>0, <2>1
  <2>4. CASE i = Len(x.sealed)
    <3>1. x.sealed[i] \in Segment
      BY <1>0, <2>1
    <3>2. x.sealed[i].last \in Nat
      BY <3>1 DEF Segment
    <3>3. QED
      BY <2>1, <2>2, <2>4, <3>2
  <2>5. CASE i < Len(x.sealed)
    BY <1>0, <2>1, <2>2, <2>3, <2>5 DEF InOrder
  <2>6. QED
    BY <2>1, <2>3, <2>4, <2>5
<1>2. CASE x.open # NoSegment
  <2>1. x.open \in Segment /\ x.open.last \in Nat
    BY <1>0, <1>2 DEF Buffer, Segment
  <2>2. LatestPresentation(x) = x.open.last
    BY <1>0, <1>2, NewestSegment
  <2>3. \/ Segments(x)[i] = x.open
        \/ i \in DOMAIN x.sealed /\ Segments(x)[i] = x.sealed[i]
    BY <1>0, <1>2, <2>1 DEF Segments
  <2>4. QED
    BY <1>0, <1>2, <2>1, <2>2, <2>3 DEF InOrder
<1>3. QED
  BY <1>1, <1>2

LEMMA SaveIsWithin ==
  ASSUME NEW at \in Nat, NEW x, Fine(x, at), NEW length \in Lengths,
         Segments(x) # <<>>
  PROVE  /\ Covered(Planned(x, length)).end \in Nat
         /\ Covered(Planned(x, length)).end <= LatestPresentation(x)
<1>. DEFINE all == Segments(x)
            plan == Planned(x, length)
<1>1. all \in Seq(Segment) /\ x \in Buffer
  BY DEF Fine, Segments, Buffer
<1>2. PICK first \in DOMAIN all, final \in DOMAIN all :
         first <= final /\ plan = SubSeq(all, first, final)
  BY <1>1, PlannedIsHeld
<1>3. Covered(plan).end = plan[Len(plan)].last
  BY DEF Covered, Last
<1>. HIDE DEF all, plan
<1>4. plan[Len(plan)] = all[final]
  <2>1. first \in Nat /\ final \in Nat /\ final <= Len(all) /\ first >= 1
    BY <1>1, <1>2
  <2>2. Len(plan) = final - first + 1
    BY <1>1, <1>2, <2>1
  <2>3. plan[final - first + 1] = all[final]
    BY <1>1, <1>2, <2>1
  <2>4. QED
    BY <2>2, <2>3
<1>5. all[final].last \in Nat
  <2>1. all[final] \in Segment
    BY <1>1, <1>2
  <2>2. QED
    BY <2>1 DEF Segment
<1>6. all[final].last <= LatestPresentation(x)
  BY <1>2, NewestIsLast DEF all
<1>7. QED
  BY <1>3, <1>4, <1>5, <1>6 DEF plan

LEMMA ToldInFull ==
  ASSUME SpillInv, NEW length \in Lengths, ~Refused(b, length), b.ceilingGap = None,
         b.silence = clock - pushed.at, IsComplete(b, length)
  PROVE  clock - Covered(Planned(b, length)).end <= SegmentDuration
<1>. DEFINE end == Covered(Planned(b, length)).end
            newest == LatestPresentation(b)
            quiet == IF b.silence > SegmentDuration THEN b.silence ELSE 0
            gap == IF b.sourceGap = None THEN 0 ELSE b.sourceGap
<1>1. /\ clock \in Nat /\ pushed.at \in Nat /\ Fine(b, pushed.at) /\ b \in Buffer
      /\ UpToDate(b, pushed.at) /\ Segments(b) # <<>>
      /\ SegmentDuration \in Nat
  BY ReplayConfigOK DEF SpillInv, Typed, Pushed, Fine, Refused
<1>2. end \in Nat /\ end <= newest /\ newest \in Nat
  BY <1>1, SaveIsWithin, NewestSegment
<1>3. end >= newest + StaleBy(b)
  BY DEF IsComplete, Requested, Held
<1>4. /\ quiet \in Nat /\ gap \in Nat /\ b.silence \in Int
      /\ b.sourceGap # None => gap > 0
  BY <1>1 DEF Buffer
<1>5. StaleBy(b) = Max({quiet, gap})
  BY DEF StaleBy
<1>. HIDE DEF quiet, gap, end, newest
<1>6. quiet = 0 /\ gap = 0
  <2>1. StaleBy(b) = IF quiet >= gap THEN quiet ELSE gap
    BY <1>4, <1>5, MaxOfTwo
  <2>2. QED
    BY <1>2, <1>3, <1>4, <2>1
<1>7. StaleBy(b) = 0
  BY <1>4, <1>5, <1>6, MaxOfTwo
<1>8. end = newest
  BY <1>2, <1>3, <1>7
<1>9. b.sourceGap = None /\ clock - pushed.at <= SegmentDuration
  <2>1. b.sourceGap = None
    BY <1>4, <1>6
  <2>2. b.silence <= SegmentDuration
    BY <1>1, <1>4, <1>6 DEF quiet
  <2>3. QED
    BY <2>1, <2>2
<1>10. newest = pushed.at
  <2>1. b.open # NoSegment /\ b.open.last = pushed.at
    BY <1>1, <1>9 DEF UpToDate, Segments
  <2>2. QED
    BY <1>1, <2>1, NewestSegment DEF newest
<1>11. clock - end <= SegmentDuration
  BY <1>8, <1>9, <1>10
<1>12. QED
  BY <1>11 DEF end

(* A save that plan_lease says is complete ends within a segment of now,   *)
(* whenever the source's silence is what the recording loop last said and  *)
(* no picture is being thrown away at the ceiling (buffer.rs's stale_by    *)
(* and is_complete): what it is short of, it says.                         *)
THEOREM CompleteMeansCurrent == Spec => []CompleteIsCurrent
<1>1. SpillInv => CompleteIsCurrent
  BY ToldInFull DEF CompleteIsCurrent
<1>2. QED
  BY <1>1, SpillAlways, PTL

-----------------------------------------------------------------------------
(* What a list of segments has in memory, as a sum.                        *)

LEMMA AllNumbers ==
  ASSUME NEW S \in SUBSET Nat, 0 \in S, \A n \in S : n + 1 \in S
  PROVE  S = Nat
<1>. DEFINE E == Nat \ S
<1>1. SUFFICES ASSUME E # {} PROVE FALSE
  OBVIOUS
<1>2. PICK x \in E : \A y \in E : ~ (<<y, x>> \in Below)
  BY <1>1, BelowIsWellFounded, WFMin
<1>3. \A y \in E : x <= y
  <2>1. E \in SUBSET Nat
    OBVIOUS
  <2>. HIDE DEF E
  <2>2. QED
    BY <1>2, <2>1, NotBelow
<1>4. x # 0 /\ x \in Nat
  OBVIOUS
<1>5. x - 1 \in Nat /\ x - 1 \notin E
  BY <1>3, <1>4
<1>6. (x - 1) + 1 \in S
  BY <1>5
<1>7. QED
  BY <1>4, <1>6

(* f is the sum of r over the first numbers, up to n. *)
SumsTo(f, r, n) ==
    /\ f = [k \in 0 .. n |-> f[k]]
    /\ f[0] = 0
    /\ \A k \in 1 .. n : f[k] = f[k - 1] + r[k]

LEMMA SumIsThere ==
  ASSUME NEW r, \A k \in Nat : r[k] \in Nat
  PROVE  \A n \in Nat : \E f \in [0 .. n -> Nat] : SumsTo(f, r, n)
<1>. DEFINE S == {n \in Nat : \E f \in [0 .. n -> Nat] : SumsTo(f, r, n)}
<1>1. 0 \in S
  <2>. DEFINE f == [k \in 0 .. 0 |-> 0]
  <2>1. f \in [0 .. 0 -> Nat] /\ SumsTo(f, r, 0)
    BY DEF SumsTo
  <2>2. QED
    BY <2>1
<1>2. ASSUME NEW n \in S PROVE n + 1 \in S
  <2>1. n \in Nat /\ n + 1 \in Nat
    OBVIOUS
  <2>2. PICK f \in [0 .. n -> Nat] : SumsTo(f, r, n)
    OBVIOUS
  <2>. DEFINE g == [k \in 0 .. n + 1 |-> IF k = n + 1 THEN f[n] + r[n + 1] ELSE f[k]]
  <2>3. f[n] + r[n + 1] \in Nat /\ \A k \in 0 .. n : f[k] \in Nat
    BY <2>1, <2>2
  <2>4. g \in [0 .. n + 1 -> Nat]
    BY <2>1, <2>3
  <2>5. SumsTo(g, r, n + 1)
    <3>1. /\ g[n + 1] = f[n] + r[n + 1]
          /\ \A k \in 0 .. n : g[k] = f[k]
      BY <2>1
    <3>2. g = [k \in 0 .. n + 1 |-> g[k]]
      BY <2>4
    <3>3. g[0] = 0
      BY <2>1, <2>2, <3>1 DEF SumsTo
    <3>4. ASSUME NEW k \in 1 .. n + 1 PROVE g[k] = g[k - 1] + r[k]
      <4>1. CASE k = n + 1
        BY <2>1, <3>1, <4>1
      <4>2. CASE k \in 1 .. n
        <5>1. k \in 0 .. n /\ k - 1 \in 0 .. n
          BY <2>1, <4>2
        <5>2. f[k] = f[k - 1] + r[k]
          BY <2>2, <4>2 DEF SumsTo
        <5>. HIDE DEF g
        <5>3. QED
          BY <3>1, <5>1, <5>2
      <4>3. QED
        BY <2>1, <4>1, <4>2
    <3>. HIDE DEF g
    <3>5. QED
      BY <3>2, <3>3, <3>4 DEF SumsTo
  <2>. HIDE DEF g
  <2>6. QED
    BY <2>1, <2>4, <2>5
<1>3. S = Nat
  <2>1. S \in SUBSET Nat
    OBVIOUS
  <2>. HIDE DEF S
  <2>2. QED
    BY <1>1, <1>2, <2>1, AllNumbers
<1>4. QED
  BY <1>3

LEMMA BytesAreNumbers ==
  ASSUME NEW s \in Segment
  PROVE  ResidentBytes(s) \in Nat
BY DEF ResidentBytes, Segment

(* The sum that ResidentIn names. *)
LEMMA ResidentSum ==
  ASSUME NEW list \in Seq(Segment)
  PROVE  \E f \in [0 .. Len(list) -> Nat] :
            /\ ResidentIn(list) = f[Len(list)]
            /\ f[0] = 0
            /\ \A k \in 1 .. Len(list) : f[k] = f[k - 1] + ResidentBytes(list[k])
<1>. DEFINE n == Len(list)
            Step(f) == [k \in 0 .. n |-> IF k = 0 THEN 0
                                         ELSE f[k - 1] + ResidentBytes(list[k])]
            sum == CHOOSE f : f = Step(f)
            r == [k \in Nat |-> IF k \in 1 .. n THEN ResidentBytes(list[k]) ELSE 0]
<1>1. n \in Nat /\ \A k \in 1 .. n : list[k] \in Segment
  OBVIOUS
<1>2. \A k \in Nat : r[k] \in Nat
  BY <1>1, BytesAreNumbers
<1>3. ResidentIn(list) = sum[n]
  BY DEF ResidentIn
<1>4. PICK f \in [0 .. n -> Nat] : SumsTo(f, r, n)
  <2>. HIDE DEF r, n
  <2>1. QED
    BY <1>1, <1>2, SumIsThere
<1>5. f = Step(f)
  <2>0. \A k \in 1 .. n : r[k] = ResidentBytes(list[k])
    BY <1>1
  <2>1. f[0] = 0 /\ \A k \in 1 .. n : f[k] = f[k - 1] + ResidentBytes(list[k])
    <3>. HIDE DEF r, n
    <3>. QED
      BY <1>4, <2>0 DEF SumsTo
  <2>2. \A k \in 0 .. n : f[k] = Step(f)[k]
    BY <1>1, <2>1
  <2>3. QED
    BY <1>4, <2>2
<1>6. sum = Step(sum)
  BY <1>5
<1>7. sum[0] = 0 /\ \A k \in 1 .. n : sum[k] = sum[k - 1] + ResidentBytes(list[k])
  <2>. HIDE DEF sum
  <2>1. \A k \in 0 .. n : sum[k] = Step(sum)[k]
    BY <1>6
  <2>2. QED
    BY <1>1, <2>1
<1>. HIDE DEF sum, r
<1>8. \A k \in 0 .. n : sum[k] \in Nat
  <2>. DEFINE S == {k \in Nat : k \in 0 .. n => sum[k] \in Nat}
  <2>1. 0 \in S
    BY <1>7
  <2>2. ASSUME NEW k \in S PROVE k + 1 \in S
    <3>1. CASE k + 1 \in 0 .. n
      <4>1. k + 1 \in 1 .. n /\ k \in 0 .. n /\ (k + 1) - 1 = k
        BY <1>1, <3>1
      <4>2. list[k + 1] \in Segment
        BY <1>1, <4>1
      <4>3. sum[k + 1] = sum[k] + ResidentBytes(list[k + 1])
        BY <1>7, <4>1
      <4>4. QED
        BY <4>1, <4>2, <4>3, BytesAreNumbers
    <3>2. QED
      BY <3>1
  <2>3. S = Nat
    <3>1. S \in SUBSET Nat
      OBVIOUS
    <3>. HIDE DEF S
    <3>2. QED
      BY <2>1, <2>2, <3>1, AllNumbers
  <2>4. QED
    BY <1>1, <2>3
<1>9. sum \in [0 .. n -> Nat]
  <2>1. sum = [k \in 0 .. n |-> IF k = 0 THEN 0 ELSE sum[k - 1] + ResidentBytes(list[k])]
    BY <1>6
  <2>2. DOMAIN sum = 0 .. n /\ sum = [k \in 0 .. n |-> sum[k]]
    BY <2>1
  <2>3. QED
    BY <1>8, <2>2
<1>10. QED
  BY <1>3, <1>7, <1>9

(* A list no heavier than a part of another, place by place, is no heavier *)
(* than that other list.                                                   *)
LEMMA LighterPart ==
  ASSUME NEW list \in Seq(Segment), NEW part \in Seq(Segment), NEW n \in Nat,
         n + Len(part) = Len(list),
         \A k \in 1 .. Len(part) : ResidentBytes(part[k]) <= ResidentBytes(list[n + k])
  PROVE  ResidentIn(part) <= ResidentIn(list)
<1>1. PICK f \in [0 .. Len(list) -> Nat] :
         /\ ResidentIn(list) = f[Len(list)]
         /\ f[0] = 0
         /\ \A k \in 1 .. Len(list) : f[k] = f[k - 1] + ResidentBytes(list[k])
  BY ResidentSum
<1>2. PICK g \in [0 .. Len(part) -> Nat] :
         /\ ResidentIn(part) = g[Len(part)]
         /\ g[0] = 0
         /\ \A k \in 1 .. Len(part) : g[k] = g[k - 1] + ResidentBytes(part[k])
  BY ResidentSum
<1>. DEFINE S == {k \in Nat : k \in 0 .. Len(part) => g[k] <= f[n + k]}
<1>3. 0 \in S
  BY <1>1, <1>2
<1>4. ASSUME NEW k \in S PROVE k + 1 \in S
  <2>1. CASE k + 1 \in 0 .. Len(part)
    <3>1. /\ k + 1 \in 1 .. Len(part) /\ k \in 0 .. Len(part)
          /\ n + (k + 1) \in 1 .. Len(list) /\ n + k \in 0 .. Len(list)
          /\ (k + 1) - 1 = k /\ (n + (k + 1)) - 1 = n + k
      BY <2>1
    <3>2. g[k + 1] = g[k] + ResidentBytes(part[k + 1])
      BY <1>2, <3>1
    <3>3. f[n + (k + 1)] = f[n + k] + ResidentBytes(list[n + (k + 1)])
      BY <1>1, <3>1
    <3>4. g[k] <= f[n + k] /\ g[k] \in Nat /\ f[n + k] \in Nat
      BY <1>1, <1>2, <3>1
    <3>5. ResidentBytes(part[k + 1]) <= ResidentBytes(list[n + (k + 1)])
      BY <3>1
    <3>6. part[k + 1] \in Segment /\ list[n + (k + 1)] \in Segment
      BY <3>1
    <3>7. ResidentBytes(part[k + 1]) \in Nat /\ ResidentBytes(list[n + (k + 1)]) \in Nat
      BY <3>6, BytesAreNumbers
    <3>8. g[k + 1] <= f[n + (k + 1)]
      BY <3>2, <3>3, <3>4, <3>5, <3>7
    <3>9. QED
      BY <3>8
  <2>2. QED
    BY <2>1
<1>5. S = Nat
  <2>1. S \in SUBSET Nat
    OBVIOUS
  <2>. HIDE DEF S
  <2>2. QED
    BY <1>3, <1>4, <2>1, AllNumbers
<1>6. Len(part) \in S
  BY <1>5
<1>7. QED
  BY <1>1, <1>2, <1>6

LEMMA ResidentIsANumber ==
  ASSUME NEW list \in Seq(Segment)
  PROVE  ResidentIn(list) \in Nat
<1>1. PICK f \in [0 .. Len(list) -> Nat] : ResidentIn(list) = f[Len(list)]
  BY ResidentSum
<1>2. Len(list) \in 0 .. Len(list)
  OBVIOUS
<1>3. QED
  BY <1>1, <1>2

LEMMA NothingWeighsNothing == ResidentIn(<<>>) = 0
<1>1. <<>> \in Seq(Segment) /\ Len(<<>>) = 0
  OBVIOUS
<1>2. PICK f \in [0 .. Len(<<>>) -> Nat] : ResidentIn(<<>>) = f[Len(<<>>)] /\ f[0] = 0
  BY <1>1, ResidentSum
<1>3. QED
  BY <1>1, <1>2

LEMMA OneMoreSegment ==
  ASSUME NEW list \in Seq(Segment), NEW s \in Segment
  PROVE  ResidentIn(Append(list, s)) = ResidentIn(list) + ResidentBytes(s)
<1>. DEFINE more == Append(list, s)
<1>1. /\ more \in Seq(Segment) /\ Len(more) = Len(list) + 1 /\ Len(list) \in Nat
      /\ \A k \in 1 .. Len(list) : more[k] = list[k]
      /\ more[Len(list) + 1] = s
  OBVIOUS
<1>. HIDE DEF more
<1>2. PICK f \in [0 .. Len(more) -> Nat] :
         /\ ResidentIn(more) = f[Len(more)]
         /\ f[0] = 0
         /\ \A k \in 1 .. Len(more) : f[k] = f[k - 1] + ResidentBytes(more[k])
  BY <1>1, ResidentSum
<1>3. PICK g \in [0 .. Len(list) -> Nat] :
         /\ ResidentIn(list) = g[Len(list)]
         /\ g[0] = 0
         /\ \A k \in 1 .. Len(list) : g[k] = g[k - 1] + ResidentBytes(list[k])
  BY ResidentSum
<1>. DEFINE S == {k \in Nat : k \in 0 .. Len(list) => g[k] = f[k]}
<1>4. 0 \in S
  BY <1>2, <1>3
<1>5. ASSUME NEW k \in S PROVE k + 1 \in S
  <2>1. CASE k + 1 \in 0 .. Len(list)
    <3>1. /\ k + 1 \in 1 .. Len(list) /\ k \in 0 .. Len(list)
          /\ k + 1 \in 1 .. Len(more) /\ (k + 1) - 1 = k
      BY <1>1, <2>1
    <3>2. g[k + 1] = g[k] + ResidentBytes(list[k + 1])
      BY <1>3, <3>1
    <3>3. f[k + 1] = f[k] + ResidentBytes(more[k + 1])
      BY <1>2, <3>1
    <3>4. g[k + 1] = f[k + 1]
      BY <1>1, <3>1, <3>2, <3>3
    <3>5. QED
      BY <3>4
  <2>2. QED
    BY <2>1
<1>6. S = Nat
  <2>1. S \in SUBSET Nat
    OBVIOUS
  <2>. HIDE DEF S
  <2>2. QED
    BY <1>4, <1>5, <2>1, AllNumbers
<1>7. g[Len(list)] = f[Len(list)]
  BY <1>1, <1>6
<1>8. f[Len(list) + 1] = f[Len(list)] + ResidentBytes(s)
  <2>1. Len(list) + 1 \in 1 .. Len(more) /\ (Len(list) + 1) - 1 = Len(list)
    BY <1>1
  <2>2. QED
    BY <1>1, <1>2, <2>1
<1>9. QED
  BY <1>1, <1>2, <1>3, <1>7, <1>8 DEF more

LEMMA OldestGone ==
  ASSUME NEW list \in Seq(Segment), NEW n \in 0 .. Len(list)
  PROVE  ResidentIn(SubSeq(list, n + 1, Len(list))) <= ResidentIn(list)
<1>. DEFINE rest == SubSeq(list, n + 1, Len(list))
<1>1. /\ rest \in Seq(Segment) /\ n \in Nat /\ n + Len(rest) = Len(list)
      /\ Len(rest) \in Nat
      /\ \A k \in 1 .. Len(rest) : rest[k] = list[n + k] /\ list[n + k] \in Segment
  OBVIOUS
<1>. HIDE DEF rest
<1>2. \A k \in 1 .. Len(rest) : ResidentBytes(rest[k]) <= ResidentBytes(list[n + k])
  <2>1. SUFFICES ASSUME NEW k \in 1 .. Len(rest)
                 PROVE  ResidentBytes(rest[k]) <= ResidentBytes(list[n + k])
    OBVIOUS
  <2>2. rest[k] = list[n + k] /\ ResidentBytes(list[n + k]) \in Nat
    BY <1>1, BytesAreNumbers
  <2>3. QED
    BY <2>2
<1>3. QED
  BY <1>1, <1>2, LighterPart DEF rest

(* What the buffer owns, as of one list. *)
LEMMA OwnedIsASum ==
  ASSUME NEW x \in Buffer
  PROVE  /\ OwnedBytes(x) = ResidentIn(Segments(x)) /\ OwnedBytes(x) \in Nat
         /\ SealedBytes(x) \in Nat
         /\ Segments(x) \in Seq(Segment)
<1>1. Segments(x) \in Seq(Segment) /\ x.sealed \in Seq(Segment)
  BY DEF Segments, Buffer
<1>2. ResidentIn(Segments(x)) \in Nat /\ SealedBytes(x) \in Nat
  BY <1>1, ResidentIsANumber DEF SealedBytes
<1>3. CASE x.open = NoSegment
  <2>1. OwnedBytes(x) = SealedBytes(x) + 0
    BY <1>3 DEF OwnedBytes
  <2>2. SealedBytes(x) = ResidentIn(Segments(x))
    BY <1>3 DEF Segments, SealedBytes
  <2>3. QED
    BY <1>1, <1>2, <2>1, <2>2
<1>4. CASE x.open # NoSegment
  BY <1>1, <1>2, <1>4, OneMoreSegment DEF OwnedBytes, Segments, SealedBytes, Buffer
<1>5. QED
  BY <1>1, <1>2, <1>3, <1>4

-----------------------------------------------------------------------------
(* The window.                                                             *)

(* Every segment has pictures, no more than there were, and ends before    *)
(* the next begins; numbers are given one to a picture at most.            *)
Sized(x, now, video, audio) ==
    /\ x.ids <= video
    /\ x.leased \subseteq 1 .. x.ids /\ x.spilling \subseteq 1 .. x.ids
    /\ x.silence \in 0 .. now
    /\ x.sourceGap # None => x.sourceGap <= now
    /\ \A i \in DOMAIN Segments(x) :
          /\ Segments(x)[i].id > 0
          /\ Segments(x)[i].start <= Segments(x)[i].last
          /\ Segments(x)[i].video \in 1 .. video
          /\ Segments(x)[i].audio <= audio
    /\ \A i \in DOMAIN Segments(x) :
          i > 1 => Segments(x)[i - 1].last <= Segments(x)[i].start

(* It reaches back to where it began, or a window.                         *)
Reaches(x) ==
    /\ Segments(x) = <<>> <=> x.began = None
    /\ Segments(x) # <<>> =>
          \/ Segments(x)[1].start <= x.began
          \/ Segments(x)[1].start + Window <= LatestPresentation(x)

(* No picture was thrown away between two segments, and the source was not *)
(* silent there for longer than a segment.                                 *)
Tight(x) ==
    /\ \A i \in DOMAIN Segments(x) : i > 1 =>
          /\ Segments(x)[i - 1].id \notin x.holes
          /\ Segments(x)[i].start - Segments(x)[i - 1].last <= SegmentDuration
    /\ \A id \in x.holes : id <= x.ids

(* And what comes next belongs to what is held, or the buffer is in a gap  *)
(* and will begin again after it.                                          *)
Unbroken(x) ==
    /\ Tight(x)
    /\ IF x.open = NoSegment THEN x.sealed = <<>> \/ AnyGap(x)
       ELSE /\ x.ceilingGap = None /\ x.sourceGap = None
            /\ x.open.id \notin x.holes

(* Of pictures alone, a segment never outgrows the ceiling, and all of     *)
(* them by no more than the one a segment begins with.                     *)
Light(x) ==
    /\ OwnedBytes(x) <= MemoryCeiling + 1
    /\ \A i \in DOMAIN Segments(x) : Segments(x)[i].video <= MemoryCeiling

Good(x, at, video, audio) ==
    Fine(x, at) /\ Sized(x, at, video, audio) /\ Reaches(x)

(* y is x with some of the oldest sealed segments dropped.                 *)
Cut(x, y) ==
    /\ \E n \in 0 .. Len(x.sealed) :
          /\ y.sealed = SubSeq(x.sealed, n + 1, Len(x.sealed))
          /\ Segments(y) = SubSeq(Segments(x), n + 1, Len(Segments(x)))
    /\ y.open = x.open /\ y.ids = x.ids /\ y.holes = x.holes
    /\ y.ceilingGap = x.ceilingGap /\ y.sourceGap = x.sourceGap
    /\ y.silence = x.silence /\ y.spilling = x.spilling
    /\ y.leased \subseteq x.leased \cup {s.id : s \in Holds(x)}

LEMMA SegmentsAre ==
  ASSUME NEW x \in Buffer
  PROVE  /\ Segments(x) \in Seq(Segment)
         /\ x.sealed \in Seq(Segment) /\ Len(x.sealed) \in Nat
         /\ DOMAIN x.sealed = 1 .. Len(x.sealed)
         /\ DOMAIN Segments(x) = 1 .. Len(Segments(x))
         /\ \A i \in DOMAIN x.sealed : /\ i \in DOMAIN Segments(x)
                                        /\ Segments(x)[i] = x.sealed[i]
         /\ x.open = NoSegment => Segments(x) = x.sealed
         /\ x.open # NoSegment => /\ x.open \in Segment
                                  /\ Len(Segments(x)) = Len(x.sealed) + 1
                                  /\ Segments(x)[Len(x.sealed) + 1] = x.open
                                  /\ Segments(x) # <<>>
<1>1. /\ x.sealed \in Seq(Segment) /\ Len(x.sealed) \in Nat
      /\ DOMAIN x.sealed = 1 .. Len(x.sealed)
  BY DEF Buffer
<1>2. CASE x.open = NoSegment
  BY <1>1, <1>2 DEF Segments
<1>3. CASE x.open # NoSegment
  <2>1. x.open \in Segment /\ Segments(x) = Append(x.sealed, x.open)
    BY <1>3 DEF Segments, Buffer
  <2>2. /\ Segments(x) \in Seq(Segment) /\ Len(Segments(x)) = Len(x.sealed) + 1
        /\ DOMAIN Segments(x) = 1 .. Len(x.sealed) + 1
        /\ \A i \in 1 .. Len(x.sealed) : Segments(x)[i] = x.sealed[i]
        /\ Segments(x)[Len(x.sealed) + 1] = x.open
    BY <1>1, <2>1
  <2>3. Segments(x) # <<>>
    BY <1>1, <2>2
  <2>4. QED
    BY <1>1, <1>3, <2>1, <2>2, <2>3
<1>4. QED
  BY <1>2, <1>3

LEMMA HeldIsListed ==
  ASSUME NEW x \in Buffer
  PROVE  /\ \A s \in Holds(x) : \E i \in DOMAIN Segments(x) : s = Segments(x)[i]
         /\ \A i \in DOMAIN Segments(x) : Segments(x)[i] \in Holds(x)
<1>1. /\ DOMAIN Segments(x) = 1 .. Len(Segments(x)) /\ DOMAIN x.sealed = 1 .. Len(x.sealed)
      /\ Len(x.sealed) \in Nat
  BY SegmentsAre
<1>2. CASE x.open = NoSegment
  BY <1>1, <1>2, SegmentsAre, HoldsAll
<1>3. CASE x.open # NoSegment
  <2>0. Len(Segments(x)) = Len(x.sealed) + 1
    BY <1>3, SegmentsAre
  <2>1. \A i \in DOMAIN Segments(x) : i \in DOMAIN x.sealed \/ i = Len(x.sealed) + 1
    BY <1>1, <2>0
  <2>2. /\ \A i \in DOMAIN x.sealed : i \in DOMAIN Segments(x)
                                        /\ Segments(x)[i] = x.sealed[i]
        /\ Segments(x)[Len(x.sealed) + 1] = x.open
    BY <1>3, SegmentsAre
  <2>3. Len(x.sealed) + 1 \in DOMAIN Segments(x)
    BY <1>1, <2>0
  <2>4. QED
    BY <1>3, <2>1, <2>2, <2>3, HoldsAll
<1>4. QED
  BY <1>2, <1>3

LEMMA TailOfSegments ==
  ASSUME NEW x \in Buffer, NEW y \in Buffer, NEW n \in 0 .. Len(x.sealed),
         y.sealed = SubSeq(x.sealed, n + 1, Len(x.sealed)), y.open = x.open
  PROVE  /\ Segments(y) = SubSeq(Segments(x), n + 1, Len(Segments(x)))
         /\ Len(y.sealed) = Len(x.sealed) - n
<1>1. x.sealed \in Seq(Segment) /\ Len(x.sealed) \in Nat /\ n \in Nat
  BY SegmentsAre
<1>2. Len(y.sealed) = Len(x.sealed) - n
  BY <1>1
<1>3. CASE x.open = NoSegment
  BY <1>3 DEF Segments
<1>4. CASE x.open # NoSegment
  <2>1. x.open \in Segment
    BY <1>4, SegmentsAre
  <2>. DEFINE l == Append(x.sealed, x.open)
              r == Append(SubSeq(x.sealed, n + 1, Len(x.sealed)), x.open)
  <2>2. /\ l \in Seq(Segment) /\ Len(l) = Len(x.sealed) + 1
        /\ \A i \in 1 .. Len(x.sealed) : l[i] = x.sealed[i]
        /\ l[Len(x.sealed) + 1] = x.open
    BY <1>1, <2>1
  <2>3. /\ r \in Seq(Segment) /\ Len(r) = Len(x.sealed) - n + 1
        /\ \A i \in 1 .. Len(x.sealed) - n : r[i] = x.sealed[n + i]
        /\ r[Len(x.sealed) - n + 1] = x.open
    BY <1>1, <2>1
  <2>4. Segments(x) = l /\ Segments(y) = r
    BY <1>4 DEF Segments
  <2>. HIDE DEF l, r
  <2>5. /\ SubSeq(l, n + 1, Len(l)) \in Seq(Segment)
        /\ Len(SubSeq(l, n + 1, Len(l))) = Len(r)
        /\ \A i \in 1 .. Len(r) : SubSeq(l, n + 1, Len(l))[i] = l[n + i]
    BY <1>1, <2>2, <2>3
  <2>6. \A i \in 1 .. Len(r) : l[n + i] = r[i]
    <3>1. SUFFICES ASSUME NEW i \in 1 .. Len(r) PROVE l[n + i] = r[i]
      OBVIOUS
    <3>2. CASE i = Len(r)
      BY <1>1, <2>2, <2>3, <3>2
    <3>3. CASE i \in 1 .. Len(x.sealed) - n
      <4>1. n + i \in 1 .. Len(x.sealed)
        BY <1>1, <3>3
      <4>2. QED
        BY <2>2, <2>3, <3>3, <4>1
    <3>4. QED
      BY <1>1, <2>3, <3>2, <3>3
  <2>7. SubSeq(l, n + 1, Len(l)) = r
    <3>. DEFINE q == SubSeq(l, n + 1, Len(l))
    <3>1. q \in Seq(Segment) /\ Len(q) = Len(r) /\ \A i \in 1 .. Len(r) : q[i] = r[i]
      BY <2>5, <2>6
    <3>. HIDE DEF q
    <3>2. q = r
      BY <2>3, <3>1, SeqEqual
    <3>3. QED
      BY <3>2 DEF q
  <2>8. QED
    BY <1>2, <2>4, <2>7
<1>5. QED
  BY <1>2, <1>3, <1>4

(* What a drop from the front leaves, and what it makes of `began`. *)
LEMMA DropCuts ==
  ASSUME NEW at \in Nat, NEW x, Fine(x, at), NEW n \in 0 .. Len(x.sealed),
         NEW shortens \in BOOLEAN
  PROVE  LET y == Drop(x, n, shortens) IN
         /\ Fine(y, at) /\ Cut(x, y)
         /\ y.sealed = SubSeq(x.sealed, n + 1, Len(x.sealed))
         /\ Len(y.sealed) = Len(x.sealed) - n
         /\ y.began = IF n = 0 \/ ~shortens THEN x.began
                      ELSE IF Segments(y) = <<>> THEN None ELSE Segments(y)[1].start
<1>. DEFINE gone == {s.id : s \in {s \in ToSet(SubSeq(x.sealed, 1, n)) : ~s.spilled}}
            rest == SubSeq(x.sealed, n + 1, Len(x.sealed))
            y == [x EXCEPT !.sealed = rest, !.leased = @ \cup (gone \cap Shared)]
            first == IF Segments(y) = <<>> THEN None ELSE Held(y).start
            z == [y EXCEPT !.began = first]
            d == Drop(x, n, shortens)
<1>1. x \in Buffer /\ x.sealed \in Seq(Segment)
  BY DEF Fine, Buffer
<1>2. gone \subseteq {s.id : s \in Holds(x)}
  <2>1. \A i \in DOMAIN SubSeq(x.sealed, 1, n) : i \in DOMAIN x.sealed
                                                   /\ SubSeq(x.sealed, 1, n)[i] = x.sealed[i]
    BY <1>1
  <2>2. ToSet(SubSeq(x.sealed, 1, n)) \subseteq Holds(x)
    BY <2>1, HoldsAll DEF ToSet
  <2>3. QED
    BY <2>2
<1>3. Fine(d, at)
  BY DropTrims DEF Trims
<1>4. d = IF n = 0 \/ ~shortens THEN y ELSE z
  BY DEF Drop, y, z, rest, gone
<1>. HIDE DEF gone, d
<1>5. /\ y.sealed = rest /\ y.open = x.open /\ y.ids = x.ids /\ y.holes = x.holes
      /\ y.ceilingGap = x.ceilingGap /\ y.sourceGap = x.sourceGap
      /\ y.silence = x.silence /\ y.spilling = x.spilling
      /\ y.leased = x.leased \cup (gone \cap Shared)
      /\ y.began = x.began
  BY <1>1 DEF Buffer
<1>. HIDE DEF first
<1>6. /\ z.sealed = rest /\ z.open = x.open /\ z.ids = x.ids /\ z.holes = x.holes
      /\ z.ceilingGap = x.ceilingGap /\ z.sourceGap = x.sourceGap
      /\ z.silence = x.silence /\ z.spilling = x.spilling
      /\ z.leased = x.leased \cup (gone \cap Shared)
      /\ z.began = first /\ Segments(z) = Segments(y)
  BY <1>1 DEF Buffer, Segments
<1>7. first = IF Segments(y) = <<>> THEN None ELSE Segments(y)[1].start
  BY DEF first, Held
<1>. HIDE DEF y, z, rest
<1>8. /\ d.sealed = rest /\ d.open = x.open /\ d.ids = x.ids /\ d.holes = x.holes
      /\ d.ceilingGap = x.ceilingGap /\ d.sourceGap = x.sourceGap
      /\ d.silence = x.silence /\ d.spilling = x.spilling
      /\ d.leased = x.leased \cup (gone \cap Shared)
      /\ Segments(d) = Segments(y)
      /\ d.began = IF n = 0 \/ ~shortens THEN x.began ELSE first
  BY <1>4, <1>5, <1>6
<1>9. /\ Segments(d) = SubSeq(Segments(x), n + 1, Len(Segments(x)))
      /\ Len(d.sealed) = Len(x.sealed) - n
  BY <1>1, <1>3, <1>8, TailOfSegments DEF Fine, rest
<1>10. Cut(x, d)
  BY <1>2, <1>8, <1>9 DEF Cut, rest
<1>11. QED
  BY <1>3, <1>7, <1>8, <1>9, <1>10 DEF d, rest

(* What a cut leaves as it was. *)
LEMMA CutSized ==
  ASSUME NEW at, NEW x, Fine(x, at), NEW y \in Buffer, Cut(x, y),
         NEW now \in Nat, NEW video \in Nat, NEW audio \in Nat,
         Sized(x, now, video, audio)
  PROVE  Sized(y, now, video, audio)
<1>. DEFINE X == Segments(x)
            Y == Segments(y)
<1>0. x \in Buffer /\ x.ids \in Nat
  BY DEF Fine, Buffer
<1>1. X \in Seq(Segment) /\ DOMAIN X = 1 .. Len(X) /\ Len(X) \in Nat
      /\ Len(x.sealed) \in Nat
  BY <1>0, SegmentsAre
<1>2. PICK n \in 0 .. Len(x.sealed) : Y = SubSeq(X, n + 1, Len(X))
  BY DEF Cut
<1>n. Len(X) \in Nat /\ Len(x.sealed) \in Nat /\ Len(x.sealed) <= Len(X)
  <2>1. Len(X) \in Nat /\ Len(x.sealed) \in Nat
    BY <1>0, SegmentsAre
  <2>2. Len(X) = Len(x.sealed) \/ Len(X) = Len(x.sealed) + 1
    BY <1>0, SegmentsAre
  <2>. HIDE DEF X
  <2>3. QED
    BY <2>1, <2>2
<1>. HIDE DEF X, Y
<1>3. n \in Nat /\ n <= Len(X)
  <2>1. n \in Nat /\ n <= Len(x.sealed)
    BY <1>n
  <2>2. QED
    BY <1>n, <2>1
<1>4. /\ DOMAIN Y = 1 .. Len(X) - n
      /\ \A i \in DOMAIN Y : i + n \in DOMAIN X /\ Y[i] = X[i + n]
  BY <1>1, <1>2, <1>3
<1>5. \A i \in DOMAIN X : /\ X[i].id > 0
                          /\ X[i].start <= X[i].last
                          /\ X[i].video \in 1 .. video
                          /\ X[i].audio <= audio
  BY DEF Sized, X
<1>6. \A i \in DOMAIN X : i > 1 => X[i - 1].last <= X[i].start
  BY DEF Sized, X
<1>7. \A i \in DOMAIN Y : i > 1 => Y[i - 1].last <= Y[i].start
  <2>1. SUFFICES ASSUME NEW i \in DOMAIN Y, i > 1 PROVE Y[i - 1].last <= Y[i].start
    OBVIOUS
  <2>2. i - 1 \in DOMAIN Y /\ i + n \in DOMAIN X /\ i + n > 1 /\ (i - 1) + n = (i + n) - 1
    BY <1>1, <1>3, <1>4, <2>1
  <2>3. Y[i] = X[i + n] /\ Y[i - 1] = X[(i + n) - 1]
    BY <1>4, <2>2
  <2>4. QED
    BY <1>6, <2>2, <2>3
<1>8. \A s \in Holds(x) : s.id \in 1 .. x.ids
  <2>1. SUFFICES ASSUME NEW s \in Holds(x) PROVE s.id \in 1 .. x.ids
    OBVIOUS
  <2>2. PICK i \in DOMAIN X : s = X[i]
    BY <1>0, HeldIsListed DEF X
  <2>3. s \in Segment /\ s.id > 0
    BY <1>1, <1>5, <2>2
  <2>4. s.id <= x.ids
    BY HoldsAll DEF Fine, InOrder
  <2>5. QED
    BY <1>0, <2>3, <2>4 DEF Segment
<1>9. /\ y.ids = x.ids /\ y.leased \subseteq x.leased \cup {s.id : s \in Holds(x)}
      /\ y.spilling = x.spilling /\ y.silence = x.silence /\ y.sourceGap = x.sourceGap
  BY DEF Cut
<1>10. y.leased \subseteq 1 .. y.ids
  BY <1>8, <1>9 DEF Sized
<1>11. \A i \in DOMAIN Y : /\ Y[i].id > 0
                           /\ Y[i].start <= Y[i].last
                           /\ Y[i].video \in 1 .. video
                           /\ Y[i].audio <= audio
  BY <1>4, <1>5
<1>12. QED
  BY <1>7, <1>9, <1>10, <1>11 DEF Sized, Y

LEMMA CutTight ==
  ASSUME NEW x \in Buffer, NEW y \in Buffer, Cut(x, y), Tight(x)
  PROVE  Tight(y)
<1>. DEFINE X == Segments(x)
            Y == Segments(y)
<1>1. X \in Seq(Segment) /\ DOMAIN X = 1 .. Len(X) /\ Len(X) \in Nat
      /\ Len(x.sealed) \in Nat /\ x.sealed \in Seq(Segment)
  BY SegmentsAre
<1>2. PICK n \in 0 .. Len(x.sealed) : /\ Y = SubSeq(X, n + 1, Len(X))
                                      /\ y.sealed = SubSeq(x.sealed, n + 1, Len(x.sealed))
  BY DEF Cut
<1>n. Len(X) \in Nat /\ Len(x.sealed) \in Nat /\ Len(x.sealed) <= Len(X)
  <2>1. Len(X) \in Nat /\ Len(x.sealed) \in Nat
    BY SegmentsAre
  <2>2. Len(X) = Len(x.sealed) \/ Len(X) = Len(x.sealed) + 1
    BY SegmentsAre
  <2>. HIDE DEF X
  <2>3. QED
    BY <2>1, <2>2
<1>. HIDE DEF X, Y
<1>3. n \in Nat /\ n <= Len(X)
  <2>1. n \in Nat /\ n <= Len(x.sealed)
    BY <1>n
  <2>2. QED
    BY <1>n, <2>1
<1>4. /\ DOMAIN Y = 1 .. Len(X) - n
      /\ \A i \in DOMAIN Y : i + n \in DOMAIN X /\ Y[i] = X[i + n]
  BY <1>1, <1>2, <1>3
<1>6. \A i \in DOMAIN X : i > 1 => /\ X[i - 1].id \notin x.holes
                                   /\ X[i].start - X[i - 1].last <= SegmentDuration
  BY DEF Tight, X
<1>7. \A i \in DOMAIN Y : i > 1 => /\ Y[i - 1].id \notin x.holes
                                   /\ Y[i].start - Y[i - 1].last <= SegmentDuration
  <2>1. SUFFICES ASSUME NEW i \in DOMAIN Y, i > 1
                 PROVE  /\ Y[i - 1].id \notin x.holes
                        /\ Y[i].start - Y[i - 1].last <= SegmentDuration
    OBVIOUS
  <2>2. i - 1 \in DOMAIN Y /\ i + n \in DOMAIN X /\ i + n > 1 /\ (i - 1) + n = (i + n) - 1
    BY <1>1, <1>3, <1>4, <2>1
  <2>3. Y[i] = X[i + n] /\ Y[i - 1] = X[(i + n) - 1]
    BY <1>4, <2>2
  <2>4. QED
    BY <1>6, <2>2, <2>3
<1>8. y.ids = x.ids /\ y.holes = x.holes
  BY DEF Cut
<1>9. QED
  BY <1>7, <1>8 DEF Tight, Y

LEMMA CutUnbroken ==
  ASSUME NEW x \in Buffer, NEW y \in Buffer, Cut(x, y), Unbroken(x)
  PROVE  Unbroken(y)
<1>1. Tight(y)
  BY CutTight DEF Unbroken
<1>2. x.sealed = <<>> => y.sealed = <<>>
  <2>1. PICK n \in 0 .. Len(x.sealed) : y.sealed = SubSeq(x.sealed, n + 1, Len(x.sealed))
    BY DEF Cut
  <2>2. x.sealed \in Seq(Segment)
    BY SegmentsAre
  <2>3. QED
    BY <2>1, <2>2
<1>3. /\ y.ids = x.ids /\ y.holes = x.holes /\ y.open = x.open
      /\ y.ceilingGap = x.ceilingGap /\ y.sourceGap = x.sourceGap
  BY DEF Cut
<1>4. QED
  BY <1>1, <1>2, <1>3 DEF Unbroken, AnyGap

LEMMA CutLight ==
  ASSUME NEW x \in Buffer, NEW y \in Buffer, Cut(x, y)
  PROVE  /\ OwnedBytes(y) <= OwnedBytes(x) /\ SealedBytes(y) <= SealedBytes(x)
         /\ Light(x) => Light(y)
<1>. DEFINE X == Segments(x)
            Y == Segments(y)
<1>1. X \in Seq(Segment) /\ DOMAIN X = 1 .. Len(X) /\ Len(X) \in Nat
      /\ Len(x.sealed) \in Nat /\ x.sealed \in Seq(Segment)
  BY SegmentsAre
<1>2. PICK n \in 0 .. Len(x.sealed) : /\ Y = SubSeq(X, n + 1, Len(X))
                                      /\ y.sealed = SubSeq(x.sealed, n + 1, Len(x.sealed))
  BY DEF Cut
<1>n. Len(X) \in Nat /\ Len(x.sealed) \in Nat /\ Len(x.sealed) <= Len(X)
  <2>1. Len(X) \in Nat /\ Len(x.sealed) \in Nat
    BY SegmentsAre
  <2>2. Len(X) = Len(x.sealed) \/ Len(X) = Len(x.sealed) + 1
    BY SegmentsAre
  <2>. HIDE DEF X
  <2>3. QED
    BY <2>1, <2>2
<1>4. OwnedBytes(y) = ResidentIn(Y) /\ OwnedBytes(x) = ResidentIn(X)
      /\ OwnedBytes(x) \in Nat /\ OwnedBytes(y) \in Nat
  BY OwnedIsASum
<1>. HIDE DEF X, Y
<1>3. n \in Nat /\ n <= Len(X)
  <2>1. n \in Nat /\ n <= Len(x.sealed)
    BY <1>n
  <2>2. QED
    BY <1>n, <2>1
<1>5. ResidentIn(Y) <= ResidentIn(X)
  BY <1>1, <1>2, <1>3, OldestGone
<1>6. SealedBytes(y) <= SealedBytes(x)
  BY <1>1, <1>2, OldestGone DEF SealedBytes
<1>7. /\ DOMAIN Y = 1 .. Len(X) - n
      /\ \A i \in DOMAIN Y : i + n \in DOMAIN X /\ Y[i] = X[i + n]
  BY <1>1, <1>2, <1>3
<1>8. ASSUME Light(x) PROVE Light(y)
  <2>1. \A i \in DOMAIN Y : Y[i].video <= MemoryCeiling
    BY <1>7, <1>8 DEF Light, X
  <2>2. OwnedBytes(y) <= MemoryCeiling + 1
    <3>1. MemoryCeiling \in Nat /\ OwnedBytes(x) <= MemoryCeiling + 1
      BY <1>8, ReplayConfigOK DEF Light
    <3>2. QED
      BY <1>4, <1>5, <3>1
  <2>3. QED
    BY <2>1, <2>2 DEF Light, Y
<1>9. QED
  BY <1>4, <1>5, <1>6, <1>8

LEMMA WholeIsItself ==
  ASSUME NEW s \in Seq(Segment)
  PROVE  SubSeq(s, 0 + 1, Len(s)) = s
<1>. DEFINE t == SubSeq(s, 0 + 1, Len(s))
<1>1. t \in Seq(Segment) /\ Len(s) = Len(t) /\ \A i \in 1 .. Len(s) : s[i] = t[i]
  OBVIOUS
<1>. HIDE DEF t
<1>2. s = t
  BY <1>1, SeqEqual
<1>3. QED
  BY <1>2 DEF t

LEMMA CutNothing ==
  ASSUME NEW x \in Buffer
  PROVE  Cut(x, x)
<1>1. /\ x.sealed \in Seq(Segment) /\ Segments(x) \in Seq(Segment)
      /\ 0 \in 0 .. Len(x.sealed)
  BY SegmentsAre
<1>2. /\ x.sealed = SubSeq(x.sealed, 0 + 1, Len(x.sealed))
      /\ Segments(x) = SubSeq(Segments(x), 0 + 1, Len(Segments(x)))
  BY <1>1, WholeIsItself
<1>3. QED
  BY <1>1, <1>2 DEF Cut

LEMMA TailOfTail ==
  ASSUME NEW s \in Seq(Segment), NEW j \in 0 .. Len(s), NEW k \in 0 .. Len(s) - j
  PROVE  LET t == SubSeq(s, j + 1, Len(s)) IN
         SubSeq(t, k + 1, Len(t)) = SubSeq(s, j + k + 1, Len(s))
<1>. DEFINE t == SubSeq(s, j + 1, Len(s))
            u == SubSeq(t, k + 1, Len(t))
            v == SubSeq(s, j + k + 1, Len(s))
<1>1. t \in Seq(Segment) /\ Len(t) = Len(s) - j /\ j \in Nat /\ k \in Nat
      /\ \A i \in 1 .. Len(t) : t[i] = s[j + i]
  OBVIOUS
<1>2. v \in Seq(Segment) /\ Len(v) = Len(s) - j - k
      /\ \A i \in 1 .. Len(v) : v[i] = s[j + k + i]
  OBVIOUS
<1>. HIDE DEF t
<1>k. k \in 0 .. Len(t) /\ Len(s) \in Nat /\ Len(t) \in Nat
  BY <1>1
<1>u. u \in Seq(Segment) /\ Len(u) = Len(t) - k
      /\ \A i \in 1 .. Len(u) : u[i] = t[k + i]
  BY <1>1, <1>k
<1>3. u \in Seq(Segment) /\ Len(u) = Len(s) - j - k
      /\ \A i \in 1 .. Len(u) : u[i] = t[k + i]
  <2>. HIDE DEF u
  <2>. QED
    BY <1>1, <1>k, <1>u
<1>. HIDE DEF u, v
<1>4. \A i \in 1 .. Len(u) : u[i] = v[i]
  <2>1. SUFFICES ASSUME NEW i \in 1 .. Len(u) PROVE u[i] = v[i]
    OBVIOUS
  <2>2. k + i \in 1 .. Len(t) /\ i \in 1 .. Len(v) /\ j + (k + i) = j + k + i
    BY <1>1, <1>2, <1>3
  <2>3. QED
    BY <1>1, <1>2, <1>3, <2>2
<1>5. u = v
  BY <1>2, <1>3, <1>4, SeqEqual
<1>6. QED
  BY <1>5 DEF t, u, v

(* Two cuts are one. *)
LEMMA CutTwice ==
  ASSUME NEW x \in Buffer, NEW y \in Buffer, NEW z \in Buffer,
         Cut(x, y), Cut(y, z)
  PROVE  Cut(x, z)
<1>1. PICK n \in 0 .. Len(x.sealed) :
         /\ y.sealed = SubSeq(x.sealed, n + 1, Len(x.sealed))
         /\ Segments(y) = SubSeq(Segments(x), n + 1, Len(Segments(x)))
  BY DEF Cut
<1>2. PICK m \in 0 .. Len(y.sealed) :
         /\ z.sealed = SubSeq(y.sealed, m + 1, Len(y.sealed))
         /\ Segments(z) = SubSeq(Segments(y), m + 1, Len(Segments(y)))
  BY DEF Cut
<1>3. ASSUME NEW s \in Seq(Segment), NEW j \in 0 .. Len(s), NEW k \in 0 .. Len(s) - j
      PROVE  LET t == SubSeq(s, j + 1, Len(s)) IN
             SubSeq(t, k + 1, Len(t)) = SubSeq(s, j + k + 1, Len(s))
  BY TailOfTail
<1>4. /\ x.sealed \in Seq(Segment) /\ Segments(x) \in Seq(Segment)
      /\ Len(x.sealed) \in Nat
      /\ Len(Segments(x)) = Len(x.sealed) \/ Len(Segments(x)) = Len(x.sealed) + 1
  BY SegmentsAre
<1>5. n \in Nat /\ m \in Nat /\ Len(y.sealed) = Len(x.sealed) - n
  BY <1>1, <1>2, <1>4
<1>6. n + m \in 0 .. Len(x.sealed) /\ m \in 0 .. Len(x.sealed) - n
      /\ n \in 0 .. Len(Segments(x)) /\ m \in 0 .. Len(Segments(x)) - n
  BY <1>1, <1>2, <1>4, <1>5
<1>7. z.sealed = SubSeq(x.sealed, n + m + 1, Len(x.sealed))
  BY <1>1, <1>2, <1>3, <1>4, <1>6
<1>8. Segments(z) = SubSeq(Segments(x), n + m + 1, Len(Segments(x)))
  BY <1>1, <1>2, <1>3, <1>4, <1>6
<1>9. \A s \in Holds(y) : s \in Holds(x)
  <2>1. SUFFICES ASSUME NEW s \in Holds(y) PROVE s \in Holds(x)
    OBVIOUS
  <2>2. PICK i \in DOMAIN Segments(y) : s = Segments(y)[i]
    BY HeldIsListed
  <2>. DEFINE X == Segments(x)
  <2>3. X \in Seq(Segment) /\ n \in 0 .. Len(X)
    BY <1>4, <1>6
  <2>. HIDE DEF X
  <2>4. \A k \in DOMAIN SubSeq(X, n + 1, Len(X)) :
           n + k \in DOMAIN X /\ SubSeq(X, n + 1, Len(X))[k] = X[n + k]
    BY <2>3
  <2>5. n + i \in DOMAIN X /\ s = X[n + i]
    BY <1>1, <2>2, <2>4 DEF X
  <2>6. QED
    BY <2>5, HeldIsListed DEF X
<1>10. z.leased \subseteq x.leased \cup {s.id : s \in Holds(x)}
  BY <1>9 DEF Cut
<1>11. QED
  BY <1>6, <1>7, <1>8, <1>10 DEF Cut

(* A drop that shortens what the buffer can be asked to reach says so. *)
LEMMA DropReaches ==
  ASSUME NEW at \in Nat, NEW x, Fine(x, at), NEW n \in 0 .. Len(x.sealed), Reaches(x)
  PROVE  Reaches(Drop(x, n, TRUE))
<1>. DEFINE y == Drop(x, n, TRUE)
<1>0. x \in Buffer
  BY DEF Fine
<1>1. /\ y \in Buffer /\ Cut(x, y) /\ Len(y.sealed) = Len(x.sealed) - n
      /\ y.sealed = SubSeq(x.sealed, n + 1, Len(x.sealed)) /\ y.open = x.open
      /\ y.began = IF n = 0 THEN x.began
                   ELSE IF Segments(y) = <<>> THEN None ELSE Segments(y)[1].start
  <2>1. /\ Fine(y, at) /\ Cut(x, y) /\ Len(y.sealed) = Len(x.sealed) - n
        /\ y.sealed = SubSeq(x.sealed, n + 1, Len(x.sealed))
        /\ y.began = IF n = 0 \/ ~TRUE THEN x.began
                     ELSE IF Segments(y) = <<>> THEN None ELSE Segments(y)[1].start
    BY DropCuts
  <2>. HIDE DEF y
  <2>2. y \in Buffer /\ y.open = x.open
    BY <2>1 DEF Fine, Cut
  <2>3. QED
    BY <2>1, <2>2
<1>. HIDE DEF y
<1>2. ASSUME n = 0 PROVE Reaches(y)
  <2>1. Segments(y) = SubSeq(Segments(x), 0 + 1, Len(Segments(x)))
    BY <1>0, <1>1, <1>2, TailOfSegments
  <2>2. Segments(x) = SubSeq(Segments(x), 0 + 1, Len(Segments(x)))
    <3>1. Segments(x) \in Seq(Segment)
      BY <1>0, SegmentsAre
    <3>2. QED
      BY <3>1, WholeIsItself
  <2>3. Segments(y) = Segments(x) /\ y.began = x.began
    BY <1>1, <1>2, <2>1, <2>2
  <2>4. QED
    BY <2>3 DEF Reaches, LatestPresentation
<1>3. ASSUME n # 0 PROVE Reaches(y)
  <2>1. Segments(y) # <<>> => Segments(y)[1].start \in Nat
    <3>1. Segments(y) \in Seq(Segment)
      BY <1>1, SegmentsAre
    <3>2. Segments(y) # <<>> => Segments(y)[1] \in Segment
      BY <3>1
    <3>3. QED
      BY <3>2 DEF Segment
  <2>2. y.began = IF Segments(y) = <<>> THEN None ELSE Segments(y)[1].start
    BY <1>1, <1>3
  <2>3. CASE Segments(y) = <<>>
    BY <2>2, <2>3 DEF Reaches
  <2>4. CASE Segments(y) # <<>>
    <3>1. y.began \in Nat /\ y.began = Segments(y)[1].start
      BY <2>1, <2>2, <2>4
    <3>2. y.began # None /\ Segments(y)[1].start <= y.began
      BY <3>1, ReplayConfigOK
    <3>3. QED
      BY <2>4, <3>2 DEF Reaches
  <2>5. QED
    BY <2>3, <2>4
<1>4. Reaches(y)
  BY <1>2, <1>3
<1>5. QED
  BY <1>4 DEF y

(* The window rule drops only what lies a window or more before the newest *)
(* picture.                                                                *)
LEMMA WindowCuts ==
  ASSUME NEW at \in Nat, NEW x, Fine(x, at), Reaches(x)
  PROVE  LET y == DropWhile(x, PastWindow, FALSE) IN
         Fine(y, at) /\ Cut(x, y) /\ Reaches(y)
<1>. DEFINE enough == {n \in 0 .. Len(x.sealed) : n = Len(x.sealed)
                                                   \/ ~PastWindow(Drop(x, n, FALSE))}
            n == Min(enough)
            y == Drop(x, n, FALSE)
<1>0. x \in Buffer /\ Len(x.sealed) \in Nat /\ x.sealed \in Seq(Segment)
  BY DEF Fine, Buffer
<1>1. n \in enough /\ \A m \in enough : n <= m
  <2>0. Len(x.sealed) \in 0 .. Len(x.sealed)
    BY <1>0
  <2>1. enough \in SUBSET Nat /\ Len(x.sealed) \in enough
    <3>1. \A m \in enough : m \in 0 .. Len(x.sealed)
      OBVIOUS
    <3>2. Len(x.sealed) \in enough
      BY <2>0, Zenon
    <3>. HIDE DEF enough
    <3>3. QED
      BY <1>0, <3>1, <3>2
  <2>. HIDE DEF enough
  <2>2. QED
    BY <2>1, LeastIsThere
<1>2. DropWhile(x, PastWindow, FALSE) = y
  BY DEF DropWhile
<1>3. n \in 0 .. Len(x.sealed)
  BY <1>1
<1>4. \A m \in 0 .. Len(x.sealed) : m < n => PastWindow(Drop(x, m, FALSE))
  <2>1. SUFFICES ASSUME NEW m \in 0 .. Len(x.sealed), m < n,
                        ~PastWindow(Drop(x, m, FALSE))
                 PROVE  FALSE
    OBVIOUS
  <2>2. m \in enough
    BY <2>1
  <2>. HIDE DEF enough
  <2>3. n <= m
    BY <1>1, <2>2
  <2>4. QED
    BY <1>0, <1>3, <2>1, <2>3
<1>. HIDE DEF enough, n
<1>5. /\ Fine(y, at) /\ y \in Buffer /\ Cut(x, y) /\ Len(y.sealed) = Len(x.sealed) - n
      /\ y.sealed = SubSeq(x.sealed, n + 1, Len(x.sealed)) /\ y.open = x.open
      /\ y.began = x.began
      /\ Segments(y) = SubSeq(Segments(x), n + 1, Len(Segments(x)))
  <2>1. /\ Fine(y, at) /\ Cut(x, y) /\ Len(y.sealed) = Len(x.sealed) - n
        /\ y.sealed = SubSeq(x.sealed, n + 1, Len(x.sealed)) /\ y.began = x.began
    BY <1>3, DropCuts
  <2>. HIDE DEF y
  <2>2. y \in Buffer /\ y.open = x.open
    BY <2>1 DEF Fine, Cut
  <2>3. QED
    BY <1>0, <1>3, <2>1, <2>2, TailOfSegments
<1>. HIDE DEF y
<1>6. CASE n = 0
  <2>1. Segments(x) \in Seq(Segment)
    BY <1>0, SegmentsAre
  <2>2. Segments(y) = Segments(x)
    BY <1>5, <1>6, <2>1, WholeIsItself
  <2>3. Reaches(y)
    BY <1>5, <2>2 DEF Reaches, LatestPresentation
  <2>4. QED
    BY <1>2, <1>5, <2>3
<1>7. CASE n > 0
  <2>. DEFINE k == n - 1
              z == Drop(x, k, FALSE)
  <2>0. k \in 0 .. Len(x.sealed) /\ k < n /\ n \in Nat /\ k = n - 1
    BY <1>0, <1>3, <1>7
  <2>. HIDE DEF k
  <2>1. PastWindow(z)
    BY <1>4, <2>0
  <2>2. /\ z \in Buffer /\ Len(z.sealed) = Len(x.sealed) - k
        /\ z.sealed = SubSeq(x.sealed, k + 1, Len(x.sealed)) /\ z.open = x.open
    <3>1. /\ Fine(z, at) /\ Cut(x, z) /\ Len(z.sealed) = Len(x.sealed) - k
          /\ z.sealed = SubSeq(x.sealed, k + 1, Len(x.sealed))
      BY <2>0, DropCuts
    <3>. HIDE DEF z
    <3>2. QED
      BY <3>1 DEF Fine, Cut
  <2>. HIDE DEF z
  <2>3. /\ Len(z.sealed) >= 2
        /\ LatestPresentation(z) - z.sealed[2].start >= Window
    BY <2>1 DEF PastWindow
  <2>4. n + 1 \in 1 .. Len(x.sealed) /\ z.sealed[2] = x.sealed[n + 1]
    <3>1. n + 1 <= Len(x.sealed)
      BY <1>0, <2>0, <2>2, <2>3
    <3>2. k + 1 = n /\ n \in 1 .. Len(x.sealed)
      BY <1>0, <2>0, <3>1
    <3>3. z.sealed = SubSeq(x.sealed, n, Len(x.sealed))
      BY <2>2, <3>2
    <3>4. SubSeq(x.sealed, n, Len(x.sealed))[2] = x.sealed[n + 1]
      BY <1>0, <3>1, <3>2
    <3>5. QED
      BY <1>0, <2>0, <3>1, <3>3, <3>4
  <2>5. y.sealed # <<>> /\ y.sealed[1] = x.sealed[n + 1]
    <3>1. Len(y.sealed) > 0
      BY <1>0, <1>5, <2>0, <2>4
    <3>2. SubSeq(x.sealed, n + 1, Len(x.sealed))[1] = x.sealed[n + 1]
      BY <1>0, <2>0, <2>4
    <3>3. Len(<<>>) = 0
      OBVIOUS
    <3>4. y.sealed # <<>>
      BY <3>1, <3>3
    <3>5. QED
      BY <1>5, <3>2, <3>4
  <2>6. LatestPresentation(y) = LatestPresentation(z) /\ LatestPresentation(y) \in Nat
        /\ Segments(y) # <<>> /\ Segments(x) # <<>> /\ Segments(y)[1] = y.sealed[1]
        /\ y.sealed[1] \in Segment
    <3>1. /\ Segments(y) # <<>> /\ Segments(z) # <<>> /\ Segments(x) # <<>>
      <4>0. Len(z.sealed) \in Nat /\ Len(z.sealed) # 0 /\ Len(x.sealed) # 0
        <5>1. Len(z.sealed) \in Nat
          BY <2>2, SegmentsAre
        <5>2. QED
          BY <1>0, <2>0, <2>3, <2>4, <5>1
      <4>1. y.sealed # <<>> /\ z.sealed # <<>> /\ x.sealed # <<>>
        <5>1. Len(<<>>) = 0
          OBVIOUS
        <5>2. QED
          BY <2>5, <4>0, <5>1
      <4>2. QED
        BY <1>0, <1>5, <2>2, <4>1, SegmentsAre
    <3>2. Segments(y)[1] = y.sealed[1] /\ y.sealed[1] \in Segment
      <4>1. y.sealed \in Seq(Segment) /\ 1 \in DOMAIN y.sealed
        <5>1. y.sealed \in Seq(Segment)
          BY <1>5, SegmentsAre
        <5>2. QED
          BY <2>5, <5>1
      <4>2. y.sealed[1] \in Segment
        BY <4>1
      <4>3. Segments(y)[1] = y.sealed[1]
        BY <1>5, <4>1, SegmentsAre
      <4>4. QED
        BY <4>2, <4>3
    <3>3. x.open = NoSegment => y.sealed[Len(y.sealed)] = z.sealed[Len(z.sealed)]
      <4>1. /\ SubSeq(x.sealed, n + 1, Len(x.sealed))[Len(x.sealed) - n] = x.sealed[Len(x.sealed)]
        BY <1>0, <2>0, <2>4
      <4>2. k + 1 = n /\ Len(x.sealed) - k = Len(x.sealed) - n + 1
            /\ n \in 1 .. Len(x.sealed)
        BY <1>0, <2>0, <2>4
      <4>3. SubSeq(x.sealed, n, Len(x.sealed))[Len(x.sealed) - n + 1] = x.sealed[Len(x.sealed)]
        <5>1. \A i \in 1 .. Len(x.sealed) - n + 1 :
                 SubSeq(x.sealed, n, Len(x.sealed))[i] = x.sealed[n + i - 1]
          BY <1>0, <4>2
        <5>2. /\ Len(x.sealed) - n + 1 \in 1 .. Len(x.sealed) - n + 1
              /\ n + (Len(x.sealed) - n + 1) - 1 = Len(x.sealed)
          BY <1>0, <4>2
        <5>3. QED
          BY <5>1, <5>2
      <4>4. QED
        BY <1>5, <2>2, <4>1, <4>2, <4>3
    <3>4. QED
      BY <1>5, <2>2, <3>1, <3>2, <3>3, NewestSegment
  <2>7. Segments(y)[1].start + Window <= LatestPresentation(y)
    <3>1. Segments(y)[1].start \in Nat /\ Window \in Nat
      BY <2>6, ReplayConfigOK DEF Segment
    <3>2. Segments(y)[1] = z.sealed[2]
      BY <2>4, <2>5, <2>6
    <3>3. QED
      BY <2>3, <2>6, <3>1, <3>2
  <2>8. Reaches(y)
    BY <1>5, <2>6, <2>7 DEF Reaches
  <2>9. QED
    BY <1>2, <1>5, <2>8
<1>8. n = 0 \/ n > 0
  BY <1>0, <1>3
<1>9. QED
  BY <1>6, <1>7, <1>8

(* The ceiling drops until it is kept, or one sealed segment is left. *)
LEMMA CeilingCuts ==
  ASSUME NEW at \in Nat, NEW x, Fine(x, at), Reaches(x)
  PROVE  LET y == DropWhile(x, OverCeiling, TRUE) IN
         /\ Fine(y, at) /\ Cut(x, y) /\ Reaches(y)
         /\ OwnedBytes(y) <= MemoryCeiling \/ Len(y.sealed) <= 1
<1>. DEFINE enough == {n \in 0 .. Len(x.sealed) : n = Len(x.sealed)
                                                   \/ ~OverCeiling(Drop(x, n, TRUE))}
            n == Min(enough)
            y == Drop(x, n, TRUE)
<1>0. x \in Buffer /\ Len(x.sealed) \in Nat
  BY DEF Fine, Buffer
<1>1. n \in enough
  <2>0. Len(x.sealed) \in 0 .. Len(x.sealed)
    BY <1>0
  <2>1. enough \in SUBSET Nat /\ Len(x.sealed) \in enough
    <3>1. \A m \in enough : m \in 0 .. Len(x.sealed)
      OBVIOUS
    <3>2. Len(x.sealed) \in enough
      BY <2>0, Zenon
    <3>. HIDE DEF enough
    <3>3. QED
      BY <1>0, <3>1, <3>2
  <2>. HIDE DEF enough
  <2>2. QED
    BY <2>1, LeastIsThere
<1>2. DropWhile(x, OverCeiling, TRUE) = y
  BY DEF DropWhile
<1>3. n \in 0 .. Len(x.sealed) /\ (n = Len(x.sealed) \/ ~OverCeiling(y))
  BY <1>1
<1>. HIDE DEF enough, n
<1>4. /\ Fine(y, at) /\ Cut(x, y) /\ Len(y.sealed) = Len(x.sealed) - n
      /\ Reaches(y)
  BY <1>3, DropCuts, DropReaches
<1>. HIDE DEF y
<1>5. OwnedBytes(y) \in Nat /\ MemoryCeiling \in Nat /\ Len(y.sealed) \in Nat
  <2>1. y \in Buffer
    BY <1>4 DEF Fine
  <2>2. OwnedBytes(y) \in Nat
    BY <2>1, OwnedIsASum
  <2>3. Len(y.sealed) \in Nat
    BY <2>1, SegmentsAre
  <2>4. QED
    BY <2>2, <2>3, ReplayConfigOK
<1>6. OwnedBytes(y) <= MemoryCeiling \/ Len(y.sealed) <= 1
  BY <1>0, <1>3, <1>4, <1>5 DEF OverCeiling
<1>7. QED
  BY <1>2, <1>4, <1>6

LEMMA ReleaseCuts ==
  ASSUME NEW at \in Nat, NEW x, Fine(x, at), Reaches(x)
  PROVE  Fine(Release(x), at) /\ Cut(x, Release(x)) /\ Reaches(Release(x))
<1>. DEFINE y == Release(x)
<1>1. x \in Buffer /\ Cut(x, x)
  BY CutNothing DEF Fine
<1>2. Fine(y, at)
  BY ReleaseTrims DEF Trims
<1>3. /\ y.sealed = x.sealed /\ y.open = x.open /\ y.ids = x.ids /\ y.holes = x.holes
      /\ y.ceilingGap = x.ceilingGap /\ y.sourceGap = x.sourceGap
      /\ y.silence = x.silence /\ y.spilling = x.spilling /\ y.began = x.began
      /\ y.leased \subseteq x.leased
  BY <1>1 DEF Release, Buffer
<1>. HIDE DEF y
<1>4. Segments(y) = Segments(x)
  BY <1>3 DEF Segments
<1>5. Cut(x, y)
  BY <1>1, <1>3, <1>4 DEF Cut
<1>6. Reaches(y)
  BY <1>3, <1>4 DEF Reaches, LatestPresentation
<1>7. QED
  BY <1>2, <1>5, <1>6 DEF y

LEMMA EvictCuts ==
  ASSUME NEW at \in Nat, NEW x, Fine(x, at), Reaches(x)
  PROVE  /\ Fine(Evict(x), at) /\ Cut(x, Evict(x)) /\ Reaches(Evict(x))
         /\ OwnedBytes(Evict(x)) <= MemoryCeiling \/ Len(Evict(x).sealed) <= 1
<1>. DEFINE y == Release(x)
            z == DropWhile(y, PastWindow, FALSE)
            w == DropWhile(z, OverCeiling, TRUE)
<1>1. Fine(y, at) /\ Cut(x, y) /\ Reaches(y)
  BY ReleaseCuts
<1>. HIDE DEF y
<1>2. Fine(z, at) /\ Cut(y, z) /\ Reaches(z)
  BY <1>1, WindowCuts
<1>. HIDE DEF z
<1>3. /\ Fine(w, at) /\ Cut(z, w) /\ Reaches(w)
      /\ OwnedBytes(w) <= MemoryCeiling \/ Len(w.sealed) <= 1
  BY <1>2, CeilingCuts
<1>. HIDE DEF w
<1>4. Cut(x, z)
  BY <1>1, <1>2, CutTwice DEF Fine
<1>5. Cut(x, w)
  BY <1>2, <1>3, <1>4, CutTwice DEF Fine
<1>6. Evict(x) = w
  BY DEF Evict, w, z, y
<1>7. QED
  BY <1>3, <1>5, <1>6

(* y has what x has, and no segment being written. *)
Shut(x, y) ==
    /\ y.open = NoSegment /\ y.sealed = Segments(x) /\ Segments(y) = Segments(x)
    /\ y.ids = x.ids /\ y.holes = x.holes /\ y.began = x.began
    /\ y.silence = x.silence /\ y.spilling = x.spilling /\ y.leased = x.leased

LEMMA SealShuts ==
  ASSUME NEW at \in Nat, NEW x, Fine(x, at)
  PROVE  /\ Fine(Seal(x), at) /\ Shut(x, Seal(x))
         /\ Seal(x).ceilingGap = x.ceilingGap /\ Seal(x).sourceGap = x.sourceGap
<1>1. x \in Buffer
  BY DEF Fine
<1>2. Fine(Seal(x), at)
  BY SealKeeps
<1>3. CASE x.open = NoSegment
  BY <1>2, <1>3 DEF Seal, Shut, Segments
<1>4. CASE x.open # NoSegment
  <2>. DEFINE y == Seal(x)
  <2>1. /\ y.open = NoSegment /\ y.sealed = Append(x.sealed, x.open)
        /\ y.ids = x.ids /\ y.holes = x.holes /\ y.began = x.began
        /\ y.silence = x.silence /\ y.spilling = x.spilling /\ y.leased = x.leased
        /\ y.ceilingGap = x.ceilingGap /\ y.sourceGap = x.sourceGap
    BY <1>1, <1>4 DEF Seal, Buffer
  <2>. HIDE DEF y
  <2>2. Shut(x, y)
    BY <1>4, <2>1 DEF Shut, Segments
  <2>3. QED
    BY <1>2, <2>1, <2>2 DEF y
<1>5. QED
  BY <1>3, <1>4

(* Room is made, or what is being written is sealed at the ceiling. *)
LEMMA RoomCuts ==
  ASSUME NEW at \in Nat, NEW x, Fine(x, at), Reaches(x), NEW cost \in Nat,
         x.open # NoSegment
  PROVE  LET y == MakeRoom(x, cost) IN
         \/ /\ Fine(y, at) /\ Cut(x, y) /\ Reaches(y)
            /\ SealedBytes(y) + cost <= MemoryCeiling
         \/ \E room \in Buffer :
               /\ Fine(room, at) /\ Cut(x, room) /\ Reaches(room)
               /\ Fine(y, at) /\ Shut(room, y)
               /\ y.ceilingGap = 0 /\ y.sourceGap = x.sourceGap
<1>. DEFINE Full(y) == SealedBytes(y) + cost > MemoryCeiling
            Evictable(y) == Full(y) /\ Len(y.sealed) >= 2
            enough == {n \in 0 .. Len(x.sealed) : n = Len(x.sealed)
                                                   \/ ~Evictable(Drop(x, n, TRUE))}
            n == Min(enough)
            room == Drop(x, n, TRUE)
            shut == [Seal(room) EXCEPT !.ceilingGap = 0]
<1>0. Len(x.sealed) \in Nat /\ x \in Buffer
  BY DEF Fine, Buffer
<1>1. n \in 0 .. Len(x.sealed)
  <2>0. Len(x.sealed) \in 0 .. Len(x.sealed)
    BY <1>0
  <2>1. enough \in SUBSET Nat /\ Len(x.sealed) \in enough
    <3>. HIDE DEF Evictable
    <3>1. \A m \in enough : m \in 0 .. Len(x.sealed)
      OBVIOUS
    <3>2. Len(x.sealed) \in enough
      BY <2>0, Zenon
    <3>. HIDE DEF enough
    <3>3. QED
      BY <1>0, <3>1, <3>2
  <2>. HIDE DEF enough
  <2>2. n \in enough
    BY <2>1, LeastIsThere
  <2>3. QED
    BY <2>2 DEF enough
<1>2. MakeRoom(x, cost) = IF Full(room) THEN shut ELSE room
  BY DEF MakeRoom, DropWhile
<1>. HIDE DEF enough, n
<1>3. Fine(room, at) /\ Cut(x, room) /\ Reaches(room)
  BY <1>1, DropCuts, DropReaches
<1>. HIDE DEF room
<1>4. room \in Buffer /\ SealedBytes(room) \in Nat /\ MemoryCeiling \in Nat
      /\ room.sourceGap = x.sourceGap
  <2>1. room \in Buffer
    BY <1>3 DEF Fine
  <2>2. QED
    BY <1>3, <2>1, OwnedIsASum, ReplayConfigOK DEF Cut
<1>5. CASE Full(room)
  <2>. DEFINE s == Seal(room)
  <2>1. /\ Fine(s, at) /\ Shut(room, s) /\ s.ceilingGap = room.ceilingGap
        /\ s.sourceGap = room.sourceGap
    BY <1>3, SealShuts
  <2>. HIDE DEF s
  <2>2. s \in Buffer
    BY <2>1 DEF Fine
  <2>. DEFINE y == [s EXCEPT !.ceilingGap = 0]
  <2>3. /\ y \in Buffer /\ y.sealed = s.sealed /\ y.open = s.open /\ y.ids = s.ids
        /\ y.spilling = s.spilling /\ y.givenUp = s.givenUp /\ y.ceilingGap = 0
        /\ y.sourceGap = s.sourceGap /\ y.holes = s.holes /\ y.began = s.began
        /\ y.silence = s.silence /\ y.leased = s.leased
    BY <2>2 DEF Buffer
  <2>4. MakeRoom(x, cost) = y
    BY <1>2, <1>5 DEF s
  <2>. HIDE DEF y
  <2>5. Fine(y, at)
    BY <2>1, <2>3, AsideKeeps
  <2>6. Segments(y) = Segments(s)
    BY <2>3 DEF Segments
  <2>7. Shut(room, y)
    BY <2>1, <2>3, <2>6 DEF Shut
  <2>8. QED
    BY <1>3, <1>4, <2>1, <2>3, <2>4, <2>5, <2>7
<1>6. CASE ~Full(room)
  <2>1. MakeRoom(x, cost) = room
    BY <1>2, <1>6
  <2>2. SealedBytes(room) + cost <= MemoryCeiling
    BY <1>4, <1>6
  <2>3. QED
    BY <1>3, <2>1, <2>2
<1>7. QED
  BY <1>5, <1>6

(* What depends on the segments alone. *)
LEMMA SameList ==
  ASSUME NEW x \in Buffer, NEW y \in Buffer, Segments(y) = Segments(x),
         y.began = x.began
  PROVE  /\ Reaches(x) => Reaches(y)
         /\ OwnedBytes(y) = OwnedBytes(x)
         /\ Light(x) => Light(y)
<1>1. OwnedBytes(y) = OwnedBytes(x)
  BY OwnedIsASum
<1>2. QED
  BY <1>1 DEF Reaches, LatestPresentation, Light

LEMMA SameSized ==
  ASSUME NEW x, NEW y, NEW now, NEW video, NEW audio, Sized(x, now, video, audio),
         Segments(y) = Segments(x), y.ids = x.ids,
         y.leased \subseteq 1 .. x.ids, y.spilling \subseteq 1 .. x.ids,
         y.silence \in 0 .. now, y.sourceGap # None => y.sourceGap <= now
  PROVE  Sized(y, now, video, audio)
BY DEF Sized

LEMMA ShutKeeps ==
  ASSUME NEW at \in Nat, NEW x \in Buffer, NEW y \in Buffer, Shut(x, y),
         NEW video, NEW audio, Fine(y, at),
         Sized(x, at, video, audio), Reaches(x),
         y.sourceGap # None => y.sourceGap <= at
  PROVE  /\ Good(y, at, video, audio)
         /\ Tight(x) => Tight(y)
         /\ Light(x) => Light(y)
<1>1. Sized(y, at, video, audio)
  <2>1. /\ x.leased \subseteq 1 .. x.ids /\ x.spilling \subseteq 1 .. x.ids
        /\ x.silence \in 0 .. at
    BY DEF Sized
  <2>2. QED
    BY <2>1, SameSized DEF Shut
<1>2. Reaches(y) /\ (Light(x) => Light(y))
  BY SameList DEF Shut
<1>3. Tight(x) => Tight(y)
  BY DEF Tight, Shut
<1>4. QED
  BY <1>1, <1>2, <1>3 DEF Good

(* The source was silent: what is being written is sealed there. *)
LEMMA SourceGapSeals ==
  ASSUME NEW at \in Nat, NEW video, NEW audio, NEW x, Good(x, at, video, audio)
  PROVE  LET y == SealAtSourceGap(x, at) IN
         /\ Good(y, at, video, audio)
         /\ Unbroken(x) => Unbroken(y)
         /\ Light(x) => Light(y)
         /\ y.open # NoSegment => y = x
         /\ Unbroken(x) /\ y.open # NoSegment => at - x.open.last <= SegmentDuration
<1>1. CASE GapBefore(x, at)
  <2>. DEFINE silent == at - LatestPresentation(x)
              s == Seal(x)
              y == [s EXCEPT !.sourceGap = silent]
  <2>1. x \in Buffer /\ Segments(x) # <<>> /\ Fine(x, at)
    BY <1>1 DEF Good, Fine, GapBefore, LatestPresentation
  <2>2. silent \in Nat \ {0} /\ silent <= at
    <3>1. LatestPresentation(x) \in Nat
      BY <2>1, NewestSegment
    <3>2. silent > SegmentDuration /\ SegmentDuration \in Nat
      BY <1>1, <3>1, ReplayConfigOK DEF GapBefore
    <3>3. QED
      BY <3>1, <3>2
  <2>3. SealAtSourceGap(x, at) = y
    BY <1>1 DEF SealAtSourceGap
  <2>4. Fine(s, at) /\ Shut(x, s)
    BY <2>1, SealShuts
  <2>. HIDE DEF s, silent
  <2>5. s \in Buffer
    BY <2>4 DEF Fine
  <2>6. /\ y \in Buffer /\ y.sealed = s.sealed /\ y.open = s.open /\ y.ids = s.ids
        /\ y.spilling = s.spilling /\ y.givenUp = s.givenUp
        /\ y.sourceGap = silent /\ y.holes = s.holes /\ y.began = s.began
        /\ y.silence = s.silence /\ y.leased = s.leased
    BY <2>2, <2>5 DEF Buffer
  <2>. HIDE DEF y
  <2>7. Fine(y, at)
    BY <2>4, <2>6, AsideKeeps
  <2>8. Segments(y) = Segments(s)
    BY <2>6 DEF Segments
  <2>9. Shut(x, y)
    BY <2>4, <2>6, <2>8 DEF Shut
  <2>10. /\ Good(y, at, video, audio)
         /\ Tight(x) => Tight(y)
         /\ Light(x) => Light(y)
    BY <2>1, <2>2, <2>6, <2>7, <2>9, ShutKeeps DEF Good
  <2>11. y.open = NoSegment /\ y.sourceGap # None
    BY <2>2, <2>6, <2>9, ReplayConfigOK DEF Shut
  <2>12. Unbroken(x) => Unbroken(y)
    BY <2>10, <2>11 DEF Unbroken, AnyGap
  <2>13. QED
    BY <2>3, <2>10, <2>11, <2>12
<1>2. CASE ~GapBefore(x, at)
  <2>1. SealAtSourceGap(x, at) = x
    BY <1>2 DEF SealAtSourceGap
  <2>2. ASSUME Unbroken(x), x.open # NoSegment
        PROVE  at - x.open.last <= SegmentDuration
    <3>1. x \in Buffer
      BY DEF Good, Fine
    <3>2. LatestPresentation(x) = x.open.last /\ LatestPresentation(x) \in Nat
      BY <2>2, <3>1, SegmentsAre, NewestSegment
    <3>3. ~ (at - x.open.last > SegmentDuration)
      BY <1>2, <2>2, <3>2, ReplayConfigOK DEF GapBefore, Unbroken
    <3>4. SegmentDuration \in Nat
      BY ReplayConfigOK
    <3>5. QED
      BY <3>2, <3>3, <3>4
  <2>3. QED
    BY <2>1, <2>2
<1>3. QED
  BY <1>1, <1>2

(* A picture that is thrown away leaves a hole after the newest segment,   *)
(* and the buffer will begin again after it.                               *)
LEMMA DiscardLeavesWhole ==
  ASSUME NEW at \in Nat, NEW video, NEW audio, NEW x, Good(x, at, video, audio),
         x.open = NoSegment
  PROVE  LET y == DiscardAwaitingKeyframe(x) IN
         /\ Good(y, at, video, audio)
         /\ Tight(x) /\ (x.sealed = <<>> \/ AnyGap(x) \/ x.ceilingGap = 0)
               => Unbroken(y)
         /\ Light(x) => Light(y)
<1>. DEFINE holes == IF x.sealed = <<>> THEN x.holes
                     ELSE x.holes \cup {Last(x.sealed).id}
            y == DiscardAwaitingKeyframe(x)
<1>1. x \in Buffer /\ Fine(x, at)
  BY DEF Good, Fine
<1>2. /\ Len(x.sealed) \in Nat /\ x.sealed \in Seq(Segment) /\ Segments(x) = x.sealed
      /\ x.sealed # <<>> => /\ Len(x.sealed) \in DOMAIN x.sealed
                            /\ Last(x.sealed) = x.sealed[Len(x.sealed)]
                            /\ x.sealed[Len(x.sealed)] \in Segment
  <2>1. Len(x.sealed) \in Nat /\ x.sealed \in Seq(Segment) /\ Segments(x) = x.sealed
    BY <1>1, SegmentsAre
  <2>2. x.sealed # <<>> => /\ Len(x.sealed) \in DOMAIN x.sealed
                           /\ x.sealed[Len(x.sealed)] \in Segment
    BY <2>1
  <2>3. QED
    BY <2>1, <2>2 DEF Last
<1>3. Fine(y, at)
  BY <1>1, DiscardKeeps
<1>4. holes \subseteq Nat /\ x.holes \subseteq holes
  BY <1>1, <1>2 DEF Segment, Buffer
<1>5. y = [x EXCEPT !.ceilingGap = IF x.ceilingGap = None THEN None ELSE 1,
                    !.holes = holes]
  BY DEF DiscardAwaitingKeyframe
<1>. HIDE DEF holes, y
<1>6. /\ y \in Buffer /\ y.sealed = x.sealed /\ y.open = x.open /\ y.ids = x.ids
      /\ y.spilling = x.spilling /\ y.leased = x.leased /\ y.began = x.began
      /\ y.silence = x.silence /\ y.sourceGap = x.sourceGap /\ y.holes = holes
      /\ y.ceilingGap = IF x.ceilingGap = None THEN None ELSE 1
  BY <1>1, <1>4, <1>5 DEF Buffer
<1>7. Segments(y) = Segments(x)
  BY <1>6 DEF Segments
<1>8. Sized(y, at, video, audio)
  <2>1. Sized(x, at, video, audio)
    BY DEF Good
  <2>2. /\ x.leased \subseteq 1 .. x.ids /\ x.spilling \subseteq 1 .. x.ids
        /\ x.silence \in 0 .. at /\ (x.sourceGap # None => x.sourceGap <= at)
    BY <2>1 DEF Sized
  <2>3. QED
    BY <1>6, <1>7, <2>1, <2>2, SameSized
<1>9. Reaches(y) /\ (Light(x) => Light(y))
  BY <1>1, <1>6, <1>7, SameList DEF Good
<1>10. Tight(x) => Tight(y)
  <2>1. SUFFICES ASSUME Tight(x) PROVE Tight(y)
    OBVIOUS
  <2>2. \A id \in holes : id \in x.holes \/ (x.sealed # <<>> /\ id = x.sealed[Len(x.sealed)].id)
    BY <1>2 DEF holes
  <2>3. \A id \in y.holes : id <= y.ids
    BY <1>1, <1>2, <1>6, <2>1, <2>2 DEF Tight, Fine, InOrder
  <2>4. ASSUME NEW i \in DOMAIN Segments(y), i > 1
        PROVE  /\ Segments(y)[i - 1].id \notin y.holes
               /\ Segments(y)[i].start - Segments(y)[i - 1].last <= SegmentDuration
    <3>1. i \in DOMAIN x.sealed /\ i - 1 \in DOMAIN x.sealed /\ i - 1 < Len(x.sealed)
          /\ Segments(x) = x.sealed /\ Segments(y) = x.sealed /\ x.sealed # <<>>
      BY <1>2, <1>7, <2>4
    <3>2. /\ x.sealed[i - 1].id \notin x.holes
          /\ x.sealed[i].start - x.sealed[i - 1].last <= SegmentDuration
      BY <2>1, <2>4, <3>1 DEF Tight
    <3>3. x.sealed[i - 1].id < x.sealed[Len(x.sealed)].id
      BY <1>1, <1>2, <3>1 DEF Fine, InOrder
    <3>4. x.sealed[i - 1].id \in Nat /\ x.sealed[Len(x.sealed)].id \in Nat
      <4>1. x.sealed[i - 1] \in Segment
        BY <1>2, <3>1
      <4>2. QED
        BY <1>2, <3>1, <4>1 DEF Segment
    <3>5. x.sealed[i - 1].id # x.sealed[Len(x.sealed)].id
      BY <3>3, <3>4
    <3>6. QED
      BY <1>6, <2>2, <3>1, <3>2, <3>5
  <2>5. QED
    BY <2>3, <2>4 DEF Tight
<1>11. ASSUME Tight(x), x.sealed = <<>> \/ AnyGap(x) \/ x.ceilingGap = 0
       PROVE  Unbroken(y)
  <2>1. AnyGap(x) \/ x.ceilingGap = 0 => AnyGap(y)
    BY <1>6, ReplayConfigOK DEF AnyGap
  <2>2. QED
    BY <1>6, <1>10, <1>11, <2>1 DEF Unbroken
<1>12. Good(y, at, video, audio)
  BY <1>3, <1>8, <1>9 DEF Good
<1>13. QED
  BY <1>9, <1>11, <1>12 DEF y

(* After a gap of either kind nothing from before it is held. *)
LEMMA ResumeBeginsAgain ==
  ASSUME NEW at \in Nat, NEW video \in Nat, NEW audio \in Nat,
         NEW x, Good(x, at, video, audio), x.open = NoSegment
  PROVE  LET z == ResumeAfterAnyGap(x) IN
         /\ Good(z, at, video, audio) /\ z.open = NoSegment
         /\ z.ceilingGap = None /\ z.sourceGap = None
         /\ z.ids = x.ids /\ z.holes = x.holes
         /\ IF AnyGap(x) THEN z.sealed = <<>> ELSE z.sealed = x.sealed
         /\ Tight(x) => Tight(z)
         /\ Light(x) => Light(z)
<1>. DEFINE y == [x EXCEPT !.ceilingGap = None, !.sourceGap = None]
<1>1. x \in Buffer /\ Fine(x, at)
  BY DEF Good, Fine
<1>2. /\ y \in Buffer /\ y.sealed = x.sealed /\ y.open = x.open /\ y.ids = x.ids
      /\ y.spilling = x.spilling /\ y.givenUp = x.givenUp
      /\ y.leased = x.leased /\ y.began = x.began
      /\ y.silence = x.silence /\ y.holes = x.holes
      /\ y.sourceGap = None /\ y.ceilingGap = None
  BY <1>1 DEF Buffer
<1>3. ResumeAfterAnyGap(x) = IF AnyGap(x) THEN Drop(y, Len(y.sealed), TRUE) ELSE y
  BY DEF ResumeAfterAnyGap
<1>. HIDE DEF y
<1>4. Segments(y) = Segments(x)
  BY <1>2 DEF Segments
<1>5. Good(y, at, video, audio)
  <2>1. Fine(y, at)
    BY <1>1, <1>2, AsideKeeps
  <2>2. Sized(y, at, video, audio)
    <3>1. Sized(x, at, video, audio)
      BY DEF Good
    <3>2. /\ x.leased \subseteq 1 .. x.ids /\ x.spilling \subseteq 1 .. x.ids
          /\ x.silence \in 0 .. at
      BY <3>1 DEF Sized
    <3>3. QED
      BY <1>2, <1>4, <3>1, <3>2, SameSized
  <2>3. Reaches(y)
    BY <1>1, <1>2, <1>4, SameList DEF Good
  <2>4. QED
    BY <2>1, <2>2, <2>3 DEF Good
<1>6. (Tight(x) => Tight(y)) /\ (Light(x) => Light(y))
  BY <1>1, <1>2, <1>4, SameList DEF Tight
<1>7. CASE ~AnyGap(x)
  BY <1>2, <1>3, <1>5, <1>6, <1>7
<1>8. CASE AnyGap(x)
  <2>. DEFINE z == Drop(y, Len(y.sealed), TRUE)
  <2>1. Len(y.sealed) \in 0 .. Len(y.sealed) /\ Fine(y, at) /\ Reaches(y)
    BY <1>2, <1>5, SegmentsAre DEF Good
  <2>2. Fine(z, at) /\ Cut(y, z) /\ Reaches(z) /\ Len(z.sealed) = Len(y.sealed) - Len(y.sealed)
    BY <2>1, DropCuts, DropReaches
  <2>. HIDE DEF z
  <2>3. z \in Buffer
    BY <2>2 DEF Fine
  <2>4. /\ z.open = NoSegment /\ z.ceilingGap = None /\ z.sourceGap = None
        /\ z.ids = x.ids /\ z.holes = x.holes
    BY <1>2, <2>2 DEF Cut
  <2>5. z.sealed = <<>>
    <3>1. Len(y.sealed) \in Nat /\ z.sealed \in Seq(Segment)
      BY <1>2, <2>3, SegmentsAre
    <3>2. Len(z.sealed) = 0
      BY <2>2, <3>1
    <3>3. QED
      BY <3>1, <3>2
  <2>6. Sized(z, at, video, audio)
    BY <1>5, <2>1, <2>2, <2>3, CutSized DEF Good
  <2>7. (Tight(x) => Tight(z)) /\ (Light(x) => Light(z))
    BY <1>2, <1>6, <2>2, <2>3, CutTight, CutLight
  <2>8. ResumeAfterAnyGap(x) = z
    BY <1>3, <1>8 DEF z
  <2>9. QED
    BY <1>8, <2>2, <2>4, <2>5, <2>6, <2>7, <2>8 DEF Good
<1>9. QED
  BY <1>7, <1>8

(* The next picture belongs to what is sealed, or begins again. *)
Ready(x, at) ==
    \/ x.sealed = <<>> \/ AnyGap(x)
    \/ /\ x.sealed[Len(x.sealed)].id \notin x.holes
       /\ at - x.sealed[Len(x.sealed)].last <= SegmentDuration

(* A segment begins with its keyframe. *)
LEMMA StartIsWhole ==
  ASSUME NEW at \in Nat, NEW video \in Nat, NEW audio \in Nat,
         NEW x, Good(x, at, video, audio), x.open = NoSegment
  PROVE  LET v == AppendPicture(OpenSegment(x, at), at) IN
         /\ Good(v, at, video + 1, audio)
         /\ v.open # NoSegment /\ v.open.video = 1 /\ v.open.audio = 0
         /\ Tight(x) /\ Ready(x, at) => Unbroken(v)
         /\ Light(x) => \A i \in DOMAIN Segments(v) :
                            Segments(v)[i].video <= MemoryCeiling
<1>. DEFINE z == ResumeAfterAnyGap(x)
            seg == Seg(z.ids + 1, at)
            new == [seg EXCEPT !.video = seg.video + 1, !.last = at]
            began == IF z.began = None THEN at ELSE z.began
            v == AppendPicture(OpenSegment(x, at), at)
<1>1. /\ Good(z, at, video, audio) /\ z.open = NoSegment
      /\ z.ceilingGap = None /\ z.sourceGap = None
      /\ z.ids = x.ids /\ z.holes = x.holes
      /\ IF AnyGap(x) THEN z.sealed = <<>> ELSE z.sealed = x.sealed
      /\ Tight(x) => Tight(z)
      /\ Light(x) => Light(z)
  BY ResumeBeginsAgain
<1>2. Fine(v, at) /\ v.open # NoSegment
  <2>. DEFINE o == OpenSegment(x, at)
  <2>1. Fine(o, at) /\ o.open # NoSegment
    BY OpenKeeps DEF Good
  <2>. HIDE DEF o
  <2>2. Fine(AppendPicture(o, at), at) /\ AppendPicture(o, at).open # NoSegment
    BY <2>1, PictureKeeps
  <2>3. QED
    BY <2>2 DEF o
<1>3. OpenSegment(x, at) = [z EXCEPT !.open = Seg(z.ids + 1, at), !.ids = z.ids + 1,
                                     !.began = began]
  BY DEF OpenSegment
<1>. HIDE DEF z, began
<1>4. z \in Buffer /\ z.ids \in Nat /\ z.ids <= video
      /\ began \in Nat /\ (z.began = None => began = at)
      /\ (z.began # None => began = z.began)
  <2>1. z \in Buffer
    BY <1>1 DEF Good, Fine
  <2>2. z.ids \in Nat /\ z.began \in Nat \cup {None}
    BY <2>1 DEF Buffer
  <2>3. QED
    BY <1>1, <2>1, <2>2 DEF Good, Sized, began
<1>5. /\ seg \in Segment /\ seg.id = z.ids + 1 /\ seg.start = at /\ seg.last = at
      /\ seg.video = 0 /\ seg.audio = 0 /\ ~seg.spilled
  BY <1>4 DEF Seg, Segment
<1>o. LET o == OpenSegment(x, at) IN
      /\ o.sealed = z.sealed /\ o.open = seg /\ o.ids = z.ids + 1 /\ o.began = began
      /\ o.ceilingGap = None /\ o.sourceGap = None /\ o.holes = z.holes
      /\ o.leased = z.leased /\ o.spilling = z.spilling /\ o.silence = z.silence
      /\ o \in Buffer
  <2>. DEFINE o == [z EXCEPT !.open = seg, !.ids = z.ids + 1, !.began = began]
  <2>1. OpenSegment(x, at) = o
    BY <1>3
  <2>. HIDE DEF seg
  <2>2. z.ids + 1 \in Nat
    BY <1>4
  <2>3. /\ o.sealed = z.sealed /\ o.open = seg /\ o.ids = z.ids + 1 /\ o.began = began
        /\ o.ceilingGap = None /\ o.sourceGap = None /\ o.holes = z.holes
        /\ o.leased = z.leased /\ o.spilling = z.spilling /\ o.silence = z.silence
        /\ o \in Buffer
    BY <1>1, <1>4, <1>5, <2>2 DEF Buffer
  <2>. HIDE DEF o
  <2>4. QED
    BY <2>1, <2>3
<1>. HIDE DEF seg
<1>6. /\ new \in Segment /\ new.id = z.ids + 1 /\ new.start = at /\ new.last = at
      /\ new.video = 1 /\ new.audio = 0 /\ ~new.spilled
  <2>1. seg.video + 1 = 1 /\ seg \in Segment /\ 1 \in Nat
    BY <1>5
  <2>2. /\ new.id = seg.id /\ new.start = seg.start /\ new.last = at
        /\ new.video = seg.video + 1 /\ new.audio = seg.audio
        /\ new.spilled = seg.spilled
    BY <2>1 DEF Segment
  <2>3. new \in Segment
    BY <2>1 DEF Segment
  <2>. HIDE DEF new
  <2>4. QED
    BY <1>5, <2>1, <2>2, <2>3
<1>v. /\ v.sealed = z.sealed /\ v.open = new /\ v.ids = z.ids + 1 /\ v.began = began
      /\ v.ceilingGap = None /\ v.sourceGap = None /\ v.holes = z.holes
      /\ v.leased = z.leased /\ v.spilling = z.spilling /\ v.silence = z.silence
  <2>. DEFINE o == OpenSegment(x, at)
  <2>1. v = AppendPicture(o, at)
    OBVIOUS
  <2>. HIDE DEF o, v
  <2>2. o \in Buffer /\ o.open = seg
    BY <1>o DEF o
  <2>3. AppendPicture(o, at) = [o EXCEPT !.open = new]
    BY <1>5, <2>2 DEF AppendPicture, Buffer, Segment
  <2>4. v = [o EXCEPT !.open = new]
    BY <2>1, <2>3
  <2>. HIDE DEF new
  <2>5. /\ v.sealed = o.sealed /\ v.open = new /\ v.ids = o.ids /\ v.began = o.began
        /\ v.ceilingGap = o.ceilingGap /\ v.sourceGap = o.sourceGap /\ v.holes = o.holes
        /\ v.leased = o.leased /\ v.spilling = o.spilling /\ v.silence = o.silence
    BY <2>2, <2>4 DEF Buffer
  <2>6. QED
    BY <1>o, <2>5 DEF o
<1>. HIDE DEF new, v
<1>7. v \in Buffer
  BY <1>2 DEF Fine
<1>8. /\ DOMAIN Segments(v) = 1 .. Len(z.sealed) + 1 /\ Len(z.sealed) \in Nat
      /\ \A i \in 1 .. Len(z.sealed) : /\ Segments(v)[i] = z.sealed[i]
                                       /\ z.sealed[i] \in Segment
      /\ Segments(v)[Len(z.sealed) + 1] = new /\ Segments(v) # <<>>
      /\ Segments(z) = z.sealed /\ DOMAIN z.sealed = 1 .. Len(z.sealed)
      /\ z.sealed \in Seq(Segment)
  <2>1. /\ Len(z.sealed) \in Nat /\ Segments(z) = z.sealed
        /\ DOMAIN z.sealed = 1 .. Len(z.sealed) /\ z.sealed \in Seq(Segment)
    BY <1>1, <1>4, SegmentsAre
  <2>2. /\ DOMAIN Segments(v) = 1 .. Len(Segments(v))
        /\ Len(Segments(v)) = Len(v.sealed) + 1
        /\ Segments(v)[Len(v.sealed) + 1] = v.open
        /\ Segments(v) # <<>>
        /\ \A i \in DOMAIN v.sealed : Segments(v)[i] = v.sealed[i]
    BY <1>2, <1>7, SegmentsAre
  <2>3. QED
    BY <1>v, <2>1, <2>2
<1>9. /\ Sized(z, at, video, audio) /\ Reaches(z)
      /\ \A i \in 1 .. Len(z.sealed) : z.sealed[i].last <= at
  BY <1>1, <1>8 DEF Good, Fine, InOrder
<1>10. Sized(v, at, video + 1, audio)
  <2>1. /\ z.leased \subseteq 1 .. z.ids /\ z.spilling \subseteq 1 .. z.ids
        /\ z.silence \in 0 .. at
        /\ \A i \in 1 .. Len(z.sealed) :
              /\ z.sealed[i].id > 0
              /\ z.sealed[i].start <= z.sealed[i].last
              /\ z.sealed[i].video \in 1 .. video
              /\ z.sealed[i].audio <= audio
        /\ \A i \in 1 .. Len(z.sealed) :
              i > 1 => z.sealed[i - 1].last <= z.sealed[i].start
    BY <1>8, <1>9 DEF Sized
  <2>2. v.ids <= video + 1 /\ v.leased \subseteq 1 .. v.ids /\ v.spilling \subseteq 1 .. v.ids
    <3>1. 1 .. z.ids \subseteq 1 .. z.ids + 1
      BY <1>4
    <3>2. QED
      BY <1>4, <1>v, <2>1, <3>1
  <2>3. ASSUME NEW i \in DOMAIN Segments(v)
        PROVE  /\ Segments(v)[i].id > 0
               /\ Segments(v)[i].start <= Segments(v)[i].last
               /\ Segments(v)[i].video \in 1 .. video + 1
               /\ Segments(v)[i].audio <= audio
    <3>1. CASE i \in 1 .. Len(z.sealed)
      <4>1. \A k \in 1 .. video : k \in 1 .. video + 1
        OBVIOUS
      <4>2. QED
        BY <1>8, <2>1, <3>1, <4>1
    <3>2. CASE i = Len(z.sealed) + 1
      <4>1. 1 \in 1 .. video + 1 /\ 0 <= audio /\ z.ids + 1 > 0 /\ at <= at
        BY <1>4
      <4>2. QED
        BY <1>6, <1>8, <3>2, <4>1
    <3>3. QED
      BY <1>8, <3>1, <3>2
  <2>4. ASSUME NEW i \in DOMAIN Segments(v), i > 1
        PROVE  Segments(v)[i - 1].last <= Segments(v)[i].start
    <3>0. i - 1 \in 1 .. Len(z.sealed)
      BY <1>8, <2>4
    <3>1. CASE i \in 1 .. Len(z.sealed)
      BY <1>8, <2>1, <2>4, <3>0, <3>1
    <3>2. CASE i = Len(z.sealed) + 1
      BY <1>6, <1>8, <1>9, <3>0, <3>2
    <3>3. QED
      BY <1>8, <3>1, <3>2
  <2>5. v.silence \in 0 .. at /\ v.sourceGap = None
    BY <1>v, <2>1
  <2>6. QED
    BY <2>2, <2>3, <2>4, <2>5 DEF Sized
<1>11. Reaches(v)
  <2>1. LatestPresentation(v) = at
    BY <1>2, <1>v, <1>6, <1>7, <1>8, NewestSegment
  <2>2. v.began # None
    BY <1>4, <1>v, ReplayConfigOK
  <2>3. CASE z.sealed = <<>>
    <3>1. z.began = None
      BY <1>8, <1>9, <2>3 DEF Reaches
    <3>2. Segments(v)[1] = new
      <4>1. Len(z.sealed) = 0 /\ 0 + 1 = 1
        BY <2>3
      <4>2. QED
        BY <1>8, <4>1
    <3>3. Segments(v)[1].start <= v.began
      BY <1>4, <1>v, <1>6, <3>1, <3>2
    <3>4. QED
      BY <1>8, <2>2, <3>3 DEF Reaches
  <2>4. CASE z.sealed # <<>>
    <3>0. 1 \in 1 .. Len(z.sealed) /\ Len(z.sealed) \in 1 .. Len(z.sealed)
      BY <1>8, <2>4
    <3>1. Segments(v)[1] = z.sealed[1] /\ z.sealed[1].start \in Nat
      BY <1>8, <3>0 DEF Segment
    <3>2. z.began # None
      BY <1>8, <1>9, <2>4 DEF Reaches
    <3>3. LatestPresentation(z) \in Nat /\ LatestPresentation(z) <= at
      BY <1>1, <1>4, <1>8, <1>9, <2>4, <3>0, NewestSegment
    <3>4. \/ z.sealed[1].start <= z.began
          \/ z.sealed[1].start + Window <= LatestPresentation(z)
      BY <1>8, <1>9, <2>4 DEF Reaches
    <3>5. CASE z.sealed[1].start <= z.began
      BY <1>4, <1>v, <1>8, <2>2, <3>1, <3>2, <3>5 DEF Reaches
    <3>6. CASE z.sealed[1].start + Window <= LatestPresentation(z)
      <4>1. z.sealed[1].start + Window <= at
        BY <3>1, <3>3, <3>6, ReplayConfigOK
      <4>2. QED
        BY <1>8, <2>1, <2>2, <3>1, <4>1 DEF Reaches
    <3>7. QED
      BY <3>4, <3>5, <3>6
  <2>5. QED
    BY <2>3, <2>4
<1>12. ASSUME Tight(x), Ready(x, at) PROVE Unbroken(v)
  <2>1. Tight(z)
    BY <1>1, <1>12
  <2>2. /\ \A i \in 1 .. Len(z.sealed) : i > 1 =>
              /\ z.sealed[i - 1].id \notin z.holes
              /\ z.sealed[i].start - z.sealed[i - 1].last <= SegmentDuration
        /\ \A id \in z.holes : id <= z.ids /\ id \in Nat
    BY <1>4, <1>8, <2>1 DEF Tight, Buffer
  <2>3. z.sealed # <<>> => /\ z.sealed[Len(z.sealed)].id \notin z.holes
                           /\ at - z.sealed[Len(z.sealed)].last <= SegmentDuration
    BY <1>1, <1>12 DEF Ready
  <2>4. ASSUME NEW i \in DOMAIN Segments(v), i > 1
        PROVE  /\ Segments(v)[i - 1].id \notin v.holes
               /\ Segments(v)[i].start - Segments(v)[i - 1].last <= SegmentDuration
    <3>0. i - 1 \in 1 .. Len(z.sealed)
      BY <1>8, <2>4
    <3>1. CASE i \in 1 .. Len(z.sealed)
      BY <1>v, <1>8, <2>2, <2>4, <3>0, <3>1
    <3>2. CASE i = Len(z.sealed) + 1
      <4>1. i - 1 = Len(z.sealed) /\ z.sealed # <<>>
        BY <1>8, <3>0, <3>2
      <4>2. QED
        BY <1>v, <1>6, <1>8, <2>3, <3>0, <3>2, <4>1
    <3>3. QED
      BY <1>8, <3>1, <3>2
  <2>5. \A id \in v.holes : id <= v.ids
    BY <1>4, <1>v, <2>2
  <2>6. v.open.id \notin v.holes
    <3>1. z.ids + 1 \notin z.holes
      BY <1>4, <2>2
    <3>2. QED
      BY <1>v, <1>6, <3>1
  <2>7. QED
    BY <1>2, <1>v, <2>4, <2>5, <2>6 DEF Unbroken, Tight
<1>13. ASSUME Light(x), NEW i \in DOMAIN Segments(v)
       PROVE  Segments(v)[i].video <= MemoryCeiling
  <2>1. \A k \in 1 .. Len(z.sealed) : z.sealed[k].video <= MemoryCeiling
    BY <1>1, <1>8, <1>13 DEF Light
  <2>2. 1 <= MemoryCeiling
    <3>1. MemoryCeiling \in Nat \ {0}
      BY ReplayConfigOK
    <3>2. QED
      BY <3>1
  <2>3. i \in 1 .. Len(z.sealed) \/ i = Len(z.sealed) + 1
    BY <1>8
  <2>4. QED
    BY <1>6, <1>8, <2>1, <2>2, <2>3
<1>14. QED
  BY <1>2, <1>v, <1>6, <1>10, <1>11, <1>12, <1>13 DEF Good, v

(* What is being written takes a picture or a block of audio more. *)
LEMMA GrownIsWhole ==
  ASSUME NEW at \in Nat, NEW video \in Nat, NEW audio \in Nat,
         NEW more \in Nat, NEW louder \in Nat, video <= more, audio <= louder,
         NEW x, Good(x, at, video, audio), x.open # NoSegment,
         NEW y, Fine(y, at),
         y.sealed = x.sealed, y.open # NoSegment, y.open.id = x.open.id,
         y.open.start = x.open.start, x.open.last <= y.open.last,
         y.open.video \in 1 .. more, y.open.audio <= louder,
         y.ids = x.ids, y.began = x.began, y.ceilingGap = x.ceilingGap,
         y.sourceGap = x.sourceGap, y.holes = x.holes, y.leased = x.leased,
         y.spilling = x.spilling, y.silence = x.silence
  PROVE  /\ Good(y, at, more, louder)
         /\ Unbroken(x) => Unbroken(y)
<1>. DEFINE n == Len(x.sealed)
            X == Segments(x)
            Y == Segments(y)
<1>1. x \in Buffer /\ y \in Buffer
  BY DEF Good, Fine
<1>2. /\ x.open \in Segment /\ y.open \in Segment /\ n \in Nat
      /\ DOMAIN X = 1 .. n + 1 /\ DOMAIN Y = 1 .. n + 1
      /\ X # <<>> /\ Y # <<>>
      /\ \A i \in 1 .. n : X[i] = Y[i] /\ Y[i] \in Segment
      /\ X[n + 1] = x.open /\ Y[n + 1] = y.open
  BY <1>1, SegmentsAre
<1>3. /\ Sized(x, at, video, audio) /\ Reaches(x)
  BY DEF Good
<1>4. /\ \A i \in 1 .. n + 1 : /\ X[i].id > 0
                               /\ X[i].start <= X[i].last
                               /\ X[i].video \in 1 .. video
                               /\ X[i].audio <= audio
      /\ \A i \in 1 .. n + 1 : i > 1 => X[i - 1].last <= X[i].start
  BY <1>2, <1>3 DEF Sized
<1>5. LatestPresentation(x) = x.open.last /\ LatestPresentation(y) = y.open.last
  BY <1>1, <1>2, NewestSegment
<1>. HIDE DEF n, X, Y
<1>n. n + 1 \in 1 .. n + 1 /\ \A i \in 1 .. n + 1 : i \in 1 .. n \/ i = n + 1
  BY <1>2
<1>6. \A i \in 1 .. n + 1 : Y[i].id = X[i].id /\ Y[i].start = X[i].start
  BY <1>2, <1>n
<1>7. \A i \in 1 .. n + 1 : i > 1 => /\ i - 1 \in 1 .. n /\ Y[i - 1] = X[i - 1]
                                     /\ i - 1 \in 1 .. n + 1
  BY <1>2
<1>8. ASSUME NEW i \in 1 .. n + 1
      PROVE  /\ Y[i].id > 0 /\ Y[i].start <= Y[i].last
             /\ Y[i].video \in 1 .. more /\ Y[i].audio <= louder
  <2>1. CASE i \in 1 .. n
    <3>1. Y[i] = X[i] /\ Y[i].audio \in Nat
      BY <1>2, <2>1 DEF Segment
    <3>2. QED
      BY <1>4, <3>1
  <2>2. CASE i = n + 1
    <3>1. x.open.start \in Nat /\ x.open.last \in Nat /\ y.open.last \in Nat
      BY <1>2 DEF Segment
    <3>2. x.open.id > 0 /\ x.open.start <= x.open.last
      BY <1>2, <1>4, <1>n
    <3>3. x.open.start <= y.open.last
      BY <3>1, <3>2
    <3>4. QED
      BY <1>2, <2>2, <3>2, <3>3
  <2>3. QED
    BY <1>n, <2>1, <2>2
<1>9. Sized(y, at, more, louder)
  <2>1. y.ids <= more
    <3>1. x.ids \in Nat /\ x.ids <= video
      BY <1>1, <1>3 DEF Buffer, Sized
    <3>2. QED
      BY <3>1
  <2>2. \A i \in 1 .. n + 1 : i > 1 => Y[i - 1].last <= Y[i].start
    BY <1>4, <1>6, <1>7
  <2>3. DOMAIN Segments(y) = 1 .. n + 1 /\ Segments(y) = Y
    BY <1>2 DEF Y
  <2>4. QED
    BY <1>3, <1>8, <2>1, <2>2, <2>3 DEF Sized
<1>10. Reaches(y)
  <2>1. Segments(x) = X /\ Segments(y) = Y
    BY DEF X, Y
  <2>2. 1 \in 1 .. n + 1
    BY <1>2
  <2>3. Y[1].start = X[1].start
    BY <1>6, <2>2
  <2>4. y.began # None
    BY <1>2, <1>3, <2>1 DEF Reaches
  <2>5. \/ X[1].start <= x.began
        \/ X[1].start + Window <= x.open.last
    BY <1>2, <1>3, <1>5, <2>1 DEF Reaches
  <2>6. X[1].start \in Nat /\ x.open.last \in Nat /\ y.open.last \in Nat /\ Window \in Nat
    <3>1. X[1] \in Segment
      BY <1>2, <1>n, <2>2
    <3>2. QED
      BY <1>2, <3>1, ReplayConfigOK DEF Segment
  <2>7. X[1].start + Window <= x.open.last => X[1].start + Window <= y.open.last
    BY <2>6
  <2>8. QED
    BY <1>2, <1>5, <2>1, <2>3, <2>4, <2>5, <2>7 DEF Reaches
<1>11. ASSUME Unbroken(x) PROVE Unbroken(y)
  <2>1. /\ \A i \in 1 .. n + 1 : i > 1 =>
              /\ X[i - 1].id \notin x.holes
              /\ X[i].start - X[i - 1].last <= SegmentDuration
        /\ \A id \in x.holes : id <= x.ids
        /\ x.ceilingGap = None /\ x.sourceGap = None /\ x.open.id \notin x.holes
    BY <1>2, <1>11 DEF Unbroken, Tight, X
  <2>2. \A i \in 1 .. n + 1 : i > 1 =>
              /\ Y[i - 1].id \notin y.holes
              /\ Y[i].start - Y[i - 1].last <= SegmentDuration
    BY <1>6, <1>7, <2>1
  <2>3. DOMAIN Segments(y) = 1 .. n + 1 /\ Segments(y) = Y
    BY <1>2 DEF Y
  <2>4. QED
    BY <2>1, <2>2, <2>3 DEF Unbroken, Tight
<1>12. QED
  BY <1>9, <1>10, <1>11 DEF Good

LEMMA PictureIsWhole ==
  ASSUME NEW at \in Nat, NEW video \in Nat, NEW audio \in Nat,
         NEW x, Good(x, at, video, audio), x.open # NoSegment
  PROVE  LET v == AppendPicture(x, at) IN
         /\ Good(v, at, video + 1, audio)
         /\ v.open # NoSegment /\ v.sealed = x.sealed
         /\ v.open.video = x.open.video + 1 /\ v.open.audio = x.open.audio
         /\ ~v.open.spilled
         /\ Unbroken(x) => Unbroken(v)
<1>. DEFINE new == [x.open EXCEPT !.video = x.open.video + 1, !.last = at]
            v == AppendPicture(x, at)
<1>1. /\ x \in Buffer /\ x.open \in Segment /\ x.open.last <= at
      /\ ~x.open.spilled
  BY DEF Good, Fine, Buffer, InOrder
<1>2. Fine(v, at) /\ v.open # NoSegment
  BY PictureKeeps DEF Good
<1>3. v = [x EXCEPT !.open = new]
  BY <1>1 DEF AppendPicture, Buffer, Segment
<1>4. /\ new.id = x.open.id /\ new.start = x.open.start /\ new.last = at
      /\ new.video = x.open.video + 1 /\ new.audio = x.open.audio
      /\ new.spilled = x.open.spilled
  BY <1>1 DEF Segment
<1>. HIDE DEF new, v
<1>5. /\ v.sealed = x.sealed /\ v.open = new /\ v.ids = x.ids /\ v.began = x.began
      /\ v.ceilingGap = x.ceilingGap /\ v.sourceGap = x.sourceGap
      /\ v.holes = x.holes /\ v.leased = x.leased
      /\ v.spilling = x.spilling /\ v.silence = x.silence
  BY <1>1, <1>3 DEF Buffer
<1>6. x.open.video \in 1 .. video /\ x.open.audio <= audio
  <2>1. /\ Len(x.sealed) + 1 \in DOMAIN Segments(x)
        /\ Segments(x)[Len(x.sealed) + 1] = x.open
    BY <1>1, SegmentsAre
  <2>2. QED
    BY <2>1 DEF Good, Sized
<1>7. v.open.video \in 1 .. video + 1 /\ v.open.audio <= audio
  BY <1>4, <1>5, <1>6
<1>8. video <= video + 1 /\ audio <= audio /\ video + 1 \in Nat
  OBVIOUS
<1>9. Good(v, at, video + 1, audio) /\ (Unbroken(x) => Unbroken(v))
  <2>1. /\ v.open.id = x.open.id /\ v.open.start = x.open.start
        /\ x.open.last <= v.open.last
    BY <1>1, <1>4, <1>5
  <2>2. QED
    BY <1>2, <1>5, <1>7, <1>8, <2>1, GrownIsWhole
<1>10. QED
  BY <1>1, <1>2, <1>4, <1>5, <1>9 DEF v

LEMMA BlockIsWhole ==
  ASSUME NEW at \in Nat, NEW video \in Nat, NEW audio \in Nat,
         NEW x, Good(x, at, video, audio), x.open # NoSegment
  PROVE  Good([x EXCEPT !.open.audio = @ + 1], at, video, audio + 1)
<1>. DEFINE new == [x.open EXCEPT !.audio = x.open.audio + 1]
            v == [x EXCEPT !.open.audio = @ + 1]
<1>1. /\ x \in Buffer /\ x.open \in Segment /\ x.open.last \in Nat
      /\ x.open.audio \in Nat
  BY DEF Good, Fine, Buffer, Segment
<1>2. Fine(v, at) /\ v.open # NoSegment
  BY BlockKeeps DEF Good
<1>3. v = [x EXCEPT !.open = new]
  BY <1>1 DEF Buffer, Segment
<1>4. /\ new.id = x.open.id /\ new.start = x.open.start /\ new.last = x.open.last
      /\ new.video = x.open.video /\ new.audio = x.open.audio + 1
  BY <1>1 DEF Segment
<1>. HIDE DEF new, v
<1>5. /\ v.sealed = x.sealed /\ v.open = new /\ v.ids = x.ids /\ v.began = x.began
      /\ v.ceilingGap = x.ceilingGap /\ v.sourceGap = x.sourceGap
      /\ v.holes = x.holes /\ v.leased = x.leased
      /\ v.spilling = x.spilling /\ v.silence = x.silence
  BY <1>1, <1>3 DEF Buffer
<1>6. x.open.video \in 1 .. video /\ x.open.audio <= audio
  <2>1. /\ Len(x.sealed) + 1 \in DOMAIN Segments(x)
        /\ Segments(x)[Len(x.sealed) + 1] = x.open
    BY <1>1, SegmentsAre
  <2>2. QED
    BY <2>1 DEF Good, Sized
<1>7. /\ v.open.video \in 1 .. video /\ v.open.audio <= audio + 1
      /\ x.open.last <= v.open.last
  BY <1>1, <1>4, <1>5, <1>6
<1>8. video <= video /\ audio <= audio + 1 /\ audio + 1 \in Nat
  OBVIOUS
<1>9. Good(v, at, video, audio + 1)
  BY <1>2, <1>4, <1>5, <1>7, <1>8, GrownIsWhole
<1>10. QED
  BY <1>9 DEF v

LEMMA CutIsPart ==
  ASSUME NEW x \in Buffer, NEW y \in Buffer, Cut(x, y)
  PROVE  \A i \in DOMAIN Segments(y) : \E j \in DOMAIN Segments(x) :
            Segments(y)[i] = Segments(x)[j]
<1>. DEFINE X == Segments(x)
            Y == Segments(y)
<1>1. /\ X \in Seq(Segment) /\ Len(X) \in Nat /\ Len(x.sealed) \in Nat
      /\ Len(X) = Len(x.sealed) \/ Len(X) = Len(x.sealed) + 1
  BY SegmentsAre
<1>2. PICK n \in 0 .. Len(x.sealed) : Y = SubSeq(X, n + 1, Len(X))
  BY DEF Cut
<1>. HIDE DEF X, Y
<1>3. n \in Nat /\ n <= Len(X)
  BY <1>1
<1>4. \A i \in DOMAIN Y : i + n \in DOMAIN X /\ Y[i] = X[i + n]
  BY <1>1, <1>2, <1>3
<1>5. QED
  BY <1>4 DEF X, Y

LEMMA EvictIsWhole ==
  ASSUME NEW at \in Nat, NEW video \in Nat, NEW audio \in Nat,
         NEW x, Good(x, at, video, audio)
  PROVE  /\ Good(Evict(x), at, video, audio)
         /\ Unbroken(x) => Unbroken(Evict(x))
<1>. DEFINE y == Evict(x)
<1>1. Fine(x, at) /\ Reaches(x) /\ Sized(x, at, video, audio) /\ x \in Buffer
  BY DEF Good, Fine
<1>2. Fine(y, at) /\ Cut(x, y) /\ Reaches(y)
  BY <1>1, EvictCuts
<1>. HIDE DEF y
<1>3. y \in Buffer
  BY <1>2 DEF Fine
<1>4. Sized(y, at, video, audio)
  BY <1>1, <1>2, <1>3, CutSized
<1>5. Unbroken(x) => Unbroken(y)
  BY <1>1, <1>2, <1>3, CutUnbroken
<1>6. QED
  BY <1>2, <1>4, <1>5 DEF Good, y

(* Without audio, eviction leaves no more than the ceiling and the picture *)
(* that opened a segment.                                                  *)
LEMMA EvictIsLight ==
  ASSUME NEW at \in Nat, NEW video \in Nat, NEW x, Good(x, at, video, 0),
         x.open # NoSegment,
         \A i \in DOMAIN Segments(x) : Segments(x)[i].video <= MemoryCeiling,
         OwnedBytes(x) <= MemoryCeiling \/ x.open.video = 1
  PROVE  Light(Evict(x))
<1>. DEFINE y == Evict(x)
            n == Len(y.sealed)
<1>1. Fine(x, at) /\ Reaches(x) /\ x \in Buffer
  BY DEF Good, Fine
<1>2. /\ Fine(y, at) /\ Cut(x, y)
      /\ OwnedBytes(y) <= MemoryCeiling \/ n <= 1
  BY <1>1, EvictCuts
<1>3. Sized(y, at, video, 0)
  <2>1. Good(y, at, video, 0)
    BY EvictIsWhole
  <2>2. QED
    BY <2>1 DEF Good
<1>. HIDE DEF y
<1>4. y \in Buffer /\ y.open = x.open
  BY <1>2 DEF Fine, Cut
<1>5. \A i \in DOMAIN Segments(y) : Segments(y)[i].video <= MemoryCeiling
  BY <1>1, <1>2, <1>4, CutIsPart
<1>6. /\ OwnedBytes(y) <= OwnedBytes(x) /\ OwnedBytes(y) \in Nat /\ OwnedBytes(x) \in Nat
      /\ SealedBytes(y) \in Nat /\ MemoryCeiling \in Nat
  BY <1>1, <1>2, <1>4, CutLight, OwnedIsASum, ReplayConfigOK
<1>7. OwnedBytes(y) = SealedBytes(y) + ResidentBytes(y.open)
  BY <1>4 DEF OwnedBytes
<1>8. /\ n \in Nat /\ y.sealed \in Seq(Segment) /\ y.open \in Segment
      /\ DOMAIN Segments(y) = 1 .. n + 1 /\ Segments(y)[n + 1] = y.open
      /\ \A i \in 1 .. n : Segments(y)[i] = y.sealed[i] /\ y.sealed[i] \in Segment
  BY <1>4, SegmentsAre
<1>9. \A i \in 1 .. n + 1 : /\ Segments(y)[i].audio <= 0
                            /\ Segments(y)[i].video <= MemoryCeiling
  BY <1>3, <1>5, <1>8 DEF Sized
<1>10. ASSUME NEW s \in Segment, s.audio <= 0 PROVE ResidentBytes(s) <= s.video
  <2>1. s.audio \in Nat /\ s.video \in Nat
    BY DEF Segment
  <2>2. s.audio = 0
    BY <1>10, <2>1
  <2>3. QED
    BY <2>1, <2>2 DEF ResidentBytes
<1>. HIDE DEF n
<1>11. ResidentBytes(y.open) <= MemoryCeiling /\ ResidentBytes(y.open) <= y.open.video
       /\ ResidentBytes(y.open) \in Nat /\ y.open.video \in Nat
  <2>1. n + 1 \in 1 .. n + 1
    BY <1>8
  <2>2. y.open.audio <= 0 /\ y.open.video <= MemoryCeiling /\ y.open.video \in Nat
    BY <1>8, <1>9, <2>1 DEF Segment
  <2>3. ResidentBytes(y.open) <= y.open.video /\ ResidentBytes(y.open) \in Nat
    BY <1>8, <1>10, <2>2, BytesAreNumbers
  <2>4. QED
    BY <1>6, <2>2, <2>3
<1>12. OwnedBytes(y) <= MemoryCeiling + 1
  <2>1. CASE OwnedBytes(y) <= MemoryCeiling
    BY <1>6, <2>1
  <2>2. CASE n = 0
    <3>1. y.sealed = <<>>
      BY <1>8, <2>2 DEF n
    <3>2. SealedBytes(y) = 0
      BY <3>1, NothingWeighsNothing DEF SealedBytes
    <3>3. QED
      BY <1>6, <1>7, <1>11, <3>2
  <2>3. CASE n = 1 /\ ~ (OwnedBytes(y) <= MemoryCeiling)
    <3>1. 1 \in 1 .. n /\ 1 \in 1 .. n + 1
      BY <2>3
    <3>2. y.sealed[1] \in Segment /\ y.sealed[1].audio <= 0
          /\ y.sealed[1].video <= MemoryCeiling
      BY <1>8, <1>9, <3>1
    <3>. DEFINE s == y.sealed[1]
                one == Append(<<>>, s)
    <3>3. /\ one \in Seq(Segment) /\ Len(one) = 1 /\ one[1] = s
          /\ <<>> \in Seq(Segment)
      BY <3>2
    <3>. HIDE DEF one, s
    <3>4. y.sealed = one
      <4>1. Len(y.sealed) = Len(one) /\ \A i \in 1 .. Len(one) : y.sealed[i] = one[i]
        BY <2>3, <3>3 DEF n, s
      <4>2. QED
        BY <1>8, <3>3, <4>1, SeqEqual
    <3>5. SealedBytes(y) = 0 + ResidentBytes(s)
      <4>1. s \in Segment
        BY <3>2 DEF s
      <4>2. QED
        BY <3>3, <3>4, <4>1, OneMoreSegment, NothingWeighsNothing DEF SealedBytes, one
    <3>6. SealedBytes(y) <= MemoryCeiling
      <4>1. /\ ResidentBytes(s) <= s.video /\ ResidentBytes(s) \in Nat
            /\ s.video \in Nat /\ s.video <= MemoryCeiling
        BY <1>10, <3>2, BytesAreNumbers DEF s, Segment
      <4>2. QED
        BY <1>6, <3>5, <4>1
    <3>7. y.open.video = 1
      <4>1. ~ (OwnedBytes(x) <= MemoryCeiling)
        BY <1>6, <2>3
      <4>2. QED
        BY <1>4, <4>1
    <3>8. QED
      BY <1>6, <1>7, <1>11, <3>6, <3>7
  <2>4. n = 0 \/ n = 1 \/ OwnedBytes(y) <= MemoryCeiling
    <3>1. n <= 1 \/ OwnedBytes(y) <= MemoryCeiling
      BY <1>2 DEF n
    <3>2. n \in Nat => (n <= 1 => n = 0 \/ n = 1)
      OBVIOUS
    <3>3. QED
      BY <1>8, <3>1, <3>2
  <2>5. QED
    BY <2>1, <2>2, <2>3, <2>4
<1>13. QED
  BY <1>5, <1>12 DEF Light, y

(* All that is asked of the window, after so many pictures and blocks. *)
Kept(x, at, video, audio) ==
    /\ Good(x, at, video, audio)
    /\ audio = 0 => Unbroken(x) /\ Light(x)

LEMMA SizedMore ==
  ASSUME NEW x \in Buffer, NEW now \in Nat, NEW video \in Nat, NEW audio \in Nat,
         NEW later \in Nat, NEW more \in Nat, NEW louder \in Nat,
         now <= later, video <= more, audio <= louder, Sized(x, now, video, audio)
  PROVE  Sized(x, later, more, louder)
<1>1. x.ids \in Nat /\ x.sourceGap \in Nat \cup {None}
  BY DEF Buffer
<1>2. \A i \in DOMAIN Segments(x) : Segments(x)[i].audio \in Nat
  <2>1. Segments(x) \in Seq(Segment)
    BY SegmentsAre
  <2>2. \A i \in DOMAIN Segments(x) : Segments(x)[i] \in Segment
    BY <2>1
  <2>3. QED
    BY <2>2 DEF Segment
<1>3. x.ids <= more /\ (x.sourceGap # None => x.sourceGap <= later)
  BY <1>1 DEF Sized
<1>4. x.silence \in 0 .. later
  <2>1. x.silence \in 0 .. now
    BY DEF Sized
  <2>2. QED
    BY <2>1
<1>5. \A i \in DOMAIN Segments(x) : /\ Segments(x)[i].video \in 1 .. more
                                    /\ Segments(x)[i].audio <= louder
  BY <1>2 DEF Sized
<1>6. QED
  BY <1>3, <1>4, <1>5 DEF Sized

LEMMA ShutIsReady ==
  ASSUME NEW at, NEW x \in Buffer, NEW y, Shut(x, y), x.open # NoSegment, Unbroken(x),
         at - x.open.last <= SegmentDuration
  PROVE  Ready(y, at)
<1>1. y.sealed = Segments(x) /\ y.holes = x.holes
  BY DEF Shut
<1>2. Segments(x)[Len(Segments(x))] = x.open
  BY SegmentsAre
<1>3. x.open.id \notin x.holes
  BY DEF Unbroken
<1>4. QED
  BY <1>1, <1>2, <1>3 DEF Ready

(* A picture that begins a segment. *)
LEMMA StartKeepsWindow ==
  ASSUME NEW at \in Nat, NEW video \in Nat, NEW audio \in Nat,
         NEW x, Good(x, at, video, audio), x.open = NoSegment,
         audio = 0 => Tight(x) /\ Ready(x, at) /\ Light(x)
  PROVE  Kept(Evict(AppendPicture(OpenSegment(x, at), at)), at, video + 1, audio)
<1>. DEFINE v == AppendPicture(OpenSegment(x, at), at)
<1>1. /\ Good(v, at, video + 1, audio)
      /\ v.open # NoSegment /\ v.open.video = 1
      /\ Tight(x) /\ Ready(x, at) => Unbroken(v)
      /\ Light(x) => \A i \in DOMAIN Segments(v) :
                            Segments(v)[i].video <= MemoryCeiling
  BY StartIsWhole
<1>. HIDE DEF v
<1>2. video + 1 \in Nat
  OBVIOUS
<1>3. Good(Evict(v), at, video + 1, audio) /\ (Unbroken(v) => Unbroken(Evict(v)))
  BY <1>1, <1>2, EvictIsWhole
<1>4. ASSUME audio = 0 PROVE Unbroken(Evict(v)) /\ Light(Evict(v))
  <2>1. Good(v, at, video + 1, 0)
    BY <1>1, <1>4
  <2>2. Light(Evict(v))
    BY <1>1, <1>2, <1>4, <2>1, EvictIsLight
  <2>3. QED
    BY <1>1, <1>3, <1>4, <2>2
<1>5. QED
  BY <1>3, <1>4 DEF Kept, v

(* A picture for which there is room. *)
LEMMA PictureKeepsWindow ==
  ASSUME NEW at \in Nat, NEW video \in Nat, NEW audio \in Nat,
         NEW x, Kept(x, at, video, audio), x.open # NoSegment,
         SealedBytes(x) + (x.open.video + 1) <= MemoryCeiling
  PROVE  Kept(Evict(AppendPicture(x, at)), at, video + 1, audio)
<1>. DEFINE v == AppendPicture(x, at)
<1>0. Good(x, at, video, audio) /\ x \in Buffer
  BY DEF Kept, Good, Fine
<1>1. /\ Good(v, at, video + 1, audio)
      /\ v.open # NoSegment /\ v.sealed = x.sealed
      /\ v.open.video = x.open.video + 1 /\ v.open.audio = x.open.audio
      /\ ~v.open.spilled
      /\ Unbroken(x) => Unbroken(v)
  BY <1>0, PictureIsWhole
<1>. HIDE DEF v
<1>2. video + 1 \in Nat
  OBVIOUS
<1>3. Good(Evict(v), at, video + 1, audio) /\ (Unbroken(v) => Unbroken(Evict(v)))
  BY <1>1, <1>2, EvictIsWhole
<1>4. ASSUME audio = 0 PROVE Unbroken(Evict(v)) /\ Light(Evict(v))
  <2>1. Good(v, at, video + 1, 0) /\ Unbroken(x) /\ Light(x)
    BY <1>1, <1>4 DEF Kept
  <2>2. v \in Buffer /\ MemoryCeiling \in Nat /\ SealedBytes(x) \in Nat
    BY <1>0, <2>1, OwnedIsASum, ReplayConfigOK DEF Good, Fine
  <2>3. /\ Len(x.sealed) \in Nat
        /\ DOMAIN Segments(v) = 1 .. Len(x.sealed) + 1
        /\ Segments(v)[Len(x.sealed) + 1] = v.open
        /\ \A i \in 1 .. Len(x.sealed) : /\ Segments(v)[i] = x.sealed[i]
                                         /\ Segments(x)[i] = x.sealed[i]
                                         /\ i \in DOMAIN Segments(x)
    BY <1>0, <1>1, <2>2, SegmentsAre
  <2>4. x.open.video \in Nat
    <3>1. x.open \in Segment
      BY <1>0, SegmentsAre
    <3>2. QED
      BY <3>1 DEF Segment
  <2>5. v.open.video <= MemoryCeiling
    BY <1>1, <2>2, <2>4
  <2>6. \A i \in DOMAIN Segments(v) : Segments(v)[i].video <= MemoryCeiling
    <3>1. SUFFICES ASSUME NEW i \in DOMAIN Segments(v)
                   PROVE  Segments(v)[i].video <= MemoryCeiling
      OBVIOUS
    <3>2. i \in 1 .. Len(x.sealed) \/ i = Len(x.sealed) + 1
      BY <2>3
    <3>3. QED
      BY <2>1, <2>3, <2>5, <3>2 DEF Light
  <2>7. OwnedBytes(v) <= MemoryCeiling
    <3>1. v.open.audio = 0
      <4>1. Segments(v)[Len(x.sealed) + 1].audio <= 0
        BY <2>1, <2>3 DEF Good, Sized
      <4>2. v.open \in Segment
        BY <1>1, <2>2, SegmentsAre
      <4>3. v.open.audio \in Nat
        BY <4>2 DEF Segment
      <4>4. QED
        BY <2>3, <4>1, <4>3
    <3>2. ResidentBytes(v.open) = x.open.video + 1
      BY <1>1, <2>4, <3>1 DEF ResidentBytes
    <3>3. OwnedBytes(v) = SealedBytes(x) + ResidentBytes(v.open)
      BY <1>1 DEF OwnedBytes, SealedBytes
    <3>4. QED
      BY <3>2, <3>3
  <2>8. Light(Evict(v))
    BY <1>1, <1>2, <2>1, <2>6, <2>7, EvictIsLight
  <2>9. QED
    BY <1>1, <1>3, <2>1, <2>8
<1>5. QED
  BY <1>3, <1>4 DEF Kept, v

(* Room for a picture, or what is being written is sealed there. *)
LEMMA RoomKeepsWindow ==
  ASSUME NEW at \in Nat, NEW video \in Nat, NEW audio \in Nat,
         NEW x, Kept(x, at, video, audio), x.open # NoSegment,
         audio = 0 => at - x.open.last <= SegmentDuration, NEW cost \in Nat
  PROVE  LET z == MakeRoom(x, cost) IN
         \/ /\ Kept(z, at, video, audio) /\ z.open = x.open
            /\ SealedBytes(z) + cost <= MemoryCeiling
         \/ /\ Good(z, at, video, audio) /\ z.open = NoSegment /\ z.ceilingGap = 0
            /\ audio = 0 => Tight(z) /\ Ready(z, at) /\ Light(z)
<1>. DEFINE z == MakeRoom(x, cost)
<1>1. /\ Good(x, at, video, audio) /\ x \in Buffer /\ Fine(x, at) /\ Reaches(x)
      /\ Sized(x, at, video, audio)
  BY DEF Kept, Good, Fine
<1>2. \/ /\ Fine(z, at) /\ Cut(x, z) /\ Reaches(z)
         /\ SealedBytes(z) + cost <= MemoryCeiling
      \/ \E room \in Buffer :
            /\ Fine(room, at) /\ Cut(x, room) /\ Reaches(room)
            /\ Fine(z, at) /\ Shut(room, z)
            /\ z.ceilingGap = 0 /\ z.sourceGap = x.sourceGap
  BY <1>1, RoomCuts
<1>. HIDE DEF z
<1>3. ASSUME NEW y, Fine(y, at), Cut(x, y), Reaches(y)
      PROVE  Kept(y, at, video, audio) /\ y.open = x.open /\ y \in Buffer
  <2>1. y \in Buffer /\ y.open = x.open
    BY <1>3 DEF Fine, Cut
  <2>2. Sized(y, at, video, audio)
    BY <1>1, <1>3, <2>1, CutSized
  <2>3. (Unbroken(x) => Unbroken(y)) /\ (Light(x) => Light(y))
    BY <1>1, <1>3, <2>1, CutUnbroken, CutLight
  <2>4. QED
    BY <1>3, <2>1, <2>2, <2>3 DEF Kept, Good
<1>4. CASE /\ Fine(z, at) /\ Cut(x, z) /\ Reaches(z)
           /\ SealedBytes(z) + cost <= MemoryCeiling
  BY <1>3, <1>4 DEF z
<1>5. ASSUME NEW room \in Buffer,
             Fine(room, at), Cut(x, room), Reaches(room),
             Fine(z, at), Shut(room, z), z.ceilingGap = 0, z.sourceGap = x.sourceGap
      PROVE  /\ Good(z, at, video, audio) /\ z.open = NoSegment /\ z.ceilingGap = 0
             /\ audio = 0 => Tight(z) /\ Ready(z, at) /\ Light(z)
  <2>1. Kept(room, at, video, audio) /\ room.open = x.open
    BY <1>3, <1>5
  <2>2. Sized(room, at, video, audio)
    BY <2>1 DEF Kept, Good
  <2>3. z.sourceGap # None => z.sourceGap <= at
    BY <1>1, <1>5 DEF Sized
  <2>4. z \in Buffer /\ z.open = NoSegment
    BY <1>5 DEF Fine, Shut
  <2>5. /\ Good(z, at, video, audio)
        /\ Tight(room) => Tight(z)
        /\ Light(room) => Light(z)
    BY <1>5, <2>2, <2>3, <2>4, ShutKeeps
  <2>6. ASSUME audio = 0 PROVE Tight(z) /\ Ready(z, at) /\ Light(z)
    <3>1. Unbroken(room) /\ Light(room) /\ Tight(room)
      BY <2>1, <2>6 DEF Kept, Unbroken
    <3>2. Ready(z, at)
      BY <1>5, <2>1, <2>6, <3>1, ShutIsReady
    <3>3. QED
      BY <2>5, <3>1, <3>2
  <2>7. QED
    BY <1>5, <2>4, <2>5, <2>6
<1>6. QED
  BY <1>2, <1>4, <1>5 DEF z

(* A picture: the window stays whole, whatever had to be thrown away. *)
LEMMA PushKeepsWindow ==
  ASSUME NEW at \in Nat, NEW video \in Nat, NEW audio \in Nat,
         NEW x, Kept(x, at, video, audio), NEW key \in BOOLEAN
  PROVE  Kept(Push(x, key, at), at, video + 1, audio)
<1>. DEFINE x0 == [x EXCEPT !.silence = 0]
            y == SealAtSourceGap(x0, at)
            Awaiting(z) == z.open = NoSegment /\ ~key
            sealed == SealIfFull(y, key, at)
            z == IF sealed.open = NoSegment THEN sealed
                 ELSE MakeRoom(sealed, CostOfPicture(sealed))
            w == IF z.open = NoSegment THEN OpenSegment(z, at) ELSE z
            v == AppendPicture(w, at)
<1>0. Push(x, key, at) = IF Awaiting(y) THEN DiscardAwaitingKeyframe(y)
                         ELSE IF Awaiting(z) THEN DiscardAwaitingKeyframe(z)
                         ELSE Evict(v)
  BY DEF Push
<1>1. Kept(x0, at, video, audio)
  <2>1. x \in Buffer /\ Fine(x, at) /\ Good(x, at, video, audio)
    BY DEF Kept, Good, Fine
  <2>2. /\ x0 \in Buffer /\ x0.sealed = x.sealed /\ x0.open = x.open
        /\ x0.ids = x.ids /\ x0.spilling = x.spilling /\ x0.givenUp = x.givenUp
        /\ x0.ceilingGap = x.ceilingGap /\ x0.sourceGap = x.sourceGap
        /\ x0.holes = x.holes /\ x0.began = x.began /\ x0.leased = x.leased
        /\ x0.silence = 0
    BY <2>1 DEF Buffer
  <2>. HIDE DEF x0
  <2>3. Segments(x0) = Segments(x)
    BY <2>2 DEF Segments
  <2>4. Fine(x0, at)
    BY <2>1, <2>2, AsideKeeps
  <2>5. Sized(x0, at, video, audio)
    <3>1. /\ Sized(x, at, video, audio)
          /\ x.leased \subseteq 1 .. x.ids /\ x.spilling \subseteq 1 .. x.ids
          /\ (x.sourceGap # None => x.sourceGap <= at)
      BY <2>1 DEF Good, Sized
    <3>2. 0 \in 0 .. at
      OBVIOUS
    <3>3. QED
      BY <2>2, <2>3, <3>1, <3>2, SameSized
  <2>6. Reaches(x0) /\ (Light(x) => Light(x0))
    BY <2>1, <2>2, <2>3, SameList DEF Good
  <2>7. Unbroken(x) => Unbroken(x0)
    BY <2>2, <2>3 DEF Unbroken, Tight, AnyGap
  <2>8. QED
    BY <2>4, <2>5, <2>6, <2>7 DEF Kept, Good
<1>. HIDE DEF x0
<1>2. /\ Kept(y, at, video, audio)
      /\ audio = 0 /\ y.open # NoSegment => at - y.open.last <= SegmentDuration
  <2>1. Good(x0, at, video, audio)
    BY <1>1 DEF Kept
  <2>2. /\ Good(y, at, video, audio)
        /\ Unbroken(x0) => Unbroken(y)
        /\ Light(x0) => Light(y)
        /\ y.open # NoSegment => y = x0
        /\ Unbroken(x0) /\ y.open # NoSegment => at - x0.open.last <= SegmentDuration
    BY <2>1, SourceGapSeals
  <2>. HIDE DEF y
  <2>3. QED
    BY <1>1, <2>2 DEF Kept
<1>. HIDE DEF y
<1>3. Good(y, at, video, audio) /\ Fine(y, at) /\ y \in Buffer
  BY <1>2 DEF Kept, Good, Fine
<1>m. ASSUME NEW d, Good(d, at, video, audio) PROVE Good(d, at, video + 1, audio)
  <2>1. d \in Buffer /\ Sized(d, at, video, audio)
    BY <1>m DEF Good, Fine
  <2>2. video + 1 \in Nat /\ at <= at /\ video <= video + 1 /\ audio <= audio
    OBVIOUS
  <2>3. Sized(d, at, video + 1, audio)
    BY <2>1, <2>2, SizedMore
  <2>4. QED
    BY <1>m, <2>3 DEF Good
<1>4. CASE y.open = NoSegment /\ ~key
  <2>. DEFINE d == DiscardAwaitingKeyframe(y)
  <2>1. /\ Good(d, at, video, audio)
        /\ Tight(y) /\ (y.sealed = <<>> \/ AnyGap(y) \/ y.ceilingGap = 0) => Unbroken(d)
        /\ Light(y) => Light(d)
    BY <1>3, <1>4, DiscardLeavesWhole
  <2>. HIDE DEF d
  <2>2. Good(d, at, video + 1, audio)
    BY <1>m, <2>1
  <2>3. audio = 0 => Unbroken(d) /\ Light(d)
    BY <1>2, <1>4, <2>1 DEF Kept, Unbroken
  <2>4. Push(x, key, at) = d
    BY <1>0, <1>4 DEF d
  <2>5. QED
    BY <2>2, <2>3, <2>4 DEF Kept
<1>5. CASE y.open = NoSegment /\ key
  <2>1. sealed = y
    BY <1>5 DEF SealIfFull
  <2>. HIDE DEF sealed
  <2>2. z = y
    BY <1>5, <2>1
  <2>. HIDE DEF z
  <2>3. Push(x, key, at) = Evict(AppendPicture(OpenSegment(y, at), at))
    BY <1>0, <1>5, <2>2
  <2>4. audio = 0 => Tight(y) /\ Ready(y, at) /\ Light(y)
    BY <1>2, <1>5 DEF Kept, Unbroken, Ready
  <2>5. QED
    BY <1>3, <1>5, <2>3, <2>4, StartKeepsWindow
<1>6. CASE y.open # NoSegment /\ key /\ at - y.open.start >= SegmentDuration
  <2>1. sealed = Seal(y)
    BY <1>6 DEF SealIfFull
  <2>2. Fine(sealed, at) /\ Shut(y, sealed) /\ sealed.sourceGap = y.sourceGap
    BY <1>3, <2>1, SealShuts
  <2>. HIDE DEF sealed
  <2>3. sealed.open = NoSegment /\ z = sealed /\ sealed \in Buffer
    BY <2>2 DEF Shut, Fine
  <2>. HIDE DEF z
  <2>4. Push(x, key, at) = Evict(AppendPicture(OpenSegment(sealed, at), at))
    BY <1>0, <1>6, <2>3
  <2>5. sealed.sourceGap # None => sealed.sourceGap <= at
    BY <1>3, <2>2 DEF Good, Sized
  <2>6. /\ Good(sealed, at, video, audio)
        /\ Tight(y) => Tight(sealed)
        /\ Light(y) => Light(sealed)
    BY <1>3, <2>2, <2>3, <2>5, ShutKeeps DEF Good
  <2>7. ASSUME audio = 0 PROVE Tight(sealed) /\ Ready(sealed, at) /\ Light(sealed)
    <3>1. Unbroken(y) /\ Light(y) /\ Tight(y) /\ at - y.open.last <= SegmentDuration
      BY <1>2, <1>6, <2>7 DEF Kept, Unbroken
    <3>2. Ready(sealed, at)
      BY <1>3, <1>6, <2>2, <3>1, ShutIsReady
    <3>3. QED
      BY <2>6, <3>1, <3>2
  <2>8. QED
    BY <2>3, <2>4, <2>6, <2>7, StartKeepsWindow
<1>7. CASE y.open # NoSegment /\ ~ (key /\ at - y.open.start >= SegmentDuration)
  <2>1. sealed = y
    BY <1>7 DEF SealIfFull
  <2>. HIDE DEF sealed
  <2>2. z = MakeRoom(y, CostOfPicture(y))
    BY <1>7, <2>1
  <2>. HIDE DEF z
  <2>3. CostOfPicture(y) \in Nat /\ CostOfPicture(y) = y.open.video + 1
    <3>1. y.open \in Segment
      BY <1>3, <1>7, SegmentsAre
    <3>2. y.open.video \in Nat
      BY <3>1 DEF Segment
    <3>3. QED
      BY <3>2 DEF CostOfPicture
  <2>4. \/ /\ Kept(z, at, video, audio) /\ z.open = y.open
           /\ SealedBytes(z) + CostOfPicture(y) <= MemoryCeiling
        \/ /\ Good(z, at, video, audio) /\ z.open = NoSegment /\ z.ceilingGap = 0
           /\ audio = 0 => Tight(z) /\ Ready(z, at) /\ Light(z)
    BY <1>2, <1>7, <2>2, <2>3, RoomKeepsWindow
  <2>5. CASE /\ Kept(z, at, video, audio) /\ z.open = y.open
             /\ SealedBytes(z) + CostOfPicture(y) <= MemoryCeiling
    <3>1. Push(x, key, at) = Evict(AppendPicture(z, at))
      BY <1>0, <1>7, <2>5
    <3>2. z.open # NoSegment /\ SealedBytes(z) + (z.open.video + 1) <= MemoryCeiling
      BY <1>7, <2>3, <2>5
    <3>3. QED
      BY <2>5, <3>1, <3>2, PictureKeepsWindow
  <2>6. CASE /\ Good(z, at, video, audio) /\ z.open = NoSegment /\ z.ceilingGap = 0
             /\ audio = 0 => Tight(z) /\ Ready(z, at) /\ Light(z)
    <3>1. CASE key
      <4>1. Push(x, key, at) = Evict(AppendPicture(OpenSegment(z, at), at))
        BY <1>0, <2>6, <3>1
      <4>2. QED
        BY <2>6, <4>1, StartKeepsWindow
    <3>2. CASE ~key
      <4>. DEFINE d == DiscardAwaitingKeyframe(z)
      <4>1. /\ Good(d, at, video, audio)
            /\ Tight(z) /\ (z.sealed = <<>> \/ AnyGap(z) \/ z.ceilingGap = 0) => Unbroken(d)
            /\ Light(z) => Light(d)
        BY <2>6, DiscardLeavesWhole
      <4>. HIDE DEF d
      <4>2. Good(d, at, video + 1, audio)
        BY <1>m, <4>1
      <4>3. audio = 0 => Unbroken(d) /\ Light(d)
        BY <2>6, <4>1
      <4>4. Push(x, key, at) = d
        BY <1>0, <1>7, <2>6, <3>2 DEF d
      <4>5. QED
        BY <4>2, <4>3, <4>4 DEF Kept
    <3>3. QED
      BY <3>1, <3>2
  <2>7. QED
    BY <2>4, <2>5, <2>6
<1>8. QED
  BY <1>4, <1>5, <1>6, <1>7

(* A block of audio. *)
LEMMA BlockKeepsWindow ==
  ASSUME NEW at \in Nat, NEW video \in Nat, NEW audio \in Nat,
         NEW x, Good(x, at, video, audio)
  PROVE  Kept(PushBlock(x), at, video, audio + 1)
<1>. DEFINE z == MakeRoom(x, CostOfAudio(x))
            v == [z EXCEPT !.open.audio = @ + 1]
<1>1. x \in Buffer /\ Fine(x, at) /\ Reaches(x) /\ Sized(x, at, video, audio)
  BY DEF Good, Fine
<1>2. audio + 1 \in Nat /\ audio + 1 # 0
  OBVIOUS
<1>3. ASSUME NEW y, Good(y, at, video, audio)
      PROVE  Kept(y, at, video, audio + 1)
  <2>1. y \in Buffer /\ Sized(y, at, video, audio)
    BY <1>3 DEF Good, Fine
  <2>2. at <= at /\ video <= video /\ audio <= audio + 1
    OBVIOUS
  <2>3. Sized(y, at, video, audio + 1)
    BY <1>2, <2>1, <2>2, SizedMore
  <2>4. QED
    BY <1>2, <1>3, <2>3 DEF Good, Kept
<1>4. CASE x.open = NoSegment
  <2>1. PushBlock(x) = x
    BY <1>4 DEF PushBlock
  <2>2. QED
    BY <1>3, <2>1
<1>5. CASE x.open # NoSegment
  <2>0. PushBlock(x) = IF z.open = NoSegment THEN z ELSE Evict(v)
    BY <1>5 DEF PushBlock
  <2>1. CostOfAudio(x) \in Nat
    <3>1. x.open \in Segment
      BY <1>1, <1>5, SegmentsAre
    <3>2. x.open.video \in Nat /\ x.open.audio \in Nat
      BY <3>1 DEF Segment
    <3>3. QED
      BY <3>2 DEF CostOfAudio
  <2>2. \/ /\ Fine(z, at) /\ Cut(x, z) /\ Reaches(z)
        \/ \E room \in Buffer :
              /\ Fine(room, at) /\ Cut(x, room) /\ Reaches(room)
              /\ Fine(z, at) /\ Shut(room, z)
              /\ z.ceilingGap = 0 /\ z.sourceGap = x.sourceGap
    BY <1>1, <1>5, <2>1, RoomCuts
  <2>. HIDE DEF z
  <2>3. Good(z, at, video, audio)
    <3>1. CASE Fine(z, at) /\ Cut(x, z) /\ Reaches(z)
      BY <1>1, <3>1, CutSized DEF Good, Fine
    <3>2. ASSUME NEW room \in Buffer,
                 Fine(room, at), Cut(x, room), Reaches(room),
                 Fine(z, at), Shut(room, z), z.sourceGap = x.sourceGap
          PROVE  Good(z, at, video, audio)
      <4>1. Sized(room, at, video, audio) /\ z \in Buffer
        BY <1>1, <3>2, CutSized DEF Fine
      <4>2. z.sourceGap # None => z.sourceGap <= at
        BY <1>1, <3>2 DEF Sized
      <4>3. QED
        BY <3>2, <4>1, <4>2, ShutKeeps
    <3>3. QED
      BY <2>2, <3>1, <3>2
  <2>4. CASE z.open = NoSegment
    BY <1>3, <2>0, <2>3, <2>4
  <2>5. CASE z.open # NoSegment
    <3>1. Good(v, at, video, audio + 1)
      BY <2>3, <2>5, BlockIsWhole
    <3>. HIDE DEF v
    <3>2. Good(Evict(v), at, video, audio + 1)
      BY <1>2, <3>1, EvictIsWhole
    <3>3. QED
      BY <1>2, <2>0, <2>5, <3>2 DEF Kept
  <2>6. QED
    BY <2>4, <2>5
<1>6. QED
  BY <1>4, <1>5

(* A change to what the window does not depend on. *)
LEMMA AsideIsKept ==
  ASSUME NEW at \in Nat, NEW video \in Nat, NEW audio \in Nat,
         NEW x, Kept(x, at, video, audio), NEW y \in Buffer,
         y.sealed = x.sealed, y.open = x.open, y.ids = x.ids, y.began = x.began,
         y.ceilingGap = x.ceilingGap, y.sourceGap = x.sourceGap, y.holes = x.holes,
         y.leased \subseteq 1 .. x.ids, y.spilling \subseteq 1 .. x.ids,
         y.silence \in 0 .. at
  PROVE  Kept(y, at, video, audio)
<1>1. /\ x \in Buffer /\ Fine(x, at) /\ Reaches(x) /\ Sized(x, at, video, audio)
  BY DEF Kept, Good, Fine
<1>2. Segments(y) = Segments(x)
  BY DEF Segments
<1>3. Fine(y, at)
  BY <1>1 DEF Fine, InOrder
<1>4. Sized(y, at, video, audio)
  <2>1. x.sourceGap # None => x.sourceGap <= at
    BY <1>1 DEF Sized
  <2>2. QED
    BY <1>1, <1>2, <2>1, SameSized
<1>5. Reaches(y) /\ (Light(x) => Light(y))
  BY <1>1, <1>2, SameList
<1>6. Unbroken(x) => Unbroken(y)
  BY <1>2 DEF Unbroken, Tight, AnyGap
<1>7. QED
  BY <1>3, <1>4, <1>5, <1>6 DEF Kept, Good

(* A segment that is on disk weighs nothing, and is where it was. *)
LEMMA MarkedIsKept ==
  ASSUME NEW at \in Nat, NEW video \in Nat, NEW audio \in Nat,
         NEW x, Kept(x, at, video, audio), NEW i \in DOMAIN x.sealed
  PROVE  Kept(Marked(x, i), at, video, audio)
<1>. DEFINE new == [x.sealed[i] EXCEPT !.spilled = TRUE]
            list == [x.sealed EXCEPT ![i] = new]
            y == Marked(x, i)
            n == Len(x.sealed)
            X == Segments(x)
            Y == Segments(y)
<1>1. /\ x \in Buffer /\ Fine(x, at) /\ Reaches(x) /\ Sized(x, at, video, audio)
      /\ x.sealed \in Seq(Segment) /\ x.sealed[i] \in Segment
      /\ n \in Nat /\ i \in 1 .. n
  BY DEF Kept, Good, Fine, Buffer
<1>2. /\ new \in Segment /\ new.id = x.sealed[i].id /\ new.last = x.sealed[i].last
      /\ new.start = x.sealed[i].start /\ new.video = x.sealed[i].video
      /\ new.audio = x.sealed[i].audio /\ new.spilled
  BY <1>1 DEF Segment
<1>. HIDE DEF new
<1>3. /\ list \in Seq(Segment) /\ Len(list) = n /\ list[i] = new
      /\ \A j \in 1 .. n : j # i => list[j] = x.sealed[j]
  BY <1>1, <1>2
<1>4. y = [x EXCEPT !.spilling = x.spilling \ {x.sealed[i].id}, !.sealed = list]
  BY <1>1 DEF Marked, Buffer, new
<1>5. Fine(y, at)
  BY <1>1, MarkedKeeps
<1>. HIDE DEF list, y
<1>6. /\ y.sealed = list /\ y.open = x.open /\ y.ids = x.ids /\ y.began = x.began
      /\ y.ceilingGap = x.ceilingGap /\ y.sourceGap = x.sourceGap
      /\ y.holes = x.holes /\ y.leased = x.leased /\ y.silence = x.silence
      /\ y.spilling = x.spilling \ {x.sealed[i].id}
  BY <1>1, <1>3, <1>4 DEF Buffer
<1>7. y \in Buffer
  BY <1>5 DEF Fine
<1>8. /\ X \in Seq(Segment) /\ Y \in Seq(Segment) /\ Len(X) = Len(Y) /\ Len(X) \in Nat
      /\ \A j \in 1 .. Len(X) : /\ X[j] \in Segment /\ Y[j] \in Segment
                                /\ Y[j] = X[j] \/ (j = i /\ X[j] = x.sealed[i] /\ Y[j] = new)
  <2>1. /\ X \in Seq(Segment) /\ \A j \in 1 .. n : X[j] = x.sealed[j]
        /\ x.open = NoSegment => Len(X) = n
        /\ x.open # NoSegment => Len(X) = n + 1 /\ X[n + 1] = x.open
    BY <1>1, SegmentsAre
  <2>2. /\ Y \in Seq(Segment) /\ \A j \in 1 .. n : Y[j] = list[j]
        /\ x.open = NoSegment => Len(Y) = n
        /\ x.open # NoSegment => Len(Y) = n + 1 /\ Y[n + 1] = x.open
    BY <1>3, <1>6, <1>7, SegmentsAre
  <2>. HIDE DEF X, Y, n
  <2>3. \A j \in 1 .. n : Y[j] = X[j] \/ (j = i /\ X[j] = x.sealed[i] /\ Y[j] = new)
    BY <1>3, <2>1, <2>2
  <2>4. Len(X) = Len(Y) /\ Len(X) \in Nat
    BY <2>1, <2>2
  <2>5. \A j \in 1 .. Len(X) : j \in 1 .. n \/ (j = n + 1 /\ x.open # NoSegment)
    BY <1>1, <2>1
  <2>6. \A j \in 1 .. Len(X) : Y[j] = X[j] \/ (j = i /\ X[j] = x.sealed[i] /\ Y[j] = new)
    BY <2>1, <2>2, <2>3, <2>5
  <2>7. \A j \in 1 .. Len(X) : X[j] \in Segment /\ Y[j] \in Segment
    BY <2>1, <2>2, <2>4
  <2>8. QED
    BY <2>1, <2>2, <2>4, <2>6, <2>7
<1>. HIDE DEF X, Y, n
<1>9. \A j \in 1 .. Len(X) : /\ Y[j].id = X[j].id /\ Y[j].start = X[j].start
                             /\ Y[j].last = X[j].last /\ Y[j].video = X[j].video
                             /\ Y[j].audio = X[j].audio
                             /\ ResidentBytes(Y[j]) <= ResidentBytes(X[j])
  <2>1. SUFFICES ASSUME NEW j \in 1 .. Len(X)
                 PROVE  /\ Y[j].id = X[j].id /\ Y[j].start = X[j].start
                        /\ Y[j].last = X[j].last /\ Y[j].video = X[j].video
                        /\ Y[j].audio = X[j].audio
                        /\ ResidentBytes(Y[j]) <= ResidentBytes(X[j])
    OBVIOUS
  <2>2. ResidentBytes(X[j]) \in Nat
    BY <1>8, BytesAreNumbers
  <2>3. CASE Y[j] = X[j]
    BY <2>2, <2>3
  <2>4. CASE X[j] = x.sealed[i] /\ Y[j] = new
    <3>1. ResidentBytes(Y[j]) = 0
      BY <1>2, <2>4 DEF ResidentBytes
    <3>2. QED
      BY <1>2, <2>2, <2>4, <3>1
  <2>5. QED
    BY <1>8, <2>3, <2>4
<1>10. DOMAIN X = 1 .. Len(X) /\ DOMAIN Y = 1 .. Len(X)
  BY <1>8
<1>11. \A j \in 1 .. Len(X) : j > 1 => j - 1 \in 1 .. Len(X)
  BY <1>8
<1>12. Sized(y, at, video, audio)
  <2>1. \A j \in 1 .. Len(X) : /\ X[j].id > 0 /\ X[j].start <= X[j].last
                               /\ X[j].video \in 1 .. video /\ X[j].audio <= audio
                               /\ j > 1 => X[j - 1].last <= X[j].start
    BY <1>1, <1>10 DEF Sized, X
  <2>2. \A j \in 1 .. Len(X) : /\ Y[j].id > 0 /\ Y[j].start <= Y[j].last
                               /\ Y[j].video \in 1 .. video /\ Y[j].audio <= audio
                               /\ j > 1 => Y[j - 1].last <= Y[j].start
    BY <1>9, <1>11, <2>1
  <2>3. QED
    BY <1>1, <1>6, <1>10, <2>2 DEF Sized, Y
<1>13. X # <<>> /\ Y # <<>> /\ Y[1].start = X[1].start
       /\ LatestPresentation(y) = LatestPresentation(x)
  <2>1. n <= Len(X) /\ n >= 1 /\ Len(X) \in Nat /\ n \in Nat
    <3>1. Len(X) = n \/ Len(X) = n + 1
      BY <1>1, SegmentsAre DEF X, n
    <3>2. n \in Nat /\ i \in 1 .. n
      BY <1>1 DEF n
    <3>3. QED
      BY <3>1, <3>2
  <2>2. 1 \in 1 .. Len(X) /\ Len(X) \in 1 .. Len(X)
    BY <2>1
  <2>3. X # <<>> /\ Y # <<>>
    BY <1>10, <2>2
  <2>4. /\ LatestPresentation(x) = X[Len(X)].last
        /\ LatestPresentation(y) = Y[Len(Y)].last
    BY <2>3 DEF LatestPresentation, Last, X, Y
  <2>5. QED
    BY <1>8, <1>9, <2>2, <2>3, <2>4
<1>14. Reaches(y)
  BY <1>1, <1>6, <1>13 DEF Reaches, X, Y
<1>15. Unbroken(x) => Unbroken(y)
  <2>1. SUFFICES ASSUME Unbroken(x) PROVE Unbroken(y)
    OBVIOUS
  <2>2. \A j \in 1 .. Len(X) : j > 1 => /\ X[j - 1].id \notin x.holes
                                        /\ X[j].start - X[j - 1].last <= SegmentDuration
    BY <1>10, <2>1 DEF Unbroken, Tight, X
  <2>3. \A j \in 1 .. Len(X) : j > 1 => /\ Y[j - 1].id \notin x.holes
                                        /\ Y[j].start - Y[j - 1].last <= SegmentDuration
    BY <1>9, <1>11, <2>2
  <2>4. Tight(y)
    BY <1>6, <1>10, <2>1, <2>3 DEF Unbroken, Tight, Y
  <2>5. x.sealed # <<>>
    BY <1>1
  <2>6. QED
    BY <1>6, <2>1, <2>4, <2>5 DEF Unbroken, AnyGap
<1>16. Light(x) => Light(y)
  <2>1. SUFFICES ASSUME Light(x) PROVE Light(y)
    OBVIOUS
  <2>2. ResidentIn(Y) <= ResidentIn(X)
    <3>1. \A k \in 1 .. Len(Y) : ResidentBytes(Y[k]) <= ResidentBytes(X[0 + k])
      BY <1>8, <1>9
    <3>2. 0 + Len(Y) = Len(X) /\ 0 \in Nat
      BY <1>8
    <3>3. QED
      BY <1>8, <3>1, <3>2, LighterPart
  <2>3. /\ OwnedBytes(x) = ResidentIn(X) /\ OwnedBytes(y) = ResidentIn(Y)
        /\ OwnedBytes(x) \in Nat /\ OwnedBytes(y) \in Nat
    BY <1>1, <1>7, OwnedIsASum DEF X, Y
  <2>4. OwnedBytes(y) <= MemoryCeiling + 1
    <3>1. OwnedBytes(x) <= MemoryCeiling + 1 /\ MemoryCeiling \in Nat
      BY <2>1, ReplayConfigOK DEF Light
    <3>2. QED
      BY <2>2, <2>3, <3>1
  <2>5. \A j \in 1 .. Len(X) : X[j].video <= MemoryCeiling
    BY <1>10, <2>1 DEF Light, X
  <2>6. \A j \in DOMAIN Segments(y) : Segments(y)[j].video <= MemoryCeiling
    BY <1>9, <1>10, <2>5 DEF Y
  <2>7. QED
    BY <2>4, <2>6 DEF Light
<1>17. QED
  BY <1>5, <1>12, <1>14, <1>15, <1>16 DEF Kept, Good, y

LEMMA EmptyIsKept ==
  ASSUME NEW at \in Nat, NEW video \in Nat, NEW audio \in Nat
  PROVE  Kept(Empty, at, video, audio)
<1>1. /\ Empty.sealed = <<>> /\ Empty.open = NoSegment /\ Empty.ids = 0
      /\ Empty.began = None /\ Empty.sourceGap = None /\ Empty.ceilingGap = None
      /\ Empty.holes = {} /\ Empty.leased = {} /\ Empty.spilling = {}
      /\ Empty.silence = 0
  BY DEF Empty
<1>2. Empty \in Buffer /\ Fine(Empty, at)
  BY EmptyHasNone
<1>3. Segments(Empty) = <<>> /\ Len(<<>>) = 0 /\ DOMAIN <<>> = {}
  BY <1>1 DEF Segments
<1>4. Sized(Empty, at, video, audio)
  BY <1>1, <1>3 DEF Sized
<1>5. Reaches(Empty)
  BY <1>1, <1>3 DEF Reaches
<1>6. OwnedBytes(Empty) = 0
  BY <1>2, <1>3, OwnedIsASum, NothingWeighsNothing
<1>7. Light(Empty) /\ Unbroken(Empty)
  BY <1>1, <1>3, <1>6, ReplayConfigOK DEF Light, Unbroken, Tight
<1>8. QED
  BY <1>2, <1>4, <1>5, <1>7 DEF Kept, Good

-----------------------------------------------------------------------------
(* The window, in every step.                                              *)

Whole == Kept(b, clock, pushed.video, pushed.audio)

LEMMA NumbersOfWindow ==
  ASSUME SpillInv
  PROVE  /\ clock \in Nat /\ pushed.video \in Nat /\ pushed.audio \in Nat
         /\ pushed.at \in Nat /\ pushed.at <= clock /\ b \in Buffer
BY DEF SpillInv, Typed, Pushed, Fine

(* Of the numbers the buffer keeps aside, all were given. *)
LEMMA GivenNumbers ==
  ASSUME SpillInv, Whole
  PROVE  /\ b.leased \subseteq 1 .. b.ids /\ b.spilling \subseteq 1 .. b.ids
         /\ b.silence \in 0 .. clock /\ b.ids <= pushed.video
         /\ \A s \in Holds(b) : s.id \in 1 .. b.ids
<1>1. Sized(b, clock, pushed.video, pushed.audio) /\ Fine(b, pushed.at) /\ b \in Buffer
  BY DEF Whole, Kept, Good, SpillInv, Fine
<1>2. ASSUME NEW s \in Holds(b) PROVE s.id \in 1 .. b.ids
  <2>1. PICK i \in DOMAIN Segments(b) : s = Segments(b)[i]
    BY <1>1, HeldIsListed
  <2>2. Segments(b) \in Seq(Segment)
    BY <1>1, SegmentsAre
  <2>3. s \in Segment /\ s.id > 0
    BY <1>1, <2>1, <2>2 DEF Sized
  <2>4. s.id <= b.ids
    BY <1>1, HoldsAll DEF Fine, InOrder
  <2>5. QED
    BY <1>1, <2>3, <2>4 DEF Segment, Buffer
<1>3. QED
  BY <1>1, <1>2 DEF Sized

LEMMA SameIsWhole ==
  ASSUME Whole, UNCHANGED <<clock, pushed, b>>
  PROVE  Whole'
BY DEF Whole

LEMMA AsideIsWhole ==
  ASSUME SpillInv, Whole, UNCHANGED <<clock, pushed>>, b' \in Buffer,
         b'.sealed = b.sealed, b'.open = b.open, b'.ids = b.ids, b'.began = b.began,
         b'.ceilingGap = b.ceilingGap, b'.sourceGap = b.sourceGap, b'.holes = b.holes,
         b'.leased \subseteq 1 .. b.ids, b'.spilling \subseteq 1 .. b.ids,
         b'.silence \in 0 .. clock
  PROVE  Whole'
BY NumbersOfWindow, AsideIsKept DEF Whole

LEMMA TickIsWhole == SpillInv /\ Whole /\ Tick => Whole'
<1>. SUFFICES ASSUME SpillInv, Whole, Tick PROVE Whole'
  OBVIOUS
<1>1. /\ clock \in Nat /\ pushed.video \in Nat /\ pushed.audio \in Nat /\ b \in Buffer
      /\ clock' = clock + 1 /\ UNCHANGED <<pushed, b>>
  BY NumbersOfWindow DEF Tick
<1>2. /\ clock + 1 \in Nat /\ clock <= clock + 1
      /\ pushed.video <= pushed.video /\ pushed.audio <= pushed.audio
  BY <1>1
<1>3. /\ Fine(b, clock) /\ Sized(b, clock, pushed.video, pushed.audio) /\ Reaches(b)
      /\ pushed.audio = 0 => Unbroken(b) /\ Light(b)
  BY DEF Whole, Kept, Good
<1>4. Fine(b, clock + 1)
  BY <1>1, <1>2, <1>3, FineLater
<1>5. Sized(b, clock + 1, pushed.video, pushed.audio)
  BY <1>1, <1>2, <1>3, SizedMore
<1>6. QED
  BY <1>1, <1>3, <1>4, <1>5 DEF Whole, Kept, Good

LEMMA PushVideoIsWhole ==
  ASSUME SpillInv, Whole, NEW key \in BOOLEAN, PushVideo(key)
  PROVE  Whole'
<1>1. /\ clock \in Nat /\ pushed.video \in Nat /\ pushed.audio \in Nat
      /\ b' = Push(b, key, clock) /\ clock' = clock
      /\ pushed'.video = pushed.video + 1 /\ pushed'.audio = pushed.audio
  BY NumbersOfWindow DEF SpillInv, Typed, Pushed, PushVideo
<1>2. Kept(Push(b, key, clock), clock, pushed.video + 1, pushed.audio)
  BY <1>1, PushKeepsWindow DEF Whole
<1>3. QED
  BY <1>1, <1>2 DEF Whole

LEMMA PushAudioIsWhole == SpillInv /\ Whole /\ PushAudio => Whole'
<1>. SUFFICES ASSUME SpillInv, Whole, PushAudio PROVE Whole'
  OBVIOUS
<1>1. /\ clock \in Nat /\ pushed.video \in Nat /\ pushed.audio \in Nat
      /\ b' = PushBlock(b) /\ clock' = clock
      /\ pushed'.video = pushed.video /\ pushed'.audio = pushed.audio + 1
  BY NumbersOfWindow DEF SpillInv, Typed, Pushed, PushAudio
<1>2. Kept(PushBlock(b), clock, pushed.video, pushed.audio + 1)
  BY <1>1, BlockKeepsWindow DEF Whole, Kept
<1>3. QED
  BY <1>1, <1>2 DEF Whole

LEMMA SilenceIsWhole == SpillInv /\ Whole /\ NoteSourceSilence => Whole'
<1>. SUFFICES ASSUME SpillInv, Whole, NoteSourceSilence PROVE Whole'
  OBVIOUS
<1>. DEFINE s == clock - pushed.at
<1>1. s \in 0 .. clock /\ s \in Int /\ b \in Buffer
  BY NumbersOfWindow
<1>2. b' = [b EXCEPT !.silence = s] /\ UNCHANGED <<clock, pushed>>
  BY DEF NoteSourceSilence
<1>. HIDE DEF s
<1>3. /\ b' \in Buffer
      /\ b'.sealed = b.sealed /\ b'.open = b.open /\ b'.ids = b.ids /\ b'.began = b.began
      /\ b'.ceilingGap = b.ceilingGap /\ b'.sourceGap = b.sourceGap /\ b'.holes = b.holes
      /\ b'.leased = b.leased /\ b'.spilling = b.spilling
      /\ b'.silence = s
  BY <1>1, <1>2 DEF Buffer
<1>4. QED
  BY <1>1, <1>2, <1>3, GivenNumbers, AsideIsWhole

(* What either thread does to the buffer when it spills. *)
LEMMA ClaimIsWhole ==
  ASSUME SpillInv, Whole, UNCHANGED <<clock, pushed>>,
         NEW S \in SUBSET (1 .. b.ids), NEW up \in BOOLEAN,
         b' = [b EXCEPT !.givenUp = up, !.spilling = S]
  PROVE  Whole'
<1>1. b \in Buffer /\ b.ids \in Nat
  BY NumbersOfWindow DEF Buffer
<1>2. S \subseteq Nat
  BY <1>1
<1>3. /\ b' \in Buffer
      /\ b'.sealed = b.sealed /\ b'.open = b.open /\ b'.ids = b.ids /\ b'.began = b.began
      /\ b'.ceilingGap = b.ceilingGap /\ b'.sourceGap = b.sourceGap /\ b'.holes = b.holes
      /\ b'.leased = b.leased /\ b'.spilling = S /\ b'.silence = b.silence
  BY <1>1, <1>2 DEF Buffer
<1>4. QED
  BY <1>3, GivenNumbers, AsideIsWhole

LEMMA ChosenIsGiven ==
  ASSUME SpillInv, Whole, ~NothingToOffer(b)
  PROVE  NextToSpill(b) \in 1 .. b.ids
<1>1. b \in Buffer /\ b.sealed \in Seq(Segment)
  BY NumbersOfWindow DEF Buffer
<1>2. ToSpill(b) \in SUBSET Nat /\ ToSpill(b) # {}
  BY <1>1 DEF NothingToOffer, ToSpill
<1>3. PICK i \in DOMAIN b.sealed : NextToSpill(b) = b.sealed[i].id
  BY <1>2, LeastIsThere DEF NextToSpill, ToSpill
<1>4. b.sealed[i] \in Holds(b)
  BY HoldsAll
<1>5. QED
  BY <1>3, <1>4, GivenNumbers

LEMMA ChooseIsWhole ==
  ASSUME SpillInv, Whole, UNCHANGED <<clock, pushed>>,
         \/ UNCHANGED b
         \/ /\ ~NothingToOffer(b)
            /\ b' = [b EXCEPT !.spilling = @ \cup {NextToSpill(b)}]
  PROVE  Whole'
<1>1. CASE UNCHANGED b
  BY <1>1, SameIsWhole
<1>2. CASE /\ ~NothingToOffer(b)
           /\ b' = [b EXCEPT !.spilling = @ \cup {NextToSpill(b)}]
  <2>. DEFINE S == b.spilling \cup {NextToSpill(b)}
  <2>1. S \in SUBSET (1 .. b.ids) /\ b.givenUp \in BOOLEAN
    BY <1>2, GivenNumbers, ChosenIsGiven, NumbersOfWindow DEF Buffer
  <2>2. b' = [b EXCEPT !.givenUp = b.givenUp, !.spilling = S]
    BY <1>2, NumbersOfWindow DEF Buffer
  <2>. HIDE DEF S
  <2>3. QED
    BY <2>1, <2>2, ClaimIsWhole
<1>3. QED
  BY <1>1, <1>2

LEMMA DeclineIsWhole ==
  ASSUME SpillInv, Whole, UNCHANGED <<clock, pushed>>, NEW id,
         b' = [b EXCEPT !.spilling = @ \ {id}]
  PROVE  Whole'
<1>. DEFINE S == b.spilling \ {id}
<1>1. S \in SUBSET (1 .. b.ids) /\ b.givenUp \in BOOLEAN
  BY GivenNumbers, NumbersOfWindow DEF Buffer
<1>2. b' = [b EXCEPT !.givenUp = b.givenUp, !.spilling = S]
  BY NumbersOfWindow DEF Buffer
<1>. HIDE DEF S
<1>3. QED
  BY <1>1, <1>2, ClaimIsWhole

LEMMA SpillIsWhole == SpillInv /\ Whole /\ Spill => Whole'
<1>. SUFFICES ASSUME SpillInv, Whole, Spill PROVE Whole'
  OBVIOUS
<1>1. CASE CaptureOffers
  BY <1>1, ChooseIsWhole DEF CaptureOffers, Choose
<1>2. CASE CaptureSends
  BY <1>2, SameIsWhole DEF CaptureSends, TrySend
<1>3. CASE CaptureDeclines
  BY <1>3, DeclineIsWhole DEF CaptureDeclines, Decline
<1>4. QED
  BY <1>1, <1>2, <1>3 DEF Spill

LEMMA MarkSpilledIsWhole == SpillInv /\ Whole /\ MarkSpilled => Whole'
<1>. SUFFICES ASSUME SpillInv, Whole, MarkSpilled PROVE Whole'
  OBVIOUS
<1>. DEFINE id == writer.segment
            y == [b EXCEPT !.spilling = @ \ {id}]
            i == Min(Positions(b, id))
<1>0. UNCHANGED <<clock, pushed>> /\ b \in Buffer
  BY NumbersOfWindow DEF MarkSpilled
<1>1. CASE b' = y
  BY <1>0, <1>1, DeclineIsWhole
<1>2. CASE Positions(b, id) # {} /\ b' = [y EXCEPT !.sealed[i].spilled = TRUE]
  <2>1. i \in DOMAIN b.sealed /\ b.sealed[i].id = id
    <3>1. Positions(b, id) \in SUBSET Nat
      <4>1. b.sealed \in Seq(Segment)
        BY <1>0 DEF Buffer
      <4>2. QED
        BY <4>1 DEF Positions
    <3>2. QED
      BY <1>2, <3>1, LeastIsThere DEF Positions
  <2>2. b' = Marked(b, i)
    BY <1>0, <1>2, <2>1 DEF Buffer, Marked
  <2>. HIDE DEF i
  <2>3. Kept(Marked(b, i), clock, pushed.video, pushed.audio)
    BY <2>1, NumbersOfWindow, MarkedIsKept DEF Whole
  <2>4. QED
    BY <1>0, <2>2, <2>3 DEF Whole
<1>3. QED
  BY <1>1, <1>2 DEF MarkSpilled

LEMMA EmptyIsWhole ==
  ASSUME SpillInv, UNCHANGED <<clock, pushed>>, b' = Empty
  PROVE  Whole'
BY NumbersOfWindow, EmptyIsKept DEF Whole

LEMMA WriterIsWhole == SpillInv /\ Whole /\ WriterStep => Whole'
<1>. SUFFICES ASSUME SpillInv, Whole, WriterStep PROVE Whole'
  OBVIOUS
<1>1. CASE Receive \/ Write \/ Upgrade
  BY <1>1, SameIsWhole DEF Receive, Write, Upgrade
<1>2. CASE MarkSpilled
  BY <1>2, MarkSpilledIsWhole
<1>3. CASE GiveUpSpilling
  <2>1. {} \in SUBSET (1 .. b.ids) /\ TRUE \in BOOLEAN
    OBVIOUS
  <2>2. QED
    BY <1>3, <2>1, ClaimIsWhole DEF GiveUpSpilling
<1>4. CASE WriterOffers
  BY <1>4, ChooseIsWhole DEF WriterOffers, Choose
<1>5. CASE WriterSends
  BY <1>5, SameIsWhole DEF WriterSends, TrySend
<1>6. CASE WriterDeclines
  BY <1>6, DeclineIsWhole DEF WriterDeclines, Decline
<1>7. CASE WriterReleases
  BY <1>7, SameIsWhole, EmptyIsWhole DEF WriterReleases
<1>8. QED
  BY <1>1, <1>2, <1>3, <1>4, <1>5, <1>6, <1>7 DEF WriterStep

LEMMA SaveIsWhole ==
  ASSUME SpillInv, Whole, NEW v \in Saves, Save(v)
  PROVE  Whole'
<1>1. CASE Materialise(v) \/ FinishSave(v)
  BY <1>1, SameIsWhole DEF Materialise, FinishSave
<1>2. CASE \E length \in Lengths : TakeLease(v, length)
  <2>1. b' = Release(b) /\ UNCHANGED <<clock, pushed>>
    BY <1>2 DEF TakeLease
  <2>2. b \in Buffer /\ b.leased \cap Shared \subseteq Nat
    BY NumbersOfWindow DEF Buffer
  <2>3. /\ b' \in Buffer
        /\ b'.sealed = b.sealed /\ b'.open = b.open /\ b'.ids = b.ids /\ b'.began = b.began
        /\ b'.ceilingGap = b.ceilingGap /\ b'.sourceGap = b.sourceGap /\ b'.holes = b.holes
        /\ b'.leased = b.leased \cap Shared /\ b'.spilling = b.spilling
        /\ b'.silence = b.silence
    <3>. DEFINE l == b.leased \cap Shared
    <3>1. b' = [b EXCEPT !.leased = l] /\ l \subseteq Nat
      BY <2>1, <2>2 DEF Release
    <3>. HIDE DEF l
    <3>2. /\ b' \in Buffer
          /\ b'.sealed = b.sealed /\ b'.open = b.open /\ b'.ids = b.ids /\ b'.began = b.began
          /\ b'.ceilingGap = b.ceilingGap /\ b'.sourceGap = b.sourceGap
          /\ b'.holes = b.holes /\ b'.leased = l /\ b'.spilling = b.spilling
          /\ b'.silence = b.silence
      BY <2>2, <3>1 DEF Buffer
    <3>3. QED
      BY <3>2 DEF l
  <2>4. QED
    BY <2>1, <2>3, GivenNumbers, AsideIsWhole
<1>3. QED
  BY <1>1, <1>2 DEF Save

LEMMA WholeStep == SpillInv /\ Whole /\ [Next]_vars => Whole'
<1>. SUFFICES ASSUME SpillInv, Whole, [Next]_vars PROVE Whole'
  OBVIOUS
<1>1. CASE Tick \/ PushAudio \/ NoteSourceSilence
  BY <1>1, TickIsWhole, PushAudioIsWhole, SilenceIsWhole
<1>2. CASE Spill \/ WriterStep
  BY <1>2, SpillIsWhole, WriterIsWhole
<1>3. CASE EndRecording \/ Joined
  BY <1>3, SameIsWhole, EmptyIsWhole DEF EndRecording, Joined
<1>4. CASE \E key \in BOOLEAN : PushVideo(key)
  BY <1>4, PushVideoIsWhole
<1>5. CASE \E v \in Saves : Save(v)
  BY <1>5, SaveIsWhole
<1>6. CASE UNCHANGED vars
  BY <1>6, SameIsWhole DEF vars
<1>7. QED
  BY <1>1, <1>2, <1>3, <1>4, <1>5, <1>6 DEF Next

LEMMA WholeInit == Init => Whole
<1>. SUFFICES ASSUME Init PROVE Whole
  OBVIOUS
<1>1. b = Empty /\ clock = 0 /\ pushed.video = 0 /\ pushed.audio = 0
  BY DEF Init
<1>2. QED
  BY <1>1, EmptyIsKept DEF Whole

-----------------------------------------------------------------------------
(* What is on its way to the disk, or pinned there, has a number that was  *)
(* given; and the recording is no longer than its bounds.                  *)

Given == Flight \cup PinnedFiles \subseteq 1 .. pushed.video

Within == /\ clock <= MaxTime[Spills] /\ pushed.video <= MaxPackets[Spills]
          /\ pushed.audio <= MaxAudio[Spills]

LEMMA StillGiven ==
  ASSUME SpillInv, Whole, Given, pushed.video <= pushed'.video, pushed'.video \in Nat,
         Flight' \subseteq Flight \cup (1 .. b.ids),
         PinnedFiles' \subseteq PinnedFiles \cup (1 .. b.ids)
  PROVE  Given'
<1>1. b.ids <= pushed.video /\ b.ids \in Nat /\ pushed.video \in Nat
  BY GivenNumbers, NumbersOfWindow DEF Buffer
<1>2. 1 .. b.ids \subseteq 1 .. pushed'.video
  BY <1>1
<1>3. 1 .. pushed.video \subseteq 1 .. pushed'.video
  BY <1>1
<1>4. QED
  BY <1>2, <1>3 DEF Given

LEMMA StillPinned ==
  ASSUME UNCHANGED leases
  PROVE  PinnedFiles' = PinnedFiles
BY DEF PinnedFiles

LEMMA SameFlight ==
  ASSUME UNCHANGED queue, capture'.segment = capture.segment,
         writer'.segment = writer.segment
  PROVE  Flight' = Flight
BY DEF Flight

(* Nothing the threads do puts into flight what was not given. *)
LEMMA CaptureFlies ==
  ASSUME SpillInv, Whole, Spill
  PROVE  Flight' \subseteq Flight \cup (1 .. b.ids)
<1>1. /\ capture \in Capture /\ queue \in Seq(Nat)
      /\ capture.pc = "send" => capture.segment \in Nat /\ capture.segment # None
  BY DEF SpillInv, Typed, InHand, Capture
<1>2. writer' = writer
  BY DEF Spill, CaptureOffers, CaptureSends, CaptureDeclines
<1>3. CASE CaptureOffers
  <2>1. CASE NothingToOffer(b)
    <3>1. capture'.segment = capture.segment /\ UNCHANGED queue
      BY <1>1, <1>3, <2>1 DEF CaptureOffers, Choose, Capture
    <3>2. QED
      BY <1>2, <3>1, SameFlight
  <2>2. CASE ~NothingToOffer(b)
    <3>1. capture'.segment = NextToSpill(b) /\ UNCHANGED queue
      BY <1>1, <1>3, <2>2 DEF CaptureOffers, Choose, Capture
    <3>2. NextToSpill(b) \in 1 .. b.ids
      BY <2>2, ChosenIsGiven
    <3>3. QED
      BY <1>2, <3>1, <3>2 DEF Flight
  <2>3. QED
    BY <2>1, <2>2
<1>4. CASE CaptureSends
  <2>1. CASE /\ queue' = Append(queue, capture.segment)
             /\ capture' = [capture EXCEPT !.pc = "offer", !.segment = None]
    <3>1. capture.segment \in Nat /\ capture.segment # None
      BY <1>1, <1>4 DEF CaptureSends
    <3>2. /\ ToSet(queue') = ToSet(queue) \cup {capture.segment}
          /\ capture'.segment = None
      BY <1>1, <2>1, <3>1, QueueAppend DEF Capture
    <3>3. QED
      BY <1>2, <3>1, <3>2 DEF Flight
  <2>2. CASE capture' = [capture EXCEPT !.pc = "declined"] /\ UNCHANGED queue
    <3>1. capture'.segment = capture.segment /\ UNCHANGED queue
      BY <1>1, <2>2 DEF Capture
    <3>2. QED
      BY <1>2, <3>1, SameFlight
  <2>3. QED
    BY <1>4, <2>1, <2>2 DEF CaptureSends, TrySend
<1>5. CASE CaptureDeclines
  <2>1. capture'.segment = None /\ UNCHANGED queue
    BY <1>1, <1>5 DEF CaptureDeclines, Decline, Capture
  <2>2. QED
    BY <1>2, <2>1 DEF Flight
<1>6. QED
  BY <1>3, <1>4, <1>5 DEF Spill

LEMMA WriterFlies ==
  ASSUME SpillInv, Whole, WriterStep
  PROVE  Flight' \subseteq Flight \cup (1 .. b.ids)
<1>1. /\ writer \in Writer /\ queue \in Seq(Nat)
      /\ writer.pc = "send" => writer.segment \in Nat /\ writer.segment # None
  BY DEF SpillInv, Typed, InHand, Writer
<1>2. capture' = capture
  BY DEF WriterStep, Receive, Write, Upgrade, MarkSpilled, GiveUpSpilling,
         WriterOffers, WriterSends, WriterDeclines, WriterReleases
<1>3. ASSUME WriterEnds PROVE Flight' \subseteq Flight
  <2>1. writer'.segment = None /\ ToSet(queue') = {}
    BY <1>1, <1>3, EmptyQueue DEF WriterEnds, Writer
  <2>2. QED
    BY <1>2, <2>1 DEF Flight
<1>4. ASSUME UNCHANGED queue, writer'.segment \in {writer.segment, None}
      PROVE  Flight' \subseteq Flight
  BY <1>2, <1>4 DEF Flight
<1>5. CASE Receive
  <2>1. CASE /\ queue # <<>> /\ queue' = Tail(queue)
             /\ writer' = [writer EXCEPT !.pc = "write", !.segment = Head(queue)]
    <3>1. ToSet(queue) = ToSet(queue') \cup {Head(queue)} /\ writer'.segment = Head(queue)
      BY <1>1, <2>1, QueueTail DEF Writer
    <3>2. QED
      BY <1>2, <3>1 DEF Flight
  <2>2. QED
    BY <1>3, <1>5, <2>1 DEF Receive
<1>6. CASE Write
  <2>1. UNCHANGED queue /\ writer'.segment = writer.segment
    BY <1>1, <1>6 DEF Write, Writer
  <2>2. QED
    BY <1>4, <2>1
<1>7. CASE Upgrade
  <2>1. CASE UNCHANGED queue /\ writer' = [writer EXCEPT !.pc = "report", !.strong = TRUE]
    <3>1. writer'.segment = writer.segment
      BY <1>1, <2>1 DEF Writer
    <3>2. QED
      BY <1>4, <2>1, <3>1
  <2>2. QED
    BY <1>3, <1>7, <2>1 DEF Upgrade
<1>8. CASE MarkSpilled
  <2>1. UNCHANGED queue /\ writer'.segment = None
    BY <1>1, <1>8 DEF MarkSpilled, Writer
  <2>2. QED
    BY <1>4, <2>1
<1>9. CASE GiveUpSpilling
  <2>1. UNCHANGED queue /\ writer'.segment = None
    BY <1>1, <1>9 DEF GiveUpSpilling, Writer
  <2>2. QED
    BY <1>4, <2>1
<1>10. CASE WriterOffers
  <2>1. CASE NothingToOffer(b)
    <3>1. UNCHANGED queue /\ writer'.segment = writer.segment
      BY <1>1, <1>10, <2>1 DEF WriterOffers, Choose, Writer
    <3>2. QED
      BY <1>4, <3>1
  <2>2. CASE ~NothingToOffer(b)
    <3>1. writer'.segment = NextToSpill(b) /\ UNCHANGED queue
      BY <1>1, <1>10, <2>2 DEF WriterOffers, Choose, Writer
    <3>2. NextToSpill(b) \in 1 .. b.ids
      BY <2>2, ChosenIsGiven
    <3>3. QED
      BY <1>2, <3>1, <3>2 DEF Flight
  <2>3. QED
    BY <2>1, <2>2
<1>11. CASE WriterSends
  <2>1. CASE /\ queue' = Append(queue, writer.segment)
             /\ writer' = [writer EXCEPT !.pc = "offer", !.segment = None]
    <3>1. writer.segment \in Nat /\ writer.segment # None
      BY <1>1, <1>11 DEF WriterSends
    <3>2. /\ ToSet(queue') = ToSet(queue) \cup {writer.segment}
          /\ writer'.segment = None
      BY <1>1, <2>1, <3>1, QueueAppend DEF Writer
    <3>3. QED
      BY <1>2, <3>1, <3>2 DEF Flight
  <2>2. CASE writer' = [writer EXCEPT !.pc = "declined"] /\ UNCHANGED queue
    <3>1. writer'.segment = writer.segment
      BY <1>1, <2>2 DEF Writer
    <3>2. QED
      BY <1>4, <2>2, <3>1
  <2>3. QED
    BY <1>11, <2>1, <2>2 DEF WriterSends, TrySend
<1>12. CASE WriterDeclines
  <2>1. writer'.segment = None /\ UNCHANGED queue
    BY <1>1, <1>12 DEF WriterDeclines, Decline, Writer
  <2>2. QED
    BY <1>4, <2>1
<1>13. CASE WriterReleases
  <2>1. CASE UNCHANGED queue /\ writer' = [writer EXCEPT !.pc = "recv", !.strong = FALSE]
    <3>1. writer'.segment = writer.segment
      BY <1>1, <2>1 DEF Writer
    <3>2. QED
      BY <1>4, <2>1, <3>1
  <2>2. CASE /\ UNCHANGED queue
             /\ writer' = [writer EXCEPT !.pc = "joins itself", !.strong = FALSE]
    <3>1. writer'.segment = writer.segment
      BY <1>1, <2>2 DEF Writer
    <3>2. QED
      BY <1>4, <2>2, <3>1
  <2>3. QED
    BY <1>3, <1>13, <2>1, <2>2 DEF WriterReleases
<1>14. QED
  BY <1>5, <1>6, <1>7, <1>8, <1>9, <1>10, <1>11, <1>12, <1>13 DEF WriterStep

(* Nor does a save pin what was not. *)
LEMMA SavePins ==
  ASSUME SpillInv, Whole, NEW v \in Saves, Save(v)
  PROVE  PinnedFiles' \subseteq PinnedFiles \cup (1 .. b.ids)
<1>1. leases \in [Saves -> Lease] /\ b \in Buffer
  BY NumbersOfWindow DEF SpillInv, Typed
<1>2. ASSUME NEW l, leases' = [leases EXCEPT ![v] = l], NEW D, l.onDisk \subseteq D
      PROVE  PinnedFiles' \subseteq PinnedFiles \cup D
  <2>1. /\ leases'[v] = l /\ \A w \in Saves : w # v => leases'[w] = leases[w]
    BY <1>1, <1>2
  <2>2. QED
    BY <1>2, <2>1 DEF PinnedFiles
<1>3. CASE Materialise(v)
  <2>1. leases[v] \in Lease
    BY <1>1
  <2>2. leases' = [leases EXCEPT ![v] = [leases[v] EXCEPT !.onDisk = {}]]
    BY <1>1, <1>3 DEF Materialise
  <2>3. [leases[v] EXCEPT !.onDisk = {}].onDisk \subseteq {}
    BY <2>1 DEF Lease
  <2>4. PinnedFiles' \subseteq PinnedFiles \cup {}
    BY <1>2, <2>2, <2>3
  <2>5. QED
    BY <2>4
<1>4. CASE FinishSave(v)
  <2>1. leases' = [leases EXCEPT ![v] = NoLease] /\ NoLease.onDisk \subseteq {}
    BY <1>4 DEF FinishSave, NoLease
  <2>2. PinnedFiles' \subseteq PinnedFiles \cup {}
    BY <1>2, <2>1
  <2>3. QED
    BY <2>2
<1>5. ASSUME NEW length \in Lengths, TakeLease(v, length)
      PROVE  PinnedFiles' \subseteq PinnedFiles \cup (1 .. b.ids)
  <2>. DEFINE plan == ToSet(Planned(b, length)) \ {b.open}
              memory == {s.id : s \in {t \in plan : ~t.spilled}}
              disk == {s.id : s \in {t \in plan : t.spilled}}
              l == [resident |-> memory, onDisk |-> disk]
  <2>1. /\ Segments(b) # <<>>
        /\ leases' = [leases EXCEPT ![v] = l]
    BY <1>5 DEF TakeLease, Refused
  <2>2. plan \subseteq Holds(b)
    BY <1>1, <2>1, PlannedAreHeld
  <2>. HIDE DEF plan
  <2>3. disk \subseteq 1 .. b.ids
    BY <2>2, GivenNumbers
  <2>. HIDE DEF memory, disk
  <2>4. l.onDisk = disk
    OBVIOUS
  <2>. HIDE DEF l
  <2>5. QED
    BY <1>2, <2>1, <2>3, <2>4
<1>6. QED
  BY <1>3, <1>4, <1>5 DEF Save

LEMMA GivenStep == SpillInv /\ Whole /\ Given /\ [Next]_vars => Given'
<1>. SUFFICES ASSUME SpillInv, Whole, Given, [Next]_vars PROVE Given'
  OBVIOUS
<1>1. pushed \in Pushed /\ pushed.video \in Nat /\ pushed.video <= pushed.video
  BY DEF SpillInv, Typed, Pushed
<1>2. CASE \/ Tick \/ PushAudio \/ NoteSourceSilence \/ EndRecording \/ Joined
           \/ (\E key \in BOOLEAN : PushVideo(key)) \/ UNCHANGED vars
  <2>1. UNCHANGED <<leases, writer, queue>>
    BY <1>2 DEF Tick, PushAudio, NoteSourceSilence, EndRecording, Joined, PushVideo, vars
  <2>2. capture'.segment = capture.segment
    <3>1. capture \in Capture
      BY DEF SpillInv, Typed
    <3>2. ASSUME NEW key \in BOOLEAN, PushVideo(key)
          PROVE  capture'.segment = capture.segment
      <4>1. capture.segment = None
        BY <3>2 DEF PushVideo, SpillInv, InHand
      <4>2. QED
        BY <3>2, <4>1 DEF PushVideo, Idle
    <3>3. QED
      BY <1>2, <3>2 DEF Tick, PushAudio, NoteSourceSilence, EndRecording, Joined, vars
  <2>3. Flight' = Flight /\ PinnedFiles' = PinnedFiles
    BY <2>1, <2>2, SameFlight, StillPinned
  <2>4. pushed.video <= pushed'.video /\ pushed'.video \in Nat
    <3>1. CASE UNCHANGED pushed
      BY <1>1, <3>1
    <3>2. CASE PushAudio
      <4>1. pushed'.video = pushed.video
        BY <1>1, <3>2 DEF PushAudio, Pushed
      <4>2. QED
        BY <1>1, <4>1
    <3>3. ASSUME NEW key \in BOOLEAN, PushVideo(key)
          PROVE  pushed.video <= pushed'.video /\ pushed'.video \in Nat
      <4>1. pushed'.video = pushed.video + 1
        BY <1>1, <3>3 DEF PushVideo, Pushed
      <4>2. QED
        BY <1>1, <4>1
    <3>4. QED
      BY <1>2, <3>1, <3>2, <3>3
         DEF Tick, NoteSourceSilence, EndRecording, Joined, vars
  <2>5. QED
    BY <2>3, <2>4, StillGiven
<1>3. CASE Spill
  <2>1. UNCHANGED <<leases, pushed>>
    BY <1>3 DEF Spill, CaptureOffers, CaptureSends, CaptureDeclines
  <2>2. QED
    BY <1>1, <1>3, <2>1, StillPinned, CaptureFlies, StillGiven
<1>4. CASE WriterStep
  <2>1. UNCHANGED <<leases, pushed>>
    BY <1>4 DEF WriterStep, Receive, Write, Upgrade, MarkSpilled, GiveUpSpilling,
                WriterOffers, WriterSends, WriterDeclines, WriterReleases
  <2>2. QED
    BY <1>1, <1>4, <2>1, StillPinned, WriterFlies, StillGiven
<1>5. ASSUME NEW v \in Saves, Save(v) PROVE Given'
  <2>1. UNCHANGED <<pushed, queue, capture, writer>>
    BY <1>5 DEF Save, TakeLease, Materialise, FinishSave
  <2>2. Flight' = Flight
    BY <2>1, SameFlight
  <2>3. QED
    BY <1>1, <1>5, <2>1, <2>2, SavePins, StillGiven
<1>6. QED
  BY <1>2, <1>3, <1>4, <1>5 DEF Next

(* A buffer never gains a writer, nor loses the one it had. *)
LEMMA SpillsSame == SpillInv /\ [Next]_vars => Spills' = Spills
<1>. SUFFICES ASSUME SpillInv, [Next]_vars PROVE Spills' = Spills
  OBVIOUS
<1>1. writer \in Writer
  BY DEF SpillInv, Typed
<1>2. CASE UNCHANGED writer
  BY <1>2 DEF Spills
<1>3. CASE WriterStep
  <2>1. writer.pc # "none"
    BY <1>3 DEF WriterStep, Receive, Write, Upgrade, MarkSpilled, GiveUpSpilling,
                WriterOffers, WriterSends, WriterDeclines, WriterReleases
  <2>2. writer'.pc # "none"
    <3>1. CASE Receive \/ Write \/ Upgrade
      BY <1>1, <3>1 DEF Receive, Write, Upgrade, WriterEnds, Writer
    <3>2. CASE MarkSpilled \/ GiveUpSpilling
      BY <1>1, <3>2 DEF MarkSpilled, GiveUpSpilling, Writer
    <3>3. CASE WriterOffers
      BY <1>1, <3>3 DEF WriterOffers, Choose, Writer
    <3>4. CASE WriterSends \/ WriterDeclines
      BY <1>1, <3>4 DEF WriterSends, TrySend, WriterDeclines, Decline, Writer
    <3>5. CASE WriterReleases
      BY <1>1, <3>5 DEF WriterReleases, WriterEnds, Writer
    <3>6. QED
      BY <1>3, <3>1, <3>2, <3>3, <3>4, <3>5 DEF WriterStep
  <2>3. QED
    BY <2>1, <2>2 DEF Spills
<1>4. QED
  BY <1>2, <1>3 DEF Next, vars, Tick, PushAudio, NoteSourceSilence, Spill,
     CaptureOffers, CaptureSends, CaptureDeclines, EndRecording, Joined, PushVideo,
     Save, TakeLease, Materialise, FinishSave

LEMMA BoundsAreNumbers ==
  MaxTime[Spills] \in Nat /\ MaxPackets[Spills] \in Nat /\ MaxAudio[Spills] \in Nat
<1>1. Spills \in BOOLEAN
  BY DEF Spills
<1>2. MaxTime \in [BOOLEAN -> Nat] /\ MaxPackets \in [BOOLEAN -> Nat]
         /\ MaxAudio \in [BOOLEAN -> Nat]
  BY ReplayConfigOK
<1>3. QED
  BY <1>1, <1>2

LEMMA WithinStep == SpillInv /\ Within /\ [Next]_vars => Within'
<1>. SUFFICES ASSUME SpillInv, Within, [Next]_vars PROVE Within'
  OBVIOUS
<1>. DEFINE time == MaxTime[Spills]
            packets == MaxPackets[Spills]
            audio == MaxAudio[Spills]
<1>1. /\ time' = time /\ packets' = packets /\ audio' = audio
      /\ time \in Nat /\ packets \in Nat /\ audio \in Nat
  BY SpillsSame, BoundsAreNumbers
<1>2. /\ clock <= time /\ pushed.video <= packets /\ pushed.audio <= audio
      /\ clock \in Nat /\ pushed \in Pushed /\ pushed.video \in Nat /\ pushed.audio \in Nat
  BY DEF Within, SpillInv, Typed, Pushed
<1>3. Within' <=> clock' <= time' /\ pushed'.video <= packets' /\ pushed'.audio <= audio'
  BY DEF Within
<1>4. CASE UNCHANGED <<clock, pushed>>
  BY <1>1, <1>2, <1>3, <1>4
<1>5. CASE Tick
  <2>1. clock < time /\ clock' = clock + 1 /\ pushed' = pushed
    BY <1>5 DEF Tick
  <2>. HIDE DEF time, packets, audio
  <2>2. QED
    BY <1>1, <1>2, <1>3, <2>1
<1>6. CASE PushAudio
  <2>1. /\ pushed.audio < audio /\ clock' = clock
        /\ pushed'.audio = pushed.audio + 1 /\ pushed'.video = pushed.video
    BY <1>2, <1>6 DEF PushAudio, Pushed
  <2>. HIDE DEF time, packets, audio
  <2>2. QED
    BY <1>1, <1>2, <1>3, <2>1
<1>7. ASSUME NEW key \in BOOLEAN, PushVideo(key) PROVE Within'
  <2>1. /\ pushed.video < packets /\ clock' = clock
        /\ pushed'.audio = pushed.audio /\ pushed'.video = pushed.video + 1
    BY <1>2, <1>7 DEF PushVideo, Pushed
  <2>. HIDE DEF time, packets, audio
  <2>2. QED
    BY <1>1, <1>2, <1>3, <2>1
<1>8. CASE Spill \/ WriterStep \/ (\E v \in Saves : Save(v))
  BY <1>4, <1>8 DEF Spill, CaptureOffers, CaptureSends, CaptureDeclines, WriterStep,
     Receive, Write, Upgrade, MarkSpilled, GiveUpSpilling, WriterOffers, WriterSends,
     WriterDeclines, WriterReleases, Save, TakeLease, Materialise, FinishSave
<1>9. CASE NoteSourceSilence \/ EndRecording \/ Joined \/ UNCHANGED vars
  BY <1>4, <1>9 DEF NoteSourceSilence, EndRecording, Joined, vars
<1>10. QED
  BY <1>5, <1>6, <1>7, <1>8, <1>9 DEF Next

WindowInv == SpillInv /\ Whole /\ Given /\ Within

LEMMA WindowInit == Init => WindowInv
<1>. SUFFICES ASSUME Init PROVE WindowInv
  OBVIOUS
<1>1. SpillInv /\ Whole
  BY SpillInit, WholeInit
<1>2. Given
  <2>1. capture.segment = None /\ writer.segment = None /\ ToSet(queue) = {}
    BY EmptyQueue DEF Init, Idle
  <2>2. PinnedFiles = {}
    BY DEF Init, NoLease, PinnedFiles
  <2>3. QED
    BY <2>1, <2>2 DEF Given, Flight
<1>3. Within
  <2>1. clock = 0 /\ pushed.video = 0 /\ pushed.audio = 0
    BY DEF Init
  <2>2. QED
    BY <2>1, BoundsAreNumbers DEF Within
<1>4. QED
  BY <1>1, <1>2, <1>3 DEF WindowInv

LEMMA WindowAlways == Spec => []WindowInv
<1>1. WindowInv /\ [Next]_vars => WindowInv'
  BY SpillStep, WholeStep, GivenStep, WithinStep DEF WindowInv
<1>2. QED
  BY <1>1, WindowInit, PTL DEF Spec

-----------------------------------------------------------------------------
(* And what a save finds there.                                            *)

LEMMA TypesOfWindow == WindowInv => BufferTypeOK
<1>. SUFFICES ASSUME WindowInv PROVE BufferTypeOK
  OBVIOUS
<1>. DEFINE all == Segments(b)
            time == MaxTime[Spills]
            packets == MaxPackets[Spills]
            audio == MaxAudio[Spills]
<1>1. /\ SpillInv /\ Whole /\ Given /\ b \in Buffer
      /\ Fine(b, clock) /\ Sized(b, clock, pushed.video, pushed.audio)
  BY DEF WindowInv, SpillInv, Fine, Whole, Kept, Good
<1>2. /\ time \in Nat /\ packets \in Nat /\ audio \in Nat
      /\ clock <= time /\ pushed.video <= packets /\ pushed.audio <= audio
  BY BoundsAreNumbers DEF WindowInv, Within
<1>3. /\ clock \in Nat /\ pushed.video \in Nat /\ pushed.audio \in Nat
      /\ b.ids \in Nat /\ b.ids <= pushed.video
  BY <1>1, NumbersOfWindow, GivenNumbers DEF Buffer
<1>4. Times = 0 .. time /\ IdRange = 1 .. packets
      /\ SegType = [id : 1 .. packets, start : 0 .. time, last : 0 .. time,
                    video : {0} \cup (1 .. packets), audio : 0 .. audio, spilled : BOOLEAN]
  BY DEF Times, IdRange, SegType
<1>. HIDE DEF time, packets, audio
<1>5. ASSUME NEW i \in DOMAIN all PROVE all[i] \in SegType /\ all[i].video > 0
  <2>1. all \in Seq(Segment)
    BY <1>1, SegmentsAre
  <2>2. all[i] \in Segment
    BY <2>1
  <2>3. all[i] \in Holds(b)
    BY <1>1, HeldIsListed
  <2>4. all[i].id \in 1 .. packets
    <3>1. all[i].id \in 1 .. b.ids
      BY <1>1, <2>3, GivenNumbers
    <3>. HIDE DEF all
    <3>2. QED
      BY <1>2, <1>3, <3>1
  <2>5. all[i].last <= clock
    BY <1>1, <2>3, HoldsAll DEF Fine, InOrder
  <2>6. /\ all[i].start <= all[i].last /\ all[i].video \in 1 .. pushed.video
        /\ all[i].audio <= pushed.audio
    BY <1>1 DEF Sized
  <2>. HIDE DEF all
  <2>7. /\ all[i].start \in 0 .. time /\ all[i].last \in 0 .. time
        /\ all[i].video \in 1 .. packets /\ all[i].audio \in 0 .. audio
    <3>1. all[i].start \in Nat /\ all[i].last \in Nat /\ all[i].audio \in Nat
      BY <2>2 DEF Segment
    <3>2. QED
      BY <1>2, <1>3, <2>5, <2>6, <3>1
  <2>8. all[i] \in SegType
    BY <1>4, <2>2, <2>4, <2>7 DEF Segment
  <2>9. QED
    BY <2>7, <2>8
<1>6. \A s \in ToSet(all) : s \in SegType /\ s.video > 0
  BY <1>5 DEF ToSet
<1>7. \A i \in DOMAIN all : i > 1 => /\ all[i - 1].id < all[i].id
                                     /\ all[i - 1].last <= all[i].start
  <2>1. SUFFICES ASSUME NEW i \in DOMAIN all, i > 1 PROVE all[i - 1].id < all[i].id
    BY <1>1 DEF Sized
  <2>2. b.sealed \in Seq(Segment)
    BY <1>1 DEF Buffer
  <2>3. CASE b.open = NoSegment
    <3>1. all = b.sealed
      BY <2>3 DEF Segments
    <3>2. i - 1 \in DOMAIN b.sealed /\ i \in DOMAIN b.sealed /\ i - 1 < i
      BY <2>1, <2>2, <3>1
    <3>3. QED
      BY <1>1, <3>1, <3>2 DEF Fine, InOrder
  <2>4. CASE b.open # NoSegment
    <3>1. all = Append(b.sealed, b.open)
      BY <2>4 DEF Segments
    <3>2. /\ i - 1 \in DOMAIN b.sealed /\ all[i - 1] = b.sealed[i - 1] /\ i - 1 < i
          /\ \/ all[i] = b.open
             \/ i \in DOMAIN b.sealed /\ all[i] = b.sealed[i]
      BY <2>1, <2>2, <2>4, <3>1
    <3>3. QED
      BY <1>1, <2>4, <3>2 DEF Fine, InOrder
  <2>5. QED
    BY <2>3, <2>4
<1>8. b.silence \in Times /\ b.ceilingGap \in {None, 0, 1}
  <2>1. b.silence \in 0 .. clock
    BY <1>1, GivenNumbers
  <2>2. QED
    BY <1>1, <1>2, <1>3, <1>4, <2>1 DEF Buffer
<1>9. b.sourceGap \in {None} \cup (Times \ {0})
  <2>1. b.sourceGap # None => b.sourceGap \in Nat \ {0} /\ b.sourceGap <= clock
    BY <1>1 DEF Sized, Buffer
  <2>2. QED
    BY <1>2, <1>3, <1>4, <2>1
<1>10. 1 .. b.ids \subseteq IdRange /\ 1 .. pushed.video \subseteq IdRange
  BY <1>2, <1>3, <1>4
<1>11. b.leased \subseteq IdRange /\ b.spilling \subseteq IdRange
  BY <1>1, <1>10, GivenNumbers
<1>12. files \subseteq IdRange
  <2>1. files \subseteq SpilledIn(b) \cup PinnedFiles \cup {writer.segment}
    BY <1>1 DEF SpillInv, FilesAreKept, NoFileLeaks
  <2>2. None \notin files
    BY <1>1, WriterHas
  <2>3. SpilledIn(b) \subseteq 1 .. b.ids
    <3>1. ASSUME NEW id \in SpilledIn(b) PROVE id \in 1 .. b.ids
      <4>1. PICK i \in DOMAIN b.sealed : b.sealed[i].id = id
        BY SpilledAre
      <4>2. b.sealed[i] \in Holds(b)
        BY HoldsAll
      <4>3. QED
        BY <1>1, <4>1, <4>2, GivenNumbers
    <3>2. QED
      BY <3>1
  <2>4. QED
    BY <1>1, <1>10, <2>1, <2>2, <2>3 DEF Given, Flight
<1>. HIDE DEF all
<1>13. QED
  BY <1>6, <1>7, <1>8, <1>9, <1>11, <1>12 DEF BufferTypeOK, all

LEMMA ReachOfWindow == WindowInv => WindowIsKept
<1>. SUFFICES ASSUME WindowInv, Segments(b) # <<>>
              PROVE  Held(b).start <= Max({b.began, Held(b).end - Window})
  BY DEF WindowIsKept
<1>1. b \in Buffer /\ Reaches(b)
  BY DEF WindowInv, SpillInv, Fine, Whole, Kept, Good
<1>2. b.began \in Int /\ Window \in Int
  BY <1>1, ReplayConfigOK DEF Reaches, Buffer
<1>3. Held(b).start = Segments(b)[1].start /\ Held(b).end = LatestPresentation(b)
  BY DEF Held
<1>4. Held(b).start \in Int /\ LatestPresentation(b) \in Int
  <2>1. Segments(b) \in Seq(Segment)
    BY <1>1, SegmentsAre
  <2>2. /\ Len(Segments(b)) \in DOMAIN Segments(b)
        /\ Last(Segments(b)) = Segments(b)[Len(Segments(b))]
    BY <2>1 DEF Last
  <2>3. Last(Segments(b)) \in Segment
    BY <2>1, <2>2
  <2>4. QED
    BY <1>1, <2>3, HeldStart DEF LatestPresentation, Segment
<1>5. \/ Held(b).start <= b.began
      \/ Held(b).start + Window <= LatestPresentation(b)
  BY <1>1, <1>3 DEF Reaches
<1>. DEFINE back == LatestPresentation(b) - Window
<1>6. back \in Int /\ (Held(b).start <= b.began \/ Held(b).start <= back)
  BY <1>2, <1>4, <1>5
<1>. HIDE DEF back
<1>7. Max({b.began, back}) = IF b.began >= back THEN b.began ELSE back
  BY <1>2, <1>6, MaxOfTwo
<1>8. Held(b).start <= Max({b.began, back})
  BY <1>2, <1>4, <1>6, <1>7
<1>9. QED
  BY <1>3, <1>8 DEF back

(* Whatever the order of pictures, keyframes, blocks of audio, silences,   *)
(* spills and saves, the window a save asks for is there: back to where    *)
(* the buffer began again or a whole window, its segments in order and     *)
(* with pictures in every one; and of a recording without audio, with no   *)
(* picture thrown away between two of them, no silence longer than a       *)
(* segment, and no more memory than the ceiling and the one picture a      *)
(* segment begins with (buffer.rs's push, push_audio, make_room, evict,    *)
(* seal_at_source_gap and resume_after_any_gap).                           *)
THEOREM WindowIsHeld == Spec => []WindowIsWhole
<1>1. WindowInv => NoGapInTheWindow /\ OwnedIsBounded
  BY DEF WindowInv, Whole, Kept, Unbroken, Tight, Light, NoGapInTheWindow, OwnedIsBounded
<1>2. WindowInv => WindowIsWhole
  BY <1>1, TypesOfWindow, ReachOfWindow DEF WindowIsWhole
<1>3. QED
  BY <1>2, WindowAlways, PTL
=============================================================================
