---------------------- MODULE BackgroundWorker_proofs -----------------------
(* The background worker's invariants, for any paths and any capacity, and *)
(* that it is the bounded queue it promises to be.                         *)
EXTENDS BackgroundWorker, FiniteSetTheorems, TLAPS

LEMMA ToSetIsRange ==
    ASSUME NEW s PROVE ToSet(s) = {s[i] : i \in DOMAIN s}
  BY DEF ToSet

(* The inductive invariant: the four that are checked hold one another up. *)
IInv == WorkerTypeOK /\ WorkedOnOnce /\ WorkingOnIsHonest /\ StoppedIsEmpty

LEMMA QueueFacts ==
    ASSUME WorkerTypeOK
    PROVE  /\ Len(queue) \in Nat /\ DOMAIN queue = 1 .. Len(queue)
           /\ \A i \in 1 .. Len(queue) : queue[i] \in Recordings
  BY DEF WorkerTypeOK

(* Making place keeps a subset of what waited, in its order.               *)
LEMMA PlaceIsMade ==
    ASSUME WorkerTypeOK, WorkedOnOnce
    PROVE  /\ MakePlace \in Seq(Recordings) /\ Len(MakePlace) < Capacity
           /\ \A i \in DOMAIN MakePlace :
                 MakePlace[i] # workingOn /\ MakePlace[i] \in ToSet(queue)
           /\ \A i, k \in DOMAIN MakePlace : MakePlace[i] = MakePlace[k] => i = k
  <1>. USE QueueFacts, ToSetIsRange, WorkerAssumption
  <1>1. CASE Len(queue) >= Capacity
    <2>1. queue # <<>> /\ MakePlace = Tail(queue)
      BY <1>1 DEF MakePlace, WorkerTypeOK
    <2>2. /\ Tail(queue) \in Seq(Recordings) /\ Len(Tail(queue)) = Len(queue) - 1
          /\ \A i \in 1 .. Len(queue) - 1 : Tail(queue)[i] = queue[i + 1]
      BY <2>1 DEF WorkerTypeOK
    <2>3. DOMAIN Tail(queue) = 1 .. Len(queue) - 1
      BY <2>2
    <2>4. \A i \in DOMAIN Tail(queue) : i + 1 \in DOMAIN queue
      BY <2>3
    <2>5. \A i, k \in DOMAIN Tail(queue) : Tail(queue)[i] = Tail(queue)[k] => i = k
      <3>1. SUFFICES ASSUME NEW i \in DOMAIN Tail(queue), NEW k \in DOMAIN Tail(queue),
                            Tail(queue)[i] = Tail(queue)[k]
                     PROVE  i = k
        OBVIOUS
      <3>2. queue[i + 1] = queue[k + 1]
        BY <3>1, <2>2, <2>3
      <3>3. i + 1 = k + 1
        BY <3>2, <2>4 DEF WorkedOnOnce
      <3>. QED BY <3>3, <2>3
    <2>. QED BY <2>1, <2>2, <2>3, <2>4, <2>5 DEF WorkedOnOnce, WorkerTypeOK
  <1>2. CASE ~(Len(queue) >= Capacity)
    <2>1. MakePlace = queue /\ Len(queue) < Capacity
      BY <1>2 DEF MakePlace
    <2>. QED BY <2>1 DEF WorkedOnOnce, WorkerTypeOK
  <1>. QED BY <1>1, <1>2

(* A wake moves the thread between a wait and what it waits for.           *)
LEMMA NotifiedFacts ==
    ASSUME WorkerTypeOK
    PROVE  /\ Notified \in Waiting \cup AtWork \cup {"ended"}
           /\ Notified \in Waiting <=> thread \in Waiting
           /\ Notified \in AtWork <=> thread \in AtWork
           /\ Notified = "ended" <=> thread = "ended"
  BY DEF WorkerTypeOK, Notified, Waiting, AtWork

LEMMA InitInv == Init => IInv
  <1>. SUFFICES ASSUME Init PROVE IInv
    OBVIOUS
  <1>1. queue = <<>> /\ queue \in Seq(Recordings) /\ Len(queue) = 0
    BY DEF Init
  <1>2. DOMAIN queue = {}
    BY <1>1
  <1>3. WorkedOnOnce
    BY <1>2 DEF WorkedOnOnce
  <1>4. Len(queue) <= Capacity
    BY <1>1, WorkerAssumption
  <1>5. suspended \in BOOLEAN /\ stopping \in BOOLEAN /\ ~stopping
    BY DEF Init
  <1>. QED BY <1>1, <1>3, <1>4, <1>5
       DEF Init, IInv, WorkerTypeOK, WorkingOnIsHonest, StoppedIsEmpty,
           Waiting, AtWork

(* A request: at most once, behind what is kept, unless the worker stops.  *)
LEMMA RequestInv ==
    ASSUME IInv, NEW recording \in Recordings, Request(recording) PROVE IInv'
  <1>. USE DEF IInv
  <1>1. /\ UNCHANGED <<workingOn, suspended, stopping, owner>> /\ thread' = Notified
        /\ Notified \in Waiting \cup AtWork \cup {"ended"}
        /\ Notified \in Waiting <=> thread \in Waiting
        /\ Notified \in AtWork <=> thread \in AtWork
        /\ Notified = "ended" <=> thread = "ended"
    BY NotifiedFacts DEF Request
  <1>2. CASE stopping \/ IsWaiting(recording)
    <2>1. queue' = queue
      BY <1>2 DEF Request
    <2>. QED BY <1>1, <2>1 DEF WorkerTypeOK, WorkedOnOnce, WorkingOnIsHonest,
                               StoppedIsEmpty
  <1>3. CASE ~stopping /\ ~IsWaiting(recording)
    <2>. DEFINE kept == MakePlace
    <2>1. queue' = Append(kept, recording)
      BY <1>3 DEF Request
    <2>2. /\ kept \in Seq(Recordings) /\ Len(kept) < Capacity
          /\ \A i \in DOMAIN kept : kept[i] # workingOn /\ kept[i] # recording
          /\ \A i, k \in DOMAIN kept : kept[i] = kept[k] => i = k
      BY PlaceIsMade, <1>3 DEF IsWaiting
    <2>3. recording # workingOn
      BY <1>3 DEF IsWaiting
    <2>. HIDE DEF kept
    <2>4. /\ queue' \in Seq(Recordings) /\ Len(queue') = Len(kept) + 1
          /\ DOMAIN queue' = 1 .. Len(kept) + 1 /\ DOMAIN kept = 1 .. Len(kept)
          /\ Len(kept) \in Nat
          /\ \A i \in 1 .. Len(kept) : queue'[i] = kept[i]
          /\ queue'[Len(kept) + 1] = recording
      BY <2>1, <2>2
    <2>5. Len(queue') <= Capacity
      BY <2>2, <2>4, WorkerAssumption
    <2>6. \A i, k \in DOMAIN queue' : queue'[i] = queue'[k] => i = k
      <3>1. \A i \in DOMAIN queue' : i \in 1 .. Len(kept) \/ i = Len(kept) + 1
        BY <2>4
      <3>. QED BY <3>1, <2>2, <2>4
    <2>7. \A i \in DOMAIN queue' : queue'[i] # workingOn
      BY <2>2, <2>3, <2>4
    <2>. QED BY <1>1, <1>3, <2>4, <2>5, <2>6, <2>7
             DEF WorkerTypeOK, WorkedOnOnce, WorkingOnIsHonest, StoppedIsEmpty
  <1>. QED BY <1>2, <1>3

(* Taking the oldest: it is nowhere else in the queue.                     *)
LEMMA TakeNextInv == ASSUME IInv, TakeNext PROVE IInv'
  <1>. USE DEF IInv
  <1>. UNCHANGED <<suspended, stopping, owner>> /\ thread = "next"
    BY DEF TakeNext
  <1>1. CASE stopping /\ thread' = "ended" /\ UNCHANGED <<queue, workingOn>>
    BY <1>1 DEF WorkerTypeOK, WorkedOnOnce, WorkingOnIsHonest, StoppedIsEmpty,
                Waiting, AtWork
  <1>2. CASE /\ ~stopping /\ ~suspended /\ queue # <<>>
             /\ queue' = Tail(queue) /\ workingOn' = Head(queue)
             /\ thread' = "process"
    <2>1. /\ queue \in Seq(Recordings) /\ Len(queue) \in Nat \ {0}
          /\ DOMAIN queue = 1 .. Len(queue)
      BY <1>2 DEF WorkerTypeOK
    <2>2. /\ queue' \in Seq(Recordings) /\ Len(queue') = Len(queue) - 1
          /\ DOMAIN queue' = 1 .. Len(queue) - 1
          /\ \A i \in 1 .. Len(queue) - 1 : queue'[i] = queue[i + 1]
          /\ workingOn' = queue[1] /\ queue[1] \in Recordings
      BY <1>2, <2>1
    <2>3. \A i, k \in DOMAIN queue' : queue'[i] = queue'[k] => i = k
      <3>1. SUFFICES ASSUME NEW i \in DOMAIN queue', NEW k \in DOMAIN queue',
                            queue'[i] = queue'[k]
                     PROVE  i = k
        OBVIOUS
      <3>2. i + 1 \in DOMAIN queue /\ k + 1 \in DOMAIN queue
                /\ queue[i + 1] = queue[k + 1]
        BY <3>1, <2>1, <2>2
      <3>3. i + 1 = k + 1
        BY <3>2 DEF WorkedOnOnce
      <3>. QED BY <3>3, <2>2
    <2>4. \A i \in DOMAIN queue' : queue'[i] # workingOn'
      <3>1. \A i \in DOMAIN queue' : /\ i + 1 \in DOMAIN queue /\ i + 1 # 1
                                     /\ 1 \in DOMAIN queue
        BY <2>1, <2>2
      <3>. QED BY <3>1, <2>2 DEF WorkedOnOnce
    <2>5. workingOn' # None
      BY <2>2, WorkerAssumption
    <2>6. Len(queue') <= Capacity
      BY <2>1, <2>2, WorkerAssumption DEF WorkerTypeOK
    <2>. QED BY <1>2, <2>2, <2>3, <2>4, <2>5, <2>6
             DEF WorkerTypeOK, WorkedOnOnce, WorkingOnIsHonest, StoppedIsEmpty,
                 Waiting, AtWork
  <1>3. CASE /\ ~stopping /\ (suspended \/ queue = <<>>)
             /\ thread' = "parked" /\ UNCHANGED <<queue, workingOn>>
    BY <1>3 DEF WorkerTypeOK, WorkedOnOnce, WorkingOnIsHonest, StoppedIsEmpty,
                Waiting, AtWork
  <1>. QED BY <1>1, <1>2, <1>3 DEF TakeNext

LEMMA StopInv == ASSUME IInv, Stop PROVE IInv'
  <1>1. queue' = <<>> /\ queue' \in Seq(Recordings) /\ Len(queue') = 0
    BY DEF Stop
  <1>. QED BY <1>1, NotifiedFacts, WorkerAssumption
       DEF IInv, Stop, WorkerTypeOK, WorkedOnOnce, WorkingOnIsHonest,
           StoppedIsEmpty

LEMMA NextInv == ASSUME IInv, [Next]_vars PROVE IInv'
  <1>. USE DEF IInv
  <1>1. ASSUME UNCHANGED vars PROVE IInv'
    BY <1>1 DEF vars, WorkerTypeOK, WorkedOnOnce, WorkingOnIsHonest, StoppedIsEmpty
  <1>2. ASSUME SuspendForRecording \/ Resume PROVE IInv'
    <2>1. /\ UNCHANGED <<queue, workingOn, stopping, owner>> /\ thread' = Notified
          /\ suspended' \in BOOLEAN
      BY <1>2 DEF SuspendForRecording, Resume
    <2>. QED BY <2>1, NotifiedFacts
             DEF WorkerTypeOK, WorkedOnOnce, WorkingOnIsHonest, StoppedIsEmpty
  <1>3. ASSUME ReachCheckpoint \/ Checkpoint PROVE IInv'
    BY <1>3 DEF ReachCheckpoint, Checkpoint, WorkerTypeOK, WorkedOnOnce,
                WorkingOnIsHonest, StoppedIsEmpty, Waiting, AtWork
  <1>4. ASSUME Finish PROVE IInv'
    <2>1. \A i \in DOMAIN queue : queue[i] # None
      BY QueueFacts, WorkerAssumption
    <2>. QED BY <1>4, <2>1 DEF Finish, WorkerTypeOK, WorkedOnOnce,
                               WorkingOnIsHonest, StoppedIsEmpty, Waiting, AtWork
  <1>5. ASSUME Wake PROVE IInv'
    BY <1>5, NotifiedFacts DEF Wake, WorkerTypeOK, WorkedOnOnce,
                               WorkingOnIsHonest, StoppedIsEmpty
  <1>6. ASSUME Join PROVE IInv'
    BY <1>6 DEF Join, WorkerTypeOK, WorkedOnOnce, WorkingOnIsHonest, StoppedIsEmpty
  <1>. QED BY <1>1, <1>2, <1>3, <1>4, <1>5, <1>6, RequestInv, TakeNextInv, StopInv
           DEF Next, Caller, Thread, Gone

(* The worker works on a path once, says truly what it works on, holds no  *)
(* more than its capacity, and takes nothing once it is stopped.           *)
THEOREM WorkerSafe == Spec => []QueueIsSound
  <1>1. IInv /\ [Next]_vars => IInv'
    BY NextInv
  <1>2. IInv => QueueIsSound
    BY DEF IInv, QueueIsSound
  <1>. QED BY InitInv, <1>1, <1>2, PTL DEF Spec

(* No path from a wait back to the work but the recording's end.           *)
THEOREM PausedStaysPaused == Spec => PausedWhileRecording
  <1>1. ASSUME [Next]_vars
        PROVE  [(thread \in {"paused", "checkpoint"} /\ thread' = "process")
                    => ~suspended /\ ~stopping]_vars
    BY <1>1 DEF Next, Caller, Thread, Gone, vars, SuspendForRecording, Resume, Stop,
                Request, TakeNext, ReachCheckpoint, Finish, Checkpoint, Wake, Join,
                Notified
  <1>. QED BY <1>1, PTL DEF Spec, PausedWhileRecording

-----------------------------------------------------------------------------
(* The refinement.                                                         *)

(* The order of a list, as pairs of what is in it.                         *)
Pairs(s) == {pair \in ToSet(s) \X ToSet(s) :
                \E i, k \in DOMAIN s : i < k /\ pair = <<s[i], s[k]>>}

NoneTwice(s) == \A i, k \in DOMAIN s : s[i] = s[k] => i = k

(* A pair is in the order when its first place comes before its second.    *)
LEMMA PairsAreOrdered ==
    ASSUME NEW s, NoneTwice(s)
    PROVE  /\ \A i, k \in DOMAIN s : i < k <=> <<s[i], s[k]>> \in Pairs(s)
           /\ \A p \in Pairs(s) : \E i, k \in DOMAIN s : i < k /\ p = <<s[i], s[k]>>
  <1>1. ASSUME NEW i \in DOMAIN s, NEW k \in DOMAIN s, i < k
        PROVE  <<s[i], s[k]>> \in Pairs(s)
    BY <1>1, ToSetIsRange DEF Pairs
  <1>2. ASSUME NEW i \in DOMAIN s, NEW k \in DOMAIN s, <<s[i], s[k]>> \in Pairs(s)
        PROVE  i < k
    <2>1. PICK j \in DOMAIN s, l \in DOMAIN s : j < l /\ <<s[i], s[k]>> = <<s[j], s[l]>>
      BY <1>2 DEF Pairs
    <2>2. i = j /\ k = l
      BY <2>1 DEF NoneTwice
    <2>. QED BY <2>1, <2>2
  <1>3. \A p \in Pairs(s) : \E i, k \in DOMAIN s : i < k /\ p = <<s[i], s[k]>>
    BY DEF Pairs
  <1>. QED BY <1>1, <1>2, <1>3

(* As many wait as the list is long.                                       *)
LEMMA NoneTwiceCounts ==
    ASSUME NEW s \in Seq(Recordings), NoneTwice(s)
    PROVE  IsFiniteSet(ToSet(s)) /\ Cardinality(ToSet(s)) = Len(s)
  <1>1. Len(s) \in Nat /\ DOMAIN s = 1 .. Len(s)
    OBVIOUS
  <1>2. IsFiniteSet(1 .. Len(s)) /\ Cardinality(1 .. Len(s)) = Len(s)
    BY <1>1, FS_Interval
  <1>. DEFINE f == [i \in 1 .. Len(s) |-> s[i]]
  <1>3. f \in Surjection(1 .. Len(s), ToSet(s)) /\ f \in Injection(1 .. Len(s), ToSet(s))
    <2>1. f \in [1 .. Len(s) -> ToSet(s)]
      BY <1>1, ToSetIsRange
    <2>2. \A x \in ToSet(s) : \E i \in 1 .. Len(s) : f[i] = x
      BY <1>1, ToSetIsRange
    <2>3. \A i, k \in 1 .. Len(s) : f[i] = f[k] => i = k
      BY <1>1 DEF NoneTwice
    <2>. HIDE DEF f
    <2>. QED BY <2>1, <2>2, <2>3 DEF Surjection, Injection, IsInjective
  <1>. HIDE DEF f
  <1>. QED BY <1>2, <1>3, FS_Surjection

(* The first is the oldest, and the rest is what waits without it.         *)
LEMMA WithoutTheFirst ==
    ASSUME NEW s \in Seq(Recordings), s # <<>>, NoneTwice(s)
    PROVE  /\ s[1] \in ToSet(s) /\ Head(s) = s[1]
           /\ \A q \in ToSet(s) \ {s[1]} : <<s[1], q>> \in Pairs(s)
           /\ Tail(s) \in Seq(Recordings)
           /\ ToSet(Tail(s)) = ToSet(s) \ {s[1]}
           /\ Pairs(Tail(s)) = {p \in Pairs(s) : p[1] \in ToSet(Tail(s))
                                                /\ p[2] \in ToSet(Tail(s))}
  <1>1. /\ Len(s) \in Nat \ {0} /\ DOMAIN s = 1 .. Len(s) /\ 1 \in DOMAIN s
        /\ Tail(s) \in Seq(Recordings) /\ DOMAIN Tail(s) = 1 .. Len(s) - 1
        /\ \A i \in 1 .. Len(s) - 1 : Tail(s)[i] = s[i + 1] /\ i + 1 \in DOMAIN s
        /\ Head(s) = s[1]
    OBVIOUS
  <1>2. \A k \in DOMAIN s : k # 1 =>
            1 < k /\ k - 1 \in DOMAIN Tail(s) /\ Tail(s)[k - 1] = s[k]
    BY <1>1
  <1>3. \A i \in DOMAIN Tail(s) : i + 1 \in DOMAIN s /\ i + 1 # 1 /\ Tail(s)[i] = s[i + 1]
    BY <1>1
  <1>4. ToSet(s) = {s[i] : i \in DOMAIN s}
        /\ ToSet(Tail(s)) = {Tail(s)[i] : i \in DOMAIN Tail(s)}
    BY ToSetIsRange
  <1>5. ToSet(Tail(s)) = ToSet(s) \ {s[1]}
    <2>1. ASSUME NEW x \in ToSet(Tail(s)) PROVE x \in ToSet(s) /\ x # s[1]
      <3>1. PICK i \in DOMAIN Tail(s) : x = Tail(s)[i]
        BY <1>4
      <3>2. i + 1 \in DOMAIN s /\ i + 1 # 1 /\ x = s[i + 1]
        BY <1>3, <3>1
      <3>. QED BY <1>1, <1>4, <3>2 DEF NoneTwice
    <2>2. ASSUME NEW x \in ToSet(s), x # s[1] PROVE x \in ToSet(Tail(s))
      <3>1. PICK k \in DOMAIN s : x = s[k]
        BY <1>4
      <3>2. k # 1
        BY <2>2, <3>1
      <3>. QED BY <1>2, <1>4, <3>1, <3>2
    <2>. QED BY <2>1, <2>2
  <1>6. \A q \in ToSet(s) \ {s[1]} : <<s[1], q>> \in Pairs(s)
    <2>1. SUFFICES ASSUME NEW k \in DOMAIN s, s[k] # s[1]
                   PROVE  <<s[1], s[k]>> \in Pairs(s)
      BY <1>4
    <2>2. 1 < k
      BY <1>2, <2>1
    <2>. QED BY <1>1, <2>2, PairsAreOrdered
  <1>7. Pairs(Tail(s)) = {p \in Pairs(s) : p[1] \in ToSet(Tail(s)) /\ p[2] \in ToSet(Tail(s))}
    <2>1. ASSUME NEW p \in Pairs(Tail(s))
          PROVE  p \in Pairs(s) /\ p[1] \in ToSet(Tail(s)) /\ p[2] \in ToSet(Tail(s))
      <3>1. PICK i \in DOMAIN Tail(s), k \in DOMAIN Tail(s) :
                    i < k /\ p = <<Tail(s)[i], Tail(s)[k]>>
        BY DEF Pairs
      <3>2. /\ p = <<s[i + 1], s[k + 1]>> /\ i + 1 \in DOMAIN s /\ k + 1 \in DOMAIN s
            /\ i + 1 < k + 1
        BY <1>1, <1>3, <3>1
      <3>. QED BY <1>4, <3>1, <3>2, PairsAreOrdered
    <2>2. ASSUME NEW p \in Pairs(s), p[1] \in ToSet(Tail(s)), p[2] \in ToSet(Tail(s))
          PROVE  p \in Pairs(Tail(s))
      <3>1. PICK i \in DOMAIN s, k \in DOMAIN s : i < k /\ p = <<s[i], s[k]>>
        BY DEF Pairs
      <3>2. i # 1 /\ k # 1
        BY <1>5, <2>2, <3>1
      <3>3. /\ i - 1 \in DOMAIN Tail(s) /\ k - 1 \in DOMAIN Tail(s)
            /\ p = <<Tail(s)[i - 1], Tail(s)[k - 1]>> /\ i - 1 < k - 1
        BY <1>1, <1>2, <3>1, <3>2
      <3>. QED BY <1>4, <3>3 DEF Pairs
    <2>. QED BY <2>1, <2>2
  <1>. QED BY <1>1, <1>4, <1>5, <1>6, <1>7

(* What is put behind the others was asked for after them.                 *)
LEMMA OneMoreBehind ==
    ASSUME NEW s \in Seq(Recordings), NEW r \in Recordings
    PROVE  /\ ToSet(Append(s, r)) = ToSet(s) \cup {r}
           /\ Pairs(Append(s, r)) = Pairs(s) \cup (ToSet(s) \X {r})
  <1>. DEFINE t == Append(s, r)
              n == Len(s)
  <1>1. /\ n \in Nat /\ DOMAIN s = 1 .. n /\ DOMAIN t = 1 .. n + 1
        /\ t[n + 1] = r /\ \A i \in 1 .. n : t[i] = s[i]
    OBVIOUS
  <1>2. \A i \in DOMAIN t : i \in DOMAIN s \/ i = n + 1
    BY <1>1
  <1>3. \A i \in DOMAIN s : i \in DOMAIN t /\ i < n + 1 /\ t[i] = s[i]
    BY <1>1
  <1>4. ToSet(s) = {s[i] : i \in DOMAIN s} /\ ToSet(t) = {t[i] : i \in DOMAIN t}
    BY ToSetIsRange
  <1>5. n + 1 \in DOMAIN t /\ t[n + 1] = r
    BY <1>1
  <1>. HIDE DEF t
  <1>6. ToSet(t) = ToSet(s) \cup {r}
    <2>1. ASSUME NEW x \in ToSet(t) PROVE x \in ToSet(s) \/ x = r
      BY <1>2, <1>3, <1>4, <1>5
    <2>2. ASSUME NEW x \in ToSet(s) PROVE x \in ToSet(t)
      BY <1>3, <1>4
    <2>. QED BY <1>4, <1>5, <2>1, <2>2
  <1>7. Pairs(t) = Pairs(s) \cup (ToSet(s) \X {r})
    <2>1. ASSUME NEW p \in Pairs(t) PROVE p \in Pairs(s) \/ p \in ToSet(s) \X {r}
      <3>1. PICK i \in DOMAIN t, k \in DOMAIN t : i < k /\ p = <<t[i], t[k]>>
        BY DEF Pairs
      <3>2. i \in DOMAIN s
        BY <1>1, <1>2, <3>1
      <3>3. CASE k \in DOMAIN s
        BY <1>3, <1>4, <3>1, <3>2, <3>3 DEF Pairs
      <3>4. CASE k = n + 1
        BY <1>3, <1>4, <1>5, <3>1, <3>2, <3>4
      <3>. QED BY <1>2, <3>3, <3>4
    <2>2. ASSUME NEW p \in Pairs(s) PROVE p \in Pairs(t)
      <3>1. PICK i \in DOMAIN s, k \in DOMAIN s : i < k /\ p = <<s[i], s[k]>>
        BY DEF Pairs
      <3>2. i \in DOMAIN t /\ k \in DOMAIN t /\ p = <<t[i], t[k]>>
        BY <1>3, <3>1
      <3>. QED BY <1>4, <3>1, <3>2 DEF Pairs
    <2>3. ASSUME NEW p \in ToSet(s) \X {r} PROVE p \in Pairs(t)
      <3>1. PICK i \in DOMAIN s : p = <<s[i], r>>
        BY <1>4
      <3>2. i \in DOMAIN t /\ i < n + 1 /\ p = <<t[i], t[n + 1]>>
        BY <1>3, <1>5, <3>1
      <3>. QED BY <1>4, <1>5, <3>2 DEF Pairs
    <2>. QED BY <2>1, <2>2, <2>3
  <1>. QED BY <1>6, <1>7 DEF t

(* The promise counts as the worker does.                                  *)
LEMMA SameCount == \A S : Promise!Cardinality(S) = Cardinality(S)
  BY DEF Promise!Cardinality, Cardinality

(* What the invariant says of the queue.                                   *)
LEMMA WhatWaits ==
    ASSUME IInv
    PROVE  /\ queue \in Seq(Recordings) /\ NoneTwice(queue) /\ Before = Pairs(queue)
           /\ Len(queue) <= Capacity /\ Len(queue) \in Nat
           /\ Cardinality(ToSet(queue)) = Len(queue)
  <1>1. queue \in Seq(Recordings) /\ NoneTwice(queue) /\ Len(queue) \in Nat
    BY DEF IInv, WorkerTypeOK, WorkedOnOnce, NoneTwice
  <1>. QED BY <1>1, NoneTwiceCounts DEF IInv, WorkerTypeOK, Before, Pairs

(* A request that is taken is an Ask: what keeps its place is what waited, *)
(* or all of it but the oldest.                                            *)
LEMMA RequestIsAsk ==
    ASSUME IInv, NEW r \in Recordings, Request(r)
    PROVE  Promise!Ask(r) \/ UNCHANGED Promise!vars
  <1>1. UNCHANGED <<workingOn, suspended, stopping>>
    BY DEF Request
  <1>2. CASE stopping \/ IsWaiting(r)
    <2>1. queue' = queue
      BY <1>2 DEF Request
    <2>. QED BY <1>1, <2>1 DEF Promise!vars, Before
  <1>3. CASE ~stopping /\ ~IsWaiting(r)
    <2>. DEFINE kept == ToSet(MakePlace)
    <2>1. queue' = Append(MakePlace, r)
      BY <1>3 DEF Request
    <2>2. r \notin ToSet(queue) /\ r # workingOn
      BY <1>3 DEF IsWaiting
    <2>3. /\ MakePlace \in Seq(Recordings) /\ kept \in SUBSET ToSet(queue)
          /\ Promise!Keeps(kept) /\ Pairs(MakePlace) = Promise!Among(kept)
      <3>1. CASE Len(queue) >= Capacity
        <4>1. MakePlace = Tail(queue) /\ Len(queue) = Capacity /\ queue # <<>>
          BY <3>1, WhatWaits, WorkerAssumption DEF MakePlace
        <4>2. /\ Promise!Oldest(queue[1]) /\ kept = ToSet(queue) \ {queue[1]}
              /\ queue[1] \in ToSet(queue) /\ MakePlace \in Seq(Recordings)
              /\ Pairs(MakePlace) = {p \in Before : p[1] \in kept /\ p[2] \in kept}
          BY <4>1, WhatWaits, WithoutTheFirst DEF Promise!Oldest
        <4>. HIDE DEF kept
        <4>3. Promise!Keeps(kept)
          BY <4>1, <4>2, WhatWaits, SameCount DEF Promise!Keeps
        <4>. QED BY <4>2, <4>3 DEF Promise!Among
      <3>2. CASE ~(Len(queue) >= Capacity)
        <4>1. MakePlace = queue /\ Len(queue) < Capacity
          BY <3>2, WhatWaits, WorkerAssumption DEF MakePlace
        <4>2. Promise!Keeps(kept)
          BY <4>1, WhatWaits, SameCount DEF Promise!Keeps
        <4>3. \A p \in Before : p[1] \in ToSet(queue) /\ p[2] \in ToSet(queue)
          BY DEF Before
        <4>. QED BY <4>1, <4>2, <4>3, WhatWaits DEF Promise!Among
      <3>. QED BY <3>1, <3>2
    <2>4. ToSet(queue)' = kept \cup {r}
      BY <2>1, <2>3, OneMoreBehind
    <2>5. Before' = Promise!Among(kept) \cup (kept \X {r})
      <3>1. Before' = Pairs(queue')
        BY DEF Before, Pairs
      <3>. QED BY <2>1, <2>3, <3>1, OneMoreBehind
    <2>. HIDE DEF kept
    <2>. QED BY <1>1, <1>3, <2>2, <2>3, <2>4, <2>5 DEF Promise!Ask
  <1>. QED BY <1>2, <1>3

(* The thread begins with the oldest.                                      *)
LEMMA TakeNextIsBegin ==
    ASSUME IInv, TakeNext
    PROVE  \/ \E r \in Recordings : Promise!Begin(r)
           \/ UNCHANGED Promise!vars
  <1>1. UNCHANGED <<suspended, stopping>>
    BY DEF TakeNext
  <1>2. CASE UNCHANGED <<queue, workingOn>>
    BY <1>1, <1>2 DEF Promise!vars, Before
  <1>3. CASE /\ ~stopping /\ ~suspended /\ queue # <<>>
             /\ queue' = Tail(queue) /\ workingOn' = Head(queue)
    <2>1. workingOn = None
      BY DEF TakeNext, IInv, WorkingOnIsHonest, Waiting
    <2>2. /\ Promise!Oldest(queue[1]) /\ workingOn' = queue[1]
          /\ ToSet(queue)' = ToSet(queue) \ {queue[1]} /\ queue[1] \in Recordings
          /\ Pairs(queue') = {p \in Before : p[1] \in ToSet(queue)' /\ p[2] \in ToSet(queue)'}
      <3>1. queue[1] \in Recordings
        BY <1>3, WhatWaits
      <3>. QED BY <1>3, <3>1, WhatWaits, WithoutTheFirst DEF Promise!Oldest
    <2>3. Before' = Pairs(queue')
      BY DEF Before, Pairs
    <2>4. Promise!Begin(queue[1])
      BY <1>1, <1>3, <2>1, <2>2, <2>3 DEF Promise!Begin, Promise!Among
    <2>. QED BY <2>2, <2>4
  <1>. QED BY <1>2, <1>3 DEF TakeNext

(* The thread's waits, wakes and checkpoints, and a request it already has,*)
(* are nothing to those who asked.                                         *)
LEMMA StepIsPromised ==
    ASSUME IInv, [Next]_vars
    PROVE  Promise!Next \/ UNCHANGED Promise!vars
  <1>1. CASE UNCHANGED <<queue, workingOn, suspended, stopping>>
    BY <1>1 DEF Promise!vars, Before
  <1>2. CASE UNCHANGED vars \/ Join \/ Wake \/ ReachCheckpoint \/ Checkpoint
    BY <1>1, <1>2 DEF vars, Join, Wake, ReachCheckpoint, Checkpoint
  <1>3. CASE SuspendForRecording \/ Resume
    <2>1. /\ UNCHANGED <<queue, workingOn, stopping>>
          /\ suspended' = ~suspended \/ suspended' = suspended
      BY <1>3 DEF SuspendForRecording, Resume, IInv, WorkerTypeOK
    <2>2. ToSet(queue)' = ToSet(queue) /\ Before' = Before
      BY <2>1 DEF Before
    <2>. QED BY <1>1, <2>1, <2>2 DEF Promise!Next, Promise!Hold
  <1>4. CASE Stop
    <2>1. queue' = <<>> /\ stopping' = TRUE /\ ~stopping /\ UNCHANGED <<workingOn, suspended>>
      BY <1>4 DEF Stop, IInv, StoppedIsEmpty
    <2>2. ToSet(queue)' = {}
      <3>1. DOMAIN queue' = {}
        BY <2>1
      <3>. QED BY <3>1, ToSetIsRange
    <2>3. Before' = {}
      BY <2>2 DEF Before
    <2>. QED BY <2>1, <2>2, <2>3 DEF Promise!Next, Promise!Close
  <1>5. CASE Finish
    <2>1. UNCHANGED <<queue, suspended, stopping>> /\ workingOn # None /\ workingOn' = None
      BY <1>5 DEF Finish, IInv, WorkingOnIsHonest, AtWork
    <2>2. ToSet(queue)' = ToSet(queue) /\ Before' = Before
      BY <2>1 DEF Before
    <2>. QED BY <2>1, <2>2 DEF Promise!Next, Promise!Finish
  <1>6. CASE TakeNext
    BY <1>6, TakeNextIsBegin DEF Promise!Next
  <1>7. CASE \E r \in Recordings : Request(r)
    BY <1>7, RequestIsAsk DEF Promise!Next
  <1>. QED BY <1>2, <1>3, <1>4, <1>5, <1>6, <1>7 DEF Next, Caller, Thread, Gone

(* request, next, suspend, resume and stop implement a bounded queue that  *)
(* serves the oldest request, drops no other and only for want of a place, *)
(* and begins nothing while a recording runs or once it is stopped.        *)
THEOREM WorkerKeepsItsPromise == Spec => RequestsAreKept
  <1>1. Init => Promise!Init
    <2>1. SUFFICES ASSUME Init PROVE Promise!Init
      OBVIOUS
    <2>2. ToSet(queue) = {}
      <3>1. DOMAIN queue = {}
        BY <2>1 DEF Init
      <3>. QED BY <3>1, ToSetIsRange
    <2>3. Before = {}
      BY <2>2 DEF Before
    <2>. QED BY <2>1, <2>2, <2>3 DEF Init, Promise!Init
  <1>2. IInv /\ [Next]_vars => [Promise!Next]_Promise!vars
    BY StepIsPromised
  <1>3. Spec => []IInv
    BY InitInv, NextInv, PTL DEF Spec
  <1>. QED BY <1>1, <1>2, <1>3, PTL DEF Spec, RequestsAreKept, Promise!Spec
=============================================================================
