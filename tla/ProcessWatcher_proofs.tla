------------------------ MODULE ProcessWatcher_proofs ------------------------
(* What the watcher reports, for any processes, ids, windows and baseline:   *)
(* an exit only of what is gone, a launch only of what nobody was told of,   *)
(* and a batch of exits with the children first.                             *)
EXTENDS ProcessWatcher, FiniteSetTheorems, SequenceTheorems,
        WellFoundedInduction, TLAPS

(* The order of a batch: numbers below a bound have a greatest one.         *)
Below == OpToRel(<, Nat)

LEMMA BelowIsWellFounded == IsWellFoundedOn(Below, Nat)
  BY NatLessThanWellFounded DEF Below

LEMMA GreatestIsThere ==
    ASSUME NEW n \in Nat, NEW E \in SUBSET (0..n), E # {}
    PROVE  Max(E) \in E /\ \A y \in E : y <= Max(E)
  <1>. DEFINE F == {n - x : x \in E}
  <1>1. F \in SUBSET Nat /\ F # {}
    <2>1. \A x \in E : n - x \in Nat
      OBVIOUS
    <2>2. PICK x \in E : TRUE
      OBVIOUS
    <2>3. n - x \in F
      BY <2>2
    <2>. QED BY <2>1, <2>3
  <1>2. PICK f \in F : \A y \in F : ~ (<<y, f>> \in Below)
    <2>. HIDE DEF F
    <2>. QED BY <1>1, BelowIsWellFounded, WFMin
  <1>3. PICK m \in E : f = n - m
    BY <1>2
  <1>4. ASSUME NEW y \in E PROVE y <= m
    <2>1. n - y \in F /\ n - y \in Nat /\ f \in Nat
      BY <1>1, <1>2
    <2>2. ~ (n - y < f)
      BY <1>2, <2>1 DEF Below, OpToRel
    <2>. QED BY <1>3, <2>2
  <1>. QED BY <1>4 DEF Max

(* With each id once, the parent the code looks up is the exit's own.       *)
LEMMA OneExitPerId ==
    ASSUME NEW E, NEW x \in E,
           \A y, z \in E : y.process.pid = z.process.pid => y = z
    PROVE  ParentIn(E, x.process.pid) = x.process.parent
  BY DEF ParentIn

(* A walk that never goes round ends before it has met every process.        *)
LEMMA WalksAreShort ==
    ASSUME NEW E, IsFiniteSet(Pids(E)), HasRoots(E), NEW q, NEW m \in Nat,
           NEW w \in Walks(E, q, m)
    PROVE  m < Cardinality(Pids(E))
  <1>. DEFINE P == Pids(E)
  <1>1. w \in [0..m -> P] /\ Cardinality(P) \in Nat
    BY FS_CardinalityType DEF Walks
  <1>2. SUFFICES ASSUME Cardinality(P) <= m PROVE FALSE
    BY <1>1
  <1>3. IsFiniteSet(0..m) /\ Cardinality(0..m) = m + 1
    BY FS_Interval
  <1>4. \E i, j \in 0..m : i # j /\ w[i] = w[j]
    <2>1. Cardinality(P) < Cardinality(0..m)
      BY <1>1, <1>2, <1>3
    <2>. HIDE DEF P
    <2>. QED BY <1>1, <1>3, <2>1, FS_PigeonHole DEF P
  <1>5. PICK i \in 0..m, j \in 0..m : i < j /\ w[i] = w[j]
    BY <1>4
  <1>. DEFINE S == {w[k] : k \in i..(j - 1)}
  <1>6. S \in (SUBSET P) \ {{}}
    <2>1. \A k \in i..(j - 1) : w[k] \in P
      BY <1>1
    <2>2. w[i] \in S
      BY <1>5
    <2>3. S \subseteq P
      BY <2>1
    <2>. HIDE DEF S, P
    <2>. QED BY <2>2, <2>3
  <1>7. PICK r \in S : ParentIn(E, r) \notin S \ {r}
    BY <1>6 DEF HasRoots
  <1>8. PICK k \in i..(j - 1) : r = w[k]
    BY <1>7
  <1>9. w[k + 1] = ParentIn(E, r) /\ w[k + 1] # r
    <2>1. k + 1 \in 1..m /\ (k + 1) - 1 = k
      BY <1>8
    <2>2. \A l \in 1..m : w[l] = ParentIn(E, w[l - 1]) /\ w[l] # w[l - 1]
      BY DEF Walks
    <2>3. w[k + 1] = ParentIn(E, w[(k + 1) - 1]) /\ w[k + 1] # w[(k + 1) - 1]
      BY <2>1, <2>2
    <2>. QED BY <1>8, <2>1, <2>3
  <1>10. w[k + 1] \in S
    <2>1. CASE k + 1 \in i..(j - 1)
      BY <2>1
    <2>2. CASE k + 1 = j
      BY <1>5, <2>2
    <2>. QED BY <1>8, <2>1, <2>2
  <1>. QED BY <1>7, <1>9, <1>10

(* A process is reported before its parent: it is one step further down.    *)
LEMMA ChildBeforeParent ==
    ASSUME NEW E, IsFiniteSet(Pids(E)), HasRoots(E),
           \A y, z \in E : y.process.pid = z.process.pid => y = z,
           NEW x \in E, NEW y \in E, x # y, x.process.parent = y.process.pid
    PROVE  ChildrenFirst(E, x, y)
  <1>. DEFINE a == x.process.pid
              b == y.process.pid
              N == Cardinality(Pids(E))
              Reach(q) == {n \in 0..N : Walks(E, q, n) # {}}
  <1>1. N \in Nat /\ a \in Pids(E) /\ b \in Pids(E) /\ a # b /\ ParentIn(E, a) = b
    BY FS_CardinalityType, OneExitPerId DEF Pids
  <1>2. Reach(b) # {}
    <2>. DEFINE v == [k \in 0..0 |-> b]
    <2>1. v \in Walks(E, b, 0)
      BY <1>1 DEF Walks
    <2>2. 0 \in Reach(b)
      BY <1>1, <2>1
    <2>. QED BY <2>2
  <1>3. Max(Reach(b)) \in Reach(b)
    BY <1>1, <1>2, GreatestIsThere
  <1>4. PICK m \in 0..N : m = Max(Reach(b)) /\ Walks(E, b, m) # {}
    BY <1>3
  <1>5. PICK w \in Walks(E, b, m) : TRUE
    BY <1>4
  <1>6. m \in Nat /\ m + 1 \in 0..N
    <2>1. m < N
      BY <1>4, <1>5, WalksAreShort
    <2>. QED BY <1>1, <1>4, <2>1
  <1>. DEFINE v == [k \in 0..(m + 1) |-> IF k = 0 THEN a ELSE w[k - 1]]
  <1>7. v \in Walks(E, a, m + 1)
    <2>1. w \in [0..m -> Pids(E)] /\ w[0] = b
      BY <1>5 DEF Walks
    <2>2. v \in [0..(m + 1) -> Pids(E)]
      <3>1. \A k \in 0..(m + 1) : k # 0 => k - 1 \in 0..m
        BY <1>6
      <3>. QED BY <1>1, <2>1, <3>1
    <2>3. v[0] = a
      BY <1>6
    <2>4. ASSUME NEW k \in 1..(m + 1)
          PROVE  v[k] = ParentIn(E, v[k - 1]) /\ v[k] # v[k - 1]
      <3>1. k \in 0..(m + 1) /\ k - 1 \in 0..(m + 1) /\ k # 0 /\ v[k] = w[k - 1]
        BY <1>6
      <3>2. CASE k = 1
        <4>1. v[k - 1] = a /\ v[k] = b
          BY <2>1, <2>3, <3>1, <3>2
        <4>. QED BY <1>1, <4>1
      <3>3. CASE k # 1
        <4>1. k - 1 \in 1..m /\ k - 1 # 0
          BY <1>6, <3>3
        <4>2. v[k - 1] = w[(k - 1) - 1]
          BY <3>1, <4>1
        <4>3. \A l \in 1..m : w[l] = ParentIn(E, w[l - 1]) /\ w[l] # w[l - 1]
          BY <1>5 DEF Walks
        <4>. HIDE DEF v
        <4>. QED BY <3>1, <4>1, <4>2, <4>3
      <3>. QED BY <3>2, <3>3
    <2>. HIDE DEF v
    <2>. QED BY <2>2, <2>3, <2>4 DEF Walks
  <1>8. m + 1 \in Reach(a)
    BY <1>6, <1>7
  <1>9. Max(Reach(a)) \in Reach(a) /\ m + 1 <= Max(Reach(a))
    BY <1>1, <1>8, GreatestIsThere
  <1>10. Depth(E, a) > Depth(E, b)
    <2>1. Depth(E, a) = Max(Reach(a)) /\ Depth(E, b) = Max(Reach(b))
      BY DEF Depth
    <2>2. Max(Reach(a)) \in Int /\ Max(Reach(b)) = m
      BY <1>1, <1>4, <1>9
    <2>. HIDE DEF Reach
    <2>. QED BY <1>6, <1>9, <2>1, <2>2
  <1>. QED BY <1>10 DEF ChildrenFirst

(* What the debouncer keeps.  An id is in one place of it, exits apart.      *)
Debouncers == [pending : SUBSET Launches, live : SUBSET started, exiting : SUBSET Exits]

Kept(d) == d \in Debouncers /\ KeptApart(d)

(* What retain() leaves of a launch is one, unless nothing is left.         *)
LEMMA WithoutIsALaunch ==
    ASSUME NEW l \in Launches, NEW pid
    PROVE  /\ Without(l, pid).quiet = l.quiet /\ Without(l, pid).cap = l.cap
           /\ Without(l, pid).members = {m \in l.members : m.pid # pid}
           /\ Without(l, pid).members # {} => Without(l, pid) \in Launches
  <1>1. Without(l, pid) = [quiet |-> l.quiet, cap |-> l.cap,
                           members |-> {m \in l.members : m.pid # pid}]
    BY DEF Without, Launches
  <1>2. l.quiet \in 0..QuietPeriod /\ l.cap \in 0..MaxLaunchWindow /\ l.members \in SUBSET started
    BY DEF Launches
  <1>3. ASSUME {m \in l.members : m.pid # pid} # {}
        PROVE  Without(l, pid) \in Launches
    <2>. DEFINE M == {m \in l.members : m.pid # pid}
    <2>1. M \in (SUBSET started) \ {{}}
      BY <1>2, <1>3
    <2>2. Without(l, pid) = [quiet |-> l.quiet, cap |-> l.cap, members |-> M]
      BY <1>1
    <2>. HIDE DEF M
    <2>. QED BY <1>2, <2>1, <2>2 DEF Launches
  <1>. QED BY <1>1, <1>3

(* An exit of what is being collected takes that process away, no more.     *)
LEMMA Forgotten ==
    ASSUME NEW d, Kept(d), NEW pid
    PROVE  /\ Kept(ForgetPending(d, pid))
           /\ ForgetPending(d, pid).live = d.live
           /\ ForgetPending(d, pid).exiting = d.exiting
           /\ Members(ForgetPending(d, pid)) = {m \in Members(d) : m.pid # pid}
  <1>. DEFINE L == {l \in {Without(m, pid) : m \in d.pending} : l.members # {}}
              f == ForgetPending(d, pid)
  <1>1. f = [d EXCEPT !.pending = L] /\ d \in Debouncers
    BY DEF ForgetPending, Kept
  <1>2. f.pending = L /\ f.live = d.live /\ f.exiting = d.exiting
    <2>. HIDE DEF L, f
    <2>. QED BY <1>1 DEF Debouncers
  <1>3. \A l \in L : \E k \in d.pending : /\ l = Without(k, pid) /\ l \in Launches
                                          /\ l.members = {m \in k.members : m.pid # pid}
    <2>1. d.pending \subseteq Launches
      BY <1>1 DEF Debouncers
    <2>. QED BY <2>1, WithoutIsALaunch
  <1>4. ASSUME NEW k \in d.pending, NEW m \in k.members, m.pid # pid
        PROVE  \E l \in L : m \in l.members
    <2>1. k \in Launches
      BY <1>1 DEF Debouncers
    <2>2. m \in Without(k, pid).members
      BY <2>1, <1>4, WithoutIsALaunch
    <2>. QED BY <2>2
  <1>5. f \in Debouncers
    <2>1. L \subseteq Launches
      BY <1>3
    <2>2. d.live \in SUBSET started /\ d.exiting \in SUBSET Exits
      BY <1>1 DEF Debouncers
    <2>. HIDE DEF L, f
    <2>. QED BY <1>1, <2>1, <2>2 DEF Debouncers
  <1>6. Members(f) = {m \in Members(d) : m.pid # pid}
    <2>1. Members(f) = UNION {l.members : l \in L}
      BY <1>2 DEF Members
    <2>2. ASSUME NEW m, m \in Members(f) PROVE m \in Members(d) /\ m.pid # pid
      <3>1. PICK l \in L : m \in l.members
        BY <2>1, <2>2
      <3>2. PICK k \in d.pending : l.members = {n \in k.members : n.pid # pid}
        BY <1>3
      <3>. QED BY <3>1, <3>2 DEF Members
    <2>3. ASSUME NEW m \in Members(d), m.pid # pid PROVE m \in Members(f)
      <3>1. PICK k \in d.pending : m \in k.members
        BY DEF Members
      <3>. HIDE DEF L, f
      <3>. QED BY <1>4, <2>1, <2>3, <3>1
    <2>. HIDE DEF L, f
    <2>. QED BY <2>2, <2>3
  <1>7. KeptApart(f)
    <2>1. KeptApart(d)
      BY DEF Kept
    <2>2. ASSUME NEW l \in L, NEW m \in L, NEW p \in l.members, NEW q \in m.members,
                 p.pid = q.pid
          PROVE  l = m /\ p = q
      <3>. HIDE DEF L
      <3>1. PICK k \in d.pending : l = Without(k, pid) /\ p \in k.members
        BY <1>3
      <3>2. PICK j \in d.pending : m = Without(j, pid) /\ q \in j.members
        BY <1>3
      <3>3. k = j /\ p = q
        BY <2>1, <2>2, <3>1, <3>2 DEF KeptApart
      <3>. QED BY <3>1, <3>2, <3>3
    <2>3. Exiting(f) = Exiting(d)
      <3>. HIDE DEF f
      <3>. QED BY <1>2 DEF Exiting
    <2>. HIDE DEF L, f
    <2>. QED BY <1>2, <1>6, <2>1, <2>2, <2>3 DEF KeptApart
  <1>. QED BY <1>2, <1>5, <1>6, <1>7 DEF Kept

(* An exit of what was reported moves it to those that wait.                *)
LEMMA Left ==
    ASSUME NEW d, Kept(d), NEW pid, NEW settle \in 0..ExitSettlePeriod
    PROVE  /\ Kept(Leaves(d, pid, settle))
           /\ Leaves(d, pid, settle).live = {q \in d.live : q.pid # pid}
           /\ Leaves(d, pid, settle).pending = d.pending
           /\ Members(Leaves(d, pid, settle)) = Members(d)
           /\ Exiting(Leaves(d, pid, settle))
                = Exiting(d) \cup {q \in d.live : q.pid = pid}
  <1>. DEFINE V == {q \in d.live : q.pid # pid}
              G == {q \in d.live : q.pid = pid}
              N == {[process |-> p, settle |-> settle] : p \in G}
              X == d.exiting \cup N
              f == Leaves(d, pid, settle)
  <1>1. f = [d EXCEPT !.live = V, !.exiting = X] /\ d \in Debouncers
    BY DEF Leaves, Kept
  <1>2. f.live = V /\ f.pending = d.pending /\ f.exiting = X
    <2>. HIDE DEF V, X, f
    <2>. QED BY <1>1 DEF Debouncers
  <1>3. Members(f) = Members(d)
    <2>. HIDE DEF f
    <2>. QED BY <1>2 DEF Members
  <1>4. Exiting(f) = Exiting(d) \cup G
    <2>1. {e.process : e \in N} = G
      <3>1. \A p \in G : [process |-> p, settle |-> settle] \in N
                        /\ [process |-> p, settle |-> settle].process = p
        OBVIOUS
      <3>2. \A e \in N : e.process \in G
        OBVIOUS
      <3>. HIDE DEF N, G
      <3>3. ASSUME NEW p \in G PROVE p \in {e.process : e \in N}
        BY <3>1
      <3>. QED BY <3>2, <3>3
    <2>2. Exiting(f) = {e.process : e \in d.exiting} \cup {e.process : e \in N}
      <3>. HIDE DEF f, N
      <3>. QED BY <1>2 DEF Exiting
    <2>. QED BY <2>1, <2>2 DEF Exiting
  <1>5. f \in Debouncers
    <2>1. V \in SUBSET started /\ G \in SUBSET started /\ d.exiting \in SUBSET Exits
          /\ d.pending \in SUBSET Launches
      BY <1>1 DEF Debouncers
    <2>2. N \in SUBSET Exits
      BY <2>1 DEF Exits
    <2>3. X \in SUBSET Exits
      BY <2>1, <2>2
    <2>. HIDE DEF V, X, f, N, G
    <2>. QED BY <1>1, <2>1, <2>3 DEF Debouncers
  <1>6. KeptApart(f)
    <2>1. KeptApart(d) /\ V \subseteq d.live /\ G \subseteq d.live /\ V \cap G = {}
      BY DEF Kept
    <2>2. \A e \in N : e.process \in G /\ e = [process |-> e.process, settle |-> settle]
      OBVIOUS
    <2>3. \A e \in d.exiting : e.process \notin d.live
      BY <2>1 DEF KeptApart, Exiting
    <2>4. ASSUME NEW e \in X, NEW k \in X, e.process = k.process PROVE e = k
      <3>1. X = d.exiting \cup N
        OBVIOUS
      <3>. HIDE DEF X, N, G, V
      <3>2. CASE e \in N /\ k \in N
        BY <2>2, <2>4, <3>2
      <3>3. CASE e \in d.exiting /\ k \in d.exiting
        BY <2>1, <2>4, <3>3 DEF KeptApart
      <3>4. ~(e \in N /\ k \in d.exiting) /\ ~(k \in N /\ e \in d.exiting)
        BY <2>1, <2>2, <2>3, <2>4
      <3>. QED BY <3>1, <3>2, <3>3, <3>4
    <2>5. G \cap Members(d) = {}
      BY <2>1 DEF KeptApart
    <2>. HIDE DEF V, X, f, N, G
    <2>6. (f.live \cup Members(f)) \cap Exiting(f) = {}
      BY <1>2, <1>3, <1>4, <2>1, <2>5 DEF KeptApart
    <2>. QED BY <1>2, <1>3, <2>1, <2>4, <2>6 DEF KeptApart
  <1>. QED BY <1>2, <1>3, <1>4, <1>5, <1>6 DEF Kept

(* A process id that exits or that is taken again is of one place.           *)
LEMMA LeftAtMostOnce ==
    ASSUME NEW d, Kept(d), NEW pid, IsPending(d, pid)
    PROVE  /\ {q \in d.live : q.pid # pid} = d.live
           /\ {q \in d.live : q.pid = pid} = {}
  <1>1. PICK m \in Members(d) : m.pid = pid
    BY DEF IsPending, PidsOf
  <1>. QED BY <1>1 DEF Kept, KeptApart

(* What is not collected is not missed.                                     *)
LEMMA NotPending ==
    ASSUME NEW d, NEW pid, ~IsPending(d, pid)
    PROVE  {m \in Members(d) : m.pid # pid} = Members(d)
  BY DEF IsPending, PidsOf

(* However an id's process goes, it is believed no more, and waits to be    *)
(* reported gone when it had been reported.                                 *)
Gone(d, e, pid) ==
    /\ Kept(e)
    /\ e.live = {q \in d.live : q.pid # pid}
    /\ Members(e) = {m \in Members(d) : m.pid # pid}
    /\ Exiting(e) = Exiting(d) \cup {q \in d.live : q.pid = pid}

(* Collected or reported, one of the two.                                   *)
LEMMA GoneEitherWay ==
    ASSUME NEW d, Kept(d), NEW pid, NEW settle \in 0..ExitSettlePeriod
    PROVE  Gone(d, IF IsPending(d, pid) THEN ForgetPending(d, pid)
                                        ELSE Leaves(d, pid, settle), pid)
  <1>1. CASE IsPending(d, pid)
    <2>1. Gone(d, ForgetPending(d, pid), pid)
      <3>1. Exiting(ForgetPending(d, pid)) = Exiting(d)
        BY Forgotten DEF Exiting
      <3>. QED BY <1>1, <3>1, Forgotten, LeftAtMostOnce DEF Gone
    <2>. QED BY <1>1, <2>1
  <1>2. CASE ~IsPending(d, pid)
    <2>1. Gone(d, Leaves(d, pid, settle), pid)
      BY <1>2, Left, NotPending DEF Gone
    <2>. QED BY <1>2, <2>1
  <1>. QED BY <1>1, <1>2

(* observe_exit does that, and so does retire for an id that is reused.     *)
LEMMA ExitObserved ==
    ASSUME NEW d, Kept(d), NEW pid PROVE Gone(d, ObserveExit(d, pid), pid)
  BY GoneEitherWay, ConfigAssumption DEF ObserveExit

LEMMA Retired ==
    ASSUME NEW d, Kept(d), NEW pid PROVE Gone(d, Retire(d, pid), pid)
  BY GoneEitherWay, ConfigAssumption DEF Retire

(* A process that starts is collected, with its parent or on its own.        *)
Began(d, e, p) ==
    /\ Kept(e)
    /\ e.live = d.live
    /\ Members(e) = Members(d) \cup {p}
    /\ Exiting(e) = Exiting(d)

(* A launch of its own.                                                     *)
LEMMA Opened ==
    ASSUME NEW d, Kept(d), NEW p \in started,
           p \notin Exiting(d), \A q \in d.live \cup Members(d) : q.pid # p.pid
    PROVE  Began(d, OpenLaunch(d, p), p)
  <1>. DEFINE l == [quiet |-> QuietPeriod, cap |-> MaxLaunchWindow, members |-> {p}]
              L == d.pending \cup {l}
              f == OpenLaunch(d, p)
  <1>1. l \in Launches /\ l.members = {p}
    <2>1. {p} \in (SUBSET started) \ {{}}
      OBVIOUS
    <2>2. QuietPeriod \in 0..QuietPeriod /\ MaxLaunchWindow \in 0..MaxLaunchWindow
      BY ConfigAssumption
    <2>. QED BY <2>1, <2>2 DEF Launches
  <1>2. f = [d EXCEPT !.pending = L] /\ d \in Debouncers
    BY DEF OpenLaunch, Kept
  <1>3. f.pending = L /\ f.live = d.live /\ f.exiting = d.exiting
    <2>. HIDE DEF L, f
    <2>. QED BY <1>2 DEF Debouncers
  <1>4. f \in Debouncers
    <2>1. L \subseteq Launches
      <3>1. d.pending \subseteq Launches
        BY <1>2 DEF Debouncers
      <3>. HIDE DEF l
      <3>. QED BY <1>1, <3>1
    <2>2. d.live \in SUBSET started /\ d.exiting \in SUBSET Exits
      BY <1>2 DEF Debouncers
    <2>. HIDE DEF L, f
    <2>. QED BY <1>2, <2>1, <2>2 DEF Debouncers
  <1>5. Members(f) = Members(d) \cup {p}
    <2>. HIDE DEF l, f
    <2>. QED BY <1>1, <1>3 DEF Members
  <1>6. Exiting(f) = Exiting(d)
    <2>. HIDE DEF f
    <2>. QED BY <1>3 DEF Exiting
  <1>7. KeptApart(f)
    <2>1. KeptApart(d)
      BY DEF Kept
    <2>2. ASSUME NEW k \in L, NEW m \in L, NEW x \in k.members, NEW y \in m.members,
                 x.pid = y.pid
          PROVE  k = m /\ x = y
      <3>1. \A j \in d.pending : \A q \in j.members : q \in Members(d)
        BY DEF Members
      <3>. HIDE DEF l
      <3>2. CASE k \in d.pending /\ m \in d.pending
        BY <2>1, <2>2, <3>2 DEF KeptApart
      <3>3. CASE k = l /\ m = l
        BY <1>1, <3>3
      <3>4. CASE k = l /\ m \in d.pending
        BY <1>1, <2>2, <3>1, <3>4
      <3>5. CASE m = l /\ k \in d.pending
        BY <1>1, <2>2, <3>1, <3>5
      <3>. QED BY <3>2, <3>3, <3>4, <3>5
    <2>. HIDE DEF L, f
    <2>. QED BY <1>3, <1>5, <1>6, <2>1, <2>2 DEF KeptApart
  <1>. QED BY <1>3, <1>4, <1>5, <1>7, <1>6 DEF Kept, Began

(* A launch that is joined waits on, never past its cap.                    *)
LEMMA JoinedIsALaunch ==
    ASSUME NEW l \in Launches, NEW p \in started
    PROVE  /\ Joined(l, p) \in Launches /\ Joined(l, p).members = l.members \cup {p}
           /\ Joined(l, p).quiet <= Joined(l, p).cap /\ Joined(l, p).cap = l.cap
  <1>. DEFINE Q == IF QuietPeriod < l.cap THEN QuietPeriod ELSE l.cap
              M == l.members \cup {p}
  <1>1. Joined(l, p) = [quiet |-> Q, cap |-> l.cap, members |-> M]
    <2>1. Joined(l, p) = [l EXCEPT !.members = M, !.quiet = Q]
      BY DEF Joined, Launches
    <2>2. l \in [quiet : 0..QuietPeriod, cap : 0..MaxLaunchWindow,
                 members : (SUBSET started) \ {{}}]
      BY DEF Launches
    <2>. HIDE DEF M, Q
    <2>. QED BY <2>1, <2>2
  <1>2. l.cap \in 0..MaxLaunchWindow /\ M \in (SUBSET started) \ {{}}
    BY DEF Launches
  <1>3. Q \in 0..QuietPeriod /\ Q <= l.cap
    BY <1>2, ConfigAssumption
  <1>. HIDE DEF Q, M
  <1>4. /\ Joined(l, p) \in Launches /\ Joined(l, p).members = M
        /\ Joined(l, p).quiet = Q /\ Joined(l, p).cap = l.cap
    BY <1>1, <1>2, <1>3 DEF Launches
  <1>. QED BY <1>3, <1>4 DEF M

(* The launch of the parent, of which there is one.                         *)
LEMMA JoinedTheParent ==
    ASSUME NEW d, Kept(d), NEW p \in started, IsPending(d, p.parent),
           p \notin Exiting(d), \A q \in d.live \cup Members(d) : q.pid # p.pid
    PROVE  Began(d, JoinLaunch(d, p), p)
  <1>. DEFINE Then(l) == IF Collects(l, p.parent) THEN Joined(l, p) ELSE l
              L == {Then(l) : l \in d.pending}
              f == JoinLaunch(d, p)
  <1>1. f = [d EXCEPT !.pending = L] /\ d \in Debouncers /\ KeptApart(d)
    BY DEF JoinLaunch, Kept
  <1>2. f.pending = L /\ f.live = d.live /\ f.exiting = d.exiting
    <2>. HIDE DEF L, f
    <2>. QED BY <1>1 DEF Debouncers
  <1>3. PICK home \in d.pending : Collects(home, p.parent)
    BY DEF IsPending, PidsOf, Members, Collects
  <1>4. \A l \in d.pending : l # home => ~Collects(l, p.parent)
    <2>1. PICK x \in home.members : x.pid = p.parent
      BY <1>3 DEF Collects, PidsOf
    <2>2. ASSUME NEW l \in d.pending, Collects(l, p.parent) PROVE l = home
      <3>1. PICK y \in l.members : y.pid = p.parent
        BY <2>2 DEF Collects, PidsOf
      <3>. QED BY <1>1, <2>1, <3>1 DEF KeptApart
    <2>. QED BY <2>2
  <1>. DEFINE new == Joined(home, p)
  <1>5. new \in Launches /\ new.members = home.members \cup {p}
    BY <1>1, JoinedIsALaunch DEF Debouncers
  <1>6. L = (d.pending \ {home}) \cup {new}
    <2>1. Then(home) = new /\ \A l \in d.pending : l # home => Then(l) = l
      BY <1>3, <1>4
    <2>. HIDE DEF Then, new
    <2>. QED BY <2>1
  <1>. HIDE DEF L, new, f, Then
  <1>7. f \in Debouncers
    <2>1. d.pending \subseteq Launches
      BY <1>1 DEF Debouncers
    <2>2. L \subseteq Launches
      BY <1>5, <1>6, <2>1
    <2>. QED BY <1>1, <2>2 DEF Debouncers
  <1>8. Members(f) = Members(d) \cup {p}
    <2>1. Members(f) = UNION {l.members : l \in L}
      BY <1>2 DEF Members
    <2>2. ASSUME NEW m \in Members(f) PROVE m \in Members(d) \cup {p}
      BY <1>5, <1>6, <2>1 DEF Members
    <2>3. ASSUME NEW m \in Members(d) PROVE m \in Members(f)
      <3>1. PICK l \in d.pending : m \in l.members
        BY DEF Members
      <3>2. CASE l = home
        BY <1>5, <1>6, <2>1, <3>1, <3>2
      <3>3. CASE l # home
        BY <1>6, <2>1, <3>1, <3>3
      <3>. QED BY <3>2, <3>3
    <2>4. p \in Members(f)
      BY <1>5, <1>6, <2>1
    <2>. QED BY <2>2, <2>3, <2>4
  <1>9. Exiting(f) = Exiting(d)
    BY <1>2 DEF Exiting
  <1>10. KeptApart(f)
    <2>1. ASSUME NEW k \in L, NEW m \in L, NEW x \in k.members, NEW y \in m.members,
                 x.pid = y.pid
          PROVE  k = m /\ x = y
      <3>1. \A j \in d.pending : \A q \in j.members : q.pid # p.pid
        BY DEF Members
      <3>2. CASE k \in d.pending /\ m \in d.pending
        BY <1>1, <2>1, <3>2 DEF KeptApart
      <3>3. CASE k = new /\ m = new
        BY <1>1, <1>5, <2>1, <3>1, <3>3 DEF KeptApart
      <3>4. CASE k = new /\ m \in d.pending \ {home}
        BY <1>1, <1>5, <2>1, <3>1, <3>4 DEF KeptApart
      <3>5. CASE m = new /\ k \in d.pending \ {home}
        BY <1>1, <1>5, <2>1, <3>1, <3>5 DEF KeptApart
      <3>. QED BY <1>6, <3>2, <3>3, <3>4, <3>5
    <2>. QED BY <1>1, <1>2, <1>8, <1>9, <2>1 DEF KeptApart
  <1>11. Began(d, f, p)
    BY <1>2, <1>7, <1>8, <1>10, <1>9 DEF Kept, Began
  <1>. QED BY <1>11 DEF f

(* observe_start: the id's former process goes, the new one is collected.   *)
LEMMA StartObserved ==
    ASSUME NEW d, Kept(d), NEW p \in started, p \notin d.live \cup Exiting(d)
    PROVE  LET e == ObserveStart(d, p) IN
           /\ Kept(e)
           /\ e.live = {q \in d.live : q.pid # p.pid}
           /\ Members(e) = {m \in Members(d) : m.pid # p.pid} \cup {p}
           /\ Exiting(e) = Exiting(d) \cup {q \in d.live : q.pid = p.pid}
  <1>. DEFINE r == Retire(d, p.pid)
              e == ObserveStart(d, p)
  <1>1. Gone(d, r, p.pid)
    BY Retired
  <1>2. e = IF IsPending(r, p.parent) THEN JoinLaunch(r, p) ELSE OpenLaunch(r, p)
    BY DEF ObserveStart
  <1>3. Kept(r) /\ p \notin Exiting(r) /\ \A q \in r.live \cup Members(r) : q.pid # p.pid
    <2>. HIDE DEF r
    <2>. QED BY <1>1 DEF Gone
  <1>4. Began(r, e, p)
    <2>. HIDE DEF r, e
    <2>. QED BY <1>2, <1>3, Opened, JoinedTheParent
  <1>. HIDE DEF r, e
  <1>5. /\ Kept(e)
        /\ e.live = {q \in d.live : q.pid # p.pid}
        /\ Members(e) = {m \in Members(d) : m.pid # p.pid} \cup {p}
        /\ Exiting(e) = Exiting(d) \cup {q \in d.live : q.pid = p.pid}
    BY <1>1, <1>4 DEF Gone, Began
  <1>. QED BY <1>5 DEF e

(* What is due leaves, and nothing else does; a launch becomes believed.    *)
LEMMA WasDrained ==
    ASSUME NEW d, Kept(d)
    PROVE  LET e == Drained(d) IN
           /\ Kept(e)
           /\ e.live = d.live \cup Launching(d)
           /\ Members(e) = Members(d) \ Launching(d)
           /\ Exiting(e) = Exiting(d) \ {x.process : x \in DueExits(d)}
           /\ Launching(d) \subseteq Members(d)
  <1>. DEFINE e == Drained(d)
              V == {p \in d.live : p.pid \notin PidsOf(Launching(d))} \cup Launching(d)
  <1>1. d \in Debouncers /\ KeptApart(d)
    BY DEF Kept
  <1>2. /\ e.pending = d.pending \ DueLaunches(d) /\ e.live = V
        /\ e.exiting = d.exiting \ DueExits(d)
    BY DEF Drained
  <1>3. DueLaunches(d) \subseteq d.pending /\ Launching(d) \subseteq Members(d)
    BY DEF DueLaunches, Launching, Members
  <1>4. V = d.live \cup Launching(d)
    BY <1>1, <1>3 DEF KeptApart, PidsOf
  <1>5. ASSUME NEW l \in DueLaunches(d), NEW m \in d.pending \ DueLaunches(d),
               NEW p \in l.members, NEW q \in m.members
        PROVE  p.pid # q.pid
    BY <1>1, <1>3 DEF KeptApart
  <1>6. Members(e) = Members(d) \ Launching(d)
    <2>1. Members(e) = UNION {l.members : l \in d.pending \ DueLaunches(d)}
      BY <1>2 DEF Members
    <2>2. ASSUME NEW x \in Members(e) PROVE x \in Members(d) \ Launching(d)
      <3>1. PICK m \in d.pending \ DueLaunches(d) : x \in m.members
        BY <2>1, <2>2
      <3>2. x \notin Launching(d)
        BY <1>5, <3>1 DEF Launching
      <3>. QED BY <3>1, <3>2 DEF Members
    <2>3. ASSUME NEW x \in Members(d) \ Launching(d) PROVE x \in Members(e)
      BY <2>1, <2>3 DEF Members, Launching
    <2>. QED BY <2>2, <2>3
  <1>. HIDE DEF V
  <1>7. e \in Debouncers
    <2>1. /\ d.pending \in SUBSET Launches /\ d.live \in SUBSET started
          /\ d.exiting \in SUBSET Exits
      BY <1>1 DEF Debouncers
    <2>2. Members(d) \subseteq started
      BY <2>1 DEF Members, Launches
    <2>3. V \in SUBSET started
      BY <1>3, <1>4, <2>1, <2>2
    <2>4. e = [pending |-> d.pending \ DueLaunches(d), live |-> V,
               exiting |-> d.exiting \ DueExits(d)]
      BY DEF Drained, V
    <2>. QED BY <2>1, <2>3, <2>4 DEF Debouncers
  <1>8. Exiting(e) = Exiting(d) \ {x.process : x \in DueExits(d)}
    <2>1. Exiting(e) = {x.process : x \in d.exiting \ DueExits(d)}
      BY <1>2 DEF Exiting
    <2>2. \A x, y \in d.exiting : x.process = y.process => x = y
      BY <1>1 DEF KeptApart
    <2>3. ASSUME NEW p
          PROVE  p \in Exiting(e) <=>
                    p \in Exiting(d) /\ ~\E x \in DueExits(d) : p = x.process
      BY <2>1, <2>2 DEF Exiting, DueExits
    <2>. HIDE DEF e
    <2>. QED BY <2>3
  <1>9. KeptApart(e)
    <2>1. ASSUME NEW p \in Launching(d), NEW q \in Members(d) \ Launching(d)
          PROVE  p.pid # q.pid
      <3>1. PICK l \in DueLaunches(d) : p \in l.members
        BY DEF Launching
      <3>2. PICK m \in d.pending : q \in m.members
        BY DEF Members
      <3>3. m \notin DueLaunches(d)
        BY <3>2 DEF Launching
      <3>. QED BY <1>5, <3>1, <3>2, <3>3
    <2>2. \A p, q \in d.live \cup Launching(d) : p.pid = q.pid => p = q
      <3>1. \A p, q \in Members(d) : p.pid = q.pid => p = q
        BY <1>1 DEF Members, KeptApart
      <3>. QED BY <1>1, <1>3, <3>1 DEF KeptApart
    <2>3. \A p \in d.live, q \in Members(d) : p.pid # q.pid
      BY <1>1 DEF KeptApart
    <2>4. \A l, m \in e.pending : \A p \in l.members, q \in m.members :
            p.pid = q.pid => l = m /\ p = q
      BY <1>1, <1>2 DEF KeptApart
    <2>5. \A x, y \in e.exiting : x.process = y.process => x = y
      BY <1>1, <1>2 DEF KeptApart
    <2>6. (e.live \cup Members(e)) \cap Exiting(e) = {}
      <3>1. (d.live \cup Members(d)) \cap Exiting(d) = {}
        BY <1>1 DEF KeptApart
      <3>. HIDE DEF e
      <3>. QED BY <1>2, <1>3, <1>4, <1>6, <1>8, <3>1
    <2>. HIDE DEF e
    <2>. QED BY <1>2, <1>4, <1>6, <2>1, <2>2, <2>3, <2>4, <2>5, <2>6 DEF KeptApart
  <1>. HIDE DEF e
  <1>10. /\ Kept(e) /\ e.live = d.live \cup Launching(d)
         /\ Members(e) = Members(d) \ Launching(d)
         /\ Exiting(e) = Exiting(d) \ {x.process : x \in DueExits(d)}
         /\ Launching(d) \subseteq Members(d)
    BY <1>2, <1>3, <1>4, <1>6, <1>7, <1>9, <1>8 DEF Kept
  <1>. QED BY <1>10 DEF e

(* A tick keeps a launch and those in it.                                   *)
LEMMA AgedIsALaunch ==
    ASSUME NEW l \in Launches
    PROVE  /\ Aged(l) \in Launches /\ Aged(l).members = l.members
           /\ Aged(l).quiet = Older(l.quiet) /\ Aged(l).cap = Older(l.cap)
  <1>1. Aged(l) = [quiet |-> Older(l.quiet), cap |-> Older(l.cap), members |-> l.members]
    <2>. DEFINE q == Older(l.quiet)
                c == Older(l.cap)
    <2>1. Aged(l) = [l EXCEPT !.quiet = q, !.cap = c]
      BY DEF Aged, Launches
    <2>2. l \in [quiet : 0..QuietPeriod, cap : 0..MaxLaunchWindow,
                 members : (SUBSET started) \ {{}}]
      BY DEF Launches
    <2>3. Aged(l) = [quiet |-> q, cap |-> c, members |-> l.members]
      <3>. HIDE DEF q, c
      <3>. QED BY <2>1, <2>2
    <2>. QED BY <2>3
  <1>2. /\ l.quiet \in 0..QuietPeriod /\ l.cap \in 0..MaxLaunchWindow
        /\ l.members \in (SUBSET started) \ {{}}
    BY DEF Launches
  <1>3. Older(l.quiet) \in 0..QuietPeriod /\ Older(l.cap) \in 0..MaxLaunchWindow
    BY <1>2, ConfigAssumption DEF Older
  <1>. QED BY <1>1, <1>2, <1>3 DEF Launches

(* A tick takes nothing from the debouncer and adds nothing to it.          *)
LEMMA TimePassed ==
    ASSUME NEW d, Kept(d), NEW e,
           e = [d EXCEPT !.pending = {Aged(l) : l \in @},
                         !.exiting = {[x EXCEPT !.settle = Older(@)] : x \in @}]
    PROVE  /\ Kept(e) /\ e.live = d.live /\ Members(e) = Members(d)
           /\ Exiting(e) = Exiting(d)
  <1>. DEFINE L == {Aged(l) : l \in d.pending}
              Then(x) == [x EXCEPT !.settle = Older(@)]
              X == {Then(x) : x \in d.exiting}
  <1>1. e = [d EXCEPT !.pending = L, !.exiting = X] /\ d \in Debouncers /\ KeptApart(d)
    BY DEF Kept
  <1>2. e.pending = L /\ e.live = d.live /\ e.exiting = X
    <2>. HIDE DEF L, X
    <2>. QED BY <1>1 DEF Debouncers
  <1>3. /\ d.pending \subseteq Launches /\ d.live \in SUBSET started
        /\ d.exiting \subseteq Exits
    BY <1>1 DEF Debouncers
  <1>4. \A l \in d.pending : Aged(l) \in Launches /\ Aged(l).members = l.members
    BY <1>3, AgedIsALaunch
  <1>5. \A x \in d.exiting : Then(x) \in Exits /\ Then(x).process = x.process
    <2>1. SUFFICES ASSUME NEW x \in d.exiting
                   PROVE  Then(x) \in Exits /\ Then(x).process = x.process
      OBVIOUS
    <2>2. x \in [process : started, settle : 0..ExitSettlePeriod]
      BY <1>3 DEF Exits
    <2>3. Older(x.settle) \in 0..ExitSettlePeriod
      BY <2>2, ConfigAssumption DEF Older
    <2>. QED BY <2>2, <2>3 DEF Exits
  <1>6. e \in Debouncers
    <2>1. L \subseteq Launches /\ X \subseteq Exits
      BY <1>4, <1>5
    <2>. HIDE DEF L, X
    <2>. QED BY <1>1, <1>3, <2>1 DEF Debouncers
  <1>7. Members(e) = Members(d)
    <2>1. Members(e) = UNION {l.members : l \in L}
      BY <1>2 DEF Members
    <2>. QED BY <1>4, <2>1 DEF Members
  <1>8. Exiting(e) = Exiting(d)
    <2>1. Exiting(e) = {x.process : x \in X}
      BY <1>2 DEF Exiting
    <2>2. \A y \in X : \E x \in d.exiting : y.process = x.process
      BY <1>5
    <2>3. \A x \in d.exiting : \E y \in X : y.process = x.process
      BY <1>5
    <2>. HIDE DEF X
    <2>4. ASSUME NEW p PROVE p \in Exiting(e) <=> p \in Exiting(d)
      BY <2>1, <2>2, <2>3 DEF Exiting
    <2>. QED BY <2>4
  <1>9. KeptApart(e)
    <2>1. ASSUME NEW k \in L, NEW m \in L, NEW p \in k.members, NEW q \in m.members,
                 p.pid = q.pid
          PROVE  k = m /\ p = q
      <3>1. PICK i \in d.pending : k = Aged(i) /\ p \in i.members
        BY <1>4
      <3>2. PICK j \in d.pending : m = Aged(j) /\ q \in j.members
        BY <1>4
      <3>3. i = j /\ p = q
        BY <1>1, <2>1, <3>1, <3>2 DEF KeptApart
      <3>. QED BY <3>1, <3>2, <3>3
    <2>2. ASSUME NEW x \in X, NEW y \in X, x.process = y.process PROVE x = y
      <3>1. PICK i \in d.exiting : x = Then(i) /\ x.process = i.process
        BY <1>5
      <3>2. PICK j \in d.exiting : y = Then(j) /\ y.process = j.process
        BY <1>5
      <3>3. i = j
        BY <1>1, <2>2, <3>1, <3>2 DEF KeptApart
      <3>. QED BY <3>1, <3>2, <3>3
    <2>. HIDE DEF L, X
    <2>. QED BY <1>1, <1>2, <1>7, <1>8, <2>1, <2>2 DEF KeptApart
  <1>. HIDE DEF L, X
  <1>. QED BY <1>2, <1>6, <1>7, <1>8, <1>9 DEF Kept

(* What the debouncer believes to run, and what was ever heard of.          *)
Believed == debouncer.live \cup Members(debouncer)
Heard == reported \cup AlreadyRunning

(* What is in the channel of a process, and of whatever has its id.          *)
Queued(p) == \E i \in 1..Len(channel) : channel[i] = Started(p)
Concerns(m, pid) ==
    m = Exited(pid) \/ \E p \in started : p.pid = pid /\ m = Started(p)

(* WatcherTypeOK but for the debouncer, whose type is part of Kept.         *)
Typed ==
    /\ alive \subseteq started /\ started \subseteq Processes
    /\ source \in Halves \cup {"none", "wmi", "polling", "stopped"}
    /\ saw \in [starts : SUBSET PidsOf(started), exits : SUBSET PidsOf(started)]
    /\ channel \in Seq(Messages)
    /\ running \subseteq started /\ reported \subseteq started
    /\ AlreadyRunning \subseteq started

(* The machine gives an id to one process at a time, the debouncer keeps it *)
(* in one place.                                                            *)
OnePerId == (\A p, q \in alive : p.pid = q.pid => p = q) /\ Kept(debouncer)

(* What waits to be reported gone is gone.                                  *)
GoneAreDead == Exiting(debouncer) \cap alive = {}

(* What is collected is news: no launch was reported of it.                 *)
NewsIsNew == Members(debouncer) \cap Heard = {}

(* What runs and was heard of is believed to run: nothing drops it.         *)
HeardAreLive == alive \cap Heard \subseteq debouncer.live

(* What runs and is believed, or on its way, the source has seen, so that it*)
(* does not announce it again.  No start is sent before the subscription to *)
(* starts stands, and nothing is taken before both do.                      *)
SeenAreKnown ==
    /\ source \notin {"none", "exits"} =>
          \A p \in alive : p \in Believed \/ Queued(p) => p.pid \in saw.starts
    /\ source \in {"none", "exits"} => \A p : ~Queued(p)
    /\ source = "none" => channel = <<>>
    /\ source \in {"none"} \cup Halves => Believed \subseteq AlreadyRunning

(* A start that is on its way is there once, and nobody accounts for it.    *)
StartsAreNew ==
    \A i \in 1..Len(channel) : \A p \in started : channel[i] = Started(p) =>
        /\ p \notin Believed \cup Exiting(debouncer) \cup Heard
        /\ \A j \in 1..Len(channel) : channel[j] = Started(p) => j = i

(* What the channel says of an id that has a new process comes before the   *)
(* start of that process, which is not believed yet: so no stale exit, and no*)
(* earlier start, retires it.                                               *)
OldFirst ==
    \A i \in 1..Len(channel) : \A q \in alive :
        Concerns(channel[i], q.pid) /\ channel[i] # Started(q) =>
            /\ q \notin Believed
            /\ \A j \in 1..Len(channel) : channel[j] = Started(q) => i < j

(* The inductive invariant.                                                 *)
IInv == /\ Typed /\ OnePerId /\ GoneAreDead /\ NewsIsNew /\ HeardAreLive
        /\ SeenAreKnown /\ StartsAreNew /\ OldFirst /\ ToldIsKept

(* A message says what it is of.                                            *)
LEMMA MessagesDiffer ==
    /\ \A p, q : Started(p) = Started(q) => p = q
    /\ \A a, b : Exited(a) = Exited(b) => a = b
    /\ \A p, a : Started(p) # Exited(a)
    /\ \A p : Started(p) # Lost
    /\ \A a : Exited(a) # Lost
  BY DEF Started, Exited, Lost

(* All the debouncer names has run.                                         *)
LEMMA MembersStarted ==
    ASSUME Kept(debouncer)
    PROVE  /\ Believed \subseteq started /\ Exiting(debouncer) \subseteq started
           /\ KnownPids(debouncer) \subseteq PidsOf(started)
           /\ PidsOf(Believed) \subseteq KnownPids(debouncer)
  <1>1. /\ debouncer.pending \subseteq Launches /\ debouncer.live \subseteq started
        /\ debouncer.exiting \subseteq Exits
    BY DEF Kept, Debouncers
  <1>2. Members(debouncer) \subseteq started
    BY <1>1 DEF Members, Launches
  <1>3. Exiting(debouncer) \subseteq started
    BY <1>1 DEF Exiting, Exits
  <1>. QED BY <1>1, <1>2, <1>3 DEF Believed, KnownPids, PidsOf

(* The baseline is believed, and nothing is on its way.                     *)
LEMMA InitInv == Init => IInv
  <1>. SUFFICES ASSUME Init PROVE IInv
    OBVIOUS
  <1>1. channel = <<>> /\ channel \in Seq(Messages) /\ Len(channel) = 0
    BY DEF Init
  <1>2. /\ debouncer.pending = {} /\ debouncer.live = AlreadyRunning
        /\ debouncer.exiting = {}
        /\ debouncer \in [pending : {{}}, live : {AlreadyRunning}, exiting : {{}}]
    BY DEF Init
  <1>3. Members(debouncer) = {} /\ Exiting(debouncer) = {}
    BY <1>2 DEF Members, Exiting
  <1>4. Typed
    <2>1. saw \in [starts : SUBSET PidsOf(started), exits : SUBSET PidsOf(started)]
      BY DEF Init
    <2>. QED BY <1>1, <2>1, ConfigAssumption DEF Typed, Init
  <1>5. OnePerId
    <2>1. debouncer \in Debouncers
      BY <1>2 DEF Debouncers, Init
    <2>. QED BY <1>2, <1>3, <2>1, ConfigAssumption DEF OnePerId, Kept, KeptApart, Init
  <1>6. GoneAreDead /\ NewsIsNew
    BY <1>3 DEF GoneAreDead, NewsIsNew
  <1>7. HeardAreLive
    BY <1>2 DEF HeardAreLive, Heard, Init
  <1>8. SeenAreKnown
    <2>1. source = "none" /\ Believed = AlreadyRunning
      BY <1>2, <1>3 DEF Believed, Init
    <2>2. \A p : ~Queued(p)
      BY <1>1 DEF Queued
    <2>. QED BY <1>1, <2>1, <2>2 DEF SeenAreKnown
  <1>9. StartsAreNew /\ OldFirst
    BY <1>1 DEF StartsAreNew, OldFirst
  <1>10. ToldIsKept
    BY <1>2, <1>3 DEF ToldIsKept, Init
  <1>. QED BY <1>4, <1>5, <1>6, <1>7, <1>8, <1>9, <1>10 DEF IInv

(* A process that starts is one more to choose from.                         *)
LEMMA StartedGrows ==
    ASSUME Kept(debouncer), started \subseteq started', UNCHANGED debouncer
    PROVE  Kept(debouncer)'
  <1>1. Launches \subseteq Launches'
    BY DEF Launches
  <1>2. Exits \subseteq Exits'
    BY DEF Exits
  <1>3. Debouncers \subseteq Debouncers'
    BY <1>1, <1>2 DEF Debouncers
  <1>4. Members(debouncer)' = Members(debouncer) /\ Exiting(debouncer)' = Exiting(debouncer)
    BY DEF Members, Exiting
  <1>5. KeptApart(debouncer)'
    BY <1>4 DEF Kept, KeptApart
  <1>. QED BY <1>3, <1>5 DEF Kept

(* A process starts under an id that is free, or exits.                     *)
LEMMA MachineKeeps ==
    ASSUME IInv, NEW p \in Processes, ProcessStarts(p) \/ ProcessExits(p)
    PROVE  IInv'
  <1>1. /\ UNCHANGED <<source, saw, channel, debouncer, running, reported>>
        /\ started \subseteq started' /\ started' \subseteq Processes
        /\ alive' \subseteq started'
    BY DEF ProcessStarts, ProcessExits, MachineStep, IInv, Typed
  <1>2. /\ Kept(debouncer) /\ Kept(debouncer)'
    BY <1>1, StartedGrows DEF IInv, OnePerId
  <1>3. /\ Believed' = Believed /\ Exiting(debouncer)' = Exiting(debouncer)
        /\ Members(debouncer)' = Members(debouncer) /\ Heard' = Heard
        /\ \A q : Queued(q)' = Queued(q)
    BY <1>1 DEF Believed, Members, Exiting, Heard, Queued
  <1>4. \A q \in started' \ started :
            q \notin Believed \cup Exiting(debouncer) \cup Heard /\ ~Queued(q)
    <2>1. Believed \cup Exiting(debouncer) \cup Heard \subseteq started
      BY <1>2, MembersStarted DEF Heard, IInv, Typed
    <2>2. \A q : Queued(q) => q \in started
      <3>1. SUFFICES ASSUME NEW q, NEW i \in 1..Len(channel), channel[i] = Started(q)
                     PROVE  q \in started
        BY DEF Queued
      <3>2. channel[i] \in Messages
        BY DEF IInv, Typed
      <3>. QED BY <3>1, <3>2, MessagesDiffer DEF Messages
    <2>. QED BY <2>1, <2>2
  <1>5. \A q \in alive' : q \in alive \/ q \in started' \ started
    BY DEF ProcessStarts, ProcessExits, IInv, Typed
  <1>6. Typed'
    <2>1. PidsOf(started) \subseteq PidsOf(started)'
      BY <1>1 DEF PidsOf
    <2>2. Messages \subseteq Messages'
      BY <1>1, <2>1 DEF Messages
    <2>3. channel' \in Seq(Messages')
      <3>1. channel \in Seq(Messages)
        BY DEF IInv, Typed
      <3>. QED BY <1>1, <2>2, <3>1
    <2>4. saw' \in [starts : SUBSET PidsOf(started)', exits : SUBSET PidsOf(started)']
      BY <1>1, <2>1 DEF IInv, Typed
    <2>. QED BY <1>1, <2>3, <2>4 DEF IInv, Typed
  <1>7. OnePerId'
    <2>1. \A q, r \in alive' : q.pid = r.pid => q = r
      BY DEF ProcessStarts, ProcessExits, PidsOf, IInv, OnePerId
    <2>. QED BY <1>2, <2>1 DEF OnePerId
  <1>8. GoneAreDead' /\ NewsIsNew' /\ HeardAreLive'
    BY <1>1, <1>3, <1>4, <1>5 DEF IInv, GoneAreDead, NewsIsNew, HeardAreLive
  <1>9. SeenAreKnown'
    BY <1>1, <1>3, <1>4, <1>5 DEF IInv, SeenAreKnown
  <1>10. StartsAreNew'
    <2>1. SUFFICES ASSUME NEW i \in 1..Len(channel), NEW q \in started',
                          channel[i] = Started(q)
                   PROVE  /\ q \notin Believed \cup Exiting(debouncer) \cup Heard
                          /\ \A j \in 1..Len(channel) : channel[j] = Started(q) => j = i
      BY <1>1, <1>3 DEF StartsAreNew
    <2>2. q \in started
      BY <1>4, <2>1 DEF Queued
    <2>. QED BY <2>1, <2>2 DEF IInv, StartsAreNew
  <1>11. OldFirst'
    <2>1. SUFFICES ASSUME NEW i \in 1..Len(channel), NEW q \in alive',
                          \/ channel[i] = Exited(q.pid)
                          \/ \E r \in started' : r.pid = q.pid /\ channel[i] = Started(r),
                          channel[i] # Started(q)
                   PROVE  /\ q \notin Believed
                          /\ \A j \in 1..Len(channel) : channel[j] = Started(q) => i < j
      BY <1>1, <1>3 DEF OldFirst, Concerns
    <2>2. CASE q \in started' \ started
      BY <1>4, <2>2 DEF Queued
    <2>3. CASE q \in alive
      <3>1. Concerns(channel[i], q.pid)
        <4>1. \A r \in started' : channel[i] = Started(r) => r \in started
          BY <1>4 DEF Queued
        <4>. QED BY <2>1, <4>1 DEF Concerns
      <3>. QED BY <2>1, <2>3, <3>1 DEF IInv, OldFirst
    <2>. QED BY <1>5, <2>2, <2>3
  <1>12. ToldIsKept'
    BY <1>1, <1>3 DEF IInv, ToldIsKept
  <1>. QED BY <1>6, <1>7, <1>8, <1>9, <1>10, <1>11, <1>12 DEF IInv

(* The sources.  What one sends goes behind what is there.                   *)
NewStart(m) == \E p \in alive : p.pid \notin saw.starts /\ m = Started(p)
NewExit(m) == \E pid \in PidsOf(started) \ PidsOf(alive) : m = Exited(pid)

Found(seq) ==
    /\ \A i \in 1..Len(seq) : NewStart(seq[i]) \/ NewExit(seq[i]) \/ seq[i] = Lost
    /\ \A p : \A i, j \in 1..Len(seq) :
          seq[i] = Started(p) /\ seq[j] = Started(p) => i = j

(* The table has finitely many ids, so a look has finitely many orders.     *)
LEMMA FinitePids == IsFiniteSet(PidsOf(Processes))
  <1>. DEFINE f == [p \in Processes |-> p.pid]
  <1>1. f \in Surjection(Processes, PidsOf(Processes))
    <2>1. f \in [Processes -> PidsOf(Processes)]
      BY DEF PidsOf
    <2>2. \A a \in PidsOf(Processes) : \E p \in Processes : f[p] = a
      BY DEF PidsOf
    <2>. QED BY <2>1, <2>2 DEF Surjection
  <1>. HIDE DEF f
  <1>. QED BY <1>1, FS_Surjection, ConfigAssumption

(* An order of a set names each element once.                               *)
LEMMA InSomeOrder ==
    ASSUME NEW S, IsFiniteSet(S), NEW f \in SetToSeqs(S)
    PROVE  /\ f \in Seq(S) /\ DOMAIN f = 1..Len(f)
           /\ \A i, j \in 1..Len(f) : f[i] = f[j] => i = j
  <1>1. Cardinality(S) \in Nat
    BY FS_CardinalityType
  <1>2. f \in [1..Cardinality(S) -> S]
    BY DEF SetToSeqs
  <1>3. f \in Seq(S) /\ Len(f) = Cardinality(S) /\ DOMAIN f = 1..Len(f)
    BY <1>1, <1>2
  <1>. QED BY <1>3 DEF SetToSeqs

(* A look for starts finds what runs and was not seen, each once.           *)
LEMMA StartsAreFound ==
    ASSUME IInv, NEW f \in StartsSeen
    PROVE  f \in Seq(Messages) /\ Found(f) /\ \A i \in 1..Len(f) : NewStart(f[i])
  <1>. DEFINE S == {p \in alive : p.pid \notin saw.starts}
  <1>1. PICK order \in SetToSeqs(S) : f = [i \in DOMAIN order |-> Started(order[i])]
    BY DEF StartsSeen
  <1>2. S \subseteq started /\ IsFiniteSet(S)
    <2>1. S \in SUBSET Processes /\ S \subseteq started
      BY DEF IInv, Typed
    <2>. HIDE DEF S
    <2>. QED BY <2>1, FS_Subset, ConfigAssumption
  <1>3. /\ order \in Seq(S) /\ DOMAIN order = 1..Len(order)
        /\ \A i, j \in 1..Len(order) : order[i] = order[j] => i = j
    <2>. HIDE DEF S
    <2>. QED BY <1>2, InSomeOrder
  <1>4. Len(order) \in Nat
    <2>. HIDE DEF S
    <2>. QED BY <1>3
  <1>5. \A i \in 1..Len(order) : order[i] \in S
    <2>. HIDE DEF S
    <2>. QED BY <1>3
  <1>6. f = [i \in 1..Len(order) |-> Started(order[i])]
    BY <1>1, <1>3
  <1>7. f \in Seq(Messages) /\ Len(f) = Len(order)
    <2>1. \A i \in 1..Len(order) : Started(order[i]) \in Messages
      BY <1>2, <1>5 DEF Messages
    <2>2. f \in [1..Len(order) -> Messages]
      BY <1>6, <2>1
    <2>. QED BY <1>4, <2>2
  <1>8. \A i \in 1..Len(f) : NewStart(f[i])
    BY <1>5, <1>6, <1>7 DEF NewStart
  <1>9. \A p : \A i, j \in 1..Len(f) : f[i] = Started(p) /\ f[j] = Started(p) => i = j
    BY <1>3, <1>6, <1>7, MessagesDiffer
  <1>. QED BY <1>7, <1>8, <1>9 DEF Found

(* A look for exits finds ids that nobody has.                              *)
LEMMA ExitsAreFound ==
    ASSUME IInv, NEW f \in ExitsSeen
    PROVE  f \in Seq(Messages) /\ Found(f) /\ \A i \in 1..Len(f) : NewExit(f[i])
  <1>. DEFINE S == saw.exits \ PidsOf(alive)
  <1>1. PICK order \in SetToSeqs(S) : f = [i \in DOMAIN order |-> Exited(order[i])]
    BY DEF ExitsSeen
  <1>2. S \subseteq PidsOf(started) \ PidsOf(alive) /\ IsFiniteSet(S)
    <2>1. saw.exits \in SUBSET PidsOf(started) /\ started \subseteq Processes
      BY DEF IInv, Typed
    <2>2. S \subseteq PidsOf(started) \ PidsOf(alive)
      BY <2>1
    <2>3. S \in SUBSET PidsOf(Processes)
      BY <2>1 DEF PidsOf
    <2>. HIDE DEF S
    <2>. QED BY <2>2, <2>3, FinitePids, FS_Subset
  <1>. HIDE DEF S
  <1>3. order \in Seq(S) /\ DOMAIN order = 1..Len(order)
    BY <1>2, InSomeOrder
  <1>4. Len(order) \in Nat /\ \A i \in 1..Len(order) : order[i] \in S
    BY <1>3
  <1>6. f = [i \in 1..Len(order) |-> Exited(order[i])]
    BY <1>1, <1>3
  <1>7. f \in Seq(Messages) /\ Len(f) = Len(order)
    <2>1. \A i \in 1..Len(order) : Exited(order[i]) \in Messages
      BY <1>2, <1>4 DEF Messages
    <2>2. f \in [1..Len(order) -> Messages]
      BY <1>6, <2>1
    <2>. QED BY <1>4, <2>2
  <1>8. \A i \in 1..Len(f) : NewExit(f[i])
    BY <1>2, <1>4, <1>6, <1>7 DEF NewExit
  <1>9. \A p : \A i, j \in 1..Len(f) : f[i] = Started(p) /\ f[j] = Started(p) => i = j
    BY <1>6, <1>7, MessagesDiffer
  <1>. QED BY <1>7, <1>8, <1>9 DEF Found

(* A source sends starts of processes nobody accounts for, and exits of ids  *)
(* nobody has.                                                               *)
LEMMA SourceKeeps ==
    ASSUME IInv, NEW f \in Seq(Messages), Found(f), channel' = channel \o f,
           UNCHANGED <<alive, started, debouncer, running, reported>>,
           source # "none", UNCHANGED source,
           saw' \in [starts : SUBSET PidsOf(started), exits : SUBSET PidsOf(started)],
           \/ source # "exits" /\ saw'.starts = PidsOf(alive)
           \/ saw'.starts = saw.starts /\ \A i \in 1..Len(f) : ~NewStart(f[i])
    PROVE  IInv'
  <1>1. /\ channel \in Seq(Messages) /\ Len(channel) \in Nat /\ Len(f) \in Nat
        /\ channel' \in Seq(Messages) /\ Len(channel') = Len(channel) + Len(f)
    BY DEF IInv, Typed
  <1>2. \A i \in 1..Len(channel) : channel'[i] = channel[i]
    BY <1>1
  <1>3. \A i \in 1..Len(channel') : ~(i <= Len(channel)) =>
            i - Len(channel) \in 1..Len(f) /\ channel'[i] = f[i - Len(channel)]
    BY <1>1
  <1>4. \A i \in 1..Len(channel') : i <= Len(channel) => i \in 1..Len(channel)
    BY <1>1
  <1>5. /\ Believed' = Believed /\ Exiting(debouncer)' = Exiting(debouncer)
        /\ Members(debouncer)' = Members(debouncer) /\ Heard' = Heard
    BY DEF Believed, Members, Exiting, Heard
  <1>6. Typed'
    <2>1. Messages' = Messages /\ PidsOf(started)' = PidsOf(started)
      BY DEF Messages, PidsOf
    <2>. QED BY <1>1, <2>1 DEF IInv, Typed
  <1>7. OnePerId'
    <2>1. Kept(debouncer)'
      BY StartedGrows DEF IInv, OnePerId
    <2>. QED BY <2>1 DEF IInv, OnePerId
  <1>8. GoneAreDead' /\ NewsIsNew' /\ HeardAreLive'
    BY <1>5 DEF IInv, GoneAreDead, NewsIsNew, HeardAreLive
  (* A process that was not seen is new.                                     *)
  <1>9. ASSUME source # "exits", NEW p \in alive, p.pid \notin saw.starts
        PROVE  p \notin Believed /\ ~Queued(p) /\ p \notin Exiting(debouncer)
               /\ p \notin Heard
    BY <1>9 DEF IInv, SeenAreKnown, GoneAreDead, HeardAreLive, Believed
  <1>10. SeenAreKnown'
    <2>1. CASE source # "exits" /\ saw'.starts = PidsOf(alive)
      BY <1>5, <2>1 DEF IInv, SeenAreKnown, PidsOf
    <2>2. CASE saw'.starts = saw.starts /\ \A i \in 1..Len(f) : ~NewStart(f[i])
      <3>1. ASSUME NEW p, Queued(p)' PROVE Queued(p)
        <4>1. PICK i \in 1..Len(channel') : channel'[i] = Started(p)
          BY <3>1 DEF Queued
        <4>2. CASE i <= Len(channel)
          BY <1>2, <1>4, <4>1, <4>2 DEF Queued
        <4>3. CASE ~(i <= Len(channel))
          <5>1. NewExit(Started(p)) \/ Started(p) = Lost
            BY <1>3, <2>2, <4>1, <4>3 DEF Found
          <5>. QED BY <5>1, MessagesDiffer DEF NewExit
        <4>. QED BY <4>2, <4>3
      <3>. QED BY <1>5, <2>2, <3>1 DEF IInv, SeenAreKnown
    <2>. QED BY <2>1, <2>2
  <1>11. StartsAreNew'
    <2>1. SUFFICES ASSUME NEW i \in 1..Len(channel'), NEW p \in started,
                          channel'[i] = Started(p)
                   PROVE  /\ p \notin Believed \cup Exiting(debouncer) \cup Heard
                          /\ \A j \in 1..Len(channel') : channel'[j] = Started(p) => j = i
      BY <1>5 DEF StartsAreNew
    <2>2. ASSUME NEW k \in 1..Len(channel'), channel'[k] = Started(p), ~(k <= Len(channel))
          PROVE  p \in alive /\ p.pid \notin saw.starts /\ ~Queued(p)
      <3>1. NewStart(Started(p)) \/ NewExit(Started(p)) \/ Started(p) = Lost
        BY <1>3, <2>2 DEF Found
      <3>2. NewStart(Started(p))
        BY <3>1, MessagesDiffer DEF NewExit
      <3>3. p \in alive /\ p.pid \notin saw.starts
        BY <3>2, MessagesDiffer DEF NewStart
      <3>4. source # "exits"
        BY <1>3, <2>2, <3>2
      <3>. QED BY <1>9, <3>3, <3>4
    <2>3. CASE i <= Len(channel)
      <3>1. Queued(p) /\ i \in 1..Len(channel) /\ channel[i] = Started(p)
        BY <1>2, <1>4, <2>1, <2>3 DEF Queued
      <3>2. \A j \in 1..Len(channel') : channel'[j] = Started(p) => j \in 1..Len(channel)
        BY <1>4, <2>2, <3>1
      <3>. QED BY <1>2, <3>1, <3>2 DEF IInv, StartsAreNew
    <2>4. CASE ~(i <= Len(channel))
      <3>1. p \in alive /\ p.pid \notin saw.starts /\ ~Queued(p)
        BY <2>1, <2>2, <2>4
      <3>2. ASSUME NEW j \in 1..Len(channel'), channel'[j] = Started(p) PROVE j = i
        <4>1. ~(j <= Len(channel))
          BY <1>2, <1>4, <3>1, <3>2 DEF Queued
        <4>2. j - Len(channel) = i - Len(channel)
          BY <1>3, <2>1, <2>4, <3>2, <4>1 DEF Found
        <4>. QED BY <1>1, <4>2
      <3>3. p \notin Believed \cup Exiting(debouncer) \cup Heard
        <4>1. source # "exits"
          <5>1. NewStart(f[i - Len(channel)]) \/ NewExit(f[i - Len(channel)])
                \/ f[i - Len(channel)] = Lost
            BY <1>3, <2>4 DEF Found
          <5>. QED BY <1>3, <2>1, <2>4, <5>1, MessagesDiffer DEF NewExit
        <4>. QED BY <1>9, <3>1, <4>1
      <3>. QED BY <3>2, <3>3
    <2>. QED BY <2>3, <2>4
  <1>12. OldFirst'
    <2>1. SUFFICES ASSUME NEW i \in 1..Len(channel'), NEW q \in alive,
                          Concerns(channel'[i], q.pid), channel'[i] # Started(q)
                   PROVE  /\ q \notin Believed
                          /\ \A j \in 1..Len(channel') : channel'[j] = Started(q) => i < j
      BY <1>5 DEF OldFirst, Concerns
    <2>2. i <= Len(channel)
      <3>1. SUFFICES ASSUME ~(i <= Len(channel)) PROVE FALSE
        OBVIOUS
      <3>2. NewStart(channel'[i]) \/ NewExit(channel'[i]) \/ channel'[i] = Lost
        BY <1>3, <3>1 DEF Found
      <3>3. CASE NewStart(channel'[i])
        BY <2>1, <3>3, MessagesDiffer DEF NewStart, Concerns, IInv, OnePerId
      <3>4. CASE NewExit(channel'[i])
        BY <2>1, <3>4, MessagesDiffer DEF NewExit, Concerns, PidsOf
      <3>5. CASE channel'[i] = Lost
        BY <2>1, <3>5, MessagesDiffer DEF Concerns
      <3>. QED BY <3>2, <3>3, <3>4, <3>5
    <2>3. i \in 1..Len(channel) /\ channel'[i] = channel[i]
      BY <1>2, <1>4, <2>2
    <2>4. q \notin Believed /\ \A j \in 1..Len(channel) : channel[j] = Started(q) => i < j
      BY <2>1, <2>3 DEF IInv, OldFirst
    <2>5. ASSUME NEW j \in 1..Len(channel'), channel'[j] = Started(q) PROVE i < j
      <3>1. CASE j <= Len(channel)
        BY <1>2, <1>4, <2>4, <2>5, <3>1
      <3>2. CASE ~(j <= Len(channel))
        BY <1>1, <2>2, <3>2
      <3>. QED BY <3>1, <3>2
    <2>. QED BY <2>4, <2>5
  <1>13. ToldIsKept'
    BY <1>5 DEF IInv, ToldIsKept
  <1>. QED BY <1>6, <1>7, <1>8, <1>10, <1>11, <1>12, <1>13 DEF IInv

(* What can be seen has run.                                                *)
LEMMA PidsArePids ==
    ASSUME IInv
    PROVE  /\ PidsOf(alive) \in SUBSET PidsOf(started)
           /\ PidsOf(AlreadyRunning) \in SUBSET PidsOf(started)
  BY DEF IInv, Typed, PidsOf

(* Each look, and the loss of the source, is such a step.                   *)
LEMMA LooksKeep ==
    ASSUME IInv, LookForStarts \/ LookForExits \/ PollTable \/ LoseSource
    PROVE  IInv'
  <1>. DEFINE Saws == [starts : SUBSET PidsOf(started), exits : SUBSET PidsOf(started)]
  <1>0. saw \in Saws /\ channel \in Seq(Messages)
    BY DEF IInv, Typed
  <1>1. CASE LookForStarts
    <2>1. PICK f \in StartsSeen : channel' = channel \o f
      BY <1>1 DEF LookForStarts
    <2>2. saw' \in Saws /\ saw'.starts = PidsOf(alive)
      <3>1. saw' = [saw EXCEPT !.starts = PidsOf(alive)]
        BY <1>1 DEF LookForStarts
      <3>. QED BY <1>0, <3>1, PidsArePids
    <2>. QED BY <1>1, <2>1, <2>2, StartsAreFound, SourceKeeps DEF LookForStarts, SourceStep
  <1>2. CASE LookForExits
    <2>1. PICK f \in ExitsSeen : channel' = channel \o f
      BY <1>2 DEF LookForExits
    <2>2. saw' \in Saws /\ saw'.starts = saw.starts
      <3>1. saw' = [saw EXCEPT !.exits = PidsOf(alive)]
        BY <1>2 DEF LookForExits
      <3>. QED BY <1>0, <3>1, PidsArePids
    <2>3. f \in Seq(Messages) /\ Found(f) /\ \A i \in 1..Len(f) : ~NewStart(f[i])
      BY ExitsAreFound, MessagesDiffer DEF NewStart, NewExit
    <2>. QED BY <1>2, <2>1, <2>2, <2>3, SourceKeeps DEF LookForExits, SourceStep
  <1>3. CASE PollTable
    <2>1. PICK b \in StartsSeen, x \in ExitsSeen : channel' = channel \o b \o x
      BY <1>3 DEF PollTable
    <2>. DEFINE f == b \o x
    <2>2. /\ b \in Seq(Messages) /\ Found(b) /\ x \in Seq(Messages)
          /\ \A i \in 1..Len(x) : NewExit(x[i])
      BY StartsAreFound, ExitsAreFound
    <2>3. /\ f \in Seq(Messages) /\ Len(b) \in Nat /\ Len(x) \in Nat
          /\ Len(f) = Len(b) + Len(x)
      BY <2>2
    <2>4. ASSUME NEW i \in 1..Len(f)
          PROVE  \/ i \in 1..Len(b) /\ f[i] = b[i]
                 \/ i - Len(b) \in 1..Len(x) /\ f[i] = x[i - Len(b)]
      BY <2>2, <2>3
    <2>5. channel' = channel \o f
      BY <1>0, <2>1, <2>2
    <2>6. Found(f)
      <3>. HIDE DEF f
      <3>1. ASSUME NEW i \in 1..Len(f)
            PROVE  NewStart(f[i]) \/ NewExit(f[i]) \/ f[i] = Lost
        BY <2>2, <2>4 DEF Found
      <3>2. ASSUME NEW p, NEW i \in 1..Len(f), f[i] = Started(p)
            PROVE  i \in 1..Len(b) /\ b[i] = Started(p)
        <4>1. ~(i - Len(b) \in 1..Len(x) /\ f[i] = x[i - Len(b)])
          <5>1. \A j \in 1..Len(x) : x[j] # Started(p)
            BY <2>2, MessagesDiffer DEF NewExit
          <5>. QED BY <3>2, <5>1
        <4>. QED BY <2>4, <3>2, <4>1
      <3>. QED BY <2>2, <3>1, <3>2 DEF Found
    <2>7. saw' \in Saws /\ saw'.starts = PidsOf(alive)
      BY <1>3, PidsArePids DEF PollTable
    <2>. HIDE DEF f
    <2>. QED BY <1>3, <2>3, <2>5, <2>6, <2>7, SourceKeeps DEF PollTable, SourceStep
  <1>4. CASE LoseSource
    <2>. DEFINE f == <<Lost>>
    <2>1. f \in Seq(Messages) /\ Len(f) = 1 /\ f[1] = Lost
      BY DEF Messages
    <2>2. channel' = channel \o f
      BY <1>0, <1>4, <2>1 DEF LoseSource
    <2>. HIDE DEF f
    <2>3. Found(f) /\ \A i \in 1..Len(f) : ~NewStart(f[i])
      BY <2>1, MessagesDiffer DEF Found, NewStart
    <2>. QED BY <1>0, <1>4, <2>1, <2>2, <2>3, SourceKeeps DEF LoseSource, SourceStep
  <1>. QED BY <1>1, <1>2, <1>3, <1>4

(* The channel is empty: all depends on what the new source is told.         *)
LEMMA EmptyChannelKeeps ==
    ASSUME IInv, channel' = <<>>,
           UNCHANGED <<alive, started, debouncer, running, reported>>,
           source' \in {"polling", "stopped"},
           saw' \in [starts : SUBSET PidsOf(started), exits : SUBSET PidsOf(started)],
           \A p \in alive \cap Believed : p.pid \in saw'.starts
    PROVE  IInv'
  <1>1. channel' \in Seq(Messages) /\ Len(channel') = 0
    OBVIOUS
  <1>2. /\ Believed' = Believed /\ Exiting(debouncer)' = Exiting(debouncer)
        /\ Members(debouncer)' = Members(debouncer) /\ Heard' = Heard
    BY DEF Believed, Members, Exiting, Heard
  <1>3. Typed'
    <2>1. Messages' = Messages /\ PidsOf(started)' = PidsOf(started)
      BY DEF Messages, PidsOf
    <2>. QED BY <1>1, <2>1 DEF IInv, Typed
  <1>4. OnePerId'
    <2>1. Kept(debouncer)'
      BY StartedGrows DEF IInv, OnePerId
    <2>. QED BY <2>1 DEF IInv, OnePerId
  <1>5. GoneAreDead' /\ NewsIsNew' /\ HeardAreLive'
    BY <1>2 DEF IInv, GoneAreDead, NewsIsNew, HeardAreLive
  <1>6. SeenAreKnown'
    <2>1. \A p : ~Queued(p)'
      BY <1>1 DEF Queued
    <2>. QED BY <1>2, <2>1 DEF SeenAreKnown, Halves
  <1>7. StartsAreNew' /\ OldFirst'
    BY <1>1 DEF StartsAreNew, OldFirst
  <1>8. ToldIsKept'
    BY <1>2 DEF IInv, ToldIsKept
  <1>. QED BY <1>3, <1>4, <1>5, <1>6, <1>7, <1>8 DEF IInv

(* A subscription that stands sees the table as it is.                      *)
LEMMA SubscriptionKeeps ==
    ASSUME IInv, NEW half \in Halves, Subscribe(half) PROVE IInv'
  <1>1. /\ UNCHANGED <<alive, started, channel, debouncer, running, reported>>
        /\ source \in {"none"} \cup (Halves \ {half})
        /\ source' = IF source = "none" THEN half ELSE "wmi"
        /\ saw' = [saw EXCEPT ![half] = PidsOf(alive)]
    BY DEF Subscribe, SourceStep
  <1>2. /\ Believed' = Believed /\ Exiting(debouncer)' = Exiting(debouncer)
        /\ Members(debouncer)' = Members(debouncer) /\ Heard' = Heard
        /\ \A q : Queued(q)' = Queued(q)
        /\ \A m, pid : Concerns(m, pid)' = Concerns(m, pid)
    BY <1>1 DEF Believed, Members, Exiting, Heard, Queued, Concerns
  <1>3. /\ saw' \in [starts : SUBSET PidsOf(started), exits : SUBSET PidsOf(started)]
        /\ half = "starts" => saw'.starts = PidsOf(alive)
        /\ half = "exits" => saw'.starts = saw.starts
    BY <1>1, PidsArePids DEF IInv, Typed, Halves
  <1>4. Typed'
    <2>1. Messages' = Messages /\ PidsOf(started)' = PidsOf(started)
      BY <1>1 DEF Messages, PidsOf
    <2>. QED BY <1>1, <1>3, <2>1 DEF IInv, Typed, Halves
  <1>5. OnePerId'
    <2>1. Kept(debouncer)'
      BY <1>1, StartedGrows DEF IInv, OnePerId
    <2>. QED BY <1>1, <2>1 DEF IInv, OnePerId
  <1>6. GoneAreDead' /\ NewsIsNew' /\ HeardAreLive'
    BY <1>1, <1>2 DEF IInv, GoneAreDead, NewsIsNew, HeardAreLive
  <1>7. SeenAreKnown'
    <2>1. CASE half = "starts"
      BY <1>1, <1>2, <1>3, <2>1 DEF IInv, SeenAreKnown, PidsOf, Halves
    <2>2. CASE half = "exits"
      BY <1>1, <1>2, <1>3, <2>2 DEF IInv, SeenAreKnown, Halves
    <2>. QED BY <2>1, <2>2 DEF Halves
  <1>8. StartsAreNew' /\ OldFirst'
    BY <1>1, <1>2 DEF IInv, StartsAreNew, OldFirst
  <1>9. ToldIsKept'
    BY <1>1, <1>2 DEF IInv, ToldIsKept
  <1>. QED BY <1>4, <1>5, <1>6, <1>7, <1>8, <1>9 DEF IInv

(* The poller that starts is told the baseline; one that replaces a source  *)
(* is told what the watcher accounts for, and that is enough.               *)
LEMMA NewSourceKeeps ==
    ASSUME IInv, StartSource \/ ReplaceSource PROVE IInv'
  <1>1. CASE StartPolling
    <2>1. channel' = <<>> /\ Believed \subseteq AlreadyRunning
      BY <1>1 DEF StartPolling, IInv, SeenAreKnown
    <2>2. /\ saw' \in [starts : SUBSET PidsOf(started), exits : SUBSET PidsOf(started)]
          /\ saw'.starts = PidsOf(AlreadyRunning)
          /\ source' \in {"polling", "stopped"}
      BY <1>1, PidsArePids DEF StartPolling
    <2>3. \A p \in alive \cap Believed : p.pid \in saw'.starts
      BY <2>1, <2>2 DEF PidsOf
    <2>. QED BY <1>1, <2>1, <2>2, <2>3, EmptyChannelKeeps DEF StartPolling, SourceStep
  <1>2. CASE ReplaceSource
    <2>1. /\ KnownPids(debouncer) \in SUBSET PidsOf(started)
          /\ \A p \in Believed : p.pid \in KnownPids(debouncer)
      BY MembersStarted DEF IInv, OnePerId, PidsOf
    <2>2. /\ saw' \in [starts : SUBSET PidsOf(started), exits : SUBSET PidsOf(started)]
          /\ saw'.starts = KnownPids(debouncer)
          /\ source' \in {"polling", "stopped"}
      BY <1>2, <2>1 DEF ReplaceSource
    <2>. QED BY <1>2, <2>1, <2>2, EmptyChannelKeeps DEF ReplaceSource, WatcherStep
  <1>. QED BY <1>1, <1>2, SubscriptionKeeps DEF StartSource

(* A message is taken: the others move up.                                   *)
LEMMA TheRest ==
    ASSUME IInv, channel # <<>>, channel' = Tail(channel)
    PROVE  /\ channel' \in Seq(Messages) /\ Len(channel) \in Nat
           /\ Len(channel') = Len(channel) - 1
           /\ 1 \in 1..Len(channel) /\ Head(channel) = channel[1]
           /\ \A i \in 1..Len(channel') :
                 i + 1 \in 1..Len(channel) /\ channel'[i] = channel[i + 1] /\ i + 1 # 1
  <1>1. channel \in Seq(Messages)
    BY DEF IInv, Typed
  <1>2. /\ channel' \in Seq(Messages) /\ Len(channel') = Len(channel) - 1
        /\ Len(channel) \in Nat /\ Len(channel) # 0 /\ Head(channel) = channel[1]
    BY <1>1
  <1>3. \A i \in 1..Len(channel') : channel'[i] = channel[i + 1]
    BY <1>1, <1>2
  <1>. QED BY <1>2, <1>3

(* What is left of the channel is as it was but for `new`, the process that  *)
(* was at its head, if any; whatever had an id that is free is gone.         *)
LEMMA TakingKeeps ==
    ASSUME IInv, channel # <<>>, channel' = Tail(channel), source \notin Halves,
           UNCHANGED <<alive, started, source, saw, running, reported>>,
           NEW pid, Concerns(channel[1], pid),
           NEW new \in SUBSET started,
           \A p \in new : channel[1] = Started(p) /\ p.pid = pid,
           \A p : channel[1] = Started(p) => p \in new,
           Kept(debouncer'),
           debouncer'.live = {q \in debouncer.live : q.pid # pid},
           Members(debouncer') = {q \in Members(debouncer) : q.pid # pid} \cup new,
           Exiting(debouncer') = Exiting(debouncer) \cup {q \in debouncer.live : q.pid = pid}
    PROVE  IInv'
  <1>0. /\ channel' \in Seq(Messages) /\ Len(channel) \in Nat
        /\ Len(channel') = Len(channel) - 1
        /\ 1 \in 1..Len(channel)
        /\ \A i \in 1..Len(channel') :
              i + 1 \in 1..Len(channel) /\ channel'[i] = channel[i + 1] /\ i + 1 # 1
    BY TheRest
  <1>1. Heard' = Heard /\ Believed' \subseteq Believed \cup new
    BY DEF Heard, Believed
  <1>2. Typed'
    <2>1. Messages' = Messages /\ PidsOf(started)' = PidsOf(started)
      BY DEF Messages, PidsOf
    <2>. QED BY <1>0, <2>1 DEF IInv, Typed
  <1>3. OnePerId'
    <2>1. Kept(debouncer)'
      <3>1. Launches' = Launches
        BY DEF Launches
      <3>2. Exits' = Exits
        BY DEF Exits
      <3>3. Debouncers' = Debouncers
        BY <3>1, <3>2 DEF Debouncers
      <3>. QED BY <3>3 DEF Kept, KeptApart, Members, Exiting
    <2>. QED BY <2>1 DEF IInv, OnePerId
  (* Of what runs, only what was at the head can have the id.                *)
  <1>4. \A q \in alive \cap Believed : q.pid # pid
    <2>1. SUFFICES ASSUME NEW q \in alive, q \in Believed, q.pid = pid PROVE FALSE
      OBVIOUS
    <2>2. CASE channel[1] = Started(q)
      <3>1. q \in started
        BY DEF IInv, Typed
      <3>. QED BY <1>0, <2>1, <2>2, <3>1 DEF IInv, StartsAreNew
    <2>3. CASE channel[1] # Started(q)
      BY <1>0, <2>1, <2>3 DEF IInv, OldFirst
    <2>. QED BY <2>2, <2>3
  <1>5. GoneAreDead'
    BY <1>4 DEF IInv, GoneAreDead, Believed, Exiting
  <1>6. NewsIsNew'
    <2>1. \A p \in new : p \notin Heard
      BY <1>0 DEF IInv, StartsAreNew
    <2>. QED BY <1>1, <2>1 DEF IInv, NewsIsNew, Members
  <1>7. HeardAreLive'
    BY <1>1, <1>4 DEF IInv, HeardAreLive, Believed
  <1>8. \A p : Queued(p)' => Queued(p)
    BY <1>0 DEF Queued
  <1>9. SeenAreKnown'
    <2>1. source \notin {"none", "exits"} /\ source \notin {"none"} \cup Halves
      BY DEF IInv, SeenAreKnown, Halves
    <2>2. \A p \in new : Queued(p)
      BY <1>0 DEF Queued
    <2>. QED BY <1>1, <1>8, <2>1, <2>2 DEF IInv, SeenAreKnown
  <1>10. StartsAreNew'
    <2>1. SUFFICES ASSUME NEW i \in 1..Len(channel'), NEW p \in started,
                          channel'[i] = Started(p)
                   PROVE  /\ p \notin (Believed \cup Exiting(debouncer))' \cup Heard
                          /\ \A j \in 1..Len(channel') : channel'[j] = Started(p) => j = i
      BY <1>1 DEF StartsAreNew
    <2>2. /\ channel[i + 1] = Started(p) /\ i + 1 \in 1..Len(channel) /\ i + 1 # 1
      BY <1>0, <2>1
    <2>3. /\ p \notin Believed \cup Exiting(debouncer) \cup Heard
          /\ \A j \in 1..Len(channel) : channel[j] = Started(p) => j = i + 1
      BY <2>2 DEF IInv, StartsAreNew
    <2>4. p \notin new
      BY <1>0, <2>2, <2>3
    <2>5. p \notin Exiting(debouncer')
      BY <2>3 DEF Believed
    <2>6. ASSUME NEW j \in 1..Len(channel'), channel'[j] = Started(p) PROVE j = i
      <3>1. j + 1 = i + 1
        BY <1>0, <2>3, <2>6
      <3>. QED BY <1>0, <3>1
    <2>7. Exiting(debouncer)' = Exiting(debouncer')
      BY DEF Exiting
    <2>. QED BY <1>1, <2>3, <2>4, <2>5, <2>6, <2>7
  <1>11. OldFirst'
    <2>1. SUFFICES ASSUME NEW i \in 1..Len(channel'), NEW q \in alive,
                          Concerns(channel'[i], q.pid), channel'[i] # Started(q)
                   PROVE  /\ q \notin Believed'
                          /\ \A j \in 1..Len(channel') : channel'[j] = Started(q) => i < j
      BY DEF OldFirst, Concerns
    <2>2. i + 1 \in 1..Len(channel) /\ channel'[i] = channel[i + 1]
      BY <1>0
    <2>3. /\ q \notin Believed
          /\ \A j \in 1..Len(channel) : channel[j] = Started(q) => i + 1 < j
      BY <2>1, <2>2 DEF IInv, OldFirst
    <2>4. q \notin new
      <3>1. channel[1] # Started(q)
        BY <1>0, <2>2, <2>3
      <3>. QED BY <3>1
    <2>5. ASSUME NEW j \in 1..Len(channel'), channel'[j] = Started(q) PROVE i < j
      <3>1. i + 1 < j + 1
        BY <1>0, <2>3, <2>5
      <3>. QED BY <1>0, <3>1
    <2>. QED BY <1>1, <2>3, <2>4, <2>5
  <1>12. ToldIsKept'
    <2>1. Exiting(debouncer)' = Exiting(debouncer')
      BY DEF Exiting
    <2>. QED BY <2>1 DEF IInv, ToldIsKept
  <1>. QED BY <1>2, <1>3, <1>5, <1>6, <1>7, <1>9, <1>10, <1>11, <1>12 DEF IInv

(* The watcher's two kinds of message, taken by ObserveStart and ObserveExit.*)
LEMMA TakeEventKeeps == ASSUME IInv, TakeEvent PROVE IInv'
  <1>1. /\ channel # <<>> /\ channel' = Tail(channel) /\ Head(channel) # Lost
        /\ source \notin Halves
        /\ UNCHANGED <<alive, started, source, saw, running, reported>>
    BY DEF TakeEvent, WatcherStep
  <1>2. Head(channel) = channel[1] /\ channel[1] \in Messages /\ Kept(debouncer)
    <2>1. channel \in Seq(Messages)
      BY DEF IInv, Typed
    <2>. QED BY <1>1, <2>1, TheRest DEF IInv, OnePerId
  <1>3. CASE \E p \in started : channel[1] = Started(p)
    <2>1. PICK p \in started : channel[1] = Started(p)
      BY <1>3
    <2>2. debouncer' = ObserveStart(debouncer, p)
      BY <1>2, <2>1 DEF TakeEvent, Started
    <2>0. p \notin debouncer.live \cup Exiting(debouncer)
      BY <1>1, <2>1, TheRest DEF IInv, StartsAreNew, Believed
    <2>3. /\ Kept(debouncer')
          /\ debouncer'.live = {q \in debouncer.live : q.pid # p.pid}
          /\ Members(debouncer') = {q \in Members(debouncer) : q.pid # p.pid} \cup {p}
          /\ Exiting(debouncer')
                = Exiting(debouncer) \cup {q \in debouncer.live : q.pid = p.pid}
      BY <1>2, <2>0, <2>2, StartObserved
    <2>4. \A q : channel[1] = Started(q) => q = p
      BY <2>1, MessagesDiffer
    <2>5. Concerns(channel[1], p.pid)
      BY <2>1 DEF Concerns
    <2>6. /\ {p} \in SUBSET started
          /\ \A q \in {p} : channel[1] = Started(q) /\ q.pid = p.pid
          /\ \A q : channel[1] = Started(q) => q \in {p}
      BY <2>1, <2>4
    <2>. QED BY <1>1, <2>3, <2>5, <2>6, TakingKeeps
  <1>4. CASE \E pid : channel[1] = Exited(pid)
    <2>1. PICK pid : channel[1] = Exited(pid)
      BY <1>4
    <2>2. debouncer' = ObserveExit(debouncer, pid)
      BY <1>2, <2>1 DEF TakeEvent, Exited
    <2>3. /\ Kept(debouncer')
          /\ debouncer'.live = {q \in debouncer.live : q.pid # pid}
          /\ Members(debouncer') = {q \in Members(debouncer) : q.pid # pid} \cup {}
          /\ Exiting(debouncer')
                = Exiting(debouncer) \cup {q \in debouncer.live : q.pid = pid}
      BY <1>2, <2>2, ExitObserved DEF Gone
    <2>4. \A q : channel[1] # Started(q)
      BY <2>1, MessagesDiffer
    <2>5. Concerns(channel[1], pid)
      BY <2>1 DEF Concerns
    <2>6. {} \in SUBSET started
      OBVIOUS
    <2>. QED BY <1>1, <2>3, <2>4, <2>5, <2>6, TakingKeeps
  <1>. QED BY <1>1, <1>2, <1>3, <1>4 DEF Messages

(* Time, and what is reported: nothing of the channel changes.               *)
LEMMA ChannelStays ==
    ASSUME IInv, UNCHANGED <<alive, started, source, saw, channel>>,
           Believed' \subseteq Believed, Exiting(debouncer)' \subseteq Exiting(debouncer),
           Heard' \subseteq Heard \cup Believed
    PROVE  SeenAreKnown' /\ StartsAreNew' /\ OldFirst'
  <1>1. \A p : Queued(p)' <=> Queued(p)
    BY DEF Queued
  <1>2. SeenAreKnown'
    BY <1>1 DEF IInv, SeenAreKnown
  <1>3. StartsAreNew'
    BY DEF IInv, StartsAreNew
  <1>4. OldFirst'
    <2>1. \A m, pid : Concerns(m, pid)' <=> Concerns(m, pid)
      BY DEF Concerns
    <2>. QED BY <2>1 DEF IInv, OldFirst
  <1>. QED BY <1>2, <1>3, <1>4

(* What has run is as it was, and with it the debouncer's type.             *)
LEMMA KeptAsItIs ==
    ASSUME Kept(debouncer'), UNCHANGED started PROVE Kept(debouncer)'
  <1>1. Launches' = Launches
    BY DEF Launches
  <1>2. Exits' = Exits
    BY DEF Exits
  <1>3. Debouncers' = Debouncers
    BY <1>1, <1>2 DEF Debouncers
  <1>. QED BY <1>3 DEF Kept, KeptApart, Members, Exiting

(* The other types likewise.                                                *)
LEMMA TypesStay ==
    ASSUME IInv, UNCHANGED <<alive, started, source, saw, channel>>,
           running' \subseteq started, reported' \subseteq started
    PROVE  Typed'
  <1>1. Messages' = Messages /\ PidsOf(started)' = PidsOf(started)
    BY DEF Messages, PidsOf
  <1>. QED BY <1>1 DEF IInv, Typed

(* Time passes.                                                             *)
LEMMA TickKeeps == ASSUME IInv, Tick PROVE IInv'
  <1>1. UNCHANGED <<alive, started, source, saw, channel, running, reported>>
    BY DEF Tick, WatcherStep
  <1>2. /\ Kept(debouncer') /\ debouncer'.live = debouncer.live
        /\ Members(debouncer') = Members(debouncer)
        /\ Exiting(debouncer') = Exiting(debouncer)
    <2>1. Kept(debouncer)
      BY DEF IInv, OnePerId
    <2>2. debouncer' = [debouncer EXCEPT !.pending = {Aged(l) : l \in @},
                           !.exiting = {[x EXCEPT !.settle = Older(@)] : x \in @}]
      BY DEF Tick
    <2>. QED BY <2>1, <2>2, TimePassed
  <1>3. /\ Members(debouncer)' = Members(debouncer)
        /\ Exiting(debouncer)' = Exiting(debouncer)
    <2>1. Members(debouncer)' = Members(debouncer') /\ Exiting(debouncer)' = Exiting(debouncer')
      BY DEF Members, Exiting
    <2>. QED BY <1>2, <2>1
  <1>4. Believed' = Believed /\ Heard' = Heard
    BY <1>1, <1>2, <1>3 DEF Believed, Heard
  <1>5. Typed' /\ OnePerId'
    BY <1>1, <1>2, TypesStay, KeptAsItIs DEF IInv, Typed, OnePerId
  <1>6. GoneAreDead' /\ NewsIsNew' /\ HeardAreLive'
    BY <1>1, <1>2, <1>3, <1>4 DEF IInv, GoneAreDead, NewsIsNew, HeardAreLive
  <1>7. SeenAreKnown' /\ StartsAreNew' /\ OldFirst'
    BY <1>1, <1>3, <1>4, ChannelStays
  <1>8. ToldIsKept'
    BY <1>1, <1>2, <1>3 DEF IInv, ToldIsKept
  <1>. QED BY <1>5, <1>6, <1>7, <1>8 DEF IInv

(* What is due is reported: launches become believed, exits leave.          *)
LEMMA DrainKeeps == ASSUME IInv, Drain PROVE IInv'
  <1>. DEFINE now == Launching(debouncer)
              over == {e.process : e \in DueExits(debouncer)}
  <1>1. /\ UNCHANGED <<alive, started, source, saw, channel>>
        /\ reported' = reported \cup now
        /\ running' = (running \ over) \cup now
        /\ debouncer' = Drained(debouncer)
    BY DEF Drain, WatcherStep
  <1>2. /\ Kept(debouncer') /\ debouncer'.live = debouncer.live \cup now
        /\ Members(debouncer') = Members(debouncer) \ now
        /\ Exiting(debouncer') = Exiting(debouncer) \ over
        /\ now \subseteq Members(debouncer)
    BY <1>1, WasDrained DEF IInv, OnePerId
  <1>3. /\ Members(debouncer)' = Members(debouncer) \ now
        /\ Exiting(debouncer)' = Exiting(debouncer) \ over
    <2>1. Members(debouncer)' = Members(debouncer') /\ Exiting(debouncer)' = Exiting(debouncer')
      BY DEF Members, Exiting
    <2>. QED BY <1>2, <2>1
  <1>. HIDE DEF now, over
  <1>4. /\ Believed' = Believed /\ Heard' = Heard \cup now
        /\ now \subseteq Believed /\ Believed \subseteq started
    BY <1>1, <1>2, <1>3, MembersStarted DEF Believed, Heard, IInv, OnePerId
  <1>5. Typed' /\ OnePerId'
    <2>1. running' \subseteq started /\ reported' \subseteq started
      BY <1>1, <1>4 DEF IInv, Typed
    <2>. QED BY <1>1, <1>2, <2>1, TypesStay, KeptAsItIs DEF IInv, OnePerId
  <1>6. GoneAreDead' /\ NewsIsNew' /\ HeardAreLive'
    BY <1>1, <1>2, <1>3, <1>4 DEF IInv, GoneAreDead, NewsIsNew, HeardAreLive
  <1>7. SeenAreKnown' /\ StartsAreNew' /\ OldFirst'
    BY <1>1, <1>3, <1>4, ChannelStays
  <1>8. ToldIsKept'
    <2>1. over \cap debouncer.live = {}
      <3>1. over \subseteq Exiting(debouncer)
        BY DEF over, DueExits, Exiting
      <3>. QED BY <3>1 DEF IInv, OnePerId, Kept, KeptApart
    <2>. QED BY <1>1, <1>2, <1>3, <2>1 DEF IInv, ToldIsKept
  <1>. QED BY <1>5, <1>6, <1>7, <1>8 DEF IInv

(* Every step keeps the invariant.                                          *)
LEMMA StepInv == IInv /\ [Next]_vars => IInv'
  <1>1. ASSUME IInv, UNCHANGED vars PROVE IInv'
    <2>1. UNCHANGED <<alive, started, source, saw, channel, debouncer, running, reported>>
      BY <1>1 DEF vars
    <2>2. /\ Members(debouncer)' = Members(debouncer)
          /\ Exiting(debouncer)' = Exiting(debouncer)
          /\ Believed' = Believed /\ Heard' = Heard
      BY <2>1 DEF Members, Exiting, Believed, Heard
    <2>3. Typed' /\ OnePerId'
      BY <1>1, <2>1, TypesStay, KeptAsItIs DEF IInv, Typed, OnePerId
    <2>4. GoneAreDead' /\ NewsIsNew' /\ HeardAreLive'
      BY <1>1, <2>1, <2>2 DEF IInv, GoneAreDead, NewsIsNew, HeardAreLive
    <2>5. SeenAreKnown' /\ StartsAreNew' /\ OldFirst'
      BY <1>1, <2>1, <2>2, ChannelStays
    <2>6. ToldIsKept'
      BY <1>1, <2>1, <2>2 DEF IInv, ToldIsKept
    <2>. QED BY <2>3, <2>4, <2>5, <2>6 DEF IInv
  <1>. QED BY <1>1, MachineKeeps, LooksKeep, NewSourceKeeps, TakeEventKeeps, DrainKeeps,
              TickKeeps DEF Next

(* No order of starts, exits, looks, losses and reports breaks it.           *)
THEOREM Invariance == Spec => []IInv
  BY InitInv, StepInv, PTL DEF Spec

(* An exit comes of what waits, a launch of what is collected.               *)
LEMMA ReportIsTrue ==
    ASSUME IInv, [Next]_vars
    PROVE  /\ \A p \in running \ running' : p \notin alive
           /\ \A p \in running' \ running : p \notin reported /\ p \notin AlreadyRunning
  <1>1. CASE UNCHANGED running
    BY <1>1
  <1>2. CASE Drain
    <2>1. running' = (running \ {e.process : e \in DueExits(debouncer)})
                        \cup Launching(debouncer)
      BY <1>2 DEF Drain
    <2>2. {e.process : e \in DueExits(debouncer)} \subseteq Exiting(debouncer)
      BY DEF DueExits, Exiting
    <2>3. Launching(debouncer) \subseteq Members(debouncer)
      BY DEF Launching, DueLaunches, Members
    <2>. QED BY <2>1, <2>2, <2>3 DEF IInv, GoneAreDead, NewsIsNew, Heard
  <1>3. Drain \/ UNCHANGED running
    BY DEF Next, vars, ProcessStarts, ProcessExits, MachineStep, StartSource, Subscribe,
           StartPolling, LookForStarts, LookForExits, PollTable, LoseSource, SourceStep,
           TakeEvent, ReplaceSource, Tick
  <1>. QED BY <1>1, <1>2, <1>3

(* The windows.  What the debouncer collects it collected before, in no      *)
(* earlier stage of its window, or it is new; and it is due in its window.   *)
Within(d, e, new) ==
    /\ DueWithinCap(e)
    /\ \A m \in e.pending :
          \/ m.members \subseteq new
          \/ \E k \in d.pending : /\ m.cap <= k.cap
                                  /\ m.members \subseteq k.members \cup new

(* What is dropped or leaves changes no window.                             *)
LEMMA LeavesItsWindow ==
    ASSUME NEW d, Kept(d), DueWithinCap(d), NEW pid, NEW settle \in 0..ExitSettlePeriod
    PROVE  Within(d, IF IsPending(d, pid) THEN ForgetPending(d, pid)
                                          ELSE Leaves(d, pid, settle), {})
  <1>1. d \in Debouncers /\ d.pending \subseteq Launches
    BY DEF Kept, Debouncers
  <1>2. \A k \in d.pending : k.cap \in Nat /\ k.quiet <= k.cap
    BY <1>1, ConfigAssumption DEF Launches, DueWithinCap
  <1>3. Within(d, Leaves(d, pid, settle), {})
    <2>1. Leaves(d, pid, settle).pending = d.pending
      BY Left
    <2>. QED BY <1>2, <2>1 DEF Within, DueWithinCap
  <1>4. Within(d, ForgetPending(d, pid), {})
    <2>. DEFINE L == {l \in {Without(m, pid) : m \in d.pending} : l.members # {}}
                f == ForgetPending(d, pid)
    <2>1. f = [d EXCEPT !.pending = L]
      BY DEF ForgetPending
    <2>2. f.pending = L
      <3>. HIDE DEF L, f
      <3>. QED BY <1>1, <2>1 DEF Debouncers
    <2>3. ASSUME NEW m \in f.pending
          PROVE  \E k \in d.pending : /\ m.cap <= k.cap /\ m.quiet <= m.cap
                                      /\ m.members \subseteq k.members
      <3>1. PICK k \in d.pending : m = Without(k, pid)
        BY <2>2, <2>3
      <3>2. /\ m.quiet = k.quiet /\ m.cap = k.cap
            /\ m.members = {q \in k.members : q.pid # pid}
        BY <1>1, <3>1, WithoutIsALaunch
      <3>. QED BY <1>2, <3>2
    <2>. HIDE DEF f
    <2>4. Within(d, f, {})
      BY <2>3 DEF Within, DueWithinCap
    <2>. QED BY <2>4 DEF f
  <1>. QED BY <1>3, <1>4

(* A child that joins does not open the window again; a launch of its own   *)
(* has a window of its own.                                                 *)
LEMMA BeginsItsWindow ==
    ASSUME NEW d, Kept(d), DueWithinCap(d), NEW p \in started
    PROVE  /\ Within(d, OpenLaunch(d, p), {p})
           /\ Within(d, JoinLaunch(d, p), {p})
  <1>1. d \in Debouncers /\ d.pending \subseteq Launches
    BY DEF Kept, Debouncers
  <1>2. \A k \in d.pending : k.cap \in Nat /\ k.quiet <= k.cap
    BY <1>1, ConfigAssumption DEF Launches, DueWithinCap
  <1>3. Within(d, OpenLaunch(d, p), {p})
    <2>. DEFINE l == [quiet |-> QuietPeriod, cap |-> MaxLaunchWindow, members |-> {p}]
                L == d.pending \cup {l}
                f == OpenLaunch(d, p)
    <2>1. f = [d EXCEPT !.pending = L]
      BY DEF OpenLaunch
    <2>2. f.pending = L
      <3>. HIDE DEF L, f
      <3>. QED BY <1>1, <2>1 DEF Debouncers
    <2>3. l.quiet <= l.cap /\ l.members \subseteq {p}
      BY ConfigAssumption
    <2>. HIDE DEF f, l
    <2>4. Within(d, f, {p})
      BY <1>2, <2>2, <2>3 DEF Within, DueWithinCap
    <2>. QED BY <2>4 DEF f
  <1>4. Within(d, JoinLaunch(d, p), {p})
    <2>. DEFINE Then(l) == IF Collects(l, p.parent) THEN Joined(l, p) ELSE l
                L == {Then(l) : l \in d.pending}
                f == JoinLaunch(d, p)
    <2>1. f = [d EXCEPT !.pending = L]
      BY DEF JoinLaunch
    <2>2. f.pending = L
      <3>. HIDE DEF L, f
      <3>. QED BY <1>1, <2>1 DEF Debouncers
    <2>3. ASSUME NEW m \in f.pending
          PROVE  \E k \in d.pending : /\ m.cap <= k.cap /\ m.quiet <= m.cap
                                      /\ m.members \subseteq k.members \cup {p}
      <3>1. PICK k \in d.pending : m = k \/ m = Joined(k, p)
        BY <2>2, <2>3
      <3>2. CASE m = k
        BY <1>2, <3>2
      <3>3. CASE m = Joined(k, p)
        <4>1. m.members = k.members \cup {p} /\ m.quiet <= m.cap /\ m.cap = k.cap
          BY <1>1, <3>3, JoinedIsALaunch
        <4>. QED BY <1>2, <4>1
      <3>. QED BY <3>1, <3>2, <3>3
    <2>. HIDE DEF f
    <2>4. Within(d, f, {p})
      BY <2>3 DEF Within, DueWithinCap
    <2>. QED BY <2>4 DEF f
  <1>. QED BY <1>3, <1>4

(* observe_start: both, one after the other.                                *)
LEMMA StartsInItsWindow ==
    ASSUME NEW d, Kept(d), DueWithinCap(d), NEW p \in started, p \notin d.live \cup Exiting(d)
    PROVE  Within(d, ObserveStart(d, p), {p})
  <1>. DEFINE r == Retire(d, p.pid)
              e == ObserveStart(d, p)
  <1>1. Kept(r) /\ Within(d, r, {}) /\ Kept(e)
    BY Retired, StartObserved, LeavesItsWindow, ConfigAssumption DEF Gone, Retire
  <1>2. e = IF IsPending(r, p.parent) THEN JoinLaunch(r, p) ELSE OpenLaunch(r, p)
    BY DEF ObserveStart
  <1>. HIDE DEF r, e
  <1>3. Within(r, e, {p})
    BY <1>1, <1>2, BeginsItsWindow DEF Within
  <1>4. ASSUME NEW m \in e.pending
        PROVE  \/ m.members \subseteq {p}
               \/ \E j \in d.pending : m.cap <= j.cap /\ m.members \subseteq j.members \cup {p}
    <2>1. CASE m.members \subseteq {p}
      BY <2>1
    <2>2. CASE \E k \in r.pending : m.cap <= k.cap /\ m.members \subseteq k.members \cup {p}
      <3>1. PICK k \in r.pending : m.cap <= k.cap /\ m.members \subseteq k.members \cup {p}
        BY <2>2
      <3>2. CASE k.members \subseteq {}
        BY <3>1, <3>2
      <3>3. CASE \E j \in d.pending : k.cap <= j.cap /\ k.members \subseteq j.members
        <4>1. PICK j \in d.pending : k.cap <= j.cap /\ k.members \subseteq j.members
          BY <3>3
        <4>2. k.cap \in Int /\ j.cap \in Int /\ m.cap \in Int
          BY <1>1, ConfigAssumption DEF Kept, Debouncers, Launches
        <4>3. m.cap <= j.cap
          BY <3>1, <4>1, <4>2
        <4>. QED BY <3>1, <4>1, <4>3
      <3>. QED BY <1>1, <3>2, <3>3 DEF Within
    <2>. QED BY <1>3, <2>1, <2>2 DEF Within
  <1>5. Within(d, e, {p})
    BY <1>3, <1>4 DEF Within
  <1>. QED BY <1>5 DEF e

(* Time closes every window alike.                                          *)
LEMMA TimeClosesWindows ==
    ASSUME NEW d, Kept(d), DueWithinCap(d), NEW e, e.pending = {Aged(l) : l \in d.pending}
    PROVE  Within(d, e, {})
  <1>1. d.pending \subseteq Launches
    BY DEF Kept, Debouncers
  <1>2. ASSUME NEW m \in e.pending
        PROVE  \E k \in d.pending : /\ m.cap <= k.cap /\ m.quiet <= m.cap
                                    /\ m.members \subseteq k.members
    <2>1. PICK k \in d.pending : m = Aged(k)
      BY <1>2
    <2>2. /\ m.members = k.members
          /\ m.quiet = Older(k.quiet) /\ m.cap = Older(k.cap)
      BY <1>1, <2>1, AgedIsALaunch
    <2>3. k.quiet \in Nat /\ k.cap \in Nat /\ k.quiet <= k.cap
      BY <1>1, ConfigAssumption DEF Launches, DueWithinCap
    <2>4. m.cap <= k.cap /\ m.quiet <= m.cap
      BY <2>2, <2>3 DEF Older
    <2>. QED BY <2>2, <2>4
  <1>. QED BY <1>2 DEF Within, DueWithinCap

(* Whatever the step, what the debouncer keeps it keeps in its window; what *)
(* is new was nowhere before.                                               *)
LEMMA EveryStepIsWithin ==
    ASSUME IInv, DueWithinCap(debouncer), [Next]_vars
    PROVE  \E new : Within(debouncer, debouncer', new) /\ new \cap Members(debouncer) = {}
  <1>0. Kept(debouncer) /\ debouncer \in Debouncers
    BY DEF IInv, OnePerId, Kept
  <1>. SUFFICES \/ Within(debouncer, debouncer', {})
                \/ \E p : /\ Within(debouncer, debouncer', {p})
                         /\ p \notin Members(debouncer)
    <2>1. {} \cap Members(debouncer) = {}
      OBVIOUS
    <2>2. \A p : p \notin Members(debouncer) => {p} \cap Members(debouncer) = {}
      OBVIOUS
    <2>. QED BY <2>1, <2>2, Zenon
  <1>1. CASE UNCHANGED debouncer
    <2>1. \A k \in debouncer.pending : k.cap \in Nat
      BY <1>0, ConfigAssumption DEF Debouncers, Launches
    <2>. QED BY <1>1, <2>1 DEF Within, DueWithinCap
  <1>2. CASE TakeEvent
    <2>1. channel # <<>> /\ channel' = Tail(channel) /\ Head(channel) # Lost
      BY <1>2 DEF TakeEvent
    <2>2. Head(channel) = channel[1] /\ 1 \in 1..Len(channel) /\ channel[1] \in Messages
      <3>1. channel \in Seq(Messages)
        BY DEF IInv, Typed
      <3>. QED BY <2>1, <3>1, TheRest
    <2>3. CASE \E p \in started : channel[1] = Started(p)
      <3>1. PICK p \in started : channel[1] = Started(p)
        BY <2>3
      <3>2. debouncer' = ObserveStart(debouncer, p)
        BY <1>2, <2>2, <3>1 DEF TakeEvent, Started
      <3>3. /\ p \notin Members(debouncer)
            /\ p \notin debouncer.live \cup Exiting(debouncer)
        BY <2>2, <3>1 DEF IInv, StartsAreNew, Believed
      <3>. QED BY <1>0, <3>2, <3>3, StartsInItsWindow
    <2>4. CASE \E pid : channel[1] = Exited(pid)
      <3>1. PICK pid : channel[1] = Exited(pid)
        BY <2>4
      <3>2. debouncer' = ObserveExit(debouncer, pid)
        BY <1>2, <2>2, <3>1 DEF TakeEvent, Exited
      <3>. QED BY <1>0, <3>2, LeavesItsWindow, ConfigAssumption DEF ObserveExit
    <2>. QED BY <2>1, <2>2, <2>3, <2>4 DEF Messages
  <1>3. CASE Drain
    <2>1. debouncer'.pending = debouncer.pending \ DueLaunches(debouncer)
      BY <1>3 DEF Drain, Drained
    <2>2. \A k \in debouncer.pending : k.cap \in Nat
      BY <1>0, ConfigAssumption DEF Debouncers, Launches
    <2>. QED BY <2>1, <2>2 DEF Within, DueWithinCap
  <1>4. CASE Tick
    <2>. DEFINE L == {Aged(l) : l \in debouncer.pending}
                X == {[x EXCEPT !.settle = Older(@)] : x \in debouncer.exiting}
    <2>1. debouncer' = [debouncer EXCEPT !.pending = L, !.exiting = X]
      BY <1>4 DEF Tick
    <2>2. debouncer'.pending = L
      <3>. HIDE DEF L, X
      <3>. QED BY <1>0, <2>1 DEF Debouncers
    <2>. QED BY <1>0, <2>2, TimeClosesWindows
  <1>5. UNCHANGED debouncer \/ TakeEvent \/ Drain \/ Tick
    BY DEF Next, vars, ProcessStarts, ProcessExits, MachineStep, StartSource, Subscribe,
           StartPolling, LookForStarts, LookForExits, PollTable, LoseSource, SourceStep,
           ReplaceSource
  <1>. QED BY <1>1, <1>2, <1>3, <1>4, <1>5

(* So no window opens again: of a launch that stays, it is the same launch.  *)
LEMMA WindowsOnlyClose ==
    ASSUME IInv, DueWithinCap(debouncer), [Next]_vars
    PROVE  /\ DueWithinCap(debouncer)'
           /\ \A l \in debouncer.pending, m \in debouncer'.pending :
                 l.members \cap m.members # {} => m.cap <= l.cap
  <1>1. PICK new : Within(debouncer, debouncer', new) /\ new \cap Members(debouncer) = {}
    BY EveryStepIsWithin
  <1>2. ASSUME NEW l \in debouncer.pending, NEW m \in debouncer'.pending,
               NEW x \in l.members, x \in m.members
        PROVE  m.cap <= l.cap
    <2>1. x \notin new
      BY <1>1, <1>2 DEF Members
    <2>2. PICK k \in debouncer.pending : m.cap <= k.cap /\ m.members \subseteq k.members \cup new
      BY <1>1, <1>2, <2>1 DEF Within
    <2>3. k = l
      BY <1>2, <2>1, <2>2 DEF IInv, OnePerId, Kept, KeptApart
    <2>. QED BY <2>2, <2>3
  <1>. QED BY <1>1, <1>2 DEF Within, DueWithinCap

(* Nothing is collected at first.                                           *)
LEMMA AllWithinCap == Spec => []DueWithinCap(debouncer)
  <1>1. Init => DueWithinCap(debouncer)
    BY DEF Init, DueWithinCap
  <1>2. IInv /\ DueWithinCap(debouncer) /\ [Next]_vars => DueWithinCap(debouncer)'
    BY WindowsOnlyClose
  <1>. QED BY Invariance, <1>1, <1>2, PTL DEF Spec
(* ProcessWatcher::next_event reports an exit only of a process that is gone,*)
(* and a launch only of one that was neither reported before nor there at the*)
(* baseline, in the window it was first collected in: across reuse of ids,  *)
(* two subscriptions that look at their own times, and a change of source.  *)
THEOREM ReportsAreHonest == Spec => ReportsAreTrue
  <1>1. IInv /\ [Next]_vars => [\A p \in running \ running' : p \notin alive]_vars
    BY ReportIsTrue
  <1>2. IInv /\ [Next]_vars =>
            [\A p \in running' \ running : p \notin reported /\ p \notin AlreadyRunning]_vars
    BY ReportIsTrue
  <1>3. IInv /\ DueWithinCap(debouncer) /\ [Next]_vars =>
            [\A l \in debouncer.pending, m \in debouncer'.pending :
                l.members \cap m.members # {} => m.cap <= l.cap]_vars
    BY WindowsOnlyClose
  <1>. QED BY Invariance, AllWithinCap, <1>1, <1>2, <1>3, PTL
       DEF Spec, ReportsAreTrue, OnlyTheDeadAreGone, LaunchedOnce, NotPutOff

(* The invariant has the types and the places; the order of a batch follows *)
(* from ChildBeforeParent.                                                  *)
LEMMA SoundBatches == IInv /\ DueWithinCap(debouncer) => BatchesAreSound
  <1>. SUFFICES ASSUME IInv, DueWithinCap(debouncer) PROVE BatchesAreSound
    OBVIOUS
  <1>. DEFINE E == DueExits(debouncer)
  <1>1. debouncer \in Debouncers
    BY DEF IInv, OnePerId, Kept
  <1>2. WatcherTypeOK
    BY <1>1 DEF IInv, Typed, WatcherTypeOK, Debouncers
  <1>6. KeptApart(debouncer) /\ ToldIsKept
    BY DEF IInv, OnePerId, Kept
  <1>3. IsFiniteSet(Pids(E))
    <2>1. \A e \in E : e.process \in Processes
      BY <1>1 DEF DueExits, Debouncers, Exits, IInv, Typed
    <2>2. Pids(E) \in SUBSET PidsOf(Processes)
      BY <2>1 DEF Pids, PidsOf
    <2>. QED BY <2>2, FinitePids, FS_Subset
  <1>. HIDE DEF E
  <1>4. ASSUME \A x, y \in E : x.process.pid = y.process.pid => x = y, HasRoots(E),
               NEW x \in E, NEW y \in E, x # y, x.process.parent = y.process.pid
        PROVE  ChildrenFirst(E, x, y)
    BY <1>3, <1>4, ChildBeforeParent
  <1>5. LeavesFirst
    BY <1>4 DEF LeavesFirst, E
  <1>. QED BY <1>2, <1>5, <1>6 DEF BatchesAreSound

(* LaunchDebouncer keeps each process at one place, a launch due within its  *)
(* window, what it keeps agrees with what its consumer was told, and a batch *)
(* of exits has children before their parents (rule 5) when it has each id  *)
(* once and no circle.                                                      *)
THEOREM BatchesAreInOrder == Spec => []BatchesAreSound
  BY Invariance, AllWithinCap, SoundBatches, PTL

==============================================================================
