----------------------- MODULE AutomaticRecorder_proofs -----------------------
(***************************************************************************)
(* Theorems of SessionManager, and of AutomaticRecorder, which extends it, *)
(* for every value of their constants.                                     *)
(*                                                                         *)
(* The manager comes first: its types, that nothing starts once it shuts   *)
(* down, that there is one encoder, and then what the record on disk, the  *)
(* processes it tracks and the sittings it opens are held to.  The         *)
(* recorder's process follows: it calls the manager the way SessionManager *)
(* says, so all of that holds in it, and it shares one recording soundly.  *)
(***************************************************************************)
EXTENDS AutomaticRecorder, TLAPS, SequenceTheorems

USE LaunchAssumption, SettingsAssumption, NoneAssumption

-----------------------------------------------------------------------------
(* The types of what the manager's methods return.                         *)

LEMMA PersistType ==
  ASSUME NEW m \in Manager, m.active \in Active
  PROVE  /\ Persist(m) \in Manager
         /\ Persist(m).active = m.active
BY DEF Persist, Manager, Active, Session, Sidecar

LEMMA RequestType ==
  ASSUME NEW a \in Active, a.recording # None
  PROVE  Request(a) \in RecordingRequest
BY DEF Request, Active, Session, RecordingRequest

LEMMA AskToStopType ==
  ASSUME NEW m \in Manager, m.active \in Active
  PROVE  /\ AskToStop(m) \in Manager
         /\ AskToStop(m).active \in Active
<1>1. CASE m.active.recording # None /\ ~m.active.stopping
  <2>1. [m.active EXCEPT !.stopping = TRUE] \in Active
    BY DEF Active
  <2>2. m.stops \cup {Request(m.active)} \in SUBSET RecordingRequest
    BY <1>1, RequestType DEF Manager
  <2>3. AskToStop(m) = [m EXCEPT !.active = [m.active EXCEPT !.stopping = TRUE],
                                 !.stops = m.stops \cup {Request(m.active)}]
    BY <1>1 DEF AskToStop
  <2>4. QED
    BY <2>1, <2>2, <2>3 DEF Manager
<1>2. CASE ~(m.active.recording # None /\ ~m.active.stopping)
  BY <1>2 DEF AskToStop
<1>3. QED
  BY <1>1, <1>2

LEMMA BegunType ==
  ASSUME NEW m \in Manager, m.active \in Active
  PROVE  Begun(m) \in Active /\ Begun(m).recording # None
<1>. DEFINE r == Append(m.active.session.recordings,
                        [directory |-> m.directory, ended |-> FALSE])
            s == [m.active.session EXCEPT !.recordings = r]
<1>1. m.active.session \in Session /\ m.directory \in Directories
  BY DEF Active, Manager
<1>2. r \in Seq(SessionRecording)
  BY <1>1 DEF Session, SessionRecording
<1>3. s \in Session
  BY <1>1, <1>2 DEF Session
<1>4. Begun(m) = [m.active EXCEPT !.dueIn = None,
                   !.startedRecordings = m.active.startedRecordings + 1,
                   !.recording = m.active.startedRecordings + 1,
                   !.session = s]
  BY DEF Begun, Active
<1>5. m.active.startedRecordings + 1 \in Nat
  BY DEF Active
<1>. HIDE DEF s, r
<1>6. QED
  BY <1>3, <1>4, <1>5 DEF Active

LEMMA WithActiveType ==
  ASSUME NEW m \in Manager, NEW a \in Active
  PROVE  /\ [m EXCEPT !.active = a] \in Manager
         /\ [m EXCEPT !.active = a].active = a
BY DEF Manager

LEMMA BeginRecordingType ==
  ASSUME NEW m \in Manager, m.active \in Active
  PROVE  /\ BeginRecording(m) \in Manager
         /\ BeginRecording(m).active \in Active
<1>1. CASE AtLimit(m)
  <2>. DEFINE a == [m.active EXCEPT !.dueIn = None, !.limitReported = TRUE]
  <2>1. a \in Active
    BY DEF Active
  <2>2. BeginRecording(m) = Persist([m EXCEPT !.active = a])
    BY <1>1 DEF BeginRecording, Manager
  <2>. HIDE DEF a
  <2>3. QED
    BY <2>1, <2>2, WithActiveType, PersistType
<1>2. CASE ~AtLimit(m)
  <2>. DEFINE w == [m EXCEPT !.active = Begun(m)]
              b == [w EXCEPT !.starts = w.starts \cup {Request(Begun(m))}]
  <2>1. Request(Begun(m)) \in RecordingRequest /\ Begun(m) \in Active
    BY BegunType, RequestType
  <2>2. w \in Manager /\ w.active = Begun(m)
    BY <2>1, WithActiveType
  <2>3. b \in Manager /\ b.active = Begun(m)
    BY <2>1, <2>2 DEF Manager
  <2>4. BeginRecording(m) = Persist(b)
    BY <1>2 DEF BeginRecording, Manager
  <2>. HIDE DEF b
  <2>5. QED
    BY <2>1, <2>3, <2>4, PersistType
<1>3. QED
  BY <1>1, <1>2

LEMMA StartSessionType ==
  ASSUME NEW m \in Manager, NEW l \in MatchedLaunch
  PROVE  StartSession(m, l) \in Manager /\ StartSession(m, l).active \in Active
<1>. DEFINE a == [session |-> [id |-> l.id, game |-> l.game,
                               recordings |-> <<>>, ended |-> FALSE],
                  pid |-> l.pid, alive |-> TRUE, liveChildren |-> l.children,
                  recording |-> None, stopping |-> FALSE, dueIn |-> None,
                  idleFor |-> None, startedRecordings |-> 0, noWindow |-> FALSE,
                  stopAskedFor |-> FALSE, limitReported |-> FALSE]
<1>1. a \in Active
  BY DEF Active, Session, MatchedLaunch
<1>2. StartSession(m, l) = BeginRecording([m EXCEPT !.active = a])
  BY DEF StartSession
<1>. HIDE DEF a
<1>3. QED
  BY <1>1, <1>2, WithActiveType, BeginRecordingType

LEMMA TakeHeldBackType ==
  ASSUME NEW m \in Manager
  PROVE  TakeHeldBackDirectory(m) \in Manager
BY DEF TakeHeldBackDirectory, Manager

LEMMA CloseActiveType ==
  ASSUME NEW m \in Manager, m.active \in Active
  PROVE  CloseActive(m) \in Manager
<1>. DEFINE a == [m.active EXCEPT !.session = [m.active.session EXCEPT !.ended = TRUE]]
            ended == Persist([m EXCEPT !.active = a])
            closed == TakeHeldBackDirectory([ended EXCEPT !.active = None])
            n == Len(m.deferred)
            next == [closed EXCEPT !.deferred = SubSeq(closed.deferred, 1, n - 1)]
<1>1. a \in Active
  BY DEF Active, Session
<1>2. ended \in Manager /\ ended.deferred = m.deferred
  <2>1. [m EXCEPT !.active = a] \in Manager /\ [m EXCEPT !.active = a].active = a
    BY <1>1, WithActiveType
  <2>. HIDE DEF a
  <2>2. ended \in Manager
    BY <1>1, <2>1, PersistType
  <2>3. ended.deferred = m.deferred
    BY <1>1 DEF Persist, Manager
  <2>4. QED
    BY <2>2, <2>3
<1>3. closed \in Manager /\ closed.deferred = m.deferred
  <2>. HIDE DEF ended
  <2>1. [ended EXCEPT !.active = None] \in Manager
    BY <1>2 DEF Manager
  <2>2. closed \in Manager
    BY <2>1, TakeHeldBackType
  <2>3. closed.deferred = m.deferred
    BY <1>2 DEF TakeHeldBackDirectory, Manager
  <2>4. QED
    BY <2>2, <2>3
<1>4. CloseActive(m) = IF m.stopping \/ n = 0 THEN closed
                       ELSE StartSession(next, m.deferred[n])
  BY DEF CloseActive
<1>5. CASE ~(m.stopping \/ n = 0)
  <2>1. m.deferred \in Seq(MatchedLaunch) /\ n \in 1..Len(m.deferred)
    BY <1>5 DEF Manager
  <2>2. SubSeq(m.deferred, 1, n - 1) \in Seq(MatchedLaunch)
    BY <2>1, SubSeqProperties
  <2>. HIDE DEF closed
  <2>3. next \in Manager
    BY <1>3, <2>2 DEF Manager
  <2>4. m.deferred[n] \in MatchedLaunch
    BY <2>1
  <2>. HIDE DEF next, n
  <2>5. QED
    BY <1>4, <1>5, <2>3, <2>4, StartSessionType
<1>. HIDE DEF closed
<1>6. QED
  BY <1>3, <1>4, <1>5

LEMMA ResumedType ==
  ASSUME NEW m \in Manager
  PROVE  Resumed(m) \in Manager
<1>. DEFINE f == [m EXCEPT !.deferred = <<>>]
<1>1. f \in Manager /\ f.active = m.active
  <2>1. <<>> \in Seq(MatchedLaunch)
    OBVIOUS
  <2>2. QED
    BY <2>1 DEF Manager
<1>2. Resumed(m) = IF ~IsActive(m) THEN f
                   ELSE IF m.active.recording = None /\ m.active.idleFor # None
                   THEN CloseActive(Persist(f))
                   ELSE Persist(AskToStop(f))
  BY DEF Resumed
<1>3. CASE IsActive(m)
  <2>. HIDE DEF f
  <2>1. f.active \in Active
    BY <1>1, <1>3 DEF IsActive, Manager
  <2>2. Persist(f) \in Manager /\ Persist(f).active \in Active
    BY <1>1, <2>1, PersistType
  <2>3. CloseActive(Persist(f)) \in Manager
    BY <2>2, CloseActiveType
  <2>4. Persist(AskToStop(f)) \in Manager
    BY <1>1, <2>1, AskToStopType, PersistType
  <2>5. QED
    BY <1>1, <1>2, <2>3, <2>4
<1>. HIDE DEF f
<1>4. QED
  BY <1>1, <1>2, <1>3

LEMMA AdvanceType ==
  ASSUME NEW m \in Manager
  PROVE  Advance(m) \in Manager
<1>1. \A n \in Manager : CloseExpired(n) \in Manager /\ BeginDue(n) \in Manager
  <2>1. \A n \in Manager : IsActive(n) => n.active \in Active
    BY DEF IsActive, Manager
  <2>2. QED
    BY <2>1, CloseActiveType, BeginRecordingType DEF CloseExpired, BeginDue
<1>2. [m EXCEPT !.since = 0] \in Manager
  BY DEF Manager
<1>3. QED
  BY <1>1, <1>2, ResumedType DEF Advance

LEMMA RejoinedType ==
  ASSUME NEW m \in Manager, m.active \in Active, NEW l \in MatchedLaunch
  PROVE  /\ Rejoined(m, l) \in Manager
         /\ Rejoined(m, l).active \in Active
<1>. DEFINE a == [m.active EXCEPT !.pid = l.pid, !.alive = TRUE,
                   !.liveChildren = l.children, !.idleFor = None,
                   !.noWindow = FALSE, !.stopAskedFor = FALSE]
<1>1. a \in Active
  BY DEF Active, MatchedLaunch
<1>2. Rejoined(m, l) = Persist([m EXCEPT !.active = a])
  BY DEF Rejoined
<1>. HIDE DEF a
<1>3. QED
  BY <1>1, <1>2, WithActiveType, PersistType

LEMMA WithoutType ==
  ASSUME NEW w \in Seq(MatchedLaunch), NEW p
  PROVE  Without(w, p) \in Seq(MatchedLaunch)
<1>1. CASE \E i \in DOMAIN w : w[i].pid = p
  <2>. DEFINE i == CHOOSE i \in DOMAIN w : w[i].pid = p
  <2>1. i \in 1..Len(w)
    BY <1>1
  <2>2. Without(w, p) = SubSeq(w, 1, i - 1) \o SubSeq(w, i + 1, Len(w))
    BY <1>1 DEF Without
  <2>. HIDE DEF i
  <2>3. /\ SubSeq(w, 1, i - 1) \in Seq(MatchedLaunch)
        /\ SubSeq(w, i + 1, Len(w)) \in Seq(MatchedLaunch)
    BY <2>1
  <2>4. QED
    BY <2>2, <2>3, ConcatProperties
<1>2. CASE ~\E i \in DOMAIN w : w[i].pid = p
  BY <1>2 DEF Without
<1>3. QED
  BY <1>1, <1>2

LEMMA LaunchedType ==
  ASSUME NEW m \in Manager, NEW l \in MatchedLaunch
  PROVE  Launched(m, l) \in Manager
<1>1. CASE ~IsActive(m)
  BY <1>1, StartSessionType DEF Launched
<1>2. CASE IsActive(m)
  <2>1. m.active \in Active
    BY <1>2 DEF IsActive, Manager
  <2>2. Rejoin(m, l) \in Manager
    BY <2>1, RejoinedType, BeginRecordingType DEF Rejoin
  <2>3. Defer(m, l) \in Manager
    <3>1. Persist(m) \in Manager
      BY <2>1, PersistType
    <3>2. Append(Without(Persist(m).deferred, l.pid), l) \in Seq(MatchedLaunch)
      <4>1. Persist(m).deferred \in Seq(MatchedLaunch)
        BY <3>1 DEF Manager
      <4>2. QED
        BY <4>1, WithoutType
    <3>3. QED
      BY <3>1, <3>2 DEF Defer, Manager
  <2>4. QED
    BY <1>2, <2>2, <2>3 DEF Launched
<1>3. QED
  BY <1>1, <1>2

LEMMA InformedType ==
  ASSUME NEW w \in Seq(MatchedLaunch), NEW p
  PROVE  Informed(w, p) \in Seq(MatchedLaunch)
<1>. DEFINE left == Without(w, p)
<1>1. left \in Seq(MatchedLaunch)
  BY WithoutType
<1>2. Informed(w, p) = [i \in DOMAIN left |->
                          [left[i] EXCEPT !.children = left[i].children \ {p}]]
  BY DEF Informed
<1>. HIDE DEF left
<1>3. \A i \in 1..Len(left) :
        [left[i] EXCEPT !.children = left[i].children \ {p}] \in MatchedLaunch
  <2>1. \A k \in MatchedLaunch :
          [k EXCEPT !.children = k.children \ {p}] \in MatchedLaunch
    BY DEF MatchedLaunch
  <2>2. \A i \in 1..Len(left) : left[i] \in MatchedLaunch
    BY <1>1
  <2>3. QED
    BY <2>1, <2>2
<1>4. DOMAIN left = 1..Len(left) /\ Len(left) \in Nat
  BY <1>1
<1>5. QED
  BY <1>2, <1>3, <1>4, SeqDef

LEMMA ExitedType ==
  ASSUME NEW m \in Manager, NEW p \in Pids
  PROVE  Exited(m, p) \in Manager
<1>. DEFINE f == [m EXCEPT !.deferred = Informed(m.deferred, p)]
<1>1. f \in Manager /\ f.active = m.active
  <2>1. Informed(m.deferred, p) \in Seq(MatchedLaunch)
    BY InformedType DEF Manager
  <2>2. QED
    BY <2>1 DEF Manager
<1>2. Exited(m, p) = IF ~IsActive(m) THEN f
                     ELSE IF m.active.pid = p /\ m.active.alive
                     THEN SubjectExited(f) ELSE ChildExited(f, p)
  BY DEF Exited
<1>. HIDE DEF f
<1>3. CASE IsActive(m)
  <2>1. f.active \in Active
    BY <1>1, <1>3 DEF IsActive, Manager
  <2>2. SubjectExited(f) \in Manager
    <3>. DEFINE a == [f.active EXCEPT !.alive = FALSE, !.dueIn = None]
                gone == Persist([f EXCEPT !.active = a])
    <3>1. a \in Active
      BY <2>1 DEF Active
    <3>2. SubjectExited(f) = IF f.active.recording # None THEN AskToStop(gone)
                             ELSE IF f.active.liveChildren = {}
                             THEN [gone EXCEPT !.active =
                                    [gone.active EXCEPT !.idleFor = 0]]
                             ELSE gone
      BY <1>1 DEF SubjectExited, Manager
    <3>. HIDE DEF a
    <3>3. gone \in Manager /\ gone.active \in Active
      <4>1. [f EXCEPT !.active = a] \in Manager /\ [f EXCEPT !.active = a].active \in Active
        BY <1>1, <3>1, WithActiveType
      <4>2. QED
        BY <4>1, PersistType
    <3>4. [gone.active EXCEPT !.idleFor = 0] \in Active
      BY <3>3 DEF Active
    <3>. HIDE DEF gone
    <3>5. QED
      BY <3>2, <3>3, <3>4, WithActiveType, AskToStopType
  <2>3. ChildExited(f, p) \in Manager
    <3>. DEFINE a == [f.active EXCEPT !.liveChildren = f.active.liveChildren \ {p}]
                b == [a EXCEPT !.idleFor = 0]
    <3>1. a \in Active /\ b \in Active
      <4>1. f.active.liveChildren \ {p} \in SUBSET Pids
        BY <2>1 DEF Active
      <4>2. a \in Active
        BY <2>1, <4>1 DEF Active
      <4>. HIDE DEF a
      <4>3. QED
        BY <4>2 DEF Active
    <3>2. [f EXCEPT !.active = a].active = a
      BY <1>1, <3>1, WithActiveType
    <3>. HIDE DEF a
    <3>3. \/ ChildExited(f, p) = [f EXCEPT !.active = a]
          \/ ChildExited(f, p) = [[f EXCEPT !.active = a] EXCEPT !.active = b]
      BY <3>2 DEF ChildExited, a
    <3>4. [f EXCEPT !.active = a] \in Manager
      BY <1>1, <3>1, WithActiveType
    <3>. HIDE DEF b
    <3>5. [[f EXCEPT !.active = a] EXCEPT !.active = b] \in Manager
      BY <3>1, <3>4, WithActiveType
    <3>6. QED
      BY <3>3, <3>4, <3>5
  <2>4. QED
    BY <1>1, <1>2, <2>2, <2>3
<1>4. QED
  BY <1>1, <1>2, <1>3

LEMMA OutcomeType ==
  ASSUME NEW a \in Active, NEW outcome \in Outcomes
  PROVE  OutcomeArrived(a, outcome) \in Active
<1>. DEFINE r == [a.session.recordings EXCEPT ![a.recording] =
                    [a.session.recordings[a.recording] EXCEPT !.ended = TRUE]]
            s == [a.session EXCEPT !.recordings = r]
<1>1. a.session \in Session /\ a.session.recordings \in Seq(SessionRecording)
  BY DEF Active, Session
<1>2. r \in Seq(SessionRecording)
  <2>1. \A x \in SessionRecording : [x EXCEPT !.ended = TRUE] \in SessionRecording
    BY DEF SessionRecording
  <2>. DEFINE q == a.session.recordings
              e == [q[a.recording] EXCEPT !.ended = TRUE]
  <2>2. CASE a.recording \in DOMAIN q
    <3>1. e \in SessionRecording
      BY <1>1, <2>1, <2>2
    <3>2. a.recording \in 1..Len(q)
      BY <1>1, <2>2
    <3>3. r = [q EXCEPT ![a.recording] = e]
      OBVIOUS
    <3>. HIDE DEF e, q, r
    <3>4. QED
      BY <1>1, <3>1, <3>2, <3>3, ExceptSeq DEF q
  <2>3. CASE a.recording \notin DOMAIN q
    <3>1. r = q
      BY <1>1, <2>3
    <3>2. QED
      BY <1>1, <3>1
  <2>4. QED
    BY <2>2, <2>3
<1>3. s \in Session
  BY <1>1, <1>2 DEF Session
<1>4. OutcomeArrived(a, outcome) =
        [a EXCEPT !.recording = None, !.stopping = FALSE,
                  !.noWindow = a.noWindow \/ outcome = "no-window",
                  !.session = s]
  BY DEF OutcomeArrived, Active
<1>. HIDE DEF s, r
<1>5. QED
  BY <1>3, <1>4 DEF Active

LEMMA RecordingFinishedType ==
  ASSUME NEW m \in Manager, NEW r, NEW outcome \in Outcomes
  PROVE  RecordingFinished(m, r, outcome) \in Manager
<1>1. CASE Expects(m, r)
  <2>1. m.active \in Active
    BY <1>1 DEF Expects, IsActive, Manager
  <2>. DEFINE a == OutcomeArrived(m.active, outcome)
              done == Persist([m EXCEPT !.active = a])
  <2>2. a \in Active
    BY <2>1, OutcomeType
  <2>3. done \in Manager /\ done.active \in Active
    <3>. HIDE DEF a
    <3>1. [m EXCEPT !.active = a] \in Manager /\ [m EXCEPT !.active = a].active \in Active
      BY <2>2, WithActiveType
    <3>2. QED
      BY <3>1, PersistType
  <2>4. EndRecording(m, outcome) \in Manager /\ EndRecording(m, outcome).active \in Active
    <3>. DEFINE x == [done.active EXCEPT !.dueIn = RestartDelayAfter(outcome)]
                y == [done.active EXCEPT !.idleFor = 0]
    <3>1. EndRecording(m, outcome) \in
            {done, [done EXCEPT !.active = x], [done EXCEPT !.active = y]}
      BY DEF EndRecording
    <3>. HIDE DEF done
    <3>2. x \in Active /\ y \in Active
      BY <2>3 DEF Active, RestartDelayAfter
    <3>. HIDE DEF x, y
    <3>3. QED
      BY <2>3, <3>1, <3>2, WithActiveType
  <2>5. QED
    BY <1>1, <2>4, CloseActiveType, AdvanceType DEF RecordingFinished
<1>2. CASE ~Expects(m, r)
  BY <1>2, AdvanceType DEF RecordingFinished
<1>3. QED
  BY <1>1, <1>2

LEMMA AskedType ==
  ASSUME NEW m \in Manager
  PROVE  AskedToStopRecording(m) \in Manager
<1>. DEFINE a == [m.active EXCEPT !.stopAskedFor = TRUE, !.dueIn = None]
<1>1. CASE IsActive(m)
  <2>1. m.active \in Active
    BY <1>1 DEF IsActive, Manager
  <2>2. a \in Active
    BY <2>1 DEF Active
  <2>3. AskedToStopRecording(m) = [m EXCEPT !.active = a]
    BY <1>1 DEF AskedToStopRecording, Manager
  <2>. HIDE DEF a
  <2>4. QED
    BY <2>2, <2>3, WithActiveType
<1>2. QED
  BY <1>1 DEF AskedToStopRecording

LEMMA ShutDownType ==
  ASSUME NEW m \in Manager
  PROVE  ShutDown(m) \in Manager
<1>. DEFINE halted == [m EXCEPT !.stopping = TRUE, !.deferred = <<>>]
            a == [m.active EXCEPT !.dueIn = None]
<1>1. halted \in Manager /\ halted.active = m.active
  <2>1. <<>> \in Seq(MatchedLaunch)
    OBVIOUS
  <2>2. QED
    BY <2>1 DEF Manager
<1>2. ShutDown(m) = IF ~IsActive(m) THEN halted
                    ELSE IF m.active.recording = None THEN CloseActive(halted)
                    ELSE AskToStop([halted EXCEPT !.active = a])
  BY <1>1 DEF ShutDown
<1>3. CASE IsActive(m)
  <2>1. m.active \in Active
    BY <1>3 DEF IsActive, Manager
  <2>2. a \in Active
    BY <2>1 DEF Active
  <2>. HIDE DEF a, halted
  <2>3. CloseActive(halted) \in Manager
    BY <1>1, <2>1, CloseActiveType
  <2>4. AskToStop([halted EXCEPT !.active = a]) \in Manager
    <3>1. /\ [halted EXCEPT !.active = a] \in Manager
          /\ [halted EXCEPT !.active = a].active \in Active
      BY <1>1, <2>2, WithActiveType
    <3>2. QED
      BY <3>1, AskToStopType
  <2>5. QED
    BY <1>1, <1>2, <2>3, <2>4
<1>. HIDE DEF halted
<1>4. QED
  BY <1>1, <1>2, <1>3

LEMMA SetDirectoryType ==
  ASSUME NEW m \in Manager, NEW d \in Directories
  PROVE  SetRecordingDirectory(m, d) \in Manager
BY DEF SetRecordingDirectory, Manager

LEMMA AgedType ==
  ASSUME NEW m \in Manager
  PROVE  Aged(m) \in Manager
<1>1. \A most \in Nat : \A age \in 0..most \cup {None} :
        /\ Older(age, most) \in 0..most \cup {None}
        /\ Nearer(age) \in 0..most \cup {None}
        /\ age # None => Older(age, most) \in 0..most
  BY DEF Older, Nearer
<1>. DEFINE o == [m EXCEPT !.since = Older(m.since, SuspendGap)]
            a == [m.active EXCEPT !.idleFor = Older(m.active.idleFor, RestartGrace),
                                  !.dueIn = Nearer(m.active.dueIn)]
<1>2. o \in Manager /\ o.active = m.active
  <2>1. m.since \in 0..SuspendGap
    BY DEF Manager
  <2>2. Older(m.since, SuspendGap) \in 0..SuspendGap
    BY <1>1, <2>1
  <2>3. QED
    BY <2>2 DEF Manager
<1>3. CASE IsActive(m)
  <2>1. m.active \in Active
    BY <1>3 DEF IsActive, Manager
  <2>2. a \in Active
    <3>1. /\ Older(m.active.idleFor, RestartGrace) \in 0..RestartGrace \cup {None}
          /\ Nearer(m.active.dueIn) \in 0..RecordingRestartDelay \cup {None}
      BY <1>1, <2>1 DEF Active
    <3>2. QED
      BY <2>1, <3>1 DEF Active
  <2>3. Aged(m) = [o EXCEPT !.active = a]
    BY <1>2, <1>3 DEF Aged
  <2>. HIDE DEF a, o
  <2>4. QED
    BY <1>2, <2>2, <2>3, WithActiveType
<1>4. QED
  BY <1>2, <1>3 DEF Aged

(* Every call of the manager keeps the types of its fields.                *)
LEMMA CallTypes ==
  ASSUME NEW m \in Manager
  PROVE  /\ Advance(m) \in Manager
         /\ \A l \in Launches : ObserveLaunched(m, l) \in Manager
         /\ \A p \in Pids : ObserveExited(m, p) \in Manager
         /\ \A r : \A outcome \in Outcomes : RecordingFinished(m, r, outcome) \in Manager
         /\ AskedToStopRecording(m) \in Manager
         /\ ShutDown(m) \in Manager
         /\ \A d \in Directories : SetRecordingDirectory(m, d) \in Manager
         /\ Aged(m) \in Manager
<1>1. Advance(m) \in Manager
  BY AdvanceType
<1>2. ASSUME NEW l \in Launches PROVE ObserveLaunched(m, l) \in Manager
  <2>1. l \in MatchedLaunch
    BY DEF MatchedLaunch, SessionIds
  <2>2. QED
    BY <1>1, <2>1, LaunchedType DEF ObserveLaunched
<1>3. ASSUME NEW p \in Pids PROVE ObserveExited(m, p) \in Manager
  BY <1>1, ExitedType DEF ObserveExited
<1>4. QED
  BY <1>1, <1>2, <1>3, RecordingFinishedType, AskedType, ShutDownType,
     SetDirectoryType, AgedType

(* The state the session manager and its surroundings are in has the types *)
(* of the source's fields, in every behaviour and for every catalogue of   *)
(* launches and every setting: no call leaves the manager holding a value  *)
(* its struct could not.                                                   *)
THEOREM TypeCorrect == Spec => []TypeOK
<1>1. Init => TypeOK
  <2>1. <<>> \in Seq(MatchedLaunch)
    OBVIOUS
  <2>2. QED
    BY <2>1 DEF Init, TypeOK, Manager
<1>2. TypeOK /\ [Next]_vars => TypeOK'
  <2>. SUFFICES ASSUME TypeOK, [Next]_vars PROVE TypeOK'
    OBVIOUS
  <2>1. Fresh \in Manager
    BY DEF TypeOK, Fresh, Manager
  <2>2. ASSUME NEW m \in Manager, NEW over, Call(m, over)
        PROVE  /\ manager' \in Manager
               /\ running' \subseteq RecordingRequest
               /\ stopRaised' \subseteq RecordingRequest
    BY <2>2 DEF Call, TypeOK, Manager
  <2>. USE CallTypes, <2>1
  <2>3. CASE Tick
    BY <2>3 DEF Tick, TypeOK
  <2>4. CASE Poll
    BY <2>2, <2>4 DEF Poll, TypeOK
  <2>5. ASSUME NEW l \in Launches, Launch(l) PROVE TypeOK'
    <3>1. live' \subseteq Pids /\ launched' \subseteq Launches /\ askedFor' \subseteq Pids
      BY <2>5 DEF Launch, TypeOK
    <3>2. QED
      BY <2>2, <2>5, <3>1 DEF Launch, TypeOK
  <2>6. ASSUME NEW p \in Pids, Exit(p) PROVE TypeOK'
    <3>1. live' \subseteq Pids /\ launched' \subseteq Launches /\ askedFor' \subseteq Pids
      BY <2>6 DEF Exit, TypeOK
    <3>2. QED
      BY <2>2, <2>6, <3>1 DEF Exit, TypeOK
  <2>7. ASSUME NEW r \in running, NEW outcome \in Outcomes, Finish(r, outcome)
        PROVE  TypeOK'
    BY <2>2, <2>7 DEF Finish, TypeOK
  <2>8. CASE AskStop
    <3>1. IsActive(manager) => manager.active.pid \in Pids
      BY DEF TypeOK, IsActive, Manager, Active
    <3>2. live' \subseteq Pids /\ launched' \subseteq Launches /\ askedFor' \subseteq Pids
      BY <2>8, <3>1 DEF AskStop, TypeOK
    <3>3. QED
      BY <2>2, <2>8, <3>2 DEF AskStop, TypeOK
  <2>9. CASE Stop
    BY <2>2, <2>9 DEF Stop, TypeOK
  <2>10. ASSUME NEW d \in Directories, ChooseDirectory(d) PROVE TypeOK'
    BY <2>2, <2>10 DEF ChooseDirectory, TypeOK
  <2>11. CASE UNCHANGED vars
    BY <2>11 DEF vars, TypeOK
  <2>12. QED
    BY <2>3, <2>4, <2>5, <2>6, <2>7, <2>8, <2>9, <2>10, <2>11 DEF Next
<1>3. QED
  BY <1>1, <1>2, PTL DEF Spec

-----------------------------------------------------------------------------
(* After shut_down.  A call of a manager that is shutting down leaves it   *)
(* shutting down and starts nothing: only begin_recording starts           *)
(* recordings, and each way to it looks at `stopping` first.               *)

Halted(m, n) == n \in Manager /\ n.stopping /\ n.starts = m.starts

LEMMA HaltedClose ==
  ASSUME NEW m \in Manager, m.active \in Active, m.stopping
  PROVE  Halted(m, CloseActive(m))
<1>. DEFINE e == [m EXCEPT !.active.session.ended = TRUE]
            p == Persist(e)
            c == [p EXCEPT !.active = None]
<1>1. CloseActive(m) = TakeHeldBackDirectory(c)
  BY DEF CloseActive
<1>2. /\ TakeHeldBackDirectory(c).stopping = m.stopping
      /\ TakeHeldBackDirectory(c).starts = m.starts
  BY DEF TakeHeldBackDirectory, Persist, Manager
<1>. HIDE DEF c
<1>3. QED
  BY <1>1, <1>2, CloseActiveType DEF Halted

LEMMA HaltedAsk ==
  ASSUME NEW m \in Manager, m.active \in Active, m.stopping
  PROVE  Halted(m, AskToStop(m))
BY AskToStopType DEF Halted, AskToStop, Manager

LEMMA HaltedPersist ==
  ASSUME NEW m \in Manager, m.active \in Active, m.stopping
  PROVE  Halted(m, Persist(m)) /\ Persist(m).active = m.active
BY PersistType DEF Halted, Persist, Manager

LEMMA HaltedResumed ==
  ASSUME NEW m \in Manager, m.stopping
  PROVE  Halted(m, Resumed(m))
<1>. DEFINE f == [m EXCEPT !.deferred = <<>>]
<1>1. Halted(m, f) /\ f.active = m.active
  <2>1. <<>> \in Seq(MatchedLaunch)
    OBVIOUS
  <2>2. QED
    BY <2>1 DEF Halted, Manager
<1>2. Resumed(m) = IF ~IsActive(m) THEN f
                   ELSE IF m.active.recording = None /\ m.active.idleFor # None
                   THEN CloseActive(Persist(f))
                   ELSE Persist(AskToStop(f))
  BY DEF Resumed
<1>. HIDE DEF f
<1>3. CASE IsActive(m)
  <2>1. f.active \in Active
    BY <1>1, <1>3 DEF IsActive, Manager
  <2>2. Halted(m, CloseActive(Persist(f)))
    BY <1>1, <2>1, HaltedPersist, HaltedClose DEF Halted
  <2>3. Halted(m, Persist(AskToStop(f)))
    BY <1>1, <2>1, AskToStopType, HaltedAsk, HaltedPersist DEF Halted
  <2>4. QED
    BY <1>1, <1>2, <2>2, <2>3
<1>4. QED
  BY <1>1, <1>2, <1>3

LEMMA HaltedAdvance ==
  ASSUME NEW m \in Manager, m.stopping
  PROVE  Halted(m, Advance(m))
<1>. DEFINE o == [m EXCEPT !.since = 0]
<1>1. Halted(m, o)
  <2>1. o \in Manager
    BY DEF Manager
  <2>2. QED
    BY <2>1 DEF Halted, Manager
<1>2. Advance(m) \in {o, Resumed(o)}
  BY DEF Advance
<1>. HIDE DEF o
<1>3. QED
  BY <1>1, <1>2, HaltedResumed DEF Halted

LEMMA HaltedFinished ==
  ASSUME NEW m \in Manager, m.stopping, NEW r, NEW outcome \in Outcomes
  PROVE  Halted(m, RecordingFinished(m, r, outcome))
<1>1. CASE ~Expects(m, r)
  BY <1>1, HaltedAdvance DEF RecordingFinished
<1>2. CASE Expects(m, r)
  <2>. DEFINE a == OutcomeArrived(m.active, outcome)
              w == [m EXCEPT !.active = a]
  <2>1. m.active \in Active
    BY <1>2 DEF Expects, IsActive, Manager
  <2>2. a \in Active
    BY <2>1, OutcomeType
  <2>3. EndRecording(m, outcome) = Persist(w)
    BY DEF EndRecording
  <2>. HIDE DEF a
  <2>4. Halted(m, w) /\ w.active \in Active
    BY <2>2, WithActiveType DEF Halted, Manager
  <2>. HIDE DEF w
  <2>5. Halted(m, Persist(w)) /\ Persist(w).active \in Active
    BY <2>4, HaltedPersist DEF Halted
  <2>6. Halted(m, CloseActive(Persist(w)))
    BY <2>5, HaltedClose DEF Halted
  <2>7. RecordingFinished(m, r, outcome) = Advance(CloseActive(Persist(w)))
    BY <1>2, <2>3 DEF RecordingFinished
  <2>8. QED
    BY <2>6, <2>7, HaltedAdvance DEF Halted
<1>3. QED
  BY <1>1, <1>2

LEMMA HaltedCalls ==
  ASSUME NEW m \in Manager, m.stopping
  PROVE  /\ Advance(m).starts = m.starts
         /\ \A l : ObserveLaunched(m, l).starts = m.starts
         /\ \A p : ObserveExited(m, p).starts = m.starts
         /\ \A r : \A outcome \in Outcomes :
              RecordingFinished(m, r, outcome).starts = m.starts
         /\ AskedToStopRecording(m).starts = m.starts
         /\ \A d : SetRecordingDirectory(m, d).starts = m.starts
<1>1. Halted(m, Advance(m))
  BY HaltedAdvance
<1>2. AskedToStopRecording(m).starts = m.starts
  BY DEF AskedToStopRecording, Manager
<1>3. \A d : SetRecordingDirectory(m, d).starts = m.starts
  BY DEF SetRecordingDirectory, Manager
<1>4. QED
  BY <1>1, <1>2, <1>3, HaltedFinished DEF Halted, ObserveLaunched, ObserveExited

(* Whatever the driver calls after shut_down, in whatever order, no        *)
(* recording starts: a launch, a timer that was already due, a resume from *)
(* suspend and the outcome of the last recording included.                 *)
THEOREM ShutDownIsFinal == Spec => NothingStartsAfterShutDown
<1>1. TypeOK /\ [Next]_vars => [manager.stopping => running' \subseteq running]_vars
  <2>. SUFFICES ASSUME TypeOK, Next, manager.stopping
                PROVE  running' \subseteq running
    BY DEF vars
  <2>1. Fresh \in Manager /\ Fresh.stopping /\ Fresh.starts = {}
    BY DEF TypeOK, Fresh, Manager
  <2>2. ASSUME NEW m, NEW over, Call(m, over), m.starts = {}
        PROVE  running' \subseteq running
    BY <2>2 DEF Call
  <2>. USE HaltedCalls, <2>1
  <2>3. CASE Tick
    BY <2>3 DEF Tick
  <2>4. CASE Poll
    BY <2>2, <2>4 DEF Poll
  <2>5. ASSUME NEW l \in Launches, Launch(l) PROVE running' \subseteq running
    BY <2>2, <2>5 DEF Launch
  <2>6. ASSUME NEW p \in Pids, Exit(p) PROVE running' \subseteq running
    BY <2>2, <2>6 DEF Exit
  <2>7. ASSUME NEW r \in running, NEW outcome \in Outcomes, Finish(r, outcome)
        PROVE  running' \subseteq running
    BY <2>2, <2>7 DEF Finish
  <2>8. CASE AskStop
    BY <2>2, <2>8 DEF AskStop
  <2>9. CASE Stop
    BY <2>9 DEF Stop
  <2>10. ASSUME NEW d \in Directories, ChooseDirectory(d)
         PROVE  running' \subseteq running
    BY <2>2, <2>10 DEF ChooseDirectory
  <2>11. QED
    BY <2>3, <2>4, <2>5, <2>6, <2>7, <2>8, <2>9, <2>10 DEF Next
<1>2. QED
  BY <1>1, TypeCorrect, PTL DEF Spec, NothingStartsAfterShutDown

-----------------------------------------------------------------------------
(* One encoder.  OneEncoder is not inductive: that the session has no      *)
(* recording when pending_start comes due, or when idle_since runs out, is *)
(* not in it, and is what keeps the clock from starting a recording over a *)
(* running one or closing the session under it.                            *)

(* pending_start waits only on a game that is alive and unrecorded,        *)
(* idle_since only on one that is gone and unrecorded.                     *)
Timed(a) ==
    /\ a.dueIn # None => a.alive /\ a.recording = None
    /\ a.idleFor # None => ~a.alive /\ a.recording = None

(* The manager m and the recordings R owed an outcome, once the driver has *)
(* done what m asks for, agree.                                            *)
Sound(m, R) ==
    /\ m \in Manager
    /\ IsActive(m) => Timed(m.active)
    /\ \A r \in R \cup m.starts : Expects(m, r)
    /\ \A r, s \in R \cup m.starts : r = s
    /\ IsActive(m) /\ m.active.recording # None => R \cup m.starts # {}

IInv == TypeOK /\ Sound(Fresh, running)

LEMMA ActiveType ==
  ASSUME NEW m \in Manager, IsActive(m)
  PROVE  m.active \in Active
BY DEF IsActive, Manager

(* A manager that is not recording owes nothing.                           *)
LEMMA Quiet ==
  ASSUME NEW m, NEW R \in SUBSET RecordingRequest, Sound(m, R),
         ~IsActive(m) \/ m.active.recording = None
  PROVE  R = {} /\ m.starts = {}
<1>1. \A r \in R \cup m.starts : r.index \in Nat
  BY DEF Sound, Manager, RecordingRequest
<1>2. QED
  BY <1>1 DEF Sound, Expects

(* What touches neither the session's identity nor its recording, and      *)
(* starts nothing, keeps the two in agreement.                             *)
LEMMA SameRecording ==
  ASSUME NEW m, NEW R, Sound(m, R), IsActive(m),
         NEW n \in Manager, n.starts = m.starts, IsActive(n),
         n.active.session.id = m.active.session.id,
         n.active.recording = m.active.recording,
         Timed(n.active)
  PROVE  Sound(n, R)
BY DEF Sound, Expects

LEMMA SameActive ==
  ASSUME NEW m, NEW R, Sound(m, R),
         NEW n \in Manager, n.starts = m.starts, n.active = m.active
  PROVE  Sound(n, R)
BY DEF Sound, Expects, IsActive

(* A manager that is not recording, before anything is owed.               *)
LEMMA AtRest ==
  ASSUME NEW m \in Manager, m.starts = {},
         IsActive(m) => m.active.recording = None /\ Timed(m.active)
  PROVE  Sound(m, {})
BY DEF Sound

LEMMA SoundPersist ==
  ASSUME NEW m, NEW R, Sound(m, R), IsActive(m)
  PROVE  Sound(Persist(m), R) /\ Persist(m).active = m.active
<1>1. m \in Manager /\ m.active \in Active
  BY ActiveType DEF Sound
<1>2. Persist(m) \in Manager /\ Persist(m).active = m.active
  BY <1>1, PersistType
<1>3. Persist(m).starts = m.starts
  BY <1>1 DEF Persist, Manager
<1>4. QED
  BY <1>2, <1>3, SameActive

LEMMA SoundAsk ==
  ASSUME NEW m, NEW R, Sound(m, R), IsActive(m)
  PROVE  Sound(AskToStop(m), R) /\ IsActive(AskToStop(m))
<1>1. m \in Manager /\ m.active \in Active
  BY ActiveType DEF Sound
<1>2. AskToStop(m) \in Manager /\ AskToStop(m).active \in Active
  BY <1>1, AskToStopType
<1>3. IsActive(AskToStop(m))
  BY <1>2 DEF IsActive
<1>4. /\ AskToStop(m).starts = m.starts
      /\ AskToStop(m).active.session = m.active.session
      /\ AskToStop(m).active.recording = m.active.recording
      /\ Timed(m.active) => Timed(AskToStop(m).active)
  BY <1>1 DEF AskToStop, Manager, Active, Timed
<1>5. AskToStop(m).active.session.id = m.active.session.id
  BY <1>4
<1>6. Timed(AskToStop(m).active)
  BY <1>4 DEF Sound
<1>7. QED
  BY <1>2, <1>3, <1>4, <1>5, <1>6, SameRecording

LEMMA SoundBegin ==
  ASSUME NEW m \in Manager, IsActive(m), m.starts = {}, Timed(m.active),
         m.active.recording = None, m.active.idleFor = None
  PROVE  Sound(BeginRecording(m), {})
<1>1. m.active \in Active
  BY ActiveType
<1>2. BeginRecording(m) \in Manager /\ BeginRecording(m).active \in Active
  BY <1>1, BeginRecordingType
<1>3. CASE AtLimit(m)
  <2>. DEFINE w == [m EXCEPT !.active.dueIn = None, !.active.limitReported = TRUE]
  <2>1. BeginRecording(m) = Persist(w)
    BY <1>3 DEF BeginRecording
  <2>2. /\ Persist(w).starts = {}
        /\ Persist(w).active.recording = None
        /\ Timed(Persist(w).active)
    BY <1>1 DEF Persist, Manager, Active, Timed
  <2>. HIDE DEF w
  <2>3. QED
    BY <1>2, <2>1, <2>2, AtRest
<1>4. CASE ~AtLimit(m)
  <2>. DEFINE b == Begun(m)
              w == [m EXCEPT !.active = b, !.starts = m.starts \cup {Request(b)}]
  <2>1. BeginRecording(m) = Persist(w)
    BY <1>4 DEF BeginRecording
  <2>2. b \in Active /\ b.recording # None
    BY <1>1, BegunType
  <2>3. b.dueIn = None /\ b.idleFor = None
    BY <1>1 DEF Begun, Active
  <2>. HIDE DEF b
  <2>4. Persist(w).starts = {Request(b)} /\ Persist(w).active = b
    BY DEF Persist, Manager
  <2>. HIDE DEF w
  <2>5. Expects(Persist(w), Request(b))
    BY <2>2, <2>4 DEF Expects, IsActive, Request
  <2>6. QED
    BY <1>2, <2>1, <2>2, <2>3, <2>4, <2>5 DEF Sound, Timed
<1>5. QED
  BY <1>3, <1>4

LEMMA SoundStart ==
  ASSUME NEW m \in Manager, NEW l \in MatchedLaunch, m.starts = {}
  PROVE  Sound(StartSession(m, l), {})
<1>. DEFINE a == [session |-> [id |-> l.id, game |-> l.game,
                               recordings |-> <<>>, ended |-> FALSE],
                  pid |-> l.pid, alive |-> TRUE, liveChildren |-> l.children,
                  recording |-> None, stopping |-> FALSE, dueIn |-> None,
                  idleFor |-> None, startedRecordings |-> 0, noWindow |-> FALSE,
                  stopAskedFor |-> FALSE, limitReported |-> FALSE]
            w == [m EXCEPT !.active = a]
<1>1. a \in Active
  BY DEF Active, Session, MatchedLaunch
<1>2. StartSession(m, l) = BeginRecording(w)
  BY DEF StartSession
<1>3. Timed(a) /\ a.recording = None /\ a.idleFor = None
  BY DEF Timed
<1>. HIDE DEF a
<1>4. w \in Manager /\ w.active = a /\ w.starts = {}
  BY <1>1, WithActiveType DEF Manager
<1>. HIDE DEF w
<1>5. IsActive(w)
  BY <1>1, <1>4 DEF IsActive
<1>6. QED
  BY <1>2, <1>3, <1>4, <1>5, SoundBegin

(* A session is closed only once it owes nothing, so what follows it may   *)
(* start.                                                                  *)
LEMMA SoundClose ==
  ASSUME NEW m \in Manager, IsActive(m), m.starts = {}
  PROVE  Sound(CloseActive(m), {})
<1>. DEFINE e == [m EXCEPT !.active.session.ended = TRUE]
            c == [Persist(e) EXCEPT !.active = None]
            closed == TakeHeldBackDirectory(c)
            n == Len(m.deferred)
            next == [closed EXCEPT !.deferred = SubSeq(closed.deferred, 1, n - 1)]
<1>1. m.active \in Active
  BY ActiveType
<1>2. CloseActive(m) = IF m.stopping \/ n = 0 THEN closed
                       ELSE StartSession(next, m.deferred[n])
  BY DEF CloseActive
<1>3. /\ closed.starts = {} /\ closed.active = None
      /\ closed.deferred = m.deferred
  BY DEF TakeHeldBackDirectory, Persist, Manager
<1>4. closed \in Manager
  <2>. DEFINE a == [m.active EXCEPT !.session =
                      [m.active.session EXCEPT !.ended = TRUE]]
  <2>1. a \in Active
    BY <1>1 DEF Active, Session
  <2>2. e = [m EXCEPT !.active = a]
    OBVIOUS
  <2>. HIDE DEF a, e
  <2>3. Persist(e) \in Manager
    BY <2>1, <2>2, WithActiveType, PersistType
  <2>4. c \in Manager
    BY <2>3 DEF Manager
  <2>. HIDE DEF c
  <2>5. QED
    BY <2>4, TakeHeldBackType
<1>5. CASE m.stopping \/ n = 0
  BY <1>2, <1>3, <1>4, <1>5, AtRest DEF IsActive
<1>6. CASE ~(m.stopping \/ n = 0)
  <2>1. m.deferred \in Seq(MatchedLaunch) /\ n \in 1..Len(m.deferred)
    BY <1>6 DEF Manager
  <2>2. SubSeq(m.deferred, 1, n - 1) \in Seq(MatchedLaunch)
    BY <2>1, SubSeqProperties
  <2>3. m.deferred[n] \in MatchedLaunch
    BY <2>1
  <2>. HIDE DEF closed
  <2>4. next \in Manager /\ next.starts = {}
    BY <1>3, <1>4, <2>2 DEF Manager
  <2>. HIDE DEF next, n
  <2>5. QED
    BY <1>2, <1>6, <2>3, <2>4, SoundStart
<1>7. QED
  BY <1>5, <1>6

LEMMA SoundResumed ==
  ASSUME NEW m, NEW R \in SUBSET RecordingRequest, Sound(m, R)
  PROVE  Sound(Resumed(m), R)
<1>. DEFINE f == [m EXCEPT !.deferred = <<>>]
<1>1. Sound(f, R) /\ f.active = m.active /\ f.starts = m.starts
  <2>1. <<>> \in Seq(MatchedLaunch)
    OBVIOUS
  <2>2. f \in Manager /\ f.active = m.active /\ f.starts = m.starts
    BY <2>1 DEF Sound, Manager
  <2>3. QED
    BY <2>2, SameActive
<1>2. Resumed(m) = IF ~IsActive(m) THEN f
                   ELSE IF m.active.recording = None /\ m.active.idleFor # None
                   THEN CloseActive(Persist(f))
                   ELSE Persist(AskToStop(f))
  BY DEF Resumed
<1>. HIDE DEF f
<1>3. CASE IsActive(m)
  <2>1. IsActive(f)
    BY <1>1, <1>3 DEF IsActive
  <2>2. Sound(Persist(f), R) /\ IsActive(Persist(f))
    BY <1>1, <2>1, SoundPersist DEF IsActive
  <2>3. ASSUME m.active.recording = None PROVE Sound(CloseActive(Persist(f)), R)
    <3>1. Persist(f).active.recording = None
      BY <1>1, <2>1, <2>3, SoundPersist
    <3>2. R = {} /\ Persist(f).starts = {}
      BY <2>2, <3>1, Quiet
    <3>3. QED
      BY <2>2, <3>2, SoundClose DEF Sound
  <2>4. Sound(Persist(AskToStop(f)), R)
    BY <1>1, <2>1, SoundAsk, SoundPersist
  <2>5. QED
    BY <1>1, <1>2, <2>3, <2>4
<1>4. QED
  BY <1>1, <1>2, <1>3

(* The clock: what was due finds no recording in its way.                  *)
LEMMA SoundAdvance ==
  ASSUME NEW m, NEW R \in SUBSET RecordingRequest, Sound(m, R)
  PROVE  Sound(Advance(m), R)
<1>. DEFINE o == [m EXCEPT !.since = 0]
<1>1. Sound(o, R)
  <2>1. o \in Manager /\ o.active = m.active /\ o.starts = m.starts
    BY DEF Sound, Manager
  <2>2. QED
    BY <2>1, SameActive
<1>2. ASSUME NEW n, Sound(n, R) PROVE Sound(CloseExpired(n), R)
  <2>1. CASE IsActive(n) /\ n.active.idleFor = RestartGrace
    <3>1. n.active.recording = None
      BY <1>2, <2>1 DEF Sound, Timed
    <3>2. R = {} /\ n.starts = {}
      BY <1>2, <3>1, Quiet
    <3>3. QED
      BY <1>2, <2>1, <3>2, SoundClose DEF CloseExpired, Sound
  <2>2. QED
    BY <1>2, <2>1 DEF CloseExpired
<1>3. ASSUME NEW n, Sound(n, R) PROVE Sound(BeginDue(n), R)
  <2>1. CASE IsActive(n) /\ n.active.dueIn = 0
    <3>1. Timed(n.active) /\ n.active.recording = None /\ n.active.idleFor = None
      BY <1>3, <2>1 DEF Sound, Timed
    <3>2. R = {} /\ n.starts = {}
      BY <1>3, <3>1, Quiet
    <3>3. QED
      BY <1>3, <2>1, <3>1, <3>2, SoundBegin DEF BeginDue, Sound
  <2>2. QED
    BY <1>3, <2>1 DEF BeginDue
<1>4. \E w \in {o, Resumed(o)} : Advance(m) \in {w, BeginDue(CloseExpired(w))}
  BY DEF Advance
<1>. HIDE DEF o
<1>5. \A w \in {o, Resumed(o)} : Sound(w, R)
  BY <1>1, SoundResumed
<1>6. QED
  BY <1>2, <1>3, <1>4, <1>5

(* A game that comes back joins its session; it records anew only if its   *)
(* last recording has been accounted for.                                  *)
LEMMA SoundRejoin ==
  ASSUME NEW m, NEW R \in SUBSET RecordingRequest, Sound(m, R), IsActive(m),
         ~m.active.alive, NEW l \in MatchedLaunch
  PROVE  Sound(Rejoin(m, l), R)
<1>. DEFINE a == [m.active EXCEPT !.pid = l.pid, !.alive = TRUE,
                   !.liveChildren = l.children, !.idleFor = None,
                   !.noWindow = FALSE, !.stopAskedFor = FALSE]
            w == [m EXCEPT !.active = a]
            j == Rejoined(m, l)
<1>1. m \in Manager /\ m.active \in Active
  BY ActiveType DEF Sound
<1>2. a \in Active
  BY <1>1 DEF Active, MatchedLaunch
<1>3. /\ a.dueIn = None /\ a.idleFor = None
      /\ a.recording = m.active.recording /\ a.session = m.active.session
  BY <1>1 DEF Sound, Timed, Active
<1>4. j = Persist(w)
  BY DEF Rejoined
<1>. HIDE DEF a
<1>5. w \in Manager /\ w.active = a /\ w.starts = m.starts
  BY <1>1, <1>2, WithActiveType DEF Manager
<1>. HIDE DEF w
<1>6. IsActive(w) /\ Timed(w.active)
  BY <1>2, <1>3, <1>5 DEF IsActive, Timed
<1>7. Sound(w, R)
  BY <1>3, <1>5, <1>6, SameRecording
<1>8. Sound(j, R) /\ j.active = a
  BY <1>4, <1>5, <1>6, <1>7, SoundPersist
<1>9. Rejoin(m, l) = IF m.active.recording = None THEN BeginRecording(j) ELSE j
  BY DEF Rejoin
<1>. HIDE DEF j
<1>10. ASSUME m.active.recording = None PROVE Sound(BeginRecording(j), R)
  <2>1. R = {} /\ j.starts = {}
    BY <1>3, <1>8, <1>10, Quiet
  <2>2. IsActive(j) /\ Timed(j.active) /\ j \in Manager
    BY <1>2, <1>3, <1>8 DEF IsActive, Sound, Timed
  <2>3. QED
    BY <1>3, <1>8, <1>10, <2>1, <2>2, SoundBegin
<1>11. QED
  BY <1>8, <1>9, <1>10

LEMMA SoundLaunched ==
  ASSUME NEW m, NEW R \in SUBSET RecordingRequest, Sound(m, R),
         NEW l \in MatchedLaunch
  PROVE  Sound(Launched(m, l), R)
<1>1. CASE ~IsActive(m)
  <2>1. R = {} /\ m.starts = {}
    BY <1>1, Quiet
  <2>2. QED
    BY <1>1, <2>1, SoundStart DEF Launched, Sound
<1>2. CASE IsActive(m)
  <2>1. Sound(Defer(m, l), R)
    <3>. DEFINE p == Persist(m)
    <3>1. Sound(p, R) /\ p \in Manager
      <4>1. Sound(p, R)
        BY <1>2, SoundPersist
      <4>2. QED
        BY <4>1 DEF Sound
    <3>2. Append(Without(p.deferred, l.pid), l) \in Seq(MatchedLaunch)
      <4>1. p.deferred \in Seq(MatchedLaunch)
        BY <3>1 DEF Manager
      <4>2. QED
        BY <4>1, WithoutType
    <3>3. Defer(m, l) = [p EXCEPT !.deferred = Append(Without(p.deferred, l.pid), l)]
      BY DEF Defer
    <3>. HIDE DEF p
    <3>4. /\ Defer(m, l) \in Manager
          /\ Defer(m, l).active = p.active /\ Defer(m, l).starts = p.starts
      BY <3>1, <3>2, <3>3 DEF Manager
    <3>5. QED
      BY <3>1, <3>4, SameActive
  <2>2. QED
    BY <1>2, <2>1, SoundRejoin DEF Launched
<1>3. QED
  BY <1>1, <1>2

LEMMA SoundSubjectExited ==
  ASSUME NEW m, NEW R, Sound(m, R), IsActive(m)
  PROVE  Sound(SubjectExited(m), R)
<1>. DEFINE a == [m.active EXCEPT !.alive = FALSE, !.dueIn = None]
            w == [m EXCEPT !.active = a]
            gone == Persist(w)
            idle == [a EXCEPT !.idleFor = 0]
<1>1. m \in Manager /\ m.active \in Active
  BY ActiveType DEF Sound
<1>2. a \in Active /\ idle \in Active
  <2>1. a \in Active
    BY <1>1 DEF Active
  <2>. HIDE DEF a
  <2>2. QED
    BY <2>1 DEF Active
<1>3. SubjectExited(m) = IF m.active.recording # None THEN AskToStop(gone)
                         ELSE IF m.active.liveChildren = {}
                         THEN [gone EXCEPT !.active =
                                [gone.active EXCEPT !.idleFor = 0]]
                         ELSE gone
  BY <1>1 DEF SubjectExited, Manager
<1>4. /\ Timed(a) /\ (m.active.recording = None => Timed(idle))
      /\ a.session = m.active.session /\ a.recording = m.active.recording
      /\ idle.session = m.active.session /\ idle.recording = m.active.recording
  BY <1>1 DEF Sound, Timed, Active
<1>. HIDE DEF a
<1>5. w \in Manager /\ w.active = a /\ w.starts = m.starts
  BY <1>1, <1>2, WithActiveType DEF Manager
<1>. HIDE DEF w
<1>6. IsActive(w)
  BY <1>2, <1>5 DEF IsActive
<1>7. Sound(w, R)
  BY <1>4, <1>5, <1>6, SameRecording
<1>8. Sound(gone, R) /\ gone.active = a
  BY <1>5, <1>6, <1>7, SoundPersist
<1>. HIDE DEF gone
<1>9. IsActive(gone) /\ gone \in Manager
  BY <1>2, <1>8 DEF IsActive, Sound
<1>10. ASSUME m.active.recording = None
       PROVE  Sound([gone EXCEPT !.active = idle], R)
  <2>. DEFINE z == [gone EXCEPT !.active = idle]
  <2>. HIDE DEF idle
  <2>1. z \in Manager /\ z.active = idle /\ z.starts = gone.starts
    BY <1>2, <1>9, WithActiveType DEF Manager
  <2>. HIDE DEF z
  <2>2. IsActive(z)
    BY <1>2, <2>1 DEF IsActive
  <2>3. QED
    BY <1>4, <1>8, <1>9, <1>10, <2>1, <2>2, SameRecording DEF z
<1>11. QED
  BY <1>3, <1>8, <1>9, <1>10, SoundAsk

LEMMA SoundChildExited ==
  ASSUME NEW m, NEW R, Sound(m, R), IsActive(m), NEW p
  PROVE  Sound(ChildExited(m, p), R)
<1>. DEFINE a == [m.active EXCEPT !.liveChildren = m.active.liveChildren \ {p}]
            idle == [a EXCEPT !.idleFor = 0]
            w == [m EXCEPT !.active = a]
            n == ChildExited(m, p)
<1>1. m \in Manager /\ m.active \in Active
  BY ActiveType DEF Sound
<1>2. a \in Active /\ idle \in Active
  <2>1. m.active.liveChildren \ {p} \in SUBSET Pids
    BY <1>1 DEF Active
  <2>2. a \in Active
    BY <1>1, <2>1 DEF Active
  <2>. HIDE DEF a
  <2>3. QED
    BY <2>2 DEF Active
<1>3. /\ Timed(a) /\ (~a.alive /\ a.recording = None => Timed(idle))
      /\ a.session = m.active.session /\ a.recording = m.active.recording
      /\ idle.session = m.active.session /\ idle.recording = m.active.recording
  BY <1>1 DEF Sound, Timed, Active
<1>4. w.active = a
  BY <1>1 DEF Manager
<1>. HIDE DEF a
<1>5. \/ n = [m EXCEPT !.active = a]
      \/ n = [m EXCEPT !.active = idle] /\ ~a.alive /\ a.recording = None
  BY <1>4 DEF ChildExited, a
<1>. HIDE DEF idle
<1>6. \A x \in {a, idle} :
        LET z == [m EXCEPT !.active = x] IN
        z \in Manager /\ z.active = x /\ z.starts = m.starts
  BY <1>1, <1>2, WithActiveType DEF Manager
<1>7. /\ n \in Manager /\ n.starts = m.starts /\ n.active \in Active
      /\ n.active.session = m.active.session
      /\ n.active.recording = m.active.recording
      /\ Timed(n.active)
  BY <1>2, <1>3, <1>5, <1>6
<1>. HIDE DEF n
<1>8. IsActive(n)
  BY <1>7 DEF IsActive
<1>9. QED
  BY <1>7, <1>8, SameRecording DEF n

LEMMA SoundExited ==
  ASSUME NEW m, NEW R, Sound(m, R), NEW p \in Pids
  PROVE  Sound(Exited(m, p), R)
<1>. DEFINE f == [m EXCEPT !.deferred = Informed(m.deferred, p)]
<1>1. Sound(f, R) /\ f.active = m.active
  <2>1. Informed(m.deferred, p) \in Seq(MatchedLaunch)
    BY InformedType DEF Sound, Manager
  <2>2. f \in Manager /\ f.active = m.active /\ f.starts = m.starts
    BY <2>1 DEF Sound, Manager
  <2>3. QED
    BY <2>2, SameActive
<1>2. Exited(m, p) = IF ~IsActive(m) THEN f
                     ELSE IF m.active.pid = p /\ m.active.alive
                     THEN SubjectExited(f) ELSE ChildExited(f, p)
  BY DEF Exited
<1>. HIDE DEF f
<1>3. IsActive(m) => IsActive(f)
  BY <1>1 DEF IsActive
<1>4. QED
  BY <1>1, <1>2, <1>3, SoundSubjectExited, SoundChildExited

(* The outcome of the one recording that runs: nothing is owed after it.   *)
LEMMA EndedRecording ==
  ASSUME NEW m \in Manager, IsActive(m), m.starts = {}, Timed(m.active),
         m.active.recording # None, NEW outcome \in Outcomes
  PROVE  /\ Sound(EndRecording(m, outcome), {})
         /\ IsActive(EndRecording(m, outcome))
         /\ EndRecording(m, outcome).starts = {}
<1>. DEFINE a == OutcomeArrived(m.active, outcome)
            w == [m EXCEPT !.active = a]
            done == Persist(w)
            due == [a EXCEPT !.dueIn = RestartDelayAfter(outcome)]
            idle == [a EXCEPT !.idleFor = 0]
            n == EndRecording(m, outcome)
<1>1. a \in Active
  BY ActiveType, OutcomeType
<1>2. /\ a.recording = None /\ a.dueIn = None /\ a.idleFor = None
      /\ a.alive = m.active.alive
  BY ActiveType DEF OutcomeArrived, Timed, Active
<1>. HIDE DEF a
<1>3. w \in Manager /\ w.active = a /\ w.starts = {}
  BY <1>1, WithActiveType DEF Manager
<1>. HIDE DEF w
<1>4. done \in Manager /\ done.active = a /\ done.starts = {}
  BY <1>1, <1>3, PersistType DEF Persist, Manager
<1>5. /\ due \in Active /\ due.recording = None /\ (a.alive => Timed(due))
      /\ idle \in Active /\ idle.recording = None /\ (~a.alive => Timed(idle))
      /\ Timed(a)
  BY <1>1, <1>2 DEF Active, RestartDelayAfter, Timed
<1>6. \/ n = done
      \/ n = [done EXCEPT !.active = due] /\ a.alive
      \/ n = [done EXCEPT !.active = idle] /\ ~a.alive
  <2>1. \/ n = done
        \/ n = [done EXCEPT !.active.dueIn = RestartDelayAfter(outcome)] /\ a.alive
        \/ n = [done EXCEPT !.active.idleFor = 0] /\ ~a.alive
    BY DEF EndRecording, a, w
  <2>. HIDE DEF done, n
  <2>2. QED
    BY <1>4, <2>1
<1>. HIDE DEF done, due, idle
<1>7. \A x \in {due, idle} :
        LET z == [done EXCEPT !.active = x] IN
        z \in Manager /\ z.active = x /\ z.starts = {}
  BY <1>4, <1>5, WithActiveType DEF Manager
<1>8. /\ n \in Manager /\ n.starts = {} /\ n.active \in Active
      /\ n.active.recording = None /\ Timed(n.active)
  BY <1>1, <1>2, <1>4, <1>5, <1>6, <1>7
<1>. HIDE DEF n
<1>9. Sound(n, {}) /\ IsActive(n)
  BY <1>8, AtRest DEF IsActive
<1>10. QED
  BY <1>8, <1>9 DEF n

LEMMA SoundFinished ==
  ASSUME NEW m, NEW R \in SUBSET RecordingRequest, Sound(m, R), m.starts = {},
         NEW r \in R, NEW outcome \in Outcomes
  PROVE  Sound(RecordingFinished(m, r, outcome), R \ {r})
<1>. DEFINE done == EndRecording(m, outcome)
<1>1. R \ {r} = {} /\ Expects(m, r)
  BY DEF Sound
<1>2. m \in Manager /\ IsActive(m) /\ Timed(m.active) /\ m.active.recording # None
  BY <1>1 DEF Sound, Expects, RecordingRequest
<1>3. Sound(done, {}) /\ IsActive(done) /\ done.starts = {}
  BY <1>2, EndedRecording
<1>4. RecordingFinished(m, r, outcome) =
        Advance(IF m.stopping THEN CloseActive(done) ELSE done)
  BY <1>1 DEF RecordingFinished
<1>. HIDE DEF done
<1>5. Sound(CloseActive(done), {})
  BY <1>3, SoundClose DEF Sound
<1>6. QED
  BY <1>1, <1>3, <1>4, <1>5, SoundAdvance

LEMMA SoundAsked ==
  ASSUME NEW m, NEW R, Sound(m, R)
  PROVE  Sound(AskedToStopRecording(m), R)
<1>. DEFINE a == [m.active EXCEPT !.stopAskedFor = TRUE, !.dueIn = None]
            n == [m EXCEPT !.active = a]
<1>1. CASE IsActive(m)
  <2>1. m \in Manager /\ m.active \in Active
    BY <1>1, ActiveType DEF Sound
  <2>2. a \in Active
    BY <2>1 DEF Active
  <2>3. /\ Timed(a) /\ a.session = m.active.session
        /\ a.recording = m.active.recording
    BY <1>1, <2>1 DEF Sound, Timed, Active
  <2>4. AskedToStopRecording(m) = n
    BY <1>1, <2>1 DEF AskedToStopRecording, Manager
  <2>. HIDE DEF a
  <2>5. n \in Manager /\ n.active = a /\ n.starts = m.starts
    BY <2>1, <2>2, WithActiveType DEF Manager
  <2>. HIDE DEF n
  <2>6. IsActive(n)
    BY <2>2, <2>5 DEF IsActive
  <2>7. QED
    BY <1>1, <2>3, <2>4, <2>5, <2>6, SameRecording
<1>2. QED
  BY <1>1 DEF AskedToStopRecording

LEMMA SoundShutDown ==
  ASSUME NEW m, NEW R \in SUBSET RecordingRequest, Sound(m, R)
  PROVE  Sound(ShutDown(m), R)
<1>. DEFINE halted == [m EXCEPT !.stopping = TRUE, !.deferred = <<>>]
            a == [m.active EXCEPT !.dueIn = None]
            n == [halted EXCEPT !.active = a]
<1>1. Sound(halted, R) /\ halted.active = m.active
  <2>1. <<>> \in Seq(MatchedLaunch)
    OBVIOUS
  <2>2. halted \in Manager /\ halted.active = m.active /\ halted.starts = m.starts
    BY <2>1 DEF Sound, Manager
  <2>3. QED
    BY <2>2, SameActive
<1>2. ShutDown(m) = IF ~IsActive(m) THEN halted
                    ELSE IF m.active.recording = None THEN CloseActive(halted)
                    ELSE AskToStop(n)
  BY <1>1 DEF ShutDown
<1>. HIDE DEF halted
<1>3. CASE IsActive(m)
  <2>1. IsActive(halted) /\ halted \in Manager /\ m.active \in Active
    BY <1>1, <1>3, ActiveType DEF IsActive, Sound
  <2>2. ASSUME m.active.recording = None PROVE Sound(CloseActive(halted), R)
    <3>1. R = {} /\ halted.starts = {}
      BY <1>1, <2>2, Quiet
    <3>2. QED
      BY <2>1, <3>1, SoundClose
  <2>3. Sound(n, R) /\ IsActive(n)
    <3>1. a \in Active
      BY <2>1 DEF Active
    <3>2. /\ Timed(a) /\ a.session = m.active.session
          /\ a.recording = m.active.recording
      BY <1>1, <2>1 DEF Sound, Timed, Active
    <3>. HIDE DEF a
    <3>3. n \in Manager /\ n.active = a /\ n.starts = halted.starts
      BY <2>1, <3>1, WithActiveType DEF Manager
    <3>. HIDE DEF n
    <3>4. IsActive(n)
      BY <3>1, <3>3 DEF IsActive
    <3>5. QED
      BY <1>1, <2>1, <3>2, <3>3, <3>4, SameRecording
  <2>4. QED
    BY <1>2, <1>3, <2>2, <2>3, SoundAsk
<1>4. QED
  BY <1>1, <1>2, <1>3

LEMMA SoundSetDirectory ==
  ASSUME NEW m, NEW R, Sound(m, R), NEW d \in Directories
  PROVE  Sound(SetRecordingDirectory(m, d), R)
<1>. DEFINE n == SetRecordingDirectory(m, d)
<1>1. n \in Manager
  BY SetDirectoryType DEF Sound
<1>2. n.active = m.active /\ n.starts = m.starts
  BY DEF Sound, SetRecordingDirectory, Manager
<1>. HIDE DEF n
<1>3. QED
  BY <1>1, <1>2, SameActive DEF n

LEMMA SoundAged ==
  ASSUME NEW m, NEW R, Sound(m, R)
  PROVE  Sound(Aged(m), R)
<1>. DEFINE n == Aged(m)
<1>1. m \in Manager /\ n \in Manager
  BY AgedType DEF Sound
<1>2. CASE IsActive(m)
  <2>1. \A most, age : /\ Older(None, most) = None
                       /\ Nearer(None) = None
    BY DEF Older, Nearer
  <2>2. /\ n.starts = m.starts
        /\ n.active = [m.active EXCEPT !.idleFor = Older(m.active.idleFor, RestartGrace),
                                       !.dueIn = Nearer(m.active.dueIn)]
    BY <1>1, <1>2 DEF Aged, Manager, IsActive
  <2>3. m.active \in Active /\ Timed(m.active)
    BY <1>2, ActiveType DEF Sound
  <2>4. /\ n.active.session.id = m.active.session.id
        /\ n.active.recording = m.active.recording
        /\ Timed(n.active)
    BY <2>1, <2>2, <2>3 DEF Active, Timed
  <2>5. IsActive(n)
    <3>1. \A most \in Nat : \A age \in 0..most \cup {None} :
            /\ Older(age, most) \in 0..most \cup {None}
            /\ Nearer(age) \in 0..most \cup {None}
      BY DEF Older, Nearer
    <3>2. /\ Older(m.active.idleFor, RestartGrace) \in 0..RestartGrace \cup {None}
          /\ Nearer(m.active.dueIn) \in 0..RecordingRestartDelay \cup {None}
      BY <2>3, <3>1 DEF Active
    <3>3. n.active \in Active
      BY <2>2, <2>3, <3>2 DEF Active
    <3>4. QED
      BY <3>3 DEF IsActive
  <2>. HIDE DEF n
  <2>6. QED
    BY <1>1, <1>2, <2>2, <2>4, <2>5, SameRecording DEF n
<1>3. CASE ~IsActive(m)
  <2>1. n.starts = m.starts /\ n.active = m.active
    BY <1>1, <1>3 DEF Aged, Manager
  <2>. HIDE DEF n
  <2>2. QED
    BY <1>1, <2>1, SameActive DEF n
<1>4. QED
  BY <1>2, <1>3

(* What the driver does with the actions of a call.                        *)
LEMMA SoundApplied ==
  ASSUME NEW m, NEW R, Sound(m, R)
  PROVE  Sound([m EXCEPT !.starts = {}, !.stops = {}], R \cup m.starts)
<1>. DEFINE n == [m EXCEPT !.starts = {}, !.stops = {}]
<1>1. n \in Manager /\ n.active = m.active /\ n.starts = {}
  BY DEF Sound, Manager
<1>. HIDE DEF n
<1>2. /\ IsActive(n) <=> IsActive(m)
      /\ \A r : Expects(n, r) <=> Expects(m, r)
  BY <1>1 DEF Expects, IsActive
<1>3. (R \cup m.starts) \cup n.starts = R \cup m.starts
  BY <1>1
<1>4. Sound(n, R \cup m.starts)
  BY <1>1, <1>2, <1>3 DEF Sound
<1>5. QED
  BY <1>4 DEF n

LEMMA SoundInit == Init => Sound(Fresh, running)
<1>. SUFFICES ASSUME Init PROVE Sound(Fresh, running)
  OBVIOUS
<1>1. Fresh \in Manager /\ Fresh.active = None /\ Fresh.starts = {} /\ running = {}
  <2>1. <<>> \in Seq(MatchedLaunch)
    OBVIOUS
  <2>2. PICK d \in Directories :
          manager = [active |-> None, deferred |-> <<>>, since |-> 0,
                     stopping |-> FALSE, directory |-> d,
                     pendingDirectory |-> None,
                     sidecars |-> [id \in SessionIds |-> None],
                     starts |-> {}, stops |-> {}]
    BY DEF Init
  <2>3. manager \in Manager
    BY <2>1, <2>2 DEF Manager
  <2>4. QED
    BY <2>2, <2>3 DEF Init, Fresh, Manager
<1>2. QED
  BY <1>1, AtRest DEF IsActive

LEMMA SoundNext == TypeOK /\ Sound(Fresh, running) /\ [Next]_vars => Sound(Fresh, running)'
<1>. SUFFICES ASSUME TypeOK, Sound(Fresh, running), [Next]_vars
              PROVE  Sound(Fresh, running)'
  OBVIOUS
<1>1. Fresh.starts = {} /\ running \in SUBSET RecordingRequest
  BY DEF TypeOK, Fresh, Manager
<1>2. ASSUME NEW m, NEW over, Call(m, over), Sound(m, running \ over)
      PROVE  Sound(Fresh, running)'
  <2>1. /\ manager' = m /\ running' = (running \ over) \cup m.starts
        /\ Fresh' = [m EXCEPT !.starts = {}, !.stops = {}]
    BY <1>2 DEF Call, Fresh
  <2>2. QED
    BY <1>2, <2>1, SoundApplied
<1>3. CASE Tick
  <2>1. Sound(Aged(Fresh), running) /\ Aged(Fresh).starts = {}
    BY <1>1, SoundAged DEF Aged, Fresh, TypeOK, Manager
  <2>2. Fresh' = [Aged(Fresh) EXCEPT !.starts = {}, !.stops = {}] /\ running' = running
    BY <1>3 DEF Tick, Fresh
  <2>3. running \cup Aged(Fresh).starts = running
    BY <2>1
  <2>4. QED
    BY <2>1, <2>2, <2>3, SoundApplied
<1>4. CASE Poll
  BY <1>1, <1>2, <1>4, SoundAdvance DEF Poll
<1>5. ASSUME NEW l \in Launches, Launch(l) PROVE Sound(Fresh, running)'
  <2>1. l \in MatchedLaunch
    BY DEF MatchedLaunch, SessionIds
  <2>2. Sound(ObserveLaunched(Fresh, l), running)
    BY <1>1, <2>1, SoundAdvance, SoundLaunched DEF ObserveLaunched
  <2>3. QED
    BY <1>2, <1>5, <2>2 DEF Launch
<1>6. ASSUME NEW p \in Pids, Exit(p) PROVE Sound(Fresh, running)'
  <2>1. Sound(ObserveExited(Fresh, p), running)
    BY <1>1, SoundAdvance, SoundExited DEF ObserveExited
  <2>2. QED
    BY <1>2, <1>6, <2>1 DEF Exit
<1>7. ASSUME NEW r \in running, NEW outcome \in Outcomes, Finish(r, outcome)
      PROVE  Sound(Fresh, running)'
  BY <1>1, <1>2, <1>7, SoundFinished DEF Finish
<1>8. CASE AskStop
  BY <1>2, <1>8, SoundAsked DEF AskStop
<1>9. CASE Stop
  BY <1>1, <1>2, <1>9, SoundShutDown DEF Stop
<1>10. ASSUME NEW d \in Directories, ChooseDirectory(d) PROVE Sound(Fresh, running)'
  BY <1>2, <1>10, SoundSetDirectory DEF ChooseDirectory
<1>11. CASE UNCHANGED vars
  BY <1>11 DEF vars, Fresh
<1>12. QED
  BY <1>3, <1>4, <1>5, <1>6, <1>7, <1>8, <1>9, <1>10, <1>11 DEF Next

(* What runs is the one recording the open session waits for, and a        *)
(* session that waits for a recording waits for one that runs, for every   *)
(* catalogue of launches, every setting and every order of the driver's    *)
(* calls.                                                                  *)
THEOREM OneEncoderHolds == Spec => []OneEncoder
<1>1. IInv => OneEncoder
  <2>. SUFFICES ASSUME IInv PROVE OneEncoder
    OBVIOUS
  <2>1. Fresh.active = manager.active /\ Fresh.starts = {}
    BY DEF IInv, TypeOK, Fresh, Manager
  <2>2. QED
    BY <2>1 DEF IInv, Sound, OneEncoder, Expects, IsActive
<1>2. QED
  BY <1>1, SoundInit, SoundNext, TypeCorrect, PTL DEF Spec, IInv

(* The two together: no call of the driver leaves the manager with a field *)
(* it cannot read, or with more than one encoder.                          *)
THEOREM ManagerIsHeld == Spec => []ManagerIsSound
BY TypeCorrect, OneEncoderHolds, PTL DEF ManagerIsSound

-----------------------------------------------------------------------------
(* The record on disk, the processes that are tracked and what a session   *)
(* waits for.                                                              *)

(* A session on disk that ended has all its outcomes, and lies in one      *)
(* directory with its recordings.                                          *)
Account(s, d) ==
    /\ s.ended => \A i \in DOMAIN s.recordings : s.recordings[i].ended
    /\ \A i \in DOMAIN s.recordings : s.recordings[i].directory = d

DiskSound(m) ==
    \A id \in SessionIds :
        m.sidecars[id] # None => Account(m.sidecars[id].session, m.sidecars[id].directory)

(* The open session has one recording without an outcome, the one it       *)
(* waits for, and begins them one after another.                           *)
OpenSound(a, d) ==
    /\ ~a.session.ended
    /\ Account(a.session, d)
    /\ Len(a.session.recordings) = a.startedRecordings
    /\ \A i \in DOMAIN a.session.recordings :
            a.session.recordings[i].ended <=> a.recording # i
    /\ a.recording # None => a.recording \in DOMAIN a.session.recordings

(* What is on disk of the open session is what the manager has of it.      *)
Filed(m) ==
    /\ DiskSound(m)
    /\ IsActive(m) =>
        /\ OpenSound(m.active, m.directory)
        /\ m.sidecars[m.active.session.id] =
            [directory |-> m.directory, session |-> m.active.session]

(* Of the processes L that are alive, those in A had their recording       *)
(* stopped by the user.  A game that waits was launched under an id nobody *)
(* else had, and so it is nobody's but its own.                            *)
Waiting(w, L, A) ==
    \A i \in DOMAIN w :
        /\ w[i].pid \in L \ A /\ w[i].children \subseteq L
        /\ w[i].pid \notin w[i].children
        /\ \A j \in DOMAIN w : w[j].pid = w[i].pid => j = i

Watched(a, L, A) ==
    /\ a.alive => a.pid \in L
    /\ a.liveChildren \subseteq L
    /\ a.pid \notin a.liveChildren
    /\ a.alive /\ a.pid \in A => a.stopAskedFor /\ a.dueIn = None

Apart(a, w) == a.alive => \A i \in DOMAIN w : w[i].pid # a.pid

Tracked(m, L, A) ==
    /\ Waiting(m.deferred, L, A)
    /\ IsActive(m) => Watched(m.active, L, A) /\ Apart(m.active, m.deferred)
    /\ \A r \in m.starts : r.pid \notin A

(* The open session has a next step.                                       *)
Owed(a) ==
    /\ a.idleFor # None <=> (~a.alive /\ a.recording = None /\ a.liveChildren = {})
    /\ a.alive /\ a.recording = None /\ ~a.noWindow /\ ~a.stopAskedFor /\ ~a.limitReported
        => a.dueIn # None

(* A shutdown forgets what waits, and starts nothing more.                 *)
Held(m, L, A) ==
    /\ Filed(m)
    /\ ~m.stopping => Tracked(m, L, A) /\ (IsActive(m) => Owed(m.active))

HeldInv == Held(Fresh, live, askedFor) /\ (~manager.stopping => askedFor \subseteq live)

Over(m, id) == m.sidecars[id] # None /\ m.sidecars[id].session.ended

(* The call that took the manager from m to n ended no session.            *)
NoneEnds(m, n) ==
    \A id \in SessionIds : /\ m.sidecars[id] # None => n.sidecars[id] # None
                           /\ Over(n, id) => Over(m, id)

LEMMA NoneEndsTwice ==
  ASSUME NEW m, NEW n, NEW o, NoneEnds(m, n), NoneEnds(n, o)
  PROVE  NoneEnds(m, o)
BY DEF NoneEnds

LEMMA SameDisk ==
  ASSUME NEW m, NEW n, n.sidecars = m.sidecars
  PROVE  NoneEnds(m, n) /\ (DiskSound(m) => DiskSound(n))
BY DEF NoneEnds, Over, DiskSound

LEMMA SameFiled ==
  ASSUME NEW m, NEW n, n.sidecars = m.sidecars, n.directory = m.directory, Filed(m),
         n.active = m.active \/ n.active = None
           \/ /\ n.active.session = m.active.session
              /\ n.active.recording = m.active.recording
              /\ n.active.startedRecordings = m.active.startedRecordings
              /\ IsActive(m)
  PROVE  Filed(n) /\ NoneEnds(m, n)
<1>1. DiskSound(n) /\ NoneEnds(m, n)
  BY SameDisk DEF Filed
<1>2. QED
  BY <1>1 DEF Filed, IsActive, OpenSound

(* What the manager writes.                                                *)
LEMMA PersistIs ==
  ASSUME NEW m \in Manager, m.active \in Active
  PROVE  /\ Persist(m) \in Manager
         /\ Persist(m).active = m.active /\ Persist(m).deferred = m.deferred
         /\ Persist(m).since = m.since /\ Persist(m).stopping = m.stopping
         /\ Persist(m).directory = m.directory /\ Persist(m).starts = m.starts
         /\ m.active.session.id \in SessionIds
         /\ Persist(m).sidecars =
              [m.sidecars EXCEPT ![m.active.session.id] =
                [directory |-> m.directory, session |-> m.active.session]]
<1>1. Persist(m) \in Manager
  BY PersistType
<1>2. QED
  BY <1>1 DEF Persist, Manager, Active, Session

LEMMA Persisted ==
  ASSUME NEW m \in Manager, m.active \in Active, DiskSound(m),
         Account(m.active.session, m.directory)
  PROVE  /\ DiskSound(Persist(m))
         /\ Persist(m).sidecars[m.active.session.id] =
              [directory |-> m.directory, session |-> m.active.session]
         /\ ~m.active.session.ended => NoneEnds(m, Persist(m))
<1>. DEFINE n == Persist(m)
            s == [directory |-> m.directory, session |-> m.active.session]
<1>1. /\ m.active.session.id \in SessionIds
      /\ m.sidecars \in [SessionIds -> Sidecar \cup {None}]
      /\ n.sidecars = [m.sidecars EXCEPT ![m.active.session.id] = s]
  BY PersistIs DEF Manager
<1>2. s # None /\ s.directory = m.directory /\ s.session = m.active.session
  <2>1. s \in Sidecar
    BY DEF Sidecar, Active, Manager
  <2>2. QED
    BY <2>1
<1>. HIDE DEF n, s
<1>3. n.sidecars[m.active.session.id] = s
  BY <1>1
<1>4. \A id \in SessionIds : id # m.active.session.id => n.sidecars[id] = m.sidecars[id]
  BY <1>1
<1>5. DiskSound(n)
  BY <1>2, <1>3, <1>4 DEF DiskSound
<1>6. ~m.active.session.ended => NoneEnds(m, n)
  BY <1>2, <1>3, <1>4 DEF NoneEnds, Over
<1>7. QED
  BY <1>3, <1>5, <1>6 DEF n, s

LEMMA FiledPersist ==
  ASSUME NEW m \in Manager, m.active \in Active, DiskSound(m),
         OpenSound(m.active, m.directory)
  PROVE  Filed(Persist(m)) /\ NoneEnds(m, Persist(m))
<1>1. Account(m.active.session, m.directory) /\ ~m.active.session.ended
  BY DEF OpenSound
<1>2. QED
  BY <1>1, PersistIs, Persisted DEF Filed

LEMMA AskToStopIs ==
  ASSUME NEW m \in Manager, m.active \in Active
  PROVE  /\ AskToStop(m).deferred = m.deferred /\ AskToStop(m).since = m.since
         /\ AskToStop(m).stopping = m.stopping /\ AskToStop(m).directory = m.directory
         /\ AskToStop(m).starts = m.starts /\ AskToStop(m).sidecars = m.sidecars
         /\ AskToStop(m).active \in {m.active, [m.active EXCEPT !.stopping = TRUE]}
BY DEF AskToStop, Manager

(* What neither hides nor shows a process, and changes nothing a session   *)
(* waits for.                                                              *)
LEMMA SameHeld ==
  ASSUME NEW m, NEW n, NEW L, NEW A, Held(m, L, A), IsActive(m), IsActive(n), Filed(n),
         n.deferred = m.deferred, n.stopping = m.stopping, n.starts = m.starts,
         n.active.pid = m.active.pid, n.active.alive = m.active.alive,
         n.active.liveChildren = m.active.liveChildren,
         n.active.recording = m.active.recording, n.active.dueIn = m.active.dueIn,
         n.active.idleFor = m.active.idleFor, n.active.noWindow = m.active.noWindow,
         n.active.stopAskedFor = m.active.stopAskedFor,
         n.active.limitReported = m.active.limitReported
  PROVE  Held(n, L, A)
BY DEF Held, Tracked, Watched, Apart, Owed

LEMMA HeldAsk ==
  ASSUME NEW m \in Manager, IsActive(m), NEW L, NEW A, Held(m, L, A)
  PROVE  Held(AskToStop(m), L, A) /\ NoneEnds(m, AskToStop(m))
<1>. DEFINE n == AskToStop(m)
<1>1. m.active \in Active /\ n.active \in Active
  BY ActiveType, AskToStopType
<1>2. /\ n.deferred = m.deferred /\ n.stopping = m.stopping /\ n.directory = m.directory
      /\ n.starts = m.starts /\ n.sidecars = m.sidecars
      /\ n.active \in {m.active, [m.active EXCEPT !.stopping = TRUE]}
  BY <1>1, AskToStopIs
<1>. HIDE DEF n
<1>3. /\ n.active.session = m.active.session
      /\ n.active.startedRecordings = m.active.startedRecordings
      /\ n.active.pid = m.active.pid /\ n.active.alive = m.active.alive
      /\ n.active.liveChildren = m.active.liveChildren
      /\ n.active.recording = m.active.recording /\ n.active.dueIn = m.active.dueIn
      /\ n.active.idleFor = m.active.idleFor /\ n.active.noWindow = m.active.noWindow
      /\ n.active.stopAskedFor = m.active.stopAskedFor
      /\ n.active.limitReported = m.active.limitReported
  BY <1>1, <1>2 DEF Active
<1>4. Filed(n) /\ NoneEnds(m, n)
  BY <1>2, <1>3, SameFiled DEF Held
<1>5. IsActive(n)
  BY <1>1 DEF IsActive
<1>6. Held(n, L, A)
  BY <1>2, <1>3, <1>4, <1>5, SameHeld
<1>7. QED
  BY <1>4, <1>6 DEF n

LEMMA HeldPersist ==
  ASSUME NEW m \in Manager, IsActive(m), NEW L, NEW A, Held(m, L, A)
  PROVE  Held(Persist(m), L, A) /\ NoneEnds(m, Persist(m))
<1>1. m.active \in Active
  BY ActiveType
<1>2. Filed(Persist(m)) /\ NoneEnds(m, Persist(m))
  BY <1>1, FiledPersist DEF Held, Filed
<1>3. IsActive(Persist(m))
  BY <1>1, PersistIs DEF IsActive
<1>4. QED
  BY <1>1, <1>2, <1>3, PersistIs, SameHeld

LEMMA BeginRecordingIs ==
  ASSUME NEW m \in Manager, m.active \in Active
  PROVE  \E w \in Manager :
           /\ BeginRecording(m) = Persist(w) /\ w.active \in Active
           /\ w.deferred = m.deferred /\ w.stopping = m.stopping /\ w.since = m.since
           /\ w.directory = m.directory /\ w.sidecars = m.sidecars
           /\ IF AtLimit(m)
                THEN /\ w.active = [m.active EXCEPT !.dueIn = None, !.limitReported = TRUE]
                     /\ w.starts = m.starts
                ELSE /\ w.active = Begun(m)
                     /\ w.starts = m.starts \cup {Request(Begun(m))}
<1>1. CASE AtLimit(m)
  <2>. DEFINE a == [m.active EXCEPT !.dueIn = None, !.limitReported = TRUE]
              w == [m EXCEPT !.active = a]
  <2>1. BeginRecording(m) = Persist(w)
    BY <1>1 DEF BeginRecording, Manager
  <2>2. a \in Active
    BY DEF Active
  <2>. HIDE DEF a
  <2>3. /\ w \in Manager /\ w.active = a /\ w.starts = m.starts
        /\ w.deferred = m.deferred /\ w.stopping = m.stopping /\ w.since = m.since
        /\ w.directory = m.directory /\ w.sidecars = m.sidecars
    BY <2>2 DEF Manager
  <2>. HIDE DEF w
  <2>4. QED
    BY <1>1, <2>1, <2>2, <2>3 DEF a
<1>2. CASE ~AtLimit(m)
  <2>. DEFINE b == Begun(m)
              w == [m EXCEPT !.active = b, !.starts = m.starts \cup {Request(b)}]
  <2>1. BeginRecording(m) = Persist(w)
    BY <1>2 DEF BeginRecording, Manager
  <2>2. b \in Active /\ Request(b) \in RecordingRequest
    BY BegunType, RequestType
  <2>. HIDE DEF b
  <2>3. /\ w \in Manager /\ w.active = b /\ w.starts = m.starts \cup {Request(b)}
        /\ w.deferred = m.deferred /\ w.stopping = m.stopping /\ w.since = m.since
        /\ w.directory = m.directory /\ w.sidecars = m.sidecars
    BY <2>2 DEF Manager
  <2>. HIDE DEF w
  <2>4. QED
    BY <1>2, <2>1, <2>2, <2>3 DEF b
<1>3. QED
  BY <1>1, <1>2

(* The next recording of the session is the one it waits for.              *)
LEMMA OpenBegun ==
  ASSUME NEW m \in Manager, m.active \in Active, OpenSound(m.active, m.directory),
         m.active.recording = None
  PROVE  /\ OpenSound(Begun(m), m.directory)
         /\ Begun(m).pid = m.active.pid /\ Begun(m).alive = m.active.alive
         /\ Begun(m).liveChildren = m.active.liveChildren
         /\ Begun(m).idleFor = m.active.idleFor
         /\ Begun(m).session.id = m.active.session.id
<1>. DEFINE a == m.active
            k == a.startedRecordings + 1
            x == [directory |-> m.directory, ended |-> FALSE]
            r == Append(a.session.recordings, x)
            b == Begun(m)
<1>1. /\ a.session.recordings \in Seq(SessionRecording) /\ a.startedRecordings \in Nat
      /\ a.session \in Session /\ x \in SessionRecording
  BY DEF Active, Session, Manager, SessionRecording
<1>2. /\ b.session = [a.session EXCEPT !.recordings = r]
      /\ b.recording = k /\ b.startedRecordings = k
      /\ b.pid = a.pid /\ b.alive = a.alive /\ b.liveChildren = a.liveChildren
      /\ b.idleFor = a.idleFor
  BY DEF Begun, Active
<1>3. /\ b.session.recordings = r /\ b.session.ended = a.session.ended
      /\ b.session.id = a.session.id
  BY <1>1, <1>2 DEF Session
<1>4. /\ Len(r) = k /\ DOMAIN r = 1..k
      /\ \A i \in 1..k - 1 : r[i] = a.session.recordings[i]
      /\ r[k] = x
  BY <1>1 DEF OpenSound
<1>5. /\ \A i \in 1..k - 1 : /\ a.session.recordings[i].directory = m.directory
                             /\ a.session.recordings[i].ended
      /\ ~a.session.ended
  <2>1. DOMAIN a.session.recordings = 1..k - 1
    BY <1>1 DEF OpenSound
  <2>2. \A i \in 1..k - 1 : a.recording # i
    BY <1>1
  <2>3. QED
    BY <2>1, <2>2 DEF OpenSound, Account
<1>. HIDE DEF b, r
<1>6. k \in 1..k /\ k \in Nat /\ \A i \in 1..k : i = k \/ i \in 1..k - 1
  BY <1>1
<1>7. \A i \in 1..k : /\ r[i].directory = m.directory
                      /\ r[i].ended <=> b.recording # i
  <2>1. x.directory = m.directory /\ x.ended = FALSE
    OBVIOUS
  <2>2. \A i \in 1..k - 1 : b.recording # i
    BY <1>1, <1>2
  <2>. HIDE DEF k, x
  <2>3. QED
    BY <1>2, <1>4, <1>5, <1>6, <2>1, <2>2
<1>8. OpenSound(b, m.directory)
  BY <1>2, <1>3, <1>4, <1>5, <1>6, <1>7 DEF OpenSound, Account
<1>9. QED
  BY <1>2, <1>3, <1>8 DEF b

LEMMA HeldBegin ==
  ASSUME NEW m \in Manager, IsActive(m), m.starts = {}, NEW L, NEW A,
         ~m.stopping, DiskSound(m), OpenSound(m.active, m.directory), Tracked(m, L, A),
         m.active.recording = None, m.active.idleFor = None,
         m.active.alive, m.active.pid \notin A
  PROVE  Held(BeginRecording(m), L, A) /\ NoneEnds(m, BeginRecording(m))
<1>1. m.active \in Active
  BY ActiveType
<1>2. PICK w \in Manager :
           /\ BeginRecording(m) = Persist(w) /\ w.active \in Active
           /\ w.deferred = m.deferred /\ w.stopping = m.stopping /\ w.since = m.since
           /\ w.directory = m.directory /\ w.sidecars = m.sidecars
           /\ IF AtLimit(m)
                THEN /\ w.active = [m.active EXCEPT !.dueIn = None, !.limitReported = TRUE]
                     /\ w.starts = m.starts
                ELSE /\ w.active = Begun(m)
                     /\ w.starts = m.starts \cup {Request(Begun(m))}
  BY <1>1, BeginRecordingIs
<1>. DEFINE n == Persist(w)
<1>3. DiskSound(w) /\ NoneEnds(m, w)
  BY <1>2, SameDisk
<1>4. /\ OpenSound(w.active, w.directory)
      /\ w.active.pid = m.active.pid /\ w.active.alive
      /\ w.active.liveChildren = m.active.liveChildren
      /\ w.active.idleFor = None
      /\ w.active.recording = None => w.active.limitReported
      /\ \A r \in w.starts : r.pid = m.active.pid
  <2>1. CASE AtLimit(m)
    <3>1. /\ w.active = [m.active EXCEPT !.dueIn = None, !.limitReported = TRUE]
          /\ w.starts = {}
      BY <1>2, <2>1
    <3>2. /\ w.active.session = m.active.session /\ w.active.recording = m.active.recording
          /\ w.active.startedRecordings = m.active.startedRecordings
          /\ w.active.pid = m.active.pid /\ w.active.alive = m.active.alive
          /\ w.active.liveChildren = m.active.liveChildren
          /\ w.active.idleFor = m.active.idleFor /\ w.active.limitReported
      BY <1>1, <3>1 DEF Active
    <3>3. QED
      BY <1>2, <3>1, <3>2 DEF OpenSound
  <2>2. CASE ~AtLimit(m)
    <3>1. w.active = Begun(m) /\ w.starts = {Request(Begun(m))}
      BY <1>2, <2>2
    <3>2. Begun(m).recording # None
      BY <1>1, BegunType
    <3>3. QED
      BY <1>1, <1>2, <3>1, <3>2, OpenBegun DEF Request
  <2>3. QED
    BY <2>1, <2>2
<1>5. Filed(n) /\ NoneEnds(w, n)
  BY <1>2, <1>3, <1>4, FiledPersist
<1>6. /\ n.active = w.active /\ n.deferred = w.deferred /\ n.stopping = w.stopping
      /\ n.starts = w.starts
  BY <1>2, PersistIs
<1>. HIDE DEF n
<1>7. IsActive(n)
  BY <1>2, <1>6 DEF IsActive
<1>8. Tracked(n, L, A) /\ Owed(n.active)
  BY <1>2, <1>4, <1>6, <1>7 DEF Tracked, Watched, Apart, Owed
<1>9. Held(n, L, A) /\ NoneEnds(m, n)
  BY <1>3, <1>5, <1>7, <1>8, NoneEndsTwice DEF Held
<1>10. QED
  BY <1>2, <1>9 DEF n

(* A session of a game whose processes are alive and nobody's.             *)
LEMMA HeldStart ==
  ASSUME NEW m \in Manager, NEW l \in MatchedLaunch, m.starts = {}, ~m.stopping,
         DiskSound(m), NEW L, NEW A, Waiting(m.deferred, L, A),
         l.pid \in L \ A, l.children \subseteq L, l.pid \notin l.children,
         \A i \in DOMAIN m.deferred : m.deferred[i].pid # l.pid
  PROVE  Held(StartSession(m, l), L, A) /\ NoneEnds(m, StartSession(m, l))
<1>. DEFINE a == [session |-> [id |-> l.id, game |-> l.game,
                               recordings |-> <<>>, ended |-> FALSE],
                  pid |-> l.pid, alive |-> TRUE, liveChildren |-> l.children,
                  recording |-> None, stopping |-> FALSE, dueIn |-> None,
                  idleFor |-> None, startedRecordings |-> 0, noWindow |-> FALSE,
                  stopAskedFor |-> FALSE, limitReported |-> FALSE]
            w == [m EXCEPT !.active = a]
<1>1. a \in Active
  BY DEF Active, Session, MatchedLaunch
<1>2. StartSession(m, l) = BeginRecording(w)
  BY DEF StartSession
<1>3. /\ OpenSound(a, m.directory) /\ a.recording = None /\ a.idleFor = None /\ a.alive
      /\ a.pid = l.pid /\ a.liveChildren = l.children
  BY DEF OpenSound, Account
<1>. HIDE DEF a
<1>4. /\ w \in Manager /\ w.active = a /\ w.starts = {} /\ w.stopping = m.stopping
      /\ w.sidecars = m.sidecars /\ w.directory = m.directory /\ w.deferred = m.deferred
  BY <1>1, WithActiveType DEF Manager
<1>. HIDE DEF w
<1>5. IsActive(w)
  BY <1>1, <1>4 DEF IsActive
<1>6. DiskSound(w) /\ NoneEnds(m, w)
  BY <1>4, SameDisk
<1>7. Tracked(w, L, A)
  BY <1>3, <1>4 DEF Tracked, Watched, Apart
<1>8. QED
  BY <1>2, <1>3, <1>4, <1>5, <1>6, <1>7, HeldBegin, NoneEndsTwice

LEMMA TakeHeldBackIs ==
  ASSUME NEW m \in Manager
  PROVE  /\ TakeHeldBackDirectory(m) \in Manager
         /\ TakeHeldBackDirectory(m).active = m.active
         /\ TakeHeldBackDirectory(m).deferred = m.deferred
         /\ TakeHeldBackDirectory(m).stopping = m.stopping
         /\ TakeHeldBackDirectory(m).starts = m.starts
         /\ TakeHeldBackDirectory(m).sidecars = m.sidecars
BY TakeHeldBackType DEF TakeHeldBackDirectory, Manager

(* A session that waits for no recording can be closed: its record says    *)
(* that it ended, and owes nothing.                                        *)
LEMMA HeldClose ==
  ASSUME NEW m \in Manager, IsActive(m), m.starts = {}, m.active.recording = None,
         NEW L, NEW A, Held(m, L, A)
  PROVE  Held(CloseActive(m), L, A)
<1>. DEFINE s == [m.active.session EXCEPT !.ended = TRUE]
            a == [m.active EXCEPT !.session = s]
            e == [m EXCEPT !.active = a]
            c == [Persist(e) EXCEPT !.active = None]
            closed == TakeHeldBackDirectory(c)
            n == Len(m.deferred)
            next == [closed EXCEPT !.deferred = SubSeq(closed.deferred, 1, n - 1)]
<1>1. m.active \in Active /\ m.active.session \in Session
  BY ActiveType DEF Active
<1>2. CloseActive(m) = IF m.stopping \/ n = 0 THEN closed
                       ELSE StartSession(next, m.deferred[n])
  BY DEF CloseActive
<1>3. s \in Session /\ s.recordings = m.active.session.recordings
  BY <1>1 DEF Session
<1>4. Account(s, m.directory)
  <2>1. \A i \in DOMAIN s.recordings : /\ s.recordings[i].directory = m.directory
                                       /\ s.recordings[i].ended
    <3>1. m.active.session.recordings \in Seq(SessionRecording)
      BY <1>1 DEF Session
    <3>2. \A i \in DOMAIN m.active.session.recordings : m.active.recording # i
      BY <3>1
    <3>3. QED
      BY <1>3, <3>2 DEF Held, Filed, OpenSound, Account
  <2>2. QED
    BY <2>1 DEF Account
<1>. HIDE DEF s
<1>5. a \in Active /\ a.session = s
  BY <1>1, <1>3 DEF Active
<1>. HIDE DEF a
<1>6. /\ e \in Manager /\ e.active = a /\ e.deferred = m.deferred
      /\ e.stopping = m.stopping /\ e.starts = m.starts
      /\ e.directory = m.directory /\ e.sidecars = m.sidecars
  BY <1>5, WithActiveType DEF Manager
<1>. HIDE DEF e
<1>7. DiskSound(Persist(e))
  <2>1. DiskSound(e)
    BY <1>6, SameDisk DEF Held, Filed
  <2>2. QED
    BY <1>4, <1>5, <1>6, <2>1, Persisted
<1>8. /\ Persist(e) \in Manager /\ Persist(e).deferred = m.deferred
      /\ Persist(e).stopping = m.stopping /\ Persist(e).starts = {}
  BY <1>5, <1>6, PersistIs
<1>9. /\ c \in Manager /\ c.active = None /\ c.deferred = m.deferred
      /\ c.stopping = m.stopping /\ c.starts = {} /\ c.sidecars = Persist(e).sidecars
  BY <1>8 DEF Manager
<1>. HIDE DEF c
<1>10. /\ closed \in Manager /\ closed.active = None /\ closed.deferred = m.deferred
       /\ closed.stopping = m.stopping /\ closed.starts = {}
       /\ DiskSound(closed)
  BY <1>7, <1>9, TakeHeldBackIs DEF DiskSound
<1>. HIDE DEF closed
<1>11. ~IsActive(closed) /\ Held(closed, L, A)
  BY <1>10 DEF Held, Filed, Tracked, IsActive
<1>12. CASE m.stopping \/ n = 0
  BY <1>2, <1>11, <1>12
<1>13. CASE ~(m.stopping \/ n = 0)
  <2>. DEFINE w == SubSeq(m.deferred, 1, n - 1)
              l == m.deferred[n]
  <2>1. m.deferred \in Seq(MatchedLaunch) /\ n \in 1..Len(m.deferred) /\ n \in Nat
    BY <1>13 DEF Manager
  <2>2. /\ w \in Seq(MatchedLaunch) /\ DOMAIN w = 1..n - 1
        /\ \A i \in 1..n - 1 : w[i] = m.deferred[i]
    BY <2>1, SubSeqProperties
  <2>3. Waiting(m.deferred, L, A)
    BY <1>13 DEF Held, Tracked
  <2>4. /\ DOMAIN m.deferred = 1..n
        /\ \A i \in 1..n - 1 : i \in 1..n /\ i # n
        /\ n \in 1..n
    BY <2>1
  <2>5. /\ l \in MatchedLaunch /\ l.pid \in L \ A /\ l.children \subseteq L
        /\ l.pid \notin l.children
        /\ \A i \in DOMAIN w : w[i].pid # l.pid
    <3>1. l \in MatchedLaunch
      BY <2>1
    <3>2. QED
      BY <2>2, <2>3, <2>4, <3>1 DEF Waiting
  <2>6. Waiting(w, L, A)
    BY <2>2, <2>3, <2>4 DEF Waiting
  <2>. HIDE DEF w
  <2>7. /\ next \in Manager /\ next.starts = {} /\ ~next.stopping
        /\ next.deferred = w /\ next.sidecars = closed.sidecars
    BY <1>10, <1>13, <2>2 DEF Manager, w
  <2>. HIDE DEF next, n, l
  <2>8. DiskSound(next)
    BY <1>10, <2>7 DEF DiskSound
  <2>9. QED
    BY <1>2, <1>13, <2>5, <2>6, <2>7, <2>8, HeldStart DEF l
<1>14. QED
  BY <1>12, <1>13

(* A session ends only when its game is gone and its grace is over, if it  *)
(* has one, or after a suspend.                                            *)
MayEnd(m) ==
    /\ IsActive(m) /\ ~m.active.alive
    /\ \/ m.active.idleFor = RestartGrace
       \/ m.since = SuspendGap
       \/ RestartGrace = 0

LEMMA HeldResumed ==
  ASSUME NEW m, NEW R \in SUBSET RecordingRequest, Sound(m, R), m.starts = {},
         NEW L, NEW A, Held(m, L, A)
  PROVE  /\ Held(Resumed(m), L, A)
         /\ \/ NoneEnds(m, Resumed(m))
            \/ IsActive(m) /\ ~m.active.alive
<1>. DEFINE f == [m EXCEPT !.deferred = <<>>]
<1>0. m \in Manager
  BY DEF Sound
<1>1. /\ f \in Manager /\ f.active = m.active /\ f.deferred = <<>> /\ f.starts = {}
      /\ f.sidecars = m.sidecars /\ f.directory = m.directory /\ f.stopping = m.stopping
  <2>1. <<>> \in Seq(MatchedLaunch)
    OBVIOUS
  <2>2. QED
    BY <1>0, <2>1 DEF Manager
<1>2. Resumed(m) = IF ~IsActive(m) THEN f
                   ELSE IF m.active.recording = None /\ m.active.idleFor # None
                   THEN CloseActive(Persist(f))
                   ELSE Persist(AskToStop(f))
  BY DEF Resumed
<1>. HIDE DEF f
<1>3. IsActive(f) <=> IsActive(m)
  BY <1>1 DEF IsActive
<1>4. Filed(f) /\ NoneEnds(m, f)
  BY <1>1, SameFiled DEF Held
<1>5. Held(f, L, A)
  BY <1>1, <1>3, <1>4 DEF Held, Tracked, Waiting, Apart
<1>6. CASE ~IsActive(m)
  BY <1>2, <1>4, <1>5, <1>6
<1>7. CASE IsActive(m) /\ m.active.recording = None /\ m.active.idleFor # None
  <2>1. f.active \in Active
    BY <1>1, <1>3, <1>7, ActiveType
  <2>2. Held(Persist(f), L, A)
    BY <1>1, <1>3, <1>5, <1>7, HeldPersist
  <2>3. /\ Persist(f) \in Manager /\ Persist(f).active = m.active /\ Persist(f).starts = {}
    BY <1>1, <2>1, PersistIs
  <2>4. Held(CloseActive(Persist(f)), L, A)
    BY <1>7, <2>2, <2>3, HeldClose DEF IsActive
  <2>5. ~m.active.alive
    BY <1>7 DEF Sound, Timed
  <2>6. QED
    BY <1>2, <1>7, <2>4, <2>5
<1>8. CASE IsActive(m) /\ ~(m.active.recording = None /\ m.active.idleFor # None)
  <2>1. f.active \in Active
    BY <1>1, <1>3, <1>8, ActiveType
  <2>2. Held(AskToStop(f), L, A) /\ NoneEnds(f, AskToStop(f))
    BY <1>1, <1>3, <1>5, <1>8, HeldAsk
  <2>3. AskToStop(f) \in Manager /\ AskToStop(f).active \in Active
    BY <1>1, <2>1, AskToStopType
  <2>4. IsActive(AskToStop(f))
    BY <2>3 DEF IsActive
  <2>5. Held(Persist(AskToStop(f)), L, A) /\ NoneEnds(AskToStop(f), Persist(AskToStop(f)))
    BY <2>2, <2>3, <2>4, HeldPersist
  <2>6. NoneEnds(m, Persist(AskToStop(f)))
    BY <1>4, <2>2, <2>5, NoneEndsTwice
  <2>7. QED
    BY <1>2, <1>8, <2>5, <2>6
<1>9. QED
  BY <1>6, <1>7, <1>8

(* Only shut_down changes `stopping`.                                      *)
LEMMA SameStopping ==
  ASSUME NEW m \in Manager
  PROVE  /\ IsActive(m) => BeginRecording(m).stopping = m.stopping
         /\ \A l \in MatchedLaunch : StartSession(m, l).stopping = m.stopping
         /\ IsActive(m) => CloseActive(m).stopping = m.stopping
         /\ Resumed(m).stopping = m.stopping
         /\ Advance(m).stopping = m.stopping
<1>1. ASSUME NEW n \in Manager, IsActive(n)
      PROVE  BeginRecording(n).stopping = n.stopping
  BY <1>1 DEF BeginRecording, Persist, Manager
<1>2. ASSUME NEW n \in Manager, NEW l \in MatchedLaunch
      PROVE  StartSession(n, l).stopping = n.stopping
  BY DEF StartSession, BeginRecording, Persist, Manager
<1>3. ASSUME NEW n \in Manager, IsActive(n)
      PROVE  CloseActive(n).stopping = n.stopping
  BY DEF CloseActive, TakeHeldBackDirectory, StartSession, BeginRecording, Persist, Manager
<1>4. ASSUME NEW n \in Manager PROVE Resumed(n).stopping = n.stopping
  <2>. DEFINE f == [n EXCEPT !.deferred = <<>>]
  <2>1. f \in Manager /\ f.active = n.active /\ f.stopping = n.stopping
    <3>1. <<>> \in Seq(MatchedLaunch)
      OBVIOUS
    <3>2. QED
      BY <3>1 DEF Manager
  <2>2. Resumed(n) = IF ~IsActive(n) THEN f
                     ELSE IF n.active.recording = None /\ n.active.idleFor # None
                     THEN CloseActive(Persist(f))
                     ELSE Persist(AskToStop(f))
    BY DEF Resumed
  <2>. HIDE DEF f
  <2>3. CASE IsActive(n)
    <3>1. f.active \in Active
      BY <2>1, <2>3, ActiveType
    <3>2. /\ Persist(f) \in Manager /\ IsActive(Persist(f))
          /\ Persist(f).stopping = f.stopping
      BY <2>1, <3>1, PersistIs DEF IsActive
    <3>3. CloseActive(Persist(f)).stopping = f.stopping
      BY <1>3, <3>2
    <3>4. Persist(AskToStop(f)).stopping = f.stopping
      BY <2>1, <3>1, AskToStopType, AskToStopIs, PersistIs
    <3>5. QED
      BY <2>1, <2>2, <3>3, <3>4
  <2>4. QED
    BY <2>1, <2>2, <2>3
<1>5. Advance(m).stopping = m.stopping
  <2>. DEFINE o == [m EXCEPT !.since = 0]
              a == IF m.since = SuspendGap THEN Resumed(o) ELSE o
  <2>1. o \in Manager /\ o.stopping = m.stopping
    BY DEF Manager
  <2>2. Advance(m) = IF m.stopping THEN a ELSE BeginDue(CloseExpired(a))
    BY DEF Advance
  <2>. HIDE DEF o
  <2>3. a \in Manager /\ a.stopping = m.stopping
    BY <1>4, <2>1, ResumedType
  <2>. HIDE DEF a
  <2>4. CloseExpired(a) \in Manager /\ CloseExpired(a).stopping = m.stopping
    BY <1>3, <2>3, ActiveType, CloseActiveType DEF CloseExpired
  <2>5. BeginDue(CloseExpired(a)).stopping = m.stopping
    BY <1>1, <2>4 DEF BeginDue
  <2>6. QED
    BY <2>2, <2>3, <2>5
<1>6. QED
  BY <1>1, <1>2, <1>3, <1>4, <1>5

(* A resume opens nothing: what is open after it was open before.          *)
LEMMA ResumedOpensNothing ==
  ASSUME NEW m \in Manager, IsActive(Resumed(m))
  PROVE  IsActive(m) /\ Resumed(m).active.alive = m.active.alive
<1>. DEFINE f == [m EXCEPT !.deferred = <<>>]
<1>1. f \in Manager /\ f.active = m.active /\ f.deferred = <<>>
  <2>1. <<>> \in Seq(MatchedLaunch)
    OBVIOUS
  <2>2. QED
    BY <2>1 DEF Manager
<1>2. Resumed(m) = IF ~IsActive(m) THEN f
                   ELSE IF m.active.recording = None /\ m.active.idleFor # None
                   THEN CloseActive(Persist(f))
                   ELSE Persist(AskToStop(f))
  BY DEF Resumed
<1>. HIDE DEF f
<1>3. IsActive(m)
  BY <1>1, <1>2 DEF IsActive
<1>4. f.active \in Active
  BY <1>1, <1>3, ActiveType
<1>5. ~IsActive(CloseActive(Persist(f)))
  <2>. DEFINE p == Persist(f)
              e == [p EXCEPT !.active.session.ended = TRUE]
              c == [Persist(e) EXCEPT !.active = None]
  <2>1. p \in Manager /\ p.active \in Active /\ p.deferred = <<>>
    BY <1>1, <1>4, PersistIs
  <2>. HIDE DEF p
  <2>2. CloseActive(p) = TakeHeldBackDirectory(c)
    <3>1. Len(p.deferred) = 0
      BY <2>1
    <3>2. QED
      BY <3>1 DEF CloseActive
  <2>3. TakeHeldBackDirectory(c).active = None
    BY <2>1 DEF TakeHeldBackDirectory, Persist, Manager
  <2>. HIDE DEF c
  <2>4. QED
    BY <2>2, <2>3 DEF IsActive, p
<1>6. Persist(AskToStop(f)).active.alive = m.active.alive
  <2>1. Persist(AskToStop(f)).active = AskToStop(f).active
    BY <1>1, <1>4, AskToStopType, PersistIs
  <2>2. AskToStop(f).active \in {f.active, [f.active EXCEPT !.stopping = TRUE]}
    BY <1>1, <1>4, AskToStopIs
  <2>3. [f.active EXCEPT !.stopping = TRUE].alive = f.active.alive
    BY <1>4 DEF Active
  <2>4. QED
    BY <1>1, <2>1, <2>2, <2>3
<1>7. QED
  BY <1>2, <1>3, <1>5, <1>6

LEMMA HeldAdvance ==
  ASSUME NEW m, NEW R \in SUBSET RecordingRequest, Sound(m, R), m.starts = {},
         NEW L, NEW A, Held(m, L, A)
  PROVE  /\ Held(Advance(m), L, A)
         /\ NoneEnds(m, Advance(m)) \/ MayEnd(m)
<1>. DEFINE o == [m EXCEPT !.since = 0]
            a == IF m.since = SuspendGap THEN Resumed(o) ELSE o
            c == CloseExpired(a)
<1>1. Advance(m) = IF m.stopping THEN a ELSE BeginDue(c)
  BY DEF Advance
<1>2. /\ o \in Manager /\ o.active = m.active /\ o.starts = {} /\ o.stopping = m.stopping
      /\ o.deferred = m.deferred /\ o.sidecars = m.sidecars /\ o.directory = m.directory
  BY DEF Sound, Manager
<1>. HIDE DEF o
<1>3. IsActive(o) <=> IsActive(m)
  BY <1>2 DEF IsActive
<1>4. Sound(o, R) /\ Held(o, L, A) /\ NoneEnds(m, o)
  <2>1. Sound(o, R)
    BY <1>2, SameActive
  <2>2. Filed(o) /\ NoneEnds(m, o)
    BY <1>2, SameFiled DEF Held
  <2>3. Held(o, L, A)
    BY <1>2, <1>3, <2>2 DEF Held, Tracked
  <2>4. QED
    BY <2>1, <2>2, <2>3
<1>5. /\ Sound(a, R) /\ Held(a, L, A) /\ (NoneEnds(m, a) \/ MayEnd(m))
      /\ a.stopping = m.stopping
      /\ IsActive(a) => IsActive(m) /\ a.active.alive = m.active.alive
      /\ m.since # SuspendGap => a.active = m.active
  <2>1. CASE m.since # SuspendGap
    BY <1>2, <1>3, <1>4, <2>1
  <2>2. CASE m.since = SuspendGap
    <3>1. a = Resumed(o)
      BY <2>2
    <3>2. Sound(Resumed(o), R) /\ Held(Resumed(o), L, A)
      BY <1>2, <1>4, SoundResumed, HeldResumed
    <3>3. NoneEnds(o, Resumed(o)) \/ MayEnd(m)
      BY <1>2, <1>3, <1>4, <2>2, HeldResumed DEF MayEnd
    <3>4. NoneEnds(m, Resumed(o)) \/ MayEnd(m)
      BY <1>4, <3>3, NoneEndsTwice
    <3>5. /\ Resumed(o).stopping = m.stopping
          /\ IsActive(Resumed(o)) => IsActive(m) /\ Resumed(o).active.alive = m.active.alive
      BY <1>2, <1>3, SameStopping, ResumedOpensNothing
    <3>6. QED
      BY <2>2, <3>1, <3>2, <3>4, <3>5
  <2>3. QED
    BY <2>1, <2>2
<1>. HIDE DEF a
<1>6. CASE m.stopping
  BY <1>1, <1>5, <1>6
<1>7. CASE ~m.stopping
  <2>1. Sound(c, R) /\ Held(c, L, A) /\ ~c.stopping /\ (NoneEnds(m, c) \/ MayEnd(m))
    <3>1. CASE IsActive(a) /\ a.active.idleFor = RestartGrace
      <4>1. ~a.active.alive /\ a.active.recording = None /\ a \in Manager
        BY <1>5, <3>1 DEF Sound, Timed
      <4>2. R = {} /\ a.starts = {}
        BY <1>5, <4>1, Quiet
      <4>3. c = CloseActive(a)
        BY <3>1 DEF CloseExpired
      <4>4. Sound(c, R) /\ Held(c, L, A) /\ ~c.stopping
        BY <1>5, <1>7, <3>1, <4>1, <4>2, <4>3, SoundClose, HeldClose, SameStopping
      <4>5. MayEnd(m)
        BY <1>5, <3>1, <4>1 DEF MayEnd
      <4>6. QED
        BY <4>4, <4>5
    <3>2. CASE ~(IsActive(a) /\ a.active.idleFor = RestartGrace)
      BY <1>5, <1>7, <3>2 DEF CloseExpired
    <3>3. QED
      BY <3>1, <3>2
  <2>. HIDE DEF c
  <2>2. CASE IsActive(c) /\ c.active.dueIn = 0
    <3>1. /\ c.active.alive /\ c.active.recording = None /\ c.active.idleFor = None
          /\ c \in Manager
      BY <2>1, <2>2 DEF Sound, Timed
    <3>2. c.starts = {}
      BY <2>1, <3>1, Quiet
    <3>3. /\ Tracked(c, L, A) /\ DiskSound(c) /\ OpenSound(c.active, c.directory)
          /\ c.active.pid \notin A
      BY <2>1, <2>2, <3>1 DEF Held, Filed, Tracked, Watched
    <3>4. Held(BeginRecording(c), L, A) /\ NoneEnds(c, BeginRecording(c))
      BY <2>1, <2>2, <3>1, <3>2, <3>3, HeldBegin
    <3>5. BeginDue(c) = BeginRecording(c)
      BY <2>2 DEF BeginDue
    <3>6. QED
      BY <1>1, <1>7, <2>1, <3>4, <3>5, NoneEndsTwice
  <2>3. CASE ~(IsActive(c) /\ c.active.dueIn = 0)
    BY <1>1, <1>7, <2>1, <2>3 DEF BeginDue
  <2>4. QED
    BY <2>2, <2>3
<1>8. QED
  BY <1>6, <1>7

(* A launch reports processes that were not alive before it.               *)
LEMMA HeldMore ==
  ASSUME NEW m, NEW L, NEW A, Held(m, L, A), NEW K, L \subseteq K
  PROVE  Held(m, K, A)
BY DEF Held, Tracked, Waiting, Watched

(* A game that comes back is nobody else's.                                *)
LEMMA HeldRejoin ==
  ASSUME NEW m, NEW R \in SUBSET RecordingRequest, Sound(m, R), IsActive(m),
         ~m.stopping, ~m.active.alive, NEW L, NEW A, Held(m, L, A),
         NEW l \in MatchedLaunch, l.pid \in L \ A, l.children \subseteq L,
         l.pid \notin l.children,
         \A i \in DOMAIN m.deferred : m.deferred[i].pid # l.pid
  PROVE  Held(Rejoin(m, l), L, A) /\ NoneEnds(m, Rejoin(m, l))
<1>. DEFINE a == [m.active EXCEPT !.pid = l.pid, !.alive = TRUE,
                   !.liveChildren = l.children, !.idleFor = None,
                   !.noWindow = FALSE, !.stopAskedFor = FALSE]
            w == [m EXCEPT !.active = a]
            j == Persist(w)
<1>1. m \in Manager /\ m.active \in Active
  BY ActiveType DEF Sound
<1>2. a \in Active
  BY <1>1 DEF Active, MatchedLaunch
<1>3. /\ a.pid = l.pid /\ a.alive /\ a.liveChildren = l.children /\ a.idleFor = None
      /\ a.session = m.active.session /\ a.recording = m.active.recording
      /\ a.startedRecordings = m.active.startedRecordings
  BY <1>1 DEF Active
<1>4. Rejoin(m, l) = IF m.active.recording = None THEN BeginRecording(j) ELSE j
  BY DEF Rejoin, Rejoined
<1>. HIDE DEF a
<1>5. /\ w \in Manager /\ w.active = a /\ w.starts = m.starts /\ w.stopping = m.stopping
      /\ w.sidecars = m.sidecars /\ w.directory = m.directory /\ w.deferred = m.deferred
  BY <1>1, <1>2, WithActiveType DEF Manager
<1>. HIDE DEF w
<1>6. IsActive(w)
  BY <1>2, <1>5 DEF IsActive
<1>7. Filed(w) /\ NoneEnds(m, w)
  BY <1>3, <1>5, SameFiled DEF Held
<1>8. Tracked(w, L, A)
  BY <1>3, <1>5 DEF Held, Tracked, Watched, Apart
<1>9. CASE m.active.recording # None
  <2>1. Held(w, L, A)
    BY <1>3, <1>5, <1>7, <1>8, <1>9 DEF Held, Owed
  <2>2. Held(j, L, A) /\ NoneEnds(w, j)
    BY <1>5, <1>6, <2>1, HeldPersist
  <2>3. QED
    BY <1>4, <1>7, <1>9, <2>2, NoneEndsTwice
<1>10. CASE m.active.recording = None
  <2>1. /\ j \in Manager /\ j.active = a /\ j.deferred = w.deferred
        /\ j.stopping = w.stopping /\ j.directory = w.directory /\ j.starts = w.starts
    BY <1>2, <1>5, PersistIs
  <2>2. Filed(j) /\ NoneEnds(w, j)
    BY <1>2, <1>5, <1>6, <1>7, FiledPersist DEF Filed
  <2>3. j.starts = {}
    BY <1>5, <1>10, <2>1, Quiet
  <2>. HIDE DEF j
  <2>4. IsActive(j) /\ Tracked(j, L, A)
    BY <1>5, <1>6, <1>8, <2>1 DEF Tracked, IsActive
  <2>5. DiskSound(j) /\ OpenSound(j.active, j.directory)
    BY <2>2, <2>4 DEF Filed
  <2>6. Held(BeginRecording(j), L, A) /\ NoneEnds(j, BeginRecording(j))
    BY <1>3, <1>5, <1>10, <2>1, <2>3, <2>4, <2>5, HeldBegin
  <2>7. QED
    BY <1>4, <1>7, <1>10, <2>2, <2>6, NoneEndsTwice
<1>11. QED
  BY <1>9, <1>10

LEMMA HeldDefer ==
  ASSUME NEW m \in Manager, IsActive(m), ~m.stopping, NEW L, NEW A, Held(m, L, A),
         NEW l \in MatchedLaunch, l.pid \in L \ A, l.children \subseteq L,
         l.pid \notin l.children, m.active.alive => m.active.pid # l.pid,
         \A i \in DOMAIN m.deferred : m.deferred[i].pid # l.pid
  PROVE  Held(Defer(m, l), L, A) /\ NoneEnds(m, Defer(m, l))
<1>. DEFINE p == Persist(m)
            d == Append(m.deferred, l)
            n == [p EXCEPT !.deferred = d]
<1>1. m.active \in Active
  BY ActiveType
<1>2. /\ p \in Manager /\ p.active = m.active /\ p.deferred = m.deferred
      /\ p.stopping = m.stopping /\ p.starts = m.starts /\ p.directory = m.directory
  BY <1>1, PersistIs
<1>3. Held(p, L, A) /\ NoneEnds(m, p)
  BY HeldPersist
<1>. HIDE DEF p
<1>4. Defer(m, l) = n
  <2>1. Without(p.deferred, l.pid) = m.deferred
    BY <1>2 DEF Without
  <2>2. Defer(m, l) = [p EXCEPT !.deferred = Append(Without(p.deferred, l.pid), l)]
    BY DEF Defer, p
  <2>3. QED
    BY <2>1, <2>2
<1>5. /\ m.deferred \in Seq(MatchedLaunch) /\ Len(m.deferred) \in Nat
      /\ DOMAIN m.deferred = 1..Len(m.deferred)
  BY DEF Manager
<1>6. /\ d \in Seq(MatchedLaunch)
      /\ \A i \in DOMAIN d : \/ i \in DOMAIN m.deferred /\ d[i] = m.deferred[i]
                             \/ i = Len(m.deferred) + 1 /\ d[i] = l
  BY <1>5
<1>. HIDE DEF d
<1>7. /\ n \in Manager /\ n.active = m.active /\ n.deferred = d /\ n.stopping = m.stopping
      /\ n.starts = m.starts /\ n.directory = p.directory /\ n.sidecars = p.sidecars
  BY <1>2, <1>6 DEF Manager
<1>. HIDE DEF n
<1>8. IsActive(n) /\ IsActive(p)
  BY <1>2, <1>7 DEF IsActive
<1>9. Waiting(d, L, A)
  <2>1. Waiting(m.deferred, L, A)
    BY DEF Held, Tracked
  <2>2. QED
    BY <1>6, <2>1 DEF Waiting
<1>10. Apart(n.active, d)
  BY <1>6, <1>7 DEF Held, Tracked, Apart
<1>11. Filed(n) /\ NoneEnds(p, n)
  BY <1>2, <1>3, <1>7, SameFiled DEF Held
<1>12. Held(n, L, A)
  BY <1>7, <1>9, <1>10, <1>11 DEF Held, Tracked
<1>13. QED
  BY <1>3, <1>4, <1>11, <1>12, NoneEndsTwice

LEMMA HeldLaunched ==
  ASSUME NEW m, NEW R \in SUBSET RecordingRequest, Sound(m, R), ~m.stopping,
         NEW L, NEW A, A \subseteq L, Held(m, L, A),
         NEW l \in MatchedLaunch, l.pid \notin l.children,
         ({l.pid} \cup l.children) \cap L = {}
  PROVE  /\ Held(Launched(m, l), L \cup {l.pid} \cup l.children, A)
         /\ NoneEnds(m, Launched(m, l))
<1>. DEFINE K == L \cup {l.pid} \cup l.children
<1>1. Held(m, K, A) /\ m \in Manager
  BY HeldMore DEF Sound
<1>2. /\ \A i \in DOMAIN m.deferred : m.deferred[i].pid # l.pid
      /\ IsActive(m) /\ m.active.alive => m.active.pid # l.pid
  BY DEF Held, Tracked, Waiting, Watched
<1>3. l.pid \in K \ A /\ l.children \subseteq K
  OBVIOUS
<1>. HIDE DEF K
<1>4. CASE ~IsActive(m)
  <2>1. m.starts = {}
    BY <1>4, Quiet
  <2>2. DiskSound(m) /\ Waiting(m.deferred, K, A)
    BY <1>1 DEF Held, Filed, Tracked
  <2>3. Held(StartSession(m, l), K, A) /\ NoneEnds(m, StartSession(m, l))
    BY <1>1, <1>2, <1>3, <2>1, <2>2, HeldStart
  <2>4. QED
    BY <1>4, <2>3 DEF Launched, K
<1>5. CASE IsActive(m) /\ ~m.active.alive /\ m.active.session.game = l.game
  <2>1. Held(Rejoin(m, l), K, A) /\ NoneEnds(m, Rejoin(m, l))
    BY <1>1, <1>2, <1>3, <1>5, HeldRejoin
  <2>2. QED
    BY <1>5, <2>1 DEF Launched, K
<1>6. CASE IsActive(m) /\ ~(~m.active.alive /\ m.active.session.game = l.game)
  <2>1. Held(Defer(m, l), K, A) /\ NoneEnds(m, Defer(m, l))
    BY <1>1, <1>2, <1>3, <1>6, HeldDefer
  <2>2. QED
    BY <1>6, <2>1 DEF Launched, K
<1>7. QED
  BY <1>4, <1>5, <1>6

(* An exit: what waited under the process is forgotten, and the rest stays *)
(* as it was, but for the process among the children.                      *)
LEMMA WithoutIs ==
  ASSUME NEW w \in Seq(MatchedLaunch), NEW p,
         \A i, j \in DOMAIN w : w[j].pid = w[i].pid => j = i
  PROVE  /\ \A i \in DOMAIN Without(w, p) :
              /\ Without(w, p)[i].pid # p
              /\ \E k \in DOMAIN w : Without(w, p)[i] = w[k]
         /\ \A i, j \in DOMAIN Without(w, p) :
              Without(w, p)[j].pid = Without(w, p)[i].pid => j = i
<1>1. CASE \E i \in DOMAIN w : w[i].pid = p
  <2>. DEFINE k == CHOOSE k \in DOMAIN w : w[k].pid = p
              n == Len(w)
              left == SubSeq(w, 1, k - 1)
              right == SubSeq(w, k + 1, n)
              v == left \o right
              at(i) == IF i < k THEN i ELSE i + 1
  <2>1. k \in DOMAIN w /\ w[k].pid = p
    BY <1>1
  <2>2. n \in Nat /\ DOMAIN w = 1..n /\ k \in 1..n
    BY <2>1
  <2>3. Without(w, p) = v
    BY <1>1 DEF Without
  <2>. HIDE DEF k, n
  <2>4. /\ left \in Seq(MatchedLaunch) /\ Len(left) = k - 1
        /\ \A i \in 1..k - 1 : left[i] = w[i]
    BY <2>2, SubSeqProperties DEF n
  <2>5. /\ right \in Seq(MatchedLaunch) /\ Len(right) = n - k
        /\ \A i \in 1..n - k : right[i] = w[k + i]
    <3>1. /\ right \in Seq(MatchedLaunch)
          /\ Len(right) = IF k + 1 <= n THEN n - (k + 1) + 1 ELSE 0
          /\ \A i \in 1..(n - (k + 1) + 1) : right[i] = w[k + 1 + i - 1]
      BY <2>2, SubSeqProperties DEF n
    <3>2. \A i \in 1..n - k : k + 1 + i - 1 = k + i
      BY <2>2
    <3>. HIDE DEF right
    <3>3. QED
      BY <2>2, <3>1, <3>2
  <2>. HIDE DEF left, right
  <2>6. /\ Len(v) = n - 1 /\ DOMAIN v = 1..n - 1
        /\ \A i \in 1..n - 1 : v[i] = w[at(i)]
    <3>1. v \in Seq(MatchedLaunch) /\ Len(v) = n - 1
      BY <2>2, <2>4, <2>5, ConcatProperties
    <3>2. ASSUME NEW i \in 1..n - 1 PROVE v[i] = w[at(i)]
      <4>1. CASE i < k
        BY <2>2, <2>4, <2>5, <3>2, <4>1, ConcatProperties
      <4>2. CASE ~(i < k)
        <5>1. v[i] = right[i - (k - 1)] /\ i - (k - 1) \in 1..n - k
          BY <2>2, <2>4, <2>5, <3>2, <4>2, ConcatProperties
        <5>2. right[i - (k - 1)] = w[k + (i - (k - 1))]
          BY <2>5, <5>1
        <5>3. k + (i - (k - 1)) = i + 1
          BY <2>2, <3>2
        <5>4. QED
          BY <4>2, <5>1, <5>2, <5>3
      <4>3. QED
        BY <4>1, <4>2
    <3>3. QED
      BY <3>1, <3>2
  <2>7. \A i, j \in 1..n - 1 : /\ at(i) \in 1..n /\ at(i) # k
                               /\ at(i) = at(j) => i = j
    BY <2>2
  <2>. HIDE DEF at, v
  <2>8. \A i \in 1..n - 1 : v[i].pid # p /\ \E x \in DOMAIN w : v[i] = w[x]
    BY <2>1, <2>2, <2>6, <2>7
  <2>9. \A i, j \in 1..n - 1 : v[j].pid = v[i].pid => j = i
    BY <2>2, <2>6, <2>7
  <2>10. QED
    BY <2>3, <2>6, <2>8, <2>9
<1>2. CASE ~\E i \in DOMAIN w : w[i].pid = p
  BY <1>2 DEF Without
<1>3. QED
  BY <1>1, <1>2

LEMMA WaitingInformed ==
  ASSUME NEW w \in Seq(MatchedLaunch), NEW p, NEW L, NEW A, Waiting(w, L, A)
  PROVE  /\ Waiting(Informed(w, p), L \ {p}, A \ {p})
         /\ \A a : Apart(a, w) => Apart(a, Informed(w, p))
<1>. DEFINE v == Without(w, p)
            x == Informed(w, p)
<1>1. /\ \A i \in DOMAIN v : v[i].pid # p /\ \E k \in DOMAIN w : v[i] = w[k]
      /\ \A i, j \in DOMAIN v : v[j].pid = v[i].pid => j = i
  BY WithoutIs DEF Waiting
<1>2. x = [i \in DOMAIN v |-> [v[i] EXCEPT !.children = v[i].children \ {p}]]
  BY DEF Informed
<1>3. \A i \in DOMAIN v : v[i] \in MatchedLaunch
  BY WithoutType
<1>. HIDE DEF v, x
<1>4. /\ DOMAIN x = DOMAIN v
      /\ \A i \in DOMAIN v : /\ x[i].pid = v[i].pid
                             /\ x[i].children = v[i].children \ {p}
  BY <1>2, <1>3 DEF MatchedLaunch
<1>5. \A i \in DOMAIN v : /\ v[i].pid \in L \ A /\ v[i].children \subseteq L
                          /\ v[i].pid \notin v[i].children
  BY <1>1 DEF Waiting
<1>6. Waiting(x, L \ {p}, A \ {p})
  BY <1>1, <1>4, <1>5 DEF Waiting
<1>7. \A a : Apart(a, w) => Apart(a, x)
  <2>1. \A i \in DOMAIN x : \E k \in DOMAIN w : x[i].pid = w[k].pid
    BY <1>1, <1>4
  <2>2. QED
    BY <2>1 DEF Apart
<1>8. QED
  BY <1>6, <1>7 DEF x

(* The open session's own process.                                         *)
LEMMA HeldSubject ==
  ASSUME NEW m \in Manager, IsActive(m), ~m.stopping, Filed(m), NEW L, NEW A,
         Waiting(m.deferred, L, A), \A r \in m.starts : r.pid \notin A,
         m.active.liveChildren \subseteq L, m.active.pid \notin m.active.liveChildren,
         m.active.idleFor = None
  PROVE  Held(SubjectExited(m), L, A) /\ NoneEnds(m, SubjectExited(m))
<1>. DEFINE a == [m.active EXCEPT !.alive = FALSE, !.dueIn = None]
            w == [m EXCEPT !.active = a]
            gone == Persist(w)
            idle == [a EXCEPT !.idleFor = 0]
            z == [gone EXCEPT !.active = idle]
<1>1. m.active \in Active
  BY ActiveType
<1>2. a \in Active /\ idle \in Active
  <2>1. a \in Active
    BY <1>1 DEF Active
  <2>. HIDE DEF a
  <2>2. QED
    BY <2>1 DEF Active
<1>3. /\ ~a.alive /\ a.idleFor = None /\ ~idle.alive /\ idle.idleFor = 0
      /\ a.session = m.active.session /\ a.recording = m.active.recording
      /\ a.startedRecordings = m.active.startedRecordings /\ a.pid = m.active.pid
      /\ a.liveChildren = m.active.liveChildren
      /\ idle.session = m.active.session /\ idle.recording = m.active.recording
      /\ idle.startedRecordings = m.active.startedRecordings /\ idle.pid = m.active.pid
      /\ idle.liveChildren = m.active.liveChildren
  BY <1>1 DEF Active
<1>. HIDE DEF a, idle
<1>4. /\ w \in Manager /\ w.active = a /\ w.starts = m.starts /\ w.stopping = m.stopping
      /\ w.sidecars = m.sidecars /\ w.directory = m.directory /\ w.deferred = m.deferred
  BY <1>1, <1>2, WithActiveType DEF Manager
<1>. HIDE DEF w
<1>5. IsActive(w)
  BY <1>2, <1>4 DEF IsActive
<1>6. Filed(w) /\ NoneEnds(m, w)
  BY <1>3, <1>4, SameFiled
<1>7. /\ gone \in Manager /\ gone.active = a /\ gone.deferred = m.deferred
      /\ gone.stopping = m.stopping /\ gone.starts = m.starts
  BY <1>2, <1>4, PersistIs
<1>8. Filed(gone) /\ NoneEnds(m, gone)
  <2>1. Filed(gone) /\ NoneEnds(w, gone)
    BY <1>2, <1>4, <1>5, <1>6, FiledPersist DEF Filed
  <2>2. QED
    BY <1>6, <2>1, NoneEndsTwice
<1>9. SubjectExited(m) = IF m.active.recording # None THEN AskToStop(gone)
                         ELSE IF m.active.liveChildren = {} THEN z ELSE gone
  <2>1. SubjectExited(m) = IF m.active.recording # None THEN AskToStop(gone)
                           ELSE IF m.active.liveChildren = {}
                           THEN [gone EXCEPT !.active =
                                  [gone.active EXCEPT !.idleFor = 0]]
                           ELSE gone
    BY <1>1 DEF SubjectExited, Manager, a, w
  <2>. HIDE DEF gone
  <2>2. QED
    BY <1>7, <2>1 DEF idle
<1>. HIDE DEF gone
<1>10. IsActive(gone)
  BY <1>2, <1>7 DEF IsActive
<1>11. CASE m.active.recording # None \/ m.active.liveChildren # {}
  <2>1. Held(gone, L, A)
    BY <1>3, <1>7, <1>8, <1>11 DEF Held, Tracked, Watched, Apart, Owed
  <2>2. Held(AskToStop(gone), L, A) /\ NoneEnds(m, AskToStop(gone))
    BY <1>7, <1>8, <1>10, <2>1, HeldAsk, NoneEndsTwice
  <2>3. QED
    BY <1>8, <1>9, <1>11, <2>1, <2>2
<1>12. CASE ~(m.active.recording # None \/ m.active.liveChildren # {})
  <2>1. /\ z \in Manager /\ z.active = idle /\ z.deferred = gone.deferred
        /\ z.stopping = gone.stopping /\ z.starts = gone.starts
        /\ z.sidecars = gone.sidecars /\ z.directory = gone.directory
    BY <1>2, <1>7, WithActiveType DEF Manager
  <2>. HIDE DEF z
  <2>2. Filed(z) /\ NoneEnds(gone, z)
    BY <1>3, <1>7, <1>8, <1>10, <2>1, SameFiled
  <2>3. 0 # None
    OBVIOUS
  <2>4. Held(z, L, A)
    BY <1>3, <1>7, <1>12, <2>1, <2>2, <2>3 DEF Held, Tracked, Watched, Apart, Owed
  <2>5. QED
    BY <1>8, <1>9, <1>12, <2>2, <2>4, NoneEndsTwice
<1>13. QED
  BY <1>11, <1>12

(* Any other process.                                                      *)
LEMMA HeldChild ==
  ASSUME NEW m \in Manager, IsActive(m), ~m.stopping, Filed(m), NEW L, NEW A, NEW p,
         Waiting(m.deferred, L, A), \A r \in m.starts : r.pid \notin A,
         Apart(m.active, m.deferred), Owed(m.active),
         m.active.alive => m.active.pid \in L, m.active.liveChildren \ {p} \subseteq L,
         m.active.pid \notin m.active.liveChildren,
         m.active.alive /\ m.active.pid \in A
            => m.active.stopAskedFor /\ m.active.dueIn = None
  PROVE  Held(ChildExited(m, p), L, A) /\ NoneEnds(m, ChildExited(m, p))
<1>. DEFINE a == [m.active EXCEPT !.liveChildren = m.active.liveChildren \ {p}]
            idle == [a EXCEPT !.idleFor = 0]
            w == [m EXCEPT !.active = a]
            n == ChildExited(m, p)
            ends == /\ p \in m.active.liveChildren /\ ~a.alive /\ a.recording = None
                    /\ a.liveChildren = {} /\ a.idleFor = None
            x == IF ends THEN idle ELSE a
<1>1. m.active \in Active
  BY ActiveType
<1>2. a \in Active /\ idle \in Active
  <2>1. m.active.liveChildren \ {p} \in SUBSET Pids
    BY <1>1 DEF Active
  <2>2. a \in Active
    BY <1>1, <2>1 DEF Active
  <2>. HIDE DEF a
  <2>3. QED
    BY <2>2 DEF Active
<1>3. /\ x.liveChildren = m.active.liveChildren \ {p} /\ x.pid = m.active.pid
      /\ x.alive = m.active.alive /\ x.session = m.active.session
      /\ x.recording = m.active.recording /\ x.dueIn = m.active.dueIn
      /\ x.startedRecordings = m.active.startedRecordings
      /\ x.noWindow = m.active.noWindow /\ x.stopAskedFor = m.active.stopAskedFor
      /\ x.limitReported = m.active.limitReported
      /\ x.idleFor = IF ends THEN 0 ELSE m.active.idleFor
      /\ ends <=> /\ p \in m.active.liveChildren /\ ~m.active.alive
                  /\ m.active.recording = None
                  /\ m.active.liveChildren \ {p} = {} /\ m.active.idleFor = None
      /\ x \in Active
  BY <1>1, <1>2 DEF Active
<1>4. n = [m EXCEPT !.active = x]
  <2>1. w.active = a /\ [w EXCEPT !.active.idleFor = 0] = [m EXCEPT !.active = idle]
    BY <1>1 DEF Manager
  <2>2. n = IF ends THEN [w EXCEPT !.active.idleFor = 0] ELSE w
    BY <2>1 DEF ChildExited
  <2>3. QED
    BY <2>1, <2>2
<1>. HIDE DEF n, x, ends
<1>5. /\ n \in Manager /\ n.active = x /\ n.starts = m.starts /\ n.stopping = m.stopping
      /\ n.sidecars = m.sidecars /\ n.directory = m.directory /\ n.deferred = m.deferred
  BY <1>3, <1>4, WithActiveType DEF Manager
<1>6. Filed(n) /\ NoneEnds(m, n)
  BY <1>3, <1>5, SameFiled
<1>7. Watched(x, L, A) /\ Apart(x, n.deferred)
  BY <1>3, <1>5 DEF Watched, Apart
<1>8. Owed(x)
  <2>1. 0 # None
    OBVIOUS
  <2>2. QED
    BY <1>3, <2>1 DEF Owed
<1>9. Held(n, L, A)
  BY <1>5, <1>6, <1>7, <1>8 DEF Held, Tracked
<1>10. QED
  BY <1>6, <1>9 DEF n

LEMMA HeldExited ==
  ASSUME NEW m, NEW R, Sound(m, R), ~m.stopping, NEW L, NEW A, Held(m, L, A),
         NEW p \in Pids
  PROVE  /\ Held(Exited(m, p), L \ {p}, A \ {p})
         /\ NoneEnds(m, Exited(m, p))
<1>. DEFINE K == L \ {p}
            B == A \ {p}
            x == Informed(m.deferred, p)
            f == [m EXCEPT !.deferred = x]
<1>1. m \in Manager /\ m.deferred \in Seq(MatchedLaunch)
  BY DEF Sound, Manager
<1>2. /\ Waiting(x, K, B)
      /\ IsActive(m) => Apart(m.active, x)
  <2>1. Waiting(m.deferred, L, A) /\ (IsActive(m) => Apart(m.active, m.deferred))
    BY DEF Held, Tracked
  <2>2. QED
    BY <1>1, <2>1, WaitingInformed
<1>3. x \in Seq(MatchedLaunch)
  BY <1>1, InformedType
<1>4. Exited(m, p) = IF ~IsActive(m) THEN f
                     ELSE IF m.active.pid = p /\ m.active.alive
                     THEN SubjectExited(f) ELSE ChildExited(f, p)
  BY DEF Exited
<1>. HIDE DEF x
<1>5. /\ f \in Manager /\ f.active = m.active /\ f.starts = m.starts /\ f.deferred = x
      /\ f.sidecars = m.sidecars /\ f.directory = m.directory /\ f.stopping = m.stopping
  BY <1>1, <1>3 DEF Manager
<1>. HIDE DEF f
<1>6. IsActive(f) <=> IsActive(m)
  BY <1>5 DEF IsActive
<1>7. Filed(f) /\ NoneEnds(m, f)
  BY <1>5, SameFiled DEF Held
<1>8. \A r \in f.starts : r.pid \notin B
  BY <1>5 DEF Held, Tracked
<1>9. CASE ~IsActive(m)
  BY <1>2, <1>4, <1>5, <1>6, <1>7, <1>8, <1>9 DEF Held, Tracked
<1>10. CASE IsActive(m) /\ m.active.pid = p /\ m.active.alive
  <2>1. /\ f.active.liveChildren \subseteq K
        /\ f.active.pid \notin f.active.liveChildren
    BY <1>5, <1>10 DEF Held, Tracked, Watched
  <2>2. f.active.idleFor = None
    BY <1>5, <1>10 DEF Sound, Timed
  <2>3. Held(SubjectExited(f), K, B) /\ NoneEnds(f, SubjectExited(f))
    BY <1>2, <1>5, <1>6, <1>7, <1>8, <1>10, <2>1, <2>2, HeldSubject
  <2>4. QED
    BY <1>4, <1>7, <1>10, <2>3, NoneEndsTwice
<1>11. CASE IsActive(m) /\ ~(m.active.pid = p /\ m.active.alive)
  <2>1. /\ m.active.alive => m.active.pid \in K
        /\ m.active.liveChildren \ {p} \subseteq K
        /\ m.active.pid \notin m.active.liveChildren
        /\ m.active.alive /\ m.active.pid \in B
             => m.active.stopAskedFor /\ m.active.dueIn = None
    BY <1>11 DEF Held, Tracked, Watched
  <2>2. Apart(m.active, x) /\ Owed(m.active)
    BY <1>2, <1>11 DEF Held
  <2>. HIDE DEF K, B
  <2>3. Held(ChildExited(f, p), K, B) /\ NoneEnds(f, ChildExited(f, p))
    BY <1>2, <1>5, <1>6, <1>7, <1>8, <1>11, <2>1, <2>2, HeldChild
  <2>4. QED
    BY <1>4, <1>7, <1>11, <2>3, NoneEndsTwice DEF K, B
<1>12. QED
  BY <1>9, <1>10, <1>11

(* The outcome of the recording the session waits for: every recording in  *)
(* its record has one now.                                                 *)
LEMMA OpenEnded ==
  ASSUME NEW a \in Active, NEW d, OpenSound(a, d), a.recording # None,
         NEW outcome \in Outcomes
  PROVE  OpenSound(OutcomeArrived(a, outcome), d)
<1>. DEFINE k == a.recording
            s == a.session
            r == [s.recordings EXCEPT ![k] = [s.recordings[k] EXCEPT !.ended = TRUE]]
            b == OutcomeArrived(a, outcome)
<1>1. /\ s \in Session /\ s.recordings \in Seq(SessionRecording) /\ k \in DOMAIN s.recordings
      /\ DOMAIN s.recordings = 1..Len(s.recordings) /\ Len(s.recordings) \in Nat
  BY DEF Active, Session, OpenSound
<1>2. /\ b.session = [s EXCEPT !.recordings = r]
      /\ b.recording = None /\ b.startedRecordings = a.startedRecordings
  <2>1. b.session = [s EXCEPT !.recordings = r] /\ b.recording = None
    BY DEF OutcomeArrived, Active
  <2>2. b.startedRecordings = a.startedRecordings
    BY DEF OutcomeArrived, Active
  <2>3. QED
    BY <2>1, <2>2
<1>3. \A i \in DOMAIN s.recordings :
        /\ s.recordings[i] \in SessionRecording
        /\ s.recordings[i].directory = d
        /\ s.recordings[i].ended <=> k # i
  BY <1>1 DEF OpenSound, Account
<1>4. /\ DOMAIN r = DOMAIN s.recordings
      /\ \A i \in DOMAIN r : r[i].directory = d /\ r[i].ended
  BY <1>1, <1>3 DEF SessionRecording
<1>5. r \in Seq(SessionRecording)
  <2>1. [s.recordings[k] EXCEPT !.ended = TRUE] \in SessionRecording
    BY <1>1, <1>3 DEF SessionRecording
  <2>2. QED
    BY <1>1, <2>1
<1>. HIDE DEF r, b
<1>6. Len(r) = Len(s.recordings)
  BY <1>1, <1>4, <1>5
<1>7. b.session.recordings = r /\ b.session.ended = s.ended
  BY <1>1, <1>2 DEF Session
<1>8. \A i \in DOMAIN r : None # i
  BY <1>1, <1>4
<1>9. OpenSound(b, d)
  BY <1>2, <1>4, <1>6, <1>7, <1>8 DEF OpenSound, Account
<1>10. QED
  BY <1>9 DEF b

LEMMA HeldEnded ==
  ASSUME NEW m \in Manager, IsActive(m), m.starts = {}, Timed(m.active),
         m.active.recording # None, NEW outcome \in Outcomes,
         NEW L, NEW A, Held(m, L, A)
  PROVE  LET n == EndRecording(m, outcome) IN
         /\ Held(n, L, A) /\ NoneEnds(m, n)
         /\ n \in Manager /\ n.active.recording = None
         /\ n.since = m.since /\ n.stopping = m.stopping
         /\ n.active.alive = m.active.alive /\ n.active.idleFor \in {None, 0}
<1>. DEFINE a == OutcomeArrived(m.active, outcome)
            w == [m EXCEPT !.active = a]
            done == Persist(w)
            due == [a EXCEPT !.dueIn = RestartDelayAfter(outcome)]
            idle == [a EXCEPT !.idleFor = 0]
            n == EndRecording(m, outcome)
            resumes == a.alive /\ ~a.noWindow /\ ~a.stopAskedFor
            x == IF m.stopping THEN a
                 ELSE IF resumes THEN due
                 ELSE IF ~a.alive /\ a.liveChildren = {} THEN idle ELSE a
<1>1. m.active \in Active /\ a \in Active
  BY ActiveType, OutcomeType
<1>2. /\ a.recording = None /\ a.dueIn = None /\ a.idleFor = None
      /\ a.alive = m.active.alive /\ a.pid = m.active.pid
      /\ a.liveChildren = m.active.liveChildren
      /\ a.stopAskedFor = m.active.stopAskedFor
  BY <1>1 DEF OutcomeArrived, Timed, Active
<1>3. Filed(m) /\ OpenSound(a, m.directory)
  <2>1. Filed(m) /\ OpenSound(m.active, m.directory)
    BY DEF Held, Filed
  <2>2. QED
    BY <1>1, <2>1, OpenEnded
<1>4. n = IF m.stopping THEN done
          ELSE IF resumes THEN [done EXCEPT !.active.dueIn = RestartDelayAfter(outcome)]
          ELSE IF ~a.alive /\ a.liveChildren = {} THEN [done EXCEPT !.active.idleFor = 0]
          ELSE done
  BY DEF EndRecording
<1>. HIDE DEF a
<1>5. /\ w \in Manager /\ w.active = a /\ w.starts = m.starts /\ w.stopping = m.stopping
      /\ w.since = m.since
      /\ w.sidecars = m.sidecars /\ w.directory = m.directory /\ w.deferred = m.deferred
  BY <1>1, WithActiveType DEF Manager
<1>. HIDE DEF w
<1>6. /\ done \in Manager /\ done.active = a /\ done.starts = {} /\ done.since = m.since
      /\ done.stopping = m.stopping /\ done.deferred = m.deferred
  BY <1>1, <1>5, PersistIs
<1>7. Filed(done) /\ NoneEnds(m, done)
  <2>1. DiskSound(w) /\ NoneEnds(m, w)
    BY <1>3, <1>5, SameDisk DEF Filed
  <2>2. Filed(done) /\ NoneEnds(w, done)
    BY <1>1, <1>3, <1>5, <2>1, FiledPersist
  <2>3. QED
    BY <2>1, <2>2, NoneEndsTwice
<1>. HIDE DEF done
<1>8. /\ x \in Active /\ x.session = a.session /\ x.recording = None
      /\ x.startedRecordings = a.startedRecordings /\ x.alive = a.alive /\ x.pid = a.pid
      /\ x.liveChildren = a.liveChildren /\ x.stopAskedFor = a.stopAskedFor
      /\ x.noWindow = a.noWindow /\ x.limitReported = a.limitReported
      /\ x.idleFor = IF ~m.stopping /\ ~resumes /\ ~a.alive /\ a.liveChildren = {}
                     THEN 0 ELSE None
      /\ x.dueIn = IF ~m.stopping /\ resumes THEN RestartDelayAfter(outcome) ELSE None
  BY <1>1, <1>2 DEF Active, RestartDelayAfter
<1>9. n = [done EXCEPT !.active = x]
  <2>1. done = [done EXCEPT !.active = a]
    BY <1>6 DEF Manager
  <2>. HIDE DEF n
  <2>2. QED
    BY <1>4, <1>6, <2>1
<1>. HIDE DEF x, n
<1>10. /\ n \in Manager /\ n.active = x /\ n.deferred = m.deferred /\ n.starts = {}
       /\ n.stopping = m.stopping /\ n.since = m.since
       /\ n.sidecars = done.sidecars /\ n.directory = done.directory
  BY <1>6, <1>8, <1>9, WithActiveType DEF Manager
<1>11. IsActive(done)
  BY <1>1, <1>6 DEF IsActive
<1>12. Filed(n) /\ NoneEnds(m, n)
  <2>1. Filed(n) /\ NoneEnds(done, n)
    BY <1>2, <1>6, <1>7, <1>8, <1>10, <1>11, SameFiled
  <2>2. QED
    BY <1>7, <2>1, NoneEndsTwice
<1>13. ASSUME ~m.stopping PROVE Tracked(n, L, A) /\ Owed(x)
  <2>1. Tracked(m, L, A)
    BY <1>13 DEF Held
  <2>2. Watched(x, L, A) /\ Apart(x, n.deferred)
    BY <1>2, <1>8, <1>10, <2>1 DEF Tracked, Watched, Apart
  <2>3. Tracked(n, L, A)
    BY <1>10, <2>1, <2>2 DEF Tracked
  <2>4. RestartDelayAfter(outcome) # None /\ 0 # None
    BY DEF RestartDelayAfter
  <2>5. Owed(x)
    BY <1>8, <1>13, <2>4 DEF Owed
  <2>6. QED
    BY <2>3, <2>5
<1>14. Held(n, L, A)
  BY <1>10, <1>12, <1>13 DEF Held
<1>15. QED
  BY <1>2, <1>8, <1>10, <1>12, <1>14 DEF n

LEMMA HeldFinished ==
  ASSUME NEW m, NEW R \in SUBSET RecordingRequest, Sound(m, R), m.starts = {},
         NEW r \in R, NEW outcome \in Outcomes, NEW L, NEW A, Held(m, L, A)
  PROVE  LET n == RecordingFinished(m, r, outcome) IN
         /\ Held(n, L, A)
         /\ m.stopping \/ NoneEnds(m, n) \/ MayEnd(m)
         /\ ~m.stopping => ~n.stopping
<1>. DEFINE done == EndRecording(m, outcome)
            n == RecordingFinished(m, r, outcome)
<1>1. Expects(m, r)
  BY DEF Sound
<1>2. m \in Manager /\ IsActive(m) /\ Timed(m.active) /\ m.active.recording # None
  BY <1>1 DEF Sound, Expects, RecordingRequest
<1>3. Sound(done, {}) /\ IsActive(done) /\ done.starts = {}
  BY <1>2, EndedRecording
<1>4. /\ Held(done, L, A) /\ NoneEnds(m, done) /\ done \in Manager
      /\ done.active.recording = None /\ done.since = m.since
      /\ done.stopping = m.stopping /\ done.active.alive = m.active.alive
      /\ done.active.idleFor \in {None, 0}
  BY <1>2, HeldEnded
<1>5. n = Advance(IF m.stopping THEN CloseActive(done) ELSE done)
  BY <1>1 DEF RecordingFinished
<1>. HIDE DEF done, n
<1>6. CASE m.stopping
  <2>1. Held(CloseActive(done), L, A) /\ Sound(CloseActive(done), {})
    BY <1>3, <1>4, HeldClose, SoundClose
  <2>2. CloseActive(done).starts = {}
    BY <1>3, <1>4, <1>6, ActiveType, HaltedClose DEF Halted
  <2>3. Held(n, L, A)
    BY <1>5, <1>6, <2>1, <2>2, HeldAdvance
  <2>4. QED
    BY <1>6, <2>3 DEF n
<1>7. CASE ~m.stopping
  <2>1. Held(n, L, A) /\ (NoneEnds(done, n) \/ MayEnd(done))
    BY <1>3, <1>4, <1>5, <1>7, HeldAdvance
  <2>2. MayEnd(done) => MayEnd(m)
    BY <1>2, <1>4 DEF MayEnd
  <2>3. ~n.stopping
    BY <1>4, <1>5, <1>7, SameStopping
  <2>4. QED
    BY <1>4, <1>7, <2>1, <2>2, <2>3, NoneEndsTwice DEF n
<1>8. QED
  BY <1>6, <1>7

(* The user's stop holds for the process it was asked of.                  *)
LEMMA HeldAsked ==
  ASSUME NEW m \in Manager, m.starts = {}, NEW L, NEW A, Held(m, L, A),
         NEW B, B = IF IsActive(m) /\ m.active.alive THEN A \cup {m.active.pid} ELSE A
  PROVE  /\ Held(AskedToStopRecording(m), L, B)
         /\ AskedToStopRecording(m) \in Manager
         /\ AskedToStopRecording(m).stopping = m.stopping
         /\ AskedToStopRecording(m).starts = {}
         /\ NoneEnds(m, AskedToStopRecording(m))
         /\ ~m.stopping /\ A \subseteq L => B \subseteq L
<1>. DEFINE a == [m.active EXCEPT !.stopAskedFor = TRUE, !.dueIn = None]
            n == [m EXCEPT !.active = a]
<1>1. CASE IsActive(m)
  <2>1. m.active \in Active
    BY <1>1, ActiveType
  <2>2. a \in Active
    BY <2>1 DEF Active
  <2>3. /\ a.session = m.active.session /\ a.recording = m.active.recording
        /\ a.startedRecordings = m.active.startedRecordings
        /\ a.pid = m.active.pid /\ a.alive = m.active.alive
        /\ a.liveChildren = m.active.liveChildren /\ a.idleFor = m.active.idleFor
        /\ a.stopAskedFor /\ a.dueIn = None
    BY <2>1 DEF Active
  <2>4. AskedToStopRecording(m) = n
    BY <1>1 DEF AskedToStopRecording, Manager
  <2>. HIDE DEF a
  <2>5. /\ n \in Manager /\ n.active = a /\ n.starts = {} /\ n.deferred = m.deferred
        /\ n.stopping = m.stopping /\ n.sidecars = m.sidecars /\ n.directory = m.directory
    BY <2>2, WithActiveType DEF Manager
  <2>. HIDE DEF n
  <2>6. Filed(n) /\ NoneEnds(m, n)
    BY <1>1, <2>3, <2>5, SameFiled DEF Held
  <2>7. ASSUME ~m.stopping PROVE Tracked(n, L, B) /\ Owed(a) /\ (A \subseteq L => B \subseteq L)
    <3>1. Tracked(m, L, A) /\ Owed(m.active)
      BY <1>1, <2>7 DEF Held
    <3>2. Waiting(m.deferred, L, B)
      BY <1>1, <3>1 DEF Tracked, Waiting, Apart
    <3>3. Watched(a, L, B) /\ Apart(a, m.deferred)
      BY <1>1, <2>3, <3>1 DEF Tracked, Watched, Apart
    <3>4. Owed(a)
      BY <2>3, <3>1 DEF Owed
    <3>5. A \subseteq L => B \subseteq L
      BY <1>1, <3>1 DEF Tracked, Watched
    <3>6. QED
      BY <2>5, <3>2, <3>3, <3>4, <3>5 DEF Tracked
  <2>8. Held(n, L, B)
    BY <2>5, <2>6, <2>7 DEF Held
  <2>9. QED
    BY <2>4, <2>5, <2>6, <2>7, <2>8
<1>2. CASE ~IsActive(m)
  <2>1. AskedToStopRecording(m) = m /\ B = A
    BY <1>2 DEF AskedToStopRecording
  <2>2. NoneEnds(m, m)
    BY SameDisk
  <2>3. QED
    BY <2>1, <2>2
<1>3. QED
  BY <1>1, <1>2

(* A shutdown closes what waits for nothing, and starts nothing.           *)
LEMMA HeldShutDown ==
  ASSUME NEW m \in Manager, m.starts = {}, NEW L, NEW A, Held(m, L, A)
  PROVE  /\ Held(ShutDown(m), L, A) /\ ShutDown(m) \in Manager
         /\ ShutDown(m).stopping /\ ShutDown(m).starts = {}
<1>. DEFINE halted == [m EXCEPT !.stopping = TRUE, !.deferred = <<>>]
            a == [m.active EXCEPT !.dueIn = None]
            n == [halted EXCEPT !.active = a]
<1>1. /\ halted \in Manager /\ halted.active = m.active /\ halted.starts = {}
      /\ halted.stopping /\ halted.sidecars = m.sidecars /\ halted.directory = m.directory
  <2>1. <<>> \in Seq(MatchedLaunch)
    OBVIOUS
  <2>2. QED
    BY <2>1 DEF Manager
<1>2. ShutDown(m) = IF ~IsActive(m) THEN halted
                    ELSE IF m.active.recording = None THEN CloseActive(halted)
                    ELSE AskToStop(n)
  BY <1>1 DEF ShutDown
<1>. HIDE DEF halted
<1>3. Filed(halted)
  BY <1>1, SameFiled DEF Held
<1>4. Held(halted, L, A)
  BY <1>1, <1>3 DEF Held
<1>5. CASE ~IsActive(m)
  BY <1>1, <1>2, <1>4, <1>5
<1>6. CASE IsActive(m)
  <2>1. IsActive(halted) /\ m.active \in Active
    BY <1>1, <1>6, ActiveType DEF IsActive
  <2>2. ASSUME m.active.recording = None
        PROVE  Held(CloseActive(halted), L, A) /\ Halted(halted, CloseActive(halted))
    BY <1>1, <1>4, <2>1, <2>2, HeldClose, HaltedClose
  <2>3. /\ a \in Active /\ a.session = m.active.session
        /\ a.recording = m.active.recording
        /\ a.startedRecordings = m.active.startedRecordings
    BY <2>1 DEF Active
  <2>. HIDE DEF a
  <2>4. /\ n \in Manager /\ n.active = a /\ n.starts = {} /\ n.stopping
        /\ n.sidecars = halted.sidecars /\ n.directory = halted.directory
    BY <1>1, <2>3, WithActiveType DEF Manager
  <2>. HIDE DEF n
  <2>5. IsActive(n)
    BY <2>3, <2>4 DEF IsActive
  <2>6. Filed(n)
    BY <1>1, <1>3, <2>1, <2>3, <2>4, SameFiled
  <2>7. Held(n, L, A)
    BY <2>4, <2>6 DEF Held
  <2>8. Held(AskToStop(n), L, A) /\ Halted(n, AskToStop(n))
    BY <2>3, <2>4, <2>5, <2>7, HeldAsk, HaltedAsk
  <2>9. QED
    BY <1>1, <1>2, <1>6, <2>2, <2>4, <2>8 DEF Halted
<1>7. QED
  BY <1>5, <1>6

(* A directory chosen during a sitting waits for its end.                  *)
LEMMA HeldSetDirectory ==
  ASSUME NEW m \in Manager, NEW L, NEW A, Held(m, L, A), NEW d \in Directories
  PROVE  LET n == SetRecordingDirectory(m, d) IN
         /\ Held(n, L, A) /\ NoneEnds(m, n)
         /\ n \in Manager /\ n.stopping = m.stopping /\ n.starts = m.starts
<1>. DEFINE n == SetRecordingDirectory(m, d)
<1>1. n \in Manager
  BY SetDirectoryType
<1>2. /\ n.active = m.active /\ n.starts = m.starts /\ n.stopping = m.stopping
      /\ n.deferred = m.deferred /\ n.sidecars = m.sidecars
      /\ IsActive(m) => n.directory = m.directory
  BY DEF SetRecordingDirectory, Manager
<1>. HIDE DEF n
<1>3. IsActive(n) <=> IsActive(m)
  BY <1>2 DEF IsActive
<1>4. DiskSound(n) /\ NoneEnds(m, n)
  BY <1>2, SameDisk DEF Held, Filed
<1>5. Filed(n)
  BY <1>2, <1>3, <1>4 DEF Held, Filed
<1>6. Held(n, L, A)
  BY <1>2, <1>3, <1>5 DEF Held, Tracked
<1>7. QED
  BY <1>1, <1>2, <1>4, <1>6 DEF n

(* Time alone ends nothing: what it makes due waits for the next call.     *)
LEMMA HeldAged ==
  ASSUME NEW m \in Manager, NEW L, NEW A, Held(m, L, A)
  PROVE  LET n == Aged(m) IN
         /\ Held(n, L, A) /\ NoneEnds(m, n)
         /\ n \in Manager /\ n.stopping = m.stopping /\ n.starts = m.starts
<1>. DEFINE n == Aged(m)
<1>1. /\ n \in Manager /\ n.starts = m.starts /\ n.stopping = m.stopping
      /\ n.deferred = m.deferred /\ n.sidecars = m.sidecars /\ n.directory = m.directory
  BY AgedType DEF Aged, Manager
<1>2. NoneEnds(m, n)
  BY <1>1, SameDisk
<1>3. CASE IsActive(m)
  <2>1. \A most \in Nat : \A age \in 0..most \cup {None} :
          /\ Older(age, most) = None <=> age = None
          /\ Nearer(age) = None <=> age = None
    BY DEF Older, Nearer
  <2>2. n.active = [m.active EXCEPT !.idleFor = Older(m.active.idleFor, RestartGrace),
                                    !.dueIn = Nearer(m.active.dueIn)]
    BY <1>3 DEF Aged, Manager, IsActive
  <2>3. m.active \in Active
    BY <1>3, ActiveType
  <2>4. /\ n.active.idleFor = Older(m.active.idleFor, RestartGrace)
        /\ n.active.dueIn = Nearer(m.active.dueIn)
        /\ n.active.session = m.active.session
        /\ n.active.recording = m.active.recording
        /\ n.active.startedRecordings = m.active.startedRecordings
        /\ n.active.pid = m.active.pid /\ n.active.alive = m.active.alive
        /\ n.active.liveChildren = m.active.liveChildren
        /\ n.active.noWindow = m.active.noWindow
        /\ n.active.stopAskedFor = m.active.stopAskedFor
        /\ n.active.limitReported = m.active.limitReported
    BY <2>2, <2>3 DEF Active
  <2>5. /\ n.active.idleFor = None <=> m.active.idleFor = None
        /\ n.active.dueIn = None <=> m.active.dueIn = None
    BY <2>1, <2>3, <2>4 DEF Active
  <2>. HIDE DEF n
  <2>6. Filed(n)
    BY <1>1, <1>3, <2>4, SameFiled DEF Held
  <2>7. ASSUME ~m.stopping PROVE Tracked(n, L, A) /\ Owed(n.active)
    <3>1. Tracked(m, L, A) /\ Owed(m.active)
      BY <1>3, <2>7 DEF Held
    <3>2. Watched(n.active, L, A) /\ Apart(n.active, n.deferred)
      BY <1>1, <1>3, <2>4, <2>5, <3>1 DEF Tracked, Watched, Apart
    <3>3. Owed(n.active)
      BY <2>4, <2>5, <3>1 DEF Owed
    <3>4. QED
      BY <1>1, <3>1, <3>2, <3>3 DEF Tracked
  <2>8. Held(n, L, A)
    BY <1>1, <2>6, <2>7 DEF Held
  <2>9. QED
    BY <1>1, <1>2, <2>8 DEF n
<1>4. CASE ~IsActive(m)
  <2>1. n.active = m.active
    BY <1>4 DEF Aged, Manager
  <2>. HIDE DEF n
  <2>2. ~IsActive(n)
    BY <1>4, <2>1 DEF IsActive
  <2>3. Held(n, L, A)
    BY <1>1, <1>2, <1>4, <2>1, <2>2, SameFiled DEF Held, Tracked
  <2>4. QED
    BY <1>1, <1>2, <2>3 DEF n
<1>5. QED
  BY <1>3, <1>4

(* The manager m a step leaves, where L are then alive and A of them had   *)
(* their recording stopped.                                                *)
After(m, L, A) ==
    /\ m \in Manager
    /\ Held(m, L, A)
    /\ ~m.stopping => A \subseteq L
    /\ m.stopping => m.starts = {}
    /\ ~manager.stopping /\ ~m.stopping => NoneEnds(Fresh, m) \/ MayEnd(Fresh)

LEMMA StillRunning ==
  ASSUME NEW m \in Manager
  PROVE  /\ \A l \in MatchedLaunch : Launched(m, l).stopping = m.stopping
         /\ \A p : Exited(m, p).stopping = m.stopping
<1>1. ASSUME NEW l \in MatchedLaunch PROVE Launched(m, l).stopping = m.stopping
  <2>1. ~IsActive(m) => Launched(m, l).stopping = m.stopping
    BY SameStopping DEF Launched
  <2>2. Defer(m, l).stopping = m.stopping
    BY DEF Defer, Persist, Manager
  <2>3. IsActive(m) => Rejoin(m, l).stopping = m.stopping
    <3>1. Rejoined(m, l).stopping = m.stopping
      BY DEF Rejoined, Persist, Manager
    <3>2. IsActive(m) => /\ Rejoined(m, l) \in Manager
                         /\ Rejoined(m, l).active \in Active
      BY ActiveType, RejoinedType
    <3>3. IsActive(m) => IsActive(Rejoined(m, l))
      BY <3>2 DEF IsActive
    <3>4. QED
      BY <3>1, <3>2, <3>3, SameStopping DEF Rejoin
  <2>4. QED
    BY <2>1, <2>2, <2>3 DEF Launched
<1>2. ASSUME NEW p PROVE Exited(m, p).stopping = m.stopping
  BY DEF Exited, SubjectExited, ChildExited, AskToStop, Persist, Manager
<1>3. QED
  BY <1>1, <1>2

(* What every step does, whichever it is.                                  *)
LEMMA StepIsHeld ==
  ASSUME TypeOK, Sound(Fresh, running), HeldInv, Next
  PROVE  /\ After(manager', live', askedFor')
         /\ running' \ running \subseteq manager'.starts
<1>. DEFINE m == Fresh
<1>1. /\ m \in Manager /\ m.starts = {} /\ m.stopping = manager.stopping
      /\ m.active = manager.active
      /\ running \in SUBSET RecordingRequest
  BY DEF TypeOK, Fresh, Manager
<1>2. /\ Sound(m, running) /\ Held(m, live, askedFor)
      /\ ~m.stopping => askedFor \subseteq live
  BY <1>1 DEF HeldInv
<1>. HIDE DEF m
<1>3. /\ Advance(m) \in Manager /\ Held(Advance(m), live, askedFor)
      /\ NoneEnds(m, Advance(m)) \/ MayEnd(m)
  BY <1>1, <1>2, HeldAdvance, AdvanceType
<1>4. Sound(Advance(m), running) /\ Advance(m).stopping = m.stopping
  BY <1>1, <1>2, SoundAdvance, SameStopping
<1>5. m.stopping => Advance(m).starts = {}
  BY <1>1, HaltedAdvance DEF Halted
<1>6. ASSUME NEW n, NEW over, Call(n, over)
      PROVE  manager' = n /\ running' \ running \subseteq manager'.starts
  BY <1>6 DEF Call
<1>7. CASE Tick
  <2>1. manager' = Aged(m) /\ running' = running /\ UNCHANGED <<live, askedFor>>
    BY <1>7 DEF Tick, m
  <2>2. After(Aged(m), live, askedFor)
    BY <1>1, <1>2, HeldAged DEF After, m
  <2>3. QED
    BY <2>1, <2>2
<1>8. CASE Poll
  <2>1. Call(Advance(m), {}) /\ UNCHANGED <<live, askedFor>>
    BY <1>8 DEF Poll, m
  <2>2. After(Advance(m), live, askedFor)
    BY <1>2, <1>3, <1>4, <1>5 DEF After, m
  <2>3. QED
    BY <1>6, <2>1, <2>2
<1>9. ASSUME NEW l \in Launches, Launch(l)
      PROVE  /\ After(manager', live', askedFor')
             /\ running' \ running \subseteq manager'.starts
  <2>. DEFINE n == ObserveLaunched(m, l)
              K == live \cup {l.pid} \cup l.children
  <2>1. Call(n, {}) /\ live' = K /\ UNCHANGED askedFor
    BY <1>9 DEF Launch, m
  <2>2. l \in MatchedLaunch /\ l.pid \notin l.children
    BY DEF MatchedLaunch, SessionIds
  <2>3. ({l.pid} \cup l.children) \cap live = {}
    BY <1>9 DEF Launch
  <2>4. n \in Manager
    BY <1>1, CallTypes
  <2>5. CASE m.stopping
    <3>1. n = Advance(m)
      BY <2>5 DEF ObserveLaunched
    <3>. HIDE DEF n, K
    <3>2. Held(n, K, askedFor) /\ n.stopping /\ n.starts = {}
      <4>1. Held(n, live, askedFor) /\ n.stopping /\ n.starts = {}
        BY <1>3, <1>4, <1>5, <2>5, <3>1
      <4>2. QED
        BY <4>1 DEF Held
    <3>3. After(n, K, askedFor)
      BY <2>4, <3>2 DEF After
    <3>4. QED
      BY <1>6, <2>1, <3>3
  <2>6. CASE ~m.stopping
    <3>1. n = Launched(Advance(m), l)
      BY <2>6 DEF ObserveLaunched
    <3>2. Held(n, K, askedFor) /\ NoneEnds(Advance(m), n)
      BY <1>1, <1>2, <1>3, <1>4, <2>2, <2>3, <2>6, <3>1, HeldLaunched
    <3>3. NoneEnds(m, n) \/ MayEnd(m)
      BY <1>3, <3>2, NoneEndsTwice
    <3>4. askedFor \subseteq K /\ ~n.stopping
      <4>1. n.stopping = Advance(m).stopping
        BY <1>3, <2>2, <3>1, StillRunning
      <4>2. QED
        BY <1>2, <1>4, <2>6, <4>1
    <3>. HIDE DEF n, K
    <3>5. After(n, K, askedFor)
      BY <2>4, <3>2, <3>3, <3>4 DEF After, m
    <3>6. QED
      BY <1>6, <2>1, <3>5
  <2>7. QED
    BY <2>5, <2>6
<1>10. ASSUME NEW p \in Pids, Exit(p)
       PROVE  /\ After(manager', live', askedFor')
              /\ running' \ running \subseteq manager'.starts
  <2>. DEFINE n == ObserveExited(m, p)
              K == live \ {p}
              B == askedFor \ {p}
  <2>1. Call(n, {}) /\ live' = K /\ askedFor' = B
    BY <1>10 DEF Exit, m
  <2>2. n \in Manager
    BY <1>1, CallTypes
  <2>3. CASE m.stopping
    <3>1. n = Advance(m)
      BY <2>3 DEF ObserveExited
    <3>. HIDE DEF n, K, B
    <3>2. Held(n, K, B) /\ n.stopping /\ n.starts = {}
      <4>1. Held(n, live, askedFor) /\ n.stopping /\ n.starts = {}
        BY <1>3, <1>4, <1>5, <2>3, <3>1
      <4>2. QED
        BY <4>1 DEF Held
    <3>3. After(n, K, B)
      BY <2>2, <3>2 DEF After
    <3>4. QED
      BY <1>6, <2>1, <3>3
  <2>4. CASE ~m.stopping
    <3>1. n = Exited(Advance(m), p)
      BY <2>4 DEF ObserveExited
    <3>2. Held(n, K, B) /\ NoneEnds(Advance(m), n)
      BY <1>3, <1>4, <2>4, <3>1, HeldExited
    <3>3. NoneEnds(m, n) \/ MayEnd(m)
      BY <1>3, <3>2, NoneEndsTwice
    <3>4. B \subseteq K /\ ~n.stopping
      <4>1. n.stopping = Advance(m).stopping
        BY <1>3, <3>1, StillRunning
      <4>2. QED
        BY <1>2, <1>4, <2>4, <4>1
    <3>. HIDE DEF n, K, B
    <3>5. After(n, K, B)
      BY <2>2, <3>2, <3>3, <3>4 DEF After, m
    <3>6. QED
      BY <1>6, <2>1, <3>5
  <2>5. QED
    BY <2>3, <2>4
<1>11. ASSUME NEW r \in running, NEW outcome \in Outcomes, Finish(r, outcome)
       PROVE  /\ After(manager', live', askedFor')
              /\ running' \ running \subseteq manager'.starts
  <2>. DEFINE n == RecordingFinished(m, r, outcome)
  <2>1. Call(n, {r}) /\ UNCHANGED <<live, askedFor>>
    BY <1>11 DEF Finish, m
  <2>2. n \in Manager
    BY <1>1, CallTypes
  <2>3. Held(n, live, askedFor) /\ (m.stopping \/ NoneEnds(m, n) \/ MayEnd(m))
    BY <1>1, <1>2, HeldFinished
  <2>4. m.stopping => n.stopping /\ n.starts = {}
    BY <1>1, HaltedFinished DEF Halted
  <2>5. ~m.stopping => ~n.stopping
    BY <1>1, <1>2, HeldFinished
  <2>. HIDE DEF n
  <2>6. After(n, live, askedFor)
    BY <1>1, <1>2, <2>2, <2>3, <2>4, <2>5 DEF After, m
  <2>7. QED
    BY <1>6, <2>1, <2>6
<1>12. CASE AskStop
  <2>. DEFINE n == AskedToStopRecording(m)
  <2>1. /\ Call(n, {}) /\ UNCHANGED live
        /\ askedFor' = IF IsActive(m) /\ m.active.alive
                       THEN askedFor \cup {m.active.pid} ELSE askedFor
    BY <1>1, <1>12 DEF AskStop, IsActive, m
  <2>2. /\ Held(n, live, askedFor') /\ n \in Manager /\ n.stopping = m.stopping
        /\ n.starts = {} /\ NoneEnds(m, n)
        /\ ~m.stopping => askedFor' \subseteq live
    BY <1>1, <1>2, <2>1, HeldAsked
  <2>. HIDE DEF n
  <2>3. After(n, live, askedFor')
    BY <2>2 DEF After, m
  <2>4. QED
    BY <1>6, <2>1, <2>3
<1>13. CASE Stop
  <2>1. Call(ShutDown(m), {}) /\ UNCHANGED <<live, askedFor>>
    BY <1>13 DEF Stop, m
  <2>2. After(ShutDown(m), live, askedFor)
    BY <1>1, <1>2, HeldShutDown DEF After
  <2>3. QED
    BY <1>6, <2>1, <2>2
<1>14. ASSUME NEW d \in Directories, ChooseDirectory(d)
       PROVE  /\ After(manager', live', askedFor')
              /\ running' \ running \subseteq manager'.starts
  <2>1. Call(SetRecordingDirectory(m, d), {}) /\ UNCHANGED <<live, askedFor>>
    BY <1>14 DEF ChooseDirectory, m
  <2>2. After(SetRecordingDirectory(m, d), live, askedFor)
    BY <1>1, <1>2, HeldSetDirectory DEF After, m
  <2>3. QED
    BY <1>6, <2>1, <2>2
<1>15. QED
  BY <1>7, <1>8, <1>9, <1>10, <1>11, <1>12, <1>13, <1>14 DEF Next

LEMMA InitIsHeld == Init => HeldInv
<1>. SUFFICES ASSUME Init PROVE HeldInv
  OBVIOUS
<1>1. /\ Fresh.active = None /\ Fresh.deferred = <<>> /\ Fresh.starts = {}
      /\ \A id \in SessionIds : Fresh.sidecars[id] = None
      /\ askedFor = {} /\ live = {}
  BY DEF Init, Fresh
<1>2. Filed(Fresh)
  BY <1>1 DEF Filed, DiskSound, IsActive
<1>3. Tracked(Fresh, live, askedFor)
  BY <1>1 DEF Tracked, Waiting, IsActive
<1>4. QED
  BY <1>1, <1>2, <1>3 DEF HeldInv, Held, IsActive

(* The driver has applied what the call asked for.                         *)
LEMMA AppliedIsHeld ==
  ASSUME NEW m, NEW L, NEW A, After(m, L, A)
  PROVE  Held([m EXCEPT !.starts = {}, !.stops = {}], L, A)
<1>. DEFINE n == [m EXCEPT !.starts = {}, !.stops = {}]
<1>1. /\ n.active = m.active /\ n.deferred = m.deferred /\ n.starts = {}
      /\ n.stopping = m.stopping /\ n.sidecars = m.sidecars /\ n.directory = m.directory
  BY DEF After, Manager
<1>. HIDE DEF n
<1>2. Filed(n) /\ (IsActive(n) <=> IsActive(m))
  BY <1>1, SameFiled DEF After, Held, IsActive
<1>3. Held(n, L, A)
  BY <1>1, <1>2 DEF After, Held, Tracked
<1>4. QED
  BY <1>3 DEF n

LEMMA HeldNext == TypeOK /\ Sound(Fresh, running) /\ HeldInv /\ [Next]_vars => HeldInv'
<1>. SUFFICES ASSUME TypeOK, Sound(Fresh, running), HeldInv, [Next]_vars
              PROVE  HeldInv'
  OBVIOUS
<1>1. CASE Next
  <2>1. After(manager', live', askedFor')
    BY <1>1, StepIsHeld
  <2>2. Fresh' = [manager' EXCEPT !.starts = {}, !.stops = {}]
    BY DEF Fresh
  <2>3. Held(Fresh', live', askedFor')
    BY <2>1, <2>2, AppliedIsHeld
  <2>4. QED
    BY <2>1, <2>3 DEF HeldInv, After
<1>2. CASE UNCHANGED vars
  BY <1>2 DEF vars, HeldInv, Fresh
<1>3. QED
  BY <1>1, <1>2

LEMMA SoundIsKept == Spec => [](TypeOK /\ Sound(Fresh, running) /\ HeldInv)
BY SoundInit, SoundNext, InitIsHeld, HeldNext, TypeCorrect, PTL DEF Spec

(* Whatever the outcomes, and wherever the user sends the files meanwhile, *)
(* the records on disk agree with the recordings: an ended session owes no *)
(* outcome, a running recording is in an open one, and a sitting lies in   *)
(* one directory.                                                          *)
THEOREM RecordsAgree == Spec => []RecordAgrees
<1>1. TypeOK /\ Sound(Fresh, running) /\ HeldInv => RecordAgrees
  <2>. SUFFICES ASSUME TypeOK, Sound(Fresh, running), HeldInv PROVE RecordAgrees
    OBVIOUS
  <2>1. /\ Fresh.sidecars = manager.sidecars /\ Fresh.active = manager.active
        /\ Fresh \in Manager /\ manager \in Manager
    BY DEF TypeOK, Fresh, Manager
  <2>2. EndedSessionsOweNothing /\ OneDirectoryPerSitting
    BY <2>1 DEF HeldInv, Held, Filed, DiskSound, Account, EndedSessionsOweNothing,
                OneDirectoryPerSitting
  <2>3. ASSUME NEW r \in running
        PROVE  LET s == manager.sidecars[r.session] IN
               /\ s # None /\ ~s.session.ended
               /\ r.index \in DOMAIN s.session.recordings
               /\ ~s.session.recordings[r.index].ended
    <3>1. /\ IsActive(Fresh) /\ Fresh.active.session.id = r.session
          /\ Fresh.active.recording = r.index /\ r.index # None
      BY DEF Sound, Expects, TypeOK, RecordingRequest
    <3>. DEFINE x == [directory |-> Fresh.directory, session |-> Fresh.active.session]
    <3>2. Fresh.active \in Active
      BY <2>1, <3>1, ActiveType
    <3>3. manager.sidecars[r.session] = x
      BY <2>1, <3>1 DEF HeldInv, Held, Filed
    <3>4. x # None /\ x.session = Fresh.active.session
      <4>1. x \in Sidecar
        BY <2>1, <3>2 DEF Sidecar, Active, Manager
      <4>2. QED
        BY <4>1
    <3>5. OpenSound(Fresh.active, Fresh.directory)
      BY <3>1 DEF HeldInv, Held, Filed
    <3>. HIDE DEF x
    <3>6. QED
      BY <3>1, <3>3, <3>4, <3>5 DEF OpenSound
  <2>4. QED
    BY <2>2, <2>3 DEF RecordAgrees, RunningIsOnDisk
<1>2. QED
  BY <1>1, SoundIsKept, PTL

(* Every process that is tracked is alive and every open session has a     *)
(* next step, for every catalogue of launches, every setting and every     *)
(* order of launches, exits, outcomes and suspends.                        *)
THEOREM NothingIsLost == Spec => []AllAreAccountedFor
<1>1. TypeOK /\ HeldInv => AllAreAccountedFor
  <2>. SUFFICES ASSUME TypeOK, HeldInv PROVE AllAreAccountedFor
    OBVIOUS
  <2>1. /\ Fresh.active = manager.active /\ Fresh.deferred = manager.deferred
        /\ Fresh.stopping = manager.stopping
        /\ IsActive(Fresh) <=> IsActive(manager)
    BY DEF TypeOK, Fresh, Manager, IsActive
  <2>2. TrackedProcessesLive
    BY <2>1 DEF HeldInv, Held, Tracked, Waiting, Watched, TrackedProcessesLive
  <2>3. NothingIsForgotten
    BY <2>1 DEF HeldInv, Held, Owed, NothingIsForgotten
  <2>4. QED
    BY <2>2, <2>3 DEF AllAreAccountedFor
<1>2. QED
  BY <1>1, SoundIsKept, PTL

(* After a user's stop no recording of that process starts, in whichever   *)
(* order the stop, the outcome and the timers arrive.                      *)
THEOREM AStopHolds == Spec => StopHolds
<1>1. TypeOK /\ Sound(Fresh, running) /\ HeldInv /\ [Next]_vars
        => [\A r \in running' \ running : r.pid \notin askedFor']_vars
  <2>. SUFFICES ASSUME TypeOK, Sound(Fresh, running), HeldInv, Next,
                       NEW r \in running' \ running
                PROVE  r.pid \notin askedFor'
    OBVIOUS
  <2>1. After(manager', live', askedFor') /\ r \in manager'.starts
    BY StepIsHeld
  <2>2. QED
    BY <2>1 DEF After, Held, Tracked
<1>2. QED
  BY <1>1, SoundIsKept, PTL DEF Spec, StopHolds

(* Short of a shutdown, no step ends a session whose game is alive, nor    *)
(* one whose grace is not over.                                            *)
THEOREM SittingsLast == Spec => EndsOnlyAfterGrace
<1>. DEFINE Fine ==
       IsActive(manager) /\ ~manager.stopping /\ ~manager'.stopping
        /\ manager'.sidecars[manager.active.session.id].session.ended
        => /\ ~manager.active.alive
           /\ \/ manager.active.idleFor = RestartGrace
              \/ manager.since = SuspendGap
              \/ RestartGrace = 0
<1>1. TypeOK /\ Sound(Fresh, running) /\ HeldInv /\ [Next]_vars => [Fine]_vars
  <2>. SUFFICES ASSUME TypeOK, Sound(Fresh, running), HeldInv, Next,
                       IsActive(manager), ~manager.stopping, ~manager'.stopping,
                       manager'.sidecars[manager.active.session.id].session.ended
                PROVE  /\ ~manager.active.alive
                       /\ \/ manager.active.idleFor = RestartGrace
                          \/ manager.since = SuspendGap
                          \/ RestartGrace = 0
    OBVIOUS
  <2>. DEFINE id == manager.active.session.id
              x == [directory |-> Fresh.directory, session |-> Fresh.active.session]
  <2>1. /\ Fresh \in Manager /\ Fresh.active = manager.active
        /\ Fresh.since = manager.since /\ IsActive(Fresh)
    BY DEF TypeOK, Fresh, Manager, IsActive
  <2>2. Fresh.active \in Active /\ id \in SessionIds
    BY <2>1, ActiveType DEF Active, Session
  <2>3. NoneEnds(Fresh, manager') \/ MayEnd(Fresh)
    BY StepIsHeld DEF After
  <2>4. ~NoneEnds(Fresh, manager')
    <3>1. Fresh.sidecars[id] = x /\ OpenSound(Fresh.active, Fresh.directory)
      BY <2>1 DEF HeldInv, Held, Filed
    <3>2. x # None /\ ~x.session.ended
      <4>1. x \in Sidecar
        BY <2>1, <2>2 DEF Sidecar, Active, Manager
      <4>2. QED
        BY <3>1, <4>1 DEF OpenSound
    <3>. HIDE DEF x
    <3>3. ~Over(Fresh, id) /\ Fresh.sidecars[id] # None
      BY <3>1, <3>2 DEF Over
    <3>4. NoneEnds(Fresh, manager') => Over(manager', id)
      BY <2>2, <3>3 DEF NoneEnds, Over
    <3>5. QED
      BY <2>2, <3>3, <3>4 DEF NoneEnds
  <2>5. QED
    BY <2>1, <2>3, <2>4 DEF MayEnd
<1>2. QED
  BY <1>1, SoundIsKept, PTL DEF Spec, EndsOnlyAfterGrace

-----------------------------------------------------------------------------
(* The recorder around the manager.                                        *)

ThreadType == [phase : {"none", "looking", "recording", "ended", "done"},
               outcome : Outcomes, cut : BOOLEAN]

ThreadOK == thread \in ThreadType

LEMMA ThreadHasItsType == RecorderSpec => []ThreadOK
<1>1. RecorderInit => ThreadOK
  BY DEF ThreadOK, RecorderInit, NoThread, ThreadType, Outcomes
<1>2. ThreadOK /\ [RecorderNext]_allVars => ThreadOK'
  <2>. SUFFICES ASSUME thread \in ThreadType, [RecorderNext]_allVars
                PROVE  thread' \in ThreadType
    BY DEF ThreadOK
  <2>1. /\ NoThread \in ThreadType
        /\ [NoThread EXCEPT !.phase = "looking"] \in ThreadType
        /\ \A outcome \in Outcomes :
             [NoThread EXCEPT !.phase = "done", !.outcome = outcome] \in ThreadType
        /\ \A phase \in {"recording", "ended", "done"} :
             [thread EXCEPT !.phase = phase] \in ThreadType
        /\ \A outcome \in Outcomes, cut \in BOOLEAN :
             [phase |-> "ended", outcome |-> outcome, cut |-> cut] \in ThreadType
        /\ "no-window" \in Outcomes /\ "failed" \in Outcomes
    BY DEF NoThread, ThreadType, Outcomes
  <2>2. CASE TakeStop
    BY <2>2 DEF TakeStop
  <2>3. CASE Collect
    BY <2>1, <2>3 DEF Collect
  <2>4. CASE Turn
    BY <2>1, <2>4 DEF Turn, Spawned
  <2>5. CASE RecorderTick \/ RequestShutdown \/ ClientNext \/ UNCHANGED allVars
    BY <2>5 DEF RecorderTick, RequestShutdown, ClientNext, StartManual, ManualEnds,
                BeginStop, Signal, CollectOutcome, ClientStep, allVars, recorderVars
  <2>6. CASE ThreadNext
    <3>1. CASE NoConfig \/ NoWindow
      BY <2>1, <3>1 DEF NoConfig, NoWindow, ThreadStep
    <3>2. ASSUME NEW outcome \in Outcomes, CaptureEnds(outcome)
          PROVE  thread' \in ThreadType
      BY <2>1, <3>2 DEF CaptureEnds, ThreadStep
    <3>3. ASSUME NEW r \in running, Adopt(r) \/ Release(r)
          PROVE  thread' \in ThreadType
      BY <2>1, <3>3 DEF Adopt, Release, ThreadStep
    <3>4. QED
      BY <2>6, <3>1, <3>2, <3>3 DEF ThreadNext
  <2>7. QED
    BY <2>2, <2>3, <2>4, <2>5, <2>6 DEF RecorderNext
<1>3. QED
  BY <1>1, <1>2, PTL DEF RecorderSpec

(* A step of the recorder, for the manager: one of its own or none.  In    *)
(* the driver's pass it takes nothing away but the recording it collects.  *)
LEMMA StepOfManager ==
  ASSUME thread \in ThreadType, [RecorderNext]_allVars
  PROVE  /\ [Next]_vars
         /\ \/ UNCHANGED running
            \/ running \subseteq running' /\ (TakeStop \/ Turn)
            \/ Collect /\ thread.phase = "done"
<1>. DEFINE Grows == running \subseteq running'
<1>0. \A m : Call(m, {}) => Grows
  BY DEF Call
<1>1. CASE TakeStop
  BY <1>0, <1>1 DEF TakeStop, AskStop, Next, vars
<1>2. CASE Collect
  <2>1. thread.outcome \in Outcomes
    BY DEF ThreadType
  <2>2. QED
    BY <1>2, <2>1 DEF Collect, Next, vars
<1>3. CASE Turn
  <2>1. Stop => Next /\ Grows
    BY <1>0 DEF Stop, Next
  <2>2. Poll => Next /\ Grows
    BY <1>0 DEF Poll, Next
  <2>3. \A l \in Launches : Launch(l) => Next /\ Grows
    BY <1>0 DEF Launch, Next
  <2>4. \A p \in Pids : Exit(p) => Next /\ Grows
    BY <1>0 DEF Exit, Next
  <2>5. [Next]_vars /\ Grows
    BY <1>3, <2>1, <2>2, <2>3, <2>4 DEF Turn, vars
  <2>6. QED
    BY <1>3, <2>5
<1>4. CASE RecorderTick
  BY <1>4 DEF RecorderTick, Tick, Next
<1>5. CASE RequestShutdown \/ ClientNext \/ UNCHANGED allVars
  BY <1>5 DEF RequestShutdown, ClientNext, StartManual, ManualEnds,
              BeginStop, Signal, CollectOutcome, ClientStep, allVars, vars
<1>6. CASE ThreadNext
  BY <1>6 DEF ThreadNext, NoConfig, NoWindow, CaptureEnds, Adopt, Release,
              ThreadStep, vars
<1>7. QED
  BY <1>1, <1>2, <1>3, <1>4, <1>5, <1>6 DEF RecorderNext

(* The recorder's process, with the driver's passes, the recording threads *)
(* and the clients' calls between them, only ever calls the manager the    *)
(* way SessionManager says it is called: every theorem of the manager      *)
(* holds in it.                                                            *)
THEOREM RecorderCallsTheManager == RecorderSpec => Spec
<1>1. RecorderInit => Init
  BY DEF RecorderInit
<1>2. ThreadOK /\ [RecorderNext]_allVars => [Next]_vars
  BY StepOfManager DEF ThreadOK
<1>3. QED
  BY <1>1, <1>2, ThreadHasItsType, PTL DEF RecorderSpec, Spec

(* RecorderIsSound is not inductive: the recording that start_recording    *)
(* began, or that the driver's thread captures, is the one in `current`,   *)
(* or a second could be adopted beside it; and a call that has begun       *)
(* remembers the recording it is to signal.                                *)
Holding ==
    /\ manual # None => current = [of |-> manual, done |-> FALSE]
    /\ thread.phase \in {"recording", "ended"}
        => current # None /\ ~current.done /\ current.of \in running

Remembered == \A c \in Clients : client[c].at # "idle" => client[c].of # None

RecorderInv == RecorderTypeOK /\ Holding /\ Remembered /\ CurrentHasAThread

LEMMA RecorderInitIsHeld == RecorderInit => RecorderInv
<1>. SUFFICES ASSUME RecorderInit PROVE RecorderInv
  OBVIOUS
<1>. USE DEF RecorderInit
<1>1. thread \in ThreadType /\ thread.phase = "none"
  BY DEF NoThread, ThreadType, Outcomes
<1>2. client \in [Clients -> [at : {"idle", "signal", "waiting", "answered"},
                              of : Recording \cup {None},
                              reply : Recording \cup {None}]]
  BY DEF Idle
<1>3. RecorderTypeOK
  BY <1>1, <1>2 DEF RecorderTypeOK, ThreadType
<1>4. Holding /\ CurrentHasAThread
  BY <1>1 DEF Holding, CurrentHasAThread
<1>5. Remembered
  BY DEF Remembered, Idle
<1>6. QED
  BY <1>3, <1>4, <1>5 DEF RecorderInv

LEMMA HeldIsSomething ==
  ASSUME NEW r \in Recording, NEW done \in BOOLEAN
  PROVE  [of |-> r, done |-> done] # None
<1>1. [of |-> r, done |-> done] \in [of : Recording, done : BOOLEAN]
  OBVIOUS
<1>2. None \notin [of : Recording, done : BOOLEAN]
  BY ClientAssumption
<1>3. QED
  BY <1>1, <1>2, Zenon

LEMMA RecorderTypes ==
  ASSUME TypeOK, RecorderTypeOK, Remembered, [RecorderNext]_allVars,
         thread' \in ThreadType
  PROVE  RecorderTypeOK'
<1>0. thread' \in [phase : {"none", "looking", "recording", "ended", "done"},
                   outcome : Outcomes, cut : BOOLEAN]
  BY DEF ThreadType
<1>. USE DEF RecorderTypeOK
<1>1. CASE TakeStop \/ Collect \/ RecorderTick \/ RequestShutdown \/ UNCHANGED allVars
  <2>1. /\ UNCHANGED <<current, manual, started, signalled, client, late>>
        /\ asked' \subseteq asked
    BY <1>1 DEF TakeStop, Collect, RecorderTick, RequestShutdown, allVars, recorderVars
  <2>2. pass' \in {"flag", "collect", "turn", "returned"} /\ shutdown' \in BOOLEAN
    BY <1>1 DEF TakeStop, Collect, RecorderTick, RequestShutdown, allVars, recorderVars
  <2>3. QED
    BY <1>0, <2>1, <2>2
<1>2. CASE Turn
  <2>1. /\ UNCHANGED <<current, manual, started, signalled, client, asked, shutdown>>
        /\ late' \subseteq late /\ pass' \in {"flag", "collect", "turn", "returned"}
    BY <1>2 DEF Turn
  <2>2. QED
    BY <1>0, <2>1
<1>3. CASE ThreadNext
  <2>1. /\ UNCHANGED <<pass, shutdown, manual, started, asked, signalled, client, late>>
        /\ \/ UNCHANGED current
           \/ \E r \in running : current' = [of |-> r, done |-> FALSE]
           \/ current # None /\ current' = [current EXCEPT !.done = TRUE]
    BY <1>3 DEF ThreadNext, NoConfig, NoWindow, CaptureEnds, Adopt, Release, ThreadStep
  <2>2. running \subseteq Recording
    BY DEF TypeOK, Recording
  <2>3. current' \in [of : Recording, done : BOOLEAN] \cup {None}
    <3>1. CASE UNCHANGED current
      BY <3>1
    <3>2. ASSUME NEW r \in running, current' = [of |-> r, done |-> FALSE]
          PROVE  current' \in [of : Recording, done : BOOLEAN]
      BY <2>2, <3>2
    <3>3. CASE current # None /\ current' = [current EXCEPT !.done = TRUE]
      <4>1. current \in [of : Recording, done : BOOLEAN]
        BY <3>3
      <4>2. QED
        BY <3>3, <4>1
    <3>4. QED
      BY <2>1, <3>1, <3>2, <3>3
  <2>4. QED
    BY <1>0, <2>1, <2>3
<1>4. ASSUME NEW m \in Manuals, StartManual(m) PROVE RecorderTypeOK'
  BY <1>0, <1>4 DEF StartManual, Recording
<1>5. CASE ManualEnds
  BY <1>0, <1>5 DEF ManualEnds
<1>6. ASSUME NEW c \in Clients, BeginStop(c) \/ Signal(c) \/ CollectOutcome(c)
      PROVE  RecorderTypeOK'
  <2>. DEFINE Call_ == [at : {"idle", "signal", "waiting", "answered"},
                        of : Recording \cup {None}, reply : Recording \cup {None}]
  <2>1. client[c] \in Call_
    OBVIOUS
  <2>2. CASE BeginStop(c)
    <3>1. current.of \in Recording
      BY <2>2 DEF BeginStop
    <3>2. current.of \notin Manuals => current.of.pid \in Pids
                                       /\ current.of \in RecordingRequest
      BY <3>1 DEF Recording, RecordingRequest
    <3>3. client' \in [Clients -> Call_]
      BY <2>2, <3>1 DEF BeginStop, ClientStep
    <3>4. asked' \subseteq RecordingRequest /\ late' \subseteq Pids
      BY <2>2, <3>2 DEF BeginStop
    <3>5. QED
      BY <1>0, <2>2, <3>3, <3>4 DEF BeginStop, ClientStep
  <2>3. CASE Signal(c)
    <3>1. client[c].of \in Recording
      BY <2>1, <2>3 DEF Signal, ClientStep, Remembered
    <3>2. client' \in [Clients -> Call_]
      BY <2>1, <2>3 DEF Signal, ClientStep
    <3>3. QED
      BY <1>0, <2>3, <3>1, <3>2 DEF Signal, ClientStep
  <2>4. CASE CollectOutcome(c)
    <3>1. client' \in [Clients -> Call_]
      BY <2>1, <2>4 DEF CollectOutcome, ClientStep
    <3>2. QED
      BY <1>0, <2>4, <3>1 DEF CollectOutcome, ClientStep
  <2>5. QED
    BY <1>6, <2>2, <2>3, <2>4
<1>7. QED
  BY <1>1, <1>2, <1>3, <1>4, <1>5, <1>6 DEF RecorderNext, ClientNext

LEMMA RememberedIsKept ==
  ASSUME RecorderTypeOK, Remembered, [RecorderNext]_allVars
  PROVE  Remembered'
<1>1. ASSUME NEW c \in Clients, BeginStop(c) PROVE Remembered'
  <2>1. current.of \in Recording /\ None \notin Recording
    BY <1>1, ClientAssumption DEF BeginStop, RecorderTypeOK
  <2>2. QED
    BY <1>1, <2>1 DEF BeginStop, ClientStep, Remembered, RecorderTypeOK
<1>2. ASSUME NEW c \in Clients, Signal(c) \/ CollectOutcome(c) PROVE Remembered'
  <2>1. /\ client[c].of # None
        /\ client \in [Clients -> [at : {"idle", "signal", "waiting", "answered"},
                                   of : Recording \cup {None},
                                   reply : Recording \cup {None}]]
    BY <1>2 DEF Signal, CollectOutcome, ClientStep, Remembered, RecorderTypeOK
  <2>2. \E to : client' = [client EXCEPT ![c] = to] /\ to.of = client[c].of
    <3>0. client[c] \in [at : {"idle", "signal", "waiting", "answered"},
                        of : Recording \cup {None}, reply : Recording \cup {None}]
      BY <2>1
    <3>1. CASE Signal(c)
      <4>1. [client[c] EXCEPT !.at = "waiting"].of = client[c].of
        BY <3>0
      <4>2. QED
        BY <3>1, <4>1 DEF Signal, ClientStep
    <3>2. CASE CollectOutcome(c)
      <4>. DEFINE reply == IF current = None THEN None ELSE current.of
      <4>. HIDE DEF reply
      <4>1. [client[c] EXCEPT !.at = "answered", !.reply = reply].of = client[c].of
        BY <3>0
      <4>2. client' = [client EXCEPT ![c] =
                          [client[c] EXCEPT !.at = "answered", !.reply = reply]]
        BY <3>2 DEF CollectOutcome, ClientStep, reply
      <4>3. QED
        BY <4>1, <4>2
    <3>3. QED
      BY <1>2, <3>1, <3>2
  <2>3. QED
    BY <2>1, <2>2 DEF Remembered
<1>3. CASE UNCHANGED client
  BY <1>3 DEF Remembered
<1>4. QED
  BY <1>1, <1>2, <1>3 DEF RecorderNext, TakeStop, Collect, Turn, RecorderTick,
     RequestShutdown, ThreadNext, NoConfig, NoWindow, CaptureEnds, Adopt, Release,
     ThreadStep, ClientNext, StartManual, ManualEnds, allVars, recorderVars

(* One recording runs, so while one captures or ends no step of the        *)
(* manager adds another.                                                   *)
LEMMA NoSecondRecording ==
  ASSUME OneEncoder', running \subseteq running', running # {}
  PROVE  running' = running
BY DEF OneEncoder

(* A step that leaves the shared state and the thread alone, and starts no *)
(* recording while one is held, keeps what is held.                        *)
LEMMA HoldingApart ==
  ASSUME Holding, CurrentHasAThread, UNCHANGED <<current, manual>>,
         thread.phase \in {"recording", "ended"} => UNCHANGED <<thread, running>>,
         thread.phase \notin {"recording", "ended"}
             => thread'.phase \notin {"recording", "ended"}
  PROVE  (Holding /\ CurrentHasAThread)'
BY DEF Holding, CurrentHasAThread

LEMMA FreeHasNoManual ==
  ASSUME RecorderTypeOK, Holding, Free(current)
  PROVE  manual = None
<1>1. SUFFICES ASSUME manual # None PROVE FALSE
  OBVIOUS
<1>2. current = [of |-> manual, done |-> FALSE] /\ manual \in Recording
  BY <1>1 DEF Holding, RecorderTypeOK, Recording
<1>3. current # None /\ ~current.done
  BY <1>2, HeldIsSomething
<1>4. QED
  BY <1>3 DEF Free

LEMMA DriverHolds ==
  ASSUME TypeOK, OneEncoder, OneEncoder', RecorderTypeOK, Holding, CurrentHasAThread,
         TakeStop \/ Collect \/ Turn \/ RecorderTick \/ RequestShutdown
                  \/ UNCHANGED allVars
  PROVE  (Holding /\ CurrentHasAThread)'
<1>. DEFINE Held_ == thread.phase \in {"recording", "ended"}
<1>1. UNCHANGED <<current, manual>>
  BY DEF TakeStop, Collect, Turn, RecorderTick, RequestShutdown, allVars, recorderVars
<1>2. [NoThread EXCEPT !.phase = "looking"].phase = "looking" /\ NoThread.phase = "none"
  BY DEF NoThread
<1>3. thread \in ThreadType
  BY DEF RecorderTypeOK, ThreadType
<1>4. [RecorderNext]_allVars
  BY DEF RecorderNext
<1>5. Held_ => running # {}
  BY DEF Holding
<1>6. Held_ => running' = running
  BY <1>3, <1>4, <1>5, StepOfManager, NoSecondRecording
<1>7. Held_ => thread' = thread
  BY <1>6 DEF TakeStop, Collect, Turn, Spawned, RecorderTick, RequestShutdown,
              allVars, recorderVars
<1>8. ~Held_ => thread'.phase \notin {"recording", "ended"}
  BY <1>2 DEF TakeStop, Collect, Turn, Spawned, RecorderTick, RequestShutdown,
              allVars, recorderVars
<1>9. QED
  BY <1>1, <1>6, <1>7, <1>8, HoldingApart

LEMMA ThreadHolds ==
  ASSUME TypeOK, OneEncoder, RecorderTypeOK, Holding, CurrentHasAThread, ThreadNext
  PROVE  (Holding /\ CurrentHasAThread)'
<1>0. UNCHANGED <<manual, running>>
  BY DEF ThreadNext, NoConfig, NoWindow, CaptureEnds, Adopt, Release, ThreadStep, vars
<1>1. /\ thread \in ThreadType
      /\ \A phase \in {"recording", "ended", "done"} :
            [thread EXCEPT !.phase = phase].phase = phase
      /\ \A outcome \in Outcomes :
            [NoThread EXCEPT !.phase = "done", !.outcome = outcome].phase = "done"
      /\ "failed" \in Outcomes /\ "no-window" \in Outcomes
  BY DEF RecorderTypeOK, ThreadType, NoThread, Outcomes
<1>2. CASE NoConfig \/ NoWindow
  BY <1>0, <1>1, <1>2, HoldingApart DEF NoConfig, NoWindow, ThreadStep
<1>3. ASSUME NEW outcome \in Outcomes, CaptureEnds(outcome)
      PROVE  (Holding /\ CurrentHasAThread)'
  <2>1. thread.phase = "recording" /\ thread'.phase = "ended" /\ current' = current
    BY <1>3 DEF CaptureEnds, ThreadStep
  <2>2. QED
    BY <1>0, <2>1 DEF Holding, CurrentHasAThread
<1>4. ASSUME NEW r \in running, Adopt(r) PROVE (Holding /\ CurrentHasAThread)'
  <2>0. [of |-> r, done |-> FALSE] # None
    <3>1. r \in Recording
      BY DEF TypeOK, Recording
    <3>2. QED
      BY <3>1, HeldIsSomething
  <2>1. CASE Free(current)
    <3>1. /\ current' = [of |-> r, done |-> FALSE]
          /\ thread'.phase = "recording" /\ thread.phase = "looking"
      BY <1>1, <1>4, <2>1 DEF Adopt, ThreadStep
    <3>2. manual = None
      BY <2>1, FreeHasNoManual
    <3>3. QED
      BY <1>0, <2>0, <3>1, <3>2 DEF Holding, CurrentHasAThread
  <2>2. CASE ~Free(current)
    <3>1. UNCHANGED current /\ thread'.phase = "done" /\ thread.phase = "looking"
      BY <1>1, <1>4, <2>2 DEF Adopt, ThreadStep
    <3>2. QED
      BY <1>0, <3>1, HoldingApart
  <2>3. QED
    BY <2>1, <2>2
<1>5. ASSUME NEW r \in running, Release(r) PROVE (Holding /\ CurrentHasAThread)'
  <2>1. thread.phase = "ended" /\ thread'.phase = "done"
    BY <1>1, <1>5 DEF Release, ThreadStep
  <2>2. current # None /\ current.of = r
    BY <2>1 DEF Holding, OneEncoder
  <2>3. current' = [current EXCEPT !.done = TRUE]
    BY <1>5, <2>2 DEF Release
  <2>4. current' # None /\ current'.done
    <3>1. current \in [of : Recording, done : BOOLEAN]
      BY <2>2 DEF RecorderTypeOK
    <3>2. current' \in [of : Recording, done : BOOLEAN] /\ current'.done
      BY <2>3, <3>1
    <3>3. QED
      BY <3>2, ClientAssumption
  <2>5. r \notin Manuals
    BY ClientAssumption DEF TypeOK
  <2>6. manual = None
    BY <2>2, <2>5 DEF Holding, RecorderTypeOK
  <2>7. QED
    BY <1>0, <2>1, <2>4, <2>6 DEF Holding, CurrentHasAThread
<1>6. QED
  BY <1>2, <1>3, <1>4, <1>5 DEF ThreadNext

LEMMA ClientHolds ==
  ASSUME TypeOK, RecorderTypeOK, Holding, CurrentHasAThread, ClientNext
  PROVE  (Holding /\ CurrentHasAThread)'
<1>0. UNCHANGED <<thread, running>>
  BY DEF ClientNext, StartManual, ManualEnds, BeginStop, Signal, CollectOutcome,
         ClientStep, vars
<1>1. ASSUME NEW m \in Manuals, StartManual(m) PROVE (Holding /\ CurrentHasAThread)'
  <2>1. [of |-> m, done |-> FALSE] # None
    BY HeldIsSomething DEF Recording
  <2>2. thread.phase \notin {"recording", "ended"}
    BY <1>1 DEF StartManual, Free, Holding
  <2>3. manual' = m /\ current' = [of |-> m, done |-> FALSE]
    BY <1>1 DEF StartManual
  <2>4. QED
    BY <1>0, <2>1, <2>2, <2>3 DEF Holding, CurrentHasAThread
<1>2. CASE ManualEnds
  <2>1. manual # None /\ current = [of |-> manual, done |-> FALSE] /\ manual' = None
    BY <1>2 DEF ManualEnds, Holding
  <2>2. manual \in Manuals /\ manual \notin running
    BY <2>1, ClientAssumption DEF RecorderTypeOK, TypeOK
  <2>3. thread.phase \notin {"recording", "ended"}
    BY <2>1, <2>2 DEF Holding
  <2>4. current # None
    BY <2>1, <2>2, HeldIsSomething DEF Recording
  <2>5. current' = [current EXCEPT !.done = TRUE]
    BY <1>2, <2>1, <2>4 DEF ManualEnds
  <2>6. current'.done
    BY <2>1, <2>5
  <2>7. QED
    BY <1>0, <2>1, <2>3, <2>6 DEF Holding, CurrentHasAThread
<1>3. ASSUME NEW c \in Clients, BeginStop(c) \/ Signal(c)
      PROVE  (Holding /\ CurrentHasAThread)'
  <2>1. UNCHANGED <<current, manual>>
    BY <1>3 DEF BeginStop, Signal, ClientStep
  <2>2. QED
    BY <1>0, <2>1, HoldingApart
<1>4. ASSUME NEW c \in Clients, CollectOutcome(c) PROVE (Holding /\ CurrentHasAThread)'
  <2>1. Free(current) /\ current' = None /\ manual' = manual
    BY <1>4 DEF CollectOutcome, ClientStep
  <2>2. thread.phase \notin {"recording", "ended"} /\ manual = None
    BY <2>1, FreeHasNoManual DEF Free, Holding
  <2>3. QED
    BY <1>0, <2>1, <2>2 DEF Holding, CurrentHasAThread
<1>5. QED
  BY <1>1, <1>2, <1>3, <1>4 DEF ClientNext

(* Whatever order the driver's passes, the recording's thread, the         *)
(* connections and start_recording interleave in, one capture runs at a    *)
(* time and a recording held without an outcome has a thread that will     *)
(* store one, so no stop waits for ever on a recording nobody owns.        *)
THEOREM RecorderIsHeld == RecorderSpec => []RecorderIsSound
<1>1. RecorderInit => RecorderInv
  BY RecorderInitIsHeld
<1>2. /\ RecorderInv /\ TypeOK /\ OneEncoder /\ OneEncoder' /\ ThreadOK'
      /\ [RecorderNext]_allVars
      => RecorderInv'
  <2>. SUFFICES ASSUME RecorderInv, TypeOK, OneEncoder, OneEncoder', ThreadOK',
                       [RecorderNext]_allVars
                PROVE  RecorderInv'
    OBVIOUS
  <2>1. RecorderTypeOK /\ Holding /\ Remembered /\ CurrentHasAThread
    BY DEF RecorderInv
  <2>2. RecorderTypeOK'
    BY <2>1, RecorderTypes DEF ThreadOK
  <2>3. Remembered'
    BY <2>1, RememberedIsKept
  <2>4. (Holding /\ CurrentHasAThread)'
    BY <2>1, DriverHolds, ThreadHolds, ClientHolds DEF RecorderNext
  <2>5. QED
    BY <2>2, <2>3, <2>4 DEF RecorderInv
<1>3. RecorderInv /\ TypeOK => RecorderIsSound
  <2>. SUFFICES ASSUME RecorderInv, TypeOK PROVE RecorderIsSound
    OBVIOUS
  <2>1. OneCaptureAtATime
    BY ClientAssumption
       DEF RecorderInv, RecorderTypeOK, TypeOK, Holding, OneCaptureAtATime
  <2>2. QED
    BY <2>1 DEF RecorderInv, RecorderIsSound
<1>4. Spec => []TypeOK /\ []OneEncoder
  BY TypeCorrect, OneEncoderHolds
<1>5. QED
  BY <1>1, <1>2, <1>3, <1>4, RecorderCallsTheManager, ThreadHasItsType, PTL
     DEF RecorderSpec

=============================================================================
