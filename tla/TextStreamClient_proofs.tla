----------------------- MODULE TextStreamClient_proofs -----------------------
(* The client of the TextStream server, for every number of calls, servers, *)
(* faults and tasks.                                                        *)
EXTENDS TextStreamClient, FiniteSetTheorems, TLAPS

Starting(f) == \E t \in Slots : f[t].pc \in {"checking", "waiting"}
Stopping(f) == \E t \in Slots : f[t].pc \in {"stopping", "killing", "stopped"}

-----------------------------------------------------------------------------

LEMMA ServersNat == 0 \in Servers /\ Servers \subseteq Nat /\ MaxServers \in Nat
  BY ClientAssumption DEF Servers

LEMMA SpawnedNat == Spawned \in Nat
  <1>1. IsFiniteSet(0..MaxServers)
    BY ServersNat, FS_Interval
  <1>2. IsFiniteSet({p \in Servers \ {0} : server[p] # "none"})
    BY <1>1, FS_Subset DEF Servers
  <1> QED
    BY <1>2, FS_CardinalityType DEF Spawned

(* A free slot is one.                                                      *)
LEMMA FreeSlotIsFree == MayBegin => FreeSlot \in Slots /\ tasks[FreeSlot] = Free
  BY DEF MayBegin, FreeSlot

LEMMA TaskTyped ==
  ASSUME NEW pc \in Stages, NEW of \in Servers, NEW todo \in Rests
  PROVE  /\ Task(pc, of, todo) \in Tasks
         /\ Task(pc, of, todo).pc = pc
  BY DEF Task, Tasks

(* What follows a call is no start and no stop that is under way.           *)
LEMMA FollowingTyped ==
  ASSUME NEW todo \in Rests
  PROVE  /\ Following(todo) \in Tasks
         /\ Following(todo).pc \in {"free", "start", "reconnect", "resume2", "resume3"}
  <1>1. CASE todo = Nothing
    BY <1>1, ServersNat DEF Following, Free, Task, Tasks, Stages, Rests
  <1>2. CASE todo # Nothing
    <2>1. Following(todo) = Task(Head(todo), 0, Tail(todo))
      BY <1>2 DEF Following
    <2>2. /\ Head(todo) \in {"start", "reconnect", "resume2", "resume3"}
          /\ Tail(todo) \in Rests
      <3>1. \/ todo = <<"start", "reconnect">> \/ todo = <<"start", "resume3">>
            \/ todo = <<"reconnect">> \/ todo = <<"resume2">> \/ todo = <<"resume3">>
        BY <1>2 DEF Rests
      <3>2. CASE todo = <<"start", "reconnect">>
        <4>1. Head(todo) = "start" /\ Tail(todo) = <<"reconnect">>
          BY <3>2
        <4> QED BY <4>1 DEF Rests
      <3>3. CASE todo = <<"start", "resume3">>
        <4>1. Head(todo) = "start" /\ Tail(todo) = <<"resume3">>
          BY <3>3
        <4> QED BY <4>1 DEF Rests
      <3>4. ASSUME NEW s \in {"reconnect", "resume2", "resume3"}, todo = <<s>>
            PROVE  Head(todo) = s /\ Tail(todo) = Nothing
        BY <3>4 DEF Nothing
      <3> QED
        BY <3>1, <3>2, <3>3, <3>4 DEF Rests
    <2> QED
      BY <2>1, <2>2, ServersNat, TaskTyped DEF Stages
  <1> QED
    BY <1>1, <1>2

LEMMA FreeTyped == Free \in Tasks /\ Free.pc = "free"
  BY ServersNat DEF Free, Task, Tasks, Stages, Rests

(* A step of one task.                                                      *)
LEMMA BecomeTyped ==
  ASSUME tasks \in [Slots -> Tasks], NEW t \in Slots, NEW task \in Tasks, Become(t, task)
  PROVE  /\ tasks' \in [Slots -> Tasks]
         /\ tasks'[t] = task
         /\ \A u \in Slots \ {t} : tasks'[u] = tasks[u]
  BY DEF Become

(* It leaves another start under way, and its own unless it ends it.        *)
LEMMA BecomeShown ==
  ASSUME tasks \in [Slots -> Tasks], NEW t \in Slots, NEW task \in Tasks, Become(t, task)
  PROVE  /\ \/ task.pc \in {"checking", "waiting"}
            \/ tasks[t].pc \notin {"checking", "waiting"} /\ Starting(tasks)
            => Starting(tasks')
         /\ \/ task.pc \in {"stopping", "killing", "stopped"}
            \/ tasks[t].pc \notin {"stopping", "killing", "stopped"} /\ Stopping(tasks)
            => Stopping(tasks')
  <1>1. tasks'[t] = task /\ \A u \in Slots \ {t} : tasks'[u] = tasks[u]
    BY BecomeTyped
  <1> QED
    BY <1>1 DEF Starting, Stopping

-----------------------------------------------------------------------------

Shown == StartingIsUnderWay /\ ConnectedHasStream

LEMMA InitHolds == Init => TypeOK /\ Shown
  <1> SUFFICES ASSUME Init PROVE TypeOK /\ Shown
    OBVIOUS
  <1>1. conn \in [stage : {"none", "fetching", "open"}, from : Servers]
    BY ServersNat DEF Init, NoStream
  <1>2. server \in [Servers -> {"none", "booting", "up", "failed", "ended", "gone"}]
    BY DEF Init
  <1>3. tasks \in [Slots -> Tasks]
    <2>1. Task("checking", 0, Nothing) \in Tasks /\ Free \in Tasks
      BY FreeTyped, TaskTyped, ServersNat DEF Stages, Rests
    <2> QED
      BY <2>1 DEF Init
  <1>4. TypeOK
    BY <1>1, <1>2, <1>3, ServersNat DEF Init, TypeOK
  <1>5. StartingIsUnderWay
    <2>1. CASE state = "starting"
      <3>1. 1 \in Slots
        BY ClientAssumption DEF Slots
      <3>2. tasks[1] = Task("checking", 0, Nothing)
        BY <2>1, <3>1 DEF Init
      <3>3. tasks[1].pc = "checking"
        BY <3>2 DEF Task
      <3> QED
        BY <3>1, <3>3 DEF StartingIsUnderWay
    <2> QED
      BY <2>1 DEF StartingIsUnderWay
  <1>6. ConnectedHasStream
    BY DEF Init, ConnectedHasStream
  <1> QED
    BY <1>4, <1>5, <1>6 DEF Shown

-----------------------------------------------------------------------------

(* The tasks that calls and drops begin.                                    *)
LEMMA RestsTyped ==
  /\ Nothing \in Rests
  /\ <<"start", "reconnect">> \in Rests /\ <<"start", "resume3">> \in Rests
  /\ <<"resume2">> \in Rests
  BY DEF Rests

(* start, if it has to, says so; otherwise it returns at once.              *)
LEMMA BeginStartShown ==
  ASSUME TypeOK, Shown, NEW t \in Slots, NEW todo \in Rests, BeginStart(t, todo),
         UNCHANGED conn, tasks[t].pc \in {"free", "start"}
  PROVE  state' \in {state, "starting"} /\ tasks' \in [Slots -> Tasks] /\ Shown'
  <1>0. tasks \in [Slots -> Tasks]
    BY DEF TypeOK
  <1>1. CASE state \in {"stopped", "error"}
    <2>1. state' = "starting" /\ Become(t, Task("checking", 0, todo))
      BY <1>1 DEF BeginStart
    <2>2. Task("checking", 0, todo) \in Tasks /\ Task("checking", 0, todo).pc = "checking"
      BY TaskTyped, ServersNat DEF Stages
    <2>3. tasks' \in [Slots -> Tasks] /\ Starting(tasks')
      BY <1>0, <2>1, <2>2, BecomeTyped, BecomeShown
    <2> QED
      BY <2>1, <2>3 DEF Shown, StartingIsUnderWay, ConnectedHasStream, Starting
  <1>2. CASE state \notin {"stopped", "error"}
    <2>1. state' = state /\ Become(t, Following(todo))
      BY <1>2 DEF BeginStart
    <2>2. /\ tasks' \in [Slots -> Tasks]
          /\ Starting(tasks) => Starting(tasks')
          /\ Stopping(tasks) => Stopping(tasks')
      BY <1>0, <2>1, FollowingTyped, BecomeTyped, BecomeShown
    <2> QED
      BY <2>1, <2>2 DEF Shown, StartingIsUnderWay, ConnectedHasStream, Starting, Stopping
  <1> QED
    BY <1>1, <1>2

(* stop closes the stream and is under way.                                 *)
LEMMA KillOrEndShown ==
  ASSUME TypeOK, NEW t \in Slots, NEW todo \in Rests, KillOrEnd(t, todo)
  PROVE  /\ tasks' \in [Slots -> Tasks] /\ Stopping(tasks')
         /\ tasks[t].pc \notin {"checking", "waiting"} /\ Starting(tasks) => Starting(tasks')
  <1>1. PICK task \in Tasks : Become(t, task) /\ task.pc \in {"killing", "stopped"}
    BY TaskTyped, ServersNat DEF KillOrEnd, TypeOK, Stages
  <1> QED
    BY <1>1, BecomeTyped, BecomeShown DEF TypeOK

LEMMA BeginStopShown ==
  ASSUME TypeOK, Shown, NEW t \in Slots, NEW todo \in Rests, BeginStop(t, todo),
         UNCHANGED state, tasks[t].pc \notin {"checking", "waiting"}
  PROVE  conn' = NoStream /\ tasks' \in [Slots -> Tasks] /\ Shown'
  <1>1. conn' = NoStream
    BY DEF BeginStop
  <1>2. /\ tasks' \in [Slots -> Tasks] /\ Stopping(tasks')
        /\ Starting(tasks) => Starting(tasks')
    <2>1. CASE started = "yes"
      <3>1. Become(t, Task("stopping", 0, todo))
        BY <2>1 DEF BeginStop
      <3>2. Task("stopping", 0, todo) \in Tasks /\ Task("stopping", 0, todo).pc = "stopping"
        BY TaskTyped, ServersNat DEF Stages
      <3> QED
        BY <3>1, <3>2, BecomeTyped, BecomeShown DEF TypeOK
    <2>2. CASE started # "yes"
      BY <2>2, KillOrEndShown DEF BeginStop
    <2> QED
      BY <2>1, <2>2
  <1> QED
    BY <1>1, <1>2 DEF Shown, StartingIsUnderWay, ConnectedHasStream, Starting, Stopping

LEMMA StreamTyped ==
  /\ NoStream \in [stage : {"none", "fetching", "open"}, from : Servers]
  /\ Fetching \in [stage : {"none", "fetching", "open"}, from : Servers]
  /\ Fetching # NoStream
  BY ServersNat DEF NoStream, Fetching

(* A drop begins a restart, whose stop is under way, or is shown.           *)
LEMMA DropShown ==
  ASSUME TypeOK, MayBegin, NEW s, NEW ts \in [Slots -> Tasks], ts[FreeSlot] = Free, Drop(s, ts)
  PROVE  /\ crashCount' \in Nat /\ state' \in {s, "error"} /\ tasks' \in [Slots -> Tasks]
         /\ Starting(ts) => Starting(tasks')
         /\ Again => Stopping(tasks')
         /\ ~Again => tasks' = ts /\ state' = IF started = "yes" THEN "error" ELSE s
  <1>1. crashCount' \in Nat /\ state' \in {s, "error"}
    BY DEF Drop, TypeOK
  <1>2. CASE Again
    <2> DEFINE stop == Task("stopping", 0, <<"start", "reconnect">>)
    <2>1. stop \in Tasks /\ stop.pc = "stopping"
      BY TaskTyped, RestsTyped, ServersNat DEF Stages
    <2>2. tasks' = [ts EXCEPT ![FreeSlot] = stop]
      BY <1>2 DEF Drop
    <2> HIDE DEF stop
    <2>3. /\ tasks' \in [Slots -> Tasks] /\ tasks'[FreeSlot] = stop
          /\ \A u \in Slots \ {FreeSlot} : tasks'[u] = ts[u]
      BY <2>1, <2>2, FreeSlotIsFree
    <2>4. ts[FreeSlot].pc = "free"
      BY FreeTyped
    <2>5. Stopping(tasks') /\ (Starting(ts) => Starting(tasks'))
      BY <2>1, <2>3, <2>4, FreeSlotIsFree DEF Stopping, Starting
    <2> QED
      BY <1>1, <1>2, <2>3, <2>5
  <1>3. CASE ~Again
    BY <1>1, <1>3 DEF Drop
  <1> QED
    BY <1>2, <1>3

(* The stop that waits for an exit goes on; nothing else changes.           *)
LEMMA ToldShown ==
  ASSUME TypeOK, NEW p \in Servers
  PROVE  /\ Told(p) \in [Slots -> Tasks]
         /\ Starting(tasks) => Starting(Told(p))
         /\ Stopping(tasks) => Stopping(Told(p))
         /\ MayBegin => Told(p)[FreeSlot] = Free
  <1>1. \A t \in Slots :
          /\ Task("stopped", 0, tasks[t].todo) \in Tasks
          /\ Task("stopped", 0, tasks[t].todo).pc = "stopped"
    BY TaskTyped, ServersNat DEF TypeOK, Tasks, Stages
  <1>2. \A t \in Slots :
          /\ Told(p)[t] \in Tasks
          /\ \/ Told(p)[t] = tasks[t]
             \/ tasks[t].pc = "killing" /\ Told(p)[t].pc = "stopped"
    BY <1>1 DEF Told, TypeOK
  <1>3. Told(p) \in [Slots -> Tasks]
    BY <1>2 DEF Told
  <1>4. MayBegin => Told(p)[FreeSlot] = Free
    BY <1>2, FreeSlotIsFree, FreeTyped
  <1>5. Starting(tasks) => Starting(Told(p))
    BY <1>2 DEF Starting
  <1>6. Stopping(tasks) => Stopping(Told(p))
    BY <1>2 DEF Stopping
  <1> QED
    BY <1>3, <1>4, <1>5, <1>6

-----------------------------------------------------------------------------

(* Each task of a start, or of a stop, or that returns.                     *)
LEMMA StartSteps ==
  ASSUME TypeOK, Shown, UNCHANGED loadMode, NEW t \in Slots,
         StartAfterStop(t) \/ StartSucceeds(t) \/ Spawn(t) \/ StartFails(t)
  PROVE  TypeOK' /\ Shown'
  <1>0. /\ tasks \in [Slots -> Tasks] /\ tasks[t] \in Tasks /\ tasks[t].todo \in Rests
        /\ crashCount \in Nat /\ faults \in Nat /\ calls \in Nat
    BY DEF TypeOK, Tasks
  <1>1. CASE StartAfterStop(t)
    <2>1. tasks[t].pc = "start" /\ BeginStart(t, tasks[t].todo) /\ UNCHANGED conn
      BY <1>1 DEF StartAfterStop, At
    <2>2. state' \in {state, "starting"} /\ tasks' \in [Slots -> Tasks] /\ Shown'
      BY <1>0, <2>1, BeginStartShown
    <2> QED
      BY <1>1, <2>2 DEF StartAfterStop, TypeOK
  <1>2. CASE StartSucceeds(t)
    <2>1. tasks' \in [Slots -> Tasks]
      BY <1>0, <1>2, FollowingTyped, BecomeTyped DEF StartSucceeds
    <2>2. TypeOK'
      BY <1>2, <2>1, StreamTyped DEF StartSucceeds, TypeOK
    <2> QED
      BY <1>2, <2>2 DEF StartSucceeds, Shown, StartingIsUnderWay, ConnectedHasStream
  <1>3. CASE Spawn(t)
    <2>1. process' \in Servers
      BY <1>3, SpawnedNat, ServersNat DEF Spawn, Servers
    <2>2. /\ Task("waiting", 0, tasks[t].todo) \in Tasks
          /\ Task("waiting", 0, tasks[t].todo).pc = "waiting"
      BY <1>0, TaskTyped, ServersNat DEF Stages
    <2>3. tasks[t].pc = "checking"
      BY <1>3 DEF Spawn, At
    <2>4. tasks' \in [Slots -> Tasks] /\ Starting(tasks') /\ (Stopping(tasks) => Stopping(tasks'))
      BY <1>0, <1>3, <2>2, <2>3, BecomeTyped, BecomeShown DEF Spawn
    <2>7. faults' \in Nat
      BY <1>3 DEF Spawn, Unanswered, MayFail, TypeOK
    <2>5. TypeOK'
      BY <1>3, <2>1, <2>4, <2>7 DEF Spawn, TypeOK
    <2>6. UNCHANGED <<state, conn>>
      BY <1>3 DEF Spawn
    <2> QED
      BY <2>4, <2>5, <2>6
      DEF Shown, StartingIsUnderWay, ConnectedHasStream, Starting, Stopping
  <1>4. CASE StartFails(t)
    <2>1. tasks' \in [Slots -> Tasks]
      BY <1>0, <1>4, FreeTyped, BecomeTyped DEF StartFails
    <2>2. faults' \in Nat
      BY <1>0, <1>4 DEF StartFails, MayNotStart, MayFail
    <2>3. TypeOK'
      BY <1>4, <2>1, <2>2 DEF StartFails, TypeOK
    <2> QED
      BY <1>4, <2>3 DEF StartFails, Shown, StartingIsUnderWay, ConnectedHasStream
  <1> QED
    BY <1>1, <1>2, <1>3, <1>4

LEMMA StopSteps ==
  ASSUME TypeOK, Shown, UNCHANGED loadMode, NEW t \in Slots,
         StopAnswered(t) \/ KillTimeout(t) \/ StopEnds(t)
  PROVE  TypeOK' /\ Shown'
  <1>0. tasks \in [Slots -> Tasks] /\ tasks[t] \in Tasks /\ tasks[t].todo \in Rests
    BY DEF TypeOK, Tasks
  <1>1. CASE StopAnswered(t)
    <2>1. tasks[t].pc = "stopping" /\ KillOrEnd(t, tasks[t].todo)
      BY <1>1 DEF StopAnswered, At
    <2>2. /\ tasks' \in [Slots -> Tasks] /\ Stopping(tasks')
          /\ Starting(tasks) => Starting(tasks')
      BY <1>0, <2>1, KillOrEndShown
    <2>3. server' \in [Servers -> {"none", "booting", "up", "failed", "ended", "gone"}]
      BY <1>1 DEF StopAnswered, TypeOK
    <2>4. TypeOK'
      BY <1>1, <2>2, <2>3 DEF StopAnswered, TypeOK
    <2> QED
      BY <1>1, <2>2, <2>4
      DEF StopAnswered, Shown, StartingIsUnderWay, ConnectedHasStream, Starting, Stopping
  <1>2. CASE KillTimeout(t)
    <2>1. /\ Task("stopped", 0, tasks[t].todo) \in Tasks
          /\ Task("stopped", 0, tasks[t].todo).pc = "stopped"
      BY <1>0, TaskTyped, ServersNat DEF Stages
    <2>2. tasks[t].pc = "killing" /\ Become(t, Task("stopped", 0, tasks[t].todo))
      BY <1>2 DEF KillTimeout, At
    <2>3. /\ tasks' \in [Slots -> Tasks] /\ Stopping(tasks')
          /\ Starting(tasks) => Starting(tasks')
      BY <1>0, <2>1, <2>2, BecomeTyped, BecomeShown
    <2>4. server' \in [Servers -> {"none", "booting", "up", "failed", "ended", "gone"}]
      BY <1>2 DEF KillTimeout, TypeOK
    <2>5. TypeOK'
      BY <1>2, <2>3, <2>4 DEF KillTimeout, TypeOK
    <2> QED
      BY <1>2, <2>3, <2>5
      DEF KillTimeout, Shown, StartingIsUnderWay, ConnectedHasStream, Starting, Stopping
  <1>3. CASE StopEnds(t)
    <2>1. tasks' \in [Slots -> Tasks]
      BY <1>0, <1>3, FollowingTyped, BecomeTyped DEF StopEnds
    <2>2. TypeOK'
      BY <1>3, <2>1, ServersNat DEF StopEnds, TypeOK
    <2> QED
      BY <1>3, <2>2 DEF StopEnds, Shown, StartingIsUnderWay, ConnectedHasStream
  <1> QED
    BY <1>1, <1>2, <1>3

(* The stream: only what ends it or begins a restart takes it away.         *)
LEMMA StreamSteps ==
  ASSUME TypeOK, Shown, UNCHANGED loadMode, Connects \/ StreamEnds
  PROVE  TypeOK' /\ Shown'
  <1>1. CASE Connects
    <2>1. PICK p \in Servers : conn' = [stage |-> "open", from |-> p]
      BY <1>1 DEF Connects, Serving
    <2>2. conn' \in [stage : {"none", "fetching", "open"}, from : Servers] /\ conn' # NoStream
      BY <2>1 DEF NoStream
    <2>3. TypeOK'
      BY <1>1, <2>2 DEF Connects, TypeOK
    <2> QED
      BY <1>1, <2>2, <2>3 DEF Connects, Shown, StartingIsUnderWay, ConnectedHasStream
  <1>2. CASE StreamEnds
    <2>1. /\ MayBegin /\ conn' = NoStream /\ Drop("disconnected", tasks)
          /\ UNCHANGED <<started, process, server, calls, disabled>>
      BY <1>2 DEF StreamEnds
    <2>2. tasks \in [Slots -> Tasks] /\ tasks[FreeSlot] = Free
      BY <2>1, FreeSlotIsFree DEF TypeOK
    <2>3. /\ crashCount' \in Nat /\ state' \in {"disconnected", "error"}
          /\ tasks' \in [Slots -> Tasks]
      BY <2>1, <2>2, DropShown
    <2>4. faults' \in Nat
      BY <1>2 DEF StreamEnds, MayFail, TypeOK
    <2>5. TypeOK'
      BY <2>1, <2>3, <2>4, StreamTyped DEF TypeOK
    <2> QED
      BY <2>3, <2>5 DEF Shown, StartingIsUnderWay, ConnectedHasStream
  <1> QED
    BY <1>1, <1>2

LEMMA ExitStep ==
  ASSUME TypeOK, Shown, UNCHANGED loadMode, NEW p \in Servers, Exit(p)
  PROVE  TypeOK' /\ Shown'
  <1>1. /\ MayBegin /\ process' = 0
        /\ server' = [server EXCEPT ![p] = "gone"]
        /\ UNCHANGED <<started, calls, disabled, faults>>
    BY DEF Exit
  <1>2. /\ Told(p) \in [Slots -> Tasks] /\ Told(p)[FreeSlot] = Free
        /\ Starting(tasks) => Starting(Told(p))
        /\ Stopping(tasks) => Stopping(Told(p))
    BY <1>1, ToldShown
  <1>3. server' \in [Servers -> {"none", "booting", "up", "failed", "ended", "gone"}]
    BY <1>1 DEF TypeOK
  <1>4. CASE server[p] = "failed"
    <2>1. Drop(state, Told(p)) /\ conn' = IF Again THEN NoStream ELSE conn
      BY <1>4 DEF Exit
    <2>2. /\ crashCount' \in Nat /\ state' \in {state, "error"} /\ tasks' \in [Slots -> Tasks]
          /\ Starting(tasks) => Starting(tasks')
          /\ Again => Stopping(tasks')
          /\ ~Again => tasks' = Told(p)
      BY <1>1, <1>2, <2>1, DropShown
    <2>3. conn' \in [stage : {"none", "fetching", "open"}, from : Servers]
      BY <2>1, StreamTyped DEF TypeOK
    <2>4. TypeOK'
      BY <1>1, <1>3, <2>2, <2>3, ServersNat DEF TypeOK
    <2>5. state = "starting" => Starting(tasks)
      BY DEF Shown, StartingIsUnderWay, Starting
    <2>6. StartingIsUnderWay'
      BY <2>2, <2>5 DEF StartingIsUnderWay, Starting
    <2>7. state = "connected" => conn # NoStream \/ Stopping(tasks)
      BY DEF Shown, ConnectedHasStream, Stopping
    <2>8. CASE Again
      BY <2>2, <2>4, <2>6, <2>8 DEF Shown, ConnectedHasStream, Stopping
    <2>9. CASE ~Again
      BY <1>2, <2>1, <2>2, <2>4, <2>6, <2>7, <2>9 DEF Shown, ConnectedHasStream, Stopping
    <2> QED
      BY <2>8, <2>9
  <1>5. CASE server[p] # "failed"
    <2>1. tasks' = Told(p) /\ UNCHANGED <<state, crashCount, conn>>
      BY <1>5 DEF Exit
    <2>2. TypeOK'
      BY <1>1, <1>2, <1>3, <2>1, ServersNat DEF TypeOK
    <2> QED
      BY <1>2, <2>1, <2>2
      DEF Shown, StartingIsUnderWay, ConnectedHasStream, Starting, Stopping
  <1> QED
    BY <1>4, <1>5

(* A task that ends, or becomes one that is neither start nor stop.         *)
LEMMA EndShown ==
  ASSUME TypeOK, Shown, NEW t \in Slots, NEW task \in Tasks, Become(t, task),
         tasks[t].pc \notin {"checking", "waiting", "stopping", "killing", "stopped"},
         state' = state, conn' \in {conn, Fetching}
  PROVE  tasks' \in [Slots -> Tasks] /\ Shown'
  <1>1. /\ tasks' \in [Slots -> Tasks]
        /\ Starting(tasks) => Starting(tasks')
        /\ Stopping(tasks) => Stopping(tasks')
    BY BecomeTyped, BecomeShown DEF TypeOK
  <1> QED
    BY <1>1, StreamTyped
    DEF Shown, StartingIsUnderWay, ConnectedHasStream, Starting, Stopping

(* resume goes on: it asks the server, or has it restarted first.           *)
LEMMA Resume3Shown ==
  ASSUME TypeOK, Shown, NEW t \in Slots, Resume3(t),
         tasks[t].pc \in {"free", "resume2", "resume3"}
  PROVE  /\ state' = state /\ conn' \in {conn, Fetching}
         /\ tasks' \in [Slots -> Tasks] /\ Shown'
  <1>1. state' = state /\ conn' \in {conn, Fetching}
    BY DEF Resume3
  <1>2. Task("resuming", 0, Nothing) \in Tasks
    BY TaskTyped, RestsTyped, ServersNat DEF Stages
  <1>3. Become(t, Task("resuming", 0, Nothing))
    BY DEF Resume3
  <1> QED
    BY <1>1, <1>2, <1>3, EndShown

LEMMA Resume2Shown ==
  ASSUME TypeOK, Shown, NEW t \in Slots, Resume2(t), tasks[t].pc \in {"free", "resume2"}
  PROVE  /\ state' = state /\ conn' \in {conn, Fetching, NoStream}
         /\ tasks' \in [Slots -> Tasks] /\ Shown'
  <1>1. CASE state \in {"connected", "paused", "starting"}
    BY <1>1, Resume3Shown DEF Resume2
  <1>2. CASE state \notin {"connected", "paused", "starting"}
    <2>1. BeginStop(t, <<"start", "resume3">>) /\ state' = state
      BY <1>2 DEF Resume2
    <2> QED
      BY <2>1, RestsTyped, BeginStopShown
  <1> QED
    BY <1>1, <1>2

LEMMA CallSteps ==
  ASSUME TypeOK, Shown, UNCHANGED loadMode, Resume \/ Pause \/ Disable
  PROVE  TypeOK' /\ Shown'
  <1>0. CASE MayBegin
    <2>1. FreeSlot \in Slots /\ tasks[FreeSlot].pc = "free"
      BY <1>0, FreeSlotIsFree, FreeTyped
    <2>2. CASE Resume
      <3>1. /\ state' \in {state, "starting"} /\ conn' \in {conn, Fetching, NoStream}
            /\ tasks' \in [Slots -> Tasks] /\ Shown'
        <4>1. CASE started = "no"
          <5>1. BeginStart(FreeSlot, <<"resume2">>) /\ UNCHANGED conn
            BY <2>2, <4>1 DEF Resume
          <5> QED
            BY <2>1, <5>1, RestsTyped, BeginStartShown
        <4>2. CASE started # "no"
          BY <2>1, <2>2, <4>2, Resume2Shown DEF Resume
        <4> QED
          BY <4>1, <4>2
      <3>2. calls' \in Nat
        BY <2>2 DEF Resume, MayCall, TypeOK
      <3>3. TypeOK'
        BY <2>2, <3>1, <3>2, StreamTyped DEF Resume, TypeOK
      <3> QED
        BY <3>1, <3>3
    <2>3. CASE Pause
      <3>1. Task("pausing", 0, Nothing) \in Tasks
        BY TaskTyped, RestsTyped, ServersNat DEF Stages
      <3>2. tasks' \in [Slots -> Tasks] /\ Shown'
        BY <2>1, <2>3, <3>1, EndShown DEF Pause
      <3>3. calls' \in Nat
        BY <2>3 DEF Pause, MayCall, TypeOK
      <3> QED
        BY <2>3, <3>2, <3>3 DEF Pause, TypeOK
    <2>4. CASE Disable
      <3>1. BeginStop(FreeSlot, Nothing) /\ state' = state
        BY <2>4 DEF Disable
      <3>2. conn' = NoStream /\ tasks' \in [Slots -> Tasks] /\ Shown'
        BY <2>1, <3>1, RestsTyped, BeginStopShown
      <3> QED
        BY <2>4, <3>2, StreamTyped DEF Disable, TypeOK
    <2> QED
      BY <2>2, <2>3, <2>4
  <1> QED
    BY <1>0 DEF Resume, Pause, Disable, MayCall

LEMMA ReturnSteps ==
  ASSUME TypeOK, Shown, UNCHANGED loadMode, NEW t \in Slots,
         Reconnect(t) \/ ResumeGoesOn(t) \/ Resumed(t) \/ Paused(t)
  PROVE  TypeOK' /\ Shown'
  <1>1. CASE Reconnect(t)
    <2>1. /\ tasks[t].pc = "reconnect" /\ Become(t, Free)
          /\ state' = state /\ conn' \in {conn, Fetching}
      BY <1>1 DEF Reconnect, At
    <2>2. tasks' \in [Slots -> Tasks] /\ Shown'
      BY <2>1, FreeTyped, EndShown
    <2> QED
      BY <1>1, <2>1, <2>2, StreamTyped DEF Reconnect, TypeOK
  <1>2. CASE ResumeGoesOn(t)
    <2>1. /\ state' = state /\ conn' \in {conn, Fetching, NoStream}
          /\ tasks' \in [Slots -> Tasks] /\ Shown'
      BY <1>2, Resume2Shown, Resume3Shown DEF ResumeGoesOn, At
    <2> QED
      BY <1>2, <2>1, StreamTyped DEF ResumeGoesOn, TypeOK
  <1>3. CASE Resumed(t)
    <2>1. /\ tasks[t].pc = "resuming" /\ Become(t, Free)
          /\ UNCHANGED <<state, conn>>
      BY <1>3 DEF Resumed, At
    <2>2. tasks' \in [Slots -> Tasks] /\ Shown'
      BY <2>1, FreeTyped, EndShown
    <2> QED
      BY <1>3, <2>2 DEF Resumed, TypeOK
  <1>4. CASE Paused(t)
    <2>1. tasks' \in [Slots -> Tasks]
      BY <1>4, FreeTyped, BecomeTyped DEF Paused, TypeOK
    <2>2. TypeOK'
      BY <1>4, <2>1, StreamTyped DEF Paused, TypeOK
    <2> QED
      BY <1>4, <2>2 DEF Paused, Shown, StartingIsUnderWay, ConnectedHasStream
  <1> QED
    BY <1>1, <1>2, <1>3, <1>4

(* What happens to a server is nothing the client knows of.                 *)
LEMMA ServerSteps ==
  ASSUME TypeOK, Shown, UNCHANGED loadMode, NEW p \in Servers,
         Terminated(p) \/ Boots(p) \/ Dies(p)
  PROVE  TypeOK' /\ Shown'
  <1>1. server' \in [Servers -> {"none", "booting", "up", "failed", "ended", "gone"}]
    BY DEF Terminated, Boots, Dies, TypeOK
  <1>2. faults' \in Nat
    BY DEF Terminated, Boots, Dies, MayFail, TypeOK
  <1>3. UNCHANGED <<state, started, process, crashCount, conn, tasks, calls, disabled>>
    BY DEF Terminated, Boots, Dies
  <1> QED
    BY <1>1, <1>2, <1>3 DEF TypeOK, Shown, StartingIsUnderWay, ConnectedHasStream

LEMMA StepHolds == TypeOK /\ Shown /\ [Next]_vars => TypeOK' /\ Shown'
  <1> SUFFICES ASSUME TypeOK, Shown, [Next]_vars PROVE TypeOK' /\ Shown'
    OBVIOUS
  <1>1. CASE System
    BY <1>1, StartSteps, StopSteps, ReturnSteps, StreamSteps, ExitStep, ServerSteps DEF System
  <1>2. CASE Service
    BY <1>2, CallSteps, ServerSteps DEF Service
  <1>3. CASE UNCHANGED vars
    BY <1>3 DEF vars, TypeOK, Shown, StartingIsUnderWay, ConnectedHasStream
  <1> QED
    BY <1>1, <1>2, <1>3 DEF Next

-----------------------------------------------------------------------------

(* Every variable keeps its type.                                           *)
THEOREM Typed == Spec => []TypeOK
  <1>1. Spec => [](TypeOK /\ Shown)
    BY InitHolds, StepHolds, PTL DEF Spec
  <1> QED
    BY <1>1, PTL

(* The client never shows that it starts while no start is under way, where *)
(* every later start would return at once as if the server ran.             *)
THEOREM NeverStuckStarting == Spec => []StartingIsUnderWay
  <1>1. Spec => [](TypeOK /\ Shown)
    BY InitHolds, StepHolds, PTL DEF Spec
  <1>2. Shown => StartingIsUnderWay
    BY DEF Shown
  <1> QED
    BY <1>1, <1>2, PTL

(* It shows that it is connected only with an event stream, asked for or    *)
(* open, or while it is being stopped.                                      *)
THEOREM NeverDeafAndConnected == Spec => []ConnectedHasStream
  <1>1. Spec => [](TypeOK /\ Shown)
    BY InitHolds, StepHolds, PTL DEF Spec
  <1>2. Shown => ConnectedHasStream
    BY DEF Shown
  <1> QED
    BY <1>1, <1>2, PTL

=============================================================================
