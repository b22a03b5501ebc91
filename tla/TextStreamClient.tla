-------------------------- MODULE TextStreamClient --------------------------
(***************************************************************************)
(* The life cycle of the TextStream server in its client                   *)
(* (services/textstream-client.ts): it is found or spawned and polled      *)
(* until healthy, an event stream is read from it, it is stopped, and      *)
(* restarted when it dies, which both its exit and the broken stream tell. *)
(*                                                                         *)
(* A call of the client and the handling of a death are tasks: each step   *)
(* of a task is the code between two awaits, and steps of all tasks and    *)
(* events interleave; what follows the return of a call within a call      *)
(* comes before any event.  (What is dictated is the subject of Dictation.) *)
(***************************************************************************)
EXTENDS Naturals, Sequences, FiniteSets

CONSTANTS
    MaxCalls,       (* bound: calls of resume and pause                    *)
    MaxServers,     (* bound: processes spawned                            *)
    MaxFaults,      (* bound: servers that die, requests that fail         *)
    MaxTasks        (* bound: tasks at a time                              *)

ASSUME ClientAssumption ==
    {MaxCalls, MaxServers, MaxFaults, MaxTasks} \subseteq Nat /\ MaxTasks # 0

VARIABLES
    loadMode,       (* "auto" or "lazy"                                    *)
    state,          (* _state                                              *)
    started,        (* "yes" or "no"                                       *)
    process,        (* the number of this.process, or 0                    *)
    crashCount,
    conn,           (* the event stream: its stage, the server it is from  *)
    server,         (* each process; number 0 was there before             *)
    tasks,          (* what goes on in the client                          *)
    calls,          (* calls of resume and pause so far                    *)
    disabled,       (* "yes" once the service has called stop              *)
    faults

vars == <<loadMode, state, started, process, crashCount, conn, server, tasks, calls, disabled,
          faults>>

MAX_CRASH_RESTARTS == 1

Servers == 0..MaxServers
Slots == 1..MaxTasks

(* A process that ended with an error, or with code 0, is "failed" or      *)
(* "ended" until its exit event has been handled: "gone".                  *)
Alive(p) == server[p] \in {"booting", "up"}
Serving == {p \in Servers : server[p] = "up"}
Served == Serving # {}
Spawned == Cardinality({p \in Servers \ {0} : server[p] # "none"})

(* A task: where it stands, the process it waits for, and what is to be    *)
(* done when the call it is in has returned.                               *)
Nothing == <<>>
Task(pc, of, todo) == [pc |-> pc, of |-> of, todo |-> todo]
Free == Task("free", 0, Nothing)

(* The next of a task whose call has returned, true if it returns that.    *)
Following(todo) == IF todo = Nothing THEN Free ELSE Task(Head(todo), 0, Tail(todo))

(* Continuations run before events.                                        *)
Settled ==
    \A t \in Slots : tasks[t].pc \notin {"start", "stopped", "resume2", "resume3", "reconnect"}

At(t, pc) ==
    /\ tasks[t].pc = pc
    /\ pc \in {"checking", "waiting", "stopping", "killing", "resuming", "pausing"} => Settled

MayBegin == {t \in Slots : tasks[t] = Free} # {}
FreeSlot == CHOOSE t \in Slots : tasks[t] = Free

Become(t, task) == tasks' = [tasks EXCEPT ![t] = task]

NoStream == [stage |-> "none", from |-> 0]
Fetching == [stage |-> "fetching", from |-> 0]

Init ==
    /\ \/ loadMode = "auto" /\ state = "starting"
          /\ tasks = [t \in Slots |-> IF t = 1 THEN Task("checking", 0, Nothing) ELSE Free]
       \/ loadMode = "lazy" /\ state = "stopped" /\ tasks = [t \in Slots |-> Free]
    /\ started = "no" /\ process = 0 /\ crashCount = 0 /\ conn = NoStream
    /\ \E before \in {"none", "up"} :
          server = [p \in Servers |-> IF p = 0 THEN before ELSE "none"]
    /\ calls = 0 /\ disabled = "no" /\ faults = 0

MayFail == faults < MaxFaults /\ faults' = faults + 1

-----------------------------------------------------------------------------

(* start.                                                                  *)

BeginStart(t, todo) ==
    IF state \in {"stopped", "error"}
      THEN state' = "starting" /\ Become(t, Task("checking", 0, todo))
      ELSE Become(t, Following(todo)) /\ UNCHANGED state

StartAfterStop(t) ==
    /\ At(t, "start") /\ BeginStart(t, tasks[t].todo)
    /\ UNCHANGED <<started, process, crashCount, conn, server, calls, disabled, faults>>

(* Healthy, whoever answers; in mode "auto" it connects.                   *)
StartSucceeds(t) ==
    /\ At(t, "checking") \/ At(t, "waiting")
    /\ Served
    /\ started' = "yes" /\ crashCount' = 0 /\ state' = "paused"
    /\ conn' = IF loadMode = "auto" THEN Fetching ELSE conn
    /\ Become(t, Following(tasks[t].todo))
    /\ UNCHANGED <<process, server, calls, disabled, faults>>

(* Nothing answers on the port, or not in time: a process is spawned and   *)
(* polled ...                                                              *)
Unanswered == IF Served THEN MayFail ELSE UNCHANGED faults

Spawn(t) ==
    /\ At(t, "checking") /\ Unanswered
    /\ Spawned < MaxServers
    /\ process' = Spawned + 1
    /\ server' = [server EXCEPT ![process'] = "booting"]
    /\ Become(t, Task("waiting", 0, tasks[t].todo))
    /\ UNCHANGED <<state, started, crashCount, conn, calls, disabled>>

(* Mutant: a start waits for a healthy server for ever.                    *)
MayNotStartOnceSpawned(t) ==
    /\ At(t, "checking")
    /\ MayFail \/ (~Served /\ Spawned = MaxServers /\ UNCHANGED faults)

(* ... or there is no binary; or no health check is answered for 30        *)
(* seconds, and the process is left as it is.                              *)
MayNotStart(t) ==
    \/ /\ At(t, "checking")
       /\ MayFail \/ (~Served /\ Spawned = MaxServers /\ UNCHANGED faults)
    \/ /\ At(t, "waiting")
       /\ IF Served \/ \E p \in Servers : server[p] = "booting"
            THEN MayFail ELSE UNCHANGED faults

StartFails(t) ==
    /\ MayNotStart(t)
    /\ state' = "stopped" /\ Become(t, Free)
    /\ UNCHANGED <<started, process, crashCount, conn, server, calls, disabled>>

-----------------------------------------------------------------------------

(* stop.                                                                   *)

(* SIGTERM, and up to two seconds for the process to exit.                 *)
KillOrEnd(t, todo) ==
    Become(t, IF process # 0 THEN Task("killing", process, todo) ELSE Task("stopped", 0, todo))

BeginStop(t, todo) ==
    /\ conn' = NoStream
    /\ IF started = "yes" THEN Become(t, Task("stopping", 0, todo)) ELSE KillOrEnd(t, todo)

(* GET /stop: the server ends with code 0, or goes on, or has ended.       *)
StopAnswered(t) ==
    /\ At(t, "stopping")
    /\ \/ \E p \in Serving : server' = [server EXCEPT ![p] = "ended"]
       \/ UNCHANGED server
    /\ KillOrEnd(t, tasks[t].todo)
    /\ UNCHANGED <<state, started, process, crashCount, conn, calls, disabled, faults>>

(* A process that was sent SIGTERM ends, of the signal or with code 0.     *)
Terminated(p) ==
    /\ Settled /\ Alive(p)
    /\ \E t \in Slots : tasks[t].pc = "killing" /\ tasks[t].of = p
    /\ \E how \in {"failed", "ended"} : server' = [server EXCEPT ![p] = how]
    /\ UNCHANGED <<state, started, process, crashCount, conn, tasks, calls, disabled, faults>>

(* Two seconds: SIGKILL, for what is this.process by now.                  *)
KillTimeout(t) ==
    /\ At(t, "killing")
    /\ server' = IF process # 0 /\ Alive(process) THEN [server EXCEPT ![process] = "failed"]
                                                  ELSE server
    /\ Become(t, Task("stopped", 0, tasks[t].todo))
    /\ UNCHANGED <<state, started, process, crashCount, conn, calls, disabled, faults>>

StopEnds(t) ==
    /\ At(t, "stopped")
    /\ process' = 0 /\ started' = "no" /\ crashCount' = 0 /\ state' = "stopped"
    /\ Become(t, Following(tasks[t].todo))
    /\ UNCHANGED <<conn, server, calls, disabled, faults>>

-----------------------------------------------------------------------------

(* The event stream, and what a death does.                                *)

Connects ==
    /\ Settled /\ conn.stage = "fetching"
    /\ \E p \in Serving : conn' = [stage |-> "open", from |-> p]
    /\ state' = "connected"
    /\ UNCHANGED <<started, process, crashCount, server, tasks, calls, disabled, faults>>

Again == started = "yes" /\ crashCount < MAX_CRASH_RESTARTS

(* handleConnectionDrop, from state s, other tasks as in ts: a restart, of *)
(* which the first half of stop is done at once; or it was once too often. *)
Drop(s, ts) ==
    /\ crashCount' = IF started = "yes" THEN crashCount + 1 ELSE crashCount
    /\ state' = IF started = "yes" /\ ~Again THEN "error" ELSE s
    /\ tasks' = IF ~Again THEN ts
                ELSE [ts EXCEPT ![FreeSlot] = Task("stopping", 0, <<"start", "reconnect">>)]

(* Mutant: a stream that ends is not shown.                                *)
StreamEndsUnshown ==
    /\ Settled
    /\ \/ conn.stage = "open" /\ server[conn.from] # "up" /\ UNCHANGED faults
       \/ conn.stage = "fetching" /\ ~Served /\ UNCHANGED faults
       \/ conn.stage # "none" /\ MayFail
    /\ MayBegin
    /\ conn' = NoStream /\ Drop(state, tasks)
    /\ UNCHANGED <<started, process, server, calls, disabled>>

(* The stream breaks, or could not be had.                                 *)
StreamEnds ==
    /\ Settled
    /\ \/ conn.stage = "open" /\ server[conn.from] # "up" /\ UNCHANGED faults
       \/ conn.stage = "fetching" /\ ~Served /\ UNCHANGED faults
       \/ conn.stage # "none" /\ MayFail
    /\ MayBegin
    /\ conn' = NoStream /\ Drop("disconnected", tasks)
    /\ UNCHANGED <<started, process, server, calls, disabled>>

(* The stop that waits for this exit goes on.                              *)
Told(p) ==
    [t \in Slots |-> IF tasks[t].pc = "killing" /\ tasks[t].of = p
                       THEN Task("stopped", 0, tasks[t].todo) ELSE tasks[t]]

(* Mutant: an exit is no drop.                                             *)
ExitUnnoticed(p) ==
    /\ Settled /\ MayBegin /\ p # 0 /\ server[p] \in {"failed", "ended"}
    /\ server' = [server EXCEPT ![p] = "gone"]
    /\ process' = 0 /\ tasks' = Told(p)
    /\ UNCHANGED <<state, crashCount, conn, started, calls, disabled, faults>>

(* The exit event of a process: this.process is cleared, whichever it is;  *)
(* other than with code 0, it counts as a drop.                            *)
Exit(p) ==
    /\ Settled /\ MayBegin /\ p # 0 /\ server[p] \in {"failed", "ended"}
    /\ server' = [server EXCEPT ![p] = "gone"]
    /\ process' = 0
    /\ IF server[p] = "failed"
         THEN /\ Drop(state, Told(p))
              /\ conn' = IF Again THEN NoStream ELSE conn
         ELSE tasks' = Told(p) /\ UNCHANGED <<state, crashCount, conn>>
    /\ UNCHANGED <<started, calls, disabled, faults>>

(* The restart of a drop has started.                                      *)
Reconnect(t) ==
    /\ At(t, "reconnect")
    /\ conn' = IF loadMode = "auto" THEN Fetching ELSE conn
    /\ Become(t, Free)
    /\ UNCHANGED <<state, started, process, crashCount, server, calls, disabled, faults>>

-----------------------------------------------------------------------------

(* resume and pause.                                                       *)

(* connectSSE unless connected, then GET /resume.                          *)
Resume3(t) ==
    /\ conn' = IF state \in {"paused", "disconnected"} THEN Fetching ELSE conn
    /\ Become(t, Task("resuming", 0, Nothing))
    /\ UNCHANGED state

(* Not running: a restart first.                                           *)
Resume2(t) ==
    IF state \in {"connected", "paused", "starting"} THEN Resume3(t)
    ELSE BeginStop(t, <<"start", "resume3">>) /\ UNCHANGED state

MayCall ==
    /\ Settled /\ MayBegin /\ disabled = "no"
    /\ calls < MaxCalls /\ calls' = calls + 1

Resume ==
    /\ MayCall
    /\ IF started = "no" THEN BeginStart(FreeSlot, <<"resume2">>) /\ UNCHANGED conn
       ELSE Resume2(FreeSlot)
    /\ UNCHANGED <<started, process, crashCount, server, disabled, faults>>

ResumeGoesOn(t) ==
    /\ \/ At(t, "resume2") /\ Resume2(t)
       \/ At(t, "resume3") /\ Resume3(t)
    /\ UNCHANGED <<started, process, crashCount, server, calls, disabled, faults>>

(* GET /resume is answered or fails.                                       *)
Resumed(t) ==
    /\ At(t, "resuming") /\ Become(t, Free)
    /\ UNCHANGED <<state, started, process, crashCount, conn, server, calls, disabled, faults>>

Pause ==
    /\ MayCall
    /\ Become(FreeSlot, Task("pausing", 0, Nothing))
    /\ UNCHANGED <<state, started, process, crashCount, conn, server, disabled, faults>>

(* After GET /pause, whatever became of it, and the drain.                 *)
Paused(t) ==
    /\ At(t, "pausing") /\ Become(t, Free)
    /\ conn' = NoStream /\ state' = "paused"
    /\ UNCHANGED <<started, process, crashCount, server, calls, disabled, faults>>

(* The service is disabled: stop is the last call.                         *)
Disable ==
    /\ Settled /\ MayBegin /\ disabled = "no" /\ disabled' = "yes"
    /\ BeginStop(FreeSlot, Nothing)
    /\ UNCHANGED <<state, started, process, crashCount, server, calls, faults>>

-----------------------------------------------------------------------------

(* The servers.  One that cannot have the port ends with an error.         *)

Boots(p) ==
    /\ Settled /\ server[p] = "booting"
    /\ server' = [server EXCEPT ![p] = IF Served THEN "failed" ELSE "up"]
    /\ UNCHANGED <<state, started, process, crashCount, conn, tasks, calls, disabled, faults>>

Dies(p) ==
    /\ Settled /\ Alive(p) /\ MayFail
    /\ server' = [server EXCEPT ![p] = "failed"]
    /\ UNCHANGED <<state, started, process, crashCount, conn, tasks, calls, disabled>>

System ==
    /\ \/ \E t \in Slots :
            \/ StartAfterStop(t) \/ StartSucceeds(t) \/ Spawn(t) \/ StartFails(t)
            \/ StopAnswered(t) \/ KillTimeout(t) \/ StopEnds(t)
            \/ Reconnect(t) \/ ResumeGoesOn(t) \/ Resumed(t) \/ Paused(t)
       \/ Connects \/ StreamEnds
       \/ \E p \in Servers : Terminated(p) \/ Exit(p) \/ Boots(p)
    /\ UNCHANGED loadMode

Service ==
    /\ Resume \/ Pause \/ Disable \/ \E p \in Servers : Dies(p)
    /\ UNCHANGED loadMode

Next == System \/ Service

Spec == Init /\ [][Next]_vars

(* Requests are answered or fail, timers run out, events are delivered.    *)
FairSpec == Spec /\ WF_vars(System)

-----------------------------------------------------------------------------

(* What is still to be done after a call.                                  *)
Rests == {Nothing, <<"start", "reconnect">>, <<"start", "resume3">>,
          <<"reconnect">>, <<"resume2">>, <<"resume3">>}

Stages == {"free", "checking", "waiting", "start", "stopping", "killing", "stopped",
           "resume2", "resume3", "resuming", "reconnect", "pausing"}

Tasks == [pc : Stages, of : Servers, todo : Rests]

TypeOK ==
    /\ loadMode \in {"auto", "lazy"} /\ started \in {"yes", "no"}
    /\ state \in {"stopped", "starting", "connected", "paused", "disconnected", "error"}
    /\ process \in Servers /\ crashCount \in Nat
    /\ conn \in [stage : {"none", "fetching", "open"}, from : Servers]
    /\ server \in [Servers -> {"none", "booting", "up", "failed", "ended", "gone"}]
    /\ tasks \in [Slots -> Tasks]
    /\ calls \in Nat /\ disabled \in {"yes", "no"} /\ faults \in Nat

(* Never stuck in "starting", where every start returns at once: while it  *)
(* is shown some start is under way.                                       *)
StartingIsUnderWay ==
    state = "starting" => \E t \in Slots : tasks[t].pc \in {"checking", "waiting"}

(* "connected" is shown only with an event stream, or on the way to one,   *)
(* or while a stop is under way.                                           *)
ConnectedHasStream ==
    state = "connected" =>
        \/ conn # NoStream
        \/ \E t \in Slots : tasks[t].pc \in {"stopping", "killing", "stopped"}

(* An event stream is read only of a client that shows it.                 *)
StreamIsShown ==
    Settled /\ conn.stage = "open" => state = "connected"

(* Every call ends and every restart.                                      *)
EverythingEnds == \A t \in Slots : tasks[t] # Free ~> tasks[t] = Free

(* A process of its own that dies of an error does not leave the client    *)
(* believing in it: it says it is stopped or broken, or a server answers.  *)
DeathNoticed ==
    \A p \in Servers \ {0} :
        (started = "yes" /\ server[p] = "failed") ~> (started = "no" \/ state = "error" \/ Served)

(* At most one of its processes at a time.                                 *)
OneServer == Cardinality({p \in Servers \ {0} : Alive(p)}) <= 1

(* "Stop the TextStream server process": nothing is spawned after it.      *)
StopStops == [][disabled = "yes" => Spawned' = Spawned]_vars

(* "1 auto-restart ... then error+disable".                                *)
RestartsBounded == Spawned <= 1 + MAX_CRASH_RESTARTS + 2 * calls

=============================================================================
