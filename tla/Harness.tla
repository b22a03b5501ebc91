------------------------------ MODULE Harness ------------------------------
(***************************************************************************)
(* AgentHarness (packages/agent/src/harness/agent-harness.ts): structural   *)
(* operations guarded by a phase, session writes that are put off while one *)
(* is active, three message queues, abort, and the failure path.            *)
(*                                                                         *)
(* Operations are numbered as started; op[r] is the async function that     *)
(* carries out operation r, whose code between two awaits is one step.      *)
(* Several may be under way at once: phase is "idle" again before prompt()  *)
(* has returned.  Session writes and queued messages are numbered as        *)
(* requested.                                                              *)
(***************************************************************************)
EXTENDS Naturals, Sequences, FiniteSets

CONSTANTS MaxOps,      \* bound: structural operations started
          MaxTurns,    \* bound: turns of one operation
          MaxWrites,   \* bound: session writes requested
          MaxMsgs,     \* bound: messages queued
          MaxAborts,   \* bound: calls of abort()
          MaxFails,    \* bound: hooks, listeners and appends that fail
          Host,        \* "serial": awaits each operation and write before the
                       \* next; "eager": starts whenever phase allows it
          Structural   \* "yes": compact() and navigateTree() are used

ASSUME Bounds ==
    /\ MaxOps \in Nat /\ MaxTurns \in Nat /\ MaxWrites \in Nat
    /\ MaxMsgs \in Nat /\ MaxAborts \in Nat /\ MaxFails \in Nat
    /\ Host \in {"serial", "eager"} /\ Structural \in {"yes", "no"}

Ops == 1 .. MaxOps
Queues == {"steer", "followUp", "nextTurn"}

VARIABLES
  phase,        \* "idle", "turn", "structural" (compaction or branch_summary)
  runPromise,   \* the operation waitForIdle awaits, or 0
  controller,   \* the operation whose abort controller is held, or 0
  aborted,      \* operations whose controller was aborted
  pending,      \* pendingSessionWrites
  queue,        \* the three queues
  op,           \* the operations: see Idle below
  direct,       \* writes the host made while idle and that are not done
  session,      \* entries persisted: <<kind, number>>
  (* history *)
  ops, writes, msgs, aborts, fails,
  returned      \* messages abort() gave back

histVars  == <<ops, writes, msgs, aborts, fails, returned>>
guardVars == <<phase, runPromise, controller, aborted>>
vars == <<guardVars, pending, queue, op, direct, session, histVars>>

(* pc: where the operation stands.  hand: messages taken from a queue and   *)
(* not yet in the session; from: that queue.  detached: abort() replaced    *)
(* the queue since.  writing: the write its flush is appending.  more: what *)
(* the last response asked for, "tools", "text" or "stop" (aborted, error). *)
(* outcome: "ok" or "error" (reporting a failure failed too), "early"       *)
(* (rejected before the loop) or "unflushed" (the last flush failed).       *)
Idle == [pc |-> "none", hand |-> <<>>, from |-> "nextTurn", detached |-> "no",
         writing |-> 0, more |-> "text", turns |-> 0, outcome |-> "ok"]

Init ==
    /\ phase = "idle" /\ runPromise = 0 /\ controller = 0 /\ aborted = {}
    /\ pending = <<>> /\ queue = [q \in Queues |-> <<>>]
    /\ op = [r \in Ops |-> Idle] /\ direct = {} /\ session = <<>>
    /\ ops = 0 /\ writes = 0 /\ msgs = 0 /\ aborts = 0 /\ fails = 0
    /\ returned = {}

Active(r) == op[r].pc \notin {"none", "over"}
Go(r, l) == op' = [op EXCEPT ![r].pc = l]
Persist(kind, n) == session' = Append(session, <<kind, n>>)

-----------------------------------------------------------------------------
(* The host.                                                                *)

MayStart ==
    /\ ops < MaxOps /\ phase = "idle"
    /\ Host = "serial" => direct = {} /\ \A r \in Ops : ~Active(r)
    /\ ops' = ops + 1

(* Mutant: the phase is set by code that runs after an await.               *)
PromptLeavesPhase ==
    /\ MayStart
    /\ runPromise' = ops'
    /\ Go(ops', "snapshot")
    /\ UNCHANGED <<phase, controller, aborted, pending, queue, direct, session,
                   writes, msgs, aborts, fails, returned>>

(* prompt, skill, promptFromTemplate: the phase is set before any await.    *)
Prompt ==
    /\ MayStart
    /\ phase' = "turn" /\ runPromise' = ops'
    /\ Go(ops', "snapshot")
    /\ UNCHANGED <<controller, aborted, pending, queue, direct, session,
                   writes, msgs, aborts, fails, returned>>

(* compact and navigateTree have no run promise.                            *)
StartStructural ==
    /\ Structural = "yes" /\ MayStart
    /\ phase' = "structural"
    /\ Go(ops', "working")
    /\ UNCHANGED <<runPromise, controller, aborted, pending, queue, direct,
                   session, writes, msgs, aborts, fails, returned>>

(* Mutant: the phase is not looked at.                                      *)
WriteAtOnce ==
    /\ writes < MaxWrites /\ writes' = writes + 1
    /\ Host = "serial" => direct = {}
    /\ direct' = direct \cup {writes'}
    /\ UNCHANGED <<guardVars, pending, queue, op, session, ops, msgs, aborts,
                   fails, returned>>

(* appendMessage, setModel, setThinkingLevel, setTools, setActiveTools.     *)
RequestWrite ==
    /\ writes < MaxWrites /\ writes' = writes + 1
    /\ Host = "serial" => direct = {}
    /\ IF phase = "idle"
          THEN direct' = direct \cup {writes'} /\ UNCHANGED pending
          ELSE pending' = Append(pending, writes') /\ UNCHANGED direct
    /\ UNCHANGED <<guardVars, queue, op, session, ops, msgs, aborts, fails,
                   returned>>

DirectWrite(w) ==
    /\ w \in direct
    /\ direct' = direct \ {w}
    /\ Persist("write", w)
    /\ UNCHANGED <<guardVars, pending, queue, op, histVars>>

(* steer and followUp are refused while idle, nextTurn never.               *)
Enqueue(q) ==
    /\ msgs < MaxMsgs /\ msgs' = msgs + 1
    /\ q # "nextTurn" => phase # "idle"
    /\ queue' = [queue EXCEPT ![q] = Append(@, msgs')]
    /\ UNCHANGED <<guardVars, pending, op, direct, session, ops, writes,
                   aborts, fails, returned>>

Elements(s) == {s[i] : i \in 1 .. Len(s)}

(* Mutant: abort() empties nextTurn as well.                                *)
AbortAll ==
    /\ aborts < MaxAborts /\ aborts' = aborts + 1
    /\ queue' = [q \in Queues |-> <<>>]
    /\ returned' = returned \cup Elements(queue["steer"])
                            \cup Elements(queue["followUp"])
    /\ aborted' = IF controller = 0 THEN aborted ELSE aborted \cup {controller}
    /\ UNCHANGED <<op, phase, runPromise, controller, pending, direct, session,
                   ops, writes, msgs, fails>>

(* abort: two queues are replaced by new arrays, their messages given back. *)
Abort ==
    /\ aborts < MaxAborts /\ aborts' = aborts + 1
    /\ queue' = [queue EXCEPT !["steer"] = <<>>, !["followUp"] = <<>>]
    /\ returned' = returned \cup Elements(queue["steer"])
                            \cup Elements(queue["followUp"])
    /\ aborted' = IF controller = 0 THEN aborted ELSE aborted \cup {controller}
    /\ op' = [r \in Ops |-> IF op[r].pc = "notify" /\ op[r].from # "nextTurn"
                            THEN [op[r] EXCEPT !.detached = "yes"] ELSE op[r]]
    /\ UNCHANGED <<phase, runPromise, controller, pending, direct, session,
                   ops, writes, msgs, fails>>

-----------------------------------------------------------------------------
(* Taking messages from a queue: splice, tell the listeners, and put them   *)
(* back, into the array they came from, when one of them fails.             *)

Take(r, q, n) ==
    /\ queue[q] # <<>> /\ n \in {1, Len(queue[q])}
    /\ queue' = [queue EXCEPT ![q] = SubSeq(@, n + 1, Len(@))]
    /\ op' = [op EXCEPT ![r].pc = "notify", ![r].from = q, ![r].detached = "no",
                        ![r].hand = SubSeq(queue[q], 1, n)]
    /\ UNCHANGED <<guardVars, pending, direct, session, histVars>>

Notified(r) ==
    /\ op[r].pc = "notify"
    /\ Go(r, IF op[r].from = "nextTurn" THEN "hook" ELSE "inject")
    /\ UNCHANGED <<guardVars, pending, queue, direct, session, histVars>>

Fail == fails < MaxFails /\ fails' = fails + 1

(* prompt() catches what is thrown before the loop: idle at once.           *)
EndEarly(r) ==
    /\ phase' = "idle" /\ runPromise' = 0 /\ UNCHANGED <<controller, aborted>>
    /\ op' = [op EXCEPT ![r].pc = "over", ![r].hand = <<>>,
                        ![r].outcome = "early"]

NotifyFails(r) ==
    /\ op[r].pc = "notify" /\ Fail
    /\ queue' = IF op[r].detached = "yes" THEN queue
                ELSE [queue EXCEPT ![op[r].from] = op[r].hand \o @]
    /\ IF op[r].from = "nextTurn"
          THEN EndEarly(r)
          ELSE op' = [op EXCEPT ![r].pc = "failing", ![r].hand = <<>>]
               /\ UNCHANGED guardVars
    /\ UNCHANGED <<pending, direct, session, ops, writes, msgs, aborts, returned>>

-----------------------------------------------------------------------------
(* prompt() up to the loop.                                                 *)

(* createTurnState is done: executeTurn takes what nextTurn queued.         *)
Snapshot(r) ==
    /\ op[r].pc = "snapshot"
    /\ IF queue["nextTurn"] # <<>>
          THEN Take(r, "nextTurn", Len(queue["nextTurn"]))
          ELSE Go(r, "hook")
               /\ UNCHANGED <<guardVars, pending, queue, direct, session, histVars>>

(* createTurnState or a before_agent_start hook throws.                     *)
StartFails(r) ==
    /\ op[r].pc \in {"snapshot", "hook"} /\ Fail
    /\ EndEarly(r)
    /\ UNCHANGED <<pending, queue, direct, session, ops, writes, msgs, aborts,
                   returned>>

StartLoop(r) ==
    /\ op[r].pc = "hook"
    /\ controller' = r
    /\ Go(r, "prompts")
    /\ UNCHANGED <<phase, runPromise, aborted, pending, queue, direct, session,
                   histVars>>

-----------------------------------------------------------------------------
(* The agent loop, as the harness sees it.                                  *)

(* message_end of a prompt or of an injected message: persisted, in order.  *)
PersistMessage(r) ==
    /\ op[r].pc \in {"prompts", "inject"} /\ op[r].hand # <<>>
    /\ Persist("user", Head(op[r].hand))
    /\ op' = [op EXCEPT ![r].hand = Tail(@)]
    /\ UNCHANGED <<guardVars, pending, queue, direct, histVars>>

PersistPrompt(r) ==
    /\ op[r].pc = "prompts" /\ op[r].hand = <<>>
    /\ Persist("prompt", r)
    /\ op' = [op EXCEPT ![r].pc = "drain", ![r].more = "tools"]
    /\ UNCHANGED <<guardVars, pending, queue, direct, histVars>>

DrainSteering(r) ==
    /\ op[r].pc = "drain"
    /\ IF queue["steer"] # <<>>
          THEN \E n \in {1, Len(queue["steer"])} : Take(r, "steer", n)
          ELSE /\ Go(r, IF op[r].more = "tools" THEN "inject" ELSE "drainFollowUp")
               /\ UNCHANGED <<guardVars, pending, queue, direct, session, histVars>>

DrainFollowUp(r) ==
    /\ op[r].pc = "drainFollowUp"
    /\ IF queue["followUp"] # <<>>
          THEN \E n \in {1, Len(queue["followUp"])} : Take(r, "followUp", n)
          ELSE /\ Go(r, "agentEnd")
               /\ UNCHANGED <<guardVars, pending, queue, direct, session, histVars>>

(* The request: a signal aborted by now leaves only an aborted response.    *)
Request(r) ==
    /\ op[r].pc = "inject" /\ op[r].hand = <<>>
    /\ op' = [op EXCEPT ![r].pc = "stream",
                        ![r].more = IF r \in aborted THEN "stop" ELSE "text"]
    /\ UNCHANGED <<guardVars, pending, queue, direct, session, histVars>>

(* message_end of the response.                                             *)
Respond(r, more) ==
    /\ op[r].pc = "stream"
    /\ op[r].more = "stop" => more = "stop"
    /\ more = "tools" => op[r].turns < MaxTurns
    /\ Persist("assistant", r)
    /\ op' = [op EXCEPT ![r].more = more, ![r].turns = @ + 1,
                        ![r].pc = IF more = "tools" THEN "tools" ELSE "turnEnd"]
    /\ UNCHANGED <<guardVars, pending, queue, direct, histVars>>

(* The tools' results; the batch may ask the loop to terminate.             *)
PersistResult(r, more) ==
    /\ op[r].pc = "tools"
    /\ Persist("result", r)
    /\ op' = [op EXCEPT ![r].pc = "turnEnd", ![r].more = more]
    /\ UNCHANGED <<guardVars, pending, queue, direct, histVars>>

-----------------------------------------------------------------------------
(* flushPendingSessionWrites: append the first, then shift.                 *)

Flushing == {"turnEnd", "prepare", "agentEnd", "failTurnEnd", "failAgentEnd", "finally"}

(* Mutant: the write is taken out before it is appended.                    *)
ShiftFirst(r) ==
    /\ op[r].pc \in Flushing /\ op[r].writing = 0 /\ pending # <<>>
    /\ op' = [op EXCEPT ![r].writing = Head(pending)]
    /\ pending' = Tail(pending)
    /\ UNCHANGED <<guardVars, queue, direct, session, histVars>>

FlushFirst(r) ==
    /\ op[r].pc \in Flushing /\ op[r].writing = 0 /\ pending # <<>>
    /\ op' = [op EXCEPT ![r].writing = Head(pending)]
    /\ UNCHANGED <<guardVars, pending, queue, direct, session, histVars>>

FlushNext(r) ==
    /\ op[r].writing # 0
    /\ Persist("write", op[r].writing)
    /\ pending' = IF pending = <<>> THEN <<>> ELSE Tail(pending)
    /\ op' = [op EXCEPT ![r].writing = 0]
    /\ UNCHANGED <<guardVars, queue, direct, histVars>>

Flushed(r) == op[r].writing = 0 /\ pending = <<>>

(* turn_end: save_point is emitted; a stopped run is not prepared for more. *)
SavePoint(r) ==
    /\ op[r].pc = "turnEnd" /\ Flushed(r)
    /\ Go(r, IF op[r].more = "stop" THEN "agentEnd" ELSE "prepare")
    /\ UNCHANGED <<guardVars, pending, queue, direct, session, histVars>>

(* prepareNextTurn: flush again, then createTurnState.                      *)
PrepareNextTurn(r) ==
    /\ op[r].pc = "prepare" /\ Flushed(r)
    /\ Go(r, "drain")
    /\ UNCHANGED <<guardVars, pending, queue, direct, session, histVars>>

(* agent_end: idle, then the listeners are told.                            *)
AgentEnd(r) ==
    /\ op[r].pc \in {"agentEnd", "failAgentEnd"} /\ Flushed(r)
    /\ phase' = "idle"
    /\ Go(r, IF op[r].pc = "agentEnd" THEN "settling" ELSE "failSettling")
    /\ UNCHANGED <<runPromise, controller, aborted, pending, queue, direct,
                   session, histVars>>

SettledOk(r) ==
    /\ op[r].pc \in {"settling", "failSettling"}
    /\ Go(r, "finally")
    /\ UNCHANGED <<guardVars, pending, queue, direct, session, histVars>>

(* Mutant: executeTurn's finally does not flush.                            *)
FinallyWithoutFlush(r) ==
    /\ op[r].pc = "finally"
    /\ controller' = 0 /\ runPromise' = 0
    /\ phase' = IF op[r].outcome = "error" THEN "idle" ELSE phase
    /\ op' = [op EXCEPT ![r].pc = "over", ![r].writing = 0]
    /\ UNCHANGED <<aborted, pending, queue, direct, session, histVars>>

(* Mutant: the run promise is awaited before it is resolved.                *)
FinallyAwaitsIdle(r) ==
    /\ op[r].pc = "finally" /\ Flushed(r) /\ runPromise = 0
    /\ controller' = 0 /\ runPromise' = 0
    /\ phase' = IF op[r].outcome = "error" THEN "idle" ELSE phase
    /\ Go(r, "over")
    /\ UNCHANGED <<aborted, pending, queue, direct, session, histVars>>

(* executeTurn's finally, and prompt()'s: whatever run is active by now.    *)
Finally(r) ==
    /\ op[r].pc = "finally" /\ Flushed(r)
    /\ controller' = 0 /\ runPromise' = 0
    /\ phase' = IF op[r].outcome = "error" THEN "idle" ELSE phase
    /\ Go(r, "over")
    /\ UNCHANGED <<aborted, pending, queue, direct, session, histVars>>

-----------------------------------------------------------------------------
(* Failures in the loop: a listener, a hook, an append.                     *)

MayThrow == {"prompts", "drain", "inject", "stream", "tools", "turnEnd",
             "prepare", "agentEnd", "settling"}

(* emitRunFailure follows.  What the run held in hand is forgotten.         *)
Throw(r) ==
    /\ op[r].pc \in MayThrow /\ Fail
    /\ op' = [op EXCEPT ![r].pc = "failing", ![r].hand = <<>>, ![r].writing = 0]
    /\ UNCHANGED <<guardVars, pending, queue, direct, session, ops, writes,
                   msgs, aborts, returned>>

RunFailure(r) ==
    /\ op[r].pc = "failing"
    /\ Persist("failure", r)
    /\ Go(r, "failTurnEnd")
    /\ UNCHANGED <<guardVars, pending, queue, direct, histVars>>

FailTurnEnd(r) ==
    /\ op[r].pc = "failTurnEnd" /\ Flushed(r)
    /\ Go(r, "failAgentEnd")
    /\ UNCHANGED <<guardVars, pending, queue, direct, session, histVars>>

(* Reporting fails too: the operation will reject.                          *)
FailureThrows(r) ==
    /\ op[r].pc \in {"failing", "failTurnEnd", "failAgentEnd", "failSettling"}
    /\ Fail
    /\ op' = [op EXCEPT ![r].pc = "finally", ![r].outcome = "error",
                        ![r].writing = 0]
    /\ UNCHANGED <<guardVars, pending, queue, direct, session, ops, writes,
                   msgs, aborts, returned>>

(* The flush of the finally block fails: the controller is cleared and the  *)
(* error handed on.                                                        *)
FinallyThrows(r) ==
    /\ op[r].pc = "finally" /\ pending # <<>> /\ Fail
    /\ controller' = 0 /\ runPromise' = 0 /\ phase' = "idle"
    /\ op' = [op EXCEPT ![r].pc = "over", ![r].outcome = "unflushed",
                        ![r].writing = 0]
    /\ UNCHANGED <<aborted, pending, queue, direct, session, ops, writes, msgs,
                   aborts, returned>>

(* compact and navigateTree: an entry is appended or something throws; the  *)
(* phase is reset, pending writes are not looked at.                        *)
EndStructural(r) ==
    /\ op[r].pc = "working"
    /\ session' \in {session, Append(session, <<"structural", r>>)}
    /\ phase' = "idle"
    /\ Go(r, "over")
    /\ UNCHANGED <<runPromise, controller, aborted, pending, queue, direct,
                   histVars>>

-----------------------------------------------------------------------------
Step(r) ==
    \/ Snapshot(r) \/ Notified(r) \/ StartLoop(r)
    \/ PersistMessage(r) \/ PersistPrompt(r) \/ DrainSteering(r)
    \/ DrainFollowUp(r) \/ Request(r)
    \/ (\E more \in {"tools", "text", "stop"} : Respond(r, more))
    \/ (\E more \in {"tools", "text"} : PersistResult(r, more))
    \/ FlushFirst(r) \/ FlushNext(r) \/ SavePoint(r) \/ PrepareNextTurn(r)
    \/ AgentEnd(r)
    \/ SettledOk(r) \/ Finally(r) \/ RunFailure(r) \/ FailTurnEnd(r)
    \/ EndStructural(r)

Failure(r) == StartFails(r) \/ NotifyFails(r) \/ Throw(r) \/ FailureThrows(r)
              \/ FinallyThrows(r)

Next ==
    \/ Prompt \/ StartStructural \/ RequestWrite \/ Abort
    \/ \E w \in direct : DirectWrite(w)
    \/ \E q \in Queues : Enqueue(q)
    \/ \E r \in Ops : Step(r) \/ Failure(r)

Spec == Init /\ [][Next]_vars

(* Operations go on; the host need not, and nothing has to fail.            *)
FairSpec == Spec /\ \A r \in Ops : WF_vars(Step(r))

-----------------------------------------------------------------------------
Location == {"none", "snapshot", "notify", "hook", "prompts", "drain",
             "drainFollowUp", "inject", "stream", "tools", "turnEnd", "prepare",
             "agentEnd", "settling", "failing", "failTurnEnd", "failAgentEnd",
             "failSettling", "finally", "working", "over"}

TypeOK ==
    /\ phase \in {"idle", "turn", "structural"}
    /\ runPromise \in 0 .. MaxOps /\ controller \in 0 .. MaxOps
    /\ aborted \subseteq Ops
    /\ pending \in Seq(1 .. MaxWrites)
    /\ queue \in [Queues -> Seq(1 .. MaxMsgs)]
    /\ op \in [Ops -> [pc : Location, hand : Seq(1 .. MaxMsgs), from : Queues,
                       detached : {"yes", "no"}, writing : 0 .. MaxWrites,
                       more : {"tools", "text", "stop"},
                       turns : Nat,
                       outcome : {"ok", "error", "early", "unflushed"}]]
    /\ direct \subseteq 1 .. MaxWrites /\ returned \subseteq 1 .. MaxMsgs
    /\ session \in Seq({"write", "user", "prompt", "assistant", "result",
                        "failure", "structural"} \X Nat)
    /\ ops \in 0 .. MaxOps /\ writes \in 0 .. MaxWrites /\ msgs \in 0 .. MaxMsgs
    /\ aborts \in Nat /\ fails \in Nat

Count(entry) == {i \in 1 .. Len(session) : session[i] = entry}

(* "Pending session writes are always persisted" (docs/agent-harness.md:88) *)
(* and "not dropped on failure" (:305): a write is in exactly one place,    *)
(* put off, under way while idle, or persisted, and never persisted twice.  *)
WritesOnce ==
    \A w \in 1 .. writes :
        /\ \A i, j \in Count(<<"write", w>>) : i = j
        /\ Count(<<"write", w>>) = {} <=> w \in Elements(pending) \cup direct

(* "They are flushed at save points, at operation settlement, and in        *)
(* failure cleanup" (:88): with no operation under way none is left, unless *)
(* appending them is what failed.                                           *)
NothingLeftPending ==
    (\A r \in Ops : ~Active(r) /\ op[r].outcome # "unflushed") => pending = <<>>

(* What the code keeps of it: nothing is left by operations that entered    *)
(* their loop, however the loop and the reporting of its failure ended.     *)
NothingLeftByLoops ==
    (\A r \in Ops : ~Active(r) /\ op[r].outcome \in {"ok", "error"})
        => pending = <<>>

(* Put-off writes never land between a response and its tool results        *)
(* ("after the agent-emitted messages for that turn", :146), so that the    *)
(* session can be sent to a provider as it is.                              *)
WritesBetweenTurns ==
    \A i \in 1 .. Len(session) :
        session[i][1] = "result" =>
            i > 1 /\ session[i - 1] = <<"assistant", session[i][2]>>

InLoop(r) == op[r].pc \notin {"none", "over", "snapshot", "hook", "working",
                              "settling", "failSettling", "finally"}
             /\ ~(op[r].pc = "notify" /\ op[r].from = "nextTurn")

(* "Abort is allowed during a turn.  It aborts the low-level run" (:200)    *)
(* and abort() "still waits for idle" (:308): the controller and the        *)
(* promise it finds are those of the run in its loop.                       *)
AbortReachesRun ==
    \A r \in Ops : InLoop(r) => controller = r /\ runPromise = r

(* "Starting another structural operation while the harness is not idle     *)
(* rejects" (:108): as long as nothing fails, two operations never both     *)
(* change the session.                                                     *)
Changing(r) == Active(r) /\ op[r].pc \notin {"settling", "failSettling", "finally"}
OneOperation ==
    fails = 0 => \A r, s \in Ops : Changing(r) /\ Changing(s) => r = s

(* A queued message is in exactly one place: its queue, the hands of the    *)
(* operation that took it, the session, or abort()'s result, as long as     *)
(* nothing fails.                                                          *)
Places(m) ==
    {<<q, 0>> : q \in {q \in Queues : m \in Elements(queue[q])}}
    \cup {<<"hand", r>> : r \in {r \in Ops : m \in Elements(op[r].hand)}}
    \cup {<<"session", i>> : i \in Count(<<"user", m>>)}
    \cup {<<"returned", k>> : k \in {m} \cap returned}

MessagesKept == fails = 0 => \A m \in 1 .. msgs : Cardinality(Places(m)) = 1

(* "Queue drains roll back if queue-update notification fails" (:306).      *)
DrainsRollBack ==
    [][\A r \in Ops : NotifyFails(r) =>
          Elements(op[r].hand) \subseteq Elements(queue'[op[r].from])]_vars

(* "nextTurn messages are inserted before the new user message on the next  *)
(* user-initiated turn" (:131): an operation that took them and fails       *)
(* before its loop has not lost them.                                      *)
NextTurnKept ==
    [][\A r \in Ops : StartFails(r) =>
          Elements(op[r].hand) \subseteq Elements(queue'["nextTurn"])]_vars

(* Every operation returns, and so do those that wait for idle, whichever   *)
(* other operations, drains, flushes and aborts cross it.                   *)
OperationsEnd == \A r \in Ops : Active(r) ~> op[r].pc = "over"
=============================================================================
