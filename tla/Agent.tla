------------------------------- MODULE Agent -------------------------------
(***************************************************************************)
(* The stateful Agent (packages/agent/src/agent.ts) and the loop it runs    *)
(* (packages/agent/src/agent-loop.ts): one run at a time, turns of one      *)
(* model response and its tool calls, two queues of messages that are       *)
(* injected between turns, abort, and the failure path.                     *)
(*                                                                         *)
(* A step is the code between two awaits.  `pc' says where the active run   *)
(* stands; whatever the host may do while the run awaits (queue a message,  *)
(* abort, clear the queues, reset) is an action of its own, enabled at all  *)
(* times.  Transcript entries are                                          *)
(*    <<"user", m>>         a message of the host (numbered as sent),       *)
(*    <<"assistant", t>>    the response of turn t,                         *)
(*    <<"result", t, i>>    the result of the i-th tool call of turn t,     *)
(*    <<"failure", r>>      the message handleRunFailure writes for run r.  *)
(***************************************************************************)
EXTENDS Naturals, Sequences, FiniteSets

CONSTANTS MaxMsgs,       \* bound: messages the host sends
          MaxCalls,      \* bound: tool calls in one response
          MaxToolTurns,  \* bound: responses that call tools
          MaxRuns,       \* bound: runs started
          MaxResets,     \* bound: calls of reset()
          StopHook       \* "yes": the loop has a shouldStopAfterTurn hook

ASSUME Bounds == MaxMsgs \in Nat /\ MaxCalls \in Nat \ {0} /\ MaxToolTurns \in Nat
                 /\ MaxRuns \in Nat /\ MaxResets \in Nat

VARIABLES
  (* Agent *)
  messages,          \* _state.messages, the transcript
  steering,          \* steeringQueue
  followUp,          \* followUpQueue
  mode,              \* drain mode of each queue: "all" or "one-at-a-time"
  isStreaming,       \* _state.isStreaming, "yes" or "no"
  pendingToolCalls,  \* _state.pendingToolCalls, calls <<t, i>>
  activeRun,         \* number of the active run, 0 when there is none
  signal,            \* the active run's abort signal: "live" or "aborted"
  (* the loop of the active run *)
  pc,                \* where the loop stands
  context,           \* currentContext.messages
  pending,           \* prompts or pendingMessages not yet injected
  skipPoll,          \* skipInitialSteeringPoll
  hasMore,           \* hasMoreToolCalls
  toolMode,          \* "sequential" or "parallel" for this batch
  next,              \* index of the tool call in hand
  emitted,           \* result messages emitted by a parallel batch
  call,              \* status of each call of this batch
  orphans,           \* calls <<r, t, i>> still running when their run failed
  (* history *)
  via,               \* how the m-th message was sent
  turns,             \* per turn: how many calls, and what became of it
  runs,              \* runs started
  resets             \* reset() calls

queueVars == <<steering, followUp, mode, via>>
agentVars == <<messages, isStreaming, pendingToolCalls, activeRun, signal>>
batchVars == <<toolMode, next, emitted, call>>
loopVars  == <<context, pending, skipPoll, hasMore>>
countVars == <<runs, resets>>
vars == <<queueVars, agentVars, batchVars, loopVars, countVars, pc, orphans,
          turns>>

turn == Len(turns)
Calls == {"waiting", "started", "prepared", "running", "done", "terminates"}
Finalized == {"done", "terminates"}
NoCalls == [i \in 1 .. MaxCalls |-> "waiting"]

-----------------------------------------------------------------------------
Init ==
    /\ messages = <<>> /\ steering = <<>> /\ followUp = <<>>
    /\ mode \in [{"steering", "followUp"} -> {"all", "one-at-a-time"}]
    /\ isStreaming = "no" /\ pendingToolCalls = {}
    /\ activeRun = 0 /\ signal = "live"
    /\ pc = "idle" /\ context = <<>> /\ pending = <<>>
    /\ skipPoll = "no" /\ hasMore = "yes"
    /\ toolMode = "parallel" /\ next = 1 /\ emitted = 0 /\ call = NoCalls
    /\ orphans = {}
    /\ via = <<>> /\ turns = <<>> /\ runs = 0 /\ resets = 0

-----------------------------------------------------------------------------
(* What the host may do at any time.                                        *)

Users(s) == [i \in 1 .. Len(s) |-> <<"user", s[i]>>]

Send(how) == Len(via) < MaxMsgs /\ via' = Append(via, how)

Steer ==
    /\ Send("steering")
    /\ steering' = Append(steering, Len(via) + 1)
    /\ UNCHANGED <<followUp, mode, agentVars, batchVars, loopVars, countVars,
                   pc, orphans, turns>>

FollowUp ==
    /\ Send("followUp")
    /\ followUp' = Append(followUp, Len(via) + 1)
    /\ UNCHANGED <<steering, mode, agentVars, batchVars, loopVars, countVars,
                   pc, orphans, turns>>

(* clearSteeringQueue, clearFollowUpQueue; clearAllQueues is one after the  *)
(* other.                                                                  *)
ClearQueue(q) ==
    /\ IF q = "steering" THEN steering' = <<>> /\ UNCHANGED followUp
                         ELSE followUp' = <<>> /\ UNCHANGED steering
    /\ UNCHANGED <<mode, via, agentVars, batchVars, loopVars, countVars, pc,
                   orphans, turns>>

SetMode(q, m) ==
    /\ mode' = [mode EXCEPT ![q] = m]
    /\ UNCHANGED <<steering, followUp, via, agentVars, batchVars, loopVars,
                   countVars, pc, orphans, turns>>

InBatch == pc \in {"toolStart", "toolPrepare", "toolWait", "toolResult",
                   "toolNext"}

(* History: the tool calls in progress were disturbed.                      *)
Mark(fate) ==
    turns' = IF InBatch /\ turns[turn].fate # "forgotten"
             THEN [turns EXCEPT ![turn].fate = fate] ELSE turns

(* Only the signal is set; the loop finds out where it looks at it.         *)
Abort ==
    /\ activeRun # 0
    /\ signal' = "aborted"
    /\ Mark("stopped")
    /\ UNCHANGED <<queueVars, messages, isStreaming, pendingToolCalls,
                   activeRun, batchVars, loopVars, countVars, pc, orphans>>

(* reset() does not look at the active run.                                 *)
Reset ==
    /\ resets < MaxResets
    /\ resets' = resets + 1
    /\ messages' = <<>> /\ steering' = <<>> /\ followUp' = <<>>
    /\ isStreaming' = "no" /\ pendingToolCalls' = {}
    /\ Mark("forgotten")
    /\ UNCHANGED <<mode, via, activeRun, signal, batchVars, loopVars, runs,
                   pc, orphans>>

-----------------------------------------------------------------------------
(* Starting and ending a run: runWithLifecycle, finishRun.                  *)

StartRun(prompts, skip) ==
    /\ runs < MaxRuns
    /\ runs' = runs + 1 /\ activeRun' = runs + 1
    /\ signal' = "live" /\ isStreaming' = "yes"
    /\ context' = messages \o Users(prompts)
    /\ pending' = prompts
    /\ skipPoll' = skip
    /\ hasMore' = "yes"
    /\ pc' = "prompts"
    /\ UNCHANGED <<messages, pendingToolCalls, mode, batchVars, resets,
                   orphans, turns>>

Prompt ==
    /\ activeRun = 0
    /\ Send("prompt")
    /\ StartRun(<<Len(via) + 1>>, "no")
    /\ UNCHANGED <<steering, followUp>>

LastIsAssistant ==
    messages # <<>> /\ messages[Len(messages)][1] \in {"assistant", "failure"}

(* PendingMessageQueue.drain: what it returns and what it leaves.           *)
Drained(q, m) == IF m = "all" THEN q ELSE SubSeq(q, 1, IF q = <<>> THEN 0 ELSE 1)
(* Mutants: one-at-a-time returns the first message but keeps it; or drops  *)
(* the others.                                                             *)
LeftAll(q, m) == IF m = "all" THEN <<>> ELSE q
LeftNothing(q, m) == <<>>

Left(q, m) == SubSeq(q, Len(Drained(q, m)) + 1, Len(q))

(* continue() after an assistant message takes its prompts from a queue.    *)
ContinueFromSteering ==
    /\ activeRun = 0 /\ LastIsAssistant
    /\ steering # <<>>
    /\ steering' = Left(steering, mode["steering"])
    /\ StartRun(Drained(steering, mode["steering"]), "yes")
    /\ UNCHANGED <<followUp, via>>

ContinueFromFollowUp ==
    /\ activeRun = 0 /\ LastIsAssistant
    /\ steering = <<>> /\ followUp # <<>>
    /\ followUp' = Left(followUp, mode["followUp"])
    /\ StartRun(Drained(followUp, mode["followUp"]), "no")
    /\ UNCHANGED <<steering, via>>

ContinueTranscript ==
    /\ activeRun = 0 /\ messages # <<>> /\ ~LastIsAssistant
    /\ StartRun(<<>>, "no")
    /\ UNCHANGED <<steering, followUp, via>>

ClearBatch ==
    toolMode' = "parallel" /\ next' = 1 /\ emitted' = 0 /\ call' = NoCalls

(* finishRun, when the last listener has settled; the loop's locals go.     *)
FinishRun ==
    /\ isStreaming' = "no" /\ pendingToolCalls' = {} /\ activeRun' = 0
    /\ signal' = "live"
    /\ pc' = "idle"
    /\ context' = <<>> /\ pending' = <<>> /\ skipPoll' = "no" /\ hasMore' = "yes"
    /\ ClearBatch

Settle ==
    /\ pc \in {"settling", "failed"}
    /\ FinishRun
    /\ UNCHANGED <<queueVars, messages, countVars, orphans, turns>>

-----------------------------------------------------------------------------
(* Between turns.                                                           *)

(* runAgentLoop emits the prompts, which the context already holds.         *)
EmitPrompt ==
    /\ pc = "prompts" /\ pending # <<>>
    /\ messages' = Append(messages, <<"user", Head(pending)>>)
    /\ pending' = Tail(pending)
    /\ UNCHANGED <<queueVars, isStreaming, pendingToolCalls, activeRun, signal,
                   batchVars, context, skipPoll, hasMore, countVars, pc,
                   orphans, turns>>

(* getSteeringMessages at the start of the loop and after each turn.        *)
PollSteering ==
    /\ \/ pc = "prompts" /\ pending = <<>>
       \/ pc = "poll"
    /\ IF skipPoll = "yes"
          THEN pending' = <<>> /\ UNCHANGED steering
          ELSE /\ pending' = Drained(steering, mode["steering"])
               /\ steering' = Left(steering, mode["steering"])
    /\ skipPoll' = "no"
    /\ pc' = IF hasMore = "yes" \/ pending' # <<>> THEN "inject"
             ELSE "pollFollowUp"
    /\ UNCHANGED <<followUp, mode, via, agentVars, batchVars, context,
                   hasMore, countVars, orphans, turns>>

(* The agent would stop: follow-ups are polled; with none, agent_end.       *)
PollFollowUp ==
    /\ pc = "pollFollowUp"
    /\ pending' = Drained(followUp, mode["followUp"])
    /\ followUp' = Left(followUp, mode["followUp"])
    /\ pc' = IF pending' # <<>> THEN "inject" ELSE "settling"
    /\ UNCHANGED <<steering, mode, via, agentVars, batchVars, context,
                   skipPoll, hasMore, countVars, orphans, turns>>

(* Mutant: the message is emitted but not pushed to the context.            *)
InjectOnlyEmits ==
    /\ pc = "inject" /\ pending # <<>>
    /\ messages' = Append(messages, <<"user", Head(pending)>>)
    /\ pending' = Tail(pending)
    /\ UNCHANGED <<queueVars, isStreaming, pendingToolCalls, activeRun, signal,
                   batchVars, context, skipPoll, hasMore, countVars, pc,
                   orphans, turns>>

(* A pending message is emitted, then pushed to the context.                *)
Inject ==
    /\ pc = "inject" /\ pending # <<>>
    /\ messages' = Append(messages, <<"user", Head(pending)>>)
    /\ context' = Append(context, <<"user", Head(pending)>>)
    /\ pending' = Tail(pending)
    /\ UNCHANGED <<queueVars, isStreaming, pendingToolCalls, activeRun, signal,
                   batchVars, skipPoll, hasMore, countVars, pc, orphans, turns>>

(* streamAssistantResponse: the request goes out with the context.          *)
CallModel ==
    /\ pc = "inject" /\ pending = <<>>
    /\ pc' = "responding"
    /\ UNCHANGED <<queueVars, agentVars, batchVars, loopVars, countVars,
                   orphans, turns>>

(* The final message of the stream, with n tool calls.                      *)
Respond(n) ==
    /\ pc = "responding"
    /\ n > 0 => Cardinality({t \in DOMAIN turns : turns[t].calls > 0})
                   < MaxToolTurns
    /\ messages' = Append(messages, <<"assistant", turn + 1>>)
    /\ context' = Append(context, <<"assistant", turn + 1>>)
    /\ turns' = Append(turns, [calls |-> n,
                   fate |-> IF signal = "live" THEN "whole" ELSE "stopped"])
    /\ hasMore' = "no"
    /\ toolMode' \in IF n > 0 THEN {"sequential", "parallel"} ELSE {toolMode}
    /\ next' = 1 /\ emitted' = 0 /\ call' = NoCalls
    /\ pc' = IF n > 0 THEN "toolStart" ELSE "turnEnd"
    /\ UNCHANGED <<queueVars, isStreaming, pendingToolCalls, activeRun, signal,
                   pending, skipPoll, countVars, orphans>>

(* stopReason "error" or "aborted": its tool calls are not executed, the    *)
(* queues are left alone, turn_end and agent_end follow.                    *)
RespondError ==
    /\ pc = "responding"
    /\ messages' = Append(messages, <<"assistant", turn + 1>>)
    /\ context' = Append(context, <<"assistant", turn + 1>>)
    /\ turns' = Append(turns, [calls |-> 0, fate |-> "stopped"])
    /\ pc' = "agentEnd"
    /\ UNCHANGED <<queueVars, isStreaming, pendingToolCalls, activeRun, signal,
                   batchVars, pending, skipPoll, hasMore, countVars, orphans>>

(* agent_end, after the turn_end of an error response or a hook's stop.     *)
EmitAgentEnd ==
    /\ pc = "agentEnd"
    /\ pc' = "settling"
    /\ UNCHANGED <<queueVars, agentVars, batchVars, loopVars, countVars,
                   orphans, turns>>

(* turn_end was emitted and prepareNextTurn awaited.                        *)
EndTurn ==
    /\ pc = "turnEnd"
    /\ pc' = "poll"
    /\ UNCHANGED <<queueVars, agentVars, batchVars, loopVars, countVars,
                   orphans, turns>>

StopAfterTurn ==
    /\ pc = "turnEnd" /\ StopHook = "yes"
    /\ pc' = "agentEnd"
    /\ UNCHANGED <<queueVars, agentVars, batchVars, loopVars, countVars,
                   orphans, turns>>

-----------------------------------------------------------------------------
(* The tool calls of one response.  Both modes start and prepare a call the *)
(* same way; "sequential" then runs it to its result message, "parallel"    *)
(* prepares them all, runs the prepared ones together, and emits the result *)
(* messages in source order at the end.                                     *)

current == <<turn, next>>
Result(i) == <<"result", turn, i>>

(* tool_execution_start.                                                    *)
ToolStart ==
    /\ pc = "toolStart"
    /\ call' = [call EXCEPT ![next] = "started"]
    /\ pendingToolCalls' = pendingToolCalls \cup {current}
    /\ pc' = "toolPrepare"
    /\ UNCHANGED <<queueVars, messages, isStreaming, activeRun, signal,
                   toolMode, next, emitted, loopVars, countVars, orphans, turns>>

(* Mutant: an immediate error result is not announced as ended.             *)
ToolImmediateSilent ==
    /\ pc = "toolPrepare"
    /\ call' = [call EXCEPT ![next] = "done"]
    /\ pc' = IF toolMode = "sequential" THEN "toolResult" ELSE "toolNext"
    /\ UNCHANGED <<queueVars, agentVars, toolMode, next, emitted, loopVars,
                   countVars, orphans, turns>>

(* prepareToolCall gives an error result at once: unknown tool, invalid     *)
(* arguments, blocked, a hook that threw, or aborted.  tool_execution_end.  *)
ToolImmediate ==
    /\ pc = "toolPrepare"
    /\ call' = [call EXCEPT ![next] = "done"]
    /\ pendingToolCalls' = pendingToolCalls \ {current}
    /\ pc' = IF toolMode = "sequential" THEN "toolResult" ELSE "toolNext"
    /\ UNCHANGED <<queueVars, messages, isStreaming, activeRun, signal,
                   toolMode, next, emitted, loopVars, countVars, orphans, turns>>

ToolPrepared ==
    /\ pc = "toolPrepare" /\ signal = "live"
    /\ IF toolMode = "sequential"
          THEN call' = [call EXCEPT ![next] = "running"] /\ pc' = "toolWait"
          ELSE call' = [call EXCEPT ![next] = "prepared"] /\ pc' = "toolNext"
    /\ UNCHANGED <<queueVars, agentVars, toolMode, next, emitted, loopVars, countVars,
                   orphans, turns>>

(* A running tool returns or throws, afterToolCall may rewrite its result,  *)
(* tool_execution_end.                                                      *)
ToolEnds(i, status) ==
    /\ pc = "toolWait" /\ call[i] = "running"
    /\ call' = [call EXCEPT ![i] = status]
    /\ pendingToolCalls' = pendingToolCalls \ {<<turn, i>>}
    /\ pc' = IF toolMode = "sequential" THEN "toolResult"
             ELSE IF \E j \in 1 .. MaxCalls : call'[j] = "running"
             THEN "toolWait" ELSE "toolResult"
    /\ UNCHANGED <<queueVars, messages, isStreaming, activeRun, signal,
                   toolMode, next, emitted, loopVars, countVars, orphans, turns>>

(* The batch is over: its results enter the context.                        *)
EndBatch ==
    /\ ClearBatch
    /\ context' = context \o [i \in 1 .. next |-> Result(i)]
    /\ hasMore' = IF \A i \in 1 .. next : call[i] = "terminates" THEN "no"
                  ELSE "yes"
    /\ pc' = "turnEnd"

lastCall == next = turns[turn].calls

(* The check of the signal before the next call of the batch.               *)
NextCall ==
    /\ pc = "toolNext" /\ signal = "live" /\ ~lastCall
    /\ next' = next + 1
    /\ pc' = "toolStart"
    /\ UNCHANGED <<queueVars, agentVars, toolMode, emitted, call, loopVars, countVars,
                   orphans, turns>>

(* Mutant: the batch waits for a running tool although none was prepared.   *)
LaunchAllAndWait ==
    /\ pc = "toolNext" /\ toolMode = "parallel"
    /\ signal = "aborted" \/ lastCall
    /\ call' = [i \in 1 .. MaxCalls |->
                   IF call[i] = "prepared" THEN "running" ELSE call[i]]
    /\ pc' = "toolWait"
    /\ UNCHANGED <<queueVars, agentVars, toolMode, next, emitted, loopVars,
                   countVars, orphans, turns>>

(* Promise.all starts every prepared call, aborted or not.                  *)
LaunchAll ==
    /\ pc = "toolNext" /\ toolMode = "parallel"
    /\ signal = "aborted" \/ lastCall
    /\ call' = [i \in 1 .. MaxCalls |->
                   IF call[i] = "prepared" THEN "running" ELSE call[i]]
    /\ pc' = IF \E i \in 1 .. MaxCalls : call'[i] = "running" THEN "toolWait"
             ELSE "toolResult"
    /\ UNCHANGED <<queueVars, agentVars, toolMode, next, emitted, loopVars, countVars,
                   orphans, turns>>

(* Sequential: the result message of the call just finished.                *)
EmitResult ==
    /\ pc = "toolResult" /\ toolMode = "sequential"
    /\ messages' = Append(messages, Result(next))
    /\ pc' = "toolNext"
    /\ UNCHANGED <<queueVars, isStreaming, pendingToolCalls, activeRun, signal,
                   batchVars, loopVars, countVars, orphans, turns>>

EndSequential ==
    /\ pc = "toolNext" /\ toolMode = "sequential"
    /\ signal = "aborted" \/ lastCall
    /\ EndBatch
    /\ UNCHANGED <<queueVars, agentVars, pending, skipPoll, countVars, orphans,
                   turns>>

(* Parallel: the result messages in source order.  emitted' counts them.    *)
EmitResults ==
    /\ pc = "toolResult" /\ toolMode = "parallel"
    /\ emitted < next
    /\ messages' = Append(messages, Result(emitted + 1))
    /\ emitted' = emitted + 1
    /\ UNCHANGED <<queueVars, isStreaming, pendingToolCalls, activeRun, signal,
                   toolMode, next, call, loopVars, countVars, pc, orphans,
                   turns>>

(* Mutant: the last result message is not emitted.                          *)
EndParallelEarly ==
    /\ pc = "toolResult" /\ toolMode = "parallel"
    /\ emitted + 1 = next
    /\ EndBatch
    /\ UNCHANGED <<queueVars, agentVars, pending, skipPoll, countVars, orphans,
                   turns>>

EndParallel ==
    /\ pc = "toolResult" /\ toolMode = "parallel"
    /\ emitted = next
    /\ EndBatch
    /\ UNCHANGED <<queueVars, agentVars, pending, skipPoll, countVars, orphans,
                   turns>>

-----------------------------------------------------------------------------
(* Failure: a listener, a hook or the stream function throws.               *)

(* Where something that may throw was awaited.  At "toolNext" a prepared    *)
(* parallel call has emitted nothing since.                                 *)
MayThrow ==
    \/ pc \in {"prompts", "inject", "responding", "agentEnd", "settling",
               "toolStart", "toolPrepare", "toolResult", "turnEnd", "poll"}
    \/ pc = "toolNext" /\ call[next] # "prepared"

Throw ==
    /\ MayThrow
    /\ pc' = "failing"
    /\ Mark("stopped")
    /\ UNCHANGED <<queueVars, agentVars, batchVars, loopVars, countVars,
                   orphans>>

(* A listener of a running tool's update (before its tool_execution_end) or *)
(* end event throws: Promise.all rejects while the others still run.        *)
ThrowInTool(i) ==
    /\ pc = "toolWait" /\ call[i] = "running"
    /\ pc' = "failing"
    /\ pendingToolCalls' \in {pendingToolCalls,
                              pendingToolCalls \ {<<turn, i>>}}
    /\ orphans' = orphans \cup
           {<<activeRun, turn, j>> : j \in {k \in 1 .. MaxCalls \ {i} :
                                              call[k] = "running"}}
    /\ Mark("stopped")
    /\ UNCHANGED <<queueVars, messages, isStreaming, activeRun, signal,
                   batchVars, loopVars, countVars>>

(* handleRunFailure: the failure message, turn_end and agent_end.           *)
FailureMessage ==
    /\ pc = "failing"
    /\ messages' = Append(messages, <<"failure", activeRun>>)
    /\ pc' = "failed"
    /\ UNCHANGED <<queueVars, isStreaming, pendingToolCalls, activeRun, signal,
                   batchVars, loopVars, countVars, orphans, turns>>

(* A listener throws again at message_start: the run ends without it.       *)
FailureThrows ==
    /\ pc = "failing"
    /\ FinishRun
    /\ UNCHANGED <<queueVars, messages, countVars, orphans, turns>>

(* A call that outlived its run ends: processEvents removes it from         *)
(* pendingToolCalls, and finds the listeners of whatever run is active.     *)
OrphanEnds(o) ==
    /\ o \in orphans
    /\ orphans' = orphans \ {o}
    /\ pendingToolCalls' = pendingToolCalls \ {<<o[2], o[3]>>}
    /\ UNCHANGED <<queueVars, messages, isStreaming, activeRun, signal,
                   batchVars, loopVars, countVars, pc, turns>>

-----------------------------------------------------------------------------
Host ==
    \/ Steer \/ FollowUp \/ Prompt
    \/ \E q \in {"steering", "followUp"} :
          ClearQueue(q) \/ \E m \in {"all", "one-at-a-time"} : SetMode(q, m)
    \/ Abort \/ Reset
    \/ ContinueFromSteering \/ ContinueFromFollowUp \/ ContinueTranscript

Loop ==
    \/ EmitPrompt \/ PollSteering \/ PollFollowUp \/ Inject \/ CallModel
    \/ \E n \in 0 .. MaxCalls : Respond(n)
    \/ RespondError \/ EmitAgentEnd \/ EndTurn \/ StopAfterTurn \/ Settle
    \/ ToolStart \/ ToolImmediate \/ ToolPrepared
    \/ \E i \in 1 .. MaxCalls, status \in Finalized : ToolEnds(i, status)
    \/ NextCall \/ LaunchAll \/ EmitResult \/ EndSequential
    \/ EmitResults \/ EndParallel
    \/ Throw \/ \E i \in 1 .. MaxCalls : ThrowInTool(i)
    \/ FailureMessage \/ FailureThrows

Next == Host \/ Loop \/ \E o \in orphans : OrphanEnds(o)

Spec == Init /\ [][Next]_vars

(* The loop and the tools it started always take their next step; the host  *)
(* may never call again.                                                    *)
FairSpec == Spec /\ WF_vars(Loop)

-----------------------------------------------------------------------------
Entry == ({"user"} \X (1 .. MaxMsgs)) \cup ({"assistant"} \X (Nat \ {0}))
         \cup ({"result"} \X (Nat \ {0}) \X (1 .. MaxCalls))
         \cup ({"failure"} \X (1 .. MaxRuns))

TranscriptType == messages \in Seq(Entry) /\ context \in Seq(Entry)

QueueType ==
    /\ steering \in Seq(1 .. MaxMsgs) /\ followUp \in Seq(1 .. MaxMsgs)
    /\ pending \in Seq(1 .. MaxMsgs)
    /\ mode \in [{"steering", "followUp"} -> {"all", "one-at-a-time"}]
    /\ via \in Seq({"prompt", "steering", "followUp"}) /\ Len(via) <= MaxMsgs

RunType ==
    /\ isStreaming \in {"yes", "no"} /\ signal \in {"live", "aborted"}
    /\ activeRun \in 0 .. MaxRuns /\ runs \in 0 .. MaxRuns
    /\ resets \in 0 .. MaxResets
    /\ pc \in {"idle", "prompts", "poll", "pollFollowUp", "inject",
              "responding", "toolStart", "toolPrepare", "toolWait",
              "toolResult", "toolNext", "turnEnd", "agentEnd", "settling",
              "failing", "failed"}
    /\ skipPoll \in {"yes", "no"} /\ hasMore \in {"yes", "no"}

BatchType ==
    /\ turns \in Seq([calls : 0 .. MaxCalls,
                      fate : {"whole", "stopped", "forgotten"}])
    /\ toolMode \in {"sequential", "parallel"}
    /\ next \in 1 .. MaxCalls /\ emitted \in 0 .. MaxCalls
    /\ call \in [1 .. MaxCalls -> Calls]
    /\ pendingToolCalls \subseteq (Nat \X (1 .. MaxCalls))
    /\ orphans \subseteq ((1 .. MaxRuns) \X (Nat \ {0}) \X (1 .. MaxCalls))

TypeOK == TranscriptType /\ QueueType /\ RunType /\ BatchType

(* A run that is over has left nothing behind in the runtime state the UI   *)
(* shows, and pendingToolCalls is exactly the calls of the batch that have  *)
(* started and not ended: never a call of an earlier turn, never one that   *)
(* both modes' interleavings of start, end and failure left behind.         *)
PendingCallsExact ==
    /\ activeRun = 0 => isStreaming = "no" /\ pendingToolCalls = {}
    /\ InBatch /\ turns[turn].fate # "forgotten" =>
          pendingToolCalls = {turn} \X {i \in 1 .. MaxCalls :
                                call[i] \in {"started", "prepared", "running"}}
    /\ ~InBatch /\ pc \notin {"failing", "failed"} => pendingToolCalls = {}

(* Every message is delivered at most once and in the order in which it was *)
(* queued: within one queue, what the transcript holds comes before what is *)
(* drained, and that before what still waits; nothing is in two places.     *)
Increasing(s) == \A i, j \in 1 .. Len(s) : i < j => s[i] < s[j]

IsUser(p) == messages[p][1] = "user"

OrderedDelivery ==
    /\ Increasing(steering) /\ Increasing(followUp) /\ Increasing(pending)
    /\ \A i \in 1 .. Len(steering) : via[steering[i]] = "steering"
    /\ \A i \in 1 .. Len(followUp) : via[followUp[i]] = "followUp"
    /\ \A i \in 1 .. Len(pending) :
          /\ \A j \in 1 .. Len(steering) :
                via[pending[i]] = "steering" => pending[i] < steering[j]
          /\ \A j \in 1 .. Len(followUp) :
                via[pending[i]] = "followUp" => pending[i] < followUp[j]
    /\ \A p \in 1 .. Len(messages) : IsUser(p) =>
          LET m == messages[p][2] IN
          /\ \A q \in p + 1 .. Len(messages) :
                IsUser(q) /\ via[messages[q][2]] = via[m] => m < messages[q][2]
          /\ \A i \in 1 .. Len(pending) :
                via[pending[i]] = via[m] => m < pending[i]
          /\ \A j \in 1 .. Len(steering) : via[m] = "steering" => m < steering[j]
          /\ \A j \in 1 .. Len(followUp) : via[m] = "followUp" => m < followUp[j]

(* Tool results follow the response that asked for them, in source order,   *)
(* each once, with nothing in between, whatever order the tools end in; and *)
(* unless the batch was aborted or failed, nothing else enters the          *)
(* transcript before the last of them.  (Not across a reset() in the batch.)*)
ResultsAnswerCalls ==
    \A p \in 1 .. Len(messages) :
        /\ messages[p][1] = "result" =>
              LET t == messages[p][2]
                  i == messages[p][3]
              IN  turns[t].fate # "forgotten" =>
                     /\ i <= turns[t].calls /\ i < p
                     /\ messages[p - i] = <<"assistant", t>>
                     /\ \A j \in 1 .. i : messages[p - i + j] = <<"result", t, j>>
        /\ messages[p][1] = "assistant" =>
              LET t == messages[p][2] IN
              turns[t].fate = "whole" =>
                  \A i \in 1 .. turns[t].calls :
                      IF p + i <= Len(messages)
                      THEN messages[p + i] = <<"result", t, i>>
                      ELSE t = turn /\ InBatch

(* What the model is sent is the transcript: the context the loop builds on *)
(* its own (pushes of prompts, injected messages, responses and whole       *)
(* batches) is, at each request, the list the events built in the state.    *)
(* isStreaming is "no" in an active run only after a reset() during it.     *)
ContextIsTranscript ==
    pc = "inject" /\ isStreaming = "yes" => context = messages

(* A message leaves the agent (queues, injection, transcript) only when the *)
(* host clears a queue or resets, or when its run fails before it was       *)
(* injected: no drain and no end of a run loses one.                        *)
Held == {steering[i] : i \in 1 .. Len(steering)}
        \cup {followUp[i] : i \in 1 .. Len(followUp)}
        \cup {pending[i] : i \in 1 .. Len(pending)}
        \cup {messages[p][2] : p \in {q \in 1 .. Len(messages) : IsUser(q)}}

NoSilentLoss ==
    [][\/ Held \subseteq Held'
       \/ resets' > resets
       \/ steering' = <<>> /\ UNCHANGED <<pc, pending, followUp, messages>>
       \/ followUp' = <<>> /\ UNCHANGED <<pc, pending, steering, messages>>
       \/ pc \in {"failing", "failed"} /\ UNCHANGED <<steering, followUp, messages>>
      ]_vars

(* Every run settles: the loop, its tools and its failure path leave no run *)
(* waiting for something that never happens.                                *)
RunSettles == activeRun # 0 ~> activeRun = 0

(* README of the package, line 157: "`agent_end` means no more loop events  *)
(* will be emitted".  A listener is only given events of the active run.    *)
EventsOfActiveRun ==
    [][\A o \in orphans : o \notin orphans' => activeRun \in {0, o[1]}]_vars
=============================================================================
